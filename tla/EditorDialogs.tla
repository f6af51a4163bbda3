--------------------------- MODULE EditorDialogs ---------------------------
(***************************************************************************)
(* The editors of the menu's own buttons and of advertising links:         *)
(* telegram/routers/dashboard/remnashop/{menu_editor,advertising}.         *)
(***************************************************************************)
EXTENDS Widgets

(* menu_editor/handlers.py *)
ButtonDraft == "button"
EditsButton == Handler({ButtonDraft}, {ButtonDraft}, {Here})
SetsButton  == Handler({ButtonDraft}, {}, {Here})
                 \cup Handler({ButtonDraft}, {ButtonDraft}, {To("BUTTON")})
on_button_selected ==
    Handler({"buttons"}, {}, {Here}) \cup Handler({"buttons"}, {ButtonDraft}, {To("BUTTON")})
on_active_toggle           == EditsButton
on_subscribers_only_toggle == EditsButton
on_text_input              == Asking("SETTINGS_MENU", SetsButton)
on_availability_select     == SetsButton
on_type_select             == SetsButton
on_payload_input           == Asking("SETTINGS_MENU", SetsButton)
on_color_select            == Asking("SETTINGS_MENU", SetsButton)
on_confirm ==
    Asking("SETTINGS_MENU",
        Handler({ButtonDraft}, {}, {Here, Resets(<<"RemnashopMenuEditor", "MAIN">>, {})}))

(* menu_editor/getters.py *)
menu_editor_getter  == Handler({}, {"buttons"}, {Here})
button_getter       == Handler({ButtonDraft}, {}, {Here})
availability_getter == NoGetter
type_getter         == NoGetter

(* menu_editor/dialog.py *)
menu_editor == Window(menu_editor_getter,
    Restarted(<<"DashboardRemnashop", "MAIN">>) \cup main_menu_button, on_button_selected)
button == Window(button_getter, Restarted(<<"RemnashopMenuEditor", "MAIN">>),
    on_active_toggle \cup on_subscribers_only_toggle \cup on_confirm
      \cup UNION {Clicked(s) : s \in {"TEXT", "AVAILABILITY", "TYPE", "PAYLOAD", "COLOR"}})
button_text         == Window(NoGetter, Clicked("BUTTON"), on_text_input)
button_availability == Window(availability_getter, Clicked("BUTTON"), on_availability_select)
button_type         == Window(type_getter, Clicked("BUTTON"), on_type_select)
button_payload      == Window(button_getter, Clicked("BUTTON"), on_payload_input)
button_color        == Window(NoGetter, Clicked("BUTTON"), on_color_select)

RemnashopMenuEditor ==
    [MAIN |-> menu_editor, BUTTON |-> button, TEXT |-> button_text,
     AVAILABILITY |-> button_availability, TYPE |-> button_type, PAYLOAD |-> button_payload,
     COLOR |-> button_color]

----------------------------------------------------------------------------
(* advertising/handlers.py: without a draft the handlers take a new link. *)
AdLinkDto == "AdLinkDto"
SetsLink  == Stays \cup Handler({}, {AdLinkDto}, {To("CONFIGURATOR")})
OfLink(handler) == Lacking({AdLinkDto}, Stays) \cup Holding({AdLinkDto}, handler)
on_link_create     == Asking("VIEW_ADVERTISING",
                             Handler({}, {AdLinkDto}, {To("CONFIGURATOR")}))
on_link_select     == Asking("VIEW_ADVERTISING", SetsLink)
on_link_active_toggle == OfLink(Stays)
on_name_input      == SetsLink
on_code_regenerate == Asking("VIEW_ADVERTISING", Handler({}, {AdLinkDto}, {Here}))
on_code_input      == SetsLink
on_link_confirm ==
    Asking("VIEW_ADVERTISING",
        OfLink(Handler({}, {}, {Here, Resets(<<"RemnashopAdvertising", "MAIN">>, {})})))
on_link_delete ==
    Asking("VIEW_ADVERTISING",
        OfLink(Handler({}, {}, {Here, Resets(<<"RemnashopAdvertising", "MAIN">>, {})})))

(* advertising/getters.py *)
links_getter        == Asking("VIEW_ADVERTISING", NoGetter)
configurator_getter == NoGetter
name_getter         == NoGetter
code_getter         == NoGetter
stats_getter        == Asking("VIEW_ADVERTISING", NoGetter)

(* advertising/dialog.py *)
links == Window(links_getter,
    Restarted(<<"DashboardRemnashop", "MAIN">>) \cup main_menu_button,
    on_link_create \cup on_link_select)
configurator == Window(configurator_getter, Restarted(<<"RemnashopAdvertising", "MAIN">>),
    Clicked("STATS") \cup on_link_active_toggle \cup Clicked("NAME") \cup Clicked("CODE")
      \cup on_link_confirm \cup on_link_delete)
name  == Window(name_getter, Clicked("CONFIGURATOR"), on_name_input)
code  == Window(code_getter, Clicked("CONFIGURATOR"), on_code_regenerate \cup on_code_input)
stats == Window(stats_getter, Clicked("CONFIGURATOR"), {})

RemnashopAdvertising ==
    [MAIN |-> links, CONFIGURATOR |-> configurator, NAME |-> name, CODE |-> code,
     STATS |-> stats]
=============================================================================
