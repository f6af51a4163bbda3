-------------------------- MODULE PromocodeDialogs --------------------------
(***************************************************************************)
(* The editor of promo codes, telegram/routers/dashboard/promocodes: like  *)
(* the plans', it edits a draft in dialog_data and writes it back when it  *)
(* is confirmed.                                                           *)
(***************************************************************************)
EXTENDS Widgets

PromocodeDto == "PromocodeDto"
PROMO_PLAN_ID_KEY == "promo_plan_id"
Edits          == Handler({PromocodeDto}, {PromocodeDto}, {Here})
ToConfigurator == To("CONFIGURATOR")
\* A value typed or chosen: refused, or stored in the draft.
Sets           == Stays \cup Handler({PromocodeDto}, {PromocodeDto}, {ToConfigurator})

(* promocodes/handlers.py *)
on_promo_select ==
    Asking("VIEW_PROMOCODE", Stays \cup Handler({}, {PromocodeDto, "is_edit"}, {ToConfigurator}))
on_create_promo ==
    Asking("MANAGE_PROMOCODE",
           Dropping({"is_edit"}, Handler({}, {PromocodeDto}, {ToConfigurator})))
on_promo_confirm ==
    Asking("MANAGE_PROMOCODE",
        Handler({PromocodeDto}, {}, {Here, Resets(<<"DashboardPromocodes", "MAIN">>, {})}))
on_toggle_active   == Edits
on_toggle_reusable == Edits
on_delete_promo ==
    Asking("MANAGE_PROMOCODE",
        Handler({PromocodeDto}, {}, {Here, Resets(<<"DashboardPromocodes", "MAIN">>, {})}))
on_code_regenerate       == Edits
on_code_input            == Sets
on_type_select           == Sets
on_reward_input          == Sets
on_plan_open             == Handler({}, {}, {Here, To("PLAN")})
on_plan_select           == Handler({}, {PROMO_PLAN_ID_KEY}, {To("PLAN_DURATION")})
on_plan_duration_select  == Sets
on_availability_select   == Sets
on_expires_input         == Sets
on_expires_reset         == Sets
on_max_activations_input == Sets
on_max_activations_reset == Sets
on_page_next             == Stays
on_page_prev             == Stays

(* promocodes/getters.py *)
getter_promocodes_main == Asking("VIEW_PROMOCODE", NoGetter)
getter_configurator ==
    Holding({PromocodeDto}, NoGetter)
      \cup Lacking({PromocodeDto}, Handler({}, {PromocodeDto}, {Here}))
getter_type_select          == NoGetter
getter_plan_select          == NoGetter
getter_plan_duration_select == NoGetter
getter_availability_select  == NoGetter
getter_code                 == NoGetter
getter_reward               == NoGetter
getter_expires              == NoGetter
getter_max_activations      == NoGetter

(* promocodes/dialog.py *)
promocodes_main == Window(getter_promocodes_main,
    Restarted(<<"Dashboard", "MAIN">>) \cup main_menu_button,
    ShownTo("MANAGE_PROMOCODE", on_create_promo) \cup on_promo_select
      \cup on_page_prev \cup on_page_next)
configurator == Window(getter_configurator, Restarted(<<"DashboardPromocodes", "MAIN">>),
    ShownTo("MANAGE_PROMOCODE", on_toggle_active \cup on_toggle_reusable \cup on_promo_confirm)
      \cup UNION {Clicked(s) : s \in {"CODE", "TYPE", "REWARD", "AVAILABILITY", "EXPIRES",
                                      "MAX_ACTIVATIONS"}}
      \cup on_plan_open
      \cup ShownTo("MANAGE_PROMOCODE", Holding({"is_edit"}, on_delete_promo)))
code_input   == Window(getter_code, Clicked("CONFIGURATOR"), on_code_regenerate \cup on_code_input)
type_select  == Window(getter_type_select, Clicked("CONFIGURATOR"), on_type_select)
reward_input == Window(getter_reward, Clicked("CONFIGURATOR"), on_reward_input)
plan_select  == Window(getter_plan_select, Clicked("CONFIGURATOR"), on_plan_select)
plan_duration_select  == Window(getter_plan_duration_select, Clicked("PLAN"),
                                on_plan_duration_select)
availability_select   == Window(getter_availability_select, Clicked("CONFIGURATOR"),
                                on_availability_select)
expires_input         == Window(getter_expires, Clicked("CONFIGURATOR"),
                                on_expires_reset \cup on_expires_input)
max_activations_input == Window(getter_max_activations, Clicked("CONFIGURATOR"),
                                on_max_activations_reset \cup on_max_activations_input)

DashboardPromocodes ==
    [MAIN |-> promocodes_main, CONFIGURATOR |-> configurator, CODE |-> code_input,
     TYPE |-> type_select, REWARD |-> reward_input, PLAN |-> plan_select,
     PLAN_DURATION |-> plan_duration_select, AVAILABILITY |-> availability_select,
     EXPIRES |-> expires_input, MAX_ACTIVATIONS |-> max_activations_input]
=============================================================================
