---------------------------- MODULE PlanDialogs ----------------------------
(***************************************************************************)
(* The editor of plans, telegram/routers/dashboard/remnashop/plans: a plan *)
(* is edited as a draft in dialog_data, filled from the database when a    *)
(* plan is chosen, or with defaults when the configurator opens without    *)
(* one, and written back when it is confirmed.                             *)
(***************************************************************************)
EXTENDS Widgets

PlanDto == "PlanDto"
\* Handlers that change the draft and stay, or then leave; or refuse a value.
Edits           == Handler({PlanDto}, {PlanDto}, {Here})
EditsThen(move) == Handler({PlanDto}, {PlanDto}, {Here, move})
ToConfigurator  == To("CONFIGURATOR")
ReadsDraft      == Handler({PlanDto}, {}, {Here})

(* plans/handlers.py *)
\* One imported plan becomes the draft; several are committed at once.
on_import_input ==
    Asking("REMNASHOP_PLAN_EDITOR",
        Handler({}, {}, {Here, To("MAIN")}) \cup Handler({}, {PlanDto}, {ToConfigurator}))
on_export_plan_select == Handler({}, {"selected_plans"}, {Here})
on_export ==
    Lacking({"selected_plans"}, Stays)
      \cup Holding({"selected_plans"}, Handler({}, {}, {Here, To("MAIN")}))
on_plan_select         == Handler({}, {PlanDto, "is_edit"}, {ToConfigurator})
on_plan_move           == Stays
on_plan_delete         == Handler({PlanDto}, {}, {Here, Resets(<<"RemnashopPlans", "MAIN">>, {})})
on_name_input          == Asking("REMNASHOP_PLAN_EDITOR", EditsThen(ToConfigurator))
on_description_input   == Asking("REMNASHOP_PLAN_EDITOR", EditsThen(ToConfigurator))
on_description_remove  == Edits
on_tag_input           == Asking("REMNASHOP_PLAN_EDITOR", EditsThen(ToConfigurator))
on_tag_remove          == Edits
on_trial_toggle        == Edits
on_type_select         == Asking("REMNASHOP_PLAN_EDITOR", EditsThen(ToConfigurator))
on_availability_select == EditsThen(ToConfigurator)
on_active_toggle       == Edits
on_traffic_input       == Asking("REMNASHOP_PLAN_EDITOR", EditsThen(ToConfigurator))
on_strategy_select     == EditsThen(ToConfigurator)
on_devices_input       == Asking("REMNASHOP_PLAN_EDITOR", EditsThen(ToConfigurator))
on_duration_select     == Handler({}, {"selected_duration"}, {To("PRICES")})
on_duration_move       == Edits
on_duration_remove     == Edits
on_duration_input      == Asking("REMNASHOP_PLAN_EDITOR", EditsThen(To("DURATIONS")))
on_currency_select     == Handler({}, {"selected_currency"}, {To("PRICE")})
on_price_input ==
    Asking("REMNASHOP_PLAN_EDITOR",
        Handler({"selected_duration", "selected_currency", PlanDto}, {PlanDto},
                {Here, To("PRICES")}))
on_allowed_user_input  == Edits
on_allowed_user_remove == Edits
on_squads              == Asking("REMNASHOP_PLAN_EDITOR", EditsThen(To("SQUADS")))
on_internal_squad_select == Edits
on_external_squad_select == Edits
\* reset_stack and then start, so that the list is alone on the stack.
on_plan_confirm ==
    Asking("REMNASHOP_PLAN_EDITOR",
        Handler({PlanDto}, {}, {Here, Resets(<<"RemnashopPlans", "MAIN">>, {})}))

(* plans/getters.py *)
plans_getter           == NoGetter
export_getter          == NoGetter
configurator_getter    == Holding({PlanDto}, NoGetter)
                            \cup Lacking({PlanDto}, Handler({}, {PlanDto}, {Here}))
name_getter            == ReadsDraft
description_getter     == ReadsDraft
tag_getter             == ReadsDraft
type_getter            == ReadsDraft
availability_getter    == NoGetter
traffic_getter         == ReadsDraft
durations_getter       == ReadsDraft
prices_getter          == Handler({PlanDto, "selected_duration"}, {}, {Here})
price_getter           == NoGetter
allowed_users_getter   == ReadsDraft
squads_getter          == Needing({"panel"}, ReadsDraft)
internal_squads_getter == Needing({"panel"}, ReadsDraft)
external_squads_getter == Needing({"panel"}, ReadsDraft)

(* plans/dialog.py *)
plans == Window(plans_getter,
    Restarted(<<"DashboardRemnashop", "MAIN">>) \cup main_menu_button,
    Clicked("CONFIGURATOR") \cup on_plan_select \cup on_plan_move
      \cup Clicked("IMPORT") \cup Clicked("EXPORT"))
plans_import == Window(NoGetter, Clicked("MAIN"), on_import_input)
plans_export == Window(export_getter, Clicked("MAIN"), on_export_plan_select \cup on_export)
configurator == Window(configurator_getter, Restarted(<<"RemnashopPlans", "MAIN">>),
    on_active_toggle \cup on_squads
      \cup UNION {Clicked(s) : s \in {"NAME", "DESCRIPTION", "AVAILABILITY", "TYPE", "TRAFFIC",
                                      "DEVICES", "TAG", "ALLOWED", "DURATIONS"}}
      \cup on_plan_confirm \cup Holding({"is_edit"}, on_plan_delete))
name         == Window(name_getter, Clicked("CONFIGURATOR"), on_name_input)
description  == Window(description_getter, Clicked("CONFIGURATOR"),
                       on_description_remove \cup on_description_input)
tag          == Window(tag_getter, Clicked("CONFIGURATOR"), on_tag_remove \cup on_tag_input)
plan_type    == Window(type_getter, Clicked("CONFIGURATOR"), on_trial_toggle \cup on_type_select)
availability == Window(availability_getter, Clicked("CONFIGURATOR"), on_availability_select)
traffic      == Window(traffic_getter, Clicked("CONFIGURATOR"),
                       on_strategy_select \cup on_traffic_input)
devices      == Window(NoGetter, Clicked("CONFIGURATOR"), on_devices_input)
durations    == Window(durations_getter, Clicked("CONFIGURATOR"),
                       on_duration_select \cup on_duration_move \cup on_duration_remove
                         \cup Clicked("DURATION_ADD"))
durations_add == Window(NoGetter, Clicked("DURATIONS"), on_duration_input)
prices        == Window(prices_getter, Clicked("DURATIONS"), on_currency_select)
price         == Window(price_getter, Clicked("PRICES"), on_price_input)
allowed_users == Window(allowed_users_getter, Clicked("CONFIGURATOR"),
                        on_allowed_user_remove \cup on_allowed_user_input)
squads          == Window(squads_getter, Clicked("CONFIGURATOR"),
                          Clicked("INTERNAL_SQUADS") \cup Clicked("EXTERNAL_SQUADS"))
internal_squads == Window(internal_squads_getter, Clicked("SQUADS"), on_internal_squad_select)
external_squads == Window(external_squads_getter, Clicked("SQUADS"), on_external_squad_select)

RemnashopPlans ==
    [MAIN |-> plans, IMPORT |-> plans_import, EXPORT |-> plans_export,
     CONFIGURATOR |-> configurator, NAME |-> name, DESCRIPTION |-> description, TAG |-> tag,
     TYPE |-> plan_type, AVAILABILITY |-> availability, TRAFFIC |-> traffic,
     DEVICES |-> devices, DURATIONS |-> durations, DURATION_ADD |-> durations_add,
     PRICES |-> prices, PRICE |-> price, ALLOWED |-> allowed_users, SQUADS |-> squads,
     INTERNAL_SQUADS |-> internal_squads, EXTERNAL_SQUADS |-> external_squads]
=============================================================================
