---------------------------- MODULE PanelDialogs ----------------------------
(***************************************************************************)
(* The sections of the dashboard that look at the whole shop:              *)
(* telegram/routers/dashboard/{broadcast,statistics,remnawave,importer}.   *)
(***************************************************************************)
EXTENDS Widgets

(* broadcast/handlers.py *)
on_broadcast_list   == Handler({}, {}, {Here, To("LIST")})
on_broadcast_select_Unset == Clicked("VIEW")   \* mutant: the task is not remembered
on_broadcast_select == Handler({}, {"task_id"}, {To("VIEW")})
\* Broadcasting to the users of a plan asks for the plan first.
on_audience_select ==
    Asking("BROADCAST",
        Handler({}, {"audience_type"}, {Here, To("PLAN")})
          \cup Handler({}, {"audience_type", "audience_count"}, {To("SEND")}))
on_plan_select ==
    Asking("BROADCAST",
        Stays \cup Handler({}, {"plan_id", "audience_count"}, {To("SEND")}))
on_button_select == Handler({}, {"payload"}, {Here})
on_view_preview  == Stays
on_send ==
    Lacking({"payload"}, Stays)
      \cup Holding({"payload"},
               Handler({"audience_type"}, {}, {Here})
                 \cup Asking("BROADCAST",
                             Handler({"audience_type"}, {"task_id"}, {To("VIEW")})))
on_cancel == Handler({"task_id"}, {}, {Here})
on_delete == Handler({"task_id"}, {}, {Here})

(* broadcast/getters.py *)
audience_plans_getter == NoGetter
send_getter    == Handler({"audience_type", "audience_count"}, {}, {Here})
buttons_getter == NoGetter
list_getter    == NoGetter
view_getter    == Needing({"broadcast"}, Handler({"task_id"}, {}, {Here}))

(* broadcast/dialog.py *)
BackToBroadcast == Restarted(<<"DashboardBroadcast", "MAIN">>)
broadcast == Window(NoGetter, Restarted(<<"Dashboard", "MAIN">>) \cup main_menu_button,
                    on_broadcast_list \cup on_audience_select)
list == Window(list_getter, BackToBroadcast, on_broadcast_select)
view == Window(view_getter, Clicked("LIST"),
               Clicked("VIEW") \cup on_view_preview \cup on_cancel \cup on_delete)
plan == Window(audience_plans_getter, BackToBroadcast, on_plan_select)
send == Window(send_getter, BackToBroadcast, Clicked("CONTENT") \cup on_preview \cup on_send)
content == Window(NoGetter, Clicked("SEND"), Clicked("BUTTONS") \cup on_content_input)
buttons == Window(buttons_getter, Clicked("CONTENT"), on_button_select)

DashboardBroadcast ==
    [MAIN |-> broadcast, LIST |-> list, VIEW |-> view, PLAN |-> plan, SEND |-> send,
     CONTENT |-> content, BUTTONS |-> buttons]

----------------------------------------------------------------------------
(* statistics; the way back starts the dashboard without emptying the stack *)
PROMO_STAT_ID_KEY == "promo_stat_id"
on_gateway_select         == Stays
on_plan_statistics_select == Stays
on_promo_stat_select      == Handler({}, {PROMO_STAT_ID_KEY}, {To("PROMOCODE_DETAIL")})
on_promo_stat_page_next   == Stays
on_promo_stat_page_prev   == Stays
users_statistics_getter   == Asking("VIEW_STATISTICS", NoGetter)
transactions_getter       == Asking("VIEW_STATISTICS", NoGetter)
subscriptions_getter      == Asking("VIEW_STATISTICS", NoGetter)
promocodes_getter         == Asking("VIEW_STATISTICS", NoGetter)
promocode_detail_getter   == Asking("VIEW_STATISTICS",
    Needing({"promocode"}, Handler({PROMO_STAT_ID_KEY}, {}, {Here})))
referrals_getter          == Asking("VIEW_STATISTICS", NoGetter)

statistics == Window(NoGetter, Started(<<"Dashboard", "MAIN">>) \cup main_menu_button,
    UNION {Clicked(s) : s \in {"USERS", "SUBSCRIPTIONS", "TRANSACTIONS", "PROMOCODES",
                               "REFERRALS"}})
users_statistics == Window(users_statistics_getter, Clicked("MAIN") \cup main_menu_button, {})
subscriptions    == Window(subscriptions_getter, Clicked("MAIN") \cup main_menu_button,
                           on_plan_statistics_select)
transactions     == Window(transactions_getter, Clicked("MAIN") \cup main_menu_button,
                           on_gateway_select)
promocodes       == Window(promocodes_getter, Clicked("MAIN") \cup main_menu_button,
                           on_promo_stat_select \cup on_promo_stat_page_prev
                             \cup on_promo_stat_page_next)
promocode_detail == Window(promocode_detail_getter, Clicked("PROMOCODES") \cup main_menu_button,
                           {})
referrals        == Window(referrals_getter, Clicked("MAIN") \cup main_menu_button, {})

DashboardStatistics ==
    [MAIN |-> statistics, USERS |-> users_statistics, SUBSCRIPTIONS |-> subscriptions,
     TRANSACTIONS |-> transactions, PROMOCODES |-> promocodes,
     PROMOCODE_DETAIL |-> promocode_detail, REFERRALS |-> referrals]

----------------------------------------------------------------------------
(* remnawave: the getters ask the panel *)
OfPanel         == Needing({"panel"}, NoGetter)
system_getter   == OfPanel
users_getter    == OfPanel
hosts_getter    == OfPanel
nodes_getter    == OfPanel
inbounds_getter == OfPanel

remnawave == Window(system_getter, Restarted(<<"Dashboard", "MAIN">>) \cup main_menu_button,
    UNION {Clicked(s) : s \in {"USERS", "HOSTS", "NODES", "INBOUNDS"}})
users    == Window(users_getter, Clicked("MAIN"), {})
hosts    == Window(hosts_getter, Clicked("MAIN"), {})
nodes    == Window(nodes_getter, Clicked("MAIN"), {})
inbounds == Window(inbounds_getter, Clicked("MAIN"), {})

DashboardRemnawave == [MAIN |-> remnawave, USERS |-> users, HOSTS |-> hosts, NODES |-> nodes,
                       INBOUNDS |-> inbounds]

----------------------------------------------------------------------------
(* importer/handlers.py: the handlers wait for the task they queued *)
ImportUsers ==
    Handler({"users"}, {}, {Here})
      \cup Holding({"selected_squads"},
               Handler({"users"}, {"has_started", "completed"}, {To("IMPORT_COMPLETED")}))
on_database_input    == Stays \cup Asking("IMPORTER", Handler({}, {"users"}, {Here}))
on_squads            == Handler({}, {}, {Here, To("SQUADS")})
on_squad_select      == Handler({}, {"selected_squads"}, {Here})
                          \cup Dropping({"selected_squads"}, Stays)
on_import_all_xui    == ImportUsers
on_import_active_xui == ImportUsers
on_sync_from_panel   == Stays \cup Handler({}, {"completed"}, {To("SYNC_PANEL_COMPLETED")})
on_sync_from_bot     == Stays \cup Handler({}, {"completed"}, {To("SYNC_BOT_COMPLETED")})
OfCompleted == Handler({"completed"}, {}, {Here})
from_xui_getter             == NoGetter
squads_getter               == OfPanel
import_completed_getter     == OfCompleted
sync_panel_completed_getter == OfCompleted
sync_bot_completed_getter   == OfCompleted

(* importer/dialog.py *)
BackToImporter == Restarted(<<"DashboardImporter", "MAIN">>)
importer == Window(NoGetter, Restarted(<<"Dashboard", "MAIN">>) \cup main_menu_button,
    Clicked("FROM_XUI") \cup Clicked("SYNC_PANEL") \cup Clicked("SYNC_BOT"))
sync_panel == Window(NoGetter, Clicked("MAIN") \cup main_menu_button, on_sync_from_panel)
sync_bot   == Window(NoGetter, Clicked("MAIN") \cup main_menu_button, on_sync_from_bot)
from_xui   == Window(from_xui_getter, BackToImporter \cup main_menu_button,
    on_database_input
      \cup Lacking({"has_started"}, Holding({"users"},
               on_squads \cup on_import_all_xui \cup on_import_active_xui)))
import_completed == Window(import_completed_getter, BackToImporter \cup back_main_menu_button, {})
squads           == Window(squads_getter, Clicked("FROM_XUI"), on_squad_select)
sync_panel_completed == Window(sync_panel_completed_getter,
                               BackToImporter \cup back_main_menu_button, {})
sync_bot_completed   == Window(sync_bot_completed_getter,
                               BackToImporter \cup back_main_menu_button, {})

DashboardImporter ==
    [MAIN |-> importer, FROM_XUI |-> from_xui, SQUADS |-> squads,
     IMPORT_COMPLETED |-> import_completed, SYNC_PANEL |-> sync_panel,
     SYNC_PANEL_COMPLETED |-> sync_panel_completed, SYNC_BOT |-> sync_bot,
     SYNC_BOT_COMPLETED |-> sync_bot_completed]
=============================================================================
