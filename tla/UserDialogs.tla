---------------------------- MODULE UserDialogs ----------------------------
(***************************************************************************)
(* The dashboard, its lists of users and the editor of one user:           *)
(* telegram/routers/dashboard/{dialog,handlers}.py, dashboard/users and    *)
(* dashboard/users/user.  The editor's handlers and getters take the user  *)
(* they act on from dialog_data, where the first window of the context     *)
(* puts it from start_data.                                                *)
(***************************************************************************)
EXTENDS Widgets, Sequences

Target == {TARGET_USER_ID}
\* Handlers that act on the edited user and stay, and those that then leave.
Acts              == Handler(Target, {}, {Here})
ActsThen(state)   == Handler(Target, {}, {Here, To(state)})
\* The same, guarded by the permission of the interactor that must succeed.
ActsFor(permission, state) == Asking(permission, ActsThen(state))

(* dashboard/handlers.py *)
on_transactions_list ==
    Handler({}, {}, {Here, Resets(<<"DashboardRemnashop", "TRANSACTIONS">>, {})})

(* dashboard/dialog.py *)
dashboard == Window(NoGetter, back_main_menu_button,
    ShownTo("VIEW_STATISTICS", Started(<<"DashboardStatistics", "MAIN">>))
      \cup ShownTo("VIEW_USERS", Restarted(<<"DashboardUsers", "MAIN">>))
      \cup ShownTo("VIEW_STATISTICS", on_transactions_list)
      \cup ShownTo("VIEW_BROADCAST", Restarted(<<"DashboardBroadcast", "MAIN">>))
      \cup ShownTo("VIEW_PROMOCODE", Restarted(<<"DashboardPromocodes", "MAIN">>))
      \cup ShownTo("VIEW_ACCESS", Restarted(<<"DashboardAccess", "MAIN">>))
      \cup ShownTo("VIEW_REMNAWAVE", Restarted(<<"DashboardRemnawave", "MAIN">>))
      \cup ShownTo("VIEW_REMNASHOP", Restarted(<<"DashboardRemnashop", "MAIN">>))
      \cup ShownTo("VIEW_IMPORTER", Started(<<"DashboardImporter", "MAIN">>))
      \cup on_smart_search)

Dashboard == [MAIN |-> dashboard]

----------------------------------------------------------------------------
(* dashboard/users/handlers.py *)
on_user_search ==
    Asking("USER_SEARCH",
        Handler({}, {}, {Here, start_user_window({}),
                         Opens(<<"DashboardUsers", "SEARCH_RESULTS">>, {"start.found_users"})}))

\* The editor remembers the list it was opened from, and what the list showed.
Origin(list) == "start.list_origin." \o list
on_user_select_in(list) ==
    Lacking({"start.found_users"}, Handler({}, {}, {start_user_window({Origin(list)})}))
      \cup Holding({"start.found_users"},
               Handler({}, {}, {start_user_window({Origin(list), "start.list_payload"})}))

on_unblock_all ==
    Handler({}, {}, {Here, Resets(<<"DashboardUsers", "BLACKLIST">>, {})})
on_blacklist_view   == Handler({}, {}, {Here, To("BLACKLIST_USERS")})
on_block_input      == Stays
on_source_delete    == Stays
on_source_sync      == Stays
on_source_add_input == Stays
on_clear_blocked_ids == Stays

(* dashboard/users/getters.py *)
search_results_getter    == Handler({"start.found_users"}, {}, {Here})
recent_registered_getter == NoGetter
recent_activity_getter   == NoGetter
blacklist_getter         == NoGetter
blacklist_users_getter   == NoGetter
blacklist_sources_getter == NoGetter

(* dashboard/users/dialog.py *)
users == Window(NoGetter, Restarted(<<"Dashboard", "MAIN">>) \cup main_menu_button,
    Clicked("SEARCH") \cup Clicked("RECENT_REGISTERED") \cup Clicked("RECENT_ACTIVITY")
      \cup Clicked("BLACKLIST"))
search            == Window(NoGetter, Clicked("MAIN"), on_user_search)
recent_registered == Window(recent_registered_getter, Clicked("MAIN"),
                            on_user_select_in("RECENT_REGISTERED"))
recent_activity   == Window(recent_activity_getter, Clicked("MAIN"),
                            on_user_select_in("RECENT_ACTIVITY"))
search_results    == Window(search_results_getter, Clicked("SEARCH"),
                            on_user_select_in("SEARCH_RESULTS"))
blacklist         == Window(blacklist_getter, Clicked("MAIN"),
                            on_blacklist_view \cup on_unblock_all \cup Clicked("BLACKLIST_BLOCK"))
blacklist_users   == Window(blacklist_users_getter, Clicked("BLACKLIST"),
                            on_user_select_in("BLACKLIST_USERS"))
blacklist_block   == Window(NoGetter, Clicked("BLACKLIST"),
                            Clicked("BLACKLIST_SOURCES") \cup on_clear_blocked_ids \cup on_block_input)
blacklist_sources == Window(blacklist_sources_getter, Clicked("BLACKLIST_BLOCK"),
                            on_source_delete \cup on_source_sync \cup on_source_add_input)

DashboardUsers ==
    [MAIN |-> users, SEARCH |-> search, SEARCH_RESULTS |-> search_results,
     RECENT_REGISTERED |-> recent_registered, RECENT_ACTIVITY |-> recent_activity,
     BLACKLIST |-> blacklist, BLACKLIST_USERS |-> blacklist_users,
     BLACKLIST_BLOCK |-> blacklist_block, BLACKLIST_SOURCES |-> blacklist_sources]

----------------------------------------------------------------------------
(* dashboard/users/user/handlers.py *)
on_back_to_list ==
    Lacking({Origin(l) : l \in {"RECENT_REGISTERED", "RECENT_ACTIVITY", "BLACKLIST_USERS",
                                "SEARCH_RESULTS"}},
        Restarted(<<"DashboardUsers", "MAIN">>))
      \cup UNION {Holding({Origin(l)}, Restarted(<<"DashboardUsers", l>>)) :
                    l \in {"RECENT_REGISTERED", "RECENT_ACTIVITY", "BLACKLIST_USERS"}}
      \cup Holding({Origin("SEARCH_RESULTS"), "start.list_payload"},
               Handler({}, {}, {Resets(<<"DashboardUsers", "SEARCH_RESULTS">>,
                                       {"start.found_users"})}))
      \cup Lacking({"start.list_payload"},
               Holding({Origin("SEARCH_RESULTS")}, Restarted(<<"DashboardUsers", "MAIN">>)))

on_user_select ==
    Handler(Target, {}, {start_user_window({"start.from_referral_user_id"})})
on_back_to_referrals ==
    Handler({"from_referral_user_id"}, {},
            {Resets(<<"DashboardUser", "REFERRALS">>, {StartTarget})})
on_block_toggle         == Acts
on_trial_toggle         == Acts
on_referral_reset       == Acts
on_role_select          == Acts
on_current_subscription == ActsThen("SUBSCRIPTION")
on_active_toggle        == Acts
on_subscription_delete  == ActsThen("MAIN")
on_devices              == ActsFor("USER_SUBSCRIPTION_EDITOR", "DEVICES_LIST")
on_device_delete        == Handler({"hwid_map", TARGET_USER_ID}, {}, {Here, To("SUBSCRIPTION")})
on_reset_traffic        == Acts
on_reissue_subscription == Acts
on_personal_discount_select == ActsFor("USER_EDITOR", "DISCOUNT")
on_personal_discount_input  == ActsFor("USER_EDITOR", "DISCOUNT")
on_purchase_discount_select == ActsFor("USER_EDITOR", "DISCOUNT")
on_purchase_discount_input  == ActsFor("USER_EDITOR", "DISCOUNT")
on_points_input         == Acts
on_points_select        == Acts
on_traffic_limit_select == ActsFor("USER_SUBSCRIPTION_EDITOR", "SUBSCRIPTION")
on_traffic_limit_input  == ActsFor("USER_SUBSCRIPTION_EDITOR", "SUBSCRIPTION")
on_device_limit_select  == ActsFor("USER_SUBSCRIPTION_EDITOR", "SUBSCRIPTION")
on_device_limit_input   == ActsFor("USER_SUBSCRIPTION_EDITOR", "SUBSCRIPTION")
on_internal_squad_select == Acts
on_external_squad_select == Acts
on_transactions         == ActsThen("TRANSACTIONS_LIST")
on_transaction_select   == Handler({}, {"selected_transaction"}, {To("TRANSACTION")})
on_go_to_user           == Handler(Target, {}, {start_user_window({})})
on_give_access          == Handler({}, {}, {Here, To("GIVE_ACCESS")})
on_plan_select          == Acts
on_duration_select      == Acts
on_duration_input       == Acts
on_send                 == Holding({"payload"}, ActsThen("MAIN")) \cup Lacking({"payload"}, Acts)
on_sync                 == ActsFor("USER_SYNC", "SYNC")
on_sync_from_remnawave  == ActsFor("USER_SYNC", "MAIN")
on_sync_from_remnashop  == ActsFor("USER_SYNC", "MAIN")
on_give_subscription    == ActsThen("GIVE_SUBSCRIPTION")
on_subscription_select  == Handler({}, {"selected_plan_id"}, {To("SUBSCRIPTION_DURATION")})
on_subscription_duration_select ==
    Asking("USER_SUBSCRIPTION_EDITOR",
           Handler({TARGET_USER_ID, "selected_plan_id"}, {}, {To("MAIN")}))

(* dashboard/users/user/getters.py *)
OfTarget == Handler(Target, {}, {Here})
\* Mutant: a message that was written and not sent is kept.
user_getter_Kept ==
    Asking("USER_EDITOR",
        Handler({StartTarget}, {TARGET_USER_ID, "from_referral_user_id"}, {Here}))
\* The first window of the editor: it names the user for all the others.
user_getter ==
    Asking("USER_EDITOR",
        Dropping({"payload"},
            Handler({StartTarget},
                    {TARGET_USER_ID, "from_referral_user_id"}, {Here})))
\* What another administrator, the user or the panel may have removed meanwhile.
subscription_getter  == Asking("USER_SUBSCRIPTION_EDITOR",
                               Needing({"subscription", "panel"}, OfTarget))
devices_list_getter  == Asking("USER_SUBSCRIPTION_EDITOR",
                               Needing({"subscription", "panel"},
                                       Handler(Target, {"hwid_map"}, {Here})))
discount_getter      == NoGetter
points_getter        == OfTarget
traffic_limit_getter == NoGetter
device_limit_getter  == NoGetter
squads_getter        == Needing({"subscription", "panel"}, OfTarget)
internal_squads_getter == Needing({"subscription", "panel"}, OfTarget)
external_squads_getter == Needing({"subscription", "panel"}, OfTarget)
expire_time_getter   == Needing({"subscription"}, OfTarget)
statistics_getter    == Asking("USER_EDITOR", OfTarget)
referrals_getter ==
    Holding(Target, NoGetter)
      \cup Lacking(Target, Handler({StartTarget}, Target, {Here}))
transactions_getter  == OfTarget
transaction_getter ==
    LET Default(key, start) ==
            Holding({key}, NoGetter) \cup Lacking({key}, Handler({start}, {key}, {Here}))
        Both(g, h) == {[a EXCEPT !.holds = @ \cup b.holds, !.lacks = @ \cup b.lacks,
                                 !.reads = @ \cup b.reads, !.writes = @ \cup b.writes] :
                          a \in g, b \in h}
    IN  Both(Default(TARGET_USER_ID, StartTarget),
             Default("selected_transaction", "start.selected_transaction"))
give_access_getter           == Needing({"plan"}, OfTarget)
give_subscription_getter     == Needing({"plan"}, OfTarget)
subscription_duration_getter == Needing({"plan"}, Handler({"selected_plan_id"}, {}, {Here}))
role_getter                  == OfTarget
sync_getter                  == Needing({"panel"}, OfTarget)

(* dashboard/users/user/dialog.py *)
user == Window(user_getter, on_back_to_list \cup back_main_menu_button,
    on_current_subscription \cup on_referral_reset \cup Clicked("STATISTICS")
      \cup on_transactions \cup on_sync \cup on_give_subscription \cup Clicked("MESSAGE")
      \cup on_give_access \cup Clicked("ROLE") \cup Clicked("DISCOUNT") \cup Clicked("POINTS")
      \cup on_trial_toggle \cup on_block_toggle
      \cup Holding({"start.from_referral_user_id"}, on_back_to_referrals))
subscription == Window(subscription_getter, Clicked("MAIN"),
    Clicked("TRAFFIC_LIMIT") \cup Clicked("DEVICE_LIMIT") \cup on_reset_traffic \cup on_devices
      \cup Clicked("EXPIRE_TIME") \cup Clicked("SQUADS") \cup on_active_toggle
      \cup on_subscription_delete \cup on_reissue_subscription)
traffic_limit == Window(traffic_limit_getter, Clicked("SUBSCRIPTION"),
                        on_traffic_limit_select \cup on_traffic_limit_input)
device_limit  == Window(device_limit_getter, Clicked("SUBSCRIPTION"),
                        on_device_limit_select \cup on_device_limit_input)
expire_time   == Window(expire_time_getter, Clicked("SUBSCRIPTION"),
                        on_duration_select \cup on_duration_input)
squads          == Window(squads_getter, Clicked("SUBSCRIPTION"),
                          Clicked("INTERNAL_SQUADS") \cup Clicked("EXTERNAL_SQUADS"))
internal_squads == Window(internal_squads_getter, Clicked("SQUADS"), on_internal_squad_select)
external_squads == Window(external_squads_getter, Clicked("SQUADS"), on_external_squad_select)
devices_list    == Window(devices_list_getter, Clicked("SUBSCRIPTION"), on_device_delete)
sync            == Window(sync_getter, Clicked("MAIN"),
                          on_sync_from_remnashop \cup on_sync_from_remnawave)
sync_waiting    == Window(sync_getter, Clicked("MAIN"), {})
give_subscription     == Window(give_subscription_getter, Clicked("MAIN"), on_subscription_select)
subscription_duration == Window(subscription_duration_getter, Clicked("GIVE_SUBSCRIPTION"),
                                on_subscription_duration_select)
statistics_of_user == Window(statistics_getter, Clicked("MAIN"), Clicked("REFERRALS"))
referrals_of_user  == Window(referrals_getter, Clicked("MAIN"), on_user_select)
transactions_list  == Window(transactions_getter, Clicked("MAIN"), on_transaction_select)
transaction == Window(transaction_getter,
    Lacking({"start.origin.all_transactions"}, Clicked("TRANSACTIONS_LIST"))
      \cup Holding({"start.origin.all_transactions"}, Restarted(<<"DashboardRemnashop", "TRANSACTIONS">>)),
    Holding({"start.origin.all_transactions"}, on_go_to_user))
message  == Window(NoGetter, Clicked("MAIN"), on_preview \cup on_send \cup on_content_input)
discount == Window(NoGetter, Clicked("MAIN"),
                   Clicked("PERSONAL_DISCOUNT") \cup Clicked("PURCHASE_DISCOUNT"))
personal_discount == Window(discount_getter, Clicked("DISCOUNT"),
                            on_personal_discount_select \cup on_personal_discount_input)
purchase_discount == Window(discount_getter, Clicked("DISCOUNT"),
                            on_purchase_discount_select \cup on_purchase_discount_input)
points      == Window(points_getter, Clicked("MAIN"), on_points_select \cup on_points_input)
give_access == Window(give_access_getter, Clicked("MAIN"), on_plan_select)
role        == Window(role_getter, Clicked("MAIN"), on_role_select)

DashboardUser ==
    [MAIN |-> user, SUBSCRIPTION |-> subscription, TRAFFIC_LIMIT |-> traffic_limit,
     DEVICE_LIMIT |-> device_limit, EXPIRE_TIME |-> expire_time, SQUADS |-> squads,
     INTERNAL_SQUADS |-> internal_squads, EXTERNAL_SQUADS |-> external_squads,
     DEVICES_LIST |-> devices_list, DISCOUNT |-> discount,
     PERSONAL_DISCOUNT |-> personal_discount, PURCHASE_DISCOUNT |-> purchase_discount,
     POINTS |-> points, STATISTICS |-> statistics_of_user, REFERRALS |-> referrals_of_user,
     ROLE |-> role, TRANSACTIONS_LIST |-> transactions_list, TRANSACTION |-> transaction,
     GIVE_ACCESS |-> give_access, MESSAGE |-> message, SYNC |-> sync,
     SYNC_WAITING |-> sync_waiting, GIVE_SUBSCRIPTION |-> give_subscription,
     SUBSCRIPTION_DURATION |-> subscription_duration]
=============================================================================
