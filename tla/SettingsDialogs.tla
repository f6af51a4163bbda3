-------------------------- MODULE SettingsDialogs --------------------------
(***************************************************************************)
(* The shop's settings: telegram/routers/dashboard/access and, under       *)
(* dashboard/remnashop, the section's own windows, extra, backup,          *)
(* referral, gateways and notifications.  Most handlers change a setting   *)
(* and stay, or go back to the window they came from.                      *)
(***************************************************************************)
EXTENDS Widgets

\* A value sent or chosen: refused, or stored and the window left.
Stores(permission, state) == Asking(permission, Handler({}, {}, {Here, To(state)}))
BackToRemnashop == Restarted(<<"DashboardRemnashop", "MAIN">>)

(* remnashop/handlers.py *)
on_logs_request == Stays
on_user_select  == Handler({}, {}, {start_user_window({})})
on_role_revoke  == Stays
on_all_transaction_select ==
    Handler({}, {}, {Here, start_user_transaction_window({"start.origin.all_transactions"})})

(* remnashop/getters.py *)
remnashop_getter        == NoGetter
admins_getter           == Asking("MANAGE_ADMINS", NoGetter)
all_transactions_getter == NoGetter

(* remnashop/dialog.py *)
remnashop == Window(remnashop_getter, Restarted(<<"Dashboard", "MAIN">>) \cup main_menu_button,
    ShownTo("VIEW_ADMINS", Clicked("ADMINS"))
      \cup ShownTo("VIEW_GATEWAYS", Started(<<"RemnashopGateways", "MAIN">>))
      \cup ShownTo("VIEW_REFERRAL", Started(<<"RemnashopReferral", "MAIN">>))
      \cup ShownTo("VIEW_ADVERTISING", Started(<<"RemnashopAdvertising", "MAIN">>))
      \cup ShownTo("VIEW_PLANS", Restarted(<<"RemnashopPlans", "MAIN">>))
      \cup ShownTo("VIEW_NOTIFICATIONS", Started(<<"RemnashopNotifications", "MAIN">>))
      \cup ShownTo("VIEW_LOGS", on_logs_request)
      \cup ShownTo("VIEW_BACKUP", Started(<<"RemnashopBackup", "MAIN">>))
      \cup ShownTo("VIEW_MENU_EDITOR", Started(<<"RemnashopMenuEditor", "MAIN">>))
      \cup ShownTo("VIEW_EXTRA_SETTINGS", Started(<<"RemnashopExtra", "MAIN">>)))
admins == Window(admins_getter, BackToRemnashop, on_user_select \cup on_role_revoke)
all_transactions == Window(all_transactions_getter, Clicked("MAIN"), on_all_transaction_select)

DashboardRemnashop == [MAIN |-> remnashop, ADMINS |-> admins, TRANSACTIONS |-> all_transactions]

----------------------------------------------------------------------------
(* remnashop/extra *)
on_toggle                     == Stays
on_trial_channel_guard_toggle == Stays
on_mini_app_reserve_toggle    == Stays
on_cooldown_input             == Stays
extra_getter                  == NoGetter

extra == Window(extra_getter, BackToRemnashop,
    UNION {Clicked(s) : s \in {"DEVICE_SINGLE", "DEVICE_ALL", "LINK_RESET", "REFERRAL_RESET",
                               "TRIAL_CHANNEL_GUARD", "MINI_APP_RESERVE"}})
device_single       == Window(extra_getter, Clicked("MAIN"), on_toggle \cup on_cooldown_input)
device_all          == Window(extra_getter, Clicked("MAIN"), on_toggle \cup on_cooldown_input)
link_reset          == Window(extra_getter, Clicked("MAIN"), on_toggle \cup on_cooldown_input)
referral_reset      == Window(extra_getter, Clicked("MAIN"), on_toggle \cup on_cooldown_input)
trial_channel_guard == Window(extra_getter, Clicked("MAIN"), on_trial_channel_guard_toggle)
mini_app_reserve    == Window(extra_getter, Clicked("MAIN"), on_mini_app_reserve_toggle)

RemnashopExtra ==
    [MAIN |-> extra, DEVICE_SINGLE |-> device_single, DEVICE_ALL |-> device_all,
     LINK_RESET |-> link_reset, REFERRAL_RESET |-> referral_reset,
     TRIAL_CHANNEL_GUARD |-> trial_channel_guard, MINI_APP_RESERVE |-> mini_app_reserve]

----------------------------------------------------------------------------
(* remnashop/backup *)
on_backup_toggle         == Stays
on_toggle_send_to_chat   == Stays
on_interval_input        == Stores("SETTINGS_BACKUP", "MAIN")
on_max_files_input       == Stores("SETTINGS_BACKUP", "MAIN")
on_backup_assets         == Stays
on_backup_database       == Stays
backup_getter            == NoGetter

backup    == Window(backup_getter, BackToRemnashop,
    on_backup_toggle \cup on_toggle_send_to_chat \cup Clicked("INTERVAL") \cup Clicked("MAX_FILES")
      \cup on_backup_assets \cup on_backup_database)
interval  == Window(backup_getter, Clicked("MAIN"), on_interval_input)
max_files == Window(backup_getter, Clicked("MAIN"), on_max_files_input)

RemnashopBackup == [MAIN |-> backup, INTERVAL |-> interval, MAX_FILES |-> max_files]

----------------------------------------------------------------------------
(* remnashop/referral; its way back starts the section without emptying the stack *)
on_enable_toggle           == Stays
on_level_select            == Stores("SETTINGS_REFERRAL", "MAIN")
on_reward_select           == Stores("SETTINGS_REFERRAL", "MAIN")
on_accrual_strategy_select == Stores("SETTINGS_REFERRAL", "MAIN")
on_reward_strategy_select  == Stores("SETTINGS_REFERRAL", "MAIN")
on_reward_input            == Stays
referral_getter            == NoGetter
reward_getter              == NoGetter

referral == Window(referral_getter,
    Started(<<"DashboardRemnashop", "MAIN">>) \cup main_menu_button,
    on_enable_toggle
      \cup UNION {Clicked(s) : s \in {"LEVEL", "REWARD_TYPE", "ACCRUAL_STRATEGY",
                                      "REWARD_STRATEGY", "REWARD"}})
level            == Window(NoGetter, Clicked("MAIN"), on_level_select)
reward_type      == Window(NoGetter, Clicked("MAIN"), on_reward_select)
reward           == Window(reward_getter, Clicked("MAIN"), on_reward_input)
accrual_strategy == Window(NoGetter, Clicked("MAIN"), on_accrual_strategy_select)
reward_strategy  == Window(NoGetter, Clicked("MAIN"), on_reward_strategy_select)

RemnashopReferral ==
    [MAIN |-> referral, LEVEL |-> level, REWARD |-> reward, REWARD_TYPE |-> reward_type,
     ACCRUAL_STRATEGY |-> accrual_strategy, REWARD_STRATEGY |-> reward_strategy]

----------------------------------------------------------------------------
(* remnashop/gateways *)
OfField == {"gateway_id", "selected_field"}
on_gateway_select          == Stays \cup Handler({}, {"gateway_id"}, {To("SETTINGS")})
on_gateway_test            == Stays
on_active_toggle           == Stays
on_field_select            == Handler({}, {"selected_field"}, {To("FIELD")})
on_field_input             == Asking("REMNASHOP_GATEWAYS",
                                     Handler(OfField, {}, {Here, To("SETTINGS")}))
on_field_reset             == Asking("REMNASHOP_GATEWAYS", Handler(OfField, {}, {To("SETTINGS")}))
on_default_currency_select == Stays
on_gateway_move            == Stays
gateways_getter  == NoGetter
gateway_getter   == Handler({"gateway_id"}, {}, {Here})
field_getter     == Handler(OfField, {}, {Here})
currency_getter  == NoGetter
placement_getter == NoGetter

gateways == Window(gateways_getter, BackToRemnashop \cup main_menu_button,
    on_gateway_select \cup on_gateway_test \cup on_active_toggle
      \cup Clicked("PLACEMENT") \cup Clicked("CURRENCY"))
gateway_settings == Window(gateway_getter, Clicked("MAIN"), on_field_select)
gateway_field    == Window(field_getter, Clicked("SETTINGS"), on_field_reset \cup on_field_input)
default_currency == Window(currency_getter, Clicked("MAIN"), on_default_currency_select)
placement        == Window(placement_getter, Clicked("MAIN"), on_gateway_move)

RemnashopGateways ==
    [MAIN |-> gateways, SETTINGS |-> gateway_settings, FIELD |-> gateway_field,
     CURRENCY |-> default_currency, PLACEMENT |-> placement]

----------------------------------------------------------------------------
(* remnashop/notifications; like referral, it starts the section anew on the way back *)
OfType == {"notification_type"}
StoresRoute == Asking("SETTINGS_NOTIFICATIONS", Handler(OfType, {}, {Here, To("SYSTEM_ROUTE")}))
StoresDefault == Stores("SETTINGS_NOTIFICATIONS", "SYSTEM_DEFAULT_ROUTE")
on_user_type_select               == Stays
on_system_type_select             == Handler({}, OfType, {To("SYSTEM_TYPE")})
on_system_type_toggle             == Handler(OfType, {}, {Here})
on_route_clear                    == StoresRoute
on_route_chat_id_input            == StoresRoute
on_route_thread_id_input          == StoresRoute
on_default_route_clear            == StoresDefault
on_default_route_chat_id_input    == StoresDefault
on_default_route_thread_id_input  == StoresDefault
user_types_getter           == NoGetter
system_types_getter         == NoGetter
system_type_getter          == Handler(OfType, {}, {Here})
system_route_getter         == Handler(OfType, {}, {Here})
system_default_route_getter == NoGetter

notifications == Window(NoGetter,
    Started(<<"DashboardRemnashop", "MAIN">>) \cup main_menu_button,
    Clicked("USER") \cup Clicked("SYSTEM"))
user        == Window(user_types_getter, Clicked("MAIN"), on_user_type_select)
system      == Window(system_types_getter, Clicked("MAIN"),
                      Clicked("SYSTEM_DEFAULT_ROUTE") \cup on_system_type_select)
system_type == Window(system_type_getter, Clicked("SYSTEM"),
                      on_system_type_toggle \cup Clicked("SYSTEM_ROUTE"))
\* Mutant: the way back copied from the window above.
system_route_Copied == Window(system_route_getter, Clicked("SYSTEM_ROUTE_CHAT_ID"), on_route_clear)
system_route == Window(system_route_getter, Clicked("SYSTEM_TYPE"),
    Clicked("SYSTEM_ROUTE_CHAT_ID") \cup Clicked("SYSTEM_ROUTE_THREAD_ID") \cup on_route_clear)
system_route_chat_id   == Window(system_route_getter, Clicked("SYSTEM_ROUTE"),
                                 on_route_chat_id_input)
system_route_thread_id == Window(system_route_getter, Clicked("SYSTEM_ROUTE"),
                                 on_route_thread_id_input)
system_default_route == Window(system_default_route_getter, Clicked("SYSTEM"),
    Clicked("SYSTEM_DEFAULT_ROUTE_CHAT_ID") \cup Clicked("SYSTEM_DEFAULT_ROUTE_THREAD_ID")
      \cup on_default_route_clear)
system_default_route_chat_id   == Window(system_default_route_getter,
    Clicked("SYSTEM_DEFAULT_ROUTE"), on_default_route_chat_id_input)
system_default_route_thread_id == Window(system_default_route_getter,
    Clicked("SYSTEM_DEFAULT_ROUTE"), on_default_route_thread_id_input)

RemnashopNotifications ==
    [MAIN |-> notifications, USER |-> user, SYSTEM |-> system, SYSTEM_TYPE |-> system_type,
     SYSTEM_ROUTE |-> system_route, SYSTEM_ROUTE_CHAT_ID |-> system_route_chat_id,
     SYSTEM_ROUTE_THREAD_ID |-> system_route_thread_id,
     SYSTEM_DEFAULT_ROUTE |-> system_default_route,
     SYSTEM_DEFAULT_ROUTE_CHAT_ID |-> system_default_route_chat_id,
     SYSTEM_DEFAULT_ROUTE_THREAD_ID |-> system_default_route_thread_id]

----------------------------------------------------------------------------
(* dashboard/access *)
on_access_mode_select  == Stays
on_payments_toggle     == Stays
on_registration_toggle == Stays
on_condition_toggle    == Stays
on_rules_input         == Stores("SETTINGS_REQUIREMENT", "CONDITIONS")
on_channel_input       == Stays
access_getter          == NoGetter
conditions_getter      == NoGetter
rules_getter           == NoGetter
channel_getter         == NoGetter

access == Window(access_getter, Restarted(<<"Dashboard", "MAIN">>) \cup main_menu_button,
    Clicked("CONDITIONS") \cup on_payments_toggle \cup on_registration_toggle
      \cup on_access_mode_select)
conditions == Window(conditions_getter, Clicked("MAIN"),
    ShownTo("SETTINGS_REQUIREMENT",
            Clicked("RULES") \cup Clicked("CHANNEL") \cup on_condition_toggle))
rules   == Window(rules_getter, Clicked("CONDITIONS"), on_rules_input)
channel == Window(channel_getter, Clicked("CONDITIONS"), on_channel_input)

DashboardAccess == [MAIN |-> access, CONDITIONS |-> conditions, RULES |-> rules,
                    CHANNEL |-> channel]
=============================================================================
