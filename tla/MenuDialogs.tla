---------------------------- MODULE MenuDialogs ----------------------------
(***************************************************************************)
(* The user's menu: telegram/routers/menu, and the messages with buttons   *)
(* that open windows from outside the dialogs: telegram/routers/extra/     *)
(* goto.py and infrastructure/services/redirect.py.                        *)
(***************************************************************************)
EXTENDS Widgets

SU == INSTANCE SubscriptionDialogs

----------------------------------------------------------------------------
(* menu/handlers.py *)
on_start_dialog    == Restarted(<<"MainMenu", "MAIN">>)
on_start_command   == on_start_dialog
on_rules_accept    == on_start_dialog
on_channel_confirm == on_start_dialog

\* A free trial ends in a redirect; a paid one opens the purchase.
on_get_trial ==
    Handler({}, {}, {Here, SU!on_subscription_start})

on_device_delete_request ==
    Holding({"hwid_map"}, Handler({}, {"selected_hwid"}, {To("DEVICE_CONFIRM_DELETE")}))
on_device_delete_confirm ==
    Handler({"selected_hwid"}, {}, {Here, To("DEVICES")})
on_device_delete_all_confirm    == Handler({}, {}, {Here, To("DEVICES")})
on_reissue_subscription_confirm == Handler({}, {}, {Here, To("DEVICES")})
show_reason             == Stays
on_show_qr              == Stays
on_text_button_click    == Stays
on_withdraw_points      == Stays
on_invite               == Handler({}, {}, {Here, To("INVITE")})
on_reset_referral_code  == Stays

(* menu/getters.py *)
menu_getter                   == NoGetter
devices_getter                == Needing({"subscription", "panel"},
                                         Handler({}, {"hwid_map"}, {Here}))
device_confirm_delete_getter  == NoGetter
invite_getter                 == NoGetter
invite_about_getter           == NoGetter

\* The buttons of the administrators' own, from keyboards.py: links, copies and messages.
build_buttons_row(text_on_click) == text_on_click
custom_buttons == build_buttons_row(on_text_button_click)

(* menu/dialog.py *)
menu == Window(menu_getter, {},
    show_reason \cup on_get_trial \cup Clicked("DEVICES")
      \cup Started(<<"Subscription", "MAIN">>) \cup on_invite \cup custom_buttons
      \cup ShownTo("VIEW_DASHBOARD", Restarted(<<"Dashboard", "MAIN">>))
      \cup on_smart_search)
devices == Window(devices_getter, Clicked("MAIN"),
    on_device_delete_request
      \cup Started(<<"MainMenu", "DEVICE_CONFIRM_DELETE_ALL">>)
      \cup Started(<<"MainMenu", "DEVICE_CONFIRM_REISSUE">>))
device_confirm_delete     == Window(device_confirm_delete_getter, Clicked("DEVICES"),
                                    on_device_delete_confirm)
device_confirm_delete_all == Window(device_confirm_delete_getter, Clicked("DEVICES"),
                                    on_device_delete_all_confirm)
device_confirm_reissue    == Window(device_confirm_delete_getter, Clicked("DEVICES"),
                                    on_reissue_subscription_confirm)
invite       == Window(invite_getter, Clicked("MAIN"),
                       Clicked("INVITE_ABOUT") \cup on_show_qr
                         \cup on_withdraw_points \cup on_reset_referral_code)
invite_about == Window(invite_about_getter, Clicked("INVITE"), {})

MainMenu ==
    [MAIN |-> menu, DEVICES |-> devices, DEVICE_CONFIRM_DELETE |-> device_confirm_delete,
     DEVICE_CONFIRM_DELETE_ALL |-> device_confirm_delete_all,
     DEVICE_CONFIRM_REISSUE |-> device_confirm_reissue,
     INVITE |-> invite, INVITE_ABOUT |-> invite_about]

(***************************************************************************)
(* Buttons under notifications (keyboards.py), deep links and commands.    *)
(* The buttons name the states they lead to; those under the notifications *)
(* of the administrators, a user.                                          *)
(***************************************************************************)
get_broadcast_buttons == {Resets(<<"Subscription", "MAIN">>, {}),
                          Resets(<<"Subscription", "PROMOCODE">>, {}),
                          Resets(<<"MainMenu", "INVITE">>, {})}
get_renew_keyboard == {Resets(<<"Subscription", "MAIN">>, {})}
get_buy_keyboard   == {Resets(<<"Subscription", "MAIN">>, {})}
get_user_keyboard  == {Resets(<<"DashboardUser", "MAIN">>, {StartTarget})}

on_goto ==
    Handler({}, {}, get_broadcast_buttons \cup get_renew_keyboard \cup get_buy_keyboard
                      \cup get_user_keyboard)
on_goto_plan   == Handler({}, {}, {Here, Resets(<<"Subscription", "PLAN">>, {"start.plan_id"})})
on_goto_invite == Handler({}, {}, {Here, Resets(<<"MainMenu", "INVITE">>, {})})
on_goto_promocode ==
    Handler({}, {}, {Here, Resets(<<"Subscription", "PROMOCODE">>, {}),
                     Resets(<<"Subscription", "PROMOCODE">>, {"start.prefill_dto"})})

\* Redirects by the program: after a trial or a payment.
to_success_trial   == Resets(<<"Subscription", "TRIAL">>, {})
to_success_payment == Resets(<<"Subscription", "SUCCESS">>, {"start.purchase_type"})
to_failed_payment  == Resets(<<"Subscription", "FAILED">>, {})
to_main_menu       == Resets(<<"MainMenu", "MAIN">>, {})
=============================================================================
