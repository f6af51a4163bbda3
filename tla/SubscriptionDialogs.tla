------------------------- MODULE SubscriptionDialogs -------------------------
(***************************************************************************)
(* The purchase of a subscription and the entry of a promo code:           *)
(* telegram/routers/subscription.  The plan, its duration and the payment  *)
(* method are collected in dialog_data, and a payment is created, or taken *)
(* from payment_cache, before the last window shows it.  A key that holds  *)
(* False is absent.  A payment that cannot be created raises, and the      *)
(* dialog stays as it was.                                                 *)
(***************************************************************************)
EXTENDS Widgets

PlanDto              == "PlanDto"
PAYMENT_CACHE_KEY    == "payment_cache"
CURRENT_DURATION_KEY == "selected_duration"
CURRENT_METHOD_KEY   == "selected_payment_method"

\* _save_payment_data: the payment the last window shows.
payment_data == {"payment_id", "payment_url", "final_pricing"}
\* _load_payment_data and _create_payment_and_get_data: the payment of a
\* duration and a method for this kind of purchase, from the cache or new.
PaymentOf(reads, writes) ==
    Handler({"purchase_type"} \cup reads,
            {CURRENT_METHOD_KEY} \cup payment_data \cup writes, {To("CONFIRM")})
StartAgain == Started(<<"Subscription", "MAIN">>)

(* handlers.py *)
\* A paid trial skips to the choice of the method (the dialog's on_start).
on_subscription_start ==
    Opens(<<"Subscription", "PAYMENT_METHOD">>,
          {"start.trial_plan", "start.trial_duration", PlanDto, "purchase_type",
           CURRENT_DURATION_KEY, "only_single_plan", "only_single_duration"})

_resolve_renew_plan ==
    Stays
      \cup Handler({}, {PlanDto, "only_single_plan", "plan_is_modified"}, {To("DURATION")})
      \cup Dropping({"plan_is_modified"},
                    Handler({}, {PlanDto, "only_single_plan"}, {To("DURATION")}))

\* What there is only one of is selected at once.
on_subscription_plans ==
    LET Also(set, handler) == {[o EXCEPT !.writes = @ \cup set] : o \in handler}
        one_plan     == {PlanDto, "only_single_plan"}
        one_duration == one_plan \cup {CURRENT_DURATION_KEY, "only_single_duration"}
    IN  Dropping({CURRENT_DURATION_KEY, PAYMENT_CACHE_KEY},
            Also({"purchase_type"},
                 Stays \cup _resolve_renew_plan
                   \cup Handler({}, one_plan, {To("DURATION")})
                   \cup Handler({}, one_duration, {To("PAYMENT_METHOD")})
                   \cup Handler({}, one_duration \cup payment_data
                                      \cup {CURRENT_METHOD_KEY, "only_single_payment_method"},
                                {To("CONFIRM")})
                   \cup Dropping({"only_single_plan", "only_single_duration"},
                                 Handler({}, {}, {To("PLANS")}))))

\* The one gateway, or for a free plan the first, is taken; else it is asked for.
Chosen(reads, writes) ==
    PaymentOf(reads, writes \cup {CURRENT_DURATION_KEY, PAYMENT_CACHE_KEY, "is_free"})
      \cup Dropping({"is_free"},
               PaymentOf(reads, writes \cup {CURRENT_DURATION_KEY, PAYMENT_CACHE_KEY}))
      \cup Dropping({"is_free", CURRENT_METHOD_KEY},
               Handler(reads, writes \cup {CURRENT_DURATION_KEY}, {To("PAYMENT_METHOD")}))
on_duration_select == Lacking({PlanDto}, StartAgain) \cup Holding({PlanDto}, Chosen({}, {}))

on_plan_select ==
    StartAgain
      \cup Dropping({PAYMENT_CACHE_KEY, CURRENT_DURATION_KEY, CURRENT_METHOD_KEY},
               Dropping({"only_single_duration"}, Handler({}, {PlanDto}, {To("DURATION")}))
                 \cup Chosen({}, {PlanDto, "only_single_duration"}))

on_payment_method_select ==
    Lacking({PlanDto}, Handler({CURRENT_DURATION_KEY, "purchase_type"}, {},
                               {Opens(<<"Subscription", "MAIN">>, {})}))
      \cup Holding({PlanDto}, PaymentOf({CURRENT_DURATION_KEY}, {PAYMENT_CACHE_KEY}))

on_get_subscription == Handler({"payment_id", CURRENT_METHOD_KEY}, {}, {Here})

(* promocode_handlers.py *)
PENDING_PROMO == {"pending_promo_code", "pending_promo_dto", "pending_promo_replace"}
on_promocode_input   == Stays \cup Handler({}, PENDING_PROMO, {Here})
on_promocode_confirm ==
    Stays \cup Holding({"pending_promo_code"}, Restarted(<<"MainMenu", "MAIN">>))
getter_promocode ==
    Lacking({"start.prefill_dto"}, NoGetter)
      \cup Holding({"start.prefill_dto"}, Handler({}, PENDING_PROMO, {Here}))

(* getters.py; without a plan they report the context as lost *)
subscription_getter    == NoGetter
plan_getter            == Needing({"plan"},
    Handler({"start.plan_id"}, {"only_single_plan", "purchase_type"}, {Here}))
plans_getter           == NoGetter
duration_getter        == Dropping({"is_free"}, Handler({PlanDto}, {}, {Here}))
payment_method_getter  == Handler({PlanDto, CURRENT_DURATION_KEY}, {}, {Here})
confirm_getter ==
    Handler({PlanDto, CURRENT_DURATION_KEY, CURRENT_METHOD_KEY, "purchase_type",
             "payment_url", "final_pricing"}, {}, {Here})
getter_connect         == Needing({"subscription"}, NoGetter)
success_payment_getter == Needing({"subscription"},
                                  Handler({"start.purchase_type"}, {}, {Here}))

(* dialog.py *)
subscription == Window(subscription_getter, back_main_menu_button,
                       on_subscription_plans \cup Clicked("PROMOCODE"))
plan  == Window(plan_getter, back_main_menu_button, on_plan_select)
plans == Window(plans_getter, Clicked("MAIN") \cup back_main_menu_button, on_plan_select)
duration == Window(duration_getter,
    Lacking({"only_single_plan"}, Clicked("PLANS")) \cup back_main_menu_button,
    on_duration_select)
payment_method == Window(payment_method_getter,
    Lacking({"only_single_duration"}, Clicked("DURATION"))
      \cup Lacking({"only_single_plan"}, Clicked("PLANS")) \cup back_main_menu_button,
    on_payment_method_select)
confirm == Window(confirm_getter,
    Lacking({"is_free"}, Clicked("PAYMENT_METHOD"))
      \cup Lacking({"only_single_duration"}, Clicked("DURATION"))
      \cup Holding({"is_free"}, Clicked("DURATION"))
      \cup Lacking({"only_single_plan"}, Clicked("PLANS")) \cup back_main_menu_button,
    on_get_subscription)
success_payment  == Window(success_payment_getter, back_main_menu_button, {})
success_trial    == Window(getter_connect, back_main_menu_button, {})
failed           == Window(NoGetter, back_main_menu_button, {})
promocode_window == Window(getter_promocode, Clicked("MAIN"),
                           on_promocode_input \cup on_promocode_confirm)

Subscription ==
    [MAIN |-> subscription, PROMOCODE |-> promocode_window, PLAN |-> plan, PLANS |-> plans,
     DURATION |-> duration, PAYMENT_METHOD |-> payment_method, CONFIRM |-> confirm,
     SUCCESS |-> success_payment, TRIAL |-> success_trial, FAILED |-> failed]
=============================================================================
