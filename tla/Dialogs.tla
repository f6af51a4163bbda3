------------------------------ MODULE Dialogs ------------------------------
(***************************************************************************)
(* One user's dialogs: the bot's windows as one state machine.  The tables *)
(* of windows are MenuDialogs, SubscriptionDialogs (the purchase),         *)
(* UserDialogs (the dashboard and its editor of users), PlanDialogs,       *)
(* PromocodeDialogs, EditorDialogs, SettingsDialogs and PanelDialogs; this *)
(* module is what aiogram-dialog and the error middleware make of them.    *)
(*                                                                         *)
(* An update is handled in one step: the button's handler, then the getter *)
(* of the window that is shown afterwards, and only when both succeed is   *)
(* the context saved; a stack that was emptied stays empty even when the   *)
(* new window cannot be shown.  The error middleware sends an ordinary     *)
(* user to the main menu by a message of its own, which arrives later, and *)
(* leaves a privileged one where the error struck.  Meanwhile other        *)
(* administrators change the user's role, what a window shows is deleted   *)
(* or the panel stops answering, payments and links open windows of their  *)
(* own, and buttons rendered for an earlier role stay on the screen.       *)
(***************************************************************************)
EXTENDS Integers, FiniteSets

CONSTANTS
    Roles,       \* the roles the user may have: subsets of USER ... OWNER
    StackLimit   \* contexts on a stack (aiogram_dialog refuses one more)

ASSUME RolesAssumption == Roles \subseteq {"USER", "PREVIEW", "ADMIN", "DEV", "OWNER"}
ASSUME StackAssumption == StackLimit \in Nat \ {0}

W  == INSTANCE Widgets
M  == INSTANCE MenuDialogs
SU == INSTANCE SubscriptionDialogs
U  == INSTANCE UserDialogs
PL == INSTANCE PlanDialogs
PR == INSTANCE PromocodeDialogs
E  == INSTANCE EditorDialogs
S  == INSTANCE SettingsDialogs
P  == INSTANCE PanelDialogs

VARIABLES
    at,       \* the window on the screen: the place of the context on top of the stack
    keys,     \* the keys of its start_data and dialog_data
    depth,    \* the number of contexts on the stack; none when they were lost
    gone,     \* what the windows of this dialog look up and would not find now
    role,     \* the user's role in the database
    shown,    \* the role the window on the screen was rendered for
    due,      \* a redirect to the main menu is on its way
    leaving,  \* the user only presses the buttons that lead back
    failed    \* the keys that were read and were not there, with their windows

vars == <<at, keys, depth, gone, role, shown, due, leaving, failed>>

----------------------------------------------------------------------------
(* The windows. *)

Windows ==
    [MainMenu |-> M!MainMenu, Subscription |-> SU!Subscription,
     Dashboard |-> U!Dashboard, DashboardUsers |-> U!DashboardUsers,
     DashboardUser |-> U!DashboardUser,
     RemnashopPlans |-> PL!RemnashopPlans, DashboardPromocodes |-> PR!DashboardPromocodes,
     RemnashopMenuEditor |-> E!RemnashopMenuEditor,
     RemnashopAdvertising |-> E!RemnashopAdvertising,
     DashboardRemnashop |-> S!DashboardRemnashop, RemnashopExtra |-> S!RemnashopExtra,
     RemnashopBackup |-> S!RemnashopBackup, RemnashopReferral |-> S!RemnashopReferral,
     RemnashopGateways |-> S!RemnashopGateways,
     RemnashopNotifications |-> S!RemnashopNotifications,
     DashboardAccess |-> S!DashboardAccess, DashboardBroadcast |-> P!DashboardBroadcast,
     DashboardStatistics |-> P!DashboardStatistics,
     DashboardRemnawave |-> P!DashboardRemnawave, DashboardImporter |-> P!DashboardImporter]

WindowAt(p) == Windows[p[1]][p[2]]
Home        == <<"MainMenu", "MAIN">>

\* What getters look up and others may remove, by the dialogs that look it up.
Things   == {"subscription", "plan", "promocode", "broadcast", "panel"}
LookedUp == {l \in (DOMAIN Windows) \X Things :
               \E s \in DOMAIN Windows[l[1]] : \E g \in Windows[l[1]][s].getter : l[2] \in g.needs}

----------------------------------------------------------------------------
(* The permissions (application/common/policy.py). *)
ROLE_PERMISSIONS ==
    [USER |-> {},
     PREVIEW |-> {"VIEW_DASHBOARD", "VIEW_STATISTICS", "VIEW_USERS", "VIEW_BROADCAST",
                  "VIEW_PROMOCODE", "VIEW_ACCESS", "VIEW_REMNAWAVE", "VIEW_REMNASHOP",
                  "VIEW_GATEWAYS", "VIEW_REFERRAL", "VIEW_ADVERTISING", "VIEW_PLANS",
                  "VIEW_NOTIFICATIONS", "VIEW_LOGS", "VIEW_MENU_EDITOR", "USER_SEARCH"},
     ADMIN |-> {"VIEW_DASHBOARD", "VIEW_USERS", "VIEW_PROMOCODE", "MANAGE_PROMOCODE",
                "VIEW_ACCESS", "SETTINGS_ACCESS", "USER_SEARCH", "USER_EDITOR",
                "USER_SUBSCRIPTION_EDITOR", "USER_SYNC"}]

\* A developer and the owner have every permission.
has_permission(r, permission) ==
    r \notin {"DEV", "OWNER"} => permission \in {"PUBLIC"} \cup ROLE_PERMISSIONS[r]
is_privileged(r) == r \in {"ADMIN", "DEV", "OWNER"}

----------------------------------------------------------------------------
(***************************************************************************)
(* A context <<place, keys, depth>> after an outcome's handler: a new one  *)
(* has only its start_data.                                                *)
(***************************************************************************)
Moved(o) ==
    CASE o.go.how = "stay"   -> <<at, (keys \ o.drops) \cup o.writes, depth>>
      [] o.go.how = "switch" -> <<<<at[1], o.go.state>>, (keys \ o.drops) \cup o.writes, depth>>
      [] o.go.how = "push"   -> <<o.go.at, o.go.start, depth + 1>>
      [] o.go.how = "reset"  -> <<o.go.at, o.go.start, 1>>

Taken(o, k) == o.holds \subseteq k /\ o.lacks \cap k = {}

\* Without its context a window on the screen is dead.
Lose == depth' = 0 /\ keys' = {}
\* An update that fails saves nothing, but a stack it has emptied stays empty.
Unsaved(o) == /\ UNCHANGED <<at, shown>>
              /\ IF o.go.how = "reset" THEN Lose ELSE UNCHANGED <<keys, depth>>

\* The error middleware: the menu is sent to those who have no dashboard to return to.
RedirectMenu == due' = (due \/ ~ is_privileged(role))
Crash(p, missing) ==
    /\ failed' = failed \cup {<<p, k>> : k \in missing}
    /\ RedirectMenu
\* A permission that is not given is only reported.
Refused == UNCHANGED <<due, failed>>

Finds(g) == g.needs \cap gone = {}
\* Another dialog looks up other things.
KeepLookedUp == gone' = {x \in gone : <<at'[1], x>> \in LookedUp}

\* The window that is left on the screen is rendered, and its context saved.
Render(context, o) ==
    \E g \in WindowAt(context[1]).getter :
        /\ Taken(g, context[2])
        /\ IF ~ g.reads \subseteq context[2]
           THEN Crash(context[1], g.reads \ context[2]) /\ Unsaved(o)
           ELSE IF ~ has_permission(role, g.asks)
           THEN Refused /\ Unsaved(o)
           ELSE IF ~ Finds(g)
           THEN Crash(context[1], {}) /\ Unsaved(o)
           ELSE /\ at'    = context[1]
                /\ keys'  = (context[2] \ g.drops) \cup g.writes
                /\ depth' = context[3]
                /\ shown' = role
                /\ UNCHANGED <<due, failed>>

\* What an update does: its handler, and the window it leaves.
Handle(o) ==
    /\ Taken(o, keys)
    /\ has_permission(role, o.asks)
    /\ IF ~ o.reads \subseteq keys
       THEN Crash(at, o.reads \ keys) /\ UNCHANGED <<at, keys, depth, shown>>
       ELSE IF Moved(o)[3] > StackLimit
       THEN Crash(at, {}) /\ UNCHANGED <<at, keys, depth, shown>>
       ELSE Render(Moved(o), o)
    /\ KeepLookedUp

\* A button of a window without context: UnknownIntent.
Dead == /\ depth = 0
        /\ RedirectMenu
        /\ UNCHANGED <<at, keys, depth, gone, shown, failed>>

\* A button that is on the screen, or a message to the window.
Press == /\ ~ leaving
         /\ \/ Dead
            \/ /\ depth > 0
               /\ \E o \in WindowAt(at).buttons : has_permission(shown, o.shown) /\ Handle(o)
         /\ UNCHANGED <<role, leaving>>

(***************************************************************************)
(* A user who wants nothing more presses the buttons labelled back, cancel *)
(* or menu until the main menu is there.                                   *)
(***************************************************************************)
IsHome == at = Home /\ depth > 0
Leave == /\ ~ leaving /\ ~ IsHome
         /\ leaving' = TRUE
         /\ UNCHANGED <<at, keys, depth, gone, role, shown, due, failed>>
WaysOut == {o \in WindowAt(at).back : has_permission(shown, o.shown) /\ Taken(o, keys)}
Back  == /\ leaving
         /\ Dead \/ (depth > 0 /\ \E o \in WaysOut : Handle(o))
         /\ leaving' = ~ IsHome'
         /\ UNCHANGED role

(***************************************************************************)
(* Links, commands, buttons under notifications and redirects after a      *)
(* payment: they need no context, and what stays only sends a message.     *)
(***************************************************************************)
Entered(entrance) ==
    /\ ~ leaving
    /\ \E o \in entrance : o.go.how = "reset" /\ Handle(o)
    /\ UNCHANGED <<role, leaving>>
Start == Entered(M!on_start_command \cup M!on_rules_accept \cup M!on_channel_confirm)
Goto  == Entered(M!on_goto) \/ Entered(M!on_goto_plan) \/ Entered(M!on_goto_invite)
           \/ Entered(M!on_goto_promocode)
Redirected == \E there \in {M!to_success_trial, M!to_success_payment, M!to_failed_payment} :
                  Entered(W!Handler({}, {}, {there}))

(***************************************************************************)
(* A handler or a getter fails for a reason that is not in the dialogs, at *)
(* any time: before or after it has emptied the stack, and with or without *)
(* a redirect (MenuRenderError and TelegramForbiddenError send none).      *)
(***************************************************************************)
Fail == /\ RedirectMenu \/ UNCHANGED due
        /\ Lose \/ UNCHANGED <<keys, depth>>
        /\ UNCHANGED <<at, gone, role, shown, leaving, failed>>

(***************************************************************************)
(* Others delete or end what a window of this dialog looks up, or the      *)
(* panel stops answering.  A subscription and a plan may be made again and *)
(* the panel may answer again.                                             *)
(***************************************************************************)
\* The bound: one thing is gone at a time, and not while the role changes.
Quiet == gone = {} /\ ~ due
Vanish(thing) ==
    /\ Quiet /\ <<at[1], thing>> \in LookedUp
    /\ gone' = {thing}
    /\ UNCHANGED <<at, keys, depth, role, shown, due, leaving, failed>>
Return ==
    /\ gone # {} /\ gone \subseteq {"subscription", "plan", "panel"}
    /\ gone' = {}
    /\ UNCHANGED <<at, keys, depth, role, shown, due, leaving, failed>>

(***************************************************************************)
(* Another administrator selects or revokes the role, or blocks the user:  *)
(* the handler then sends the user to the main menu.                       *)
(***************************************************************************)
on_role_select_Quiet(r) ==   \* mutant: the user stays where it was
    /\ role' = r
    /\ UNCHANGED <<at, keys, depth, gone, shown, due, leaving, failed>>
on_role_select(r) ==
    /\ role' = r
    /\ due'  = TRUE
    /\ UNCHANGED <<at, keys, depth, gone, shown, leaving, failed>>

to_main_menu ==
    /\ due
    /\ at' = Home /\ keys' = {} /\ depth' = 1
    /\ KeepLookedUp
    /\ shown' = role
    /\ due' = FALSE /\ leaving' = FALSE
    /\ UNCHANGED <<role, failed>>

Init == /\ at = Home /\ keys = {} /\ depth = 1 /\ gone = {}
        /\ role \in Roles /\ shown = role
        /\ due = FALSE /\ leaving = FALSE /\ failed = {}

Next == \/ Press \/ Leave \/ Back \/ Start \/ Goto \/ Redirected \/ Fail
        \/ gone = {} /\ \E r \in Roles \ {role} : on_role_select(r)
        \/ \E thing \in Things : Vanish(thing)
        \/ Return \/ to_main_menu

\* A redirect that was sent arrives, and who wants to leave goes on pressing,
\* another button when one does nothing.
Fairness == WF_vars(to_main_menu) /\ WF_vars(Back)
Spec     == Init /\ [][Next]_vars /\ Fairness

----------------------------------------------------------------------------
(* Properties. *)

TypeOK == /\ at[1] \in DOMAIN Windows /\ at[2] \in DOMAIN Windows[at[1]]
          /\ depth \in 0..StackLimit /\ {at[1]} \X gone \subseteq LookedUp
          /\ role \in Roles /\ shown \in Roles
          /\ due \in BOOLEAN /\ leaving \in BOOLEAN

\* NothingMissing: on no path through the windows does a handler or a getter
\* read from dialog_data a key that an earlier window should have put there
\* (each raises KeyError, and an administrator is left in a dead window).
NothingMissing == failed = {}

\* The permission under which the dashboard shows the way into a section.
ViewOf(p) ==
    CASE p[1] \in {"MainMenu", "Subscription"}              -> "PUBLIC"
      [] p[1] = "Dashboard"                                 -> "VIEW_DASHBOARD"
      [] p[1] \in {"DashboardUsers", "DashboardUser"}       -> "VIEW_USERS"
      [] p[1] = "DashboardStatistics"                       -> "VIEW_STATISTICS"
      [] p[1] = "DashboardBroadcast"                        -> "VIEW_BROADCAST"
      [] p[1] = "DashboardPromocodes"                       -> "VIEW_PROMOCODE"
      [] p[1] = "DashboardAccess"                           -> "VIEW_ACCESS"
      [] p[1] = "DashboardRemnawave"                        -> "VIEW_REMNAWAVE"
      [] p[1] = "DashboardImporter"                         -> "VIEW_IMPORTER"
      [] p = <<"DashboardRemnashop", "ADMINS">>             -> "VIEW_ADMINS"
      [] p = <<"DashboardRemnashop", "MAIN">>               -> "VIEW_REMNASHOP"
      [] p = <<"DashboardRemnashop", "TRANSACTIONS">>       -> "VIEW_STATISTICS"
      [] p[1] = "RemnashopGateways"                         -> "VIEW_GATEWAYS"
      [] p[1] = "RemnashopReferral"                         -> "VIEW_REFERRAL"
      [] p[1] = "RemnashopAdvertising"                      -> "VIEW_ADVERTISING"
      [] p[1] = "RemnashopPlans"                            -> "VIEW_PLANS"
      [] p[1] = "RemnashopNotifications"                    -> "VIEW_NOTIFICATIONS"
      [] p[1] = "RemnashopBackup"                           -> "VIEW_BACKUP"
      [] p[1] = "RemnashopMenuEditor"                       -> "VIEW_MENU_EDITOR"
      [] p[1] = "RemnashopExtra"                            -> "VIEW_EXTRA_SETTINGS"

\* OnlyWhoMaySees: no path of buttons, links and searches leads a user into a
\* section whose button the user's role does not show; after a change of the
\* role, the window it closed is left as soon as the redirect arrives.
OnlyWhoMaySees == due \/ has_permission(role, ViewOf(at))

\* ListsHoldNoDraft: the lists of plans, promo codes, links, menu buttons,
\* users and broadcasts never carry the draft of the item edited before, so
\* that choosing "create" or "send" there starts from nothing.
ListsHoldNoDraft ==
    /\ at = <<"RemnashopPlans", "MAIN">>       => PL!PlanDto \notin keys
    /\ at = <<"DashboardPromocodes", "MAIN">>  => PR!PromocodeDto \notin keys
    /\ at = <<"RemnashopAdvertising", "MAIN">> => E!AdLinkDto \notin keys
    /\ at = <<"RemnashopMenuEditor", "MAIN">>  => E!ButtonDraft \notin keys
    /\ at \in {<<"DashboardUser", "MAIN">>, <<"DashboardBroadcast", "MAIN">>}
                                               => "payload" \notin keys

(***************************************************************************)
(* Where nothing leads home: the context of a privileged user was lost, or *)
(* every way back leads to a window whose getter refuses the user, or      *)
(* raises for a privileged one.                                            *)
(***************************************************************************)
Closed(o) ==
    \A g \in {h \in WindowAt(Moved(o)[1]).getter : Taken(h, Moved(o)[2])} :
        ~ has_permission(role, g.asks) \/ (is_privileged(role) /\ ~ Finds(g))
Stuck == /\ role # "USER"
         /\ IF depth = 0 THEN is_privileged(role)
            ELSE WaysOut # {} /\ \A o \in WaysOut : Closed(o)

\* BackLeadsHome: from every window and after every error, a user who goes on
\* pressing the buttons that lead back comes to the main menu, whatever was
\* opened on the way there and however deep the stack is, or is Stuck again and
\* again.  A user of role USER always comes home: the error middleware's
\* redirect is the way out of a window that cannot be left.
BackLeadsHome == leaving ~> (~ leaving \/ Stuck)
=============================================================================
