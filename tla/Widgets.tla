------------------------------ MODULE Widgets ------------------------------
(***************************************************************************)
(* The vocabulary of the dialog tables (MenuDialogs, UserDialogs,          *)
(* SettingsDialogs, EditorDialogs, PanelDialogs): what an update does to   *)
(* the context on top of a user's dialog stack.  A context is a place, a   *)
(* pair <<states group, state>>, and the set of keys of its start_data     *)
(* (written "start.key") and of its dialog_data.                           *)
(*                                                                         *)
(* A handler is the set of the outcomes its branches have.  An outcome     *)
(* says which keys must be there or absent for the branch to be taken,     *)
(* which keys it reads without a default, writes and pops, and where it    *)
(* leaves the user, and for a getter what it looks up and cannot do        *)
(* without.  What else the branches ask of the database is left open:      *)
(* every outcome may happen.                                               *)
(***************************************************************************)

(***************************************************************************)
(* Where an update leaves the user: in the window, in another window of    *)
(* the group (switch_to, the data stay), in a new context on top of the    *)
(* stack (start), or alone on an emptied stack (StartMode.RESET_STACK).    *)
(***************************************************************************)
Here                == [how |-> "stay"]
To(state)           == [how |-> "switch", state |-> state]
Opens(place, data)  == [how |-> "push",  at |-> place, start |-> data]
Resets(place, data) == [how |-> "reset", at |-> place, start |-> data]

Handler(reads, writes, moves) ==
    {[holds |-> {}, lacks |-> {}, reads |-> reads, writes |-> writes,
      drops |-> {}, needs |-> {}, go |-> m, shown |-> "PUBLIC", asks |-> "PUBLIC"] :
        m \in moves}

\* A branch taken only with, or only without, these keys.
Holding(some, handler)  == {[o EXCEPT !.holds = @ \cup some] : o \in handler}
Lacking(some, handler)  == {[o EXCEPT !.lacks = @ \cup some] : o \in handler}
\* The handler also pops these keys.
Dropping(some, handler) == {[o EXCEPT !.drops = @ \cup some] : o \in handler}
\* A getter that raises when one of these things is no longer in the database
\* or in the panel, although the window was reached when it was.
Needing(things, getter) == {[o EXCEPT !.needs = @ \cup things] : o \in getter}

Clicked(state)    == Handler({}, {}, {To(state)})
Started(place)    == Handler({}, {}, {Opens(place, {})})
Restarted(place)  == Handler({}, {}, {Resets(place, {})})
Stays             == Handler({}, {}, {Here})

\* A button rendered only for a permission (require_permission), and a
\* handler that asks for one when it runs (PermissionPolicy.has_permission).
ShownTo(permission, handler) == {[o EXCEPT !.shown = permission] : o \in handler}
Asking(permission, handler)  == {[o EXCEPT !.asks = permission] : o \in handler}

(***************************************************************************)
(* A window: the getter that runs whenever it is rendered, the ways out    *)
(* labelled back, cancel or menu, and everything else it reacts to.        *)
(***************************************************************************)
Window(getter, ways_out, others) ==
    [getter |-> getter, back |-> ways_out, buttons |-> others \cup ways_out]
NoGetter == Stays

\* telegram/keyboards.py: the two buttons that lead to the main menu.
main_menu_button      == Restarted(<<"MainMenu", "MAIN">>)
back_main_menu_button == Restarted(<<"MainMenu", "MAIN">>)

----------------------------------------------------------------------------
(* Handlers that several dialogs use. *)
TARGET_USER_ID == "target_user_id"
StartTarget    == "start.target_user_id"

\* What start_user_window puts into start_data.
start_user_window(data) == Resets(<<"DashboardUser", "MAIN">>, {StartTarget} \cup data)
start_user_transaction_window(data) ==
    Resets(<<"DashboardUser", "TRANSACTION">>,
           {StartTarget, "start.selected_transaction"} \cup data)

(***************************************************************************)
(* Searching by a message, in the menu and on the dashboard: nothing or    *)
(* nobody found, a payment, one user, or several.                          *)
(***************************************************************************)
on_smart_search ==
    Asking("USER_SEARCH",
        Handler({}, {}, {Here, start_user_transaction_window({}), start_user_window({}),
                         Opens(<<"DashboardUsers", "SEARCH_RESULTS">>, {"start.found_users"})}))

\* Writing a message to one user or to an audience (dashboard/broadcast/handlers.py).
on_content_input == Stays \cup Handler({}, {"payload"}, {Here})
on_preview       == Stays
=============================================================================
