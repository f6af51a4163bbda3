---------------------------- MODULE WebAccounts ----------------------------
(***************************************************************************)
(* Accounts of the web cabinet: sessions, which are refresh tokens in      *)
(* Redis with a set of them for every user; changing the password, which   *)
(* ends them; and changing and verifying the e-mail address. A request     *)
(* loads the user, decides on what it loaded, and writes back the fields   *)
(* that it changed; requests of one user interleave at every await.        *)
(***************************************************************************)
EXTENDS Integers

CONSTANTS
    Users, Emails, NoEmail,
    Registration,     \* [Users -> Emails]: the addresses users registered with
    Tasks,            \* requests handled at once
    MaxRequests,      \* bound: requests, each with at most one token and code
    MaxFaults         \* bound: errors of Redis or the database, deaths

ASSUME WebAssumption ==
    /\ Users # {} /\ NoEmail \notin Emails
    /\ Registration \in [Users -> Emails]
    /\ \A u, v \in Users : Registration[u] = Registration[v] => u = v
    /\ MaxRequests \in Nat /\ MaxFaults \in Nat

VARIABLES
    row,       \* the user rows
    keys,      \* refresh tokens with a key in Redis
    listed,    \* refresh tokens in their user's set
    task,      \* what every request is doing
    token,     \* every token: whose it is, and the password it was issued under
    held,      \* tokens a browser has been given
    sent,      \* every verification code: the address it was sent to
    proved,    \* history: addresses whose code their user has entered
    overlap,   \* history: users with two changes of the address at once
    missed,    \* history: tokens a revocation could not see
    requests, faults

redis   == <<keys, listed>>
history == <<proved, overlap, missed>>
vars    == <<row, redis, task, token, held, sent, history, requests, faults>>

Ids    == 1 .. MaxRequests                  \* tokens, and codes
NoId   == 0
Rows   == [password : Nat, email : Emails, is_email_verified : BOOLEAN,
           pending_email : Emails \cup {NoEmail}, code : Ids \cup {NoId}]

NewRow(u) == [password |-> 0, email |-> Registration[u], is_email_verified |-> FALSE,
              pending_email |-> NoEmail, code |-> NoId]

TaskRecords ==
    [pc : {"idle", "issue", "list", "unlist", "password", "revoke", "delete", "clear",
           "send", "email", "write"},
     id : Ids \cup {NoId},                  \* the request, its token and code
     user : Users, dto : Rows,              \* as loaded
     changed : Rows,                        \* as to be written
     token : Ids \cup {NoId},               \* a token the request was sent with
     made : Nat,                            \* the password its session began with
     read : SUBSET Ids]                     \* the set of tokens, as read

Idle == LET u == CHOOSE u \in Users : TRUE IN
        [pc |-> "idle", id |-> NoId, user |-> u, dto |-> NewRow(u), changed |-> NewRow(u),
         token |-> NoId, made |-> 0, read |-> {}]

TypeOK ==
    /\ row \in [Users -> Rows]
    /\ keys \subseteq Ids /\ listed \subseteq Ids
    /\ task \in [Tasks -> TaskRecords]
    /\ token \in [Ids -> [user : Users, made : Nat]]
    /\ held \subseteq Ids
    /\ sent \in [Ids -> Emails \cup {NoEmail}]
    /\ proved \subseteq Users \X Emails /\ overlap \subseteq Users
    /\ missed \subseteq Ids
    /\ requests \in 0 .. MaxRequests /\ faults \in Nat

Init ==
    /\ row = [u \in Users |-> NewRow(u)]
    /\ keys = {} /\ listed = {}
    /\ task = [t \in Tasks |-> Idle]
    /\ token = [i \in Ids |-> [user |-> Idle.user, made |-> 0]]
    /\ held = {} /\ sent = [i \in Ids |-> NoEmail]
    /\ proved = {} /\ overlap = {} /\ missed = {}
    /\ requests = 0 /\ faults = 0

At(t, pc)  == task[t].pc = pc
Go(t, pc)  == task' = [task EXCEPT ![t].pc = pc]
Finish(t)  == task' = [task EXCEPT ![t] = Idle]

\* A request of user u, with its user loaded, goes to pc and may change the row.
Request(t, u, pc, changed, tok, made) ==
    /\ At(t, "idle")
    /\ requests < MaxRequests
    /\ requests' = requests + 1
    /\ task' = [task EXCEPT ![t] = [Idle EXCEPT
           !.pc = pc, !.id = requests + 1, !.user = u, !.dto = row[u],
           !.changed = changed, !.token = tok, !.made = made]]

-----------------------------------------------------------------------------
(* Sessions *)

\* The password is right, or Telegram has signed who it is.
Login(t, u) ==
    /\ Request(t, u, "issue", row[u], NoId, row[u].password)
    /\ UNCHANGED <<row, redis, token, held, sent, history, faults>>

\* issue_session: the token is stored, then added to the set.
StoreRefreshToken(t) ==
    LET r == task[t] IN
    /\ At(t, "issue")
    /\ keys' = keys \cup {r.id}
    /\ token' = [token EXCEPT ![r.id] = [user |-> r.user, made |-> r.made]]
    /\ Go(t, "list")
    /\ UNCHANGED <<row, listed, held, sent, history, requests, faults>>

ListRefreshToken(t) ==
    /\ At(t, "list")
    /\ listed' = listed \cup {task[t].id}
    /\ held' = held \cup {task[t].id}
    /\ Finish(t)
    /\ UNCHANGED <<row, keys, token, sent, history, requests, faults>>

\* A revocation that is under way, or was, cannot end the session of token i.
Escapes(i) == i \in missed \/ \E t \in Tasks : At(t, "delete") /\ i \in task[t].read

RefreshSession_Read(t, i) ==                \* mutant: the token is read, not taken
    /\ i \in keys \cap held
    /\ Request(t, token[i].user, "unlist", row[token[i].user], i, token[i].made)
    /\ missed' = IF Escapes(i) THEN missed \cup {requests'} ELSE missed
    /\ UNCHANGED <<row, redis, token, held, sent, proved, overlap, faults>>

\* A token is read and deleted at once: it can be used once. The new session
\* is as old as the one it goes on from.
RefreshSession(t, i) ==
    /\ i \in keys \cap held
    /\ Request(t, token[i].user, "unlist", row[token[i].user], i, token[i].made)
    /\ keys' = keys \ {i}
    /\ missed' = IF Escapes(i) THEN missed \cup {requests'} ELSE missed
    /\ UNCHANGED <<row, listed, token, held, sent, proved, overlap, faults>>

UnlistToken(t) ==
    /\ At(t, "unlist")
    /\ listed' = listed \ {task[t].token}
    /\ Go(t, "issue")
    /\ UNCHANGED <<row, keys, token, held, sent, history, requests, faults>>

Logout(t, i) ==
    /\ i \in keys \cap held
    /\ At(t, "idle")
    /\ keys' = keys \ {i}
    /\ listed' = listed \ {i}
    /\ UNCHANGED <<row, task, token, held, sent, history, requests, faults>>

-----------------------------------------------------------------------------
(* ChangePassword *)

ChangePassword(t, u) ==
    /\ Request(t, u, "password", [row[u] EXCEPT !.password = requests + 1], NoId, requests + 1)
    /\ UNCHANGED <<row, redis, token, held, sent, history, faults>>

Changing == {"revoke", "delete", "clear"}

\* The tokens that requests of u are going to issue, and that are not in the set.
Issuing(u, t) ==
    {task[s].id : s \in {s \in Tasks \ {t} :
        task[s].user = u /\ task[s].pc \in {"unlist", "issue", "list"} \cup Changing}}

CommitPassword(t) ==
    LET u == task[t].user IN
    /\ At(t, "password")
    /\ row' = [row EXCEPT ![u].password = task[t].changed.password]
    /\ Go(t, "revoke")
    /\ UNCHANGED <<redis, token, held, sent, history, requests, faults>>

ReadTokens_Keep(t) ==                       \* mutant: the sessions are left
    /\ At(t, "revoke")
    /\ Go(t, "issue")
    /\ UNCHANGED <<row, redis, token, held, sent, history, requests, faults>>

\* revoke_all_user_tokens: read the set, delete the keys, delete the set.
ReadTokens(t) ==
    LET u == task[t].user IN
    /\ At(t, "revoke")
    /\ task' = [task EXCEPT ![t].pc = "delete",
                            ![t].read = {i \in listed : token[i].user = u}]
    /\ missed' = missed \cup Issuing(u, t)
    /\ UNCHANGED <<row, redis, token, held, sent, proved, overlap, requests, faults>>

DeleteTokens(t) ==
    /\ At(t, "delete")
    /\ keys' = keys \ task[t].read
    /\ Go(t, "clear")
    /\ UNCHANGED <<row, listed, token, held, sent, history, requests, faults>>

\* Tokens that came into the set meanwhile lose their place in it.
ClearTokens(t) ==
    LET mine == {i \in listed : token[i].user = task[t].user} IN
    /\ At(t, "clear")
    /\ listed' = listed \ mine
    /\ missed' = missed \cup (mine \cap keys)
    /\ task' = [task EXCEPT ![t].pc = "issue", ![t].read = {}]
    /\ UNCHANGED <<row, keys, token, held, sent, proved, overlap, requests, faults>>

-----------------------------------------------------------------------------
(* The e-mail address *)

Taken(e, u) == \E v \in Users \ {u} : row[v].email = e

ChangeEmail_KeepsCode(t, u) ==              \* mutant: a code that was sent stays good
    /\ \E e \in Emails :
          /\ ~Taken(e, u)
          /\ Request(t, u, "write", [row[u] EXCEPT !.pending_email = e,
                         !.is_email_verified = FALSE], NoId, 0)
    /\ UNCHANGED <<row, redis, token, held, sent, history, faults>>

ChangeEmail(t, u) ==
    /\ \E e \in Emails :
          /\ ~Taken(e, u)
          /\ Request(t, u, "write", [row[u] EXCEPT !.pending_email = e,
                         !.is_email_verified = FALSE, !.code = NoId], NoId, 0)
    /\ UNCHANGED <<row, redis, token, held, sent, history, faults>>

\* The address in the request, if any, becomes the pending one; a verified
\* address is changed by ChangeEmail only.
Requested(r, e) ==
    IF e = NoEmail \/ e = r.email THEN r
    ELSE [r EXCEPT !.pending_email = e, !.is_email_verified = FALSE]

Target(r) == IF r.pending_email # NoEmail THEN r.pending_email ELSE r.email

RequestEmailVerification(t, u) ==
    /\ \E e \in Emails \cup {NoEmail} :
          /\ e # NoEmail => ~row[u].is_email_verified /\ ~Taken(e, u)
          /\ Request(t, u, "send", Requested(row[u], e), NoId, 0)
    /\ UNCHANGED <<row, redis, token, held, sent, history, faults>>

\* The code is sent first, to the address as the request sees it.
SendCode(t) ==
    LET r == task[t] IN
    /\ At(t, "send")
    /\ sent' = [sent EXCEPT ![r.id] = Target(r.changed)]
    /\ task' = [task EXCEPT ![t].pc = "write", ![t].changed.code = r.id]
    /\ UNCHANGED <<row, redis, token, held, history, requests, faults>>

\* The user enters the code from the mailbox it was sent to.
ConfirmEmailVerification(t, u) ==
    /\ row[u].code # NoId
    /\ ~Taken(Target(row[u]), u)
    /\ proved' = proved \cup {<<u, sent[row[u].code]>>}
    /\ Request(t, u, "write", [row[u] EXCEPT !.email = Target(row[u]),
                   !.pending_email = NoEmail, !.is_email_verified = TRUE, !.code = NoId], NoId, 0)
    /\ UNCHANGED <<row, redis, token, held, sent, overlap, missed, faults>>

\* A field is written if it differs from the value that was loaded.
Merged(old, dto, changed) ==
    [f \in DOMAIN old |-> IF changed[f] # dto[f] THEN changed[f] ELSE old[f]]

\* Another request of u has loaded the row and is to change the address.
Overlaps(u, t) ==
    \E s \in Tasks \ {t} : task[s].user = u /\ task[s].pc \in {"send", "write"}

\* Addresses are unique in the database.
CommitEmail(t) ==
    LET r == task[t]
        u == r.user
        n == Merged(row[u], r.dto, r.changed)
    IN  /\ At(t, "write")
        /\ IF Taken(n.email, u) THEN UNCHANGED row ELSE row' = [row EXCEPT ![u] = n]
        /\ overlap' = IF Overlaps(u, t) THEN overlap \cup {u} ELSE overlap
        /\ Finish(t)
        /\ UNCHANGED <<redis, token, held, sent, proved, missed, requests, faults>>

-----------------------------------------------------------------------------
\* Requests that a failure ends leave what they have done: a password whose old
\* sessions live on, a token that no set lists.
Left(ts) ==
    UNION {IF task[t].pc \in Changing
           THEN {i \in keys : token[i].user = task[t].user} \cup Issuing(task[t].user, t)
           ELSE IF task[t].pc = "list" THEN {task[t].id} ELSE {} : t \in ts}

Fault == faults < MaxFaults /\ faults' = faults + 1

RequestFails(t) ==
    /\ ~At(t, "idle")
    /\ Fault
    /\ missed' = missed \cup Left({t})
    /\ Finish(t)
    /\ UNCHANGED <<row, redis, token, held, sent, proved, overlap, requests>>

ProcessDies ==
    /\ Fault
    /\ missed' = missed \cup Left(Tasks)
    /\ task' = [t \in Tasks |-> Idle]
    /\ UNCHANGED <<row, redis, token, held, sent, proved, overlap, requests>>

SessionStep(t) ==
    \/ StoreRefreshToken(t) \/ ListRefreshToken(t) \/ UnlistToken(t)
    \/ \E i \in Ids : RefreshSession(t, i) \/ Logout(t, i)
    \/ CommitPassword(t) \/ ReadTokens(t) \/ DeleteTokens(t) \/ ClearTokens(t)

Next ==
    \/ \E t \in Tasks :
          \/ SessionStep(t) \/ SendCode(t) \/ CommitEmail(t) \/ RequestFails(t)
          \/ \E u \in Users :
                \/ Login(t, u) \/ ChangePassword(t, u) \/ ChangeEmail(t, u)
                \/ RequestEmailVerification(t, u) \/ ConfirmEmailVerification(t, u)
    \/ ProcessDies

Spec == Init /\ [][Next]_vars

-----------------------------------------------------------------------------
(* Properties *)

\* An address is verified only by the code that was sent to it, except for
\* users with two requests about the address at once: then a code of one can
\* meet the address of the other (email.py 125-186, 205-236).
VerifiedByCode ==
    \A u \in Users \ overlap :
        row[u].is_email_verified => <<u, row[u].email>> \in proved

Revoking(u) ==
    \E t \in Tasks : task[t].user = u /\ task[t].pc \in {"password"} \cup Changing

\* Once a password is changed, the sessions that began under another one are
\* over: "All sessions were revoked" (public/auth.py 221). Tokens the revocation could
\* not see live on: they were being issued then, or a failure ended the change.
OldSessionsEnd ==
    \A i \in keys \ missed :
        token[i].made = row[token[i].user].password \/ Revoking(token[i].user)

\* Every token that works is in the set of its user, where a later revocation
\* finds it, or is about to be; except those a revocation has dropped from it.
KeysAreListed ==
    \A i \in keys \ missed :
        i \in listed \/ \E t \in Tasks : At(t, "list") /\ task[t].id = i

=============================================================================
