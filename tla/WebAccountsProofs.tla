------------------------- MODULE WebAccountsProofs -------------------------
(***************************************************************************)
(* Proofs about WebAccounts, for any users, addresses, tasks and number of *)
(* requests.                                                               *)
(*                                                                         *)
(* The inductive invariant has two parts besides the types. Sessions is    *)
(* about tokens and passwords: a token, or a session about to get one,     *)
(* that a password change left behind is in the way of a revocation, from  *)
(* the moment the new password is in the row until the tokens are deleted, *)
(* unless that revocation could not see it. Mail is about addresses and    *)
(* codes: a code belongs to one request, and what a request is going to    *)
(* write over a row is still about the address that the row has.           *)
(***************************************************************************)
EXTENDS WebAccounts, TLAPS

USE WebAssumption

-----------------------------------------------------------------------------
(* The inductive invariant *)

\* Requests that hold an id: it is their own, and not the id of a token that
\* was given to a browser, nor, before it is stored, of one that works.
Active(t) == ~At(t, "idle")

OwnIds ==
    /\ keys \subseteq 1 .. requests /\ held \subseteq 1 .. requests /\ listed \subseteq held
    /\ \A t \in Tasks : Active(t) =>
          /\ task[t].id \in (1 .. requests) \ held
          /\ ~At(t, "list") => task[t].id \notin keys
    /\ \A s, t \in Tasks : Active(s) /\ Active(t) /\ task[s].id = task[t].id => s = t

Mailing(t) == task[t].pc \in {"send", "write"}

\* What a request remembers of tokens and passwords.
Remembers(t) ==
    /\ At(t, "unlist") => task[t].token \in held \ keys
    /\ At(t, "list") => token[task[t].id] = [user |-> task[t].user, made |-> task[t].made]
    /\ At(t, "delete") => \A i \in task[t].read : i \in held /\ token[i].user = task[t].user
    /\ At(t, "password") => task[t].changed.password = task[t].made
    /\ Mailing(t) => task[t].changed.password = task[t].dto.password

RevokedBy(u, s) == At(s, "revoke") /\ task[s].user = u

\* The session a request is about to begin is as new as its user's password,
\* or a revocation is about to see it, or has missed it.
FreshSession(t) ==
    task[t].pc \in {"unlist", "issue", "list"} \cup Changing /\ task[t].id \notin missed =>
        \/ task[t].made = row[task[t].user].password
        \/ \E s \in Tasks \ {t} : RevokedBy(task[t].user, s)

\* The same of a token that works.
FreshToken(i) ==
    i \in keys \ missed =>
        \/ token[i].made = row[token[i].user].password
        \/ \E s \in Tasks : RevokedBy(token[i].user, s)
        \/ \E s \in Tasks : At(s, "delete") /\ i \in task[s].read

Sessions ==
    /\ OwnIds /\ KeysAreListed
    /\ \A t \in Tasks : Remembers(t) /\ FreshSession(t)
    /\ \A i \in Ids : FreshToken(i)

\* A code belongs to one request, and no row has it before it is sent.
WasSent(code) == code # NoId => code <= requests /\ sent[code] \in Emails

OwnCodes ==
    /\ \A u \in Users : WasSent(row[u].code)
    /\ \A t \in Tasks : Mailing(t) => WasSent(task[t].changed.code)
    /\ \A t \in Tasks : At(t, "send") =>
          /\ \A u \in Users : row[u].code # task[t].id
          /\ \A s \in Tasks : At(s, "write") => task[s].changed.code # task[t].id

Proved(u, r)   == r.is_email_verified => <<u, r.email>> \in proved
CodeSent(r)    == r.code # NoId => sent[r.code] = Target(r)
SameEmail(r, s) == /\ r.email = s.email /\ r.is_email_verified = s.is_email_verified
                   /\ r.pending_email = s.pending_email /\ r.code = s.code

\* What the row of a user has, and what a request is going to write to it.
Mail ==
    /\ OwnCodes
    /\ \A u \in Users \ overlap :
          /\ Proved(u, row[u]) /\ CodeSent(row[u])
          /\ \A t \in Tasks : Mailing(t) /\ task[t].user = u =>
                /\ SameEmail(task[t].dto, row[u])
                /\ Proved(u, task[t].changed)
                /\ At(t, "write") => CodeSent(task[t].changed)

IInv == TypeOK /\ Sessions /\ Mail

-----------------------------------------------------------------------------
(* The records of the model *)

\* Ids are numbers that no request exceeds; NoId is none of them.
LEMMA IdsFacts == Ids \subseteq Nat /\ NoId \notin Ids /\ \A n \in Ids : n <= MaxRequests
BY DEF Ids, NoId

\* A task that rests has a record, of some user.
LEMMA IdleType == Idle \in TaskRecords /\ Idle.pc = "idle" /\ Idle.user \in Users
                  /\ Idle.changed.code = NoId /\ Idle.id = NoId /\ Idle.read = {}
<1> DEFINE u == CHOOSE u \in Users : TRUE
<1>1. u \in Users
  OBVIOUS
<1> HIDE DEF u
<1>2. NewRow(u) \in Rows /\ NewRow(u).code = NoId
  BY <1>1 DEF NewRow, Rows
<1>3. Idle = [pc |-> "idle", id |-> NoId, user |-> u, dto |-> NewRow(u), changed |-> NewRow(u),
         token |-> NoId, made |-> 0, read |-> {}]
  BY DEF Idle, u
<1> QED
  BY <1>1, <1>2, <1>3 DEF TaskRecords

\* A row is updated field by field.
LEMMA MergedRow ==
    ASSUME NEW old \in Rows, NEW dto \in Rows, NEW changed \in Rows,
           NEW n, n = Merged(old, dto, changed)
    PROVE  /\ n \in Rows
           /\ n.password = IF changed.password # dto.password THEN changed.password
                           ELSE old.password
           /\ dto.email = old.email => n.email = changed.email
           /\ dto.is_email_verified = old.is_email_verified
              => n.is_email_verified = changed.is_email_verified
           /\ dto.pending_email = old.pending_email => n.pending_email = changed.pending_email
           /\ dto.code = old.code => n.code = changed.code
           /\ n.code \in {old.code, changed.code}
BY DEF Merged, Rows

\* A request takes the next id and the row that it loads.
LEMMA RequestFacts ==
    ASSUME TypeOK, NEW t \in Tasks, NEW u \in Users, NEW changed \in Rows,
           NEW pc \in {"issue", "unlist", "password", "send", "write"},
           NEW tok \in Ids \cup {NoId}, NEW made \in Nat,
           Request(t, u, pc, changed, tok, made)
    PROVE  /\ task[t].pc = "idle"
           /\ requests' = requests + 1 /\ requests' \in 1 .. MaxRequests
           /\ task' \in [Tasks -> TaskRecords]
           /\ \A s \in Tasks \ {t} : task'[s] = task[s]
           /\ task'[t].pc = pc /\ task'[t].id = requests' /\ task'[t].user = u
           /\ task'[t].dto = row[u] /\ task'[t].changed = changed
           /\ task'[t].token = tok /\ task'[t].made = made
<1> DEFINE new == [Idle EXCEPT !.pc = pc, !.id = requests + 1, !.user = u, !.dto = row[u],
                               !.changed = changed, !.token = tok, !.made = made]
<1>1. requests + 1 \in Ids /\ row[u] \in Rows
  BY DEF TypeOK, Request, Ids
<1>2. /\ new \in TaskRecords
      /\ new.pc = pc /\ new.id = requests + 1 /\ new.user = u /\ new.dto = row[u]
      /\ new.changed = changed /\ new.token = tok /\ new.made = made
  BY <1>1, IdleType DEF TaskRecords
<1>3. task' = [task EXCEPT ![t] = new] /\ requests' = requests + 1 /\ task[t].pc = "idle"
  BY DEF Request, At
<1> HIDE DEF new
<1> QED
  BY <1>1, <1>2, <1>3 DEF TypeOK, Ids

\* A request that goes on keeps what it has.
LEMMA GoFacts ==
    ASSUME TypeOK, NEW t \in Tasks,
           NEW pc \in {"issue", "list", "revoke", "clear"}, Go(t, pc)
    PROVE  /\ task' \in [Tasks -> TaskRecords]
           /\ \A s \in Tasks \ {t} : task'[s] = task[s]
           /\ task'[t] = [task[t] EXCEPT !.pc = pc]
           /\ task'[t].pc = pc /\ task'[t].id = task[t].id /\ task'[t].user = task[t].user
           /\ task'[t].made = task[t].made /\ task'[t].token = task[t].token
           /\ task'[t].read = task[t].read /\ task'[t].changed = task[t].changed
           /\ task'[t].dto = task[t].dto
<1>1. task[t] \in TaskRecords
  BY DEF TypeOK
<1>2. [task[t] EXCEPT !.pc = pc] \in TaskRecords
  BY <1>1 DEF TaskRecords
<1>3. task' = [task EXCEPT ![t] = [task[t] EXCEPT !.pc = pc]]
  BY DEF Go
<1>4. task'[t] = [task[t] EXCEPT !.pc = pc]
  BY <1>3 DEF TypeOK
<1> QED
  BY <1>1, <1>2, <1>3, <1>4 DEF TypeOK, TaskRecords

\* A request that ends forgets it.
LEMMA FinishFacts ==
    ASSUME TypeOK, NEW t \in Tasks, Finish(t)
    PROVE  /\ task' \in [Tasks -> TaskRecords]
           /\ \A s \in Tasks \ {t} : task'[s] = task[s]
           /\ task'[t] = Idle /\ task'[t].pc = "idle"
BY IdleType DEF Finish, TypeOK

\* The tables are empty at first, and no task is busy.
LEMMA InitType == Init => TypeOK
<1> SUFFICES ASSUME Init PROVE TypeOK
  OBVIOUS
<1>1. \A u \in Users : NewRow(u) \in Rows
  BY DEF NewRow, Rows
<1>2. row \in [Users -> Rows]
  BY <1>1 DEF Init
<1>3. task \in [Tasks -> TaskRecords]
  BY IdleType DEF Init
<1>4. token \in [Ids -> [user : Users, made : Nat]]
  BY IdleType DEF Init
<1> QED
  BY <1>2, <1>3, <1>4 DEF Init, TypeOK

\* The rows that requests load are changed within their types.
LEMMA ChangedRows ==
    ASSUME TypeOK, NEW u \in Users
    PROVE  /\ row[u] \in Rows
           /\ \A n \in Nat : /\ [row[u] EXCEPT !.password = n] \in Rows
                             /\ [row[u] EXCEPT !.password = n].password = n
                             /\ SameEmail([row[u] EXCEPT !.password = n], row[u])
           /\ \A e \in Emails \cup {NoEmail} :
                LET r == [row[u] EXCEPT !.pending_email = e, !.is_email_verified = FALSE,
                                        !.code = NoId]
                IN  /\ r \in Rows /\ r.password = row[u].password /\ r.code = NoId
                    /\ ~r.is_email_verified
           /\ \A e \in Emails \cup {NoEmail} :
                LET r == Requested(row[u], e)
                IN  /\ r \in Rows /\ r.password = row[u].password /\ r.code = row[u].code
                    /\ r = row[u] \/ ~r.is_email_verified
           /\ Target(row[u]) \in Emails
           /\ LET r == [row[u] EXCEPT !.email = Target(row[u]), !.pending_email = NoEmail,
                                      !.is_email_verified = TRUE, !.code = NoId]
              IN  /\ r \in Rows /\ r.password = row[u].password /\ r.code = NoId
                  /\ r.email = Target(row[u])
<1>1. row[u] \in Rows
  BY DEF TypeOK
<1>2. Target(row[u]) \in Emails
  BY <1>1 DEF Rows, Target
<1>3. NoId \in Ids \cup {NoId} /\ NoEmail \in Emails \cup {NoEmail}
  OBVIOUS
<1>4. \A n \in Nat : /\ [row[u] EXCEPT !.password = n] \in Rows
                     /\ [row[u] EXCEPT !.password = n].password = n
                     /\ SameEmail([row[u] EXCEPT !.password = n], row[u])
  BY <1>1 DEF Rows, SameEmail
<1>5. ASSUME NEW e \in Emails \cup {NoEmail}, NEW r, r = Requested(row[u], e)
      PROVE  /\ r \in Rows /\ r.password = row[u].password /\ r.code = row[u].code
             /\ r = row[u] \/ ~r.is_email_verified
  BY <1>1, <1>5 DEF Requested, Rows
<1>6. ASSUME NEW e \in Emails \cup {NoEmail},
             NEW r, r = [row[u] EXCEPT !.pending_email = e, !.is_email_verified = FALSE,
                                       !.code = NoId]
      PROVE  /\ r \in Rows /\ r.password = row[u].password /\ r.code = NoId
             /\ ~r.is_email_verified
  BY <1>1, <1>3, <1>6 DEF Rows
<1>7. ASSUME NEW r, r = [row[u] EXCEPT !.email = Target(row[u]), !.pending_email = NoEmail,
                                      !.is_email_verified = TRUE, !.code = NoId]
      PROVE  /\ r \in Rows /\ r.password = row[u].password /\ r.code = NoId
             /\ r.email = Target(row[u])
  BY <1>1, <1>2, <1>3, <1>7 DEF Rows
<1> QED
  BY <1>1, <1>2, <1>4, <1>5, <1>6, <1>7

\* A request that is under way has an id, and with it a record to update.
LEMMA ActiveTask ==
    ASSUME TypeOK, OwnIds, NEW t \in Tasks, ~At(t, "idle")
    PROVE  task[t] \in TaskRecords /\ task[t].id \in Ids /\ task[t].user \in Users
           /\ task[t].id \in 1 .. requests /\ task[t].id \notin held
           /\ task[t].made \in Nat /\ row[task[t].user] \in Rows
BY DEF TypeOK, OwnIds, Active, Ids, TaskRecords

\* What a request knows is updated field by field.
LEMMA UpdateFacts ==
    ASSUME TypeOK, OwnIds, NEW t \in Tasks, ~At(t, "idle")
    PROVE  /\ SendCode(t) =>
                /\ task' \in [Tasks -> TaskRecords]
                /\ \A s \in Tasks \ {t} : task'[s] = task[s]
                /\ task'[t].pc = "write" /\ task'[t].id = task[t].id
                /\ task'[t].user = task[t].user /\ task'[t].dto = task[t].dto
                /\ task'[t].changed = [task[t].changed EXCEPT !.code = task[t].id]
           /\ ReadTokens(t) =>
                /\ task' \in [Tasks -> TaskRecords]
                /\ \A s \in Tasks \ {t} : task'[s] = task[s]
                /\ task'[t].pc = "delete" /\ task'[t].id = task[t].id
                /\ task'[t].user = task[t].user /\ task'[t].made = task[t].made
                /\ task'[t].read = {i \in listed : token[i].user = task[t].user}
                /\ task'[t].changed = task[t].changed
           /\ ClearTokens(t) =>
                /\ task' \in [Tasks -> TaskRecords]
                /\ \A s \in Tasks \ {t} : task'[s] = task[s]
                /\ task'[t].pc = "issue" /\ task'[t].id = task[t].id
                /\ task'[t].user = task[t].user /\ task'[t].made = task[t].made
                /\ task'[t].changed = task[t].changed
<1>1. task[t] \in TaskRecords /\ task[t].id \in Ids
  BY ActiveTask
<1>2. ASSUME NEW new \in TaskRecords, task' = [task EXCEPT ![t] = new]
      PROVE  /\ task' \in [Tasks -> TaskRecords] /\ task'[t] = new
             /\ \A s \in Tasks \ {t} : task'[s] = task[s]
  BY <1>2 DEF TypeOK
<1>3. ASSUME SendCode(t)
      PROVE  /\ task' \in [Tasks -> TaskRecords]
             /\ \A s \in Tasks \ {t} : task'[s] = task[s]
             /\ task'[t].pc = "write" /\ task'[t].id = task[t].id
             /\ task'[t].user = task[t].user /\ task'[t].dto = task[t].dto
             /\ task'[t].changed = [task[t].changed EXCEPT !.code = task[t].id]
  <2> DEFINE row2 == [task[t].changed EXCEPT !.code = task[t].id]
             new == [task[t] EXCEPT !.pc = "write", !.changed = row2]
  <2>1. row2 \in Rows
    BY <1>1 DEF TaskRecords, Rows
  <2>2. task' = [task EXCEPT ![t] = new]
    BY <1>3 DEF SendCode
  <2> HIDE DEF row2
  <2>3. /\ new \in TaskRecords /\ new.pc = "write" /\ new.id = task[t].id
        /\ new.user = task[t].user /\ new.dto = task[t].dto /\ new.changed = row2
    BY <1>1, <2>1 DEF TaskRecords
  <2> HIDE DEF new
  <2> QED
    BY <1>2, <2>2, <2>3 DEF row2
<1>4. ASSUME ReadTokens(t)
      PROVE  /\ task' \in [Tasks -> TaskRecords]
             /\ \A s \in Tasks \ {t} : task'[s] = task[s]
             /\ task'[t].pc = "delete" /\ task'[t].id = task[t].id
             /\ task'[t].user = task[t].user /\ task'[t].made = task[t].made
             /\ task'[t].read = {i \in listed : token[i].user = task[t].user}
             /\ task'[t].changed = task[t].changed
  <2> DEFINE mine == {i \in listed : token[i].user = task[t].user}
             new == [task[t] EXCEPT !.pc = "delete", !.read = mine]
  <2>1. mine \in SUBSET Ids
    BY DEF TypeOK
  <2>2. task' = [task EXCEPT ![t] = new]
    BY <1>4 DEF ReadTokens
  <2> HIDE DEF mine
  <2>3. /\ new \in TaskRecords /\ new.pc = "delete" /\ new.id = task[t].id
        /\ new.user = task[t].user /\ new.made = task[t].made /\ new.read = mine
        /\ new.changed = task[t].changed
    BY <1>1, <2>1 DEF TaskRecords
  <2> HIDE DEF new
  <2> QED
    BY <1>2, <2>2, <2>3 DEF mine
<1>5. ASSUME ClearTokens(t)
      PROVE  /\ task' \in [Tasks -> TaskRecords]
             /\ \A s \in Tasks \ {t} : task'[s] = task[s]
             /\ task'[t].pc = "issue" /\ task'[t].id = task[t].id
             /\ task'[t].user = task[t].user /\ task'[t].made = task[t].made
             /\ task'[t].changed = task[t].changed
  <2> DEFINE new == [task[t] EXCEPT !.pc = "issue", !.read = {}]
  <2>1. task' = [task EXCEPT ![t] = new]
    BY <1>5 DEF ClearTokens
  <2>2. /\ new \in TaskRecords /\ new.pc = "issue" /\ new.id = task[t].id
        /\ new.user = task[t].user /\ new.made = task[t].made
        /\ new.changed = task[t].changed
    BY <1>1 DEF TaskRecords
  <2> HIDE DEF new
  <2> QED
    BY <1>2, <2>1, <2>2
<1> QED
  BY <1>3, <1>4, <1>5

\* What failures leave behind are tokens.
LEMMA LeftType ==
    ASSUME TypeOK, OwnIds, NEW ts \in SUBSET Tasks PROVE Left(ts) \subseteq Ids
<1> SUFFICES ASSUME NEW t \in ts,
                    NEW i, task[t].pc \in Changing \/ At(t, "list"),
                    \/ i \in keys \/ i \in Issuing(task[t].user, t) \/ i = task[t].id
             PROVE  i \in Ids
  BY DEF Left, At
<1>1. task[t].id \in Ids
  BY ActiveTask DEF Changing, At
<1>2. i \in Issuing(task[t].user, t) => i \in Ids
  BY ActiveTask DEF Issuing, Changing, At
<1> QED
  BY <1>1, <1>2 DEF TypeOK

\* Every step keeps the types.
LEMMA StepType == TypeOK /\ OwnIds /\ OwnCodes /\ [Next]_vars => TypeOK'
<1> SUFFICES ASSUME TypeOK, OwnIds, OwnCodes, [Next]_vars PROVE TypeOK'
  OBVIOUS
<1> USE DEF redis, history
<1>0. /\ \A n \in 1 .. MaxRequests : n \in 0 .. MaxRequests
      /\ requests \in Nat /\ requests + 1 \in Nat /\ NoId \in Ids \cup {NoId}
      /\ 0 \in Nat
  BY DEF TypeOK
<1>1. ASSUME NEW t \in Tasks, NEW u \in Users, Login(t, u) PROVE TypeOK'
  <2>1. row[u] \in Rows /\ row[u].password \in Nat
    BY ChangedRows DEF Rows
  <2>2. /\ task' \in [Tasks -> TaskRecords] /\ requests' \in 1 .. MaxRequests
    BY <1>0, <1>1, <2>1, RequestFacts DEF Login
  <2> QED
    BY <1>0, <1>1, <2>2 DEF Login, TypeOK
<1>2. ASSUME NEW t \in Tasks, StoreRefreshToken(t) PROVE TypeOK'
  <2>1. task' \in [Tasks -> TaskRecords]
    BY <1>2, GoFacts DEF StoreRefreshToken
  <2>2. task[t] \in TaskRecords /\ task[t].id \in Ids
    BY <1>2, ActiveTask DEF StoreRefreshToken, At
  <2>3. [user |-> task[t].user, made |-> task[t].made] \in [user : Users, made : Nat]
    BY <2>2 DEF TaskRecords
  <2> QED
    BY <1>2, <2>1, <2>2, <2>3 DEF StoreRefreshToken, TypeOK
<1>3. ASSUME NEW t \in Tasks, ListRefreshToken(t) PROVE TypeOK'
  <2>1. task' \in [Tasks -> TaskRecords] /\ task[t].id \in Ids
    BY <1>3, FinishFacts, ActiveTask DEF ListRefreshToken, At
  <2> QED
    BY <1>3, <2>1 DEF ListRefreshToken, TypeOK
<1>4. ASSUME NEW t \in Tasks, UnlistToken(t) PROVE TypeOK'
  <2>1. task' \in [Tasks -> TaskRecords]
    BY <1>4, GoFacts DEF UnlistToken
  <2> QED
    BY <1>4, <2>1 DEF UnlistToken, TypeOK
<1>5. ASSUME NEW t \in Tasks, NEW i \in Ids, RefreshSession(t, i) PROVE TypeOK'
  <2>1. /\ token[i].user \in Users /\ token[i].made \in Nat
        /\ row[token[i].user] \in Rows
    BY DEF TypeOK
  <2>2. task' \in [Tasks -> TaskRecords] /\ requests' \in 1 .. MaxRequests
    BY <1>5, <2>1, RequestFacts DEF RefreshSession
  <2>3. missed' \subseteq Ids
    BY <1>5, <2>2 DEF RefreshSession, TypeOK, Ids
  <2> QED
    BY <1>0, <1>5, <2>2, <2>3 DEF RefreshSession, TypeOK
<1>6. ASSUME NEW t \in Tasks, NEW i \in Ids, Logout(t, i) PROVE TypeOK'
  BY <1>6 DEF Logout, TypeOK
<1>7. ASSUME NEW t \in Tasks, NEW u \in Users, ChangePassword(t, u) PROVE TypeOK'
  <2>1. [row[u] EXCEPT !.password = requests + 1] \in Rows
    BY <1>0, ChangedRows
  <2>2. /\ task' \in [Tasks -> TaskRecords] /\ requests' \in 1 .. MaxRequests
    BY <1>0, <1>7, <2>1, RequestFacts DEF ChangePassword
  <2> QED
    BY <1>0, <1>7, <2>2 DEF ChangePassword, TypeOK
<1>8. ASSUME NEW t \in Tasks, CommitPassword(t) PROVE TypeOK'
  <2>1. task' \in [Tasks -> TaskRecords]
    BY <1>8, GoFacts DEF CommitPassword
  <2>2. /\ task[t].user \in Users /\ task[t].changed.password \in Nat
        /\ row[task[t].user] \in Rows
    BY <1>8 DEF TypeOK, TaskRecords, Rows
  <2>3. [row[task[t].user] EXCEPT !.password = task[t].changed.password] \in Rows
    BY <2>2 DEF Rows
  <2>4. row' \in [Users -> Rows]
    BY <1>8, <2>2, <2>3 DEF CommitPassword, TypeOK
  <2> QED
    BY <1>8, <2>1, <2>4 DEF CommitPassword, TypeOK
<1>9. ASSUME NEW t \in Tasks, ReadTokens(t) PROVE TypeOK'
  <2>1. task' \in [Tasks -> TaskRecords]
    BY <1>9, UpdateFacts DEF ReadTokens, At
  <2>2. Issuing(task[t].user, t) \subseteq Ids
    BY ActiveTask DEF Issuing, Changing, At
  <2> QED
    BY <1>9, <2>1, <2>2 DEF ReadTokens, TypeOK
<1>10. ASSUME NEW t \in Tasks, DeleteTokens(t) PROVE TypeOK'
  <2>1. task' \in [Tasks -> TaskRecords]
    BY <1>10, GoFacts DEF DeleteTokens
  <2> QED
    BY <1>10, <2>1 DEF DeleteTokens, TypeOK
<1>11. ASSUME NEW t \in Tasks, ClearTokens(t) PROVE TypeOK'
  <2>1. task' \in [Tasks -> TaskRecords]
    BY <1>11, UpdateFacts DEF ClearTokens, At
  <2> QED
    BY <1>11, <2>1 DEF ClearTokens, TypeOK
<1>12. ASSUME NEW t \in Tasks, NEW u \in Users,
              ChangeEmail(t, u) \/ RequestEmailVerification(t, u)
              \/ ConfirmEmailVerification(t, u)
       PROVE  TypeOK'
  <2>1. PICK changed \in Rows, pc \in {"send", "write"} : Request(t, u, pc, changed, NoId, 0)
    <3>1. CASE ChangeEmail(t, u)
      <4>1. PICK e \in Emails :
              Request(t, u, "write", [row[u] EXCEPT !.pending_email = e,
                         !.is_email_verified = FALSE, !.code = NoId], NoId, 0)
        BY <3>1 DEF ChangeEmail
      <4> QED
        BY <4>1, ChangedRows
    <3>2. CASE RequestEmailVerification(t, u)
      <4>1. PICK e \in Emails \cup {NoEmail} :
              Request(t, u, "send", Requested(row[u], e), NoId, 0)
        BY <3>2 DEF RequestEmailVerification
      <4> QED
        BY <4>1, ChangedRows
    <3>3. CASE ConfirmEmailVerification(t, u)
      BY <3>3, ChangedRows DEF ConfirmEmailVerification
    <3> QED
      BY <1>12, <3>1, <3>2, <3>3
  <2>2. task' \in [Tasks -> TaskRecords] /\ requests' \in 1 .. MaxRequests
    BY <1>0, <2>1, RequestFacts
  <2>3. /\ UNCHANGED <<row, keys, listed, token, held, sent, overlap, missed, faults>>
        /\ proved' \subseteq Users \X Emails
    <3>1. CASE ChangeEmail(t, u) \/ RequestEmailVerification(t, u)
      BY <3>1 DEF ChangeEmail, RequestEmailVerification, TypeOK
    <3>2. CASE ConfirmEmailVerification(t, u)
      <4>1. sent[row[u].code] \in Emails
        BY <3>2 DEF ConfirmEmailVerification, OwnCodes, WasSent
      <4> QED
        BY <3>2, <4>1 DEF ConfirmEmailVerification, TypeOK
    <3> QED
      BY <1>12, <3>1, <3>2
  <2> QED
    BY <1>0, <2>2, <2>3 DEF TypeOK
<1>13. ASSUME NEW t \in Tasks, SendCode(t) PROVE TypeOK'
  <2>1. task' \in [Tasks -> TaskRecords] /\ task[t].changed \in Rows
    BY <1>13, UpdateFacts, ActiveTask DEF SendCode, At, TaskRecords
  <2>2. Target(task[t].changed) \in Emails \cup {NoEmail}
    BY <2>1 DEF Target, Rows
  <2> QED
    BY <1>13, <2>1, <2>2 DEF SendCode, TypeOK
<1>14. ASSUME NEW t \in Tasks, CommitEmail(t) PROVE TypeOK'
  <2>1. task' \in [Tasks -> TaskRecords]
    BY <1>14, FinishFacts DEF CommitEmail
  <2>2. /\ task[t].user \in Users /\ task[t].dto \in Rows /\ task[t].changed \in Rows
        /\ row[task[t].user] \in Rows
    BY DEF TypeOK, TaskRecords
  <2>3. Merged(row[task[t].user], task[t].dto, task[t].changed) \in Rows
    BY <2>2, MergedRow
  <2>4. row' \in [Users -> Rows] /\ overlap' \subseteq Users
    BY <1>14, <2>2, <2>3 DEF CommitEmail, TypeOK
  <2> QED
    BY <1>14, <2>1, <2>4 DEF CommitEmail, TypeOK
<1>15. ASSUME NEW t \in Tasks, RequestFails(t) PROVE TypeOK'
  <2>1. task' \in [Tasks -> TaskRecords] /\ Left({t}) \subseteq Ids
    BY <1>15, FinishFacts, LeftType DEF RequestFails
  <2>2. missed' = missed \cup Left({t}) /\ faults' \in Nat
    BY <1>15 DEF RequestFails, Fault, TypeOK
  <2>3. UNCHANGED <<row, keys, listed, token, held, sent, proved, overlap, requests>>
    BY <1>15 DEF RequestFails
  <2>4. missed' \subseteq Ids
    BY <2>1, <2>2 DEF TypeOK
  <2>5. task' \in [Tasks -> TaskRecords]
    BY <2>1
  <2> QED
    BY <2>2, <2>3, <2>4, <2>5 DEF TypeOK
<1>16. ASSUME ProcessDies PROVE TypeOK'
  BY <1>16, IdleType, LeftType DEF ProcessDies, Fault, TypeOK
<1>17. ASSUME UNCHANGED vars PROVE TypeOK'
  BY <1>17 DEF vars, TypeOK
<1> QED
  BY <1>1, <1>2, <1>3, <1>4, <1>5, <1>6, <1>7, <1>8, <1>9, <1>10, <1>11, <1>12,
     <1>13, <1>14, <1>15, <1>16, <1>17
  DEF Next, SessionStep

-----------------------------------------------------------------------------
(* Sessions under a step *)

Others(t) == \A s \in Tasks \ {t} : task'[s] = task[s]

\* A request that goes on, or ends, and takes no token into a set.
LEMMA GoesOn ==
    ASSUME TypeOK, Sessions, NEW t \in Tasks, Others(t),
           \/ task'[t].pc = "idle"
           \/ task[t].pc \notin {"idle", "list"} /\ task'[t].id = task[t].id,
           keys' \subseteq keys, listed' \subseteq listed, UNCHANGED <<token, held, requests>>
    PROVE  OwnIds' /\ \A s \in Tasks \ {t} : Remembers(s)'
<1>0. OwnIds
  BY DEF Sessions
<1>1. OwnIds'
  <2>1. keys' \subseteq 1 .. requests /\ held \subseteq 1 .. requests /\ listed' \subseteq held
    BY <1>0 DEF OwnIds
  <2>2. \A s \in Tasks : task'[s].pc # "idle" =>
          /\ task[s].pc # "idle" /\ task'[s].id = task[s].id
          /\ task[s].pc = "list" => task'[s].pc = "list"
    BY DEF Others
  <2>3. ASSUME NEW s \in Tasks, Active(s)'
        PROVE  /\ task'[s].id \in (1 .. requests) \ held
               /\ ~At(s, "list")' => task'[s].id \notin keys'
    <3>1. task'[s].pc # "idle"
      BY <2>3 DEF Active, At
    <3>2. task[s].id \in (1 .. requests) \ held /\ (task[s].pc # "list" => task[s].id \notin keys)
      BY <1>0, <2>2, <3>1 DEF OwnIds, Active, At
    <3> QED
      BY <2>2, <3>1, <3>2 DEF At
  <2>4. ASSUME NEW r \in Tasks, NEW s \in Tasks, Active(r)', Active(s)', task'[r].id = task'[s].id
        PROVE  r = s
    <3>1. task'[r].pc # "idle" /\ task'[s].pc # "idle"
      BY <2>4 DEF Active, At
    <3> QED
      BY <1>0, <2>2, <2>4, <3>1 DEF OwnIds, Active, At
  <2> QED
    BY <2>1, <2>3, <2>4 DEF OwnIds
<1>2. ASSUME NEW s \in Tasks \ {t} PROVE Remembers(s)'
  <2>1. Remembers(s) /\ task'[s] = task[s]
    BY DEF Sessions, Others
  <2> QED
    BY <2>1 DEF Remembers, At, Mailing
<1> QED
  BY <1>1, <1>2

\* Requests and tokens that rely on nothing this step changes.
LEMMA KeepsFresh ==
    ASSUME TypeOK, Sessions, NEW t \in Tasks, Others(t),
           ~At(t, "revoke"), ~At(t, "delete"), missed \subseteq missed',
           \A u \in Users : row'[u].password = row[u].password,
           \A i \in keys : token'[i] = token[i]
    PROVE  /\ \A s \in Tasks \ {t} : FreshSession(s)'
           /\ \A i \in keys : FreshToken(i)'
<1>1. \A u : \A s \in Tasks : RevokedBy(u, s) => s # t /\ RevokedBy(u, s)'
  BY DEF RevokedBy, At, Others
<1>2. ASSUME NEW s \in Tasks \ {t} PROVE FreshSession(s)'
  <2>1. FreshSession(s) /\ task'[s] = task[s] /\ task[s].user \in Users
    BY DEF Sessions, Others, TypeOK, TaskRecords
  <2> QED
    BY <1>1, <2>1 DEF FreshSession
<1>3. ASSUME NEW i \in keys PROVE FreshToken(i)'
  <2>1. FreshToken(i) /\ token'[i] = token[i] /\ token[i].user \in Users
    BY DEF Sessions, TypeOK
  <2>2. \A s \in Tasks : At(s, "delete") => At(s, "delete")' /\ task'[s] = task[s]
    BY DEF At, Others
  <2> QED
    BY <1>1, <2>1, <2>2 DEF FreshToken
<1> QED
  BY <1>2, <1>3

\* Sessions, part by part.
LEMMA SessionsFromParts ==
    ASSUME TypeOK', NEW t \in Tasks, OwnIds', KeysAreListed',
           \A s \in Tasks \ {t} : Remembers(s)' /\ FreshSession(s)',
           Remembers(t)', FreshSession(t)', \A i \in keys' : FreshToken(i)'
    PROVE  Sessions'
<1>1. \A i \in Ids : FreshToken(i)'
  BY DEF FreshToken
<1> QED
  BY <1>1 DEF Sessions

\* A new request, with the next id.
LEMMA NewRequest ==
    ASSUME TypeOK, TypeOK', Sessions, NEW t \in Tasks, Others(t), ~Active(t),
           requests' = requests + 1, task'[t].id = requests', UNCHANGED <<listed, held, token>>,
           keys' \subseteq keys, task'[t].pc # "list"
    PROVE  OwnIds' /\ \A s \in Tasks \ {t} : Remembers(s)'
<1>1. requests \in Nat /\ requests' \in Nat /\ requests' \notin 1 .. requests
      /\ 1 .. requests \subseteq 1 .. requests' /\ requests' \in 1 .. requests'
  BY DEF TypeOK
<1>2. OwnIds'
  <2>1. keys' \subseteq 1 .. requests' /\ held' \subseteq 1 .. requests' /\ listed' \subseteq held'
        /\ requests' \notin keys' /\ requests' \notin held'
    BY <1>1 DEF Sessions, OwnIds
  <2>2. ASSUME NEW s \in Tasks, Active(s)'
        PROVE  /\ task'[s].id \in (1 .. requests') \ held'
               /\ ~At(s, "list")' => task'[s].id \notin keys'
    BY <1>1, <2>1, <2>2 DEF Sessions, OwnIds, Others, Active, At
  <2>3. ASSUME NEW r \in Tasks, NEW s \in Tasks, Active(r)', Active(s)', task'[r].id = task'[s].id
        PROVE  r = s
    BY <1>1, <2>3 DEF Sessions, OwnIds, Others, Active, At
  <2> QED
    BY <2>1, <2>2, <2>3 DEF OwnIds
<1>3. ASSUME NEW s \in Tasks \ {t} PROVE Remembers(s)'
  <2>1. Remembers(s) /\ task'[s] = task[s]
    BY DEF Sessions, Others
  <2> QED
    BY <2>1 DEF Remembers, At, Mailing
<1> QED
  BY <1>2, <1>3

\* Requests of a password or an address, and logins, rely on nothing yet.
LEMMA RequestSessions ==
    ASSUME TypeOK, TypeOK', Sessions, NEW t \in Tasks, NEW u \in Users, NEW changed \in Rows,
           NEW pc \in {"issue", "password", "send", "write"}, NEW made \in Nat,
           Request(t, u, pc, changed, NoId, made),
           UNCHANGED <<row, keys, listed, token, held, missed>>,
           pc = "issue" => made = row[u].password,
           pc = "password" => changed.password = made,
           pc \in {"send", "write"} => changed.password = row[u].password
    PROVE  Sessions'
<1>1. /\ task[t].pc = "idle" /\ requests' = requests + 1 /\ Others(t)
      /\ task'[t].pc = pc /\ task'[t].id = requests' /\ task'[t].user = u
      /\ task'[t].dto = row[u] /\ task'[t].changed = changed
      /\ task'[t].made = made
  BY RequestFacts DEF Others
<1>2. OwnIds' /\ \A s \in Tasks \ {t} : Remembers(s)'
  BY <1>1, NewRequest DEF Active, At
<1>3. /\ \A s \in Tasks \ {t} : FreshSession(s)'
      /\ \A i \in keys : FreshToken(i)'
  BY <1>1, KeepsFresh DEF At
<1>4. KeysAreListed'
  BY <1>1 DEF Sessions, KeysAreListed, At, Others
<1>5. Remembers(t)'
  BY <1>1 DEF Remembers, At, Mailing
<1>6. FreshSession(t)'
  BY <1>1 DEF FreshSession, Changing
<1> QED
  BY <1>2, <1>3, <1>4, <1>5, <1>6, SessionsFromParts

\* The new session is as old as the one it goes on from.
LEMMA RefreshSessions ==
    ASSUME TypeOK, TypeOK', Sessions, NEW t \in Tasks, NEW i \in Ids, RefreshSession(t, i)
    PROVE  Sessions'
<1> DEFINE u == token[i].user
<1>0. /\ token[i].user \in Users /\ token[i].made \in Nat /\ row[token[i].user] \in Rows
      /\ i \in keys /\ i \in held
  BY DEF TypeOK, RefreshSession
<1>1. /\ task[t].pc = "idle" /\ requests' = requests + 1 /\ Others(t)
      /\ task'[t].pc = "unlist" /\ task'[t].id = requests' /\ task'[t].user = token[i].user
      /\ task'[t].token = i /\ task'[t].made = token[i].made
      /\ UNCHANGED <<row, listed, token, held>> /\ keys' = keys \ {i}
      /\ missed' = IF Escapes(i) THEN missed \cup {requests'} ELSE missed
  BY <1>0, RequestFacts DEF Others, RefreshSession, redis
<1>2. OwnIds' /\ \A s \in Tasks \ {t} : Remembers(s)'
  BY <1>1, NewRequest DEF Active, At
<1>3. /\ \A s \in Tasks \ {t} : FreshSession(s)'
      /\ \A j \in keys : FreshToken(j)'
  BY <1>1, KeepsFresh DEF At
<1>4. KeysAreListed'
  BY <1>1 DEF Sessions, KeysAreListed, At, Others
<1>5. Remembers(t)'
  BY <1>0, <1>1 DEF Remembers, At, Mailing
<1>6. FreshSession(t)'
  <2> SUFFICES ASSUME ~Escapes(i)
               PROVE  \/ token[i].made = row[token[i].user].password
                      \/ \E s \in Tasks \ {t} : RevokedBy(token[i].user, s)'
    BY <1>1 DEF FreshSession
  <2>1. FreshToken(i) /\ i \notin missed
        /\ ~\E s \in Tasks : At(s, "delete") /\ i \in task[s].read
    BY DEF Sessions, Escapes
  <2>2. \A s \in Tasks : RevokedBy(token[i].user, s) => s # t /\ RevokedBy(token[i].user, s)'
    BY <1>1 DEF RevokedBy, At, Others
  <2> QED
    BY <1>0, <2>1, <2>2 DEF FreshToken
<1> QED
  BY <1>1, <1>2, <1>3, <1>4, <1>5, <1>6, SessionsFromParts

\* A token that is stored is as new as its session.
LEMMA StoreSessions ==
    ASSUME TypeOK, TypeOK', Sessions, NEW t \in Tasks, StoreRefreshToken(t)
    PROVE  Sessions'
<1> PICK i, u : i = task[t].id /\ u = task[t].user
  OBVIOUS
<1>0. /\ OwnIds /\ Remembers(t) /\ FreshSession(t) /\ task[t].pc = "issue"
      /\ u \in Users /\ i \in Ids /\ i \notin keys /\ i \notin held /\ i \in 1 .. requests
  BY ActiveTask DEF Sessions, StoreRefreshToken, OwnIds, Active, At
<1>1. /\ Others(t) /\ task'[t].pc = "list" /\ task'[t].id = i /\ task'[t].user = u
      /\ task'[t].made = task[t].made
      /\ keys' = keys \cup {i} /\ token'[i] = [user |-> u, made |-> task[t].made]
      /\ \A j \in Ids \ {i} : token'[j] = token[j]
      /\ UNCHANGED <<row, listed, held, missed, requests>>
  BY <1>0, GoFacts DEF StoreRefreshToken, Others, history, TypeOK
<1>2. \A s \in Tasks \ {t} : task[s].pc # "idle" => task[s].id # i
  BY <1>0 DEF OwnIds, Active, At
<1>3. OwnIds'
  <2>1. keys' \subseteq 1 .. requests /\ UNCHANGED <<requests, held, listed>>
    BY <1>0, <1>1 DEF OwnIds
  <2>2. ASSUME NEW s \in Tasks, Active(s)'
        PROVE  /\ task'[s].id \in (1 .. requests) \ held
               /\ ~At(s, "list")' => task'[s].id \notin keys'
    BY <1>0, <1>1, <1>2, <2>2 DEF OwnIds, Active, At, Others
  <2>3. ASSUME NEW r \in Tasks, NEW s \in Tasks, Active(r)', Active(s)', task'[r].id = task'[s].id
        PROVE  r = s
    BY <1>0, <1>1, <2>3 DEF OwnIds, Active, At, Others
  <2> QED
    BY <1>0, <2>1, <2>2, <2>3 DEF OwnIds
<1>4. ASSUME NEW s \in Tasks \ {t} PROVE Remembers(s)'
  <2>1. Remembers(s) /\ task'[s] = task[s] /\ (task[s].pc # "idle" => task[s].id # i)
    BY <1>1, <1>2 DEF Sessions, Others
  <2>2. At(s, "list") => token'[task[s].id] = token[task[s].id]
    BY <1>0, <1>1, <2>1, ActiveTask DEF At
  <2>3. At(s, "unlist") => task[s].token \in held \ keys'
    BY <1>0, <1>1, <2>1 DEF Remembers
  <2>4. At(s, "delete") => \A j \in task[s].read : j \in held /\ token'[j].user = task[s].user
    BY <1>0, <1>1, <2>1 DEF Remembers, TypeOK
  <2> QED
    BY <1>1, <2>1, <2>2, <2>3, <2>4 DEF Remembers, At, Mailing
<1>5. Remembers(t)'
  BY <1>1 DEF Remembers, At, Mailing
<1>6. \A j \in keys : token'[j] = token[j]
  BY <1>0, <1>1 DEF TypeOK
<1>7. /\ \A s \in Tasks \ {t} : FreshSession(s)'
      /\ \A j \in keys : FreshToken(j)'
  BY <1>0, <1>1, <1>6, KeepsFresh DEF At
<1>8. i \notin missed => \/ task[t].made = row[u].password
                         \/ \E s \in Tasks \ {t} : RevokedBy(u, s)'
  BY <1>0, <1>1 DEF FreshSession, RevokedBy, At, Others
<1>9. FreshSession(t)'
  BY <1>1, <1>8 DEF FreshSession
<1>10. FreshToken(i)'
  BY <1>1, <1>8 DEF FreshToken
<1>11. KeysAreListed'
  <2> SUFFICES ASSUME NEW j \in keys', j \notin missed, j \notin listed
               PROVE  \E s \in Tasks : task'[s].pc = "list" /\ task'[s].id = j
    BY <1>1 DEF KeysAreListed, At
  <2>1. CASE j = i
    BY <1>1, <2>1
  <2>2. CASE j # i
    <3>1. PICK s \in Tasks : task[s].pc = "list" /\ task[s].id = j
      BY <1>1, <2>2 DEF Sessions, KeysAreListed, At
    <3> QED
      BY <1>0, <1>1, <3>1 DEF Others
  <2> QED
    BY <2>1, <2>2
<1>12. \A j \in keys' : FreshToken(j)'
  <2> SUFFICES ASSUME NEW j \in keys' PROVE FreshToken(j)'
    OBVIOUS
  <2>1. CASE j = i
    BY <1>10, <2>1
  <2>2. CASE j \in keys
    BY <1>7, <2>2
  <2> QED
    BY <1>1, <2>1, <2>2
<1> QED
  BY <1>3, <1>4, <1>5, <1>7, <1>9, <1>11, <1>12, SessionsFromParts

\* A token that is in its set is no longer with its request.
LEMMA ListSessions ==
    ASSUME TypeOK, TypeOK', Sessions, NEW t \in Tasks, ListRefreshToken(t)
    PROVE  Sessions'
<1> DEFINE i == task[t].id
<1>0. /\ OwnIds /\ task[t].pc = "list" /\ i \in 1 .. requests /\ i \notin held
  BY ActiveTask DEF Sessions, ListRefreshToken, At
<1>1. /\ Others(t) /\ task'[t].pc = "idle"
      /\ listed' = listed \cup {i} /\ held' = held \cup {i}
      /\ UNCHANGED <<row, keys, token, missed, requests>>
  BY FinishFacts DEF ListRefreshToken, Others, history
<1>2. OwnIds'
  <2>1. keys \subseteq 1 .. requests /\ held' \subseteq 1 .. requests /\ listed' \subseteq held'
    BY <1>0, <1>1 DEF OwnIds
  <2>2. ASSUME NEW s \in Tasks, Active(s)'
        PROVE  /\ task'[s].id \in (1 .. requests) \ held'
               /\ ~At(s, "list")' => task'[s].id \notin keys
    BY <1>0, <1>1, <2>2 DEF OwnIds, Active, At, Others
  <2>3. ASSUME NEW r \in Tasks, NEW s \in Tasks, Active(r)', Active(s)', task'[r].id = task'[s].id
        PROVE  r = s
    BY <1>0, <1>1, <2>3 DEF OwnIds, Active, At, Others
  <2> QED
    BY <1>1, <2>1, <2>2, <2>3 DEF OwnIds
<1>3. ASSUME NEW s \in Tasks \ {t} PROVE Remembers(s)'
  <2>1. Remembers(s) /\ task'[s] = task[s]
    BY <1>1 DEF Sessions, Others
  <2> QED
    BY <1>1, <2>1 DEF Remembers, At, Mailing
<1>4. Remembers(t)' /\ FreshSession(t)'
  BY <1>1 DEF Remembers, FreshSession, At, Mailing, Changing
<1>5. /\ \A s \in Tasks \ {t} : FreshSession(s)'
      /\ \A j \in keys : FreshToken(j)'
  BY <1>0, <1>1, KeepsFresh DEF At
<1>6. KeysAreListed'
  BY <1>1 DEF Sessions, KeysAreListed, At, Others
<1> QED
  BY <1>1, <1>2, <1>3, <1>4, <1>5, <1>6, SessionsFromParts

\* A token that is taken out of the set works no more.
LEMMA UnlistSessions ==
    ASSUME TypeOK, TypeOK', Sessions, NEW t \in Tasks, UnlistToken(t)
    PROVE  Sessions'
<1>0. task[t].pc = "unlist" /\ Remembers(t) /\ FreshSession(t)
  BY DEF UnlistToken, At, Sessions
<1>1. /\ Others(t) /\ task'[t].pc = "issue" /\ task'[t].id = task[t].id
      /\ task'[t].user = task[t].user /\ task'[t].made = task[t].made
      /\ listed' = listed \ {task[t].token}
      /\ UNCHANGED <<row, keys, token, held, missed, requests>>
  BY GoFacts DEF UnlistToken, Others, history
<1>2. OwnIds' /\ \A s \in Tasks \ {t} : Remembers(s)'
  BY <1>0, <1>1, GoesOn
<1>3. Remembers(t)'
  BY <1>1 DEF Remembers, At, Mailing
<1>4. /\ \A s \in Tasks \ {t} : FreshSession(s)'
      /\ \A j \in keys : FreshToken(j)'
  BY <1>0, <1>1, KeepsFresh DEF At
<1>5. FreshSession(t)'
  BY <1>0, <1>1 DEF FreshSession, RevokedBy, At, Others
<1>6. task[t].token \notin keys
  BY <1>0 DEF Remembers, At
<1>7. KeysAreListed'
  BY <1>0, <1>1, <1>6 DEF Sessions, KeysAreListed, At, Others
<1> QED
  BY <1>1, <1>2, <1>3, <1>4, <1>5, <1>7, SessionsFromParts

\* Nor does one whose browser logs out.
LEMMA LogoutSessions ==
    ASSUME TypeOK, TypeOK', Sessions, NEW t \in Tasks, NEW i \in Ids, Logout(t, i)
    PROVE  Sessions'
<1>0. task[t].pc = "idle" /\ task' = task /\ Others(t)
  BY DEF Logout, At, Others
<1>1. /\ keys' = keys \ {i} /\ listed' = listed \ {i}
      /\ UNCHANGED <<row, token, held, missed, requests>>
  BY DEF Logout, history
<1>2. OwnIds' /\ \A s \in Tasks \ {t} : Remembers(s)'
  BY <1>0, <1>1, GoesOn
<1>3. Remembers(t)' /\ FreshSession(t)'
  BY <1>0 DEF Remembers, FreshSession, At, Mailing, Changing
<1>4. /\ \A s \in Tasks \ {t} : FreshSession(s)'
      /\ \A j \in keys : FreshToken(j)'
  BY <1>0, <1>1, KeepsFresh DEF At
<1>5. KeysAreListed'
  BY <1>0, <1>1 DEF Sessions, KeysAreListed, At
<1> QED
  BY <1>1, <1>2, <1>3, <1>4, <1>5, SessionsFromParts

\* The request that changes the password is at its revocation now: whatever
\* is older than the new password relies on that.
LEMMA CommitPasswordSessions ==
    ASSUME TypeOK, TypeOK', Sessions, NEW t \in Tasks, CommitPassword(t)
    PROVE  Sessions'
<1> PICK u : u = task[t].user
  OBVIOUS
<1>0. /\ task[t].pc = "password" /\ u \in Users /\ Remembers(t)
      /\ task[t].changed.password = task[t].made
  BY DEF CommitPassword, At, Sessions, Remembers, TypeOK, TaskRecords
<1>1. /\ Others(t) /\ task'[t].pc = "revoke" /\ task'[t].id = task[t].id
      /\ task'[t].user = u /\ task'[t].made = task[t].made
      /\ row'[u].password = task[t].made
      /\ \A v \in Users \ {u} : row'[v] = row[v]
      /\ UNCHANGED <<keys, listed, token, held, missed, requests>>
  BY <1>0, GoFacts DEF CommitPassword, Others, history, redis, TypeOK, Rows
<1>2. OwnIds' /\ \A s \in Tasks \ {t} : Remembers(s)'
  BY <1>0, <1>1, GoesOn
<1>3. Remembers(t)'
  BY <1>1 DEF Remembers, At, Mailing
<1>4. /\ RevokedBy(u, t)'
      /\ \A v : \A s \in Tasks : RevokedBy(v, s) => s # t /\ RevokedBy(v, s)'
  BY <1>0, <1>1 DEF RevokedBy, At, Others
<1>5. ASSUME NEW s \in Tasks \ {t} PROVE FreshSession(s)'
  <2>1. FreshSession(s) /\ task'[s] = task[s] /\ task[s].user \in Users
    BY <1>1 DEF Sessions, Others, TypeOK, TaskRecords
  <2>2. CASE task[s].user = u
    <3>1. \E r \in Tasks \ {s} : RevokedBy(u, r)'
      BY <1>4
    <3> QED
      BY <2>1, <2>2, <3>1 DEF FreshSession
  <2>3. CASE task[s].user # u
    <3>1. row'[task[s].user] = row[task[s].user]
      BY <1>1, <2>1, <2>3
    <3> QED
      BY <1>1, <1>4, <2>1, <3>1 DEF FreshSession
  <2> QED
    BY <2>2, <2>3
<1>6. FreshSession(t)'
  BY <1>1 DEF FreshSession
<1>7. ASSUME NEW i \in keys PROVE FreshToken(i)'
  <2>1. FreshToken(i) /\ token[i].user \in Users
    BY DEF Sessions, TypeOK
  <2>2. \A s \in Tasks : At(s, "delete") => At(s, "delete")' /\ task'[s] = task[s]
    BY <1>0, <1>1 DEF At, Others
  <2>3. CASE token[i].user = u
    BY <1>1, <1>4, <2>3 DEF FreshToken
  <2>4. CASE token[i].user # u
    <3>1. row'[token[i].user] = row[token[i].user]
      BY <1>1, <2>1, <2>4
    <3> QED
      BY <1>1, <1>4, <2>1, <2>2, <3>1 DEF FreshToken
  <2> QED
    BY <2>3, <2>4
<1>8. KeysAreListed'
  BY <1>0, <1>1 DEF Sessions, KeysAreListed, At, Others
<1> QED
  BY <1>1, <1>2, <1>3, <1>5, <1>6, <1>7, <1>8, SessionsFromParts

\* A revocation sees the tokens in the set; those on their way to it are missed.
LEMMA ReadSessions ==
    ASSUME TypeOK, TypeOK', Sessions, NEW t \in Tasks, ReadTokens(t)
    PROVE  Sessions'
<1> PICK u : u = task[t].user
  OBVIOUS
<1>0. /\ task[t].pc = "revoke" /\ OwnIds /\ FreshSession(t)
  BY DEF ReadTokens, At, Sessions
<1>1. /\ Others(t) /\ task'[t].pc = "delete" /\ task'[t].id = task[t].id
      /\ task'[t].user = u /\ task'[t].made = task[t].made
      /\ task'[t].read = {i \in listed : token[i].user = u}
      /\ missed' = missed \cup Issuing(u, t)
      /\ UNCHANGED <<row, keys, listed, token, held, requests>>
  BY <1>0, UpdateFacts DEF ReadTokens, Others, redis, At
<1>2. OwnIds' /\ \A s \in Tasks \ {t} : Remembers(s)'
  BY <1>0, <1>1, GoesOn DEF Active, At
<1>3. Remembers(t)'
  BY <1>0, <1>1 DEF Remembers, At, Mailing, OwnIds
<1>4. \A v : \A s \in Tasks \ {t} : RevokedBy(v, s) => RevokedBy(v, s)'
  BY <1>1 DEF RevokedBy, At, Others
<1>5. ASSUME NEW s \in Tasks \ {t} PROVE FreshSession(s)'
  <2>1. FreshSession(s) /\ task'[s] = task[s]
    BY <1>1 DEF Sessions, Others
  <2>2. CASE task[s].user = u
    BY <1>1, <2>1, <2>2 DEF FreshSession, Issuing
  <2>3. CASE task[s].user # u
    <3>1. ~RevokedBy(task[s].user, t)
      BY <2>3 DEF RevokedBy
    <3> QED
      BY <1>1, <1>4, <2>1, <3>1 DEF FreshSession
  <2> QED
    BY <2>2, <2>3
<1>6. FreshSession(t)'
  <2>1. task[t].id \notin missed => \/ task[t].made = row[u].password
                                    \/ \E s \in Tasks \ {t} : RevokedBy(u, s)
    BY <1>0 DEF FreshSession, Changing
  <2> QED
    BY <1>1, <1>4, <2>1 DEF FreshSession
<1>7. ASSUME NEW i \in keys PROVE FreshToken(i)'
  <2> SUFFICES ASSUME i \notin missed'
               PROVE  \/ token[i].made = row[token[i].user].password
                      \/ \E s \in Tasks : RevokedBy(token[i].user, s)'
                      \/ \E s \in Tasks : At(s, "delete")' /\ i \in task'[s].read
    BY <1>1 DEF FreshToken
  <2>1. FreshToken(i) /\ i \notin missed
    BY <1>1 DEF Sessions, TypeOK
  <2>2. CASE RevokedBy(token[i].user, t)
    <3>1. token[i].user = u
      BY <2>2 DEF RevokedBy
    <3>2. i \in listed
      <4> SUFFICES ASSUME NEW s \in Tasks, task[s].pc = "list", task[s].id = i PROVE FALSE
        BY <2>1 DEF Sessions, KeysAreListed, At
      <4>1. task[s].user = u /\ s # t
        <5>1. Remembers(s)
          BY DEF Sessions
        <5>2. token[i] = [user |-> task[s].user, made |-> task[s].made]
          BY <5>1 DEF Remembers, At
        <5> QED
          BY <1>0, <3>1, <5>2
      <4>2. i \in Issuing(u, t)
        BY <4>1 DEF Issuing
      <4> QED
        BY <1>1, <4>2
    <3>3. i \in task'[t].read
      BY <1>1, <3>1, <3>2
    <3> QED
      BY <1>1, <3>3 DEF At
  <2>3. CASE ~RevokedBy(token[i].user, t)
    <3>1. \A s \in Tasks : At(s, "delete") => At(s, "delete")' /\ task'[s] = task[s]
      BY <1>0, <1>1 DEF At, Others
    <3> QED
      BY <1>1, <1>4, <2>1, <2>3, <3>1 DEF FreshToken
  <2> QED
    BY <2>2, <2>3
<1>8. KeysAreListed'
  BY <1>0, <1>1 DEF Sessions, KeysAreListed, At, Others
<1> QED
  BY <1>1, <1>2, <1>3, <1>5, <1>6, <1>7, <1>8, SessionsFromParts

\* The tokens that the revocation has read stop working.
LEMMA DeleteSessions ==
    ASSUME TypeOK, TypeOK', Sessions, NEW t \in Tasks, DeleteTokens(t)
    PROVE  Sessions'
<1> PICK u : u = task[t].user
  OBVIOUS
<1>0. task[t].pc = "delete" /\ FreshSession(t)
  BY DEF DeleteTokens, At, Sessions
<1>1. /\ Others(t) /\ task'[t].pc = "clear" /\ task'[t].id = task[t].id
      /\ task'[t].user = u /\ task'[t].made = task[t].made
      /\ keys' = keys \ task[t].read
      /\ UNCHANGED <<row, listed, token, held, missed, requests>>
  BY GoFacts DEF DeleteTokens, Others, history
<1>2. OwnIds' /\ \A s \in Tasks \ {t} : Remembers(s)'
  BY <1>0, <1>1, GoesOn DEF Active, At
<1>3. Remembers(t)'
  BY <1>1 DEF Remembers, At, Mailing
<1>4. \A v : \A s \in Tasks : RevokedBy(v, s) => s # t /\ RevokedBy(v, s)'
  BY <1>0, <1>1 DEF RevokedBy, At, Others
<1>5. ASSUME NEW s \in Tasks \ {t} PROVE FreshSession(s)'
  <2>1. FreshSession(s) /\ task'[s] = task[s]
    BY <1>1 DEF Sessions, Others
  <2> QED
    BY <1>1, <1>4, <2>1 DEF FreshSession
<1>6. FreshSession(t)'
  <2>1. task[t].id \notin missed => \/ task[t].made = row[u].password
                                    \/ \E s \in Tasks \ {t} : RevokedBy(u, s)
    BY <1>0 DEF FreshSession, Changing
  <2> QED
    BY <1>1, <1>4, <2>1 DEF FreshSession
<1>7. ASSUME NEW i \in keys' PROVE FreshToken(i)'
  <2>1. FreshToken(i) /\ i \in keys /\ i \notin task[t].read
    BY <1>1 DEF Sessions, TypeOK
  <2>2. \A s \in Tasks : At(s, "delete") /\ i \in task[s].read =>
                            At(s, "delete")' /\ task'[s] = task[s]
    BY <1>1, <2>1 DEF At, Others
  <2> QED
    BY <1>1, <1>4, <2>1, <2>2 DEF FreshToken
<1>8. KeysAreListed'
  BY <1>0, <1>1 DEF Sessions, KeysAreListed, At, Others
<1> QED
  BY <1>2, <1>3, <1>5, <1>6, <1>7, <1>8, SessionsFromParts

\* The set of the user is emptied after its tokens.
LEMMA ClearSessions ==
    ASSUME TypeOK, TypeOK', Sessions, NEW t \in Tasks, ClearTokens(t)
    PROVE  Sessions'
<1>0. task[t].pc = "clear" /\ FreshSession(t) /\ OwnIds
  BY DEF ClearTokens, At, Sessions
<1> DEFINE mine == {i \in listed : token[i].user = task[t].user}
<1>1. /\ Others(t) /\ task'[t].pc = "issue" /\ task'[t].id = task[t].id
      /\ task'[t].user = task[t].user /\ task'[t].made = task[t].made
      /\ listed' = listed \ mine /\ missed' = missed \cup (mine \cap keys)
      /\ UNCHANGED <<row, keys, token, held, requests>>
  BY <1>0, UpdateFacts DEF ClearTokens, Others, At
<1> HIDE DEF mine
<1>2. OwnIds' /\ \A s \in Tasks \ {t} : Remembers(s)'
  BY <1>0, <1>1, GoesOn DEF Active, At
<1>3. Remembers(t)'
  BY <1>1 DEF Remembers, At, Mailing
<1>4. /\ \A s \in Tasks \ {t} : FreshSession(s)'
      /\ \A j \in keys : FreshToken(j)'
  BY <1>0, <1>1, KeepsFresh DEF At
<1>5. FreshSession(t)'
  BY <1>0, <1>1 DEF FreshSession, RevokedBy, At, Others, Changing
<1>6. KeysAreListed'
  BY <1>0, <1>1 DEF Sessions, KeysAreListed, At, Others
<1> QED
  BY <1>1, <1>2, <1>3, <1>4, <1>5, <1>6, SessionsFromParts

\* The address is written without the password.
LEMMA MailSessions ==
    ASSUME TypeOK, TypeOK', Sessions, NEW t \in Tasks, SendCode(t) \/ CommitEmail(t)
    PROVE  Sessions'
<1>0. /\ task[t].pc \in {"send", "write"} /\ Remembers(t) /\ OwnIds
      /\ task[t].user \in Users /\ task[t].dto \in Rows /\ task[t].changed \in Rows
      /\ row[task[t].user] \in Rows
  BY DEF SendCode, CommitEmail, At, Sessions, TypeOK, TaskRecords
<1>1. task[t].changed.password = task[t].dto.password
  BY <1>0 DEF Remembers, Mailing
<1>2. /\ Others(t) /\ UNCHANGED <<keys, listed, token, held, missed, requests>>
      /\ \/ task'[t].pc = "idle"
         \/ /\ task'[t].pc = "write" /\ task'[t].id = task[t].id
            /\ task'[t].changed.password = task'[t].dto.password
  <2>1. CASE SendCode(t)
    <3>1. /\ Others(t) /\ task'[t].pc = "write" /\ task'[t].id = task[t].id
          /\ task'[t].changed = [task[t].changed EXCEPT !.code = task[t].id]
          /\ task'[t].dto = task[t].dto
      BY <1>0, <2>1, UpdateFacts DEF Others, At
    <3>2. task'[t].changed.password = task[t].changed.password
      BY <1>0, <3>1 DEF Rows
    <3> QED
      BY <1>1, <2>1, <3>1, <3>2 DEF SendCode, redis, history
  <2>2. CASE CommitEmail(t)
    BY <2>2, FinishFacts DEF CommitEmail, redis, Others
  <2> QED
    BY <2>1, <2>2
<1>3. \A u \in Users : row'[u].password = row[u].password
  <2>1. PICK n : n = Merged(row[task[t].user], task[t].dto, task[t].changed)
    OBVIOUS
  <2>2. n.password = row[task[t].user].password
    BY <1>0, <1>1, <2>1, MergedRow
  <2>3. row' = row \/ row' = [row EXCEPT ![task[t].user] = n]
    BY <2>1 DEF SendCode, CommitEmail
  <2> QED
    BY <1>0, <2>2, <2>3 DEF TypeOK
<1>4. OwnIds' /\ \A s \in Tasks \ {t} : Remembers(s)'
  BY <1>0, <1>2, GoesOn DEF Active, At
<1>5. Remembers(t)' /\ FreshSession(t)'
  BY <1>2 DEF Remembers, FreshSession, At, Mailing, Changing
<1>6. /\ \A s \in Tasks \ {t} : FreshSession(s)'
      /\ \A j \in keys : FreshToken(j)'
  BY <1>0, <1>2, <1>3, KeepsFresh DEF At
<1>7. KeysAreListed'
  BY <1>0, <1>2 DEF Sessions, KeysAreListed, At, Others
<1> QED
  BY <1>2, <1>4, <1>5, <1>6, <1>7, SessionsFromParts

-----------------------------------------------------------------------------
(* Failures *)

\* What is left over is missed, or in no set.
LEMMA LeftFacts ==
    ASSUME NEW ts \in SUBSET Tasks, NEW t \in ts
    PROVE  /\ task[t].pc \in Changing =>
                /\ \A i \in keys : token[i].user = task[t].user => i \in Left(ts)
                /\ \A s \in Tasks \ {t} :
                      task[s].user = task[t].user
                      /\ task[s].pc \in {"unlist", "issue", "list"} \cup Changing
                      => task[s].id \in Left(ts)
           /\ task[t].pc = "list" => task[t].id \in Left(ts)
<1>1. "list" \notin Changing
  BY DEF Changing
<1> QED
  BY <1>1 DEF Left, Issuing

\* What relied on a request that fails is left over by it.
LEMMA FailureSessions ==
    ASSUME TypeOK, TypeOK', Sessions, NEW t \in Tasks, RequestFails(t)
    PROVE  Sessions'
<1> DEFINE left == Left({t})
<1>1. /\ Others(t) /\ task'[t].pc = "idle" /\ missed' = missed \cup left
      /\ UNCHANGED <<row, keys, listed, token, held, requests>>
  BY FinishFacts DEF RequestFails, Others, redis
<1>2. /\ task[t].pc \in Changing =>
                /\ \A i \in keys : token[i].user = task[t].user => i \in left
                /\ \A s \in Tasks \ {t} :
                      task[s].user = task[t].user
                      /\ task[s].pc \in {"unlist", "issue", "list"} \cup Changing
                      => task[s].id \in left
      /\ task[t].pc = "list" => task[t].id \in left
  BY LeftFacts
<1> HIDE DEF left
<1>3. OwnIds' /\ \A s \in Tasks \ {t} : Remembers(s)'
  BY <1>1, GoesOn
<1>4. Remembers(t)' /\ FreshSession(t)'
  BY <1>1 DEF Remembers, FreshSession, At, Mailing, Changing
<1>5. \A v : \A s \in Tasks \ {t} : RevokedBy(v, s) => RevokedBy(v, s)'
  BY <1>1 DEF RevokedBy, At, Others
<1>6. ASSUME NEW s \in Tasks \ {t} PROVE FreshSession(s)'
  <2>1. FreshSession(s) /\ task'[s] = task[s]
    BY <1>1 DEF Sessions, Others
  <2>2. CASE RevokedBy(task[s].user, t)
    <3>1. task[t].pc \in Changing /\ task[s].user = task[t].user
      BY <2>2 DEF RevokedBy, Changing, At
    <3> QED
      BY <1>1, <1>2, <2>1, <3>1 DEF FreshSession
  <2>3. CASE ~RevokedBy(task[s].user, t)
    BY <1>1, <1>5, <2>1, <2>3 DEF FreshSession
  <2> QED
    BY <2>2, <2>3
<1>7. ASSUME NEW i \in keys PROVE FreshToken(i)'
  <2>1. FreshToken(i)
    BY DEF Sessions, TypeOK
  <2>2. CASE RevokedBy(token[i].user, t) \/ (At(t, "delete") /\ i \in task[t].read)
    <3>1. task[t].pc \in Changing /\ token[i].user = task[t].user
      BY <2>2 DEF RevokedBy, Changing, At, Sessions, Remembers
    <3> QED
      BY <1>1, <1>2, <3>1 DEF FreshToken
  <2>3. CASE ~RevokedBy(token[i].user, t) /\ ~(At(t, "delete") /\ i \in task[t].read)
    <3>1. \A s \in Tasks : At(s, "delete") /\ i \in task[s].read =>
                              At(s, "delete")' /\ task'[s] = task[s]
      BY <1>1, <2>3 DEF At, Others
    <3> QED
      BY <1>1, <1>5, <2>1, <2>3, <3>1 DEF FreshToken
  <2> QED
    BY <2>2, <2>3
<1>8. KeysAreListed'
  BY <1>1, <1>2 DEF Sessions, KeysAreListed, At, Others
<1> QED
  BY <1>1, <1>3, <1>4, <1>6, <1>7, <1>8, SessionsFromParts

\* So is what relied on the requests of a process that dies.
LEMMA DeathSessions ==
    ASSUME TypeOK, TypeOK', Sessions, ProcessDies
    PROVE  Sessions'
<1> DEFINE left == Left(Tasks)
<1>1. /\ \A s \in Tasks : task'[s].pc = "idle"
      /\ missed' = missed \cup left
      /\ UNCHANGED <<row, keys, listed, token, held, requests>>
  BY IdleType DEF ProcessDies, redis
<1>2. \A t \in Tasks :
        /\ task[t].pc \in Changing =>
              \A i \in keys : token[i].user = task[t].user => i \in left
        /\ task[t].pc = "list" => task[t].id \in left
  BY LeftFacts
<1> HIDE DEF left
<1>3. OwnIds'
  BY <1>1 DEF Sessions, OwnIds, Active, At
<1>4. \A s \in Tasks : Remembers(s)' /\ FreshSession(s)'
  BY <1>1 DEF Remembers, FreshSession, At, Mailing, Changing
<1>5. ASSUME NEW i \in Ids PROVE FreshToken(i)'
  <2> SUFFICES ASSUME i \in keys, i \notin missed, i \notin left
               PROVE  token[i].made = row[token[i].user].password
    BY <1>1 DEF FreshToken
  <2>1. FreshToken(i)
    BY DEF Sessions
  <2>2. ~\E s \in Tasks : RevokedBy(token[i].user, s)
    BY <1>2 DEF RevokedBy, At, Changing
  <2>3. ~\E s \in Tasks : At(s, "delete") /\ i \in task[s].read
    BY <1>2 DEF At, Changing, Sessions, Remembers
  <2> QED
    BY <2>1, <2>2, <2>3 DEF FreshToken
<1>6. KeysAreListed'
  BY <1>1, <1>2 DEF Sessions, KeysAreListed, At
<1> QED
  BY <1>3, <1>4, <1>5, <1>6 DEF Sessions

\* Every step keeps Sessions.
LEMMA StepSessions == TypeOK /\ TypeOK' /\ Sessions /\ [Next]_vars => Sessions'
<1> SUFFICES ASSUME TypeOK, TypeOK', Sessions, [Next]_vars PROVE Sessions'
  OBVIOUS
<1>0. requests + 1 \in Nat /\ 0 \in Nat
  BY DEF TypeOK
<1>1. ASSUME NEW t \in Tasks, NEW u \in Users, Login(t, u) PROVE Sessions'
  <2>1. row[u] \in Rows /\ row[u].password \in Nat
    BY ChangedRows DEF Rows
  <2> QED
    BY <1>1, <2>1, RequestSessions DEF Login, redis, history
<1>2. ASSUME NEW t \in Tasks, NEW u \in Users, ChangePassword(t, u) PROVE Sessions'
  <2> DEFINE changed == [row[u] EXCEPT !.password = requests + 1]
  <2>1. changed \in Rows /\ changed.password = requests + 1
    BY <1>0, ChangedRows
  <2>2. Request(t, u, "password", changed, NoId, requests + 1)
    BY <1>2 DEF ChangePassword
  <2> HIDE DEF changed
  <2> QED
    BY <1>0, <1>2, <2>1, <2>2, RequestSessions DEF ChangePassword, redis, history
<1>3. ASSUME NEW t \in Tasks, NEW u \in Users,
             ChangeEmail(t, u) \/ RequestEmailVerification(t, u)
             \/ ConfirmEmailVerification(t, u)
      PROVE  Sessions'
  <2>1. PICK changed \in Rows, pc \in {"send", "write"} :
          Request(t, u, pc, changed, NoId, 0) /\ changed.password = row[u].password
    <3>1. CASE ChangeEmail(t, u)
      <4>1. PICK e \in Emails :
              Request(t, u, "write", [row[u] EXCEPT !.pending_email = e,
                         !.is_email_verified = FALSE, !.code = NoId], NoId, 0)
        BY <3>1 DEF ChangeEmail
      <4> QED
        BY <4>1, ChangedRows
    <3>2. CASE RequestEmailVerification(t, u)
      <4>1. PICK e \in Emails \cup {NoEmail} :
              Request(t, u, "send", Requested(row[u], e), NoId, 0)
        BY <3>2 DEF RequestEmailVerification
      <4> QED
        BY <4>1, ChangedRows
    <3>3. CASE ConfirmEmailVerification(t, u)
      BY <3>3, ChangedRows DEF ConfirmEmailVerification
    <3> QED
      BY <1>3, <3>1, <3>2, <3>3
  <2>2. UNCHANGED <<row, keys, listed, token, held, missed>>
    BY <1>3 DEF ChangeEmail, RequestEmailVerification, ConfirmEmailVerification, redis, history
  <2> QED
    BY <1>0, <2>1, <2>2, RequestSessions
<1>4. ASSUME NEW t \in Tasks, SessionStep(t) PROVE Sessions'
  BY <1>4, StoreSessions, ListSessions, UnlistSessions, RefreshSessions, LogoutSessions,
     CommitPasswordSessions, ReadSessions, DeleteSessions, ClearSessions DEF SessionStep
<1>5. ASSUME NEW t \in Tasks, SendCode(t) \/ CommitEmail(t) PROVE Sessions'
  BY <1>5, MailSessions
<1>6. ASSUME NEW t \in Tasks, RequestFails(t) PROVE Sessions'
  BY <1>6, FailureSessions
<1>7. CASE ProcessDies
  BY <1>7, DeathSessions
<1>8. CASE UNCHANGED vars
  BY <1>8 DEF vars, redis, history, Sessions, OwnIds, KeysAreListed, Remembers, FreshSession,
     FreshToken, RevokedBy, Active, At, Mailing
<1> QED
  BY <1>1, <1>2, <1>3, <1>4, <1>5, <1>6, <1>7, <1>8 DEF Next

-----------------------------------------------------------------------------
(* Addresses under a step *)

SameMail(t) == /\ task'[t].pc = task[t].pc /\ task'[t].user = task[t].user
               /\ task'[t].id = task[t].id /\ task'[t].dto = task[t].dto
               /\ task'[t].changed = task[t].changed

\* Whom the codes in the rows and in the requests are compared with.
LEMMA CodeTypes ==
    ASSUME TypeOK
    PROVE  /\ \A u \in Users : row[u] \in Rows /\ row[u].code \in Ids \cup {NoId}
           /\ \A t \in Tasks : /\ task[t].changed \in Rows /\ task[t].dto \in Rows
                               /\ task[t].changed.code \in Ids \cup {NoId}
                               /\ task[t].user \in Users /\ task[t].id \in Ids \cup {NoId}
           /\ \A i \in Ids \cup {NoId} : i \in Nat
           /\ requests \in Nat /\ NoId = 0
BY DEF TypeOK, TaskRecords, Rows, Ids, NoId

\* Steps that send nothing and write no address.
LEMMA QuietMail ==
    ASSUME TypeOK, Mail, requests' \in Nat, requests <= requests',
           \A u \in Users : SameEmail(row'[u], row[u]),
           UNCHANGED <<sent, proved, overlap>>,
           \A t \in Tasks : Mailing(t)' => SameMail(t)
    PROVE  Mail'
<1>1. \A code \in Ids \cup {NoId} : WasSent(code) => WasSent(code)'
  BY CodeTypes DEF WasSent
<1>2. \A u \in Users : /\ row'[u].code = row[u].code /\ row'[u].email = row[u].email
                       /\ row'[u].is_email_verified = row[u].is_email_verified
                       /\ row'[u].pending_email = row[u].pending_email
  BY DEF SameEmail
<1>3. \A t \in Tasks : task'[t].pc \in {"send", "write"} => SameMail(t)
  BY DEF Mailing
<1>4. OwnCodes'
  <2>1. ASSUME NEW u \in Users PROVE WasSent(row[u].code)'
    <3>1. WasSent(row[u].code) /\ row[u].code \in Ids \cup {NoId}
      BY CodeTypes DEF Mail, OwnCodes
    <3> QED
      BY <1>1, <1>2, <3>1 DEF WasSent
  <2>2. ASSUME NEW t \in Tasks, Mailing(t)' PROVE WasSent(task[t].changed.code)'
    <3>1. Mailing(t) /\ task'[t].changed = task[t].changed
      BY <1>3, <2>2 DEF Mailing, SameMail
    <3>2. WasSent(task[t].changed.code)
      BY <3>1 DEF Mail, OwnCodes
    <3> QED
      BY <1>1, <3>1, <3>2, CodeTypes DEF WasSent
  <2>3. ASSUME NEW t \in Tasks, task'[t].pc = "send"
        PROVE  /\ \A u \in Users : row'[u].code # task'[t].id
               /\ \A s \in Tasks : task'[s].pc = "write" => task'[s].changed.code # task'[t].id
    BY <1>2, <1>3, <2>3 DEF Mail, OwnCodes, At, SameMail
  <2> QED
    BY <2>1, <2>2, <2>3 DEF OwnCodes, At
<1>5. ASSUME NEW u \in Users \ overlap
      PROVE  /\ Proved(u, row[u])' /\ CodeSent(row[u])'
             /\ \A t \in Tasks : Mailing(t)' /\ task'[t].user = u =>
                   /\ SameEmail(task'[t].dto, row'[u])
                   /\ Proved(u, task[t].changed)'
                   /\ task'[t].pc = "write" => CodeSent(task[t].changed)'
  <2>1. Proved(u, row[u])' /\ CodeSent(row[u])'
    BY <1>2 DEF Mail, Proved, CodeSent, Target
  <2>2. ASSUME NEW t \in Tasks, Mailing(t)', task'[t].user = u
        PROVE  /\ SameEmail(task'[t].dto, row'[u])
               /\ Proved(u, task[t].changed)'
               /\ task'[t].pc = "write" => CodeSent(task[t].changed)'
    <3>1. Mailing(t) /\ SameMail(t) /\ task[t].user = u
      BY <1>3, <2>2 DEF Mailing, SameMail
    <3>2. /\ SameEmail(task[t].dto, row[u])
          /\ Proved(u, task[t].changed)
          /\ task[t].pc = "write" => CodeSent(task[t].changed)
      BY <3>1 DEF Mail, At
    <3> QED
      BY <1>2, <3>1, <3>2 DEF SameMail, SameEmail, Proved, CodeSent, Target
  <2> QED
    BY <2>1, <2>2
<1> QED
  BY <1>4, <1>5 DEF Mail, At

\* A request about the address has what its user's row has, and a code that
\* nobody was sent yet.
LEMMA RequestMail ==
    ASSUME TypeOK, TypeOK', Sessions, Mail, NEW t \in Tasks, NEW u \in Users,
           NEW changed \in Rows, NEW pc \in {"send", "write"},
           Request(t, u, pc, changed, NoId, 0),
           UNCHANGED <<row, sent, overlap>>, proved \subseteq proved',
           changed.code \in {NoId, row[u].code},
           changed.is_email_verified =>
               \/ changed = row[u] \/ u \in overlap
               \/ <<u, changed.email>> \in proved' /\ pc = "write",
           pc = "write" => changed.code = NoId
    PROVE  Mail'
<1>0. 0 \in Nat
  OBVIOUS
<1>1. /\ task[t].pc = "idle" /\ requests' = requests + 1 /\ requests' \in Nat
      /\ requests' # NoId
      /\ \A s \in Tasks \ {t} : task'[s] = task[s]
      /\ task'[t].pc = pc /\ task'[t].id = requests' /\ task'[t].user = u
      /\ task'[t].dto = row[u] /\ task'[t].changed = changed
  <2>1. requests' = requests + 1
    BY DEF Request
  <2>2. requests' \in Nat /\ requests' # NoId
    BY <2>1 DEF TypeOK, NoId
  <2> QED
    BY <1>0, <2>2, RequestFacts
<1>2. \A code \in Ids \cup {NoId} : WasSent(code) => WasSent(code)' /\ code # requests'
  BY <1>1, CodeTypes DEF WasSent
<1>3. \A v \in Users : WasSent(row[v].code) /\ row[v].code \in Ids \cup {NoId}
  BY CodeTypes DEF Mail, OwnCodes
<1>4. \A s \in Tasks : Mailing(s) => /\ WasSent(task[s].changed.code)
                                     /\ task[s].changed.code \in Ids \cup {NoId}
  BY CodeTypes DEF Mail, OwnCodes
<1>5. WasSent(changed.code) /\ changed.code \in Ids \cup {NoId}
  BY <1>3 DEF WasSent
<1>6. OwnCodes'
  <2>1. ASSUME NEW v \in Users PROVE WasSent(row[v].code)'
    BY <1>2, <1>3 DEF WasSent
  <2>2. ASSUME NEW s \in Tasks, Mailing(s)' PROVE WasSent(task[s].changed.code)'
    <3>1. CASE s = t
      BY <1>1, <1>2, <1>5, <3>1 DEF WasSent
    <3>2. CASE s # t
      <4>1. Mailing(s) /\ task'[s] = task[s]
        BY <1>1, <2>2, <3>2 DEF Mailing
      <4> QED
        BY <1>2, <1>4, <4>1 DEF WasSent
    <3> QED
      BY <3>1, <3>2
  <2>3. ASSUME NEW s \in Tasks, task'[s].pc = "send"
        PROVE  /\ \A v \in Users : row[v].code # task'[s].id
               /\ \A r \in Tasks : task'[r].pc = "write" => task'[r].changed.code # task'[s].id
    <3>1. CASE s = t
      BY <1>1, <1>2, <1>3, <1>4, <2>3, <3>1 DEF Mailing
    <3>2. CASE s # t
      <4>1. task[s].pc = "send" /\ task'[s] = task[s] /\ task[s].id # NoId
        BY <1>1, <2>3, <3>2, CodeTypes DEF Sessions, OwnIds, Active, At
      <4> QED
        BY <1>1, <4>1 DEF Mail, OwnCodes, At
    <3> QED
      BY <3>1, <3>2
  <2> QED
    BY <2>1, <2>2, <2>3 DEF OwnCodes, At
<1>7. ASSUME NEW v \in Users \ overlap
      PROVE  /\ Proved(v, row[v])' /\ CodeSent(row[v])'
             /\ \A s \in Tasks : Mailing(s)' /\ task'[s].user = v =>
                   /\ SameEmail(task'[s].dto, row[v])
                   /\ Proved(v, task[s].changed)'
                   /\ task'[s].pc = "write" => CodeSent(task[s].changed)'
  <2>1. Proved(v, row[v]) /\ CodeSent(row[v])
    BY DEF Mail
  <2>2. Proved(v, row[v])' /\ CodeSent(row[v])'
    BY <2>1 DEF Proved, CodeSent, Target
  <2>3. ASSUME NEW s \in Tasks, Mailing(s)', task'[s].user = v
        PROVE  /\ SameEmail(task'[s].dto, row[v])
               /\ Proved(v, task[s].changed)'
               /\ task'[s].pc = "write" => CodeSent(task[s].changed)'
    <3>1. CASE s = t
      BY <1>1, <2>1, <2>3, <3>1 DEF SameEmail, Proved, CodeSent
    <3>2. CASE s # t
      <4>1. Mailing(s) /\ task'[s] = task[s] /\ task[s].user = v
        BY <1>1, <2>3, <3>2 DEF Mailing
      <4>2. /\ SameEmail(task[s].dto, row[v]) /\ Proved(v, task[s].changed)
            /\ task[s].pc = "write" => CodeSent(task[s].changed)
        BY <4>1 DEF Mail, At
      <4> QED
        BY <4>1, <4>2 DEF Proved, CodeSent, Target
    <3> QED
      BY <3>1, <3>2
  <2> QED
    BY <2>2, <2>3
<1> QED
  BY <1>6, <1>7 DEF Mail, At

\* The code is sent to the address that the request is going to write.
LEMMA SendMail ==
    ASSUME TypeOK, TypeOK', Sessions, Mail, NEW t \in Tasks, SendCode(t)
    PROVE  Mail'
<1> PICK i, old, new : i = task[t].id /\ old = task[t].changed /\ new = task'[t].changed
  OBVIOUS
<1>0. /\ OwnIds /\ task[t].pc = "send" /\ i \in Ids /\ i \in 1 .. requests /\ i # NoId
      /\ old \in Rows /\ requests \in Nat
  BY ActiveTask, IdsFacts, CodeTypes DEF Sessions, SendCode, At
<1>1. /\ \A s \in Tasks \ {t} : task'[s] = task[s]
      /\ task'[t].pc = "write" /\ task'[t].id = i /\ task'[t].user = task[t].user
      /\ task'[t].dto = task[t].dto
      /\ UNCHANGED <<row, requests, proved, overlap>>
      /\ sent'[i] = Target(old) /\ \A j \in Ids \ {i} : sent'[j] = sent[j]
  BY <1>0, UpdateFacts DEF SendCode, At, history, TypeOK
<1>2. /\ new.code = i /\ new.email = old.email /\ new.pending_email = old.pending_email
      /\ new.is_email_verified = old.is_email_verified
      /\ Target(new) = Target(old) /\ Target(old) \in Emails
  <2>1. new = [old EXCEPT !.code = i]
    BY <1>0, UpdateFacts DEF At
  <2> QED
    BY <1>0, <2>1 DEF Rows, Target
<1>3. \A code \in Ids \cup {NoId} : WasSent(code) => WasSent(code)'
  BY <1>0, <1>1, <1>2 DEF WasSent
<1>4. WasSent(i)'
  BY <1>0, <1>1, <1>2 DEF WasSent
<1>5. /\ \A v \in Users : row[v].code # i /\ row[v].code \in Ids \cup {NoId}
      /\ \A s \in Tasks : task[s].pc = "write" =>
            task[s].changed.code # i /\ task[s].changed.code \in Ids \cup {NoId}
  BY <1>0, CodeTypes DEF Mail, OwnCodes, At
<1>6. OwnCodes'
  <2>1. ASSUME NEW v \in Users PROVE WasSent(row[v].code)'
    <3>1. WasSent(row[v].code)
      BY DEF Mail, OwnCodes
    <3> QED
      BY <1>1, <1>3, <1>5, <3>1 DEF WasSent
  <2>2. ASSUME NEW s \in Tasks, Mailing(s)' PROVE WasSent(task[s].changed.code)'
    <3>1. CASE s = t
      BY <1>2, <1>4, <3>1 DEF WasSent
    <3>2. CASE s # t
      <4>1. Mailing(s) /\ task'[s] = task[s]
        BY <1>1, <2>2, <3>2 DEF Mailing
      <4>2. WasSent(task[s].changed.code) /\ task[s].changed.code \in Ids \cup {NoId}
        BY <4>1, CodeTypes DEF Mail, OwnCodes
      <4> QED
        BY <1>3, <4>1, <4>2 DEF WasSent
    <3> QED
      BY <3>1, <3>2
  <2>3. ASSUME NEW s \in Tasks, task'[s].pc = "send"
        PROVE  /\ \A v \in Users : row[v].code # task'[s].id
               /\ \A r \in Tasks : task'[r].pc = "write" => task'[r].changed.code # task'[s].id
    <3>1. task[s].pc = "send" /\ task'[s] = task[s] /\ s # t
      BY <1>1, <2>3
    <3>2. task[s].id # i
      BY <1>0, <3>1 DEF OwnIds, Active, At
    <3> QED
      BY <1>1, <1>2, <3>1, <3>2 DEF Mail, OwnCodes, At
  <2> QED
    BY <1>1, <2>1, <2>2, <2>3 DEF OwnCodes, At
<1>7. ASSUME NEW v \in Users \ overlap
      PROVE  /\ Proved(v, row[v])' /\ CodeSent(row[v])'
             /\ \A s \in Tasks : Mailing(s)' /\ task'[s].user = v =>
                   /\ SameEmail(task'[s].dto, row[v])
                   /\ Proved(v, task[s].changed)'
                   /\ task'[s].pc = "write" => CodeSent(task[s].changed)'
  <2>1. Proved(v, row[v]) /\ CodeSent(row[v])
    BY DEF Mail
  <2>2. Proved(v, row[v])' /\ CodeSent(row[v])'
    BY <1>1, <1>5, <2>1 DEF Proved, CodeSent, Target
  <2>3. ASSUME NEW s \in Tasks, Mailing(s)', task'[s].user = v
        PROVE  /\ SameEmail(task'[s].dto, row[v])
               /\ Proved(v, task[s].changed)'
               /\ task'[s].pc = "write" => CodeSent(task[s].changed)'
    <3>1. /\ Mailing(s) /\ task[s].user = v /\ task'[s].dto = task[s].dto
          /\ s # t => task'[s] = task[s]
      BY <1>0, <1>1, <2>3 DEF Mailing
    <3>2. /\ SameEmail(task[s].dto, row[v]) /\ Proved(v, task[s].changed)
          /\ task[s].pc = "write" => CodeSent(task[s].changed)
      BY <3>1 DEF Mail, At
    <3>3. CASE s = t
      BY <1>0, <1>1, <1>2, <3>1, <3>2, <3>3 DEF Proved, CodeSent
    <3>4. CASE s # t
      BY <1>1, <1>5, <3>1, <3>2, <3>4 DEF Proved, CodeSent, Target
    <3> QED
      BY <3>3, <3>4
  <2> QED
    BY <2>2, <2>3
<1> QED
  BY <1>1, <1>6, <1>7 DEF Mail, At

\* A request that writes alone writes the address and the code it has.
LEMMA CommitMail ==
    ASSUME TypeOK, TypeOK', Sessions, Mail, NEW t \in Tasks, CommitEmail(t)
    PROVE  Mail'
<1> PICK u, n : u = task[t].user /\ n = Merged(row[u], task[t].dto, task[t].changed)
  OBVIOUS
<1>0. /\ task[t].pc = "write" /\ u \in Users /\ row[u] \in Rows
      /\ task[t].dto \in Rows /\ task[t].changed \in Rows
  BY CodeTypes DEF CommitEmail, At
<1>1. /\ \A s \in Tasks \ {t} : task'[s] = task[s]
      /\ task'[t].pc = "idle"
      /\ UNCHANGED <<sent, proved, requests>>
      /\ \A v \in Users \ {u} : row'[v] = row[v]
      /\ row'[u] = row[u] \/ row'[u] = n
      /\ overlap' = IF Overlaps(u, t) THEN overlap \cup {u} ELSE overlap
  <2>1. /\ row' = row \/ row' = [row EXCEPT ![u] = n]
        /\ overlap' = IF Overlaps(u, t) THEN overlap \cup {u} ELSE overlap
    BY DEF CommitEmail
  <2> QED
    BY <1>0, <2>1, FinishFacts DEF CommitEmail, TypeOK
<1>2. n.code \in {row[u].code, task[t].changed.code}
  BY <1>0, MergedRow
<1>3. row'[u].code \in {row[u].code, task[t].changed.code}
  BY <1>1, <1>2
<1>4. \A code : WasSent(code)' <=> WasSent(code)
  BY <1>1 DEF WasSent
<1>5. OwnCodes'
  <2>1. ASSUME NEW v \in Users PROVE WasSent(row[v].code)'
    <3>1. WasSent(row[v].code) /\ WasSent(task[t].changed.code)
      BY <1>0 DEF Mail, OwnCodes, Mailing
    <3> QED
      BY <1>1, <1>3, <3>1 DEF WasSent
  <2>2. ASSUME NEW s \in Tasks, Mailing(s)' PROVE WasSent(task[s].changed.code)'
    <3>1. Mailing(s) /\ task'[s] = task[s]
      BY <1>1, <2>2 DEF Mailing
    <3> QED
      BY <1>1, <3>1 DEF Mail, OwnCodes, WasSent
  <2>3. ASSUME NEW s \in Tasks, task'[s].pc = "send"
        PROVE  /\ \A v \in Users : row'[v].code # task'[s].id
               /\ \A r \in Tasks : task'[r].pc = "write" => task'[r].changed.code # task'[s].id
    <3>1. task[s].pc = "send" /\ task'[s] = task[s]
      BY <1>1, <2>3
    <3>2. /\ \A v \in Users : row[v].code # task[s].id
          /\ \A r \in Tasks : task[r].pc = "write" => task[r].changed.code # task[s].id
      BY <3>1 DEF Mail, OwnCodes, At
    <3> QED
      BY <1>0, <1>1, <1>3, <3>1, <3>2
  <2> QED
    BY <2>1, <2>2, <2>3 DEF OwnCodes, At
<1>6. ASSUME NEW v \in Users \ overlap'
      PROVE  /\ Proved(v, row[v])' /\ CodeSent(row[v])'
             /\ \A s \in Tasks : Mailing(s)' /\ task'[s].user = v =>
                   /\ SameEmail(task'[s].dto, row'[v])
                   /\ Proved(v, task[s].changed)'
                   /\ task'[s].pc = "write" => CodeSent(task[s].changed)'
  <2>1. /\ v \notin overlap /\ (v = u => ~Overlaps(u, t))
        /\ Proved(v, row[v]) /\ CodeSent(row[v])
    BY <1>1 DEF Mail
  <2>2. Proved(v, row[v])' /\ CodeSent(row[v])'
    <3>1. CASE row'[v] = row[v]
      BY <1>1, <2>1, <3>1 DEF Proved, CodeSent, Target
    <3>2. CASE v = u /\ row'[u] = n
      <4>1. /\ SameEmail(task[t].dto, row[u]) /\ Proved(u, task[t].changed)
            /\ CodeSent(task[t].changed)
        BY <1>0, <2>1, <3>2 DEF Mail, Mailing, At
      <4>2. SameEmail(n, task[t].changed)
        BY <1>0, <4>1, MergedRow DEF SameEmail
      <4> QED
        BY <1>1, <3>2, <4>1, <4>2 DEF Proved, CodeSent, SameEmail, Target
    <3> QED
      BY <1>1, <3>1, <3>2
  <2>3. ASSUME NEW s \in Tasks, Mailing(s)', task'[s].user = v
        PROVE  /\ SameEmail(task'[s].dto, row'[v])
               /\ Proved(v, task[s].changed)'
               /\ task'[s].pc = "write" => CodeSent(task[s].changed)'
    <3>1. Mailing(s) /\ task'[s] = task[s] /\ s # t /\ task[s].user = v
      BY <1>1, <2>3 DEF Mailing
    <3>2. v # u
      BY <2>1, <3>1 DEF Overlaps, Mailing
    <3>3. /\ SameEmail(task[s].dto, row[v]) /\ Proved(v, task[s].changed)
          /\ task[s].pc = "write" => CodeSent(task[s].changed)
      BY <2>1, <3>1 DEF Mail, At
    <3> QED
      BY <1>1, <3>1, <3>2, <3>3 DEF Proved, CodeSent, Target
  <2> QED
    BY <2>2, <2>3
<1> QED
  BY <1>5, <1>6 DEF Mail, At

\* Every step keeps Mail.
LEMMA StepMail ==
    TypeOK /\ TypeOK' /\ Sessions /\ Mail /\ [Next]_vars => Mail'
<1> SUFFICES ASSUME TypeOK, TypeOK', Sessions, Mail, [Next]_vars PROVE Mail'
  OBVIOUS
<1>0. /\ requests \in Nat /\ requests' \in Nat /\ requests + 1 \in Nat
      /\ requests <= requests + 1 /\ requests <= requests
      /\ \A u \in Users : SameEmail(row[u], row[u])
  BY DEF TypeOK, SameEmail
<1>1. ASSUME NEW t \in Tasks,
             \/ \E u \in Users : Login(t, u) \/ ChangePassword(t, u)
             \/ \E i \in Ids : RefreshSession(t, i)
      PROVE  Mail'
  <2>1. PICK u \in Users, pc \in {"issue", "password", "unlist"}, changed \in Rows,
             tok \in Ids \cup {NoId}, made \in Nat : Request(t, u, pc, changed, tok, made)
    <3>1. ASSUME NEW u \in Users, Login(t, u)
          PROVE  Request(t, u, "issue", row[u], NoId, row[u].password)
                 /\ row[u] \in Rows /\ row[u].password \in Nat
      BY <3>1, ChangedRows DEF Login, Rows
    <3>2. ASSUME NEW u \in Users, ChangePassword(t, u)
          PROVE  /\ Request(t, u, "password", [row[u] EXCEPT !.password = requests + 1], NoId,
                            requests + 1)
                 /\ [row[u] EXCEPT !.password = requests + 1] \in Rows
      BY <1>0, <3>2, ChangedRows DEF ChangePassword
    <3>3. ASSUME NEW i \in Ids, RefreshSession(t, i)
          PROVE  /\ Request(t, token[i].user, "unlist", row[token[i].user], i, token[i].made)
                 /\ token[i].user \in Users /\ token[i].made \in Nat
                 /\ row[token[i].user] \in Rows
      BY <3>3 DEF RefreshSession, TypeOK
    <3> QED
      BY <1>0, <1>1, <3>1, <3>2, <3>3
  <2>2. /\ requests' = requests + 1 /\ task'[t].pc = pc
        /\ \A s \in Tasks \ {t} : task'[s] = task[s]
    BY <2>1, RequestFacts
  <2>3. UNCHANGED <<row, sent, proved, overlap>>
    BY <1>1 DEF Login, ChangePassword, RefreshSession, history
  <2>4. \A s \in Tasks : Mailing(s)' => SameMail(s)
    BY <2>2 DEF Mailing, SameMail
  <2> QED
    BY <1>0, <2>2, <2>3, <2>4, QuietMail
<1>2. ASSUME NEW t \in Tasks,
             \/ StoreRefreshToken(t) \/ ListRefreshToken(t) \/ UnlistToken(t)
             \/ ReadTokens(t) \/ DeleteTokens(t) \/ ClearTokens(t) \/ RequestFails(t)
             \/ \E i \in Ids : Logout(t, i)
      PROVE  Mail'
  <2>1. /\ task'[t].pc \notin {"send", "write"} /\ \A s \in Tasks \ {t} : task'[s] = task[s]
    <3>1. CASE StoreRefreshToken(t) \/ UnlistToken(t) \/ DeleteTokens(t)
      BY <3>1, GoFacts DEF StoreRefreshToken, UnlistToken, DeleteTokens
    <3>2. CASE ListRefreshToken(t) \/ RequestFails(t)
      BY <3>2, FinishFacts DEF ListRefreshToken, RequestFails
    <3>3. CASE ReadTokens(t) \/ ClearTokens(t)
      BY <3>3, UpdateFacts DEF ReadTokens, ClearTokens, At, Sessions
    <3>4. CASE \E i \in Ids : Logout(t, i)
      BY <3>4 DEF Logout, At
    <3> QED
      BY <1>2, <3>1, <3>2, <3>3, <3>4
  <2>2. UNCHANGED <<row, sent, proved, overlap, requests>>
    BY <1>2 DEF StoreRefreshToken, ListRefreshToken, UnlistToken, ReadTokens, DeleteTokens,
       ClearTokens, RequestFails, Logout, history
  <2>3. \A s \in Tasks : Mailing(s)' => SameMail(s)
    BY <2>1 DEF Mailing, SameMail
  <2> QED
    BY <1>0, <2>2, <2>3, QuietMail
<1>3. ASSUME NEW t \in Tasks, CommitPassword(t) PROVE Mail'
  <2>1. task'[t].pc = "revoke" /\ \A s \in Tasks \ {t} : task'[s] = task[s]
    BY <1>3, GoFacts DEF CommitPassword
  <2>2. \A s \in Tasks : Mailing(s)' => SameMail(s)
    BY <2>1 DEF Mailing, SameMail
  <2>3. UNCHANGED <<sent, proved, overlap, requests>>
    BY <1>3 DEF CommitPassword, history
  <2>4. ASSUME NEW u \in Users PROVE SameEmail(row'[u], row[u])
    <3>1. CASE row'[u] = row[u]
      BY <3>1 DEF SameEmail
    <3>2. CASE u = task[t].user
      <4>1. PICK n \in Nat : row'[u] = [row[u] EXCEPT !.password = n]
        BY <1>3, <3>2, CodeTypes DEF CommitPassword, TypeOK, Rows
      <4> QED
        BY <4>1, CodeTypes DEF Rows, SameEmail
    <3> QED
      BY <1>3, <3>1, <3>2 DEF CommitPassword, TypeOK
  <2> QED
    BY <1>0, <2>2, <2>3, <2>4, QuietMail
<1>4. ASSUME NEW t \in Tasks, NEW u \in Users,
             ChangeEmail(t, u) \/ RequestEmailVerification(t, u)
             \/ ConfirmEmailVerification(t, u)
      PROVE  Mail'
  <2>1. CASE ChangeEmail(t, u)
    <3>1. PICK e \in Emails :
            Request(t, u, "write", [row[u] EXCEPT !.pending_email = e,
                       !.is_email_verified = FALSE, !.code = NoId], NoId, 0)
      BY <2>1 DEF ChangeEmail
    <3>2. PICK changed \in Rows : /\ Request(t, u, "write", changed, NoId, 0)
                                  /\ changed.code = NoId /\ ~changed.is_email_verified
      BY <3>1, ChangedRows
    <3>3. UNCHANGED <<row, sent, overlap, proved>>
      BY <2>1 DEF ChangeEmail, history
    <3> QED
      BY <3>2, <3>3, RequestMail
  <2>2. CASE RequestEmailVerification(t, u)
    <3>1. PICK e \in Emails \cup {NoEmail} :
            Request(t, u, "send", Requested(row[u], e), NoId, 0)
      BY <2>2 DEF RequestEmailVerification
    <3>2. PICK changed \in Rows : /\ Request(t, u, "send", changed, NoId, 0)
                                  /\ changed.code = row[u].code
                                  /\ changed = row[u] \/ ~changed.is_email_verified
      BY <3>1, ChangedRows
    <3>3. UNCHANGED <<row, sent, overlap, proved>>
      BY <2>2 DEF RequestEmailVerification, history
    <3> QED
      BY <3>2, <3>3, RequestMail
  <2>3. CASE ConfirmEmailVerification(t, u)
    <3>1. PICK changed \in Rows : /\ Request(t, u, "write", changed, NoId, 0)
                                  /\ changed.code = NoId /\ changed.email = Target(row[u])
      BY <2>3, ChangedRows DEF ConfirmEmailVerification
    <3>2. /\ UNCHANGED <<row, sent, overlap>>
          /\ proved' = proved \cup {<<u, sent[row[u].code]>>} /\ row[u].code # NoId
      BY <2>3 DEF ConfirmEmailVerification
    <3>3. CASE u \in overlap
      BY <3>1, <3>2, <3>3, RequestMail
    <3>4. CASE u \notin overlap
      <4>1. sent[row[u].code] = changed.email
        BY <3>1, <3>2, <3>4 DEF Mail, CodeSent
      <4> QED
        BY <3>1, <3>2, <4>1, RequestMail
    <3> QED
      BY <3>3, <3>4
  <2> QED
    BY <1>4, <2>1, <2>2, <2>3
<1>5. ASSUME NEW t \in Tasks, SendCode(t) PROVE Mail'
  BY <1>5, SendMail
<1>6. ASSUME NEW t \in Tasks, CommitEmail(t) PROVE Mail'
  BY <1>6, CommitMail
<1>7. CASE ProcessDies
  <2>1. \A s \in Tasks : Mailing(s)' => SameMail(s)
    BY <1>7, IdleType DEF ProcessDies, Mailing
  <2>2. UNCHANGED <<row, sent, proved, overlap, requests>>
    BY <1>7 DEF ProcessDies
  <2> QED
    BY <1>0, <2>1, <2>2, QuietMail
<1>8. CASE UNCHANGED vars
  <2>1. \A s \in Tasks : Mailing(s)' => SameMail(s)
    BY <1>8 DEF vars, SameMail
  <2>2. UNCHANGED <<row, sent, proved, overlap, requests>>
    BY <1>8 DEF vars, history
  <2> QED
    BY <1>0, <2>1, <2>2, QuietMail
<1> QED
  BY <1>1, <1>2, <1>3, <1>4, <1>5, <1>6, <1>7, <1>8 DEF Next, SessionStep

-----------------------------------------------------------------------------
(* The theorems *)

\* There is no token, no code and no verified address at first.
LEMMA InitIInv == Init => IInv
<1> SUFFICES ASSUME Init PROVE IInv
  OBVIOUS
<1>1. \A t \in Tasks : task[t] = Idle /\ task[t].pc = "idle"
  BY IdleType DEF Init
<1>2. Sessions
  BY <1>1 DEF Init, Sessions, OwnIds, KeysAreListed, Remembers, FreshSession, FreshToken,
              Active, At, Mailing, Changing
<1>3. \A u \in Users : row[u].code = NoId /\ ~row[u].is_email_verified
  BY DEF Init, NewRow
<1>4. Mail
  BY <1>1, <1>3 DEF Mail, OwnCodes, WasSent, Proved, CodeSent, At, Mailing
<1> QED
  BY <1>2, <1>4, InitType DEF IInv

\* Every reachable state satisfies the inductive invariant.
THEOREM Invariance == Spec => []IInv
<1>1. IInv /\ [Next]_vars => IInv'
  BY StepType, StepSessions, StepMail DEF IInv, Sessions, Mail
<1> QED
  BY <1>1, InitIInv, PTL DEF Spec

\* Type correctness.
THEOREM TypeCorrect == Spec => []TypeOK
<1>1. IInv => TypeOK
  BY DEF IInv
<1> QED
  BY <1>1, Invariance, PTL

\* A verified address is one whose code its user has entered, unless two
\* requests of the user about the address overlapped.
THEOREM VerifiedByCodeHolds == Spec => []VerifiedByCode
<1>1. IInv => VerifiedByCode
  BY DEF IInv, Mail, Proved, VerifiedByCode
<1> QED
  BY <1>1, Invariance, PTL

\* A token that works is as new as its user's password, or a revocation under
\* way will end it, or one has missed it.
THEOREM OldSessionsEndHolds == Spec => []OldSessionsEnd
<1>1. IInv => OldSessionsEnd
  <2> SUFFICES ASSUME IInv, NEW i \in keys \ missed
               PROVE  \/ token[i].made = row[token[i].user].password
                      \/ Revoking(token[i].user)
    BY DEF OldSessionsEnd
  <2>1. FreshToken(i)
    BY DEF IInv, Sessions, TypeOK
  <2>2. ASSUME NEW s \in Tasks, RevokedBy(token[i].user, s) PROVE Revoking(token[i].user)
    BY <2>2 DEF RevokedBy, Revoking, At, Changing
  <2>3. ASSUME NEW s \in Tasks, At(s, "delete"), i \in task[s].read
        PROVE  Revoking(token[i].user)
    <3>1. token[i].user = task[s].user
      BY <2>3 DEF IInv, Sessions, Remembers
    <3> QED
      BY <2>3, <3>1 DEF Revoking, At, Changing
  <2> QED
    BY <2>1, <2>2, <2>3 DEF FreshToken
<1> QED
  BY <1>1, Invariance, PTL

\* A token that works is in its user's set or about to be, unless a
\* revocation has dropped it.
THEOREM KeysAreListedHolds == Spec => []KeysAreListed
<1>1. IInv => KeysAreListed
  BY DEF IInv, Sessions
<1> QED
  BY <1>1, Invariance, PTL

=============================================================================
