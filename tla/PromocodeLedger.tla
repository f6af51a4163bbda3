--------------------------- MODULE PromocodeLedger ---------------------------
(***************************************************************************)
(* What a promocode promises, whatever requests, edits and failures        *)
(* overlap: an activation is one step. In that step the code still has     *)
(* room, within the widest terms it was ever offered on, the activation is *)
(* recorded, and what the user has in the database becomes what the reward *)
(* makes of it; nothing else gives a user anything. Promocodes implements  *)
(* it.                                                                     *)
(***************************************************************************)
EXTENDS Integers, SequencesExt

CONSTANTS Codes, Users, NoLimit, NoCode

VARIABLES withdrawn,  \* the codes that have been deleted
          limit,      \* the highest limit a code has been offered with
          reusable,   \* the codes that were ever for repeated use
          kinds,      \* the rewards a code has been offered with
          redeemed,   \* the users who have activated a code, in order
          have,       \* units in a user's subscription, 0: none
          discount,   \* the code that gave a user the next discount
          mixed       \* users of whose requests two overlapped

terms  == <<withdrawn, limit, reusable, kinds>>
assets == <<have, discount, mixed>>

LedgerInit ==
    /\ withdrawn = {} /\ reusable = {} /\ mixed = {}
    /\ limit = [c \in Codes |-> 0]
    /\ kinds = [c \in Codes |-> {}]
    /\ redeemed = [c \in Codes |-> <<>>]
    /\ have \in [Users -> {0, 1}]
    /\ discount = [u \in Users |-> NoCode]

\* A code is offered, or its terms are edited: what it once allowed counts.
Widen(c) ==
    /\ c \notin withdrawn
    /\ limit' = [limit EXCEPT ![c] = limit'[c]]
    /\ limit'[c] # NoLimit => limit[c] # NoLimit /\ limit'[c] >= limit[c]
    /\ reusable' \in {reusable, reusable \cup {c}}
    /\ kinds' = [kinds EXCEPT ![c] = kinds'[c]]
    /\ kinds[c] \subseteq kinds'[c]
    /\ UNCHANGED <<withdrawn, redeemed, assets>>

\* A deleted code takes its activations along and does not come back.
Withdraw(c) ==
    /\ c \notin withdrawn
    /\ withdrawn' = withdrawn \cup {c}
    /\ redeemed' = [redeemed EXCEPT ![c] = <<>>]
    /\ UNCHANGED <<limit, reusable, kinds, assets>>

Room(c, u) ==
    /\ c \notin withdrawn
    /\ limit[c] # NoLimit => Len(redeemed[c]) < limit[c]
    /\ c \notin reusable => ~Contains(redeemed[c], u)

\* An extension adds to what the user has, a plan starts anew; of two requests
\* that overlapped, the later goes by what it had read.
Subscribe(c, u) ==
    /\ have' = [have EXCEPT ![u] = have'[u]]
    /\ \/ "extend" \in kinds[c] /\ have[u] # 0 /\ have'[u] = have[u] + 1
       \/ "plan" \in kinds[c] /\ have'[u] = 1
       \/ "extend" \in kinds[c] /\ u \in mixed /\ have'[u] # 0
    /\ UNCHANGED discount

\* The discount is set; who has activated the code before may be taken to have
\* it still.
GiveDiscount(c, u) ==
    /\ "discount" \in kinds[c]
    /\ \/ discount' = [discount EXCEPT ![u] = c]
       \/ Contains(redeemed[c], u) /\ UNCHANGED discount
    /\ UNCHANGED have

Redeem(c, u) ==
    /\ Room(c, u)
    /\ redeemed' = [redeemed EXCEPT ![c] = Append(@, u)]
    /\ Subscribe(c, u) \/ GiveDiscount(c, u)
    /\ mixed' \in {mixed, mixed \cup {u}}
    /\ UNCHANGED terms

Spend(u) ==
    /\ discount[u] # NoCode
    /\ discount' = [discount EXCEPT ![u] = NoCode]
    /\ UNCHANGED <<terms, redeemed, have, mixed>>

LedgerNext ==
    \/ \E c \in Codes : Widen(c) \/ Withdraw(c)
    \/ \E c \in Codes, u \in Users : Redeem(c, u)
    \/ \E u \in Users : Spend(u)

LedgerSpec == LedgerInit /\ [][LedgerNext]_<<terms, redeemed, assets>>
=============================================================================
