------------------------------ MODULE ShareEscrow ------------------------------
(***************************************************************************)
(* What the withdraw queue promises about the shares it is handed, with no  *)
(* word about prices, pauses, deadlines or solvers: a claim is opened once  *)
(* under a name that is never used again, its shares are set aside, and it  *)
(* is closed once, taking exactly its own shares out.                       *)
(***************************************************************************)
EXTENDS Integers, FiniteSets

CONSTANT Users

VARIABLES
  open,   \* the open claims
  next,   \* the number of each user's next claim
  held    \* shares held in escrow

escrowVars == <<open, next, held>>

Claim == [user: Users, number: Nat, amount: Nat]

Init ==
  /\ open = {}
  /\ next = [u \in Users |-> 0]
  /\ held = 0

(* The shares that arrive with an opening are the claim's amount. *)
Open(u) ==
  /\ held' \in Nat
  /\ held' >= held
  /\ open' = open \cup {[user |-> u, number |-> next[u], amount |-> held' - held]}
  /\ next' = [next EXCEPT ![u] = @ + 1]

Close(c) ==
  /\ c \in open
  /\ open' = open \ {c}
  /\ held' = held - c.amount
  /\ UNCHANGED next

(* Anyone may send shares to the escrow account. *)
Donate ==
  /\ held' \in Nat
  /\ held' >= held
  /\ UNCHANGED <<open, next>>

Next ==
  \/ \E u \in Users : Open(u)
  \/ \E c \in open : Close(c)
  \/ Donate

Spec == Init /\ [][Next]_escrowVars

-----------------------------------------------------------------------------

(* One element for each share owed to an open claim. *)
OwedUnits == UNION {{c} \X (1..c.amount) : c \in open}

TypeOK ==
  /\ open \subseteq Claim
  /\ next \in [Users -> Nat]
  /\ held \in Nat

(* Names are fresh: no open claim carries a number not yet given out, and   *)
(* two claims of one user never share a number.                             *)
NamesFresh ==
  /\ \A c \in open : c.number < next[c.user]
  /\ \A c, d \in open : c.user = d.user /\ c.number = d.number => c = d

(* The escrow holds at least what all open claims together are owed. *)
Backed == held >= Cardinality(OwedUnits)

=============================================================================
