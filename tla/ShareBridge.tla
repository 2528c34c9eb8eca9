------------------------------ MODULE ShareBridge ------------------------------
(***************************************************************************)
(* What the bridge promises, with no word about endpoints, peers, pauses or *)
(* rate limits: shares leave for another chain, arrive there, set out again *)
(* and come home.  A message is numbered once, taken once, and for exactly  *)
(* its amount; rounding on the way may lose value and never creates any.    *)
(* Amounts are in a unit so fine that both chains' smallest amounts are     *)
(* multiples of it.                                                         *)
(***************************************************************************)
EXTENDS Integers, FiniteSets

CONSTANT Chains

VARIABLES
  away,       \* value that left for each chain and has not come back
  outbound,   \* messages under way to other chains
  abroad,     \* value held on each chain
  homebound,  \* messages under way home
  sent,       \* number of the last message out
  returned    \* number of the last message home

bridgeVars == <<away, outbound, abroad, homebound, sent, returned>>

Message == [chain: Chains, number: Nat, amount: Nat]

Init ==
  /\ away = [c \in Chains |-> 0]
  /\ outbound = {}
  /\ abroad = [c \in Chains |-> 0]
  /\ homebound = {}
  /\ sent = 0
  /\ returned = 0

(* What is taken from the sender beyond the message's amount is lost. *)
Leave(m) ==
  /\ m \in Message
  /\ m.number > sent
  /\ sent' = m.number
  /\ outbound' = outbound \cup {m}
  /\ \E taken \in {away'[m.chain] - away[m.chain]} :
       /\ taken \in Nat
       /\ taken >= m.amount
       /\ away' = [away EXCEPT ![m.chain] = @ + taken]
  /\ UNCHANGED <<abroad, homebound, returned>>

Arrive(m) ==
  /\ m \in outbound
  /\ outbound' = outbound \ {m}
  /\ abroad' = [abroad EXCEPT ![m.chain] = @ + m.amount]
  /\ UNCHANGED <<away, homebound, sent, returned>>

SetOut(m) ==
  /\ m \in Message
  /\ m.number > returned
  /\ returned' = m.number
  /\ homebound' = homebound \cup {m}
  /\ \E taken \in {abroad[m.chain] - abroad'[m.chain]} :
       /\ taken \in Nat
       /\ taken >= m.amount
       /\ taken <= abroad[m.chain]
       /\ abroad' = [abroad EXCEPT ![m.chain] = @ - taken]
  /\ UNCHANGED <<away, outbound, sent>>

ComeHome(m) ==
  /\ m \in homebound
  /\ homebound' = homebound \ {m}
  /\ away' = [away EXCEPT ![m.chain] = @ - m.amount]
  /\ UNCHANGED <<outbound, abroad, sent, returned>>

(* Messages of others are numbered too. *)
Skip ==
  /\ returned' \in Nat
  /\ returned' > returned
  /\ UNCHANGED <<away, outbound, abroad, homebound, sent>>

Next ==
  \/ \E m \in outbound' \ outbound : Leave(m)
  \/ \E m \in outbound : Arrive(m)
  \/ \E m \in homebound' \ homebound : SetOut(m)
  \/ \E m \in homebound : ComeHome(m)
  \/ Skip

Spec == Init /\ [][Next]_bridgeVars

-----------------------------------------------------------------------------

(* One element for each unit under way to or from a chain. *)
UnitsUnderWay(messages, c) ==
  UNION {{m} \X (1..m.amount) : m \in {x \in messages : x.chain = c}}

UnderWay(messages, c) == Cardinality(UnitsUnderWay(messages, c))

TypeOK ==
  /\ away \in [Chains -> Int]
  /\ outbound \subseteq Message
  /\ abroad \in [Chains -> Nat]
  /\ homebound \subseteq Message
  /\ sent \in Nat
  /\ returned \in Nat

NumbersFresh ==
  /\ \A m \in outbound : m.number <= sent
  /\ \A m \in homebound : m.number <= returned

(* Whatever is abroad or under way has left home and has not come back. *)
Covered ==
  \A c \in Chains :
    UnderWay(outbound, c) + abroad[c] + UnderWay(homebound, c) <= away[c]

=============================================================================
