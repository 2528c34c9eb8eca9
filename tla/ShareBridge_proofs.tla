-------------------------- MODULE ShareBridge_proofs --------------------------
(***************************************************************************)
(* The bridge makes nothing from nowhere.  The inductive invariant adds to  *)
(* that statement the types and that the messages under way bear numbers    *)
(* already given: a new message is then none of those under way, and its    *)
(* units are not counted twice.                                             *)
(***************************************************************************)
EXTENDS ShareBridge, FiniteSetTheorems, TLAPS

UnitsOf(m)      == {m} \X (1..m.amount)
UnitsOfAll(set) == UNION {UnitsOf(m) : m \in set}
On(messages, c) == {m \in messages : m.chain = c}

(* A message carries as many units as its amount. *)
LEMMA UnitsOfMessage ==
  ASSUME NEW m, m.amount \in Nat
  PROVE  IsFiniteSet(UnitsOf(m)) /\ Cardinality(UnitsOf(m)) = m.amount
<1> DEFINE one   == {m}
           units == 1..m.amount
<1>1. IsFiniteSet(one) /\ Cardinality(one) = 1
  BY FS_Singleton
<1>2. IsFiniteSet(units) /\ Cardinality(units) = m.amount
  BY FS_Interval
<1> HIDE DEF one, units
<1>3. /\ IsFiniteSet(one \X units)
      /\ Cardinality(one \X units) = Cardinality(one) * Cardinality(units)
  BY <1>1, <1>2, FS_Product, ZenonT(30)
<1>4. Cardinality(one \X units) = m.amount
  BY <1>1, <1>2, <1>3
<1> QED
  BY <1>3, <1>4 DEF UnitsOf, one, units

(* A new message adds its units, and no others. *)
LEMMA SetGrows ==
  ASSUME NEW set, NEW m, m \notin set, m.amount \in Nat, IsFiniteSet(UnitsOfAll(set))
  PROVE  /\ IsFiniteSet(UnitsOfAll(set \cup {m}))
         /\ Cardinality(UnitsOfAll(set \cup {m})) = Cardinality(UnitsOfAll(set)) + m.amount
<1>1. UnitsOfAll(set \cup {m}) = UnitsOfAll(set) \cup UnitsOf(m)
  BY DEF UnitsOfAll
<1>2. UnitsOfAll(set) \cap UnitsOf(m) = {}
  BY DEF UnitsOfAll, UnitsOf
<1>3. IsFiniteSet(UnitsOf(m)) /\ Cardinality(UnitsOf(m)) = m.amount
  BY UnitsOfMessage
<1>4. Cardinality({}) = 0
  BY FS_EmptySet
<1>5. Cardinality(UnitsOfAll(set)) \in Nat
  BY FS_CardinalityType
<1>6. /\ IsFiniteSet(UnitsOfAll(set) \cup UnitsOf(m))
      /\ Cardinality(UnitsOfAll(set) \cup UnitsOf(m))
           = Cardinality(UnitsOfAll(set)) + Cardinality(UnitsOf(m))
               - Cardinality(UnitsOfAll(set) \cap UnitsOf(m))
  BY <1>3, FS_Union
<1>7. Cardinality(UnitsOfAll(set) \cup UnitsOf(m))
        = Cardinality(UnitsOfAll(set)) + m.amount
  BY <1>2, <1>3, <1>4, <1>6
<1> QED
  BY <1>1, <1>5, <1>6, <1>7

(* A message taken away takes its units, and no others. *)
LEMMA SetShrinks ==
  ASSUME NEW set, NEW m \in set, m.amount \in Nat, IsFiniteSet(UnitsOfAll(set))
  PROVE  /\ IsFiniteSet(UnitsOfAll(set \ {m}))
         /\ Cardinality(UnitsOfAll(set)) = Cardinality(UnitsOfAll(set \ {m})) + m.amount
<1>1. UnitsOfAll(set \ {m}) \subseteq UnitsOfAll(set)
  BY DEF UnitsOfAll
<1>2. IsFiniteSet(UnitsOfAll(set \ {m}))
  BY <1>1, FS_Subset
<1>3. (set \ {m}) \cup {m} = set
  OBVIOUS
<1> QED
  BY <1>2, <1>3, SetGrows

-----------------------------------------------------------------------------
(* The same for the messages of one chain among all. *)

Countable(messages) ==
  \A c \in Chains : IsFiniteSet(UnitsUnderWay(messages, c)) /\ UnderWay(messages, c) \in Nat

LEMMA UnderWayIsOn ==
  ASSUME NEW messages, NEW c
  PROVE  UnitsUnderWay(messages, c) = UnitsOfAll(On(messages, c))
BY DEF UnitsUnderWay, UnitsOfAll, UnitsOf, On

(* One message more for its own chain, none for the others. *)
LEMMA MessageAdded ==
  ASSUME NEW messages, NEW m \in Message, m \notin messages, Countable(messages)
  PROVE  /\ Countable(messages \cup {m})
         /\ \A c \in Chains : UnderWay(messages \cup {m}, c)
              = UnderWay(messages, c) + (IF c = m.chain THEN m.amount ELSE 0)
<1> SUFFICES ASSUME NEW c \in Chains
    PROVE  /\ IsFiniteSet(UnitsUnderWay(messages \cup {m}, c))
           /\ UnderWay(messages \cup {m}, c) \in Nat
           /\ UnderWay(messages \cup {m}, c)
                = UnderWay(messages, c) + (IF c = m.chain THEN m.amount ELSE 0)
  BY DEF Countable
<1>0. /\ m.amount \in Nat
      /\ IsFiniteSet(UnitsUnderWay(messages, c)) /\ UnderWay(messages, c) \in Nat
  BY DEF Message, Countable
<1>1. CASE c = m.chain
  <2>1. On(messages \cup {m}, c) = On(messages, c) \cup {m} /\ m \notin On(messages, c)
    BY <1>1 DEF On
  <2>2. /\ IsFiniteSet(UnitsUnderWay(messages \cup {m}, c))
        /\ Cardinality(UnitsUnderWay(messages \cup {m}, c))
             = Cardinality(UnitsUnderWay(messages, c)) + m.amount
    BY <1>0, <2>1, SetGrows, UnderWayIsOn
  <2> QED
    BY <1>0, <1>1, <2>2 DEF UnderWay
<1>2. CASE c # m.chain
  <2>1. UnitsUnderWay(messages \cup {m}, c) = UnitsUnderWay(messages, c)
    BY <1>2 DEF UnitsUnderWay
  <2> QED
    BY <1>0, <1>2, <2>1 DEF UnderWay
<1> QED
  BY <1>1, <1>2

LEMMA MessageTaken ==
  ASSUME NEW messages, NEW m \in Message, m \in messages, Countable(messages)
  PROVE  /\ Countable(messages \ {m})
         /\ \A c \in Chains : UnderWay(messages, c)
              = UnderWay(messages \ {m}, c) + (IF c = m.chain THEN m.amount ELSE 0)
<1> SUFFICES ASSUME NEW c \in Chains
    PROVE  /\ IsFiniteSet(UnitsUnderWay(messages \ {m}, c))
           /\ UnderWay(messages \ {m}, c) \in Nat
           /\ UnderWay(messages, c)
                = UnderWay(messages \ {m}, c) + (IF c = m.chain THEN m.amount ELSE 0)
  BY DEF Countable
<1>0. /\ m.amount \in Nat
      /\ IsFiniteSet(UnitsUnderWay(messages, c)) /\ UnderWay(messages, c) \in Nat
  BY DEF Message, Countable
<1>1. CASE c = m.chain
  <2>1. On(messages \ {m}, c) = On(messages, c) \ {m} /\ m \in On(messages, c)
    BY <1>1 DEF On
  <2>2. /\ IsFiniteSet(UnitsUnderWay(messages \ {m}, c))
        /\ Cardinality(UnitsUnderWay(messages, c))
             = Cardinality(UnitsUnderWay(messages \ {m}, c)) + m.amount
    BY <1>0, <2>1, SetShrinks, UnderWayIsOn
  <2>3. Cardinality(UnitsUnderWay(messages \ {m}, c)) \in Nat
    BY <2>2, FS_CardinalityType
  <2> QED
    BY <1>0, <1>1, <2>2, <2>3 DEF UnderWay
<1>2. CASE c # m.chain
  <2>1. UnitsUnderWay(messages \ {m}, c) = UnitsUnderWay(messages, c)
    BY <1>2 DEF UnitsUnderWay
  <2> QED
    BY <1>0, <1>2, <2>1 DEF UnderWay
<1> QED
  BY <1>1, <1>2

LEMMA NoMessages == Countable({}) /\ \A c \in Chains : UnderWay({}, c) = 0
<1>1. \A c \in Chains : UnitsUnderWay({}, c) = {}
  BY DEF UnitsUnderWay
<1> QED
  BY <1>1, FS_EmptySet DEF Countable, UnderWay

-----------------------------------------------------------------------------

BridgeInv ==
  /\ TypeOK
  /\ NumbersFresh
  /\ Countable(outbound)
  /\ Countable(homebound)
  /\ Covered

LEMMA InitBridgeInv == Init => BridgeInv
BY NoMessages DEF Init, BridgeInv, TypeOK, NumbersFresh, Covered

LEMMA LeaveKeepsInv ==
  ASSUME BridgeInv, NEW m \in outbound' \ outbound, Leave(m)
  PROVE  BridgeInv'
<1>1. PICK taken \in Nat : taken >= m.amount /\ away' = [away EXCEPT ![m.chain] = @ + taken]
  BY DEF Leave
<1>2. m \in Message /\ m \notin outbound /\ m.amount \in Nat /\ m.chain \in Chains
  BY DEF Leave, Message
<1>3. /\ Countable(outbound') /\ Countable(homebound')
      /\ \A c \in Chains : UnderWay(outbound', c)
           = UnderWay(outbound, c) + (IF c = m.chain THEN m.amount ELSE 0)
  BY <1>2, MessageAdded DEF BridgeInv, Leave
<1>4. TypeOK' /\ NumbersFresh'
  BY <1>1, <1>2 DEF BridgeInv, TypeOK, NumbersFresh, Leave, Message
<1>5. Covered'
  <2> SUFFICES ASSUME NEW c \in Chains
      PROVE UnderWay(outbound', c) + abroad'[c] + UnderWay(homebound', c) <= away'[c]
    BY DEF Covered
  <2>1. /\ UnderWay(outbound, c) \in Nat /\ UnderWay(homebound, c) \in Nat
        /\ abroad[c] \in Nat /\ away[c] \in Int
        /\ UnderWay(outbound, c) + abroad[c] + UnderWay(homebound, c) <= away[c]
    BY DEF BridgeInv, Countable, TypeOK, Covered
  <2>2. abroad' = abroad /\ homebound' = homebound
    BY DEF Leave
  <2>3. away'[c] = IF c = m.chain THEN away[c] + taken ELSE away[c]
    BY <1>1 DEF BridgeInv, TypeOK
  <2> QED
    BY <1>1, <1>2, <1>3, <2>1, <2>2, <2>3
<1> QED
  BY <1>3, <1>4, <1>5 DEF BridgeInv

LEMMA ArriveKeepsInv ==
  ASSUME BridgeInv, NEW m \in outbound, Arrive(m)
  PROVE  BridgeInv'
<1>1. m \in Message /\ m.amount \in Nat /\ m.chain \in Chains
  BY DEF BridgeInv, TypeOK, Message
<1>2. /\ Countable(outbound') /\ Countable(homebound')
      /\ \A c \in Chains : UnderWay(outbound, c)
           = UnderWay(outbound', c) + (IF c = m.chain THEN m.amount ELSE 0)
  BY <1>1, MessageTaken DEF BridgeInv, Arrive
<1>3. TypeOK' /\ NumbersFresh'
  BY <1>1 DEF BridgeInv, TypeOK, NumbersFresh, Arrive
<1>4. Covered'
  <2> SUFFICES ASSUME NEW c \in Chains
      PROVE UnderWay(outbound', c) + abroad'[c] + UnderWay(homebound', c) <= away'[c]
    BY DEF Covered
  <2>1. /\ UnderWay(outbound', c) \in Nat /\ UnderWay(homebound, c) \in Nat
        /\ abroad[c] \in Nat /\ away[c] \in Int
        /\ UnderWay(outbound, c) + abroad[c] + UnderWay(homebound, c) <= away[c]
    BY <1>2 DEF BridgeInv, Countable, TypeOK, Covered
  <2>2. away' = away /\ homebound' = homebound
    BY DEF Arrive
  <2>3. abroad'[c] = IF c = m.chain THEN abroad[c] + m.amount ELSE abroad[c]
    BY DEF Arrive, BridgeInv, TypeOK
  <2> QED
    BY <1>1, <1>2, <2>1, <2>2, <2>3
<1> QED
  BY <1>2, <1>3, <1>4 DEF BridgeInv

LEMMA SetOutKeepsInv ==
  ASSUME BridgeInv, NEW m \in homebound' \ homebound, SetOut(m)
  PROVE  BridgeInv'
<1>1. PICK taken \in Nat : /\ taken >= m.amount /\ taken <= abroad[m.chain]
                           /\ abroad' = [abroad EXCEPT ![m.chain] = @ - taken]
  BY DEF SetOut
<1>2. m \in Message /\ m \notin homebound /\ m.amount \in Nat /\ m.chain \in Chains
  BY DEF SetOut, Message
<1>3. /\ Countable(outbound') /\ Countable(homebound')
      /\ \A c \in Chains : UnderWay(homebound', c)
           = UnderWay(homebound, c) + (IF c = m.chain THEN m.amount ELSE 0)
  BY <1>2, MessageAdded DEF BridgeInv, SetOut
<1>4. \A c \in Chains :
        abroad'[c] = IF c = m.chain THEN abroad[c] - taken ELSE abroad[c]
  BY <1>1 DEF BridgeInv, TypeOK
<1>5. abroad' \in [Chains -> Nat]
  <2>1. abroad[m.chain] \in Nat /\ abroad[m.chain] - taken \in Nat
    BY <1>1, <1>2 DEF BridgeInv, TypeOK
  <2> QED
    BY <1>1, <2>1 DEF BridgeInv, TypeOK
<1>6. TypeOK' /\ NumbersFresh'
  BY <1>2, <1>5 DEF BridgeInv, TypeOK, NumbersFresh, SetOut, Message
<1>7. Covered'
  <2> SUFFICES ASSUME NEW c \in Chains
      PROVE UnderWay(outbound', c) + abroad'[c] + UnderWay(homebound', c) <= away'[c]
    BY DEF Covered
  <2>1. /\ UnderWay(outbound, c) \in Nat /\ UnderWay(homebound, c) \in Nat
        /\ abroad[c] \in Nat /\ away[c] \in Int
        /\ UnderWay(outbound, c) + abroad[c] + UnderWay(homebound, c) <= away[c]
    BY DEF BridgeInv, Countable, TypeOK, Covered
  <2>2. away' = away /\ outbound' = outbound
    BY DEF SetOut
  <2> QED
    BY <1>1, <1>2, <1>3, <1>4, <2>1, <2>2
<1> QED
  BY <1>3, <1>6, <1>7 DEF BridgeInv

LEMMA ComeHomeKeepsInv ==
  ASSUME BridgeInv, NEW m \in homebound, ComeHome(m)
  PROVE  BridgeInv'
<1>1. m \in Message /\ m.amount \in Nat /\ m.chain \in Chains
  BY DEF BridgeInv, TypeOK, Message
<1>2. /\ Countable(outbound') /\ Countable(homebound')
      /\ \A c \in Chains : UnderWay(homebound, c)
           = UnderWay(homebound', c) + (IF c = m.chain THEN m.amount ELSE 0)
  BY <1>1, MessageTaken DEF BridgeInv, ComeHome
<1>3. TypeOK' /\ NumbersFresh'
  BY <1>1 DEF BridgeInv, TypeOK, NumbersFresh, ComeHome
<1>4. Covered'
  <2> SUFFICES ASSUME NEW c \in Chains
      PROVE UnderWay(outbound', c) + abroad'[c] + UnderWay(homebound', c) <= away'[c]
    BY DEF Covered
  <2>1. /\ UnderWay(outbound, c) \in Nat /\ UnderWay(homebound', c) \in Nat
        /\ abroad[c] \in Nat /\ away[c] \in Int
        /\ UnderWay(outbound, c) + abroad[c] + UnderWay(homebound, c) <= away[c]
    BY <1>2 DEF BridgeInv, Countable, TypeOK, Covered
  <2>2. abroad' = abroad /\ outbound' = outbound
    BY DEF ComeHome
  <2>3. away'[c] = IF c = m.chain THEN away[c] - m.amount ELSE away[c]
    BY DEF ComeHome, BridgeInv, TypeOK
  <2> QED
    BY <1>1, <1>2, <2>1, <2>2, <2>3
<1> QED
  BY <1>2, <1>3, <1>4 DEF BridgeInv

LEMMA NextBridgeInv == BridgeInv /\ [Next]_bridgeVars => BridgeInv'
<1> SUFFICES ASSUME BridgeInv, [Next]_bridgeVars PROVE BridgeInv'
  OBVIOUS
<1>1. CASE Skip
  BY <1>1 DEF Skip, BridgeInv, TypeOK, NumbersFresh, Covered, Message
<1>2. CASE UNCHANGED bridgeVars
  BY <1>2 DEF bridgeVars, BridgeInv, TypeOK, NumbersFresh, Covered
<1> QED
  BY <1>1, <1>2, LeaveKeepsInv, ArriveKeepsInv, SetOutKeepsInv, ComeHomeKeepsInv DEF Next

LEMMA BridgeInvariant == Spec => []BridgeInv
BY InitBridgeInv, NextBridgeInv, PTL DEF Spec

(* In every behaviour of the bridge all that is abroad or under way has left  *)
(* home and has not come back.                                                *)
THEOREM BridgeAlwaysCovered == Spec => []Covered
<1>1. BridgeInv => Covered
  BY DEF BridgeInv
<1> QED
  BY <1>1, BridgeInvariant, PTL

=============================================================================
