-------------------------- MODULE ShareEscrow_proofs --------------------------
(***************************************************************************)
(* The escrow never owes more shares than it holds.  The inductive          *)
(* invariant adds to it that names are fresh, so that a new claim is not    *)
(* one of the open ones and its units are not counted already.              *)
(***************************************************************************)
EXTENDS ShareEscrow, FiniteSetTheorems, TLAPS

LEMMA DifferenceIsNat ==
  ASSUME NEW m \in Nat, NEW n \in Nat, n >= m
  PROVE  n - m \in Nat
OBVIOUS

UnitsOf(c) == {c} \X (1..c.amount)
UnitsOfAll(claims) == UNION {UnitsOf(c) : c \in claims}

(* A claim has as many units as it is owed shares. *)
LEMMA UnitsOfClaim ==
  ASSUME NEW c, c.amount \in Nat
  PROVE  IsFiniteSet(UnitsOf(c)) /\ Cardinality(UnitsOf(c)) = c.amount
<1>1. IsFiniteSet({c}) /\ Cardinality({c}) = 1
  BY FS_Singleton
<1>2. IsFiniteSet(1..c.amount) /\ Cardinality(1..c.amount) = c.amount
  BY FS_Interval
<1>3. IsFiniteSet({c} \X (1..c.amount))
         /\ Cardinality({c} \X (1..c.amount)) = 1 * c.amount
  BY <1>1, <1>2, FS_Product
<1> QED
  BY <1>3 DEF UnitsOf

(* One more claim adds its own units and no others. *)
LEMMA UnitsAdded ==
  ASSUME NEW claims, NEW c, c \notin claims, c.amount \in Nat,
         IsFiniteSet(UnitsOfAll(claims))
  PROVE  /\ IsFiniteSet(UnitsOfAll(claims \cup {c}))
         /\ Cardinality(UnitsOfAll(claims \cup {c}))
              = Cardinality(UnitsOfAll(claims)) + c.amount
<1>1. UnitsOfAll(claims \cup {c}) = UnitsOfAll(claims) \cup UnitsOf(c)
  BY DEF UnitsOfAll
<1>2. UnitsOfAll(claims) \cap UnitsOf(c) = {}
  BY DEF UnitsOfAll, UnitsOf
<1>3. IsFiniteSet(UnitsOf(c)) /\ Cardinality(UnitsOf(c)) = c.amount
  BY UnitsOfClaim
<1>4. Cardinality({}) = 0
  BY FS_EmptySet
<1>5. Cardinality(UnitsOfAll(claims)) \in Nat
  BY FS_CardinalityType
<1>6. /\ IsFiniteSet(UnitsOfAll(claims) \cup UnitsOf(c))
      /\ Cardinality(UnitsOfAll(claims) \cup UnitsOf(c))
           = Cardinality(UnitsOfAll(claims)) + Cardinality(UnitsOf(c))
               - Cardinality(UnitsOfAll(claims) \cap UnitsOf(c))
  BY <1>3, FS_Union
<1>7. Cardinality(UnitsOfAll(claims) \cup UnitsOf(c))
        = Cardinality(UnitsOfAll(claims)) + c.amount
  BY <1>2, <1>3, <1>4, <1>6
<1> QED
  BY <1>1, <1>5, <1>6, <1>7

(* One claim fewer takes away its own units and no others. *)
LEMMA UnitsRemoved ==
  ASSUME NEW claims, NEW c \in claims, c.amount \in Nat,
         IsFiniteSet(UnitsOfAll(claims))
  PROVE  /\ IsFiniteSet(UnitsOfAll(claims \ {c}))
         /\ Cardinality(UnitsOfAll(claims \ {c})) \in Nat
         /\ Cardinality(UnitsOfAll(claims))
              = Cardinality(UnitsOfAll(claims \ {c})) + c.amount
<1>1. UnitsOfAll(claims \ {c}) \subseteq UnitsOfAll(claims)
  BY DEF UnitsOfAll
<1>2. IsFiniteSet(UnitsOfAll(claims \ {c}))
  BY <1>1, FS_Subset
<1>3. (claims \ {c}) \cup {c} = claims
  OBVIOUS
<1>4. Cardinality(UnitsOfAll((claims \ {c}) \cup {c}))
        = Cardinality(UnitsOfAll(claims \ {c})) + c.amount
  BY <1>2, UnitsAdded
<1>5. Cardinality(UnitsOfAll(claims \ {c})) \in Nat
  BY <1>2, FS_CardinalityType
<1> QED
  BY <1>2, <1>3, <1>4, <1>5

-----------------------------------------------------------------------------

EscrowInv ==
  /\ TypeOK
  /\ NamesFresh
  /\ IsFiniteSet(OwedUnits)
  /\ Backed

LEMMA OwedUnitsAsUnion ==
  OwedUnits = UnitsOfAll(open) /\ OwedUnits' = UnitsOfAll(open')
BY DEF OwedUnits, UnitsOfAll, UnitsOf

LEMMA InitEscrowInv == Init => EscrowInv
<1> SUFFICES ASSUME Init PROVE EscrowInv
  OBVIOUS
<1>1. OwedUnits = {}
  BY DEF Init, OwedUnits
<1>2. IsFiniteSet({}) /\ Cardinality({}) = 0
  BY FS_EmptySet
<1>3. TypeOK /\ NamesFresh
  BY DEF Init, TypeOK, NamesFresh
<1>4. held >= 0
  BY DEF Init
<1> QED
  BY <1>1, <1>2, <1>3, <1>4 DEF EscrowInv, Backed

LEMMA NextEscrowInv == EscrowInv /\ [Next]_escrowVars => EscrowInv'
<1> SUFFICES ASSUME EscrowInv, [Next]_escrowVars PROVE EscrowInv'
  OBVIOUS
<1> USE DEF EscrowInv, TypeOK, NamesFresh, Backed
<1>0. Cardinality(OwedUnits) \in Nat
  BY FS_CardinalityType
<1>1. ASSUME NEW u \in Users, Open(u) PROVE EscrowInv'
  <2> DEFINE c == [user |-> u, number |-> next[u], amount |-> held' - held]
  <2>1. open' = open \cup {c} /\ next' = [next EXCEPT ![u] = @ + 1]
    BY <1>1 DEF Open
  <2>2. c \in Claim /\ c.amount \in Nat /\ c.amount = held' - held
    <3>1. held \in Nat /\ held' \in Nat /\ held' >= held /\ next[u] \in Nat
      BY <1>1 DEF Open
    <3>2. held' - held \in Nat
      BY <3>1, DifferenceIsNat
    <3> QED
      BY <3>1, <3>2 DEF Claim
  <2>3. c \notin open
    OBVIOUS
  <2>4. TypeOK'
    BY <1>1, <2>1, <2>2 DEF Open
  <2>5. NamesFresh'
    BY <2>1, <2>2 DEF Claim
  <2> HIDE DEF c
  <2>6. IsFiniteSet(UnitsOfAll(open'))
          /\ Cardinality(UnitsOfAll(open')) = Cardinality(UnitsOfAll(open)) + c.amount
    BY <2>1, <2>2, <2>3, UnitsAdded, OwedUnitsAsUnion
  <2>7. held' >= Cardinality(OwedUnits')
    BY <1>0, <2>2, <2>4, <2>6, OwedUnitsAsUnion
  <2> QED
    BY <2>4, <2>5, <2>6, <2>7, OwedUnitsAsUnion
<1>2. ASSUME NEW c \in open, Close(c) PROVE EscrowInv'
  <2>1. open' = open \ {c} /\ held' = held - c.amount /\ next' = next
    BY <1>2 DEF Close
  <2>2. c.amount \in Nat
    BY DEF Claim
  <2>3. /\ IsFiniteSet(UnitsOfAll(open'))
        /\ Cardinality(UnitsOfAll(open')) \in Nat
        /\ Cardinality(UnitsOfAll(open)) = Cardinality(UnitsOfAll(open')) + c.amount
    BY <2>1, <2>2, UnitsRemoved, OwedUnitsAsUnion
  <2>4. held' \in Nat /\ held' >= Cardinality(OwedUnits')
    BY <2>1, <2>2, <2>3, OwedUnitsAsUnion
  <2>5. TypeOK' /\ NamesFresh'
    BY <2>1, <2>4
  <2> QED
    BY <2>3, <2>4, <2>5, OwedUnitsAsUnion
<1>3. CASE Donate
  <2>1. OwedUnits' = OwedUnits /\ TypeOK' /\ NamesFresh'
    BY <1>3 DEF Donate, OwedUnits
  <2> QED
    BY <1>0, <1>3, <2>1 DEF Donate
<1>4. CASE UNCHANGED escrowVars
  BY <1>4 DEF escrowVars, OwedUnits
<1> QED
  BY <1>1, <1>2, <1>3, <1>4 DEF Next

LEMMA EscrowInvariant == Spec => []EscrowInv
BY InitEscrowInv, NextEscrowInv, PTL DEF Spec

(* What covers all claims together covers each of them. *)
LEMMA EveryClaimCovered == ASSUME EscrowInv, NEW c \in open PROVE held >= c.amount
<1>1. c.amount \in Nat /\ held \in Nat
  BY DEF EscrowInv, TypeOK, Claim
<1>2. UnitsOf(c) \subseteq OwedUnits
  BY DEF UnitsOf, OwedUnits
<1>3. IsFiniteSet(OwedUnits) /\ held >= Cardinality(OwedUnits)
  BY DEF EscrowInv, Backed
<1>4. Cardinality(UnitsOf(c)) <= Cardinality(OwedUnits)
  BY <1>2, <1>3, FS_Subset
<1>5. Cardinality(UnitsOf(c)) = c.amount /\ Cardinality(OwedUnits) \in Nat
  BY <1>1, <1>3, UnitsOfClaim, FS_CardinalityType
<1> QED
  BY <1>1, <1>3, <1>4, <1>5

(* The escrow holds the shares of all its open claims, in every behaviour. *)
THEOREM EscrowAlwaysBacked == Spec => []Backed
<1>1. EscrowInv => Backed
  BY DEF EscrowInv
<1> QED
  BY <1>1, EscrowInvariant, PTL

=============================================================================
