-------------------------- MODULE StateAssert_proofs --------------------------
(***************************************************************************)
(* The array of the state-assert program is the stack it stands for, for    *)
(* every number of users and accounts and every size of the stack.  The     *)
(* inductive invariant adds to the types that what a user pushed in the     *)
(* running transaction is the upper end of the live part of the array.      *)
(***************************************************************************)
EXTENDS StateAssert, SequenceTheorems, TLAPS

-----------------------------------------------------------------------------
(* Live parts of arrays.  A stack is [stack, len]; its live part is a sequence. *)

Array(N, S)  == [1..N -> S]
LiveOf(a, n) == [i \in 1..n |-> a[i]]

LEMMA LiveIsSequence ==
  ASSUME NEW S, NEW N \in Nat, NEW a \in Array(N, S), NEW n \in 0..N
  PROVE  /\ LiveOf(a, n) \in Seq(S)
         /\ Len(LiveOf(a, n)) = n
         /\ \A i \in 1..n : LiveOf(a, n)[i] = a[i]
<1>1. LiveOf(a, n) \in [1..n -> S] /\ n \in Nat
  BY DEF LiveOf, Array
<1>2. LiveOf(a, n) \in Seq(S)
  BY <1>1, SeqDef
<1>3. DOMAIN LiveOf(a, n) = 1..n /\ DOMAIN LiveOf(a, n) = 1..Len(LiveOf(a, n))
        /\ Len(LiveOf(a, n)) \in Nat
  BY <1>1, <1>2, LenProperties
<1>4. Len(LiveOf(a, n)) = n
  <2>1. ASSUME NEW p \in Nat, NEW q \in Nat, 1..p = 1..q PROVE p = q
    <3>1. p \in 1..p \/ p = 0
      OBVIOUS
    <3>2. q \in 1..q \/ q = 0
      OBVIOUS
    <3> QED
      BY <2>1, <3>1, <3>2
  <2> QED
    BY <1>1, <1>3, <2>1
<1> QED
  BY <1>2, <1>4 DEF LiveOf

(* Writing the slot above the live part and raising the length appends to it. *)
LEMMA PushAppends ==
  ASSUME NEW S, NEW N \in Nat, NEW a \in Array(N, S), NEW n \in 0..N, n < N,
         NEW e \in S, NEW b \in Array(N, S),
         b[n + 1] = e, \A i \in 1..n : b[i] = a[i]
  PROVE  LiveOf(b, n + 1) = Append(LiveOf(a, n), e)
<1>1. b \in Array(N, S) /\ n + 1 \in 0..N
  OBVIOUS
<1>2. \A i \in 1..(n + 1) : b[i] = IF i = n + 1 THEN e ELSE a[i]
  OBVIOUS
<1>3. /\ LiveOf(b, n + 1) \in Seq(S)
      /\ Len(LiveOf(b, n + 1)) = n + 1
      /\ \A i \in 1..(n + 1) : LiveOf(b, n + 1)[i] = b[i]
  BY <1>1, LiveIsSequence
<1>4. /\ LiveOf(a, n) \in Seq(S)
      /\ Len(LiveOf(a, n)) = n
      /\ \A i \in 1..n : LiveOf(a, n)[i] = a[i]
  BY LiveIsSequence
<1>5. /\ Append(LiveOf(a, n), e) \in Seq(S) /\ Len(Append(LiveOf(a, n), e)) = n + 1
      /\ \A i \in 1..n : Append(LiveOf(a, n), e)[i] = LiveOf(a, n)[i]
      /\ Append(LiveOf(a, n), e)[n + 1] = e
  BY <1>4, AppendProperties
<1>6. \A i \in 1..(n + 1) : LiveOf(b, n + 1)[i] = Append(LiveOf(a, n), e)[i]
  BY <1>2, <1>3, <1>4, <1>5
<1> QED
  BY <1>3, <1>5, <1>6, SeqEqual

(* Lowering the length takes the last element off. *)
LEMMA PopTakesLast ==
  ASSUME NEW S, NEW N \in Nat, NEW a \in Array(N, S), NEW n \in 1..N
  PROVE  /\ LiveOf(a, n) # <<>>
         /\ Len(LiveOf(a, n)) = n
         /\ LiveOf(a, n)[n] = a[n]
         /\ LiveOf(a, n - 1) = SubSeq(LiveOf(a, n), 1, Len(LiveOf(a, n)) - 1)
<1>0. n \in 0..N
  OBVIOUS
<1>1. /\ LiveOf(a, n) \in Seq(S)
      /\ Len(LiveOf(a, n)) = n
      /\ \A i \in 1..n : LiveOf(a, n)[i] = a[i]
  BY <1>0, LiveIsSequence
<1>2. n - 1 \in 0..N
  OBVIOUS
<1>3. /\ LiveOf(a, n - 1) \in Seq(S)
      /\ Len(LiveOf(a, n - 1)) = n - 1
      /\ \A i \in 1..(n - 1) : LiveOf(a, n - 1)[i] = a[i]
  BY <1>2, LiveIsSequence
<1>4. \A i \in 1..(n - 1) : LiveOf(a, n)[i] \in S
  BY <1>1
<1>5. /\ SubSeq(LiveOf(a, n), 1, n - 1) \in Seq(S)
      /\ Len(SubSeq(LiveOf(a, n), 1, n - 1)) = IF 1 <= n - 1 THEN n - 1 - 1 + 1 ELSE 0
      /\ \A i \in 1..(n - 1 - 1 + 1) : SubSeq(LiveOf(a, n), 1, n - 1)[i] = LiveOf(a, n)[1 + i - 1]
  BY <1>4, SubSeqProperties
<1>6. Len(SubSeq(LiveOf(a, n), 1, n - 1)) = n - 1
  BY <1>5
<1>7. \A i \in 1..(n - 1) : SubSeq(LiveOf(a, n), 1, n - 1)[i] = LiveOf(a, n)[i]
  BY <1>5
<1>8. \A i \in 1..(n - 1) : LiveOf(a, n - 1)[i] = SubSeq(LiveOf(a, n), 1, n - 1)[i]
  BY <1>1, <1>3, <1>7
<1>9. LiveOf(a, n - 1) = SubSeq(LiveOf(a, n), 1, n - 1)
  BY <1>3, <1>5, <1>6, <1>8, SeqEqual
<1> QED
  BY <1>1, <1>9, EmptySeq

-----------------------------------------------------------------------------
(* Types. *)

LEMMA SlotTypes ==
  ASSUME StackTypeOK, NEW u \in Users
  PROVE  /\ stacks[u] \in StackType
         /\ stacks[u].stack \in [1..MaxStackSize -> StateAssertType]
         /\ stacks[u].len \in 0..MaxStackSize
         /\ open[u] \in Seq(StateAssertType)
BY DEF StackTypeOK, StackType

LEMMA ReadType ==
  ASSUME StackTypeOK, NEW t \in Targets, NEW offset \in Nat, InBounds(t, offset)
  PROVE  Read(t, offset) \in Nat
<1>1. data[t] \in Seq(Nat)
  BY StateAssertAssumption DEF StackTypeOK
<1>2. offset + 1 \in 1..Len(data[t])
  BY <1>1, LenProperties DEF InBounds
<1> QED
  BY <1>1, <1>2, ElementOfSeq DEF Read

(* The statement push_state_assert writes. *)
Pushed(t, offset, check) ==
  [target_account |-> t, data_offset |-> offset, initial_value |-> Read(t, offset),
   compare_to |-> check.compare_to, comparison_method |-> check.comparison_method,
   direction |-> check.direction]

LEMMA PushedType ==
  ASSUME StackTypeOK, NEW t \in Targets, NEW offset \in Offsets, NEW check \in Checks,
         InBounds(t, offset)
  PROVE  Pushed(t, offset, check) \in StateAssertType
<1>1. offset \in Nat /\ check \in CheckType
  BY StateAssertAssumption
<1>2. Read(t, offset) \in Nat
  BY <1>1, ReadType
<1> QED
  BY <1>1, <1>2 DEF Pushed, StateAssertType, CheckType

LEMMA InitStackType == Init => StackTypeOK
<1> SUFFICES ASSUME Init PROVE StackTypeOK
  OBVIOUS
<1>1. Zeroed \in StateAssertType
  BY DEF Zeroed, StateAssertType, ComparisonMethods, Directions
<1>2. stacks \in [Users -> StackType]
  BY <1>1, StateAssertAssumption DEF Init, StackType
<1>3. open \in [Users -> Seq(StateAssertType)]
  BY EmptySeq DEF Init, NothingOpen
<1> QED
  BY <1>2, <1>3 DEF Init, StackTypeOK

LEMMA ShorterType ==
  ASSUME NEW S, NEW s \in Seq(S), s # <<>>
  PROVE  /\ SubSeq(s, 1, Len(s) - 1) \in Seq(S)
         /\ Len(SubSeq(s, 1, Len(s) - 1)) = Len(s) - 1
         /\ \A i \in 1..(Len(s) - 1) : SubSeq(s, 1, Len(s) - 1)[i] = s[i]
         /\ Len(s) \in Nat \ {0}
<1>1. Len(s) \in Nat \ {0} /\ \A i \in 1..(Len(s) - 1) : s[i] \in S
  BY EmptySeq, ElementOfSeq
<1> DEFINE n == Len(s) - 1
<1>2. n \in Nat /\ \A i \in 1..n : s[i] \in S
  BY <1>1
<1> HIDE DEF n
<1>3. /\ SubSeq(s, 1, n) \in Seq(S)
      /\ Len(SubSeq(s, 1, n)) = IF 1 <= n THEN n - 1 + 1 ELSE 0
      /\ \A i \in 1..(n - 1 + 1) : SubSeq(s, 1, n)[i] = s[1 + i - 1]
  BY <1>2, SubSeqProperties
<1>4. Len(SubSeq(s, 1, n)) = n /\ \A i \in 1..n : SubSeq(s, 1, n)[i] = s[i]
  BY <1>2, <1>3
<1> QED
  BY <1>1, <1>3, <1>4 DEF n

LEMMA PushKeepsType ==
  ASSUME StackTypeOK, NEW u \in Users, NEW sa \in StateAssertType, Push(u, sa)
  PROVE  /\ stacks' \in [Users -> StackType]
         /\ stacks'[u].stack = [stacks[u].stack EXCEPT ![stacks[u].len + 1] = sa]
         /\ stacks'[u].len = stacks[u].len + 1
         /\ \A v \in Users : v # u => stacks'[v] = stacks[v]
<1> DEFINE new == [stacks[u] EXCEPT !.stack = [@ EXCEPT ![stacks[u].len + 1] = sa],
                                    !.len = @ + 1]
<1>1. stacks' = [stacks EXCEPT ![u] = new]
  BY DEF Push
<1>2. /\ stacks[u] \in StackType
      /\ stacks[u].stack \in [1..MaxStackSize -> StateAssertType]
      /\ stacks[u].len \in 0..MaxStackSize
      /\ stacks[u].len < MaxStackSize
      /\ MaxStackSize \in Nat
  BY SlotTypes, StateAssertAssumption DEF Push
<1>3. new \in StackType
  <2>1. [stacks[u].stack EXCEPT ![stacks[u].len + 1] = sa]
          \in [1..MaxStackSize -> StateAssertType]
    BY <1>2
  <2>2. stacks[u].len + 1 \in 0..MaxStackSize
    BY <1>2
  <2> QED
    BY <1>2, <2>1, <2>2 DEF StackType
<1>4. /\ new.stack = [stacks[u].stack EXCEPT ![stacks[u].len + 1] = sa]
      /\ new.len = stacks[u].len + 1
  BY <1>2 DEF StackType
<1> HIDE DEF new
<1> QED
  BY <1>1, <1>3, <1>4 DEF StackTypeOK

LEMMA PopKeepsType ==
  ASSUME StackTypeOK, NEW u \in Users, Pop(u)
  PROVE  /\ stacks' \in [Users -> StackType]
         /\ stacks[u].len \in 1..MaxStackSize
         /\ stacks'[u].stack = stacks[u].stack
         /\ stacks'[u].len = stacks[u].len - 1
         /\ \A v \in Users : v # u => stacks'[v] = stacks[v]
<1>1. /\ stacks[u] \in StackType
      /\ stacks[u].len \in 0..MaxStackSize
      /\ stacks[u].len > 0
      /\ MaxStackSize \in Nat
  BY SlotTypes, StateAssertAssumption DEF Pop
<1> DEFINE new == [stacks[u] EXCEPT !.len = @ - 1]
<1>2. stacks' = [stacks EXCEPT ![u] = new]
  BY DEF Pop
<1>3. stacks[u].len - 1 \in 0..MaxStackSize
  BY <1>1
<1>4. new \in StackType /\ new.stack = stacks[u].stack /\ new.len = stacks[u].len - 1
  BY <1>1, <1>3 DEF StackType
<1> HIDE DEF new
<1>5. stacks' \in [Users -> StackType] /\ stacks'[u] = new
  BY <1>2, <1>4 DEF StackTypeOK
<1> QED
  BY <1>1, <1>2, <1>4, <1>5 DEF StackTypeOK

LEMMA NextStackType == StackTypeOK /\ [Next]_vars => StackTypeOK'
<1> SUFFICES ASSUME StackTypeOK, [Next]_vars PROVE StackTypeOK'
  OBVIOUS
<1>1. NothingOpen \in [Users -> Seq(StateAssertType)]
  BY EmptySeq DEF NothingOpen
<1>2. CASE Begin
  BY <1>2 DEF Begin, StackTypeOK
<1>3. CASE Commit
  BY <1>1, <1>3 DEF Commit, StackTypeOK
<1>4. CASE Abort
  BY <1>1, <1>4 DEF Abort, StackTypeOK
<1>5. ASSUME NEW t \in Targets, NEW content \in Contents, OtherInstruction(t, content)
      PROVE  StackTypeOK'
  BY <1>5 DEF OtherInstruction, StackTypeOK
<1>6. ASSUME NEW u \in Users, SetupStack(u) PROVE StackTypeOK'
  BY <1>6 DEF SetupStack, StackTypeOK, StackType
<1>7. ASSUME NEW u \in Users, NEW t \in Targets, NEW offset \in Offsets, NEW check \in Checks,
             PushStateAssert(u, t, offset, check)
      PROVE  StackTypeOK'
  <2>1. /\ Push(u, Pushed(t, offset, check))
        /\ open' = [open EXCEPT ![u] = Append(@, Pushed(t, offset, check))]
        /\ Pushed(t, offset, check) \in StateAssertType
        /\ UNCHANGED <<data, running, before>>
    BY <1>7, PushedType DEF PushStateAssert, Pushed
  <2>2. Append(open[u], Pushed(t, offset, check)) \in Seq(StateAssertType)
    BY <2>1, SlotTypes, AppendProperties
  <2> QED
    BY <2>1, <2>2, PushKeepsType DEF StackTypeOK
<1>8. ASSUME NEW u \in Users, NEW t \in Targets, PopStateAssert(u, t)
      PROVE  StackTypeOK'
  <2>1. open[u] \in Seq(StateAssertType)
    BY SlotTypes
  <2>2. open[u] # <<>> => SubSeq(open[u], 1, Len(open[u]) - 1) \in Seq(StateAssertType)
    BY <2>1, ShorterType
  <2>3. open' \in [Users -> Seq(StateAssertType)]
    BY <1>8, <2>1, <2>2 DEF PopStateAssert, StackTypeOK
  <2> QED
    BY <1>8, <2>3, PopKeepsType DEF PopStateAssert, StackTypeOK
<1>9. CASE UNCHANGED vars
  BY <1>9 DEF vars, StackTypeOK
<1> QED
  BY <1>2, <1>3, <1>4, <1>5, <1>6, <1>7, <1>8, <1>9 DEF Next

(* The state has its types: the length never leaves its array, however pushes, *)
(* pops and failed transactions follow each other (push, pop).                *)
THEOREM StackTypeCorrect == Spec => []StackTypeOK
BY InitStackType, NextStackType, PTL DEF Spec

-----------------------------------------------------------------------------
(* What the running transaction pushed is the upper end of the live part.    *)

IsTop(o, a, n) ==
  /\ Len(o) <= n
  /\ \A i \in 1..Len(o) : o[i] = a[n - Len(o) + i]

LEMMA PushKeepsTop ==
  ASSUME NEW S, NEW N \in Nat, NEW a \in [1..N -> S], NEW n \in 0..N, n < N,
         NEW e \in S, NEW o \in Seq(S), IsTop(o, a, n)
  PROVE  IsTop(Append(o, e), [a EXCEPT ![n + 1] = e], n + 1)
<1> DEFINE b == [a EXCEPT ![n + 1] = e]
<1> DEFINE p == Append(o, e)
<1> DEFINE k == Len(o)
<1>1. k \in Nat /\ k <= n /\ \A i \in 1..k : o[i] = a[n - k + i]
  BY LenProperties DEF IsTop
<1>2. Len(p) = k + 1 /\ (\A i \in 1..k : p[i] = o[i]) /\ p[k + 1] = e
  BY AppendProperties
<1>3. \A i \in 1..(n + 1) : b[i] = IF i = n + 1 THEN e ELSE a[i]
  OBVIOUS
<1> HIDE DEF b, p, k
<1>4. ASSUME NEW i \in 1..(k + 1) PROVE p[i] = b[(n + 1) - (k + 1) + i]
  <2>1. CASE i = k + 1
    BY <1>1, <1>2, <1>3, <2>1
  <2>2. CASE i \in 1..k
    <3>1. n - k + i \in 1..n /\ (n + 1) - (k + 1) + i = n - k + i
      BY <1>1, <2>2
    <3>2. b[n - k + i] = a[n - k + i]
      BY <1>3, <3>1
    <3> QED
      BY <1>1, <1>2, <2>2, <3>1, <3>2
  <2> QED
    BY <1>1, <2>1, <2>2
<1>5. IsTop(p, b, n + 1)
  BY <1>1, <1>2, <1>4 DEF IsTop
<1> QED
  BY <1>5 DEF b, p

LEMMA PopKeepsTop ==
  ASSUME NEW S, NEW a, NEW n \in Nat \ {0}, NEW o \in Seq(S), IsTop(o, a, n)
  PROVE  /\ IsTop(IF o = <<>> THEN o ELSE SubSeq(o, 1, Len(o) - 1), a, n - 1)
         /\ o # <<>> => o[Len(o)] = a[n]
<1> DEFINE k == Len(o)
<1> DEFINE p == SubSeq(o, 1, k - 1)
<1>0. k \in Nat /\ k <= n /\ \A i \in 1..k : o[i] = a[n - k + i]
  BY LenProperties DEF IsTop
<1>1. CASE o = <<>>
  <2>1. k = 0
    BY <1>1, EmptySeq
  <2> HIDE DEF k
  <2>2. IsTop(o, a, n - 1)
    <3>1. Len(o) = 0
      BY <2>1 DEF k
    <3> QED
      BY <3>1 DEF IsTop
  <2> QED
    BY <1>1, <2>2
<1>2. CASE o # <<>>
  <2>1. Len(p) = k - 1 /\ (\A i \in 1..(k - 1) : p[i] = o[i]) /\ k \in Nat \ {0}
    BY <1>2, ShorterType
  <2> HIDE DEF k, p
  <2>2. ASSUME NEW i \in 1..(k - 1) PROVE p[i] = a[(n - 1) - (k - 1) + i]
    <3>1. i \in 1..k /\ (n - 1) - (k - 1) + i = n - k + i
      BY <1>0
    <3> QED
      BY <1>0, <2>1, <3>1
  <2>3. IsTop(p, a, n - 1)
    BY <1>0, <2>1, <2>2 DEF IsTop
  <2>4. o[k] = a[n]
    <3>1. k \in 1..k /\ n - k + k = n
      BY <1>0, <2>1
    <3> QED
      BY <1>0, <3>1
  <2> QED
    BY <1>2, <2>3, <2>4 DEF k, p
<1> QED
  BY <1>1, <1>2

OpenIsTop == \A u \in Users : IsTop(open[u], stacks[u].stack, stacks[u].len)

LEMMA NothingOpenIsTop ==
  ASSUME StackTypeOK, open = NothingOpen
  PROVE  OpenIsTop
<1> SUFFICES ASSUME NEW u \in Users PROVE IsTop(open[u], stacks[u].stack, stacks[u].len)
  BY DEF OpenIsTop
<1>1. open[u] = <<>> /\ Len(open[u]) = 0 /\ stacks[u].len \in Nat
  BY EmptySeq, SlotTypes, StateAssertAssumption DEF NothingOpen
<1> QED
  BY <1>1 DEF IsTop

LEMMA NextOpenIsTop == StackTypeOK /\ OpenIsTop /\ [Next]_vars => OpenIsTop'
<1> SUFFICES ASSUME StackTypeOK, OpenIsTop, [Next]_vars PROVE OpenIsTop'
  OBVIOUS
<1>0. StackTypeOK'
  BY NextStackType
<1>1. CASE stacks' = stacks /\ open' = open
  BY <1>1 DEF OpenIsTop
<1>2. CASE open' = NothingOpen
  <2>1. ASSUME NEW u \in Users
        PROVE  open'[u] = <<>> /\ Len(open'[u]) = 0 /\ stacks'[u].len \in Nat
    BY <1>0, <1>2, EmptySeq, StateAssertAssumption DEF NothingOpen, StackTypeOK, StackType
  <2> QED
    BY <2>1 DEF OpenIsTop, IsTop
<1>3. ASSUME NEW u \in Users, SetupStack(u) PROVE OpenIsTop'
  <2>1. open' = open /\ \A v \in Users : /\ stacks'[v].stack = stacks[v].stack
                                         /\ stacks'[v].len = stacks[v].len
    BY <1>3 DEF SetupStack, StackTypeOK, StackType
  <2> QED
    BY <2>1 DEF OpenIsTop
<1>4. ASSUME NEW u \in Users, NEW t \in Targets, NEW offset \in Offsets, NEW check \in Checks,
             PushStateAssert(u, t, offset, check)
      PROVE  OpenIsTop'
  <2> DEFINE sa == Pushed(t, offset, check)
  <2>1. /\ Push(u, sa)
        /\ open' = [open EXCEPT ![u] = Append(@, sa)]
        /\ sa \in StateAssertType
    BY <1>4, PushedType DEF PushStateAssert, Pushed
  <2> HIDE DEF sa
  <2>2. /\ stacks'[u].stack = [stacks[u].stack EXCEPT ![stacks[u].len + 1] = sa]
        /\ stacks'[u].len = stacks[u].len + 1
        /\ \A v \in Users : v # u => stacks'[v] = stacks[v]
    BY <2>1, PushKeepsType
  <2>3. /\ open'[u] = Append(open[u], sa)
        /\ \A v \in Users : v # u => open'[v] = open[v]
    BY <2>1 DEF StackTypeOK
  <2>4. IsTop(open'[u], stacks'[u].stack, stacks'[u].len)
    <3>1. /\ stacks[u].stack \in [1..MaxStackSize -> StateAssertType]
          /\ stacks[u].len \in 0..MaxStackSize /\ stacks[u].len < MaxStackSize
          /\ MaxStackSize \in Nat /\ open[u] \in Seq(StateAssertType)
          /\ IsTop(open[u], stacks[u].stack, stacks[u].len)
      BY <2>1, SlotTypes, StateAssertAssumption DEF Push, OpenIsTop
    <3>2. IsTop(Append(open[u], sa), [stacks[u].stack EXCEPT ![stacks[u].len + 1] = sa],
                stacks[u].len + 1)
      BY <2>1, <3>1, PushKeepsTop
    <3> QED
      BY <2>2, <2>3, <3>2
  <2> QED
    BY <2>2, <2>3, <2>4 DEF OpenIsTop
<1>5. ASSUME NEW u \in Users, NEW t \in Targets, PopStateAssert(u, t) PROVE OpenIsTop'
  <2>1. /\ stacks[u].len \in 1..MaxStackSize
        /\ stacks'[u].stack = stacks[u].stack
        /\ stacks'[u].len = stacks[u].len - 1
        /\ \A v \in Users : v # u => stacks'[v] = stacks[v]
    BY <1>5, PopKeepsType DEF PopStateAssert
  <2>2. /\ open'[u] = IF open[u] = <<>> THEN open[u]
                      ELSE SubSeq(open[u], 1, Len(open[u]) - 1)
        /\ \A v \in Users : v # u => open'[v] = open[v]
    BY <1>5 DEF PopStateAssert, StackTypeOK
  <2>3. IsTop(open'[u], stacks'[u].stack, stacks'[u].len)
    <3>1. /\ stacks[u].len \in Nat \ {0} /\ open[u] \in Seq(StateAssertType)
          /\ IsTop(open[u], stacks[u].stack, stacks[u].len)
      BY <2>1, SlotTypes, StateAssertAssumption DEF OpenIsTop
    <3>2. IsTop(IF open[u] = <<>> THEN open[u] ELSE SubSeq(open[u], 1, Len(open[u]) - 1),
                stacks[u].stack, stacks[u].len - 1)
      BY <3>1, PopKeepsTop
    <3> QED
      BY <2>1, <2>2, <3>2
  <2> QED
    BY <2>1, <2>2, <2>3 DEF OpenIsTop
<1> QED
  BY <1>1, <1>2, <1>3, <1>4, <1>5
  DEF Next, vars, Begin, Commit, Abort, OtherInstruction

LEMMA StackInvariant == Spec => [](StackTypeOK /\ OpenIsTop)
<1>1. Init => StackTypeOK /\ OpenIsTop
  BY InitStackType, NothingOpenIsTop DEF Init
<1>2. StackTypeOK /\ OpenIsTop /\ [Next]_vars => (StackTypeOK /\ OpenIsTop)'
  BY NextStackType, NextOpenIsTop
<1> QED
  BY <1>1, <1>2, PTL DEF Spec

-----------------------------------------------------------------------------
(* What a pop has checked. *)

LEMMA ComparedHolds ==
  ASSUME NEW sa \in StateAssertType, NEW current \in Nat,
         DirectionKept(sa, current), Compared(sa, current)
  PROVE  Guard!Holds(sa, current)
BY DEF StateAssertType, ComparisonMethods, DirectionKept, Compared, AbsDiff,
       Guard!Holds, Guard!Distance

LEMMA PopChecks ==
  ASSUME StackTypeOK, NEW u \in Users, NEW t \in Targets, PopStateAssert(u, t)
  PROVE  /\ Popped(u) \in StateAssertType
         /\ Popped(u).target_account = t
         /\ Guard!HasValue(data[t], Popped(u).data_offset)
         /\ Guard!Holds(Popped(u), Guard!ValueAt(data[t], Popped(u).data_offset))
<1>1. Popped(u) \in StateAssertType
  BY PopKeepsType, SlotTypes DEF PopStateAssert, Popped
<1>2. /\ t = Popped(u).target_account /\ InBounds(t, Popped(u).data_offset)
      /\ DirectionKept(Popped(u), Read(t, Popped(u).data_offset))
      /\ Compared(Popped(u), Read(t, Popped(u).data_offset))
  BY DEF PopStateAssert
<1>3. Popped(u).data_offset \in Nat
  BY <1>1 DEF StateAssertType
<1>4. Read(t, Popped(u).data_offset) \in Nat
  BY <1>2, <1>3, ReadType
<1>5. Guard!Holds(Popped(u), Read(t, Popped(u).data_offset))
  BY <1>1, <1>2, <1>4, ComparedHolds
<1> QED
  BY <1>1, <1>2, <1>5 DEF InBounds, Read, Guard!HasValue, Guard!ValueAt

OwnChecked ==
  \A u \in Users :
    running' /\ Len(open'[u]) < Len(open[u])
      => LET own == open[u][Len(open[u])]
         IN  /\ Guard!HasValue(data[own.target_account], own.data_offset)
             /\ Guard!Holds(own, Guard!ValueAt(data[own.target_account], own.data_offset))

LEMMA OwnCheckedStep ==
  ASSUME StackTypeOK, OpenIsTop, [Next]_vars PROVE OwnChecked
<1> SUFFICES ASSUME NEW u \in Users, running', Len(open'[u]) < Len(open[u])
    PROVE LET own == open[u][Len(open[u])]
          IN  /\ Guard!HasValue(data[own.target_account], own.data_offset)
              /\ Guard!Holds(own, Guard!ValueAt(data[own.target_account], own.data_offset))
  BY DEF OwnChecked
<1>0. open[u] \in Seq(StateAssertType) /\ Len(open[u]) \in Nat
  BY SlotTypes, LenProperties
<1>1. open'[u] # open[u]
  BY <1>0
<1>2. ASSUME NEW v \in Users, NEW t \in Targets, NEW offset \in Offsets, NEW check \in Checks,
             PushStateAssert(v, t, offset, check)
      PROVE  FALSE
  <2>1. Pushed(t, offset, check) \in StateAssertType
        /\ open' = [open EXCEPT ![v] = Append(@, Pushed(t, offset, check))]
    BY <1>2, PushedType DEF PushStateAssert, Pushed
  <2>2. open'[u] = Append(open[u], Pushed(t, offset, check))
    BY <1>1, <2>1 DEF StackTypeOK
  <2>3. Len(Append(open[u], Pushed(t, offset, check))) = Len(open[u]) + 1
    BY <1>0, <2>1, AppendProperties
  <2> QED
    BY <1>0, <2>2, <2>3
<1>3. PICK t \in Targets : PopStateAssert(u, t) /\ open[u] # <<>>
  <2>1. \E v \in Users, t \in Targets : PopStateAssert(v, t)
    BY <1>1, <1>2 DEF Next, vars, Begin, Commit, Abort, OtherInstruction, SetupStack
  <2>2. PICK v \in Users, t \in Targets : PopStateAssert(v, t)
    BY <2>1
  <2>3. v = u /\ open[u] # <<>>
    BY <1>1, <2>2 DEF PopStateAssert, StackTypeOK
  <2> QED
    BY <2>2, <2>3
<1>4. open[u][Len(open[u])] = Popped(u)
  <2> DEFINE o == open[u]
  <2> DEFINE a == stacks[u].stack
  <2> DEFINE n == stacks[u].len
  <2>1. n \in Nat \ {0} /\ o \in Seq(StateAssertType) /\ IsTop(o, a, n)
    BY <1>0, <1>3, PopKeepsType, StateAssertAssumption DEF PopStateAssert, OpenIsTop
  <2> HIDE DEF o, a, n
  <2>2. o # <<>> => o[Len(o)] = a[n]
    BY <2>1, PopKeepsTop
  <2> QED
    BY <1>3, <2>2 DEF Popped, o, a, n
<1> QED
  BY <1>3, <1>4, PopChecks

(* Each pop of what the same transaction pushed is judged against the value   *)
(* that push read, whatever earlier transactions left on the stack            *)
(* (push_state_assert, pop_state_assert).                                     *)
THEOREM OwnChangesAlwaysChecked == Spec => OwnChangesChecked
<1>1. StackTypeOK /\ OpenIsTop /\ [Next]_vars => [OwnChecked]_vars
  BY OwnCheckedStep
<1> QED
  BY <1>1, StackInvariant, PTL DEF Spec, OwnChangesChecked, OwnChecked

-----------------------------------------------------------------------------
(* The refinement. *)

LEMMA InitGuard == Init => Guard!Init
<1> SUFFICES ASSUME Init PROVE Guard!Init
  OBVIOUS
<1>1. Live(stacks) = [u \in Users |-> <<>>]
  <2>1. ASSUME NEW u \in Users PROVE Live(stacks)[u] = <<>>
    <3> DEFINE a == stacks[u].stack
    <3>1. /\ a \in Array(MaxStackSize, StateAssertType)
          /\ stacks[u].len = 0 /\ MaxStackSize \in Nat
      BY InitStackType, SlotTypes, StateAssertAssumption DEF Init, Array
    <3>2. 0 \in 0..MaxStackSize
      BY <3>1
    <3> HIDE DEF a
    <3>3. /\ LiveOf(a, 0) \in Seq(StateAssertType)
          /\ Len(LiveOf(a, 0)) = 0
          /\ \A i \in 1..0 : LiveOf(a, 0)[i] = a[i]
      BY <3>1, <3>2, LiveIsSequence
    <3>4. LiveOf(a, 0) = <<>>
      BY <3>3, EmptySeq
    <3> QED
      BY <3>1, <3>4 DEF Live, LiveOf, a
  <2> QED
    BY <2>1 DEF Live
<1> QED
  BY <1>1 DEF Init, Guard!Init

LEMMA PushStates ==
  ASSUME StackTypeOK, NEW u \in Users, NEW t \in Targets, NEW offset \in Offsets,
         NEW check \in Checks, PushStateAssert(u, t, offset, check)
  PROVE  Guard!Next
<1> DEFINE sa == Pushed(t, offset, check)
<1>1. /\ Push(u, sa) /\ sa \in StateAssertType
      /\ running /\ InBounds(t, offset) /\ UNCHANGED <<data, running, before>>
  BY PushedType DEF PushStateAssert, Pushed
<1>2. sa = Guard!Statement(t, offset, Guard!ValueAt(data[t], offset), check)
  BY DEF Pushed, Read, Guard!Statement, Guard!ValueAt
<1> HIDE DEF sa
<1>3. /\ stacks'[u].stack = [stacks[u].stack EXCEPT ![stacks[u].len + 1] = sa]
      /\ stacks'[u].len = stacks[u].len + 1
      /\ \A v \in Users : v # u => stacks'[v] = stacks[v]
  BY <1>1, PushKeepsType
<1>4. LiveOf(stacks'[u].stack, stacks'[u].len) = Append(LiveOf(stacks[u].stack, stacks[u].len), sa)
  <2> DEFINE a == stacks[u].stack
  <2> DEFINE n == stacks[u].len
  <2>1. /\ a \in Array(MaxStackSize, StateAssertType) /\ MaxStackSize \in Nat
        /\ n \in 0..MaxStackSize /\ n < MaxStackSize
        /\ sa \in StateAssertType
    BY <1>1, SlotTypes, StateAssertAssumption DEF Push, Array
  <2> DEFINE b == stacks'[u].stack
  <2>2. b = [a EXCEPT ![n + 1] = sa]
    BY <1>3
  <2> HIDE DEF a, n, b
  <2>3. b \in Array(MaxStackSize, StateAssertType) /\ b[n + 1] = sa
          /\ \A i \in 1..n : b[i] = a[i]
    BY <2>1, <2>2 DEF Array
  <2>4. LiveOf(b, n + 1) = Append(LiveOf(a, n), sa)
    BY <2>1, <2>3, PushAppends
  <2> QED
    BY <1>3, <2>4 DEF a, n, b
<1>5. Live(stacks') = [Live(stacks) EXCEPT ![u] = Append(@, sa)]
  BY <1>3, <1>4 DEF Live, LiveOf
<1>6. offset \in 0..Len(data[t]) /\ Guard!HasValue(data[t], offset)
  <2>1. Len(data[t]) \in Nat /\ offset \in Nat
    BY StateAssertAssumption, LenProperties DEF StackTypeOK
  <2> QED
    BY <1>1, <2>1 DEF InBounds, Guard!HasValue
<1>7. Guard!State(u, t, offset, check)
  BY <1>1, <1>2, <1>5, <1>6 DEF Guard!State
<1> QED
  BY <1>6, <1>7 DEF Guard!Next

LEMMA PopTakesBack ==
  ASSUME StackTypeOK, NEW u \in Users, NEW t \in Targets, PopStateAssert(u, t)
  PROVE  Guard!Next
<1>1. /\ stacks[u].len \in 1..MaxStackSize
      /\ stacks'[u].stack = stacks[u].stack
      /\ stacks'[u].len = stacks[u].len - 1
      /\ \A v \in Users : v # u => stacks'[v] = stacks[v]
  BY PopKeepsType DEF PopStateAssert
<1> DEFINE live == LiveOf(stacks[u].stack, stacks[u].len)
<1>2. /\ live # <<>>
      /\ live[Len(live)] = Popped(u)
      /\ LiveOf(stacks[u].stack, stacks[u].len - 1) = SubSeq(live, 1, Len(live) - 1)
  <2> DEFINE a == stacks[u].stack
  <2> DEFINE n == stacks[u].len
  <2>1. /\ a \in Array(MaxStackSize, StateAssertType) /\ MaxStackSize \in Nat
        /\ n \in 1..MaxStackSize
    BY <1>1, SlotTypes, StateAssertAssumption DEF Array
  <2> HIDE DEF a, n
  <2>2. /\ LiveOf(a, n) # <<>>
        /\ Len(LiveOf(a, n)) = n
        /\ LiveOf(a, n)[n] = a[n]
        /\ LiveOf(a, n - 1) = SubSeq(LiveOf(a, n), 1, Len(LiveOf(a, n)) - 1)
    BY <2>1, PopTakesLast
  <2> QED
    BY <2>2 DEF Popped, a, n
<1>3. Live(stacks)[u] = live
  BY DEF Live, LiveOf
<1>4. Live(stacks') = [Live(stacks) EXCEPT ![u] = SubSeq(@, 1, Len(@) - 1)]
  <2>1. LiveOf(stacks'[u].stack, stacks'[u].len) = SubSeq(live, 1, Len(live) - 1)
    BY <1>1, <1>2
  <2> HIDE DEF live
  <2> QED
    BY <1>1, <1>3, <2>1 DEF Live, LiveOf
<1> HIDE DEF live
<1>5. Guard!Last(u) = Popped(u)
  BY <1>2, <1>3 DEF Guard!Last
<1>6. Guard!TakeBack(u)
  BY <1>2, <1>3, <1>4, <1>5, PopChecks DEF PopStateAssert, Guard!TakeBack
<1> QED
  BY <1>6 DEF Guard!Next

LEMMA NextGuard ==
  ASSUME StackTypeOK, [Next]_vars PROVE Guard!Next \/ UNCHANGED Guard!guardVars
<1>1. CASE Begin
  BY <1>1 DEF Begin, Guard!Begin, Guard!Next
<1>2. CASE Commit
  BY <1>2 DEF Commit, Guard!Commit, Guard!Next
<1>3. CASE Abort
  BY <1>3 DEF Abort, Guard!Abort, Guard!Next
<1>4. ASSUME NEW t \in Targets, NEW content \in Contents, OtherInstruction(t, content)
      PROVE  Guard!Next
  BY <1>4 DEF OtherInstruction, Guard!Change, Guard!Next
<1>5. ASSUME NEW u \in Users, SetupStack(u) PROVE UNCHANGED Guard!guardVars
  <2>1. \A v \in Users : stacks'[v].stack = stacks[v].stack /\ stacks'[v].len = stacks[v].len
    BY <1>5 DEF SetupStack, StackTypeOK, StackType
  <2>2. Live(stacks') = Live(stacks)
    BY <2>1 DEF Live
  <2> QED
    BY <1>5, <2>2 DEF SetupStack, Guard!guardVars
<1>6. CASE UNCHANGED vars
  BY <1>6 DEF vars, Guard!guardVars
<1> QED
  BY <1>1, <1>2, <1>3, <1>4, <1>5, <1>6, PushStates, PopTakesBack DEF Next

(* The array implements the stack of statements: what a slot held before it   *)
(* was popped is never seen again, a failed transaction is forgotten, and a   *)
(* statement leaves only when it holds (StateAssertStack, pop_state_assert).  *)
THEOREM StackImplemented == Spec => GuardSpec
<1>1. StackTypeOK /\ [Next]_vars => [Guard!Next]_(Guard!guardVars)
  BY NextGuard
<1> QED
  BY <1>1, InitGuard, StackTypeCorrect, PTL DEF Spec, GuardSpec, Guard!Spec

=============================================================================
