------------------------------ MODULE StateAssert ------------------------------
(***************************************************************************)
(* The state-assert program: a stack of expectations for each user, kept in *)
(* an array of fixed size whose slots are not cleared.  Its instructions    *)
(* bracket those of other programs in a transaction, or in several: a       *)
(* transaction may leave expectations behind, and a later one finds them.   *)
(*                                                                          *)
(* Transactions that touch the same accounts are run one after another, so  *)
(* one runs at a time here; an instruction that fails undoes all of them.   *)
(***************************************************************************)
EXTENDS Integers, Sequences

CONSTANTS
  Users,
  Targets,      \* the accounts whose data is watched
  NoTarget,     \* the target in a slot never written
  Contents,     \* the data of an account, as the u64 at each offset
  Offsets,      \* offsets that users ask for
  Checks,       \* how they want the change judged
  MaxStackSize  \* 16

Directions == {"Increase", "Decrease", "Any"}
ComparisonMethods == {"Log", "GT", "LT", "GTE", "LTE", "EQ"}

CheckType == [direction: Directions, comparison_method: ComparisonMethods,
              compare_to: Nat]

ASSUME StateAssertAssumption ==
  /\ NoTarget \notin Targets
  /\ Contents \subseteq Seq(Nat)
  /\ Offsets \subseteq Nat
  /\ Checks \subseteq CheckType
  /\ MaxStackSize \in Nat \ {0}

VARIABLES
  data,     \* data of each account
  stacks,   \* the StateAssertStack of each user
  running,  \* whether a transaction is running
  before,   \* data and stacks when it began
  open      \* history: what each user pushed in this transaction and not popped

vars == <<data, stacks, running, before, open>>

StateAssertType ==
  [target_account: Targets \cup {NoTarget}, data_offset: Nat, initial_value: Nat,
   compare_to: Nat, comparison_method: ComparisonMethods, direction: Directions]

StackType == [setup: BOOLEAN, stack: [1..MaxStackSize -> StateAssertType],
              len: 0..MaxStackSize]

(* A new account is all zeros. *)
Zeroed == [target_account |-> NoTarget, data_offset |-> 0, initial_value |-> 0,
           compare_to |-> 0, comparison_method |-> "Log", direction |-> "Increase"]

NothingOpen == [u \in Users |-> <<>>]

Init ==
  /\ data \in [Targets -> Contents]
  /\ stacks = [u \in Users |->
       [setup |-> FALSE, stack |-> [i \in 1..MaxStackSize |-> Zeroed], len |-> 0]]
  /\ running = FALSE
  /\ before = [data |-> data, stacks |-> stacks]
  /\ open = NothingOpen

-----------------------------------------------------------------------------
(* Transactions. *)

Begin ==
  /\ ~running
  /\ running' = TRUE
  /\ before' = [data |-> data, stacks |-> stacks]
  /\ UNCHANGED <<data, stacks, open>>

Commit ==
  /\ running
  /\ running' = FALSE
  /\ open' = NothingOpen
  /\ UNCHANGED <<data, stacks, before>>

(* Any instruction may fail. *)
Abort ==
  /\ running
  /\ running' = FALSE
  /\ data' = before.data
  /\ stacks' = before.stacks
  /\ open' = NothingOpen
  /\ UNCHANGED before

(* An instruction of another program; it may resize the data as well. *)
OtherInstruction(t, content) ==
  /\ running
  /\ data' = [data EXCEPT ![t] = content]
  /\ UNCHANGED <<stacks, running, before, open>>

-----------------------------------------------------------------------------
(* The instructions. *)

SetupStack(u) ==
  /\ running
  /\ ~stacks[u].setup
  /\ stacks' = [stacks EXCEPT ![u].setup = TRUE]
  /\ UNCHANGED <<data, running, before, open>>

InBounds(t, offset) == offset < Len(data[t])
Read(t, offset)     == data[t][offset + 1]

(* A variant that lets the stack grow past its array. *)
PushUnbounded(u, sa) ==
  stacks' = [stacks EXCEPT ![u].stack[stacks[u].len + 1] = sa,
                           ![u].len = @ + 1]

Push(u, sa) ==
  /\ stacks[u].len < MaxStackSize
  /\ stacks' = [stacks EXCEPT ![u].stack[stacks[u].len + 1] = sa,
                              ![u].len = @ + 1]

PushStateAssert(u, t, offset, check) ==
  /\ running
  /\ stacks[u].setup
  /\ InBounds(t, offset)
  /\ LET sa == [target_account |-> t, data_offset |-> offset,
                initial_value |-> Read(t, offset),
                compare_to |-> check.compare_to,
                comparison_method |-> check.comparison_method,
                direction |-> check.direction]
     IN  /\ Push(u, sa)
         /\ open' = [open EXCEPT ![u] = Append(@, sa)]
  /\ UNCHANGED <<data, running, before>>

(* A variant that takes the oldest expectation. *)
PoppedFirst(u) == stacks[u].stack[1]

Popped(u) == stacks[u].stack[stacks[u].len]

(* The slot keeps what it held. *)
Pop(u) ==
  /\ stacks[u].len > 0
  /\ stacks' = [stacks EXCEPT ![u].len = @ - 1]

AbsDiff(x, y) == IF x > y THEN x - y ELSE y - x

DirectionKept(sa, current) ==
  /\ sa.direction = "Increase" => current >= sa.initial_value
  /\ sa.direction = "Decrease" => current <= sa.initial_value

(* A variant that measures a fall as a wrapped difference. *)
ComparedOneWay(sa, current) ==
  LET difference == IF current > sa.initial_value THEN current - sa.initial_value ELSE 0
  IN  \/ sa.comparison_method = "Log"
      \/ sa.comparison_method = "GT"  /\ difference > sa.compare_to
      \/ sa.comparison_method = "LT"  /\ difference < sa.compare_to
      \/ sa.comparison_method = "GTE" /\ difference >= sa.compare_to
      \/ sa.comparison_method = "LTE" /\ difference <= sa.compare_to
      \/ sa.comparison_method = "EQ"  /\ difference = sa.compare_to

Compared(sa, current) ==
  LET difference == AbsDiff(current, sa.initial_value)
  IN  \/ sa.comparison_method = "Log"
      \/ sa.comparison_method = "GT"  /\ difference > sa.compare_to
      \/ sa.comparison_method = "LT"  /\ difference < sa.compare_to
      \/ sa.comparison_method = "GTE" /\ difference >= sa.compare_to
      \/ sa.comparison_method = "LTE" /\ difference <= sa.compare_to
      \/ sa.comparison_method = "EQ"  /\ difference = sa.compare_to

(* The caller names the target again; the offset is the one that was pushed. *)
PopStateAssert(u, t) ==
  /\ running
  /\ stacks[u].setup
  /\ Pop(u)
  /\ t = Popped(u).target_account
  /\ InBounds(t, Popped(u).data_offset)
  /\ LET current == Read(t, Popped(u).data_offset)
     IN  DirectionKept(Popped(u), current) /\ Compared(Popped(u), current)
  /\ open' = [open EXCEPT ![u] =
                IF @ = <<>> THEN @ ELSE SubSeq(@, 1, Len(@) - 1)]
  /\ UNCHANGED <<data, running, before>>

-----------------------------------------------------------------------------

Next ==
  \/ Begin
  \/ Commit
  \/ Abort
  \/ \E t \in Targets, content \in Contents : OtherInstruction(t, content)
  \/ \E u \in Users :
       \/ SetupStack(u)
       \/ \E t \in Targets, offset \in Offsets, check \in Checks :
            PushStateAssert(u, t, offset, check)
       \/ \E t \in Targets : PopStateAssert(u, t)

Spec == Init /\ [][Next]_vars

-----------------------------------------------------------------------------
(* Properties. *)

StackTypeOK ==
  /\ data \in [Targets -> Contents]
  /\ stacks \in [Users -> StackType]
  /\ running \in BOOLEAN
  /\ before \in [data: [Targets -> Contents], stacks: [Users -> StackType]]
  /\ open \in [Users -> Seq(StateAssertType)]

(* The live part of the array, lowest slot first. *)
Live(s) == [u \in Users |-> [i \in 1..s[u].len |-> s[u].stack[i]]]

Guard == INSTANCE AssertStack WITH
  pending <- Live(stacks),
  before  <- [data |-> before.data, pending |-> Live(before.stacks)]

(* The array is a stack of statements about the data: what a slot held before *)
(* it was popped is never seen again, what a failed transaction pushed or     *)
(* popped is forgotten, and a statement leaves the stack only when it holds   *)
(* (StateAssertStack::push and pop, pop_state_assert).                        *)
GuardSpec == Guard!Spec

(* A transaction that pops what it pushed has checked its own changes: each   *)
(* pop is judged against the value read by the matching push of the same      *)
(* transaction, whatever earlier transactions left on the stack.              *)
OwnChangesChecked ==
  [][\A u \in Users :
       running' /\ Len(open'[u]) < Len(open[u])
         => LET own == open[u][Len(open[u])]
            IN  /\ Guard!HasValue(data[own.target_account], own.data_offset)
                /\ Guard!Holds(own, Guard!ValueAt(data[own.target_account], own.data_offset))]_vars

=============================================================================
