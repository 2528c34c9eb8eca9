----------------------------- MODULE MCStateAssert -----------------------------
(***************************************************************************)
(* TLC instance: one user with a stack of two slots, one account whose      *)
(* value rises and falls and whose data may shrink, another that stays.     *)
(* Users never see each other's stacks, so one is enough.                   *)
(***************************************************************************)
EXTENDS StateAssert

CONSTANTS alice, vault, other, none

Check(direction, method, amount) ==
  [direction |-> direction, comparison_method |-> method, compare_to |-> amount]

MCContents == {<<0>>, <<2>>, <<>>}
MCChecks   == {Check("Decrease", "LT", 1), Check("Any", "EQ", 2), Check("Any", "Log", 0)}

StackInit == Init /\ data[other] = <<2>>

StackNext ==
  \/ Begin \/ Commit \/ Abort
  \/ \E content \in Contents : OtherInstruction(vault, content)
  \/ SetupStack(alice)
  \/ \E check \in Checks : PushStateAssert(alice, vault, 0, check)
  \/ PushStateAssert(alice, other, 0, Check("Any", "Log", 0))
  \/ \E t \in Targets : PopStateAssert(alice, t)

StackSpec == StackInit /\ [][StackNext]_vars

=============================================================================
