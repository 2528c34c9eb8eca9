------------------------------ MODULE AssertStack ------------------------------
(***************************************************************************)
(* What the state-assert program promises: a user states, before a change,  *)
(* how a value may change, and takes the statement back after it.  The last *)
(* one stated is the first taken back, and it is taken back only if the     *)
(* value has changed as stated.  A transaction takes effect as a whole or   *)
(* not at all.                                                              *)
(***************************************************************************)
EXTENDS Integers, Sequences

CONSTANTS
  Users,
  Targets,   \* accounts whose data is watched
  Contents,  \* the data an account may have: the u64 at each offset
  Checks     \* how a change is judged: direction, comparison, amount

VARIABLES
  data,     \* data of each account
  pending,  \* the statements of each user, the last one last
  running,  \* whether a transaction is running
  before    \* data and pending when it began

guardVars == <<data, pending, running, before>>

Statement(t, offset, value, check) ==
  [target_account |-> t, data_offset |-> offset, initial_value |-> value,
   compare_to |-> check.compare_to, comparison_method |-> check.comparison_method,
   direction |-> check.direction]

HasValue(content, offset) == offset < Len(content)
ValueAt(content, offset)  == content[offset + 1]

Distance(x, y) == IF x > y THEN x - y ELSE y - x

(* The value now is one the statement allows. *)
Holds(statement, value) ==
  LET distance == Distance(value, statement.initial_value)
      method   == statement.comparison_method
  IN  /\ statement.direction = "Increase" => value >= statement.initial_value
      /\ statement.direction = "Decrease" => value <= statement.initial_value
      /\ method = "GT"  => distance > statement.compare_to
      /\ method = "LT"  => distance < statement.compare_to
      /\ method = "GTE" => distance >= statement.compare_to
      /\ method = "LTE" => distance <= statement.compare_to
      /\ method = "EQ"  => distance = statement.compare_to

-----------------------------------------------------------------------------

Init ==
  /\ data \in [Targets -> Contents]
  /\ pending = [u \in Users |-> <<>>]
  /\ running = FALSE
  /\ before = [data |-> data, pending |-> pending]

Begin ==
  /\ ~running
  /\ running' = TRUE
  /\ before' = [data |-> data, pending |-> pending]
  /\ UNCHANGED <<data, pending>>

State(u, t, offset, check) ==
  /\ running
  /\ HasValue(data[t], offset)
  /\ pending' = [pending EXCEPT ![u] =
                   Append(@, Statement(t, offset, ValueAt(data[t], offset), check))]
  /\ UNCHANGED <<data, running, before>>

Last(u) == pending[u][Len(pending[u])]

TakeBack(u) ==
  /\ running
  /\ pending[u] # <<>>
  /\ HasValue(data[Last(u).target_account], Last(u).data_offset)
  /\ Holds(Last(u), ValueAt(data[Last(u).target_account], Last(u).data_offset))
  /\ pending' = [pending EXCEPT ![u] = SubSeq(@, 1, Len(@) - 1)]
  /\ UNCHANGED <<data, running, before>>

Change(t, content) ==
  /\ running
  /\ data' = [data EXCEPT ![t] = content]
  /\ UNCHANGED <<pending, running, before>>

Commit ==
  /\ running
  /\ running' = FALSE
  /\ UNCHANGED <<data, pending, before>>

Abort ==
  /\ running
  /\ running' = FALSE
  /\ data' = before.data
  /\ pending' = before.pending
  /\ UNCHANGED before

Next ==
  \/ Begin
  \/ \E u \in Users, t \in Targets, check \in Checks :
       \E offset \in 0..Len(data[t]) : State(u, t, offset, check)
  \/ \E u \in Users : TakeBack(u)
  \/ \E t \in Targets, content \in Contents : Change(t, content)
  \/ Commit
  \/ Abort

Spec == Init /\ [][Next]_guardVars

=============================================================================
