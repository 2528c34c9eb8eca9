------------------------------ MODULE RateLimiter ------------------------------
(***************************************************************************)
(* The two rate limits of a share mover over time: amounts pass, the        *)
(* administrator changes the settings of both at once (set_rate_limit), and *)
(* the clock goes on.  History variables remember what passed and when, to  *)
(* compare it with what a limit per window promises.                        *)
(***************************************************************************)
EXTENDS RateLimit

CONSTANTS
  Directions,  \* outbound and inbound
  Amounts,     \* amounts that are sent or received
  Settings,    \* for each direction a limit and a window
  MaxTime      \* bound on the clock

VARIABLES
  limiter,     \* RateLimitState of each direction
  now,         \* Clock::unix_timestamp
  passed,      \* amount that passed each limiter, since it was on, before each second
  calls,       \* number of calls that passed it before each second
  ceiling,     \* largest limit each direction has had
  shortest,    \* shortest window each direction has had under a limit
  changed      \* time of the last change of settings

history == <<passed, calls, ceiling, shortest, changed>>
vars    == <<limiter, now, history>>

Times   == 0..MaxTime
Horizon == 0..(MaxTime + 1)  \* the seconds and the end of the last one

ASSUME LimiterAssumption ==
  /\ MaxU64 \in Nat
  /\ MaxTime \in Nat
  /\ Amounts \subseteq 0..MaxU64
  /\ Settings \subseteq [Directions -> (0..MaxU64) \X (0..MaxU64)]

Forgotten == [t \in Horizon |-> 0]

(* A running total with n more from second now on: before any later second. *)
AddedNow(total, n) == [t \in Horizon |-> IF t > now THEN total[t] + n ELSE total[t]]

SettingsAllowed(s) == \A d \in Directions : NewAllowed(s[d][1], s[d][2])

(* The share mover is deployed with settings for both directions. *)
Init ==
  /\ now = 0
  /\ \E s \in Settings :
       /\ SettingsAllowed(s)
       /\ limiter = [d \in Directions |-> NewLimit(s[d][1], s[d][2], now)]
       /\ ceiling = [d \in Directions |-> s[d][1]]
       /\ shortest = [d \in Directions |-> IF s[d][1] = 0 THEN MaxU64 ELSE s[d][2]]
  /\ passed = [d \in Directions |-> Forgotten]
  /\ calls = [d \in Directions |-> Forgotten]
  /\ changed = 0

Pass(d, amount) ==
  /\ Passes(limiter[d], amount, now)
  /\ limiter' = [limiter EXCEPT ![d] = Consume(@, amount, now)]
  /\ IF limiter[d].limit = 0
     THEN UNCHANGED <<passed, calls>>
     ELSE /\ passed' = [passed EXCEPT ![d] = AddedNow(@, amount)]
          /\ calls' = [calls EXCEPT ![d] = AddedNow(@, 1)]
  /\ UNCHANGED <<now, ceiling, shortest, changed>>

(* A variant that starts with nothing in flight. *)
SettingsForget(s) ==
  [d \in Directions |-> NewLimit(s[d][1], s[d][2], now)]

SettingsApplied(s) ==
  [d \in Directions |-> CarriedOver(limiter[d], s[d][1], s[d][2], now)]

(* Both directions change or neither: an overflow in the decay of one of them *)
(* fails the whole instruction.  A limiter that is switched off promises      *)
(* nothing, so the history of what passed it begins anew.                     *)
SetRateLimit(s) ==
  /\ \A d \in Directions : Computable(limiter[d], now)
  /\ SettingsAllowed(s)
  /\ limiter' = SettingsApplied(s)
  /\ ceiling' = [d \in Directions |-> IF s[d][1] > ceiling[d] THEN s[d][1] ELSE ceiling[d]]
  /\ shortest' = [d \in Directions |->
       IF s[d][1] > 0 /\ s[d][2] < shortest[d] THEN s[d][2] ELSE shortest[d]]
  /\ passed' = [d \in Directions |-> IF s[d][1] = 0 THEN Forgotten ELSE passed[d]]
  /\ calls' = [d \in Directions |-> IF s[d][1] = 0 THEN Forgotten ELSE calls[d]]
  /\ changed' = now
  /\ UNCHANGED now

Tick ==
  /\ now < MaxTime
  /\ now' = now + 1
  /\ UNCHANGED <<limiter, history>>

Next ==
  \/ \E d \in Directions, n \in Amounts : Pass(d, n)
  \/ \E s \in Settings : SetRateLimit(s)
  \/ Tick

Spec == Init /\ [][Next]_vars

-----------------------------------------------------------------------------
(* Properties. *)

TypeOK ==
  /\ limiter \in [Directions -> RateLimitState]
  /\ now \in Times
  /\ passed \in [Directions -> [Horizon -> Nat]]
  /\ calls \in [Directions -> [Horizon -> Nat]]
  /\ ceiling \in [Directions -> Nat]
  /\ shortest \in [Directions -> Nat]
  /\ changed \in Times

(* The w-th second after t, or the end of time. *)
Later(t, w) == IF t + w > MaxTime + 1 THEN MaxTime + 1 ELSE t + w

(* What passed in direction d in the w seconds from t on. *)
PassedFrom(d, t, w) == passed[d][Later(t, w)] - passed[d][t]

(* What a running total counts in the window that ends with this second. *)
InLastWindow(d, total) == total[now + 1] - total[now + 1 - limiter[d].window]

(* In no interval as long as the shortest window does more than twice the     *)
(* largest limit pass, however calls and changes of the settings interleave:  *)
(* once what was left and once what decays meanwhile (check_and_consume,      *)
(* set_rate_limit).                                                           *)
TwiceTheLimitAtMost ==
  \A d \in Directions, t \in Times : PassedFrom(d, t, shortest[d]) <= 2 * ceiling[d]

(* While a limit has not been lowered and its settings are a window old, a    *)
(* limiter counts nothing that passed before the window, apart from at most   *)
(* one unit for each call in it, the truncated part of its decay: nobody is   *)
(* held up by what others sent long ago (calculate_available).                *)
OnlyTheWindowCounts ==
  \A d \in Directions :
    /\ limiter[d].limit > 0
    /\ limiter[d].limit = ceiling[d]
    /\ now - changed >= limiter[d].window
    => InFlight(limiter[d], now)
         <= InLastWindow(d, passed[d]) + InLastWindow(d, calls[d]) + 1

(* No more is in flight than the largest limit there has been, so adding an   *)
(* amount that passes never overflows (check_and_consume's checked_add).      *)
InFlightBounded ==
  \A d \in Directions : limiter[d].amount_in_flight <= ceiling[d]

(* What the fields of RateLimitState are documented to mean: the largest      *)
(* amount that passes within a window is the limit.                           *)
AtMostLimitPerWindow ==
  \A d \in Directions, t \in Times : PassedFrom(d, t, shortest[d]) <= ceiling[d]

=============================================================================
