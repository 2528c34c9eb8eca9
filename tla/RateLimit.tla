------------------------------- MODULE RateLimit -------------------------------
(***************************************************************************)
(* The linear-decay rate limit of crates/common (rate_limit.rs): what a     *)
(* limiter counts as in flight at a time, how much it lets pass, and its    *)
(* state afterwards.  Operators only; ts is a Clock::unix_timestamp.        *)
(***************************************************************************)
EXTENDS Integers

CONSTANT MaxU64  \* largest value of a u64

RateLimitState == [amount_in_flight: Nat, last_updated: Nat, limit: Nat, window: Nat]

(* RateLimitState::new and the parameters it accepts. *)
NewAllowed(limit, window) == limit > 0 => window > 0

NewLimit(limit, window, ts) ==
  [amount_in_flight |-> 0, last_updated |-> ts, limit |-> limit, window |-> window]

(* A variant that may go below zero. *)
PlainSub(m, n) == m - n

SaturatingSub(m, n) == IF m > n THEN m - n ELSE 0

-----------------------------------------------------------------------------
(* calculate_available *)

(* `as u64`: a negative i64 wraps round. *)
AsU64(i) == IF i >= 0 THEN i ELSE i % (MaxU64 + 1)

Elapsed(rl, ts)    == AsU64(ts - rl.last_updated)
WindowOver(rl, ts) == Elapsed(rl, ts) >= rl.window

(* limit * elapsed is a checked u64 product; without a window or once it is   *)
(* over nothing is multiplied.                                                *)
Computable(rl, ts) == WindowOver(rl, ts) \/ rl.limit * Elapsed(rl, ts) <= MaxU64

(* A variant in which nothing decays before the window is over. *)
NoDecay(rl, ts) == 0

Decay(rl, ts) == (rl.limit * Elapsed(rl, ts)) \div rl.window

InFlight(rl, ts) ==
  IF WindowOver(rl, ts) THEN 0 ELSE SaturatingSub(rl.amount_in_flight, Decay(rl, ts))

(* A variant that compares with the limit alone. *)
AvailableAnew(rl, ts) == IF rl.window = 0 THEN MaxU64 ELSE rl.limit

Available(rl, ts) ==
  IF rl.window = 0 THEN MaxU64 ELSE SaturatingSub(rl.limit, InFlight(rl, ts))

-----------------------------------------------------------------------------
(* check_and_consume: a limit of zero switches the limiter off.               *)

Passes(rl, amount, ts) ==
  /\ amount > 0
  /\ ts >= rl.last_updated
  /\ rl.limit > 0 => /\ Computable(rl, ts)
                     /\ amount <= Available(rl, ts)
                     /\ InFlight(rl, ts) + amount <= MaxU64

Consume(rl, amount, ts) ==
  IF rl.limit = 0 THEN rl
  ELSE [rl EXCEPT !.amount_in_flight = InFlight(rl, ts) + amount, !.last_updated = ts]

(* New settings with what is in flight carried over (set_rate_limit). *)
CarriedOver(rl, limit, window, ts) ==
  [NewLimit(limit, window, ts) EXCEPT !.amount_in_flight = InFlight(rl, ts)]

=============================================================================
