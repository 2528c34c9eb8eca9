----------------------------- MODULE MCRateLimiter -----------------------------
(***************************************************************************)
(* TLC instance: an outbound limit that is raised, lowered and switched     *)
(* off, under a window that changes with it; the inbound limiter stays at   *)
(* one setting, whose decay overflows for a while after each use.           *)
(***************************************************************************)
EXTENDS RateLimiter

CONSTANTS out, in

MCDirections == {out, in}
MCSetting(limit, window) == [d \in MCDirections |-> IF d = out THEN <<limit, window>> ELSE <<10, 3>>]
MCSettings == {MCSetting(6, 4), MCSetting(2, 2), MCSetting(0, 0), MCSetting(0, 3), MCSetting(1, 0)}

(* Inbound the whole limit arrives at once, so one amount is enough. *)
LimiterNext ==
  \/ \E n \in Amounts : Pass(out, n)
  \/ Pass(in, 10)
  \/ \E s \in Settings : SetRateLimit(s)
  \/ Tick

LimiterSpec == Init /\ [][LimiterNext]_vars

=============================================================================
