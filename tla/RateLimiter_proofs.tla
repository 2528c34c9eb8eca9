-------------------------- MODULE RateLimiter_proofs --------------------------
(***************************************************************************)
(* The rate limiters for all settings, amounts and bounds: types, that      *)
(* never more is in flight than the largest limit so far, and what passes   *)
(* and what counts in a window.                                             *)
(***************************************************************************)
EXTENDS RateLimiter, TLAPS

LEMMA ElapsedType ==
  ASSUME NEW rl \in RateLimitState, NEW ts \in Nat
  PROVE  Elapsed(rl, ts) \in Nat
<1>1. rl.last_updated \in Nat /\ MaxU64 + 1 \in Nat \ {0}
  BY LimiterAssumption DEF RateLimitState
<1> DEFINE d == ts - rl.last_updated
<1>2. d \in Int
  BY <1>1
<1> HIDE DEF d
<1>3. d % (MaxU64 + 1) \in Nat
  BY <1>1, <1>2
<1>4. AsU64(d) \in Nat
  BY <1>2, <1>3 DEF AsU64
<1> QED
  BY <1>4 DEF Elapsed, d

(* Decay is only computed under a window, so it divides by no zero. *)
LEMMA InFlightType ==
  ASSUME NEW rl \in RateLimitState, NEW ts \in Nat
  PROVE  InFlight(rl, ts) \in Nat /\ InFlight(rl, ts) <= rl.amount_in_flight
<1>1. /\ rl.amount_in_flight \in Nat /\ rl.limit \in Nat /\ rl.window \in Nat
      /\ Elapsed(rl, ts) \in Nat
  BY ElapsedType DEF RateLimitState
<1>2. CASE WindowOver(rl, ts)
  BY <1>1, <1>2 DEF InFlight
<1>3. CASE ~WindowOver(rl, ts)
  <2>1. rl.window \in Nat \ {0}
    BY <1>1, <1>3 DEF WindowOver
  <2>2. rl.limit * Elapsed(rl, ts) \in Nat
    BY <1>1
  <2>3. Decay(rl, ts) \in Nat
    BY <2>1, <2>2 DEF Decay
  <2> QED
    BY <1>1, <1>3, <2>3 DEF InFlight, SaturatingSub
<1> QED
  BY <1>2, <1>3

(* What passes fits under the limit with what is in flight. *)
LEMMA ConsumeBounded ==
  ASSUME NEW rl \in RateLimitState, NEW ts \in Nat, NEW n \in Nat, NEW bound \in Nat,
         NewAllowed(rl.limit, rl.window), Passes(rl, n, ts),
         rl.amount_in_flight <= bound, rl.limit <= bound
  PROVE  /\ Consume(rl, n, ts) \in RateLimitState
         /\ Consume(rl, n, ts).amount_in_flight <= bound
         /\ Consume(rl, n, ts).limit = rl.limit
         /\ Consume(rl, n, ts).window = rl.window
<1>1. rl.limit \in Nat /\ rl.window \in Nat /\ rl.amount_in_flight \in Nat
  BY DEF RateLimitState
<1>2. InFlight(rl, ts) \in Nat
  BY InFlightType
<1>3. CASE rl.limit = 0
  BY <1>3 DEF Consume
<1>4. CASE rl.limit > 0
  <2> DEFINE counted == InFlight(rl, ts) + n
  <2>1. rl.window > 0
    BY <1>4 DEF NewAllowed
  <2>2. n > 0 /\ n <= SaturatingSub(rl.limit, InFlight(rl, ts))
    BY <1>1, <1>4, <2>1 DEF Passes, Available
  <2>3. counted \in Nat /\ counted <= rl.limit
    BY <1>1, <1>2, <2>2 DEF SaturatingSub
  <2>4. Consume(rl, n, ts) = [rl EXCEPT !.amount_in_flight = counted, !.last_updated = ts]
    BY <1>4 DEF Consume
  <2> HIDE DEF counted
  <2>5. counted <= bound
    BY <1>1, <2>3
  <2> QED
    BY <2>3, <2>4, <2>5 DEF RateLimitState
<1> QED
  BY <1>1, <1>3, <1>4

LEMMA CarriedOverBounded ==
  ASSUME NEW rl \in RateLimitState, NEW ts \in Nat, NEW limit \in Nat, NEW window \in Nat
  PROVE  /\ CarriedOver(rl, limit, window, ts) \in RateLimitState
         /\ CarriedOver(rl, limit, window, ts).amount_in_flight <= rl.amount_in_flight
         /\ CarriedOver(rl, limit, window, ts).limit = limit
         /\ CarriedOver(rl, limit, window, ts).window = window
BY InFlightType DEF CarriedOver, NewLimit, RateLimitState

-----------------------------------------------------------------------------

SettingsInForce ==
  \A d \in Directions :
    NewAllowed(limiter[d].limit, limiter[d].window) /\ limiter[d].limit <= ceiling[d]

LimiterInv == TypeOK /\ SettingsInForce /\ InFlightBounded

LEMMA SettingType ==
  ASSUME NEW s \in Settings, NEW d \in Directions
  PROVE  s[d][1] \in Nat /\ s[d][2] \in Nat /\ s[d][1] \in 0..MaxU64
BY LimiterAssumption

LEMMA AddedNowType ==
  ASSUME NEW total \in [Horizon -> Nat], NEW n \in Nat
  PROVE  AddedNow(total, n) \in [Horizon -> Nat]
BY DEF AddedNow

LEMMA InitLimiterInv == Init => LimiterInv
<1> SUFFICES ASSUME NEW s \in Settings, SettingsAllowed(s), now = 0,
                    limiter = [d \in Directions |-> NewLimit(s[d][1], s[d][2], now)],
                    ceiling = [d \in Directions |-> s[d][1]],
                    shortest = [d \in Directions |-> IF s[d][1] = 0 THEN MaxU64 ELSE s[d][2]],
                    passed = [d \in Directions |-> Forgotten],
                    calls = [d \in Directions |-> Forgotten], changed = 0
             PROVE  LimiterInv
  BY DEF Init
<1>1. \A d \in Directions : s[d][1] \in Nat /\ s[d][2] \in Nat
  BY SettingType
<1>2. now \in Times /\ changed \in Times /\ now \in Nat
  BY LimiterAssumption DEF Times
<1>3. \A d \in Directions : limiter[d] \in RateLimitState
  BY <1>1, <1>2 DEF NewLimit, RateLimitState
<1>4. TypeOK
  BY <1>1, <1>2, <1>3, LimiterAssumption DEF TypeOK, Forgotten
<1>5. SettingsInForce /\ InFlightBounded
  BY <1>1 DEF SettingsInForce, SettingsAllowed, InFlightBounded, NewLimit
<1> QED
  BY <1>4, <1>5 DEF LimiterInv

LEMMA NextLimiterInv == LimiterInv /\ [Next]_vars => LimiterInv'
<1> SUFFICES ASSUME LimiterInv, [Next]_vars PROVE LimiterInv'
  OBVIOUS
<1>0. now \in Nat /\ Amounts \subseteq Nat /\ limiter \in [Directions -> RateLimitState]
         /\ ceiling \in [Directions -> Nat]
  BY LimiterAssumption DEF LimiterInv, TypeOK, Times
<1>1. ASSUME NEW d \in Directions, NEW n \in Amounts, Pass(d, n) PROVE LimiterInv'
  <2> DEFINE rl == limiter[d]
             after == Consume(rl, n, now)
  <2>1. /\ rl \in RateLimitState /\ rl.amount_in_flight <= ceiling[d]
        /\ rl.limit <= ceiling[d] /\ NewAllowed(rl.limit, rl.window) /\ ceiling[d] \in Nat
    BY <1>0 DEF LimiterInv, SettingsInForce, InFlightBounded
  <2>2. Passes(rl, n, now) /\ limiter' = [limiter EXCEPT ![d] = after]
    BY <1>1 DEF Pass
  <2> HIDE DEF rl
  <2>3. /\ after \in RateLimitState /\ after.amount_in_flight <= ceiling[d]
        /\ after.limit = rl.limit /\ after.window = rl.window
    BY <1>0, <2>1, <2>2, ConsumeBounded
  <2> HIDE DEF after
  <2>4. ceiling' = ceiling
    BY <1>1 DEF Pass
  <2>5. limiter' \in [Directions -> RateLimitState]
    BY <1>0, <2>2, <2>3
  <2>6. SettingsInForce' /\ InFlightBounded'
    BY <1>0, <2>1, <2>2, <2>3, <2>4 DEF LimiterInv, SettingsInForce, InFlightBounded
  <2>7. passed' \in [Directions -> [Horizon -> Nat]] /\ calls' \in [Directions -> [Horizon -> Nat]]
    <3>1. /\ passed \in [Directions -> [Horizon -> Nat]] /\ calls \in [Directions -> [Horizon -> Nat]]
          /\ now \in Times /\ n \in Nat
      BY <1>0 DEF LimiterInv, TypeOK
    <3>2. AddedNow(passed[d], n) \in [Horizon -> Nat] /\ AddedNow(calls[d], 1) \in [Horizon -> Nat]
      BY <3>1, AddedNowType
    <3>3. CASE rl.limit = 0
      BY <1>1, <3>1, <3>3 DEF Pass, rl
    <3>4. CASE rl.limit # 0
      <4>1. /\ passed' = [passed EXCEPT ![d] = AddedNow(passed[d], n)]
            /\ calls' = [calls EXCEPT ![d] = AddedNow(calls[d], 1)]
        BY <1>1, <3>4 DEF Pass, rl
      <4> QED
        BY <3>1, <3>2, <4>1
    <3> QED
      BY <3>3, <3>4
  <2> QED
    BY <1>1, <2>5, <2>6, <2>7 DEF Pass, LimiterInv, TypeOK
<1>2. ASSUME NEW s \in Settings, SetRateLimit(s) PROVE LimiterInv'
  <2>1. \A d \in Directions :
          /\ s[d][1] \in Nat /\ s[d][2] \in Nat
          /\ limiter[d] \in RateLimitState /\ ceiling[d] \in Nat
          /\ limiter[d].amount_in_flight <= ceiling[d]
    BY <1>0, SettingType DEF LimiterInv, InFlightBounded
  <2>2. limiter' = [d \in Directions |-> CarriedOver(limiter[d], s[d][1], s[d][2], now)]
    BY <1>2 DEF SetRateLimit, SettingsApplied
  <2>3. \A d \in Directions :
          /\ limiter'[d] \in RateLimitState
          /\ limiter'[d].amount_in_flight <= limiter[d].amount_in_flight
          /\ limiter'[d].limit = s[d][1] /\ limiter'[d].window = s[d][2]
    <3> SUFFICES ASSUME NEW d \in Directions
                 PROVE  /\ limiter'[d] \in RateLimitState
                        /\ limiter'[d].amount_in_flight <= limiter[d].amount_in_flight
                        /\ limiter'[d].limit = s[d][1] /\ limiter'[d].window = s[d][2]
      OBVIOUS
    <3> DEFINE rl == limiter[d]
               limit == s[d][1]
               window == s[d][2]
    <3>1. rl \in RateLimitState /\ limit \in Nat /\ window \in Nat /\ now \in Nat
      BY <1>0, <2>1
    <3>2. limiter'[d] = CarriedOver(rl, limit, window, now)
      BY <2>2
    <3> HIDE DEF rl, limit, window
    <3>3. /\ CarriedOver(rl, limit, window, now) \in RateLimitState
          /\ CarriedOver(rl, limit, window, now).amount_in_flight <= rl.amount_in_flight
          /\ CarriedOver(rl, limit, window, now).limit = limit
          /\ CarriedOver(rl, limit, window, now).window = window
      BY <3>1, CarriedOverBounded
    <3> QED
      BY <3>2, <3>3 DEF rl, limit, window
  <2>4. \A d \in Directions :
          ceiling'[d] \in Nat /\ ceiling'[d] >= ceiling[d] /\ ceiling'[d] >= s[d][1]
    BY <1>2, <2>1 DEF SetRateLimit
  <2>5. InFlightBounded'
    <3> SUFFICES ASSUME NEW d \in Directions
                 PROVE  limiter'[d].amount_in_flight <= ceiling'[d]
      BY DEF InFlightBounded
    <3>1. limiter'[d].amount_in_flight \in Nat /\ limiter[d].amount_in_flight \in Nat
      BY <2>1, <2>3 DEF RateLimitState
    <3> QED
      BY <2>1, <2>3, <2>4, <3>1
  <2>6. SettingsInForce'
    BY <1>2, <2>3, <2>4 DEF SettingsInForce, SetRateLimit, SettingsAllowed
  <2>7. limiter' \in [Directions -> RateLimitState]
    BY <2>2, <2>3
  <2>8. ceiling' \in [Directions -> Nat]
    BY <1>2, <2>4 DEF SetRateLimit
  <2>9. shortest' \in [Directions -> Nat]
    BY <1>2, <2>1 DEF SetRateLimit, LimiterInv, TypeOK
  <2>10. passed' \in [Directions -> [Horizon -> Nat]] /\ calls' \in [Directions -> [Horizon -> Nat]]
    BY <1>2 DEF SetRateLimit, LimiterInv, TypeOK, Forgotten
  <2>11. now' \in Times /\ changed' \in Times
    BY <1>2 DEF SetRateLimit, LimiterInv, TypeOK
  <2> QED
    BY <2>5, <2>6, <2>7, <2>8, <2>9, <2>10, <2>11 DEF LimiterInv, TypeOK
<1>3. CASE Tick
  <2>1. now' \in Times
    BY <1>0, <1>3, LimiterAssumption DEF Tick, Times
  <2> QED
    BY <1>3, <2>1 DEF Tick, history, LimiterInv, TypeOK, SettingsInForce, InFlightBounded
<1>4. CASE UNCHANGED vars
  BY <1>4 DEF vars, history, LimiterInv, TypeOK, SettingsInForce, InFlightBounded
<1> QED
  BY <1>1, <1>2, <1>3, <1>4 DEF Next

LEMMA LimiterInvariant == Spec => []LimiterInv
BY InitLimiterInv, NextLimiterInv, PTL DEF Spec

(* The limiters' state keeps its types under all settings and amounts (no     *)
(* decay divides by a window of zero).                                        *)
THEOREM LimiterTypeCorrect == Spec => []TypeOK
<1>1. LimiterInv => TypeOK
  BY DEF LimiterInv
<1> QED
  BY <1>1, LimiterInvariant, PTL

(* No more is ever in flight than the largest limit there has been, whatever  *)
(* passes and however the settings change (check_and_consume, set_rate_limit).*)
THEOREM LimiterInFlightBounded == Spec => []InFlightBounded
<1>1. LimiterInv => InFlightBounded
  BY DEF LimiterInv
<1> QED
  BY <1>1, LimiterInvariant, PTL

-----------------------------------------------------------------------------
(* Decay over time.  First the arithmetic of one limiter: how much less is in *)
(* flight after e seconds, at most and at least.                              *)

LEMMA NatTimes ==
  ASSUME NEW m \in Nat, NEW n \in Nat
  PROVE  m * n \in Nat
OBVIOUS

LEMMA TimesMono ==
  ASSUME NEW m \in Nat, NEW n \in Nat, NEW k \in Nat, m <= n
  PROVE  m * k <= n * k /\ k * m <= k * n
OBVIOUS

LEMMA TimesCancel ==
  ASSUME NEW m \in Int, NEW n \in Int, NEW k \in Nat \ {0}, m * k < n * k + k
  PROVE  m <= n
OBVIOUS

LEMMA QuotientBetween ==
  ASSUME NEW m \in Nat, NEW w \in Nat \ {0}
  PROVE  /\ m \div w \in Nat
         /\ (m \div w) * w <= m
         /\ m <= (m \div w) * w + (w - 1)
OBVIOUS

LEMMA DecayBetween ==
  ASSUME NEW rl \in RateLimitState, NEW ts \in Nat,
         rl.last_updated <= ts, ~WindowOver(rl, ts)
  PROVE  LET lost  == rl.amount_in_flight - InFlight(rl, ts)
             given == rl.limit * (ts - rl.last_updated)
         IN  /\ lost \in Nat
             /\ lost * rl.window <= given
             /\ \/ InFlight(rl, ts) = 0
                \/ given <= lost * rl.window + (rl.window - 1)
<1> DEFINE a == rl.amount_in_flight
           w == rl.window
           b == InFlight(rl, ts)
           given == rl.limit * (ts - rl.last_updated)
           dec == given \div w
<1>1. /\ a \in Nat /\ w \in Nat /\ rl.limit \in Nat /\ rl.last_updated \in Nat
      /\ ts - rl.last_updated \in Nat /\ Elapsed(rl, ts) = ts - rl.last_updated
  BY DEF RateLimitState, Elapsed, AsU64
<1>2. w \in Nat \ {0}
  BY <1>1 DEF WindowOver
<1>3. given \in Nat
  BY <1>1, NatTimes
<1>4. b = IF a > dec THEN a - dec ELSE 0
  BY <1>1 DEF InFlight, Decay, SaturatingSub
<1> HIDE DEF a, w, b, given
<1>5. dec \in Nat /\ dec * w <= given /\ given <= dec * w + (w - 1)
  BY <1>2, <1>3, QuotientBetween
<1> HIDE DEF dec
<1>6. a - b \in Nat /\ a - b <= dec /\ (b = 0 \/ a - b = dec)
  BY <1>1, <1>4, <1>5
<1>7. (a - b) * w <= given
  <2>1. (a - b) * w <= dec * w
    BY <1>1, <1>5, <1>6, TimesMono
  <2> QED
    BY <1>1, <1>3, <1>5, <1>6, <2>1, NatTimes
<1>8. b = 0 \/ given <= (a - b) * w + (w - 1)
  BY <1>5, <1>6
<1> QED
  BY <1>6, <1>7, <1>8 DEF a, b, w, given

(* A product with a difference that may be negative keeps to the bounds of    *)
(* the difference.                                                            *)
LEMMA BoundRescaled ==
  ASSUME NEW x \in Int, NEW S \in Nat, NEW R \in Nat, NEW y \in Nat, NEW z \in Nat,
         S <= R, y <= z, x * R <= y
  PROVE  x * S <= z
<1>1. CASE x <= 0
  <2>1. x * S <= 0
    BY <1>1
  <2> QED
    BY <2>1
<1>2. CASE x > 0
  <2>1. x \in Nat /\ x * S \in Nat /\ x * R \in Nat
    BY <1>2, NatTimes
  <2>2. x * S <= x * R
    BY <2>1, TimesMono
  <2> QED
    BY <2>1, <2>2
<1> QED
  BY <1>1, <1>2

(* What passed since a time, less what is in flight, has decayed since, at a  *)
(* rate of at most C units in S seconds: k seconds of it before a call, e     *)
(* more at the call.                                                          *)
LEMMA RecentStep ==
  ASSUME NEW P \in Int, NEW a \in Nat, NEW b \in Nat, NEW n \in Nat,
         NEW S \in Nat, NEW S2 \in Nat, NEW C \in Nat, NEW C2 \in Nat,
         NEW k \in Nat, NEW e \in Nat, NEW l \in Nat, NEW w \in Nat,
         S2 <= S, S <= w, l <= C, C <= C2,
         (a - b) * w <= l * e, (P - a) * S <= C * k
  PROVE  ((P + n) - (b + n)) * S2 <= C2 * (k + e)
<1>1. (P - a) * S2 <= C2 * k
  <2>1. C * k \in Nat /\ C2 * k \in Nat /\ C * k <= C2 * k
    BY NatTimes, TimesMono
  <2> QED
    BY <2>1, BoundRescaled
<1>2. (a - b) * S2 <= C2 * e
  <2>1. l * e \in Nat /\ C2 * e \in Nat /\ l * e <= C2 * e
    BY NatTimes, TimesMono
  <2>2. S2 <= w
    OBVIOUS
  <2> QED
    BY <2>1, <2>2, BoundRescaled
<1>3. ((P + n) - (b + n)) * S2 = (P - a) * S2 + (a - b) * S2
  OBVIOUS
<1>4. C2 * (k + e) = C2 * k + C2 * e
  OBVIOUS
<1>5. /\ (P - a) * S2 \in Int /\ (a - b) * S2 \in Int
      /\ C2 * k \in Nat /\ C2 * e \in Nat
  BY NatTimes
<1> QED
  BY <1>1, <1>2, <1>3, <1>4, <1>5

(* What is in flight is covered by what passed since a time, by what was in   *)
(* flight then, the whole limit at most, less its decay, and by the truncated *)
(* part of the decay at each call.                                            *)
LEMMA OldStep ==
  ASSUME NEW P \in Nat, NEW K \in Nat, NEW a \in Nat, NEW b \in Nat, NEW n \in Nat,
         NEW k \in Nat, NEW e \in Nat, NEW l \in Nat, NEW w \in Nat \ {0},
         b <= a, b = 0 \/ l * e <= (a - b) * w + (w - 1),
         a * w <= P * w + SaturatingSub(l * w, l * k) + K * (w - 1)
  PROVE  (b + n) * w <= (P + n) * w + SaturatingSub(l * w, l * (k + e)) + (K + 1) * (w - 1)
<1> DEFINE rest == SaturatingSub(l * w, l * k)
           left == SaturatingSub(l * w, l * (k + e))
<1>1. /\ P * w \in Nat /\ K * (w - 1) \in Nat /\ l * w \in Nat /\ l * k \in Nat
      /\ l * e \in Nat /\ a * w \in Nat /\ b * w \in Nat /\ n * w \in Nat /\ w - 1 \in Nat
  BY NatTimes
<1>2. l * (k + e) = l * k + l * e
  OBVIOUS
<1>3. rest \in Nat /\ left \in Nat /\ rest - l * e <= left
  BY <1>1, <1>2 DEF SaturatingSub
<1> HIDE DEF rest, left
<1>4. b * w <= P * w + left + K * (w - 1) + (w - 1)
  <2>1. CASE b = 0
    <3>1. b * w = 0
      BY <2>1
    <3> QED
      BY <1>1, <1>3, <3>1
  <2>2. CASE l * e <= (a - b) * w + (w - 1)
    <3>1. (a - b) * w = a * w - b * w
      OBVIOUS
    <3> QED
      BY <1>1, <1>3, <2>2, <3>1 DEF rest
  <2> QED
    BY <2>1, <2>2
<1>5. (b + n) * w = b * w + n * w /\ (P + n) * w = P * w + n * w
      /\ (K + 1) * (w - 1) = K * (w - 1) + (w - 1)
  OBVIOUS
<1> QED
  BY <1>1, <1>3, <1>4, <1>5 DEF left

-----------------------------------------------------------------------------
(* The inductive invariant of the running totals.                             *)

(* The call before the present one is neither in the future nor older than the *)
(* settings, and no window under a limit is shorter than the shortest.        *)
Clocked(d) ==
  /\ changed <= limiter[d].last_updated
  /\ limiter[d].last_updated <= now
  /\ limiter[d].limit > 0 => shortest[d] <= limiter[d].window

OffForgets(d) ==
  limiter[d].limit = 0 => passed[d] = Forgotten /\ calls[d] = Forgotten

(* A total of what happened until second last. *)
RunsUntil(total, last) ==
  \A x, y \in Horizon : /\ x <= y => total[x] <= total[y]
                        /\ x > last /\ y > last => total[x] = total[y]

TotalsRun(d) ==
  /\ RunsUntil(passed[d], limiter[d].last_updated)
  /\ RunsUntil(calls[d], limiter[d].last_updated)

(* How much a total has grown from second t to second last. *)
Since(total, t, last) == total[last + 1] - total[t]

RecentDecay(rl, total, C, S, t) ==
  (Since(total, t, rl.last_updated) - rl.amount_in_flight) * S
    <= C * (rl.last_updated - t)

RecentDecays(d) ==
  \A t \in Times :
    t <= limiter[d].last_updated /\ limiter[d].last_updated < t + shortest[d]
      => RecentDecay(limiter[d], passed[d], ceiling[d], shortest[d], t)

OldDecay(rl, total, count, t) ==
  rl.amount_in_flight * rl.window
    <= Since(total, t + 1, rl.last_updated) * rl.window
         + SaturatingSub(rl.limit * rl.window, rl.limit * (rl.last_updated - t))
         + Since(count, t + 1, rl.last_updated) * (rl.window - 1)

OldDecays(d) ==
  \A t \in Times :
    /\ limiter[d].limit > 0
    /\ limiter[d].limit = ceiling[d]
    /\ changed <= t /\ t <= limiter[d].last_updated
    => OldDecay(limiter[d], passed[d], calls[d], t)

TwiceTheLimit(d) == \A t \in Times : PassedFrom(d, t, shortest[d]) <= 2 * ceiling[d]

HistoryOf(d) ==
  /\ Clocked(d)
  /\ OffForgets(d)
  /\ TotalsRun(d)
  /\ RecentDecays(d)
  /\ OldDecays(d)
  /\ TwiceTheLimit(d)

HistoryInv == LimiterInv /\ \A d \in Directions : HistoryOf(d)

LEMMA InvTypes ==
  ASSUME LimiterInv
  PROVE  /\ now \in Nat /\ now \in Times /\ changed \in Nat /\ now + 1 \in Horizon
         /\ MaxTime \in Nat /\ MaxTime + 1 \in Horizon
         /\ \A d \in Directions :
              /\ limiter[d] \in RateLimitState
              /\ limiter[d].amount_in_flight \in Nat /\ limiter[d].last_updated \in Nat
              /\ limiter[d].limit \in Nat /\ limiter[d].window \in Nat
              /\ passed[d] \in [Horizon -> Nat] /\ calls[d] \in [Horizon -> Nat]
              /\ ceiling[d] \in Nat /\ shortest[d] \in Nat
              /\ limiter[d].limit <= ceiling[d]
              /\ limiter[d].amount_in_flight <= ceiling[d]
              /\ limiter[d].limit > 0 => limiter[d].window > 0
BY LimiterAssumption
   DEF LimiterInv, TypeOK, Times, Horizon, RateLimitState, SettingsInForce, InFlightBounded,
       NewAllowed

LEMMA ForgottenRuns ==
  ASSUME NEW last \in Nat
  PROVE  RunsUntil(Forgotten, last)
BY DEF RunsUntil, Forgotten

LEMMA AddedNowRuns ==
  ASSUME NEW total \in [Horizon -> Nat], NEW n \in Nat, NEW last \in Nat,
         now \in Nat, last <= now, RunsUntil(total, last)
  PROVE  RunsUntil(AddedNow(total, n), now)
<1>1. Horizon \subseteq Int
  BY DEF Horizon
<1>2. \A x \in Horizon : AddedNow(total, n)[x] = IF x > now THEN total[x] + n ELSE total[x]
  BY DEF AddedNow
<1> QED
  BY <1>1, <1>2 DEF RunsUntil

(* What AddedNow does to the growth of a total. *)
LEMMA AddedNowSince ==
  ASSUME NEW total \in [Horizon -> Nat], NEW n \in Nat, NEW last \in Nat, NEW t \in Horizon,
         now \in Times, last <= now, RunsUntil(total, last), MaxTime \in Nat
  PROVE  /\ t <= last => Since(AddedNow(total, n), t, now) = Since(total, t, last) + n
         /\ last < t /\ t <= now => Since(AddedNow(total, n), t, now) = n
         /\ now < t => Since(AddedNow(total, n), t, now) = 0
<1>1. /\ Horizon \subseteq Int /\ now + 1 \in Horizon /\ last + 1 \in Horizon
      /\ now \in Nat /\ t \in Nat
  BY DEF Horizon, Times
<1>2. \A x \in Horizon : AddedNow(total, n)[x] = IF x > now THEN total[x] + n ELSE total[x]
  BY DEF AddedNow
<1>3. /\ total[now + 1] = total[last + 1]
      /\ t > last => total[t] = total[last + 1]
  BY <1>1 DEF RunsUntil
<1>4. total[t] \in Nat /\ total[last + 1] \in Nat
  BY <1>1
<1> QED
  BY <1>1, <1>2, <1>3, <1>4 DEF Since

LEMMA LaterType ==
  ASSUME NEW t \in Times, NEW w \in Nat, MaxTime \in Nat
  PROVE  /\ Later(t, w) \in Horizon /\ t <= Later(t, w)
         /\ Later(t, w) \in Nat /\ t \in Nat /\ t \in Horizon /\ t + 1 \in Horizon
BY DEF Later, Times, Horizon

LEMMA InitHistoryOf ==
  ASSUME Init, LimiterInv, NEW d \in Directions
  PROVE  HistoryOf(d)
<1> PICK s \in Settings :
       /\ SettingsAllowed(s)
       /\ limiter = [x \in Directions |-> NewLimit(s[x][1], s[x][2], now)]
       /\ ceiling = [x \in Directions |-> s[x][1]]
       /\ shortest = [x \in Directions |-> IF s[x][1] = 0 THEN MaxU64 ELSE s[x][2]]
  BY DEF Init
<1>1. passed[d] = Forgotten /\ calls[d] = Forgotten /\ changed = 0 /\ now = 0
  BY DEF Init
<1>2. /\ limiter[d].amount_in_flight = 0 /\ limiter[d].last_updated = 0
      /\ limiter[d].limit > 0 => shortest[d] = limiter[d].window
  BY <1>1 DEF NewLimit
<1>3. /\ MaxTime \in Nat /\ MaxTime + 1 \in Horizon /\ Times \subseteq Nat
      /\ limiter[d].limit \in Nat /\ limiter[d].window \in Nat
      /\ ceiling[d] \in Nat /\ shortest[d] \in Nat
      /\ limiter[d].limit > 0 => limiter[d].window > 0
  BY InvTypes DEF Times
<1>4. Clocked(d) /\ OffForgets(d)
  BY <1>1, <1>2, <1>3 DEF Clocked, OffForgets
<1>5. TotalsRun(d)
  BY <1>1, <1>2, ForgottenRuns DEF TotalsRun
<1>6. \A x, y \in Horizon : passed[d][x] - passed[d][y] = 0 /\ calls[d][x] - calls[d][y] = 0
  BY <1>1 DEF Forgotten
<1>7. 0 + 1 \in Horizon /\ 0 \in Horizon /\ \A t \in Times : t + 1 \in Horizon /\ t \in Horizon
  BY <1>3 DEF Horizon, Times
<1>8. RecentDecays(d)
  <2> SUFFICES ASSUME NEW t \in Times, t <= limiter[d].last_updated
               PROVE  RecentDecay(limiter[d], passed[d], ceiling[d], shortest[d], t)
    BY DEF RecentDecays
  <2>1. t = 0 /\ Since(passed[d], t, limiter[d].last_updated) = 0
    BY <1>2, <1>3, <1>6, <1>7 DEF Since
  <2> QED
    BY <1>2, <1>3, <2>1 DEF RecentDecay
<1>9. OldDecays(d)
  <2> SUFFICES ASSUME NEW t \in Times, t <= limiter[d].last_updated, limiter[d].limit > 0
               PROVE  OldDecay(limiter[d], passed[d], calls[d], t)
    BY DEF OldDecays
  <2>1. /\ t = 0 /\ Since(passed[d], t + 1, limiter[d].last_updated) = 0
        /\ Since(calls[d], t + 1, limiter[d].last_updated) = 0
    BY <1>2, <1>3, <1>6, <1>7 DEF Since
  <2>2. limiter[d].limit * limiter[d].window \in Nat /\ limiter[d].limit * 0 = 0
    BY <1>3
  <2> QED
    BY <1>2, <1>3, <2>1, <2>2 DEF OldDecay, SaturatingSub
<1>10. TwiceTheLimit(d)
  <2> SUFFICES ASSUME NEW t \in Times PROVE PassedFrom(d, t, shortest[d]) <= 2 * ceiling[d]
    BY DEF TwiceTheLimit
  <2>1. Later(t, shortest[d]) \in Horizon
    BY <1>3, LaterType
  <2> QED
    BY <1>3, <1>6, <1>7, <2>1 DEF PassedFrom
<1> QED
  BY <1>4, <1>5, <1>8, <1>9, <1>10 DEF HistoryOf

(* Nothing happened to this direction, but time may have passed. *)
LEMMA HistoryKept ==
  ASSUME LimiterInv, NEW d \in Directions, HistoryOf(d), now' \in Nat, now' >= now,
         limiter'[d] = limiter[d], passed'[d] = passed[d], calls'[d] = calls[d],
         ceiling'[d] = ceiling[d], shortest'[d] = shortest[d], changed' = changed
  PROVE  HistoryOf(d)'
<1>1. Clocked(d)'
  BY InvTypes DEF HistoryOf, Clocked
<1>2. OffForgets(d)' /\ TotalsRun(d)' /\ RecentDecays(d)' /\ OldDecays(d)'
  BY DEF HistoryOf, OffForgets, TotalsRun, RecentDecays, OldDecays
<1>3. TwiceTheLimit(d)'
  BY DEF HistoryOf, TwiceTheLimit, PassedFrom
<1> QED
  BY <1>1, <1>2, <1>3 DEF HistoryOf

(* An amount passes this direction under a limit. *)
LEMMA PassHistory ==
  ASSUME LimiterInv, LimiterInv', NEW d \in Directions, HistoryOf(d),
         NEW n \in Amounts, Pass(d, n), limiter[d].limit > 0
  PROVE  HistoryOf(d)'
<1> DEFINE rl    == limiter[d]
           total == passed[d]
           count == calls[d]
           L     == rl.last_updated
           b     == InFlight(rl, now)
           S     == shortest[d]
           C     == ceiling[d]
           after == [rl EXCEPT !.amount_in_flight = b + n, !.last_updated = now]
           l     == rl.limit
           w     == rl.window
           a     == rl.amount_in_flight
<1>1. /\ rl \in RateLimitState /\ a \in Nat /\ L \in Nat /\ l \in Nat /\ w \in Nat \ {0}
      /\ total \in [Horizon -> Nat] /\ count \in [Horizon -> Nat]
      /\ C \in Nat /\ S \in Nat /\ l <= C /\ a <= C /\ now \in Nat /\ now \in Times
      /\ MaxTime \in Nat /\ changed \in Nat
  BY InvTypes
<1>2. n \in Nat /\ b \in Nat
  BY <1>1, LimiterAssumption, InFlightType
<1>3. L <= now /\ changed <= L /\ S <= w /\ RunsUntil(total, L) /\ RunsUntil(count, L)
  BY DEF HistoryOf, Clocked, TotalsRun
<1>4. limiter'[d] = after
  BY <1>1 DEF Pass, Consume, LimiterInv, TypeOK
<1>5. /\ after.amount_in_flight = b + n /\ after.last_updated = now
      /\ after.limit = l /\ after.window = w
  BY <1>1 DEF RateLimitState
<1>6. passed'[d] = AddedNow(total, n) /\ calls'[d] = AddedNow(count, 1)
  BY <1>1 DEF Pass, LimiterInv, TypeOK
<1>7. UNCHANGED <<now, ceiling, shortest, changed>>
  BY DEF Pass
<1>8. b + n <= C
  BY <1>4, <1>5, <1>7, InvTypes DEF LimiterInv, InFlightBounded
<1> HIDE DEF after, b
<1>9. Times \subseteq Nat /\ L + 1 \in Horizon
  <2>1. L + 1 \in 0..(MaxTime + 1)
    <3> HIDE DEF L
    <3> QED
      BY <1>1, <1>3 DEF Times
  <2> QED
    BY <1>1, <2>1 DEF Times, Horizon
<1>10. Clocked(d)' /\ OffForgets(d)'
  BY <1>1, <1>3, <1>4, <1>5, <1>7 DEF Clocked, OffForgets
<1>11. TotalsRun(d)'
  BY <1>1, <1>2, <1>3, <1>4, <1>5, <1>6, AddedNowRuns DEF TotalsRun
<1>12. RecentDecays(d)'
  <2> SUFFICES ASSUME NEW t \in Times, t <= now, now < t + S
               PROVE  RecentDecay(after, AddedNow(total, n), C, S, t)
    BY <1>4, <1>5, <1>6, <1>7 DEF RecentDecays
  <2> DEFINE growth == Since(AddedNow(total, n), t, now)
  <2>1. t \in Nat /\ t \in Horizon
    BY <1>1, <1>9 DEF Times, Horizon
  <2> SUFFICES (growth - (b + n)) * S <= C * (now - t)
    BY <1>5 DEF RecentDecay
  <2>2. CASE t <= L
    <3>1. ~WindowOver(rl, now)
      BY <1>1, <1>3, <2>1, <2>2 DEF WindowOver, Elapsed, AsU64
    <3>2. (a - b) * w <= l * (now - L)
      BY <1>1, <1>3, <3>1, DecayBetween DEF b
    <3>3. growth = Since(total, t, L) + n
      BY <1>1, <1>2, <1>3, <2>1, <2>2, AddedNowSince
    <3>4. Since(total, t, L) \in Int /\ L - t \in Nat /\ now - L \in Nat
      BY <1>1, <1>3, <1>9, <2>1, <2>2 DEF Since
    <3>5. (Since(total, t, L) - a) * S <= C * (L - t)
      BY <1>1, <1>3, <2>1, <2>2 DEF HistoryOf, RecentDecays, RecentDecay
    <3> DEFINE P == Since(total, t, L)
               k == L - t
               e == now - L
    <3>6. k + e = now - t
      BY <1>1, <2>1
    <3> HIDE DEF growth, P, k, e, S, C, a, l, w, L
    <3>7. ((P + n) - (b + n)) * S <= C * (k + e)
      BY <1>1, <1>2, <1>3, <3>2, <3>4, <3>5, RecentStep DEF P, k, e
    <3> QED
      BY <3>3, <3>6, <3>7 DEF P
  <2>3. CASE L < t
    <3>1. growth = n
      BY <1>1, <1>2, <1>3, <2>1, <2>3, AddedNowSince
    <3>2. C * (now - t) \in Nat
      BY <1>1, <2>1, NatTimes
    <3>3. growth - (b + n) <= 0 /\ growth - (b + n) \in Int
      BY <1>2, <3>1
    <3>4. (growth - (b + n)) * S <= 0
      BY <1>1, <3>3
    <3> QED
      BY <1>1, <3>2, <3>3, <3>4
  <2> QED
    BY <1>1, <2>1, <2>2, <2>3
<1>13. OldDecays(d)'
  <2> SUFFICES ASSUME NEW t \in Times, l = C, changed <= t, t <= now
               PROVE  OldDecay(after, AddedNow(total, n), AddedNow(count, 1), t)
    BY <1>4, <1>5, <1>6, <1>7 DEF OldDecays
  <2> DEFINE growth == Since(AddedNow(total, n), t + 1, now)
             more   == Since(AddedNow(count, 1), t + 1, now)
  <2>1. t \in Nat /\ t + 1 \in Horizon
    BY <1>1, <1>9 DEF Times, Horizon
  <2> SUFFICES (b + n) * w <= growth * w + SaturatingSub(l * w, l * (now - t)) + more * (w - 1)
    BY <1>5 DEF OldDecay
  <2>2. b <= a /\ (b = 0 \/ l * (now - L) <= (a - b) * w + (w - 1))
    <3>1. CASE WindowOver(rl, now)
      <4>1. b = 0
        BY <3>1 DEF b, InFlight
      <4> QED
        BY <1>1, <4>1
    <3>2. CASE ~WindowOver(rl, now)
      BY <1>1, <1>2, <1>3, <3>2, DecayBetween DEF b
    <3> QED
      BY <3>1, <3>2
  <2>3. CASE t < L
    <3>1. growth = Since(total, t + 1, L) + n /\ more = Since(count, t + 1, L) + 1
      BY <1>1, <1>2, <1>3, <2>1, <2>3, AddedNowSince
    <3>2. OldDecay(rl, total, count, t)
      BY <1>1, <2>1, <2>3 DEF HistoryOf, OldDecays
    <3>3. Since(total, t + 1, L) \in Nat /\ Since(count, t + 1, L) \in Nat
      <4>1. t + 1 <= L + 1
        BY <1>1, <2>1, <2>3
      <4> QED
        BY <1>1, <1>3, <1>9, <2>1, <4>1 DEF RunsUntil, Since
    <3> DEFINE P == Since(total, t + 1, L)
               K == Since(count, t + 1, L)
               k == L - t
               e == now - L
    <3>4. k \in Nat /\ e \in Nat /\ k + e = now - t
      BY <1>1, <1>3, <2>1, <2>3
    <3>5. a * w <= P * w + SaturatingSub(l * w, l * k) + K * (w - 1)
      BY <3>2 DEF OldDecay
    <3> HIDE DEF growth, more, P, K, k, e, C, a, l, w, L
    <3>6. (b + n) * w <= (P + n) * w + SaturatingSub(l * w, l * (k + e)) + (K + 1) * (w - 1)
      BY <1>1, <1>2, <2>2, <3>3, <3>4, <3>5, OldStep DEF P, K, e
    <3> QED
      BY <3>1, <3>4, <3>6 DEF P, K
  <2>4. CASE L <= t /\ t < now
    <3>1. growth = n /\ more = 1
      BY <1>1, <1>2, <1>3, <2>1, <2>4, AddedNowSince
    <3> DEFINE e == now - t
    <3>2. e \in Nat /\ e <= now - L /\ now - L \in Nat
      BY <1>1, <1>3, <2>1, <2>4
    <3>3. l * e <= l * (now - L)
      BY <1>1, <3>2, TimesMono
    <3>4. b = 0 \/ l * e <= (a - b) * w + (w - 1)
      BY <1>1, <1>2, <2>2, <3>2, <3>3, NatTimes
    <3>5. l * 0 = 0 /\ l * w \in Nat /\ a * w <= l * w /\ 0 * w = 0 /\ 0 * (w - 1) = 0
      BY <1>1, NatTimes, TimesMono
    <3>6. a * w <= 0 * w + SaturatingSub(l * w, l * 0) + 0 * (w - 1)
      BY <1>1, <3>5 DEF SaturatingSub
    <3> HIDE DEF growth, more, e, C, a, l, w, L
    <3>7. (b + n) * w <= (0 + n) * w + SaturatingSub(l * w, l * (0 + e)) + (0 + 1) * (w - 1)
      BY <1>1, <1>2, <2>2, <3>2, <3>4, <3>6, OldStep
    <3>8. 0 + n = n /\ 0 + e = e /\ 0 + 1 = 1
      BY <1>2, <3>2
    <3> QED
      BY <3>1, <3>7, <3>8 DEF e
  <2>5. CASE t = now
    <3>1. growth = 0 /\ more = 0
      BY <1>1, <1>2, <1>3, <2>1, <2>5, AddedNowSince
    <3>2. /\ l * (now - t) = 0 /\ l * w \in Nat /\ (b + n) * w <= l * w
          /\ 0 * w = 0 /\ 0 * (w - 1) = 0
      BY <1>1, <1>2, <1>8, <2>5, NatTimes, TimesMono
    <3>3. SaturatingSub(l * w, l * (now - t)) = l * w
      BY <3>2 DEF SaturatingSub
    <3>4. growth * w = 0 /\ more * (w - 1) = 0
      BY <1>1, <3>1
    <3> HIDE DEF growth, more, l, w
    <3> QED
      BY <3>2, <3>3, <3>4
  <2> QED
    BY <1>1, <2>1, <2>3, <2>4, <2>5
<1>14. TwiceTheLimit(d)'
  <2> SUFFICES ASSUME NEW t \in Times
               PROVE  AddedNow(total, n)[Later(t, S)] - AddedNow(total, n)[t] <= 2 * C
    BY <1>6, <1>7 DEF TwiceTheLimit, PassedFrom
  <2>1. /\ Later(t, S) \in Horizon /\ t <= Later(t, S)
        /\ Later(t, S) \in Nat /\ t \in Nat /\ t \in Horizon
    BY <1>1, LaterType
  <2>2. \A x \in Horizon : AddedNow(total, n)[x] = IF x > now THEN total[x] + n ELSE total[x]
    BY DEF AddedNow
  <2>3. CASE Later(t, S) <= now
    <3>1. total[Later(t, S)] - total[t] <= 2 * C
      BY DEF HistoryOf, TwiceTheLimit, PassedFrom
    <3> QED
      BY <1>1, <2>1, <2>2, <2>3, <3>1
  <2>4. CASE now < t
    <3>1. total[Later(t, S)] = total[t]
      BY <1>1, <1>3, <2>1, <2>4 DEF RunsUntil
    <3> QED
      BY <1>1, <1>2, <2>1, <2>2, <2>4, <3>1
  <2>5. CASE t <= now /\ now < Later(t, S)
    <3>1. now < t + S /\ now + 1 \in Horizon
      BY <1>1, <2>1, <2>5 DEF Later, Times, Horizon
    <3>2. RecentDecay(after, AddedNow(total, n), C, S, t)
      BY <1>4, <1>5, <1>6, <1>7, <1>12, <2>5, <3>1 DEF RecentDecays
    <3> DEFINE growth == Since(AddedNow(total, n), t, now)
    <3>3. (growth - (b + n)) * S <= C * (now - t)
      BY <1>5, <3>2 DEF RecentDecay
    <3>4. AddedNow(total, n)[Later(t, S)] = AddedNow(total, n)[now + 1]
      BY <1>1, <1>3, <2>1, <2>2, <2>5, <3>1 DEF RunsUntil
    <3>5. growth \in Int
      BY <1>1, <1>2, <2>1, <2>2, <3>1 DEF Since
    <3>6. C * (now - t) < C * S + S
      <4>1. now - t \in Nat /\ now - t <= S /\ C * (now - t) \in Nat /\ C * S \in Nat /\ S > 0
        BY <1>1, <2>1, <2>5, <3>1, NatTimes
      <4>2. C * (now - t) <= C * S
        BY <1>1, <4>1, TimesMono
      <4> QED
        BY <1>1, <4>1, <4>2
    <3> HIDE DEF growth
    <3>7. growth - (b + n) <= C
      <4>1. S \in Nat \ {0} /\ growth - (b + n) \in Int /\ C * (now - t) \in Nat
        BY <1>1, <1>2, <2>1, <2>5, <3>1, <3>5, NatTimes
      <4>2. (growth - (b + n)) * S < C * S + S
        BY <1>1, <3>3, <3>6, <4>1
      <4> QED
        BY <1>1, <4>1, <4>2, TimesCancel
    <3>8. growth <= 2 * C
      BY <1>1, <1>2, <1>8, <3>5, <3>7
    <3> QED
      BY <3>4, <3>8 DEF growth, Since
  <2> QED
    BY <1>1, <2>1, <2>3, <2>4, <2>5
<1> QED
  BY <1>10, <1>11, <1>12, <1>13, <1>14 DEF HistoryOf

(* The settings of this direction change. *)
LEMMA SettingsHistory ==
  ASSUME LimiterInv, LimiterInv', NEW d \in Directions, HistoryOf(d),
         NEW s \in Settings, SetRateLimit(s)
  PROVE  HistoryOf(d)'
<1> DEFINE rl    == limiter[d]
           total == passed[d]
           L     == rl.last_updated
           b     == InFlight(rl, now)
           S     == shortest[d]
           C     == ceiling[d]
           S2    == shortest'[d]
           C2    == ceiling'[d]
           a     == rl.amount_in_flight
           l     == rl.limit
           w     == rl.window
           after == limiter'[d]
<1>1. /\ rl \in RateLimitState /\ a \in Nat /\ L \in Nat /\ l \in Nat /\ w \in Nat
      /\ l > 0 => w > 0
      /\ total \in [Horizon -> Nat] /\ calls[d] \in [Horizon -> Nat]
      /\ C \in Nat /\ S \in Nat /\ l <= C /\ now \in Nat /\ now \in Times
      /\ MaxTime \in Nat
  BY InvTypes
<1>2. /\ L <= now /\ (l > 0 => S <= w)
      /\ RunsUntil(total, L) /\ RunsUntil(calls[d], L)
  BY DEF HistoryOf, Clocked, TotalsRun
<1>3. s[d][1] \in Nat /\ s[d][2] \in Nat
  BY SettingType
<1>4. /\ after.amount_in_flight = b /\ after.last_updated = now
      /\ after.limit = s[d][1] /\ after.window = s[d][2]
  BY DEF SetRateLimit, SettingsApplied, CarriedOver, NewLimit
<1>5. now' = now /\ changed' = now
  BY DEF SetRateLimit
<1>6. /\ C2 \in Nat /\ C <= C2 /\ s[d][1] <= C2
      /\ S2 \in Nat /\ S2 <= S /\ (s[d][1] > 0 => S2 <= s[d][2])
  BY <1>1, <1>3 DEF SetRateLimit
<1>7. /\ passed'[d] = IF s[d][1] = 0 THEN Forgotten ELSE total
      /\ calls'[d] = IF s[d][1] = 0 THEN Forgotten ELSE calls[d]
  BY DEF SetRateLimit
<1>8. b \in Nat /\ b <= C2
  <2>1. after.amount_in_flight <= C2
    BY DEF LimiterInv, InFlightBounded
  <2> QED
    BY <1>1, <1>4, <2>1, InFlightType
<1>9. Times \subseteq Nat /\ L + 1 \in Horizon /\ now + 1 \in Horizon
  <2>1. L + 1 \in 0..(MaxTime + 1) /\ now + 1 \in 0..(MaxTime + 1)
    <3> HIDE DEF L
    <3> QED
      BY <1>1, <1>2 DEF Times
  <2> QED
    BY <1>1, <2>1 DEF Times, Horizon
<1> HIDE DEF b, after, C2, S2
<1>10. Clocked(d)' /\ OffForgets(d)'
  BY <1>1, <1>4, <1>5, <1>6, <1>7 DEF Clocked, OffForgets, after, S2
<1>11. TotalsRun(d)'
  <2>1. RunsUntil(Forgotten, now)
    BY <1>1, ForgottenRuns
  <2>2. RunsUntil(total, now) /\ RunsUntil(calls[d], now)
    <3>1. \A x \in Horizon : x \in Int /\ (x > now => x > L)
      BY <1>1, <1>2 DEF Horizon
    <3> QED
      BY <1>2, <3>1 DEF RunsUntil
  <2> QED
    BY <1>4, <1>7, <2>1, <2>2 DEF TotalsRun, after
<1> DEFINE total2 == passed'[d]
<1>12. \/ \A x \in Horizon : total2[x] = 0
       \/ total2 = total /\ l > 0
  BY <1>1, <1>7 DEF HistoryOf, OffForgets, Forgotten
<1> HIDE DEF total2
<1>13. RecentDecays(d)'
  <2> SUFFICES ASSUME NEW t \in Times, t <= now, now < t + S2
               PROVE  (Since(total2, t, now) - b) * S2 <= C2 * (now - t)
    BY <1>4, <1>5 DEF RecentDecays, RecentDecay, after, C2, S2, total2
  <2>1. /\ t \in Nat /\ t \in Horizon /\ now - t \in Nat /\ C2 * (now - t) \in Nat
    BY <1>1, <1>6, <1>9, NatTimes DEF Times, Horizon
  <2>2. ASSUME Since(total2, t, now) = 0
        PROVE  (Since(total2, t, now) - b) * S2 <= C2 * (now - t)
    <3>1. b * S2 \in Nat /\ (0 - b) * S2 = 0 - (b * S2)
      BY <1>6, <1>8, NatTimes
    <3> QED
      BY <1>6, <1>8, <2>1, <2>2, <3>1
  <2>3. CASE \A x \in Horizon : total2[x] = 0
    <3>1. total2[now + 1] = 0 /\ total2[t] = 0
      BY <1>9, <2>1, <2>3
    <3>2. Since(total2, t, now) = 0
      BY <3>1 DEF Since
    <3> QED
      BY <2>2, <3>2
  <2>4. CASE total2 = total /\ l > 0 /\ L < t
    <3>1. now + 1 > L /\ t > L
      BY <1>1, <1>2, <2>4
    <3>2. total[now + 1] = total[t] /\ total[t] \in Nat
      <4> HIDE DEF total, L
      <4> QED
        BY <1>1, <1>2, <1>9, <2>1, <3>1 DEF RunsUntil
    <3> QED
      BY <2>2, <2>4, <3>2 DEF Since
  <2>5. CASE total2 = total /\ l > 0 /\ t <= L
    <3> DEFINE P == Since(total, t, L)
               k == L - t
               e == now - L
    <3>1. /\ k \in Nat /\ e \in Nat /\ k + e = now - t
          /\ L < t + S /\ e < w /\ w \in Nat \ {0} /\ S <= w
      BY <1>1, <1>2, <1>6, <2>1, <2>5
    <3>2. ~WindowOver(rl, now)
      BY <1>1, <1>2, <3>1 DEF WindowOver, Elapsed, AsU64
    <3>3. (a - b) * w <= l * e
      BY <1>1, <1>2, <3>2, DecayBetween DEF b
    <3>4. P \in Int
      BY <1>1, <1>9, <2>1 DEF Since
    <3>5. (P - a) * S <= C * k
      BY <2>5, <3>1 DEF HistoryOf, RecentDecays, RecentDecay
    <3>6. Since(total2, t, now) = P
      BY <1>1, <1>2, <1>9, <2>1, <2>5 DEF Since, RunsUntil
    <3> HIDE DEF P, k, e, a, l, w, C, S, L
    <3>7. ((P + 0) - (b + 0)) * S2 <= C2 * (k + e)
      BY <1>1, <1>6, <1>8, <3>1, <3>3, <3>4, <3>5, RecentStep
    <3>8. P + 0 = P /\ b + 0 = b
      BY <1>8, <3>4
    <3> QED
      BY <3>1, <3>6, <3>7, <3>8
  <2> QED
    BY <1>1, <1>12, <2>1, <2>3, <2>4, <2>5
<1>14. OldDecays(d)'
  <2> DEFINE l2 == s[d][1]
             w2 == s[d][2]
  <2> SUFFICES ASSUME l2 > 0, l2 = C2, now \in Times
               PROVE  OldDecay(after, total2, calls'[d], now)
    <3> SUFFICES ASSUME NEW t \in Times, l2 > 0, l2 = C2, now <= t, t <= now
                 PROVE  OldDecay(after, total2, calls'[d], t)
      BY <1>4, <1>5 DEF OldDecays, after, C2, total2
    <3>1. t = now
      BY <1>1, <1>9
    <3> QED
      BY <3>1
  <2>1. Since(total2, now + 1, now) = 0 /\ Since(calls'[d], now + 1, now) = 0
    <3>1. total2[now + 1] \in Nat /\ calls'[d][now + 1] \in Nat
      BY <1>1, <1>7, <1>9 DEF total2, Forgotten
    <3> QED
      BY <3>1 DEF Since
  <2>2. /\ w2 \in Nat \ {0} /\ l2 \in Nat /\ b <= l2 /\ now - now = 0
    BY <1>1, <1>3, <1>8 DEF SetRateLimit, SettingsAllowed, NewAllowed
  <2> HIDE DEF l2, w2
  <2>3. l2 * 0 = 0 /\ l2 * w2 \in Nat /\ b * w2 <= l2 * w2 /\ 0 * w2 = 0 /\ 0 * (w2 - 1) = 0
    BY <1>8, <2>2, NatTimes, TimesMono
  <2>4. SaturatingSub(l2 * w2, l2 * 0) = l2 * w2
    BY <2>3 DEF SaturatingSub
  <2> QED
    BY <1>4, <2>1, <2>2, <2>3, <2>4 DEF OldDecay, l2, w2
<1>15. TwiceTheLimit(d)'
  <2> SUFFICES ASSUME NEW t \in Times
               PROVE  total2[Later(t, S2)] - total2[t] <= 2 * C2
    BY DEF TwiceTheLimit, PassedFrom, S2, C2, total2
  <2>1. /\ Later(t, S) \in Horizon /\ Later(t, S2) \in Horizon /\ t \in Horizon
        /\ Later(t, S) \in Nat /\ Later(t, S2) \in Nat
    BY <1>1, <1>6, LaterType
  <2>2. CASE \A x \in Horizon : total2[x] = 0
    BY <1>6, <2>1, <2>2
  <2>3. CASE total2 = total
    <3>1. Later(t, S2) <= Later(t, S)
      BY <1>1, <1>6, <1>9 DEF Later
    <3>2. total[Later(t, S2)] <= total[Later(t, S)]
      BY <1>2, <2>1, <3>1 DEF RunsUntil
    <3>3. total[Later(t, S)] - total[t] <= 2 * C
      BY DEF HistoryOf, TwiceTheLimit, PassedFrom
    <3>4. total[Later(t, S2)] \in Nat /\ total[Later(t, S)] \in Nat /\ total[t] \in Nat
      BY <1>1, <2>1
    <3> HIDE DEF total, C
    <3> QED
      BY <1>1, <1>6, <2>3, <3>2, <3>3, <3>4
  <2> QED
    BY <1>12, <2>2, <2>3
<1> QED
  BY <1>10, <1>11, <1>13, <1>14, <1>15 DEF HistoryOf

LEMMA InitHistoryInv == Init => HistoryInv
BY InitLimiterInv, InitHistoryOf DEF HistoryInv

LEMMA NextHistoryInv == HistoryInv /\ [Next]_vars => HistoryInv'
<1> SUFFICES ASSUME HistoryInv, [Next]_vars PROVE HistoryInv'
  OBVIOUS
<1>1. LimiterInv /\ LimiterInv'
  BY NextLimiterInv DEF HistoryInv
<1>2. now \in Nat
  BY <1>1, InvTypes
<1> SUFFICES ASSUME NEW d \in Directions PROVE HistoryOf(d)'
  BY <1>1 DEF HistoryInv
<1>3. HistoryOf(d)
  BY DEF HistoryInv
<1>4. limiter \in [Directions -> RateLimitState]
      /\ passed \in [Directions -> [Horizon -> Nat]]
      /\ calls \in [Directions -> [Horizon -> Nat]]
  BY <1>1 DEF LimiterInv, TypeOK
<1>5. ASSUME NEW x \in Directions, NEW n \in Amounts, Pass(x, n) PROVE HistoryOf(d)'
  <2>1. CASE x = d /\ limiter[d].limit > 0
    BY <1>1, <1>3, <1>5, <2>1, PassHistory
  <2>2. CASE x # d \/ ~(limiter[d].limit > 0)
    <3>1. limiter[d].limit \in Nat
      BY <1>1, InvTypes
    <3>2. /\ limiter'[d] = limiter[d] /\ passed'[d] = passed[d] /\ calls'[d] = calls[d]
          /\ ceiling' = ceiling /\ shortest' = shortest /\ changed' = changed /\ now' = now
      BY <1>4, <1>5, <2>2, <3>1 DEF Pass, Consume
    <3> QED
      BY <1>1, <1>2, <1>3, <3>2, HistoryKept
  <2> QED
    BY <2>1, <2>2
<1>6. ASSUME NEW s \in Settings, SetRateLimit(s) PROVE HistoryOf(d)'
  BY <1>1, <1>3, <1>6, SettingsHistory
<1>7. CASE Tick
  <2>1. now' \in Nat /\ now' >= now /\ UNCHANGED <<limiter, passed, calls, ceiling, shortest, changed>>
    BY <1>2, <1>7 DEF Tick, history
  <2> QED
    BY <1>1, <1>3, <2>1, HistoryKept
<1>8. CASE UNCHANGED vars
  <2>1. UNCHANGED <<limiter, now, passed, calls, ceiling, shortest, changed>>
    BY <1>8 DEF vars, history
  <2> QED
    BY <1>1, <1>2, <1>3, <2>1, HistoryKept
<1> QED
  BY <1>5, <1>6, <1>7, <1>8 DEF Next

LEMMA HistoryInvariant == Spec => []HistoryInv
BY InitHistoryInv, NextHistoryInv, PTL DEF Spec

(* In no interval as long as the shortest window under a limit does more than *)
(* twice the largest limit pass, for all settings and amounts and however     *)
(* calls and changes of the settings interleave (check_and_consume,           *)
(* calculate_available, set_rate_limit).                                      *)
THEOREM LimiterPassesTwiceTheLimit == Spec => []TwiceTheLimitAtMost
<1>1. HistoryInv => TwiceTheLimitAtMost
  BY DEF HistoryInv, HistoryOf, TwiceTheLimit, TwiceTheLimitAtMost
<1> QED
  BY <1>1, HistoryInvariant, PTL

LEMMA WindowCounts == HistoryInv => OnlyTheWindowCounts
<1> SUFFICES ASSUME HistoryInv, NEW d \in Directions, limiter[d].limit > 0,
                    limiter[d].limit = ceiling[d], now - changed >= limiter[d].window
             PROVE  InFlight(limiter[d], now)
                      <= InLastWindow(d, passed[d]) + InLastWindow(d, calls[d]) + 1
  BY DEF OnlyTheWindowCounts
<1> DEFINE rl == limiter[d]
           w  == rl.window
           l  == rl.limit
           a  == rl.amount_in_flight
           L  == rl.last_updated
           t  == now - w
           b  == InFlight(rl, now)
           P  == InLastWindow(d, passed[d])
           K  == InLastWindow(d, calls[d])
<1>1. /\ rl \in RateLimitState /\ a \in Nat /\ L \in Nat /\ l \in Nat /\ w \in Nat \ {0}
      /\ passed[d] \in [Horizon -> Nat] /\ calls[d] \in [Horizon -> Nat]
      /\ now \in Nat /\ now \in Times /\ changed \in Nat /\ MaxTime \in Nat
      /\ now + 1 \in Horizon
  BY InvTypes DEF HistoryInv
<1>2. L <= now /\ RunsUntil(passed[d], L) /\ RunsUntil(calls[d], L)
  BY DEF HistoryInv, HistoryOf, Clocked, TotalsRun
<1>3. t \in Nat /\ t \in Times /\ t + 1 \in Horizon /\ t + 1 = now + 1 - w /\ changed <= t
  <2> HIDE DEF w
  <2>1. t \in Nat /\ t <= now /\ t + 1 = now + 1 - w /\ changed <= t
    BY <1>1 DEF w
  <2> QED
    BY <1>1, <2>1 DEF Times, Horizon
<1>4. P \in Nat /\ K \in Nat
  <2>1. now + 1 - w \in Horizon /\ now + 1 - w <= now + 1
    BY <1>1, <1>3
  <2> QED
    BY <1>1, <1>2, <2>1 DEF InLastWindow, RunsUntil
<1>5. b \in Nat
  BY <1>1, InFlightType
<1>6. CASE WindowOver(rl, now)
  <2>1. b = 0
    BY <1>6 DEF InFlight
  <2> HIDE DEF P, K, b
  <2> QED
    BY <1>4, <2>1 DEF P, K, b
<1>7. CASE ~WindowOver(rl, now)
  <2> DEFINE k == L - t
             e == now - L
  <2>1. k \in Nat /\ e \in Nat /\ k + e = w /\ t < L
    BY <1>1, <1>2, <1>3, <1>7 DEF WindowOver, Elapsed, AsU64
  <2>2. OldDecay(rl, passed[d], calls[d], t)
    <3>1. OldDecays(d) /\ l > 0 /\ l = ceiling[d] /\ t <= L
      BY <1>1, <1>3, <2>1 DEF HistoryInv, HistoryOf
    <3> HIDE DEF t
    <3> QED
      BY <1>3, <3>1 DEF OldDecays
  <2>3. P = Since(passed[d], t + 1, L) /\ K = Since(calls[d], t + 1, L)
    <3>1. L + 1 \in Horizon
      <4> HIDE DEF L
      <4> QED
        BY <1>1, <1>2 DEF Times, Horizon
    <3>2. passed[d][now + 1] = passed[d][L + 1] /\ calls[d][now + 1] = calls[d][L + 1]
      BY <1>1, <1>2, <3>1 DEF RunsUntil
    <3> QED
      BY <1>1, <1>3, <3>2 DEF InLastWindow, Since
  <2>4. a * w <= P * w + SaturatingSub(l * w, l * k) + K * (w - 1)
    BY <2>2, <2>3 DEF OldDecay
  <2>5. b <= a /\ (b = 0 \/ l * e <= (a - b) * w + (w - 1))
    BY <1>1, <1>2, <1>5, <1>7, DecayBetween
  <2> HIDE DEF P, K, k, e, b, a, l, w, L, t
  <2>6. (b + 0) * w <= (P + 0) * w + SaturatingSub(l * w, l * (k + e)) + (K + 1) * (w - 1)
    BY <1>1, <1>4, <1>5, <2>1, <2>4, <2>5, OldStep
  <2>7. SaturatingSub(l * w, l * (k + e)) = 0
    BY <1>1, <2>1, NatTimes DEF SaturatingSub
  <2>8. b * w <= P * w + (K + 1) * (w - 1)
    BY <1>1, <1>4, <1>5, <2>6, <2>7
  <2>9. (P + K + 1) * w = P * w + (K + 1) * (w - 1) + (K + 1)
    BY <1>1, <1>4
  <2>10. b * w < (P + K + 1) * w + w
    <3>1. b * w \in Nat /\ P * w \in Nat /\ (K + 1) * (w - 1) \in Nat
      BY <1>1, <1>4, <1>5, NatTimes
    <3> QED
      BY <1>1, <1>4, <2>8, <2>9, <3>1
  <2>11. b <= P + K + 1
    BY <1>1, <1>4, <1>5, <2>10, TimesCancel
  <2> QED
    BY <2>11 DEF P, K, b
<1> QED
  BY <1>6, <1>7

(* A limit that has not been lowered counts nothing that is a window old,     *)
(* but for one unit for each call since, for all settings, amounts and times  *)
(* (calculate_available, check_and_consume).                                  *)
THEOREM LimiterCountsTheWindow == Spec => []OnlyTheWindowCounts
BY WindowCounts, HistoryInvariant, PTL

=============================================================================
