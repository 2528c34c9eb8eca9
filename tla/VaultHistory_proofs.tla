------------------------- MODULE VaultHistory_proofs -------------------------
(***************************************************************************)
(* Theorems about long runs of a vault, for every set of keys, assets,      *)
(* inputs and every bound: how far its rate drifts, how much it charges,    *)
(* how old the prices are at which it trades, and what its shares are worth. *)
(***************************************************************************)
EXTENDS VaultFees, OracleReading, VaultBacking, BoringVault_proofs,
        FiniteSetTheorems, FunctionTheorems

-----------------------------------------------------------------------------
(* Powers.  Induction comes down to counting: if T has 0 and all successors   *)
(* but not n, then k |-> k + 1 maps the members of T below n one to one into  *)
(* those that are not 0.                                                      *)

LEMMA SetInduction ==
  ASSUME NEW T \in SUBSET Nat, 0 \in T, \A n \in T : n + 1 \in T
  PROVE  T = Nat
<1> SUFFICES ASSUME NEW n \in Nat, n \notin T PROVE FALSE
  OBVIOUS
<1> DEFINE A == T \cap (0..n)
           f == [k \in A |-> k + 1]
<1>1. IsFiniteSet(A) /\ Cardinality(A) \in Nat
  <2>1. IsFiniteSet(0..n)
    BY FS_Interval
  <2> QED
    BY <2>1, FS_Subset, FS_CardinalityType
<1>2. 0 \in A
  OBVIOUS
<1>3. IsFiniteSet(A \ {0}) /\ Cardinality(A \ {0}) = Cardinality(A) - 1
  BY <1>1, <1>2, FS_RemoveElement
<1>4. f \in Injection(A, A \ {0})
  <2>1. \A k \in A : k + 1 \in A \ {0}
    OBVIOUS
  <2>2. f \in [A -> A \ {0}]
    BY <2>1
  <2>3. \A j, k \in A : f[j] = f[k] => j = k
    OBVIOUS
  <2> QED
    BY <2>2, <2>3 DEF Injection, IsInjective
<1> HIDE DEF A, f
<1>5. Cardinality(A) <= Cardinality(A \ {0})
  BY <1>1, <1>3, <1>4, FS_Injection
<1> QED
  BY <1>1, <1>3, <1>5

(* A table of powers of b up to n, and the function that joins the tables.    *)
IsTable(g, b, n) ==
  /\ g \in [0..n -> Nat]
  /\ g[0] = 1
  /\ \A i \in 1..n : g[i] = b * g[i - 1]

LEMMA TableExists ==
  ASSUME NEW b \in Nat, NEW n \in Nat
  PROVE  \E g : IsTable(g, b, n)
<1> DEFINE T == {m \in Nat : \E g : IsTable(g, b, m)}
<1>1. 0 \in T
  <2>1. IsTable([i \in 0..0 |-> 1], b, 0)
    BY DEF IsTable
  <2> QED
    BY <2>1
<1>2. ASSUME NEW m \in T PROVE m + 1 \in T
  <2>1. m \in Nat
    OBVIOUS
  <2>2. PICK g : IsTable(g, b, m)
    OBVIOUS
  <2> DEFINE h == [i \in 0..(m + 1) |-> IF i = m + 1 THEN b * g[m] ELSE g[i]]
  <2>3. g[m] \in Nat /\ b * g[m] \in Nat
    BY <2>1, <2>2, NatTimes DEF IsTable
  <2>4. h \in [0..(m + 1) -> Nat]
    BY <2>1, <2>2, <2>3 DEF IsTable
  <2>5. h[0] = 1
    BY <2>1, <2>2 DEF IsTable
  <2>6. ASSUME NEW i \in 1..(m + 1) PROVE h[i] = b * h[i - 1]
    <3>1. CASE i = m + 1
      BY <2>1, <3>1
    <3>2. CASE i \in 1..m
      BY <2>1, <2>2, <3>2 DEF IsTable
    <3> QED
      BY <2>1, <3>1, <3>2
  <2>7. IsTable(h, b, m + 1)
    BY <2>4, <2>5, <2>6 DEF IsTable
  <2> QED
    BY <2>1, <2>7
<1> HIDE DEF T
<1>3. T = Nat
  BY <1>1, <1>2, SetInduction DEF T
<1> QED
  BY <1>3 DEF T

LEMMA TableUnique ==
  ASSUME NEW b \in Nat, NEW n \in Nat, NEW m \in Nat, n <= m,
         NEW g, IsTable(g, b, n), NEW h, IsTable(h, b, m)
  PROVE  \A i \in 0..n : g[i] = h[i]
<1> DEFINE T == {i \in Nat : i <= n => g[i] = h[i]}
<1>1. 0 \in T
  BY DEF IsTable
<1>2. ASSUME NEW i \in T PROVE i + 1 \in T
  <2>1. CASE i + 1 <= n
    <3>1. i + 1 \in 1..n /\ i + 1 \in 1..m /\ (i + 1) - 1 = i
      BY <2>1
    <3>2. g[i + 1] = b * g[i] /\ h[i + 1] = b * h[i]
      BY <3>1 DEF IsTable
    <3> QED
      BY <2>1, <3>2
  <2>2. CASE ~(i + 1 <= n)
    BY <2>2
  <2> QED
    BY <2>1, <2>2
<1> HIDE DEF T
<1>3. T = Nat
  BY <1>1, <1>2, SetInduction DEF T
<1> QED
  BY <1>3 DEF T

(* The recursive definition of Powers defines what it says. *)
LEMMA PowersStep ==
  ASSUME NEW bps \in Nat
  PROVE  /\ Powers(bps)[0] = 1
         /\ \A k \in Nat : /\ Powers(bps)[k] \in Nat
                           /\ Powers(bps)[k + 1] = (bps \div BpsUnit) * Powers(bps)[k]
<1> DEFINE b == bps \div BpsUnit
           table(n) == CHOOSE g : IsTable(g, b, n)
           f == [n \in Nat |-> table(n)[n]]
           isPower(p) == p = [k \in Nat |-> IF k = 0 THEN 1 ELSE b * p[k - 1]]
<1>1. b \in Nat
  BY BpsUnitAssumption
<1> HIDE DEF b
<1>2. \A n \in Nat : IsTable(table(n), b, n)
  BY <1>1, TableExists
<1> HIDE DEF table
<1>3. isPower(f)
  <2> SUFFICES ASSUME NEW k \in Nat
               PROVE  f[k] = IF k = 0 THEN 1 ELSE b * f[k - 1]
    OBVIOUS
  <2>1. CASE k = 0
    BY <1>2, <2>1 DEF IsTable
  <2>2. CASE k > 0
    <3>1. k - 1 \in Nat /\ k \in 1..k /\ k - 1 \in 0..(k - 1)
      BY <2>2
    <3>2. table(k)[k] = b * table(k)[k - 1]
      BY <1>2, <3>1 DEF IsTable
    <3>3. table(k - 1)[k - 1] = table(k)[k - 1]
      BY <1>1, <1>2, <3>1, TableUnique
    <3> QED
      BY <2>2, <3>1, <3>2, <3>3
  <2> QED
    BY <2>1, <2>2
<1>4. isPower(Powers(bps))
  <2> HIDE DEF f
  <2>1. Powers(bps) = CHOOSE p : isPower(p)
    BY DEF Powers, b
  <2> QED
    BY <1>3, <2>1
<1> DEFINE p == Powers(bps)
<1> HIDE DEF p
<1>5. \A k \in Nat : p[k] = IF k = 0 THEN 1 ELSE b * p[k - 1]
  BY <1>4 DEF p
<1>6. p[0] = 1
  BY <1>5
<1>7. ASSUME NEW k \in Nat PROVE p[k + 1] = b * p[k]
  <2>1. k + 1 \in Nat /\ k + 1 # 0 /\ (k + 1) - 1 = k
    OBVIOUS
  <2> QED
    BY <1>5, <2>1
<1>8. {k \in Nat : p[k] \in Nat} = Nat
  <2> DEFINE T == {k \in Nat : p[k] \in Nat}
  <2>1. 0 \in T
    BY <1>6
  <2>2. ASSUME NEW k \in T PROVE k + 1 \in T
    BY <1>1, <1>7, NatTimes
  <2> HIDE DEF T
  <2>3. T = Nat
    BY <2>1, <2>2, SetInduction DEF T
  <2> QED
    BY <2>3 DEF T
<1> QED
  BY <1>6, <1>7, <1>8 DEF p, b

LEMMA PowersType ==
  ASSUME NEW bps \in Nat, NEW k \in Nat
  PROVE  Powers(bps)[k] \in Nat
BY PowersStep

(* One more update: the factors multiply on both sides.                       *)
LEMMA ProductsAbove ==
  ASSUME NEW a \in Nat, NEW b \in Nat, NEW c \in Nat, NEW d \in Nat, a <= b, c <= d
  PROVE  a * c <= b * d /\ a * c \in Nat /\ b * d \in Nat
<1>1. a * c <= b * c /\ b * c <= b * d
  BY TimesMono
<1> QED
  BY <1>1, NatTimes

LEMMA RateAbove ==
  ASSUME NEW r \in Nat, NEW r2 \in Nat, NEW v \in Nat, NEW base \in Nat,
         NEW u \in Nat, NEW top \in Nat, NEW pb \in Nat, NEW pt \in Nat,
         r2 * base <= r * u, u <= top, r * pb <= v * pt
  PROVE  r2 * (base * pb) <= v * (top * pt)
<1>1. (r2 * base) * pb <= (r * u) * pb
  BY NatTimes, TimesMono
<1>2. (r * pb) * u <= (v * pt) * top
  BY NatTimes, ProductsAbove
<1> QED
  BY <1>1, <1>2

LEMMA RateBelow ==
  ASSUME NEW r \in Nat, NEW r2 \in Nat, NEW v \in Nat, NEW base \in Nat,
         NEW l \in Nat, NEW floor \in Nat, NEW pb \in Nat, NEW pf \in Nat,
         r2 * base >= r * l, l >= floor, r * pb >= v * pf
  PROVE  r2 * (base * pb) >= v * (floor * pf)
<1>1. (r * l) * pb <= (r2 * base) * pb
  BY NatTimes, TimesMono
<1>2. (v * pf) * floor <= (r * pb) * l
  BY NatTimes, ProductsAbove
<1> QED
  BY <1>1, <1>2

(* A wider bound has larger powers. *)
LEMMA PowersMono ==
  ASSUME NEW low \in Nat, NEW high \in Nat, low <= high
  PROVE  \A k \in Nat : Powers(low)[k] <= Powers(high)[k]
<1> DEFINE T == {k \in Nat : Powers(low)[k] <= Powers(high)[k]}
           l == low \div BpsUnit
           h == high \div BpsUnit
<1>1. l \in Nat /\ h \in Nat /\ l <= h
  BY BpsUnitAssumption
<1> HIDE DEF l, h
<1>2. 0 \in T
  BY PowersStep
<1>3. ASSUME NEW k \in T PROVE k + 1 \in T
  <2>1. k \in Nat /\ Powers(low)[k] <= Powers(high)[k]
    OBVIOUS
  <2>2. /\ Powers(low)[k] \in Nat /\ Powers(high)[k] \in Nat
        /\ Powers(low)[k + 1] = l * Powers(low)[k]
        /\ Powers(high)[k + 1] = h * Powers(high)[k]
    BY <2>1, PowersStep DEF l, h
  <2>3. l * Powers(low)[k] <= h * Powers(high)[k]
    BY <1>1, <2>1, <2>2, ProductsAbove
  <2> QED
    BY <2>1, <2>2, <2>3
<1> HIDE DEF T
<1>4. T = Nat
  BY <1>2, <1>3, SetInduction DEF T
<1> QED
  BY <1>4 DEF T

(* A rate within what k updates can do is within what more of them can do.    *)
WithinUpdates(rate, first, low, high, k) ==
  /\ rate * Powers(BpsScale)[k] <= first * Powers(high)[k]
  /\ rate * Powers(BpsScale)[k] >= first * Powers(low)[k]

LEMMA OneMoreUpdate ==
  ASSUME NEW rate \in Nat, NEW newRate \in Nat, NEW first \in Nat, NEW k \in Nat,
         NEW low \in Nat, NEW high \in Nat, NEW lower \in Nat, NEW upper \in Nat,
         low <= lower, upper <= high,
         upper % BpsUnit = 0, lower % BpsUnit = 0,
         newRate * BpsScale <= rate * upper, newRate * BpsScale >= rate * lower,
         WithinUpdates(rate, first, low, high, k)
  PROVE  WithinUpdates(newRate, first, low, high, k + 1)
<1> DEFINE base == BpsScale \div BpsUnit
           u == upper \div BpsUnit
           l == lower \div BpsUnit
           top == high \div BpsUnit
           floor == low \div BpsUnit
<1>1. /\ base \in Nat /\ u \in Nat /\ l \in Nat /\ top \in Nat /\ floor \in Nat
      /\ u <= top /\ floor <= l /\ BpsUnit \in Nat \ {0} /\ BpsScale \in Nat
  BY BpsUnitAssumption DEF BpsScale
<1>2. upper = u * BpsUnit /\ lower = l * BpsUnit /\ BpsScale = base * BpsUnit
  BY BpsUnitAssumption DEF BpsScale
<1>3. /\ Powers(BpsScale)[k] \in Nat /\ Powers(high)[k] \in Nat /\ Powers(low)[k] \in Nat
      /\ Powers(BpsScale)[k + 1] = base * Powers(BpsScale)[k]
      /\ Powers(high)[k + 1] = top * Powers(high)[k]
      /\ Powers(low)[k + 1] = floor * Powers(low)[k]
  BY <1>1, PowersStep
<1> HIDE DEF base, u, l, top, floor
<1>4. /\ newRate * base \in Nat /\ rate * u \in Nat /\ rate * l \in Nat
  BY <1>1, NatTimes
<1>5. newRate * base <= rate * u
  <2>1. (newRate * base) * BpsUnit <= (rate * u) * BpsUnit
    BY <1>1, <1>2
  <2> QED
    BY <1>1, <1>4, <2>1, TimesCancel
<1>6. rate * l <= newRate * base
  <2>1. (rate * l) * BpsUnit <= (newRate * base) * BpsUnit
    BY <1>1, <1>2
  <2> QED
    BY <1>1, <1>4, <2>1, TimesCancel
<1>7. newRate * (base * Powers(BpsScale)[k]) <= first * (top * Powers(high)[k])
  BY <1>1, <1>3, <1>5, RateAbove DEF WithinUpdates
<1>8. newRate * (base * Powers(BpsScale)[k]) >= first * (floor * Powers(low)[k])
  BY <1>1, <1>3, <1>6, RateBelow DEF WithinUpdates
<1> QED
  BY <1>3, <1>7, <1>8 DEF WithinUpdates

LEMMA MoreUpdates ==
  ASSUME NEW rate \in Nat, NEW first \in Nat, NEW k \in Nat,
         NEW low \in Nat, NEW high \in Nat, low <= BpsScale, BpsScale <= high,
         WithinUpdates(rate, first, low, high, k)
  PROVE  \A j \in Nat : WithinUpdates(rate, first, low, high, k + j)
<1> DEFINE T == {j \in Nat : WithinUpdates(rate, first, low, high, k + j)}
<1>1. 0 \in T
  BY k + 0 = k
<1>2. ASSUME NEW j \in T PROVE j + 1 \in T
  <2>1. j \in Nat /\ k + j \in Nat /\ WithinUpdates(rate, first, low, high, k + j)
    OBVIOUS
  <2>2. /\ BpsScale \in Nat /\ BpsScale % BpsUnit = 0
        /\ rate * BpsScale <= rate * BpsScale /\ rate * BpsScale >= rate * BpsScale
    BY BpsUnitAssumption, NatTimes DEF BpsScale
  <2>3. WithinUpdates(rate, first, low, high, (k + j) + 1)
    <3> HIDE DEF T
    <3> QED
      BY <2>1, <2>2, OneMoreUpdate
  <2>4. (k + j) + 1 = k + (j + 1) /\ j + 1 \in Nat
    BY <2>1
  <2> QED
    BY <2>3, <2>4
<1> HIDE DEF T
<1>3. T = Nat
  BY <1>1, <1>2, SetInduction DEF T
<1> QED
  BY <1>3 DEF T

LEMMA LooserBounds ==
  ASSUME NEW rate \in Nat, NEW first \in Nat, NEW k \in Nat,
         NEW low \in Nat, NEW high \in Nat, NEW low2 \in Nat, NEW high2 \in Nat,
         low2 <= low, high <= high2,
         WithinUpdates(rate, first, low, high, k)
  PROVE  WithinUpdates(rate, first, low2, high2, k)
<1>1. /\ Powers(low2)[k] <= Powers(low)[k] /\ Powers(high)[k] <= Powers(high2)[k]
      /\ Powers(low2)[k] \in Nat /\ Powers(low)[k] \in Nat
      /\ Powers(high)[k] \in Nat /\ Powers(high2)[k] \in Nat
      /\ Powers(BpsScale)[k] \in Nat
  BY PowersMono, PowersType DEF BpsScale
<1>2. /\ first * Powers(low2)[k] <= first * Powers(low)[k]
      /\ first * Powers(high)[k] <= first * Powers(high2)[k]
  BY <1>1, ProductsAbove
<1>3. /\ rate * Powers(BpsScale)[k] \in Nat
      /\ first * Powers(low2)[k] \in Nat /\ first * Powers(low)[k] \in Nat
      /\ first * Powers(high)[k] \in Nat /\ first * Powers(high2)[k] \in Nat
  BY <1>1, NatTimes
<1> QED
  BY <1>2, <1>3 DEF WithinUpdates

-----------------------------------------------------------------------------
(* The kinds of steps: a deployment, an update of the rate, a claim of fees,  *)
(* and all others, which leave what the histories follow alone but for the    *)
(* settings, the pause, the supply and the time.                              *)

UnitBounds(upper, lower) ==
  ValidBounds(upper, lower) /\ upper % BpsUnit = 0 /\ lower % BpsUnit = 0

SettingsValid == Deployed => UnitBounds(teller.upper_bound, teller.lower_bound)

SettingsKept ==
  /\ teller'.upper_bound = teller.upper_bound
  /\ teller'.lower_bound = teller.lower_bound

QuietStep ==
  /\ program'.vault_count = program.vault_count
  /\ teller'.exchange_rate = teller.exchange_rate
  /\ teller'.exchange_rate_high_water_mark = teller.exchange_rate_high_water_mark
  /\ teller'.fees_owed_in_base_asset = teller.fees_owed_in_base_asset
  /\ teller'.total_shares_last_update = teller.total_shares_last_update
  /\ teller'.last_update_timestamp = teller.last_update_timestamp
  /\ SettingsKept \/ UnitBounds(teller'.upper_bound, teller'.lower_bound)
  /\ now' >= now

LEMMA TellerKeptQuiet ==
  ASSUME VaultInv, UNCHANGED <<program, teller, now>>
  PROVE  QuietStep
BY BoundsAssumption DEF QuietStep, SettingsKept, VaultInv, TypeOK

LEMMA AdministerQuiet ==
  ASSUME VaultInv, NEW s \in Signers, Administer(s)
  PROVE  QuietStep
<1> USE DEF VaultInv
<1>1. teller \in TellerState /\ now \in Nat
  BY BoundsAssumption DEF TypeOK
<1>2. ASSUME UNCHANGED <<program, teller, now>> PROVE QuietStep
  BY <1>2, TellerKeptQuiet
<1>3. CASE Pause(s) \/ Unpause(s) \/ AcceptAuthority(s)
  BY <1>2, <1>3 DEF Pause, Unpause, AcceptAuthority, SetConfig
<1>4. ASSUME NEW k \in AdminKeys, TransferAuthority(s, k) \/ SetShareMover(s, k)
      PROVE  QuietStep
  BY <1>2, <1>4 DEF TransferAuthority, SetShareMover, SetConfig
<1>5. ASSUME NEW sub \in SubAccounts,
             SetDepositSubAccount(s, sub) \/ SetWithdrawSubAccount(s, sub)
      PROVE  QuietStep
  BY <1>2, <1>5 DEF SetDepositSubAccount, SetWithdrawSubAccount, SetConfig
<1>6. ASSUME NEW k \in AdminKeys, SetStrategist(s, k) PROVE QuietStep
  BY <1>2, <1>6 DEF SetStrategist
<1>7. ASSUME NEW k \in AdminKeys, UpdateExchangeRateProvider(s, k) PROVE QuietStep
  BY <1>1, <1>7 DEF UpdateExchangeRateProvider, SetTeller, QuietStep, SettingsKept, TellerState
<1>8. ASSUME NEW k \in AdminKeys, SetWithdrawAuthority(s, k) PROVE QuietStep
  BY <1>1, <1>8 DEF SetWithdrawAuthority, SetTeller, QuietStep, SettingsKept, TellerState
<1>9. ASSUME NEW k \in AdminKeys, SetPayout(s, k) PROVE QuietStep
  BY <1>1, <1>9 DEF SetPayout, SetTeller, QuietStep, SettingsKept, TellerState
<1>10. ASSUME NEW f \in FeeSettings, SetFees(s, f[1], f[2]) PROVE QuietStep
  BY <1>1, <1>10 DEF SetFees, SetTeller, QuietStep, SettingsKept, TellerState
<1>11. ASSUME NEW b \in BoundSettings,
              ConfigureExchangeRateUpdateBounds(s, b[1], b[2], b[3])
       PROVE  QuietStep
  <2>1. UnitBounds(b[1], b[2])
    BY <1>11, BpsUnitAssumption DEF ConfigureExchangeRateUpdateBounds, UnitBounds
  <2>2. teller'.upper_bound = b[1] /\ teller'.lower_bound = b[2]
    BY <1>1, <1>11 DEF ConfigureExchangeRateUpdateBounds, SetTeller, TellerState
  <2> QED
    BY <1>1, <1>11, <2>1, <2>2
       DEF ConfigureExchangeRateUpdateBounds, SetTeller, QuietStep, TellerState
<1>12. ASSUME NEW a \in Assets, NEW data \in AssetDatas, UpdateAssetData(s, a, data)
       PROVE  QuietStep
  BY <1>2, <1>12 DEF UpdateAssetData
<1>13. ASSUME NEW digest \in Digests, NEW ops \in OperatorSets,
              InitializeCpiDigest(s, digest, ops)
       PROVE  QuietStep
  BY <1>2, <1>13 DEF InitializeCpiDigest
<1>14. ASSUME NEW d \in cpiDigests, CloseCpiDigest(s, d) PROVE QuietStep
  BY <1>2, <1>14 DEF CloseCpiDigest
<1> QED
  BY <1>3, <1>4, <1>5, <1>6, <1>7, <1>8, <1>9, <1>10, <1>11, <1>12, <1>13, <1>14
     DEF Administer

LEMMA StepKinds ==
  ASSUME VaultInv, [VaultStep]_vaultVars
  PROVE  \/ \E s \in Signers, args \in DeployArgs : Deploy(s, args)
         \/ \E s \in Signers, r \in Rates : UpdateExchangeRate(s, r)
         \/ \E sub \in SubAccounts : Claiming(sub)
         \/ QuietStep
<1>1. ASSUME UNCHANGED <<program, teller, now>> PROVE QuietStep
  BY <1>1, TellerKeptQuiet
<1>2. ASSUME NEW k \in AdminKeys, Initialize(k) PROVE QuietStep
  BY <1>2, BoundsAssumption DEF Initialize, QuietStep, SettingsKept, VaultInv, TypeOK
<1>3. ASSUME NEW s \in Signers, Operate(s)
      PROVE  \/ \E r \in Rates : UpdateExchangeRate(s, r)
             \/ \E sub \in SubAccounts : Claiming(sub)
             \/ QuietStep
  BY <1>1, <1>3 DEF Operate, Claiming, Manage, MintShares, BurnShares, adminVars
<1>4. ASSUME NEW s \in Signers, Use(s) PROVE QuietStep
  BY <1>1, <1>4 DEF Use, Deposit, DepositSol, Withdraw, adminVars
<1>5. CASE Environment
  <2>1. CASE Tick
    BY <2>1, BoundsAssumption
       DEF Tick, adminVars, QuietStep, SettingsKept, VaultInv, TypeOK
  <2>2. CASE ~Tick
    BY <1>1, <1>5, <2>2 DEF Environment, TransferShares, TransferTokens, adminVars
  <2> QED
    BY <2>1, <2>2
<1>6. CASE UNCHANGED vaultVars
  BY <1>1, <1>6 DEF vaultVars, adminVars
<1> QED
  BY <1>2, <1>3, <1>4, <1>5, <1>6, AdministerQuiet DEF VaultStep, Setup

-----------------------------------------------------------------------------
(* The drift of the rate.  Since somebody vouched for a rate, k updates, each *)
(* at least the shortest delay after the one before, have kept an open vault's *)
(* rate within what k of the widest bounds allow.                             *)

HistoryTypes ==
  /\ vouched \in [rate: Nat, time: Nat, upper_bound: Nat, lower_bound: Nat,
                  minimum_update_delay: Nat]
  /\ launch \in [rate: Nat, time: Nat]
  /\ peak \in [supply: Nat, platform_fee_bps: Nat, performance_fee_bps: Nat]
  /\ feesPaid \in Nat

DriftWithin(k) ==
  /\ k * vouched.minimum_update_delay <= teller.last_update_timestamp - vouched.time
  /\ WithinUpdates(teller.exchange_rate, vouched.rate, vouched.lower_bound,
                   vouched.upper_bound, k)

LoosestBounds ==
  /\ vouched.time <= teller.last_update_timestamp
  /\ teller.upper_bound <= vouched.upper_bound
  /\ vouched.lower_bound <= teller.lower_bound
  /\ vouched.minimum_update_delay <= teller.minimum_update_delay

DriftInv ==
  Deployed => LoosestBounds /\ (~config.paused => \E k \in Nat : DriftWithin(k))

TellerTypes(t) ==
  /\ t.exchange_rate \in Nat /\ t.exchange_rate_high_water_mark \in Nat
  /\ t.fees_owed_in_base_asset \in Nat /\ t.total_shares_last_update \in Nat
  /\ t.last_update_timestamp \in Nat /\ t.upper_bound \in Nat /\ t.lower_bound \in Nat
  /\ t.minimum_update_delay \in Nat /\ t.platform_fee_bps \in Nat
  /\ t.performance_fee_bps \in Nat

LEMMA VaultTypes ==
  ASSUME VaultInv
  PROVE  /\ teller \in TellerState /\ TellerTypes(teller) /\ config \in VaultState
         /\ supply \in Nat /\ now \in Nat
         /\ teller.last_update_timestamp <= now
         /\ program.vault_count \in 0..1
BY BoundsAssumption DEF VaultInv, TypeOK, TellerState, TellerTypes

LEMMA NextVaultTypes ==
  ASSUME VaultInv'
  PROVE  /\ teller' \in TellerState /\ TellerTypes(teller') /\ config' \in VaultState
         /\ supply' \in Nat /\ now' \in Nat
         /\ teller'.last_update_timestamp <= now'
         /\ program'.vault_count \in 0..1
BY BoundsAssumption DEF VaultInv, TypeOK, TellerState, TellerTypes

LEMMA VouchedTypes ==
  ASSUME VaultInv', HistoryTypes, Remember
  PROVE  vouched' \in [rate: Nat, time: Nat, upper_bound: Nat, lower_bound: Nat,
                       minimum_update_delay: Nat]
<1>1. TellerTypes(teller')
  BY NextVaultTypes
<1>2. Vouched \in [rate: Nat, time: Nat, upper_bound: Nat, lower_bound: Nat,
                   minimum_update_delay: Nat]
  BY <1>1 DEF Vouched, TellerTypes
<1>3. Loosened \in [rate: Nat, time: Nat, upper_bound: Nat, lower_bound: Nat,
                    minimum_update_delay: Nat]
  BY <1>1 DEF Loosened, Higher, Lower, TellerTypes, HistoryTypes
<1> QED
  BY <1>2, <1>3 DEF Remember

LEMMA LoosenedFields ==
  ASSUME VaultInv, VaultInv', HistoryTypes, vouched' = Loosened
  PROVE  /\ vouched'.rate = vouched.rate /\ vouched'.time = vouched.time
         /\ vouched.upper_bound <= vouched'.upper_bound
         /\ teller'.upper_bound <= vouched'.upper_bound
         /\ vouched'.lower_bound <= vouched.lower_bound
         /\ vouched'.lower_bound <= teller'.lower_bound
         /\ vouched'.minimum_update_delay <= vouched.minimum_update_delay
         /\ vouched'.minimum_update_delay <= teller'.minimum_update_delay
<1>1. TellerTypes(teller')
  BY NextVaultTypes
<1> QED
  BY <1>1 DEF Loosened, Higher, Lower, TellerTypes, HistoryTypes

(* A step that vouches for the rate it leaves behind. *)
LEMMA VouchedDrift ==
  ASSUME VaultInv', vouched' = Vouched
  PROVE  LoosestBounds' /\ DriftWithin(0)'
<1>1. TellerTypes(teller')
  BY NextVaultTypes
<1>2. /\ vouched'.rate = teller'.exchange_rate
      /\ vouched'.time = teller'.last_update_timestamp
      /\ vouched'.upper_bound = teller'.upper_bound
      /\ vouched'.lower_bound = teller'.lower_bound
      /\ vouched'.minimum_update_delay = teller'.minimum_update_delay
  BY DEF Vouched
<1>3. LoosestBounds'
  BY <1>1, <1>2 DEF LoosestBounds, TellerTypes
<1>4. WithinUpdates(teller'.exchange_rate, vouched'.rate, vouched'.lower_bound,
                    vouched'.upper_bound, 0)
  <2>1. /\ Powers(BpsScale)[0] = 1 /\ Powers(vouched'.lower_bound)[0] = 1
        /\ Powers(vouched'.upper_bound)[0] = 1
    BY <1>1, <1>2, PowersStep DEF TellerTypes, BpsScale
  <2> QED
    BY <1>1, <1>2, <2>1 DEF WithinUpdates, TellerTypes
<1>5. 0 * vouched'.minimum_update_delay = 0
      /\ teller'.last_update_timestamp - vouched'.time = 0
  BY <1>1, <1>2 DEF TellerTypes
<1> QED
  BY <1>3, <1>4, <1>5 DEF DriftWithin

(* A step that leaves the rate alone may loosen the bounds.                   *)
LEMMA LoosenedDrift ==
  ASSUME VaultInv, VaultInv', HistoryTypes, HistoryTypes', LoosestBounds,
         vouched' = Loosened, NEW k \in Nat, DriftWithin(k),
         teller'.exchange_rate = teller.exchange_rate,
         teller'.last_update_timestamp = teller.last_update_timestamp
  PROVE  DriftWithin(k)'
<1> DEFINE v == vouched
           v2 == vouched'
<1>1. TellerTypes(teller)
  BY VaultTypes
<1>2. /\ v.rate \in Nat /\ v.time \in Nat /\ v.upper_bound \in Nat
      /\ v.lower_bound \in Nat /\ v.minimum_update_delay \in Nat
      /\ v2.upper_bound \in Nat /\ v2.lower_bound \in Nat
      /\ v2.minimum_update_delay \in Nat
  BY DEF HistoryTypes
<1>3. /\ v2.rate = v.rate /\ v2.time = v.time
      /\ v.upper_bound <= v2.upper_bound /\ v2.lower_bound <= v.lower_bound
      /\ v2.minimum_update_delay <= v.minimum_update_delay
  BY LoosenedFields
<1> HIDE DEF v, v2
<1>4. WithinUpdates(teller.exchange_rate, v.rate, v2.lower_bound, v2.upper_bound, k)
  BY <1>1, <1>2, <1>3, LooserBounds DEF DriftWithin, TellerTypes, v
<1>5. v2.minimum_update_delay * k <= v.minimum_update_delay * k
      /\ v2.minimum_update_delay * k \in Nat /\ v.minimum_update_delay * k \in Nat
  BY <1>2, <1>3, TimesMono, NatTimes
<1>6. k * v.minimum_update_delay <= teller.last_update_timestamp - v.time
  BY DEF DriftWithin, v
<1>7. k * v2.minimum_update_delay <= teller.last_update_timestamp - v.time
  BY <1>1, <1>2, <1>5, <1>6 DEF TellerTypes
<1> QED
  BY <1>3, <1>4, <1>7 DEF DriftWithin, v2

(* What an update of the rate does: it is suspect, or charged and accepted.   *)
LEMMA UpdateFields ==
  ASSUME VaultInv, NEW s \in Signers, NEW r \in Rates, UpdateExchangeRate(s, r)
  PROVE  /\ Deployed /\ ~config.paused /\ r \in Nat
         /\ program' = program /\ supply' = supply /\ now' = now /\ tokens' = tokens
         /\ teller'.exchange_rate = r
         /\ teller'.last_update_timestamp = now
         /\ teller'.total_shares_last_update = supply
         /\ teller'.upper_bound = teller.upper_bound
         /\ teller'.lower_bound = teller.lower_bound
         /\ teller'.minimum_update_delay = teller.minimum_update_delay
         /\ teller'.platform_fee_bps = teller.platform_fee_bps
         /\ teller'.performance_fee_bps = teller.performance_fee_bps
         /\ \/ /\ config'.paused
               /\ teller'.fees_owed_in_base_asset = teller.fees_owed_in_base_asset
               /\ teller'.exchange_rate_high_water_mark
                    = teller.exchange_rate_high_water_mark
            \/ /\ ~ShouldPause(r) /\ ~config'.paused
               /\ teller'.fees_owed_in_base_asset
                    = teller.fees_owed_in_base_asset + PlatformFee(r) + PerformanceFee(r)
               /\ teller'.exchange_rate_high_water_mark = HighWaterMark(r)
<1>1. teller \in TellerState /\ config \in VaultState /\ r \in Nat
  BY VaultTypes, InputsAssumption
<1> DEFINE recorded == [teller EXCEPT !.exchange_rate = r,
                                      !.last_update_timestamp = now,
                                      !.total_shares_last_update = supply]
           fees == teller.fees_owed_in_base_asset + PlatformFee(r) + PerformanceFee(r)
           mark == HighWaterMark(r)
           charged == [recorded EXCEPT !.fees_owed_in_base_asset = fees,
                                       !.exchange_rate_high_water_mark = mark]
<1>2. \/ teller' = recorded /\ config' = [config EXCEPT !.paused = TRUE]
      \/ ~ShouldPause(r) /\ teller' = charged /\ config' = config
  BY DEF UpdateExchangeRate
<1>3. /\ Deployed /\ ~config.paused
      /\ program' = program /\ supply' = supply /\ now' = now /\ tokens' = tokens
  BY DEF UpdateExchangeRate, UpdateExchangeRateAccounts, ledgerVars
<1> HIDE DEF fees, mark
<1>4. CASE teller' = recorded /\ config' = [config EXCEPT !.paused = TRUE]
  BY <1>1, <1>3, <1>4 DEF TellerState, VaultState
<1>5. CASE ~ShouldPause(r) /\ teller' = charged /\ config' = config
  BY <1>1, <1>3, <1>5 DEF TellerState, fees, mark
<1> QED
  BY <1>2, <1>4, <1>5

(* What a claim does: it clears the debt and pays it out. *)
LEMMA ClaimFields ==
  ASSUME VaultInv, RolesInv, NEW sub \in SubAccounts, Claiming(sub)
  PROVE  /\ program' = program /\ config' = config /\ supply' = supply /\ now' = now
         /\ teller' = [teller EXCEPT !.fees_owed_in_base_asset = 0]
         /\ Deployed
         /\ tokens[BaseAsset][sub] - tokens'[BaseAsset][sub] = teller.fees_owed_in_base_asset
<1> DEFINE owed == teller.fees_owed_in_base_asset
           payee == teller.payout_address
<1>1. /\ owed \in Nat /\ tokens \in [Assets -> [Accounts -> Nat]]
      /\ BaseAsset \in Assets /\ sub \in Accounts
  BY AssetsAssumption DEF VaultInv, TypeOK, TellerState, Assets, Accounts
<1>2. PICK s \in Signers : ClaimFeesInBase(s, sub)
  BY DEF Claiming
<1>3. Deployed /\ payee \in Keys
  BY <1>2 DEF RolesInv, ClaimFeesInBase, ClaimFeesAccounts, AuthorityOnly
<1>4. payee \in Accounts /\ payee # sub
  BY <1>3, KeysAssumption DEF Accounts
<1>5. tokens' = [tokens EXCEPT ![BaseAsset] = Move(@, sub, payee, owed)]
  BY <1>2 DEF ClaimFeesInBase
<1> HIDE DEF owed, payee
<1>6. tokens'[BaseAsset][sub] = tokens[BaseAsset][sub] - owed
  BY <1>1, <1>4, <1>5 DEF Move
<1>7. tokens[BaseAsset][sub] \in Nat
  BY <1>1
<1> QED
  BY <1>1, <1>2, <1>3, <1>6, <1>7 DEF ClaimFeesInBase, owed

LEMMA DeployFields ==
  ASSUME VaultInv, NEW s \in Signers, NEW args \in DeployArgs, Deploy(s, args)
  PROVE  /\ ~Deployed /\ DeployingStep /\ supply' = supply /\ now' = now
         /\ UnitBounds(teller'.upper_bound, teller'.lower_bound)
         /\ teller'.exchange_rate_high_water_mark = teller'.exchange_rate
         /\ teller'.fees_owed_in_base_asset = 0
         /\ teller'.total_shares_last_update = supply
         /\ teller'.last_update_timestamp = now
<1>1. program.vault_count \in Nat /\ program'.vault_count = program.vault_count + 1
  BY DEF Deploy, VaultInv, TypeOK
<1> QED
  BY <1>1, BpsUnitAssumption
     DEF Deploy, DeployAccounts, DeployingStep, UnitBounds, ledgerVars

LEMMA SettingsStep ==
  ASSUME VaultInv, RolesInv, VaultInv', SettingsValid, VaultStep
  PROVE  SettingsValid'
<1> USE DEF SettingsValid, Deployed
<1>1. ASSUME NEW s \in Signers, NEW args \in DeployArgs, Deploy(s, args)
      PROVE  SettingsValid'
  BY <1>1, DeployFields
<1>2. ASSUME NEW s \in Signers, NEW r \in Rates, UpdateExchangeRate(s, r)
      PROVE  SettingsValid'
  BY <1>2, UpdateFields
<1>3. ASSUME NEW sub \in SubAccounts, Claiming(sub) PROVE SettingsValid'
  BY <1>3, ClaimFields, VaultTypes DEF TellerState
<1>4. CASE QuietStep
  BY <1>4 DEF QuietStep, SettingsKept
<1> QED
  BY <1>1, <1>2, <1>3, <1>4, StepKinds

LEMMA DriftStep ==
  ASSUME VaultInv, RolesInv, VaultInv', HistoryTypes, HistoryTypes', SettingsValid,
         DriftInv, VaultStep, Remember, Deployed'
  PROVE  LoosestBounds' /\ (~config'.paused => \E k \in Nat : DriftWithin(k)')
<1>1. CASE VouchingStep
  <2>1. vouched' = Vouched
    BY <1>1 DEF Remember
  <2> QED
    BY <2>1, VouchedDrift
<1>2. CASE ~VouchingStep
  <2>1. vouched' = Loosened
    BY <1>2 DEF Remember
  <2>2. Deployed /\ (~config'.paused => ~config.paused)
    BY <1>2, VaultTypes, NextVaultTypes DEF VouchingStep, DeployingStep, Deployed, VaultState
  <2>3. LoosestBounds
    BY <2>2 DEF DriftInv
  <2>4. TellerTypes(teller) /\ TellerTypes(teller') /\ now \in Nat
        /\ teller.last_update_timestamp <= now
    BY VaultTypes, NextVaultTypes
  <2>5. /\ vouched.rate \in Nat /\ vouched.time \in Nat /\ vouched.upper_bound \in Nat
        /\ vouched.lower_bound \in Nat /\ vouched.minimum_update_delay \in Nat
        /\ vouched'.lower_bound \in Nat /\ vouched'.upper_bound \in Nat
        /\ vouched'.minimum_update_delay \in Nat
    BY DEF HistoryTypes
  <2>6. ASSUME teller'.last_update_timestamp >= teller.last_update_timestamp
        PROVE  LoosestBounds'
    BY <2>1, <2>3, <2>4, <2>5, <2>6, LoosenedFields DEF LoosestBounds, TellerTypes
  <2>7. ASSUME teller'.exchange_rate = teller.exchange_rate,
               teller'.last_update_timestamp = teller.last_update_timestamp
        PROVE  LoosestBounds' /\ (~config'.paused => \E k \in Nat : DriftWithin(k)')
    <3>1. LoosestBounds'
      BY <2>4, <2>6, <2>7 DEF TellerTypes
    <3>2. ASSUME ~config'.paused PROVE \E k \in Nat : DriftWithin(k)'
      <4>1. PICK k \in Nat : DriftWithin(k)
        BY <2>2, <3>2 DEF DriftInv
      <4> QED
        BY <2>1, <2>3, <2>7, <4>1, LoosenedDrift
    <3> QED
      BY <3>1, <3>2
  <2>8. ASSUME NEW s \in Signers, NEW args \in DeployArgs, Deploy(s, args) PROVE FALSE
    BY <1>2, <2>8, DeployFields DEF VouchingStep
  <2>9. ASSUME NEW s \in Signers, NEW r \in Rates, UpdateExchangeRate(s, r)
        PROVE  LoosestBounds' /\ (~config'.paused => \E k \in Nat : DriftWithin(k)')
    <3>1. LoosestBounds'
      BY <2>4, <2>6, <2>9, UpdateFields
    <3>2. ASSUME ~config'.paused PROVE \E k \in Nat : DriftWithin(k)'
      <4>1. ~config.paused /\ ~ShouldPause(r) /\ r \in Nat
            /\ teller'.exchange_rate = r /\ teller'.last_update_timestamp = now
        BY <2>9, <3>2, UpdateFields
      <4>2. PICK k \in Nat : DriftWithin(k)
        BY <2>2, <4>1 DEF DriftInv
      <4>3. /\ now >= teller.last_update_timestamp + teller.minimum_update_delay
            /\ r * BpsScale <= teller.exchange_rate * teller.upper_bound
            /\ r * BpsScale >= teller.exchange_rate * teller.lower_bound
        BY <2>4, <4>1, NatTimes DEF ShouldPause, TellerTypes, BpsScale
      <4>4. WithinUpdates(r, vouched.rate, vouched.lower_bound, vouched.upper_bound, k + 1)
        BY <2>2, <2>3, <2>4, <2>5, <4>1, <4>2, <4>3, OneMoreUpdate
           DEF DriftWithin, LoosestBounds, SettingsValid, UnitBounds, TellerTypes
      <4>5. WithinUpdates(r, vouched'.rate, vouched'.lower_bound, vouched'.upper_bound, k + 1)
        <5>1. /\ k + 1 \in Nat /\ vouched'.rate = vouched.rate
              /\ vouched.upper_bound <= vouched'.upper_bound
              /\ vouched'.lower_bound <= vouched.lower_bound
          BY <2>1, LoosenedFields
        <5>2. WithinUpdates(r, vouched.rate, vouched'.lower_bound, vouched'.upper_bound, k + 1)
          BY <2>5, <4>1, <4>4, <5>1, LooserBounds
        <5> QED
          BY <5>1, <5>2
      <4>6. (k + 1) * vouched'.minimum_update_delay <= now - vouched'.time
        <5> DEFINE delay == vouched.minimum_update_delay
                   delay2 == vouched'.minimum_update_delay
        <5>1. delay2 <= delay /\ delay <= teller.minimum_update_delay
              /\ vouched'.time = vouched.time
          BY <2>1, <2>3, LoosenedFields DEF LoosestBounds
        <5>2. k * delay <= teller.last_update_timestamp - vouched.time
          BY <4>2 DEF DriftWithin
        <5>3. delay \in Nat /\ delay2 \in Nat
          BY <2>5
        <5> HIDE DEF delay, delay2
        <5>4. delay2 * (k + 1) <= delay * (k + 1)
          BY <5>1, <5>3, TimesMono
        <5>5. delay * (k + 1) = k * delay + delay /\ k * delay \in Nat
              /\ (k + 1) * delay2 = delay2 * (k + 1) /\ (k + 1) * delay2 \in Nat
          BY <5>3
        <5> QED
          BY <2>4, <2>5, <4>3, <5>1, <5>2, <5>3, <5>4, <5>5 DEF TellerTypes, delay2
      <4> QED
        BY <4>1, <4>5, <4>6 DEF DriftWithin
    <3> QED
      BY <3>1, <3>2
  <2>10. ASSUME NEW sub \in SubAccounts, Claiming(sub)
         PROVE  LoosestBounds' /\ (~config'.paused => \E k \in Nat : DriftWithin(k)')
    BY <2>7, <2>10, ClaimFields, VaultTypes DEF TellerState
  <2>11. CASE QuietStep
    BY <2>7, <2>11 DEF QuietStep
  <2> QED
    BY <2>8, <2>9, <2>10, <2>11, StepKinds
<1> QED
  BY <1>1, <1>2

LEMMA DriftBounded ==
  ASSUME VaultInv, HistoryTypes, SettingsValid, DriftInv
  PROVE  RateDriftBounded
<1> SUFFICES ASSUME Deployed, ~config.paused, vouched.minimum_update_delay > 0
             PROVE  WithinUpdates(teller.exchange_rate, vouched.rate, vouched.lower_bound,
                                  vouched.upper_bound, Updates)
  BY DEF RateDriftBounded, WithinUpdates
<1> DEFINE delay == vouched.minimum_update_delay
           gone  == teller.last_update_timestamp - vouched.time
<1>1. /\ TellerTypes(teller)
      /\ vouched.rate \in Nat /\ vouched.time \in Nat /\ vouched.upper_bound \in Nat
      /\ vouched.lower_bound \in Nat /\ delay \in Nat \ {0}
  BY VaultTypes DEF HistoryTypes
<1>2. LoosestBounds /\ UnitBounds(teller.upper_bound, teller.lower_bound)
  BY DEF DriftInv, SettingsValid
<1>3. PICK k \in Nat : DriftWithin(k)
  BY DEF DriftInv
<1>4. gone \in Nat /\ k * delay <= gone
  BY <1>1, <1>2, <1>3 DEF LoosestBounds, DriftWithin, TellerTypes
<1> HIDE DEF delay, gone
<1>5. gone \div delay \in Nat /\ k <= gone \div delay
  BY <1>1, <1>4, TruncateType, TruncateAtLeast DEF Truncate
<1>6. vouched.lower_bound <= BpsScale /\ BpsScale <= vouched.upper_bound
  BY <1>1, <1>2 DEF LoosestBounds, UnitBounds, ValidBounds, TellerTypes, BpsScale
<1>7. \A j \in Nat : WithinUpdates(teller.exchange_rate, vouched.rate, vouched.lower_bound,
                                   vouched.upper_bound, k + j)
  BY <1>1, <1>3, <1>6, MoreUpdates DEF DriftWithin, TellerTypes
<1>8. (gone \div delay) - k \in Nat /\ k + ((gone \div delay) - k) = gone \div delay
  BY <1>5
<1>9. WithinUpdates(teller.exchange_rate, vouched.rate, vouched.lower_bound,
                    vouched.upper_bound, gone \div delay)
  BY <1>7, <1>8
<1> QED
  BY <1>9 DEF Updates, gone, delay

-----------------------------------------------------------------------------
(* What is charged.  Between two updates the performance fee is at most that  *)
(* on the climb of the mark, the platform fee at most that for the time       *)
(* between them, so that both add up to the climb and the time since launch.  *)

Denominator == BpsScale * ShareScale * SecondsPerYear

ChargedWithin(charged, mark, first, high, elapsed) ==
  charged * Denominator
    <= (mark - first) * high.supply * high.performance_fee_bps * SecondsPerYear
       + mark * high.supply * high.platform_fee_bps * elapsed

PeaksReached ==
  /\ supply <= peak.supply
  /\ teller.platform_fee_bps <= peak.platform_fee_bps
  /\ teller.performance_fee_bps <= peak.performance_fee_bps

ChargeInv ==
  /\ PeaksReached
  /\ ~Deployed => feesPaid = 0
  /\ Deployed =>
       /\ teller.total_shares_last_update <= peak.supply
       /\ launch.rate <= teller.exchange_rate_high_water_mark
       /\ launch.time <= teller.last_update_timestamp
       /\ ChargedWithin(FeesCharged, teller.exchange_rate_high_water_mark, launch.rate,
                        peak, teller.last_update_timestamp - launch.time)

PeakType == [supply: Nat, platform_fee_bps: Nat, performance_fee_bps: Nat]

LEMMA DenominatorType == Denominator \in Nat \ {0} /\ SecondsPerYear \in Nat
BY ShareScaleAssumption, BoundsAssumption, PosTimes DEF Denominator, BpsScale

(* Products of three and four factors. *)
LEMMA TripleAbove ==
  ASSUME NEW a \in Nat, NEW b \in Nat, NEW c \in Nat,
         NEW x \in Nat, NEW y \in Nat, NEW z \in Nat, a <= x, b <= y, c <= z
  PROVE  a * b * c <= x * y * z /\ a * b * c \in Nat /\ x * y * z \in Nat
<1>1. a * b <= x * y /\ a * b \in Nat /\ x * y \in Nat
  BY ProductsAbove
<1> QED
  BY <1>1, ProductsAbove

LEMMA QuadrupleAbove ==
  ASSUME NEW a \in Nat, NEW b \in Nat, NEW c \in Nat, NEW d \in Nat,
         NEW w \in Nat, NEW x \in Nat, NEW y \in Nat, NEW z \in Nat,
         a <= w, b <= x, c <= y, d <= z
  PROVE  a * b * c * d <= w * x * y * z /\ a * b * c * d \in Nat /\ w * x * y * z \in Nat
<1>1. a * b * c <= w * x * y /\ a * b * c \in Nat /\ w * x * y \in Nat
  BY TripleAbove
<1> QED
  BY <1>1, ProductsAbove

(* The bound rises with all that it depends on. *)
LEMMA BoundRises ==
  ASSUME NEW charged \in Nat, NEW mark \in Nat, NEW first \in Nat, first <= mark,
         NEW high \in PeakType, NEW high2 \in PeakType,
         high.supply <= high2.supply,
         high.platform_fee_bps <= high2.platform_fee_bps,
         high.performance_fee_bps <= high2.performance_fee_bps,
         NEW elapsed \in Nat, NEW elapsed2 \in Nat, elapsed <= elapsed2,
         ChargedWithin(charged, mark, first, high, elapsed)
  PROVE  ChargedWithin(charged, mark, first, high2, elapsed2)
<1>1. /\ high.supply \in Nat /\ high.platform_fee_bps \in Nat
      /\ high.performance_fee_bps \in Nat
      /\ high2.supply \in Nat /\ high2.platform_fee_bps \in Nat
      /\ high2.performance_fee_bps \in Nat
      /\ mark - first \in Nat /\ SecondsPerYear \in Nat /\ mark <= mark
      /\ charged * Denominator \in Nat
  BY DenominatorType, NatTimes DEF PeakType
<1> DEFINE climb(h) == (mark - first) * h.supply * h.performance_fee_bps * SecondsPerYear
           time(h, e) == mark * h.supply * h.platform_fee_bps * e
<1>2. climb(high) <= climb(high2) /\ climb(high) \in Nat /\ climb(high2) \in Nat
  BY <1>1, QuadrupleAbove
<1>3. /\ time(high, elapsed) <= time(high2, elapsed2)
      /\ time(high, elapsed) \in Nat /\ time(high2, elapsed2) \in Nat
  <2> DEFINE S == high.supply
             f == high.platform_fee_bps
             S2 == high2.supply
             f2 == high2.platform_fee_bps
  <2>1. /\ S \in Nat /\ f \in Nat /\ S2 \in Nat /\ f2 \in Nat /\ S <= S2 /\ f <= f2
        /\ mark <= mark
    BY <1>1
  <2> HIDE DEF S, f, S2, f2
  <2>2. /\ mark * S * f * elapsed <= mark * S2 * f2 * elapsed2
        /\ mark * S * f * elapsed \in Nat /\ mark * S2 * f2 * elapsed2 \in Nat
    BY <2>1, QuadrupleAbove
  <2> QED
    BY <2>2 DEF S, f, S2, f2
<1>4. charged * Denominator <= climb(high) + time(high, elapsed)
  BY DEF ChargedWithin
<1> HIDE DEF climb, time
<1>5. charged * Denominator <= climb(high2) + time(high2, elapsed2)
  BY <1>1, <1>2, <1>3, <1>4
<1> QED
  BY <1>5 DEF ChargedWithin, climb, time

LEMMA PlatformFeeAbove ==
  ASSUME VaultInv, HistoryTypes, PeaksReached, NEW r \in Nat,
         teller.total_shares_last_update <= peak.supply
  PROVE  PlatformFee(r) * Denominator
           <= HighWaterMark(r) * peak.supply * peak.platform_fee_bps
                * (now - teller.last_update_timestamp)
<1> DEFINE rate == IF r > teller.exchange_rate THEN teller.exchange_rate ELSE r
           gone == now - teller.last_update_timestamp
           due  == rate * SharesCharged * teller.platform_fee_bps * gone
<1>1. TellerTypes(teller) /\ supply \in Nat /\ gone \in Nat
  BY VaultTypes DEF TellerTypes
<1>2. /\ rate \in Nat /\ SharesCharged \in Nat /\ HighWaterMark(r) \in Nat
      /\ rate <= HighWaterMark(r) /\ SharesCharged <= peak.supply
      /\ teller.platform_fee_bps \in Nat
      /\ peak.supply \in Nat /\ peak.platform_fee_bps \in Nat
      /\ teller.platform_fee_bps <= peak.platform_fee_bps
  BY <1>1 DEF TellerTypes, SharesCharged, HighWaterMark, HistoryTypes, PeaksReached
<1> HIDE DEF rate, gone
<1>3. /\ due <= HighWaterMark(r) * peak.supply * peak.platform_fee_bps * gone
      /\ due \in Nat
  BY <1>1, <1>2, QuadrupleAbove
<1>4. /\ ShareScale * BpsScale * SecondsPerYear \in Nat \ {0}
      /\ Denominator = ShareScale * BpsScale * SecondsPerYear
  BY ShareScaleAssumption, BoundsAssumption, PosTimes DEF Denominator, BpsScale
<1> HIDE DEF due
<1>5. PlatformFee(r) = Truncate(due, ShareScale * BpsScale * SecondsPerYear)
  BY DEF PlatformFee, due, rate, gone
<1>6. PlatformFee(r) * Denominator <= due
  BY <1>3, <1>4, <1>5, TruncateBelow
<1>7. PlatformFee(r) * Denominator \in Nat
  BY FeesType, DenominatorType, NatTimes
<1>8. HighWaterMark(r) * peak.supply * peak.platform_fee_bps * gone \in Nat
  BY <1>1, <1>2, QuadrupleAbove
<1>9. PlatformFee(r) * Denominator
        <= HighWaterMark(r) * peak.supply * peak.platform_fee_bps * gone
  BY <1>3, <1>6, <1>7, <1>8
<1> QED
  BY <1>9 DEF gone

LEMMA PerformanceFeeAbove ==
  ASSUME VaultInv, HistoryTypes, PeaksReached, NEW r \in Nat,
         teller.total_shares_last_update <= peak.supply
  PROVE  PerformanceFee(r) * Denominator
           <= (HighWaterMark(r) - teller.exchange_rate_high_water_mark)
                * peak.supply * peak.performance_fee_bps * SecondsPerYear
<1> DEFINE mark == teller.exchange_rate_high_water_mark
           climb == HighWaterMark(r) - mark
           due == climb * SharesCharged * teller.performance_fee_bps
           most == climb * peak.supply * peak.performance_fee_bps
<1>1. TellerTypes(teller) /\ supply \in Nat
  BY VaultTypes
<1>2. /\ climb \in Nat /\ SharesCharged \in Nat /\ SharesCharged <= peak.supply
      /\ teller.performance_fee_bps \in Nat
      /\ peak.supply \in Nat /\ peak.performance_fee_bps \in Nat
      /\ teller.performance_fee_bps <= peak.performance_fee_bps
  BY <1>1 DEF TellerTypes, SharesCharged, HighWaterMark, HistoryTypes, PeaksReached
<1>3. /\ ShareScale * BpsScale \in Nat \ {0}
      /\ Denominator = (ShareScale * BpsScale) * SecondsPerYear
      /\ SecondsPerYear \in Nat
  BY ShareScaleAssumption, BoundsAssumption, PosTimes DEF Denominator, BpsScale
<1>4. PerformanceFee(r) \in Nat
  BY FeesType
<1>5. PerformanceFee(r) * (ShareScale * BpsScale) <= due
  <2>1. CASE r > mark
    <3>1. climb = r - mark
      BY <1>1, <2>1 DEF HighWaterMark
    <3>2. due \in Nat
      BY <1>2, TripleAbove
    <3>3. PerformanceFee(r) = Truncate(due, ShareScale * BpsScale)
      BY <2>1, <3>1 DEF PerformanceFee
    <3> HIDE DEF due
    <3> QED
      BY <1>3, <3>2, <3>3, TruncateBelow
  <2>2. CASE ~(r > mark)
    <3>1. PerformanceFee(r) = 0 /\ climb = 0
      BY <1>1, <2>2 DEF PerformanceFee, HighWaterMark, TellerTypes
    <3>2. 0 * SharesCharged * teller.performance_fee_bps = 0
          /\ 0 * (ShareScale * BpsScale) = 0
      BY <1>2, <1>3
    <3> HIDE DEF climb
    <3> QED
      BY <3>1, <3>2
  <2> QED
    BY <2>1, <2>2
<1> HIDE DEF mark, climb
<1>6. due <= most /\ due \in Nat /\ most \in Nat
  BY <1>2, TripleAbove
<1> HIDE DEF due, most
<1>7. PerformanceFee(r) * (ShareScale * BpsScale) \in Nat
      /\ PerformanceFee(r) * (ShareScale * BpsScale) <= most
  BY <1>3, <1>4, <1>5, <1>6, NatTimes
<1>8. (PerformanceFee(r) * (ShareScale * BpsScale)) * SecondsPerYear
        <= most * SecondsPerYear
  BY <1>3, <1>6, <1>7, TimesMono
<1>9. (PerformanceFee(r) * (ShareScale * BpsScale)) * SecondsPerYear
        = PerformanceFee(r) * Denominator
  BY <1>3, <1>4
<1> QED
  BY <1>8, <1>9 DEF most, climb, mark

(* An accepted update adds its two fees below what the bound rises by. *)
LEMMA UpdateCharges ==
  ASSUME VaultInv, HistoryTypes, ChargeInv, Deployed, NEW r \in Nat,
         NEW elapsed, elapsed = now - launch.time
  PROVE  ChargedWithin(FeesCharged + PlatformFee(r) + PerformanceFee(r), HighWaterMark(r),
                       launch.rate, peak, elapsed)
<1> DEFINE mark  == teller.exchange_rate_high_water_mark
           mark2 == HighWaterMark(r)
           first == launch.rate
           gone  == now - teller.last_update_timestamp
           before == teller.last_update_timestamp - launch.time
           fee   == PlatformFee(r)
           gain  == PerformanceFee(r)
           c     == FeesCharged
           S     == peak.supply
           p     == peak.performance_fee_bps
           f     == peak.platform_fee_bps
<1>1. /\ TellerTypes(teller) /\ now \in Nat /\ teller.last_update_timestamp <= now
      /\ SecondsPerYear \in Nat /\ Denominator \in Nat
  BY VaultTypes, DenominatorType
<1>2. /\ S \in Nat /\ p \in Nat /\ f \in Nat /\ first \in Nat /\ launch.time \in Nat
      /\ feesPaid \in Nat
  BY DEF HistoryTypes
<1>3. /\ first <= mark /\ launch.time <= teller.last_update_timestamp
      /\ teller.total_shares_last_update <= peak.supply
      /\ ChargedWithin(c, mark, first, peak, before)
  BY DEF ChargeInv
<1>4. /\ mark \in Nat /\ mark2 \in Nat /\ mark <= mark2
      /\ gone \in Nat /\ before \in Nat /\ elapsed = before + gone
      /\ c \in Nat
  BY <1>1, <1>2, <1>3 DEF TellerTypes, HighWaterMark, FeesCharged
<1>5. /\ fee * Denominator <= mark2 * S * f * gone
      /\ gain * Denominator <= (mark2 - mark) * S * p * SecondsPerYear
      /\ fee \in Nat /\ gain \in Nat
  BY <1>3, FeesType, PlatformFeeAbove, PerformanceFeeAbove DEF ChargeInv
<1>6. c * Denominator
        <= (mark - first) * S * p * SecondsPerYear + mark * S * f * before
  BY <1>3 DEF ChargedWithin
<1> HIDE DEF mark, mark2, first, gone, before, fee, gain, c, S, p, f
<1> DEFINE A == S * p * SecondsPerYear
           B == S * f
<1>7. A \in Nat /\ B \in Nat
  BY <1>1, <1>2, NatTimes, TripleAbove
<1>8. /\ (mark - first) * S * p * SecondsPerYear = (mark - first) * A
      /\ (mark2 - mark) * S * p * SecondsPerYear = (mark2 - mark) * A
      /\ (mark2 - first) * S * p * SecondsPerYear = (mark2 - first) * A
      /\ mark * S * f * before = (mark * before) * B
      /\ mark2 * S * f * gone = (mark2 * gone) * B
      /\ mark2 * S * f * elapsed = (mark2 * elapsed) * B
  <2>1. \A x \in Int : x * S * p * SecondsPerYear = x * A
    BY <1>1, <1>2
  <2>2. \A x, e \in Int : x * S * f * e = (x * e) * B
    BY <1>1, <1>2
  <2>3. mark - first \in Int /\ mark2 - mark \in Int /\ mark2 - first \in Int
        /\ mark \in Int /\ mark2 \in Int /\ before \in Int /\ gone \in Int
        /\ elapsed \in Int
    BY <1>2, <1>4
  <2> HIDE DEF A, B
  <2>4. /\ (mark - first) * S * p * SecondsPerYear = (mark - first) * A
        /\ (mark2 - mark) * S * p * SecondsPerYear = (mark2 - mark) * A
        /\ (mark2 - first) * S * p * SecondsPerYear = (mark2 - first) * A
    BY <2>1, <2>3, Zenon
  <2>5. /\ mark * S * f * before = (mark * before) * B
        /\ mark2 * S * f * gone = (mark2 * gone) * B
        /\ mark2 * S * f * elapsed = (mark2 * elapsed) * B
    BY <2>2, <2>3, Zenon
  <2> QED
    BY <2>4, <2>5
<1> HIDE DEF A, B
<1>9. (mark2 - first) * A = (mark - first) * A + (mark2 - mark) * A
  BY <1>2, <1>4, <1>7
<1>10. (mark2 * elapsed) * B = (mark2 * before) * B + (mark2 * gone) * B
  BY <1>4, <1>7
<1>11. (mark * before) * B <= (mark2 * before) * B
  <2>1. mark * before <= mark2 * before /\ mark * before \in Nat /\ mark2 * before \in Nat
    BY <1>4, ProductsAbove
  <2> QED
    BY <1>7, <2>1, TimesMono
<1>12. (c + fee + gain) * Denominator = c * Denominator + fee * Denominator + gain * Denominator
  BY <1>1, <1>4, <1>5
<1>13. /\ c * Denominator \in Nat /\ fee * Denominator \in Nat /\ gain * Denominator \in Nat
       /\ (mark - first) * A \in Int /\ (mark2 - mark) * A \in Int
       /\ (mark * before) * B \in Int /\ (mark2 * before) * B \in Int
       /\ (mark2 * gone) * B \in Int
  BY <1>1, <1>2, <1>4, <1>5, <1>7
<1>14. (c + fee + gain) * Denominator <= (mark2 - first) * A + (mark2 * elapsed) * B
  BY <1>5, <1>6, <1>8, <1>9, <1>10, <1>11, <1>12, <1>13
<1>15. (c + fee + gain) * Denominator
         <= (mark2 - first) * S * p * SecondsPerYear + mark2 * S * f * elapsed
  BY <1>8, <1>14
<1> QED
  BY <1>15 DEF ChargedWithin, mark2, first, fee, gain, c, S, p, f

LEMMA RememberTypes ==
  ASSUME VaultInv, RolesInv, VaultInv', HistoryTypes, Remember
  PROVE  HistoryTypes'
<1>1. TellerTypes(teller) /\ TellerTypes(teller') /\ supply' \in Nat /\ now \in Nat
  BY VaultTypes, NextVaultTypes
<1>2. launch' \in [rate: Nat, time: Nat]
  BY <1>1 DEF Remember, HistoryTypes, TellerTypes
<1>3. peak' \in [supply: Nat, platform_fee_bps: Nat, performance_fee_bps: Nat]
  BY <1>1 DEF Remember, Lifted, Higher, HistoryTypes, TellerTypes
<1>4. feesPaid' \in Nat
  <2>1. ASSUME NEW sub \in SubAccounts, Claiming(sub)
        PROVE  tokens[BaseAsset][sub] - tokens'[BaseAsset][sub] \in Nat
    BY <1>1, <2>1, ClaimFields DEF TellerTypes
  <2> QED
    BY <2>1 DEF Remember, HistoryTypes
<1> QED
  BY <1>2, <1>3, <1>4, VouchedTypes DEF HistoryTypes

LEMMA LiftedFields ==
  ASSUME VaultInv, VaultInv', HistoryTypes, Remember
  PROVE  /\ peak' \in PeakType /\ peak \in PeakType
         /\ PeaksReached'
         /\ peak.supply <= peak'.supply
         /\ peak.platform_fee_bps <= peak'.platform_fee_bps
         /\ peak.performance_fee_bps <= peak'.performance_fee_bps
<1>1. TellerTypes(teller') /\ supply' \in Nat
  BY NextVaultTypes
<1> QED
  BY <1>1 DEF Remember, Lifted, Higher, HistoryTypes, TellerTypes, PeaksReached, PeakType

LEMMA ChargeStep ==
  ASSUME VaultInv, RolesInv, VaultInv', HistoryTypes, HistoryTypes', ChargeInv,
         VaultStep, Remember
  PROVE  ChargeInv'
<1>1. /\ TellerTypes(teller) /\ TellerTypes(teller') /\ now \in Nat /\ now' \in Nat
      /\ teller.last_update_timestamp <= now /\ teller \in TellerState
      /\ program.vault_count \in 0..1 /\ program'.vault_count \in 0..1
  BY VaultTypes, NextVaultTypes
<1>2. /\ launch.rate \in Nat /\ launch.time \in Nat /\ feesPaid \in Nat
      /\ peak.supply \in Nat /\ peak'.supply \in Nat
  BY DEF HistoryTypes
<1>3. /\ peak' \in PeakType /\ peak \in PeakType
      /\ PeaksReached'
      /\ peak.supply <= peak'.supply
      /\ peak.platform_fee_bps <= peak'.platform_fee_bps
      /\ peak.performance_fee_bps <= peak'.performance_fee_bps
  BY LiftedFields
<1>4. supply \in Nat /\ supply <= peak.supply
  BY VaultTypes DEF ChargeInv, PeaksReached
<1>5. ASSUME UNCHANGED feesPaid, NEW s \in Signers, NEW args \in DeployArgs, Deploy(s, args)
      PROVE  ChargeInv'
  <2>1. /\ ~Deployed /\ DeployingStep /\ supply' = supply
        /\ teller'.exchange_rate_high_water_mark = teller'.exchange_rate
        /\ teller'.fees_owed_in_base_asset = 0
        /\ teller'.total_shares_last_update = supply
        /\ teller'.last_update_timestamp = now
    BY <1>5, DeployFields
  <2>2. feesPaid' = 0 /\ FeesCharged' = 0
    BY <1>5, <2>1 DEF ChargeInv, FeesCharged
  <2>3. launch'.rate = teller'.exchange_rate /\ launch'.time = now
    BY <2>1 DEF Remember
  <2>4. ChargedWithin(0, teller'.exchange_rate, teller'.exchange_rate, peak', 0)
    <3> DEFINE rate == teller'.exchange_rate
               S == peak'.supply
               p == peak'.performance_fee_bps
               f == peak'.platform_fee_bps
    <3>1. /\ rate \in Nat /\ S \in Nat /\ p \in Nat /\ f \in Nat /\ SecondsPerYear \in Nat
          /\ Denominator \in Nat
      BY <1>1, <1>3, DenominatorType DEF TellerTypes, PeakType
    <3> HIDE DEF rate, S, p, f
    <3>2. 0 * Denominator = 0 /\ rate - rate = 0 /\ rate * S * f \in Nat
          /\ 0 * S = 0 /\ 0 * p = 0 /\ 0 * SecondsPerYear = 0
      BY <3>1, TripleAbove
    <3>3. (rate * S * f) * 0 = 0
      BY <3>2
    <3>4. 0 * Denominator <= (rate - rate) * S * p * SecondsPerYear + rate * S * f * 0
      BY <3>2, <3>3
    <3> QED
      BY <3>4 DEF ChargedWithin, rate, S, p, f
  <2>5. teller'.last_update_timestamp - launch'.time = 0
    BY <1>1, <2>1, <2>3
  <2> QED
    BY <1>1, <1>2, <1>3, <1>4, <2>1, <2>2, <2>3, <2>4, <2>5
       DEF ChargeInv, Deployed, DeployingStep, TellerTypes
<1>6. ASSUME program'.vault_count = program.vault_count,
             teller'.exchange_rate_high_water_mark = teller.exchange_rate_high_water_mark,
             teller'.total_shares_last_update = teller.total_shares_last_update
               \/ teller'.total_shares_last_update = supply,
             teller'.last_update_timestamp >= teller.last_update_timestamp,
             FeesCharged' = FeesCharged,
             ~Deployed => feesPaid' = 0
      PROVE  ChargeInv'
  <2>1. launch' = launch
    BY <1>1, <1>6 DEF Remember, DeployingStep
  <2>2. ASSUME Deployed
        PROVE  ChargedWithin(FeesCharged', teller'.exchange_rate_high_water_mark,
                             launch'.rate, peak',
                             teller'.last_update_timestamp - launch'.time)
    <3>1. /\ launch.rate <= teller.exchange_rate_high_water_mark
          /\ launch.time <= teller.last_update_timestamp
          /\ ChargedWithin(FeesCharged, teller.exchange_rate_high_water_mark, launch.rate,
                           peak, teller.last_update_timestamp - launch.time)
      BY <2>2 DEF ChargeInv
    <3>2. /\ teller.last_update_timestamp - launch.time \in Nat
          /\ teller'.last_update_timestamp - launch.time \in Nat
          /\ teller.last_update_timestamp - launch.time
               <= teller'.last_update_timestamp - launch.time
          /\ FeesCharged \in Nat /\ teller.exchange_rate_high_water_mark \in Nat
      BY <1>1, <1>2, <1>6, <3>1 DEF TellerTypes, FeesCharged
    <3>3. ChargedWithin(FeesCharged, teller.exchange_rate_high_water_mark, launch.rate,
                        peak', teller'.last_update_timestamp - launch.time)
      BY <1>2, <1>3, <3>1, <3>2, BoundRises
    <3> QED
      BY <1>6, <2>1, <3>3
  <2> QED
    BY <1>1, <1>2, <1>3, <1>4, <1>6, <2>1, <2>2 DEF ChargeInv, Deployed, TellerTypes
<1>7. ASSUME UNCHANGED feesPaid, NEW s \in Signers, NEW r \in Rates, UpdateExchangeRate(s, r)
      PROVE  ChargeInv'
  <2>1. /\ Deployed /\ r \in Nat /\ program' = program
        /\ teller'.last_update_timestamp = now
        /\ teller'.total_shares_last_update = supply
    BY <1>7, UpdateFields
  <2>2. CASE /\ teller'.fees_owed_in_base_asset = teller.fees_owed_in_base_asset
             /\ teller'.exchange_rate_high_water_mark = teller.exchange_rate_high_water_mark
    BY <1>1, <1>6, <1>7, <2>1, <2>2 DEF FeesCharged
  <2>3. CASE /\ teller'.fees_owed_in_base_asset
                  = teller.fees_owed_in_base_asset + PlatformFee(r) + PerformanceFee(r)
             /\ teller'.exchange_rate_high_water_mark = HighWaterMark(r)
    <3>1. launch' = launch
      BY <1>1, <2>1 DEF Remember, DeployingStep
    <3>2. /\ launch.rate <= teller.exchange_rate_high_water_mark
          /\ launch.time <= teller.last_update_timestamp
      BY <2>1 DEF ChargeInv
    <3>3. /\ HighWaterMark(r) \in Nat /\ launch.rate <= HighWaterMark(r)
          /\ now - launch.time \in Nat
      BY <1>1, <1>2, <2>1, <3>2 DEF TellerTypes, HighWaterMark
    <3>4. PlatformFee(r) \in Nat /\ PerformanceFee(r) \in Nat /\ FeesCharged \in Nat
      BY <1>1, <1>2, <2>1, FeesType DEF FeesCharged, TellerTypes
    <3>5. FeesCharged' = FeesCharged + PlatformFee(r) + PerformanceFee(r)
      BY <1>1, <1>2, <1>7, <2>3, <3>4 DEF FeesCharged, TellerTypes
    <3>6. ChargedWithin(FeesCharged', HighWaterMark(r), launch.rate, peak, now - launch.time)
      BY <2>1, <3>5, UpdateCharges
    <3>7. FeesCharged' \in Nat
      BY <3>4, <3>5
    <3>8. ChargedWithin(FeesCharged', HighWaterMark(r), launch.rate, peak', now - launch.time)
      BY <1>2, <1>3, <3>3, <3>6, <3>7, BoundRises
    <3>9. launch.time <= now
      BY <1>1, <1>2, <3>2 DEF TellerTypes
    <3> QED
      BY <1>2, <1>3, <1>4, <2>1, <2>3, <3>1, <3>3, <3>8, <3>9 DEF ChargeInv, Deployed
  <2> QED
    BY <1>7, <2>2, <2>3, UpdateFields
<1>8. ASSUME NEW sub \in SubAccounts, Claiming(sub),
             feesPaid' = feesPaid + (tokens[BaseAsset][sub] - tokens'[BaseAsset][sub])
      PROVE  ChargeInv'
  <2>1. /\ program' = program /\ Deployed
        /\ teller' = [teller EXCEPT !.fees_owed_in_base_asset = 0]
        /\ feesPaid' = feesPaid + teller.fees_owed_in_base_asset
    BY <1>8, ClaimFields
  <2>2. /\ teller'.fees_owed_in_base_asset = 0
        /\ teller'.exchange_rate_high_water_mark = teller.exchange_rate_high_water_mark
        /\ teller'.total_shares_last_update = teller.total_shares_last_update
        /\ teller'.last_update_timestamp = teller.last_update_timestamp
    BY <1>1, <2>1 DEF TellerState
  <2>3. FeesCharged' = FeesCharged
    BY <1>1, <1>2, <2>1, <2>2 DEF FeesCharged, TellerTypes
  <2>4. teller'.last_update_timestamp >= teller.last_update_timestamp
    BY <1>1, <2>2 DEF TellerTypes
  <2> QED
    BY <1>6, <2>1, <2>2, <2>3, <2>4
<1>9. ASSUME UNCHANGED feesPaid, QuietStep PROVE ChargeInv'
  <2>1. FeesCharged' = FeesCharged /\ (~Deployed => feesPaid' = 0)
        /\ teller'.last_update_timestamp >= teller.last_update_timestamp
    BY <1>1, <1>9 DEF QuietStep, FeesCharged, ChargeInv, TellerTypes
  <2> QED
    BY <1>6, <1>9, <2>1 DEF QuietStep
<1>10. CASE \A sub \in SubAccounts : ~Claiming(sub)
  <2>1. UNCHANGED feesPaid
    BY <1>10 DEF Remember
  <2> QED
    BY <1>5, <1>7, <1>9, <1>10, <2>1, StepKinds
<1> QED
  BY <1>8, <1>10 DEF Remember

LEMMA ChargeBounded ==
  ASSUME VaultInv, HistoryTypes, ChargeInv
  PROVE  FeesNeverDoubleCharged
<1> SUFFICES ASSUME Deployed
             PROVE  ChargedWithin(FeesCharged, teller.exchange_rate_high_water_mark,
                                  launch.rate, peak, now - launch.time)
  <2>1. FeesCharged \in Nat /\ ShareScale \in Nat /\ SecondsPerYear \in Nat
    BY VaultTypes, ShareScaleAssumption, BoundsAssumption
       DEF FeesCharged, HistoryTypes, TellerTypes
  <2>2. FeesCharged * BpsScale * ShareScale * SecondsPerYear = FeesCharged * Denominator
    BY <2>1 DEF Denominator, BpsScale
  <2> QED
    BY <2>2 DEF FeesNeverDoubleCharged, ChargedWithin
<1> DEFINE mark == teller.exchange_rate_high_water_mark
           last == teller.last_update_timestamp
<1>1. /\ TellerTypes(teller) /\ now \in Nat /\ last <= now
      /\ launch.rate \in Nat /\ launch.time \in Nat /\ feesPaid \in Nat /\ peak \in PeakType
      /\ peak.supply \in Nat /\ peak.platform_fee_bps \in Nat
      /\ peak.performance_fee_bps \in Nat
  BY VaultTypes DEF HistoryTypes, PeakType
<1>2. /\ launch.rate <= mark /\ launch.time <= last
      /\ ChargedWithin(FeesCharged, mark, launch.rate, peak, last - launch.time)
  BY DEF ChargeInv
<1>3. /\ last - launch.time \in Nat /\ now - launch.time \in Nat
      /\ last - launch.time <= now - launch.time
      /\ FeesCharged \in Nat /\ mark \in Nat
  BY <1>1, <1>2 DEF FeesCharged, TellerTypes
<1>4. /\ peak.supply <= peak.supply /\ peak.platform_fee_bps <= peak.platform_fee_bps
      /\ peak.performance_fee_bps <= peak.performance_fee_bps
  BY <1>1
<1> HIDE DEF mark, last
<1>5. ChargedWithin(FeesCharged, mark, launch.rate, peak, now - launch.time)
  BY <1>1, <1>2, <1>3, <1>4, BoundRises
<1> QED
  BY <1>5 DEF mark

-----------------------------------------------------------------------------

FeesInv == HistoryTypes /\ SettingsValid /\ DriftInv /\ ChargeInv

LEMMA InitFeesInv == FeesInit => FeesInv
BY DEF FeesInit, Init, FeesInv, HistoryTypes, SettingsValid, DriftInv, ChargeInv,
       PeaksReached, Deployed

LEMMA NextFeesInv ==
  ASSUME VaultInv, RolesInv, VaultInv', FeesInv, [VaultStep /\ Remember]_feesVars
  PROVE  FeesInv'
<1> USE DEF FeesInv
<1>1. CASE VaultStep /\ Remember
  <2>1. HistoryTypes'
    BY <1>1, RememberTypes
  <2>2. SettingsValid'
    BY <1>1, SettingsStep
  <2>3. DriftInv'
    BY <1>1, <2>1, DriftStep DEF DriftInv
  <2>4. ChargeInv'
    BY <1>1, <2>1, ChargeStep
  <2> QED
    BY <2>1, <2>2, <2>3, <2>4
<1>2. CASE UNCHANGED feesVars
  <2>1. UNCHANGED <<program, config, teller, supply, vouched, launch, peak, feesPaid>>
    BY <1>2 DEF feesVars, vaultVars, historyVars, adminVars, ledgerVars
  <2>2. HistoryTypes' /\ SettingsValid'
    BY <2>1 DEF HistoryTypes, SettingsValid, Deployed
  <2>3. DriftInv'
    BY <2>1 DEF DriftInv, Deployed, LoosestBounds, DriftWithin
  <2>4. ChargeInv'
    BY <2>1 DEF ChargeInv, PeaksReached, Deployed, FeesCharged
  <2> QED
    BY <2>2, <2>3, <2>4
<1> QED
  BY <1>1, <1>2

LEMMA FeesInvariant == FeesSpec => [](VaultInv /\ FeesInv)
<1>1. FeesInit => VaultInv /\ RolesInv /\ FeesInv
  BY InitVaultInv, InitRoles, InitFeesInv DEF FeesInit
<1>2. ASSUME VaultInv /\ RolesInv /\ FeesInv, [VaultStep /\ Remember]_feesVars
      PROVE  (VaultInv /\ RolesInv /\ FeesInv)'
  <2>1. [VaultStep]_vaultVars
    BY <1>2 DEF feesVars
  <2>2. VaultInv' /\ RolesInv'
    BY <1>2, <2>1, VaultStepInv
  <2> QED
    BY <1>2, <2>2, NextFeesInv
<1> QED
  BY <1>1, <1>2, PTL DEF FeesSpec

(* At most one update per minimum_update_delay, each within the bounds,       *)
(* separates the rate an open vault trades at from the last one somebody      *)
(* vouched for, for all bounds, delays and however they change                *)
(* (update_exchange_rate, configure_exchange_rate_update_bounds, unpause).    *)
THEOREM VaultRateDriftBounded == FeesSpec => []RateDriftBounded
<1>1. VaultInv /\ FeesInv => RateDriftBounded
  BY DriftBounded DEF FeesInv
<1> QED
  BY <1>1, FeesInvariant, PTL

(* All fees ever charged, owed or paid out, are at most one performance fee   *)
(* on the climb of the high water mark and one platform fee for the time      *)
(* since the deployment, at the highest fees and supply there have been       *)
(* (update_exchange_rate, set_fees, claim_fees_in_base).                      *)
THEOREM VaultFeesNeverDoubleCharged == FeesSpec => []FeesNeverDoubleCharged
<1>1. VaultInv /\ FeesInv => FeesNeverDoubleCharged
  BY ChargeBounded DEF FeesInv
<1> QED
  BY <1>1, FeesInvariant, PTL

-----------------------------------------------------------------------------
(* The age of prices.  The oracles are well formed, the clock shows the time  *)
(* of the slot, and what is published was so in a slot gone by, at its time.  *)

OracleInv ==
  /\ slot \in 0..MaxSlot
  /\ now = TimeAt(slot)
  /\ oracle \in [Assets -> OracleSource]
  /\ published \subseteq Publication
  /\ \A u \in published : u.slot <= slot /\ u.time = TimeAt(u.slot)

LEMMA TimeMono ==
  ASSUME NEW m \in Nat, NEW n \in Nat, m <= n
  PROVE  TimeAt(m) \in Nat /\ TimeAt(m) <= TimeAt(n)
BY DEF TimeAt

(* Two and a half slots a second. *)
LEMMA SecondsOfSlots ==
  ASSUME NEW m \in Nat, NEW n \in Nat, NEW k \in Nat, n - m <= (k * 5) \div 2
  PROVE  TimeAt(n) - TimeAt(m) <= k
<1>1. 2 * n <= 2 * m + 5 * k
  OBVIOUS
<1> QED
  BY <1>1 DEF TimeAt

LEMMA SaturatingBelow ==
  ASSUME NEW m \in Nat, NEW n \in Nat
  PROVE  SaturatingMul(m, n) \in Nat /\ SaturatingMul(m, n) <= m * n
<1>1. m * n \in Nat
  BY NatTimes
<1> QED
  BY <1>1, OracleAssumption DEF SaturatingMul

LEMMA SourceFields ==
  ASSUME NEW source \in OracleSource
  PROVE  /\ source.feed \in Feeds \cup {NoFeed}
         /\ source.max_staleness \in Nat
BY DEF OracleSource

(* Both ways of reading the limit let a price through only if it is as recent *)
(* as the limit in seconds says.                                              *)
LEMMA SwitchboardRecent ==
  ASSUME OracleInv, NEW u \in published, NEW limit \in Nat, limit >= 60,
         u.slot >= slot - StalenessSlots(limit)
  PROVE  now - u.time <= limit
<1> DEFINE slots == SaturatingMul(limit, 5)
<1>1. slots \in Nat /\ slots <= limit * 5
  BY SaturatingBelow
<1>2. u.slot \in Nat /\ slot \in Nat /\ u.time = TimeAt(u.slot) /\ now = TimeAt(slot)
  BY OracleAssumption DEF OracleInv, Publication
<1>3. StalenessSlots(limit) <= slots \div 2 /\ StalenessSlots(limit) \in Int
  <2>1. ~(limit < 60)
    OBVIOUS
  <2>2. slots \div 2 \in Nat
    BY <1>1
  <2> HIDE DEF slots
  <2>3. StalenessSlots(limit) = IF slots \div 2 > slot THEN slot ELSE slots \div 2
    BY <2>1 DEF StalenessSlots, slots
  <2> QED
    BY <1>2, <2>2, <2>3
<1> HIDE DEF slots
<1>4. slots \div 2 <= (limit * 5) \div 2
  BY <1>1
<1>5. slot - u.slot <= (limit * 5) \div 2
  BY <1>2, <1>3, <1>4, <1>1
<1> QED
  BY <1>2, <1>5, SecondsOfSlots

LEMMA PythRecent ==
  ASSUME OracleInv, NEW u \in published, NEW limit \in Nat,
         u.time + SlotsToSeconds(limit) >= now
  PROVE  now - u.time <= limit
<1> DEFINE tenths == SaturatingMul(limit, 4)
<1>1. tenths \in Nat /\ tenths <= limit * 4
  BY SaturatingBelow
<1>2. SlotsToSeconds(limit) = tenths \div 10
  BY DEF SlotsToSeconds
<1> HIDE DEF tenths
<1>3. SlotsToSeconds(limit) <= limit /\ SlotsToSeconds(limit) \in Nat
  BY <1>1, <1>2
<1>4. u.time \in Nat /\ now \in Nat
  <2>1. u.slot \in Nat /\ u.slot <= slot /\ slot \in Nat
    BY OracleAssumption DEF OracleInv, Publication
  <2> QED
    BY <2>1, TimeMono DEF OracleInv
<1> QED
  BY <1>3, <1>4

(* What read_oracle returns was published by the feed, positive and recent.   *)
LEMMA ReadRecent ==
  ASSUME OracleInv, NEW source \in OracleSource, NEW p \in ReadOracle(source)
  PROVE  /\ p \in PositivePrice
         /\ \E u \in PublishedBy(source.feed) :
              /\ u.quote.price = p /\ u.quote.price[1] > 0
              /\ TestLimit(source) \/ now - u.time <= source.max_staleness
<1> DEFINE Good(u) ==
      /\ u.quote.price = p /\ u.quote.price[1] > 0
      /\ TestLimit(source) \/ now - u.time <= source.max_staleness
<1>1. \A u \in PublishedBy(source.feed) : u \in published
  BY DEF PublishedBy
<1>2. source.max_staleness \in Nat
  BY SourceFields
<1>3. \E u \in PublishedBy(source.feed) : Good(u)
  <2>1. CASE source.adapter = "SwitchboardV2"
    <3> DEFINE recent == {u \in PublishedBy(source.feed) :
                 u.slot >= slot - StalenessSlots(source.max_staleness)}
    <3>1. p \in GetValue(source.feed, StalenessSlots(source.max_staleness),
                         source.min_samples)
      BY <2>1 DEF ReadOracle
    <3>2. p \in {u.quote.price : u \in {v \in Medians(recent) : v.quote.price[1] > 0}}
      BY <3>1 DEF GetValue
    <3>3. Medians(recent) \subseteq recent
      BY DEF Medians
    <3>4. PICK u \in recent : u.quote.price = p /\ u.quote.price[1] > 0
      BY <3>2, <3>3
    <3>5. u \in PublishedBy(source.feed) /\ u \in published
      BY <1>1, <3>4
    <3>6. source.max_staleness >= 60 => now - u.time <= source.max_staleness
      BY <1>2, <3>4, <3>5, SwitchboardRecent
    <3> QED
      BY <1>2, <2>1, <3>4, <3>5, <3>6 DEF TestLimit
  <2>2. CASE source.adapter # "SwitchboardV2"
    <3>1. p \in {u.quote.price : u \in
                   {v \in NoOlderThan(source.feed, SlotsToSeconds(source.max_staleness)) :
                      ConfidentEnough(v.quote, source.max_conf_width_bps)}}
      BY <2>2 DEF ReadOracle
    <3>2. PICK u \in NoOlderThan(source.feed, SlotsToSeconds(source.max_staleness)) :
            u.quote.price = p /\ ConfidentEnough(u.quote, source.max_conf_width_bps)
      BY <3>1
    <3>3. u \in PublishedBy(source.feed) /\ u \in published
      BY <1>1, <3>2 DEF NoOlderThan
    <3>4. now - u.time <= source.max_staleness
      BY <1>2, <3>2, <3>3, PythRecent DEF NoOlderThan
    <3> QED
      BY <3>2, <3>3, <3>4 DEF ConfidentEnough
  <2> QED
    BY <2>1, <2>2
<1>4. p \in PositivePrice
  <2>1. PICK u \in PublishedBy(source.feed) : Good(u)
    BY <1>3
  <2>2. u \in Publication
    BY <1>1, <2>1 DEF OracleInv
  <2>3. u.quote \in Quote
    BY <2>2 DEF Publication
  <2>4. u.quote.price \in Int \X (Nat \ {0})
    BY <2>3 DEF Quote
  <2> QED
    BY <2>1, <2>4 DEF PositivePrice
<1> QED
  BY <1>3, <1>4

LEMMA PricesForPositive ==
  ASSUME OracleInv, NEW a \in Assets
  PROVE  PricesFor(a) \subseteq PositivePrice
<1>1. oracle[a] \in OracleSource
  BY DEF OracleInv
<1>2. <<1, 1>> \in PositivePrice
  BY DEF PositivePrice
<1> QED
  BY <1>1, <1>2, ReadRecent DEF PricesFor

LEMMA InitOracleInv == OracleInit /\ Init => OracleInv
<1> SUFFICES ASSUME OracleInit, Init PROVE OracleInv
  OBVIOUS
<1>1. oracle \in [Assets -> OracleSource]
  BY DEF OracleInit, OracleSource
<1>2. slot \in 0..MaxSlot /\ now = TimeAt(slot)
  BY OracleAssumption DEF OracleInit, Init, TimeAt
<1> QED
  BY <1>1, <1>2 DEF OracleInit, OracleInv

OracleVaultInv == VaultInv /\ RolesInv /\ OracleInv

LEMMA TradeInv ==
  ASSUME OracleVaultInv, NEW s, NEW n \in Nat, NEW least, Trade(s, n, least)
  PROVE  OracleVaultInv'
<1>1. Mints \subseteq Assets /\ Native \in Assets
  BY DEF Assets
<1>2. VaultInv' /\ UNCHANGED <<adminVars, now>>
  <2>1. ASSUME NEW a \in Mints, NEW p \in PricesFor(a), Deposit(s, a, n, least, p)
        PROVE  VaultInv' /\ UNCHANGED <<adminVars, now>>
    BY <1>1, <2>1, PricesForPositive, DepositInv DEF OracleVaultInv, Deposit
  <2>2. ASSUME NEW a \in Mints, NEW p \in PricesFor(a), Withdraw(s, a, n, least, p)
        PROVE  VaultInv' /\ UNCHANGED <<adminVars, now>>
    BY <1>1, <2>2, PricesForPositive, WithdrawInv DEF OracleVaultInv, Withdraw
  <2>3. ASSUME NEW p \in PricesFor(Native), DepositSol(s, n, least, p)
        PROVE  VaultInv' /\ UNCHANGED <<adminVars, now>>
    BY <1>1, <2>3, PricesForPositive, DepositSolInv DEF OracleVaultInv, DepositSol
  <2> QED
    BY <2>1, <2>2, <2>3 DEF Trade
<1>3. RolesInv'
  BY <1>2, RolesKept DEF adminVars, OracleVaultInv
<1>4. OracleInv'
  BY <1>2 DEF Trade, oracleVars, OracleVaultInv, OracleInv
<1> QED
  BY <1>2, <1>3, <1>4 DEF OracleVaultInv

LEMMA PassSlotsInv ==
  ASSUME OracleVaultInv, NEW n \in SlotSteps, PassSlots(n)
  PROVE  OracleVaultInv'
<1>1. slot \in Nat /\ slot' \in Nat /\ slot <= slot' /\ slot' \in 0..MaxSlot
  BY OracleAssumption DEF OracleVaultInv, OracleInv, PassSlots
<1>2. now = TimeAt(slot) /\ now' = TimeAt(slot') /\ now <= now' /\ now' \in Nat
  BY <1>1, TimeMono DEF OracleVaultInv, OracleInv, PassSlots
<1>3. now' <= MaxTime
  <2>1. TimeAt(slot') <= TimeAt(MaxSlot) /\ TimeAt(MaxSlot) \in Nat
    BY <1>1, OracleAssumption, TimeMono
  <2> QED
    BY <1>2, <2>1, OracleAssumption, BoundsAssumption
<1>4. VaultInv'
  <2>1. teller.last_update_timestamp \in Nat /\ now \in Nat
    BY <1>1, <1>2, TimeMono DEF OracleVaultInv, VaultInv, TypeOK, TellerState
  <2>2. teller.last_update_timestamp <= now'
    BY <1>2, <2>1 DEF OracleVaultInv, VaultInv
  <2>3. UNCHANGED <<adminVars, ledgerVars>> /\ now' \in 0..MaxTime
    BY <1>2, <1>3, BoundsAssumption DEF PassSlots
  <2> QED
    BY <2>2, <2>3
       DEF adminVars, ledgerVars, OracleVaultInv, VaultInv, TypeOK, PremiumsBounded
<1>5. RolesInv'
  BY RolesKept DEF PassSlots, adminVars, OracleVaultInv
<1>6. OracleInv'
  <2>1. \A u \in published : u.slot \in Nat /\ u.slot <= slot'
    BY <1>1 DEF OracleVaultInv, OracleInv, Publication
  <2> QED
    BY <1>1, <1>2, <2>1 DEF PassSlots, OracleVaultInv, OracleInv
<1> QED
  BY <1>4, <1>5, <1>6 DEF OracleVaultInv

LEMMA OracleStepInv ==
  ASSUME OracleVaultInv, [OracleStep]_<<vaultVars, oracleVars>>
  PROVE  OracleVaultInv'
<1>1. ASSUME NEW s \in Signers, NEW n \in Amounts, NEW least, Trade(s, n, least)
      PROVE  OracleVaultInv'
  BY <1>1, InputsAssumption, TradeInv
<1>2. ASSUME NEW s \in Signers, NEW a \in Assets, NEW data \in AssetDatas,
             NEW source \in OracleSettings, ConfigureAsset(s, a, data, source)
      PROVE  OracleVaultInv'
  <2>1. Administer(s)
    BY <1>2 DEF ConfigureAsset, Administer
  <2>2. VaultInv' /\ RolesInv'
    BY <2>1, VaultStepInv DEF VaultStep, OracleVaultInv
  <2>3. source \in OracleSource
    BY OracleAssumption
  <2>4. UNCHANGED <<slot, published, now>> /\ oracle' = [oracle EXCEPT ![a] = source]
    BY <1>2 DEF ConfigureAsset, UpdateAssetData
  <2>5. OracleInv'
    BY <2>3, <2>4 DEF OracleVaultInv, OracleInv
  <2> QED
    BY <2>2, <2>5 DEF OracleVaultInv
<1>3. ASSUME NEW feed \in Feeds, NEW quote \in Quotes, Publish(feed, quote)
      PROVE  OracleVaultInv'
  <2> DEFINE new == [feed |-> feed, quote |-> quote, slot |-> slot, time |-> now]
  <2>1. UNCHANGED <<vaultVars, slot, oracle>> /\ published' = published \cup {new}
    BY <1>3 DEF Publish
  <2>2. VaultInv' /\ RolesInv' /\ now' = now
    BY <2>1, VaultStepInv DEF OracleVaultInv, vaultVars
  <2>3. slot \in Nat /\ now = TimeAt(slot) /\ now \in Nat
    BY OracleAssumption, TimeMono DEF OracleVaultInv, OracleInv
  <2>4. new \in Publication /\ new.slot <= slot /\ new.time = TimeAt(new.slot)
    BY <2>3, OracleAssumption DEF Publication
  <2> HIDE DEF new
  <2>5. OracleInv'
    BY <2>1, <2>2, <2>4 DEF OracleVaultInv, OracleInv
  <2> QED
    BY <2>2, <2>5 DEF OracleVaultInv
<1>4. ASSUME NEW n \in SlotSteps, PassSlots(n) PROVE OracleVaultInv'
  BY <1>4, PassSlotsInv
<1>5. CASE ElseStep
  <2>1. VaultInv' /\ RolesInv'
    BY <1>5, VaultStepInv DEF ElseStep, VaultStep, OracleVaultInv
  <2> QED
    BY <1>5, <2>1 DEF ElseStep, oracleVars, OracleVaultInv, OracleInv
<1>6. CASE UNCHANGED <<vaultVars, oracleVars>>
  <2>1. VaultInv' /\ RolesInv' /\ now' = now
    BY <1>6, VaultStepInv DEF OracleVaultInv, vaultVars
  <2> QED
    BY <1>6, <2>1 DEF oracleVars, OracleVaultInv, OracleInv
<1> QED
  BY <1>1, <1>2, <1>3, <1>4, <1>5, <1>6 DEF OracleStep

LEMMA OracleInvariant == OracleSpec => []OracleVaultInv
<1>1. Init /\ OracleInit => OracleVaultInv
  BY InitVaultInv, InitRoles, InitOracleInv DEF OracleVaultInv
<1>2. OracleVaultInv /\ [OracleStep]_<<vaultVars, oracleVars>> => OracleVaultInv'
  BY OracleStepInv
<1> QED
  BY <1>1, <1>2, PTL DEF OracleSpec

(* Only a deposit or a withdrawal changes the supply and an asset's balances  *)
(* in one step.                                                               *)
RecentTrade(a) ==
  \E u \in PublishedBy(oracle[a].feed) :
    /\ u.quote.price[1] > 0 /\ TradedAt(a, u)
    /\ TestLimit(oracle[a]) \/ now - u.time <= oracle[a].max_staleness

LEMMA TradedRead ==
  ASSUME OracleVaultInv, NEW a \in Assets, NeedsPrice(a), NEW p \in PricesFor(a),
         \A u : u.quote.price = p => TradedAt(a, u)
  PROVE  RecentTrade(a)
<1>1. oracle[a] \in OracleSource
  BY DEF OracleVaultInv, OracleInv
<1>2. p \in ReadOracle(oracle[a])
  BY DEF PricesFor
<1> QED
  BY <1>1, <1>2, ReadRecent DEF OracleVaultInv, RecentTrade

LEMMA DepositTraded ==
  ASSUME OracleVaultInv, NEW s \in Signers, NEW b \in Assets, NEW n \in Nat, NEW least,
         NEW p \in PricesFor(b), TakeDeposit(s, b, n),
         CalculateSharesAndMint(s, b, n, least, p),
         NEW a \in Assets, Trades(a)
  PROVE  RecentTrade(a)
<1> DEFINE to == config.deposit_sub_account
           out == SharesOut(b, n, p)
<1>1. /\ tokens \in [Assets -> [Accounts -> Nat]] /\ supply \in Nat
      /\ s \in Accounts /\ to \in Accounts /\ s # to
  BY KeysAssumption DEF OracleVaultInv, VaultInv, TypeOK, VaultState, Keys, Accounts
<1>2. tokens' = [tokens EXCEPT ![b] = Move(@, s, to, n)]
  BY DEF TakeDeposit
<1>3. supply' = supply + out /\ supply' # supply
  BY DEF CalculateSharesAndMint, Trades
<1>4. out \in Nat
  BY PricesForPositive, SharesOutType DEF OracleVaultInv, CalculateSharesAndMint
<1>5. a = b
  BY <1>1, <1>2 DEF Trades
<1>6. tokens'[a][to] - tokens[a][to] = n
  BY <1>1, <1>2, <1>5 DEF Move
<1> HIDE DEF out
<1>7. supply' > supply /\ supply' - supply = out
  BY <1>1, <1>3, <1>4
<1>8. ASSUME NEW u, u.quote.price = p PROVE TradedAt(a, u)
  BY <1>5, <1>6, <1>7, <1>8 DEF TradedAt, out
<1> QED
  BY <1>5, <1>8, TradedRead DEF Trades

LEMMA WithdrawTraded ==
  ASSUME OracleVaultInv, NEW s, NEW b \in Mints, NEW n \in Nat, NEW least,
         NEW p \in PricesFor(b), Withdraw(s, b, n, least, p),
         NEW a \in Assets, Trades(a)
  PROVE  RecentTrade(a)
<1> DEFINE from == config.withdraw_sub_account
           out == AssetsOut(b, n, p)
<1>1. /\ tokens \in [Assets -> [Accounts -> Nat]] /\ supply \in Nat /\ b \in Assets
      /\ s \in Accounts /\ from \in Accounts /\ s # from
  BY KeysAssumption
     DEF OracleVaultInv, VaultInv, TypeOK, VaultState, Keys, Accounts, Assets, Withdraw
<1>2. tokens' = [tokens EXCEPT ![b] = Move(@, from, s, out)]
  BY DEF Withdraw
<1>3. supply' = supply - n /\ supply' # supply
  BY DEF Withdraw, BurnFrom, Trades
<1>4. out \in Nat
  BY <1>1, PricesForPositive, AssetsOutType DEF OracleVaultInv, VaultInv
<1>5. a = b
  BY <1>1, <1>2 DEF Trades
<1> HIDE DEF out
<1>6. tokens[a][from] - tokens'[a][from] = out
  BY <1>1, <1>2, <1>4, <1>5 DEF Move
<1>7. supply' < supply /\ supply - supply' = n
  BY <1>1, <1>3
<1>8. ASSUME NEW u, u.quote.price = p PROVE TradedAt(a, u)
  BY <1>5, <1>6, <1>7, <1>8 DEF TradedAt, out
<1> QED
  BY <1>5, <1>8, TradedRead DEF Trades

LEMMA ElseNoTrade ==
  ASSUME VaultInv, ElseStep
  PROVE  supply' = supply \/ tokens' = tokens
<1>1. CASE Setup
  BY <1>1 DEF Setup, Initialize, Deploy, ledgerVars
<1>2. ASSUME NEW s \in Signers, Administer(s) PROVE supply' = supply
  <2>1. Frozen
    BY <1>2, PausedAdminister
  <2> QED
    BY <2>1 DEF Frozen
<1>3. ASSUME NEW s \in Signers, Operate(s) PROVE supply' = supply \/ tokens' = tokens
  BY <1>3 DEF Operate, UpdateExchangeRate, ClaimFeesInBase, Manage, MintShares,
              BurnShares, ledgerVars
<1>4. CASE Environment
  BY <1>4 DEF Environment, TransferShares, TransferTokens, Tick, ledgerVars
<1> QED
  BY <1>1, <1>2, <1>3, <1>4 DEF ElseStep

LEMMA RecentTradeStep ==
  ASSUME OracleVaultInv, [OracleStep]_<<vaultVars, oracleVars>>,
         NEW a \in Assets, Trades(a)
  PROVE  RecentTrade(a)
<1>0. supply' # supply /\ tokens' # tokens
  BY DEF Trades
<1>1. ASSUME NEW s \in Signers, NEW n \in Amounts, NEW least, Trade(s, n, least)
      PROVE  RecentTrade(a)
  <2>1. Mints \subseteq Assets /\ Native \in Assets /\ n \in Nat
    BY InputsAssumption DEF Assets
  <2>2. ASSUME NEW b \in Mints, NEW p \in PricesFor(b), Deposit(s, b, n, least, p)
        PROVE  RecentTrade(a)
    BY <2>1, <2>2, DepositTraded DEF Deposit
  <2>3. ASSUME NEW b \in Mints, NEW p \in PricesFor(b), Withdraw(s, b, n, least, p)
        PROVE  RecentTrade(a)
    BY <2>1, <2>3, WithdrawTraded
  <2>4. ASSUME NEW p \in PricesFor(Native), DepositSol(s, n, least, p)
        PROVE  RecentTrade(a)
    BY <2>1, <2>4, DepositTraded DEF DepositSol
  <2> QED
    BY <1>1, <2>2, <2>3, <2>4 DEF Trade
<1>2. CASE ElseStep
  BY <1>0, <1>2, ElseNoTrade DEF OracleVaultInv
<1>3. ASSUME NEW s, NEW b, NEW data, NEW source, ConfigureAsset(s, b, data, source)
      PROVE  FALSE
  BY <1>0, <1>3 DEF ConfigureAsset, UpdateAssetData, ledgerVars
<1>4. ASSUME NEW feed, NEW quote, Publish(feed, quote) PROVE FALSE
  BY <1>0, <1>4 DEF Publish, vaultVars, ledgerVars
<1>5. ASSUME NEW n, PassSlots(n) PROVE FALSE
  BY <1>0, <1>5 DEF PassSlots, ledgerVars
<1>6. ~UNCHANGED <<vaultVars, oracleVars>>
  BY <1>0 DEF vaultVars, ledgerVars
<1> QED
  BY <1>1, <1>2, <1>3, <1>4, <1>5, <1>6 DEF OracleStep

(* Whatever the feeds, their prices, the limits of staleness and the order in *)
(* which oracles are replaced, a trade in a priced asset is settled at a      *)
(* price the configured feed published no longer ago than the limit in        *)
(* seconds (read_oracle, both adapters).                                      *)
THEOREM VaultTradesAtRecentPrices == OracleSpec => TradesAtRecentPrices
<1>1. OracleVaultInv /\ [OracleStep]_<<vaultVars, oracleVars>>
        => [\A a \in Assets : Trades(a) => RecentTrade(a)]_<<vaultVars, oracleVars>>
  BY RecentTradeStep
<1>2. (\A a \in Assets : Trades(a) => RecentTrade(a))
        <=> \A a \in Assets : Trades(a) =>
              \E u \in PublishedBy(oracle[a].feed) :
                /\ u.quote.price[1] > 0 /\ TradedAt(a, u)
                /\ TestLimit(oracle[a]) \/ now - u.time <= oracle[a].max_staleness
  BY DEF RecentTrade
<1> QED
  BY <1>1, <1>2, OracleInvariant, PTL DEF OracleSpec, TradesAtRecentPrices

-----------------------------------------------------------------------------
(* The value behind the shares, counted in units.                             *)

UnitsIn(x, balances, worth) == {x} \X (1..(balances[x[1]][x[2]] * worth[x[1]]))

UnitsOf(balances, worth) ==
  UNION {UnitsIn(x, balances, worth) : x \in Assets \X SubAccounts}

Balances == [Assets -> [Accounts -> Nat]]
Worths   == [Assets -> Nat]

LEMMA UnitsFinite ==
  ASSUME NEW b \in Balances, NEW w \in Worths
  PROVE  /\ IsFiniteSet(UnitsOf(b, w))
         /\ Cardinality(UnitsOf(b, w)) \in Nat
<1> DEFINE places == Assets \X SubAccounts
           sets   == {UnitsIn(x, b, w) : x \in places}
           f      == [x \in places |-> UnitsIn(x, b, w)]
<1>1. IsFiniteSet(places)
  <2>1. IsFiniteSet(Assets)
    BY BackingAssumption, FS_AddElement DEF Assets
  <2> QED
    BY <2>1, BackingAssumption, FS_Product
<1>2. f \in Surjection(places, sets)
  BY DEF Surjection
<1>3. IsFiniteSet(sets)
  BY <1>1, <1>2, FS_Surjection
<1>4. ASSUME NEW x \in places PROVE IsFiniteSet(UnitsIn(x, b, w))
  <2>1. x[1] \in Assets /\ x[2] \in Accounts
    BY DEF Accounts
  <2>2. b[x[1]][x[2]] * w[x[1]] \in Nat
    BY <2>1, NatTimes DEF Balances, Worths
  <2> DEFINE k == b[x[1]][x[2]] * w[x[1]]
  <2> HIDE DEF k
  <2>3. k \in Int /\ 1 \in Int
    BY <2>2 DEF k
  <2>4. IsFiniteSet(1..k) /\ IsFiniteSet({x})
    BY <2>3, FS_Interval, FS_Singleton
  <2>5. IsFiniteSet({x} \X (1..k))
    BY <2>4, FS_Product
  <2> QED
    BY <2>5 DEF UnitsIn, k
<1>5. \A T \in sets : IsFiniteSet(T)
  BY <1>4
<1>6. IsFiniteSet(UnitsOf(b, w))
  BY <1>3, <1>5, FS_UNION DEF UnitsOf
<1> QED
  BY <1>6, FS_CardinalityType

(* Balances that do not fall are worth no less. *)
LEMMA UnitsMono ==
  ASSUME NEW b \in Balances, NEW c \in Balances, NEW w \in Worths,
         \A a \in Assets, sub \in SubAccounts : c[a][sub] >= b[a][sub]
  PROVE  Cardinality(UnitsOf(b, w)) <= Cardinality(UnitsOf(c, w))
<1>1. ASSUME NEW x \in Assets \X SubAccounts
      PROVE  UnitsIn(x, b, w) \subseteq UnitsIn(x, c, w)
  <2>1. x[1] \in Assets /\ x[2] \in SubAccounts /\ x[2] \in Accounts
    BY DEF Accounts
  <2>2. b[x[1]][x[2]] \in Nat /\ c[x[1]][x[2]] \in Nat /\ w[x[1]] \in Nat
    BY <2>1 DEF Balances, Worths
  <2>3. b[x[1]][x[2]] * w[x[1]] <= c[x[1]][x[2]] * w[x[1]]
    BY <2>1, <2>2, TimesMono
  <2>4. b[x[1]][x[2]] * w[x[1]] \in Nat /\ c[x[1]][x[2]] * w[x[1]] \in Nat
    BY <2>2, NatTimes
  <2> QED
    BY <2>3, <2>4 DEF UnitsIn
<1>2. UnitsOf(b, w) \subseteq UnitsOf(c, w)
  BY <1>1 DEF UnitsOf
<1> QED
  BY <1>2, UnitsFinite, FS_Subset

(* One balance that rises by n adds n times the worth of its asset. *)
LEMMA UnitsRise ==
  ASSUME NEW b \in Balances, NEW c \in Balances, NEW w \in Worths,
         NEW a \in Assets, NEW sub \in SubAccounts, NEW n \in Nat,
         c[a][sub] = b[a][sub] + n,
         \A d \in Assets, other \in SubAccounts :
           <<d, other>> # <<a, sub>> => c[d][other] = b[d][other]
  PROVE  Cardinality(UnitsOf(c, w)) = Cardinality(UnitsOf(b, w)) + n * w[a]
<1> DEFINE m    == b[a][sub] * w[a]
           k    == n * w[a]
           here == <<a, sub>>
           new  == {here} \X ((m + 1)..(m + k))
<1>1. b[a][sub] \in Nat /\ w[a] \in Nat /\ m \in Nat /\ k \in Nat
  <2>1. b[a][sub] \in Nat /\ w[a] \in Nat
    BY DEF Balances, Worths, Accounts
  <2> QED
    BY <2>1, NatTimes
<1>2. c[a][sub] * w[a] = m + k
  BY <1>1
<1>3. here \in Assets \X SubAccounts /\ here[1] = a /\ here[2] = sub
  OBVIOUS
<1>4. UnitsIn(here, c, w) = UnitsIn(here, b, w) \cup new
  <2>1. 1..(m + k) = (1..m) \cup ((m + 1)..(m + k))
    BY <1>1
  <2>2. UnitsIn(here, c, w) = {here} \X (1..(m + k)) /\ UnitsIn(here, b, w) = {here} \X (1..m)
    BY <1>2, <1>3 DEF UnitsIn
  <2> QED
    BY <2>1, <2>2
<1>5. ASSUME NEW x \in Assets \X SubAccounts, x # here
      PROVE  UnitsIn(x, c, w) = UnitsIn(x, b, w)
  <2>1. x[1] \in Assets /\ x[2] \in SubAccounts /\ <<x[1], x[2]>> # <<a, sub>>
    BY <1>5
  <2>2. c[x[1]][x[2]] = b[x[1]][x[2]]
    BY <2>1
  <2> QED
    BY <2>2 DEF UnitsIn
<1>6. \A x : UnitsIn(x, b, w) \cap new # {} => x = here
  BY DEF UnitsIn
<1>7. UnitsIn(here, b, w) \cap new = {}
  <2>1. UnitsIn(here, b, w) = {here} \X (1..m)
    BY <1>3 DEF UnitsIn
  <2>2. (1..m) \cap ((m + 1)..(m + k)) = {}
    BY <1>1
  <2> QED
    BY <2>1, <2>2
<1> HIDE DEF m, k, here, new
<1>8. UnitsOf(c, w) = UnitsOf(b, w) \cup new
  <2>1. ASSUME NEW u \in UnitsOf(c, w) PROVE u \in UnitsOf(b, w) \cup new
    <3>1. PICK x \in Assets \X SubAccounts : u \in UnitsIn(x, c, w)
      BY DEF UnitsOf
    <3> QED
      BY <1>3, <1>4, <1>5, <3>1 DEF UnitsOf
  <2>2. ASSUME NEW u \in UnitsOf(b, w) PROVE u \in UnitsOf(c, w)
    <3>1. PICK x \in Assets \X SubAccounts : u \in UnitsIn(x, b, w)
      BY DEF UnitsOf
    <3> QED
      BY <1>3, <1>4, <1>5, <3>1 DEF UnitsOf
  <2>3. new \subseteq UnitsOf(c, w)
    BY <1>3, <1>4 DEF UnitsOf
  <2> QED
    BY <2>1, <2>2, <2>3
<1>9. UnitsOf(b, w) \cap new = {}
  <2> SUFFICES ASSUME NEW u \in UnitsOf(b, w), u \in new PROVE FALSE
    OBVIOUS
  <2>1. PICK x \in Assets \X SubAccounts : u \in UnitsIn(x, b, w)
    BY DEF UnitsOf
  <2> QED
    BY <1>6, <1>7, <2>1
<1>10. IsFiniteSet(new) /\ Cardinality(new) = k
  <2> DEFINE first == m + 1
             last  == m + k
             span  == first..last
  <2>1. first \in Int /\ last \in Int
    BY <1>1
  <2>2. (IF first > last THEN 0 ELSE last - first + 1) = k
    BY <1>1
  <2> HIDE DEF first, last
  <2>3. IsFiniteSet(span) /\ Cardinality(span) = k
    BY <2>1, <2>2, FS_Interval
  <2>4. IsFiniteSet({here}) /\ Cardinality({here}) = 1
    BY FS_Singleton
  <2>5. new = {here} \X span
    BY DEF new, first, last
  <2> HIDE DEF span
  <2>6. IsFiniteSet({here} \X span) /\ Cardinality({here} \X span) = 1 * k
    BY <2>3, <2>4, FS_Product
  <2> QED
    BY <1>1, <2>5, <2>6
<1>11. /\ IsFiniteSet(UnitsOf(b, w)) /\ Cardinality(UnitsOf(b, w)) \in Nat
       /\ Cardinality({}) = 0
  BY UnitsFinite, FS_EmptySet
<1>12. Cardinality(UnitsOf(b, w) \cup new)
         = Cardinality(UnitsOf(b, w)) + Cardinality(new) - Cardinality(UnitsOf(b, w) \cap new)
  BY <1>10, <1>11, FS_Union
<1>13. Cardinality(UnitsOf(b, w) \cup new) = Cardinality(UnitsOf(b, w)) + k
  <2>1. Cardinality(UnitsOf(b, w) \cap new) = 0
    BY <1>9, <1>11
  <2>2. \A x \in Nat : x + k - 0 = x + k
    BY <1>1
  <2> QED
    BY <1>10, <1>11, <1>12, <2>1, <2>2
<1> QED
  BY <1>8, <1>13 DEF k

(* What one unit of an asset is worth, as an equation without a division.     *)
LEMMA DividesTimes ==
  ASSUME NEW n \in Nat, NEW d \in Nat \ {0}, n % d = 0
  PROVE  n \div d \in Nat /\ (n \div d) * d = n
OBVIOUS

LEMMA PriceWorth ==
  ASSUME NEW a \in Assets,
         NEW price \in {<<1, 1>>, FixedPrice[a], <<FixedPrice[a][2], FixedPrice[a][1]>>}
  PROVE  /\ price \in (Nat \ {0}) \X (Nat \ {0})
         /\ price[1] * (Unit \div (AssetScale[a] * price[2])) \in Nat
         /\ price[1] * (Unit \div (AssetScale[a] * price[2])) * (AssetScale[a] * price[2])
              = price[1] * Unit
<1> DEFINE scale == AssetScale[a]
           den   == scale * price[2]
           q     == Unit \div den
<1>1. scale \in Nat \ {0} /\ Unit \in Nat
  BY AssetsAssumption, BackingAssumption
<1>2. FixedPrice[a] \in (Nat \ {0}) \X (Nat \ {0})
  BY BackingAssumption
<1>3. price \in (Nat \ {0}) \X (Nat \ {0})
  BY <1>2
<1>4. Unit % den = 0
  <2>1. CASE price = <<1, 1>>
    <3>1. den = scale
      BY <1>1, <2>1
    <3> QED
      BY <3>1, BackingAssumption
  <2>2. CASE price = FixedPrice[a]
    BY <2>2, BackingAssumption
  <2>3. CASE price = <<FixedPrice[a][2], FixedPrice[a][1]>>
    <3>1. den = scale * FixedPrice[a][1]
      BY <2>3
    <3> QED
      BY <3>1, BackingAssumption
  <2> QED
    BY <2>1, <2>2, <2>3
<1>5. den \in Nat \ {0} /\ price[1] \in Nat
  BY <1>1, <1>3, PosTimes
<1> HIDE DEF scale, den
<1>6. q \in Nat /\ q * den = Unit
  BY <1>1, <1>4, <1>5, DividesTimes
<1> HIDE DEF q
<1>7. price[1] * q \in Nat /\ price[1] * q * den = price[1] * Unit
  <2>1. price[1] * q \in Nat
    BY <1>5, <1>6, NatTimes
  <2>2. price[1] * q * den = price[1] * (q * den)
    BY <1>5, <1>6
  <2> QED
    BY <1>6, <2>1, <2>2
<1> QED
  BY <1>3, <1>7 DEF scale, den, q

LEMMA WorthTimes ==
  ASSUME NEW a \in Assets
  PROVE  /\ PriceOf(a) \in (Nat \ {0}) \X (Nat \ {0})
         /\ UnitWorth(a) \in Nat
         /\ UnitWorth(a) * (AssetScale[a] * PriceOf(a)[2]) = PriceOf(a)[1] * Unit
<1>1. PriceOf(a) \in {<<1, 1>>, FixedPrice[a], <<FixedPrice[a][2], FixedPrice[a][1]>>}
  BY DEF PriceOf, OraclePrice
<1> QED
  BY <1>1, PriceWorth DEF UnitWorth

LEMMA NextWorthType ==
  ASSUME NEW a \in Assets
  PROVE  UnitWorth(a)' \in Nat
<1>1. PriceOf(a)' \in {<<1, 1>>, FixedPrice[a], <<FixedPrice[a][2], FixedPrice[a][1]>>}
  BY DEF PriceOf, OraclePrice
<1> QED
  BY <1>1, PriceWorth DEF UnitWorth

(* The shares of a deposit are worth no more than what is deposited.          *)
LEMMA BaseMintWorth ==
  ASSUME NEW n \in Nat, NEW rate \in Nat \ {0}, NEW premium \in 0..BpsScale
  PROVE  SharesForBase(n, rate, premium) * rate <= n * ShareScale
<1> DEFINE m == SharesForBase(n, rate, premium)
           k == n * ShareScale
<1>1. /\ ShareScale \in Nat \ {0} /\ BpsScale \in Nat \ {0} /\ BpsScale - premium \in Nat
      /\ BpsScale - premium <= BpsScale
  BY ShareScaleAssumption DEF BpsScale
<1>2. m \in Nat /\ k \in Nat
  BY <1>1, SharesForBaseType, NatTimes
<1>3. k * (BpsScale - premium) \in Nat /\ rate * BpsScale \in Nat \ {0}
  BY <1>1, <1>2, NatTimes, PosTimes
<1>4. m * (rate * BpsScale) <= k * (BpsScale - premium)
  BY <1>3, TruncateBelow DEF SharesForBase
<1> HIDE DEF m, k
<1>5. k * (BpsScale - premium) <= k * BpsScale
  BY <1>1, <1>2
<1>6. m * rate * BpsScale <= k * BpsScale /\ m * rate \in Nat
  <2>1. m * rate \in Nat /\ m * rate * BpsScale \in Nat /\ k * BpsScale \in Nat
    BY <1>1, <1>2, NatTimes
  <2>2. m * (rate * BpsScale) = m * rate * BpsScale
    BY <1>1, <1>2
  <2> QED
    BY <1>3, <1>4, <1>5, <2>1, <2>2
<1>7. m * rate <= k
  BY <1>1, <1>2, <1>6, TimesCancel
<1> QED
  BY <1>7 DEF m, k

LEMMA PeggedMintWorth ==
  ASSUME NEW n \in Nat, NEW scale \in Nat \ {0}, NEW rate \in Nat \ {0},
         NEW premium \in 0..BpsScale
  PROVE  SharesForPegged(n, scale, rate, premium) * rate * scale
           <= n * ShareScale * ShareScale
<1> DEFINE m == SharesForPegged(n, scale, rate, premium)
           b == Rescale(n, scale, ShareScale)
           k == n * ShareScale
<1>1. ShareScale \in Nat \ {0}
  BY ShareScaleAssumption
<1>2. m \in Nat /\ b \in Nat /\ k \in Nat
  BY <1>1, SharesForPeggedType, RescaleType, NatTimes
<1>3. m * rate <= b * ShareScale
  BY <1>2, BaseMintWorth DEF SharesForPegged
<1>4. b * scale <= k
  BY <1>2, TruncateBelow DEF Rescale
<1> HIDE DEF m, b, k
<1>5. m * rate \in Nat /\ b * ShareScale \in Nat /\ b * scale \in Nat
  BY <1>1, <1>2, NatTimes
<1>6. m * rate * scale <= b * ShareScale * scale
  BY <1>3, <1>5, TimesMono
<1>7. b * scale * ShareScale <= k * ShareScale
  BY <1>1, <1>2, <1>4, <1>5, TimesMono
<1>8. b * ShareScale * scale = b * scale * ShareScale
  BY <1>1, <1>2
<1>9. m * rate * scale \in Nat /\ b * ShareScale * scale \in Nat /\ k * ShareScale \in Nat
  BY <1>1, <1>2, <1>5, NatTimes
<1>10. m * rate * scale <= k * ShareScale
  BY <1>6, <1>7, <1>8, <1>9
<1> QED
  BY <1>10 DEF m, k

LEMMA PricedMintWorth ==
  ASSUME NEW n \in Nat, NEW scale \in Nat \ {0}, NEW rate \in Nat \ {0},
         NEW premium \in 0..BpsScale, NEW price \in (Nat \ {0}) \X (Nat \ {0})
  PROVE  SharesForPriced(n, scale, price, rate, premium) * rate * (scale * price[2])
           <= n * price[1] * ShareScale * ShareScale
<1> DEFINE m == SharesForPriced(n, scale, price, rate, premium)
           k == n * price[1] * ShareScale * ShareScale
           den == scale * price[2]
<1>1. /\ ShareScale \in Nat \ {0} /\ BpsScale \in Nat \ {0} /\ BpsScale - premium \in Nat
      /\ BpsScale - premium <= BpsScale
  BY ShareScaleAssumption DEF BpsScale
<1>2. m \in Nat
  BY SharesForPricedType
<1>3. k \in Nat /\ den \in Nat \ {0}
  <2>1. price[1] \in Nat /\ price[2] \in Nat \ {0}
    OBVIOUS
  <2>2. n * price[1] \in Nat
    BY <2>1, NatTimes
  <2>3. n * price[1] * ShareScale \in Nat
    BY <1>1, <2>2, NatTimes
  <2> QED
    BY <1>1, <2>1, <2>3, NatTimes, PosTimes
<1>4. m = Truncate(k * (BpsScale - premium), den * rate * BpsScale)
  BY DEF SharesForPriced
<1> HIDE DEF m, k, den
<1>5. k * (BpsScale - premium) \in Nat /\ den * rate \in Nat \ {0}
  BY <1>1, <1>3, NatTimes, PosTimes
<1>6. den * rate * BpsScale \in Nat \ {0}
  BY <1>1, <1>5, PosTimes
<1>7. m * (den * rate * BpsScale) <= k * (BpsScale - premium)
  BY <1>4, <1>5, <1>6, TruncateBelow
<1>8. k * (BpsScale - premium) <= k * BpsScale
  BY <1>1, <1>3
<1>9. m * rate * den * BpsScale <= k * BpsScale /\ m * rate * den \in Nat
  <2>1. m * rate \in Nat
    BY <1>2, NatTimes
  <2>2. m * rate * den \in Nat
    BY <1>3, <2>1, NatTimes
  <2>3. m * rate * den * BpsScale \in Nat /\ k * BpsScale \in Nat
    BY <1>1, <1>3, <2>2, NatTimes
  <2>4. m * (den * rate * BpsScale) = m * rate * den * BpsScale
    BY <1>1, <1>2, <1>3
  <2> QED
    BY <1>5, <1>7, <1>8, <2>2, <2>3, <2>4
<1>10. m * rate * den <= k
  BY <1>1, <1>3, <1>9, TimesCancel
<1> QED
  BY <1>10 DEF m, k, den

(* The assets of a withdrawal are worth no more than the shares burnt.        *)
LEMMA PeggedPayWorth ==
  ASSUME NEW k \in Nat, NEW scale \in Nat \ {0}, NEW rate \in Nat
  PROVE  AssetsPegged(k, scale, rate) * ShareScale * ShareScale <= k * rate * scale
<1> DEFINE o == AssetsPegged(k, scale, rate)
           b == AssetsInBase(k, rate)
           r == k * rate
<1>1. ShareScale \in Nat \ {0}
  BY ShareScaleAssumption
<1>2. o \in Nat /\ b \in Nat /\ r \in Nat
  BY AssetsPeggedType, AssetsInBaseType, NatTimes
<1>3. b * ShareScale <= r
  BY <1>1, <1>2, TruncateBelow DEF AssetsInBase
<1>4. o * ShareScale <= b * scale
  BY <1>1, <1>2, NatTimes, TruncateBelow DEF AssetsPegged, Rescale
<1> HIDE DEF o, b, r
<1>5. o * ShareScale \in Nat /\ b * scale \in Nat /\ b * ShareScale \in Nat
  BY <1>1, <1>2, NatTimes
<1>6. o * ShareScale * ShareScale <= b * scale * ShareScale
  BY <1>1, <1>4, <1>5, TimesMono
<1>7. b * ShareScale * scale <= r * scale
  BY <1>2, <1>3, <1>5, TimesMono
<1>8. b * scale * ShareScale = b * ShareScale * scale
  BY <1>1, <1>2
<1>9. /\ o * ShareScale * ShareScale \in Nat /\ b * scale * ShareScale \in Nat
      /\ r * scale \in Nat
  BY <1>1, <1>2, <1>5, NatTimes
<1>10. o * ShareScale * ShareScale <= r * scale
  BY <1>6, <1>7, <1>8, <1>9
<1> QED
  BY <1>10 DEF o, r

LEMMA PricedPayWorth ==
  ASSUME NEW k \in Nat, NEW scale \in Nat \ {0}, NEW rate \in Nat,
         NEW price \in (Nat \ {0}) \X (Nat \ {0})
  PROVE  AssetsPriced(k, scale, price, rate) * price[1] * ShareScale * ShareScale
           <= k * rate * (scale * price[2])
<1> DEFINE o == AssetsPriced(k, scale, price, rate)
           p == price[1]
           q == price[2]
<1>1. ShareScale \in Nat \ {0} /\ p \in Nat \ {0} /\ q \in Nat \ {0}
  BY ShareScaleAssumption
<1>2. o \in Nat
  BY AssetsPricedType
<1>3. o = Truncate(k * rate * q * scale, ShareScale * ShareScale * p)
  BY DEF AssetsPriced
<1> HIDE DEF o, p, q
<1>4. k * rate * q * scale \in Nat /\ ShareScale * ShareScale * p \in Nat \ {0}
  <2>1. k * rate \in Nat /\ ShareScale * ShareScale \in Nat \ {0}
    BY <1>1, NatTimes, PosTimes
  <2>2. k * rate * q \in Nat
    BY <1>1, <2>1, NatTimes
  <2> QED
    BY <1>1, <2>1, <2>2, NatTimes, PosTimes
<1>5. o * (ShareScale * ShareScale * p) <= k * rate * q * scale
  BY <1>3, <1>4, TruncateBelow
<1>6. /\ o * (ShareScale * ShareScale * p) = o * p * ShareScale * ShareScale
      /\ k * rate * q * scale = k * rate * (scale * q)
  BY <1>1, <1>2
<1> QED
  BY <1>5, <1>6 DEF o, p, q

(* All three conversions at once, at the price the asset trades at.           *)
LEMMA MintBelow ==
  ASSUME VaultInv, NEW a \in Assets, NEW n \in Nat, teller.exchange_rate > 0
  PROVE  SharesOut(a, n, FixedPrice[a]) * teller.exchange_rate * (AssetScale[a] * PriceOf(a)[2])
           <= n * PriceOf(a)[1] * ShareScale * ShareScale
<1> DEFINE m       == SharesOut(a, n, FixedPrice[a])
           rate    == teller.exchange_rate
           scale   == AssetScale[a]
           premium == assetData[a].share_premium_bps
<1>1. /\ rate \in Nat \ {0} /\ scale \in Nat \ {0} /\ ShareScale \in Nat \ {0}
      /\ FixedPrice[a] \in PositivePrice
  BY AssetsAssumption, ShareScaleAssumption, BackingAssumption
     DEF VaultInv, TypeOK, TellerState, PositivePrice
<1>2. premium \in 0..BpsScale
  <2>1. premium \in Nat
    BY DEF VaultInv, TypeOK, AssetData
  <2>2. premium <= MaxSharePremium
    BY DEF VaultInv, PremiumsBounded
  <2> QED
    BY <2>1, <2>2, PremiumIsShare
<1>3. m \in Nat
  BY <1>1, SharesOutType
<1>4. CASE a = BaseAsset
  <2>1. PriceOf(a) = <<1, 1>> /\ scale = ShareScale /\ m = SharesForBase(n, rate, premium)
    BY <1>4, AssetsAssumption DEF PriceOf, SharesOut
  <2> HIDE DEF m, rate, scale, premium
  <2>2. m * rate <= n * ShareScale
    BY <1>1, <1>2, <2>1, BaseMintWorth
  <2>3. m * rate \in Nat /\ n * ShareScale \in Nat
    BY <1>1, <1>3, NatTimes
  <2>4. m * rate * ShareScale <= n * ShareScale * ShareScale
    BY <1>1, <2>2, <2>3, TimesMono
  <2>5. m * rate * (scale * PriceOf(a)[2]) <= n * PriceOf(a)[1] * ShareScale * ShareScale
    BY <1>1, <2>1, <2>4
  <2> QED
    BY <2>5 DEF m, rate, scale
<1>5. CASE a # BaseAsset /\ assetData[a].is_pegged_to_base_asset
  <2>1. PriceOf(a) = <<1, 1>> /\ m = SharesForPegged(n, scale, rate, premium)
    BY <1>5 DEF PriceOf, SharesOut
  <2> HIDE DEF m, rate, scale, premium
  <2>2. m * rate * scale <= n * ShareScale * ShareScale
    BY <1>1, <1>2, <2>1, PeggedMintWorth
  <2>3. m * rate * (scale * PriceOf(a)[2]) <= n * PriceOf(a)[1] * ShareScale * ShareScale
    BY <1>1, <2>1, <2>2
  <2> QED
    BY <2>3 DEF m, rate, scale
<1>6. CASE a # BaseAsset /\ ~assetData[a].is_pegged_to_base_asset
  <2>1. /\ PriceOf(a) = OraclePrice(a, FixedPrice[a])
        /\ m = SharesForPriced(n, scale, PriceOf(a), rate, premium)
    BY <1>6 DEF PriceOf, SharesOut
  <2>2. PriceOf(a) \in (Nat \ {0}) \X (Nat \ {0})
    BY WorthTimes
  <2> HIDE DEF m, rate, scale, premium
  <2>3. m * rate * (scale * PriceOf(a)[2]) <= n * PriceOf(a)[1] * ShareScale * ShareScale
    BY <1>1, <1>2, <2>1, <2>2, PricedMintWorth
  <2> QED
    BY <2>3 DEF m, rate, scale
<1> QED
  BY <1>4, <1>5, <1>6

LEMMA PayBelow ==
  ASSUME VaultInv, NEW a \in Assets, NEW k \in Nat
  PROVE  AssetsOut(a, k, FixedPrice[a]) * PriceOf(a)[1] * ShareScale * ShareScale
           <= k * teller.exchange_rate * (AssetScale[a] * PriceOf(a)[2])
<1> DEFINE o     == AssetsOut(a, k, FixedPrice[a])
           rate  == teller.exchange_rate
           scale == AssetScale[a]
<1>1. /\ rate \in Nat /\ scale \in Nat \ {0} /\ ShareScale \in Nat \ {0}
      /\ FixedPrice[a] \in PositivePrice
  BY AssetsAssumption, ShareScaleAssumption, BackingAssumption
     DEF VaultInv, TypeOK, TellerState, PositivePrice
<1>2. o \in Nat
  BY <1>1, AssetsOutType DEF VaultInv
<1>3. CASE a = BaseAsset
  <2>1. PriceOf(a) = <<1, 1>> /\ scale = ShareScale /\ o = AssetsInBase(k, rate)
    BY <1>3, AssetsAssumption DEF PriceOf, AssetsOut
  <2> HIDE DEF o, rate, scale
  <2>2. k * rate \in Nat /\ o * ShareScale \in Nat
    BY <1>1, <1>2, NatTimes
  <2>3. o * ShareScale <= k * rate
    BY <1>1, <2>1, <2>2, TruncateBelow DEF AssetsInBase
  <2>4. o * ShareScale * ShareScale <= k * rate * ShareScale
    BY <1>1, <2>2, <2>3, TimesMono
  <2>5. o * PriceOf(a)[1] * ShareScale * ShareScale <= k * rate * (scale * PriceOf(a)[2])
    BY <1>1, <1>2, <2>1, <2>4
  <2> QED
    BY <2>5 DEF o, rate, scale
<1>4. CASE a # BaseAsset /\ assetData[a].is_pegged_to_base_asset
  <2>1. PriceOf(a) = <<1, 1>> /\ o = AssetsPegged(k, scale, rate)
    BY <1>4 DEF PriceOf, AssetsOut
  <2> HIDE DEF o, rate, scale
  <2>2. o * ShareScale * ShareScale <= k * rate * scale
    BY <1>1, <2>1, PeggedPayWorth
  <2>3. o * PriceOf(a)[1] * ShareScale * ShareScale <= k * rate * (scale * PriceOf(a)[2])
    BY <1>1, <1>2, <2>1, <2>2
  <2> QED
    BY <2>3 DEF o, rate, scale
<1>5. CASE a # BaseAsset /\ ~assetData[a].is_pegged_to_base_asset
  <2>1. /\ PriceOf(a) = OraclePrice(a, FixedPrice[a])
        /\ o = AssetsPriced(k, scale, PriceOf(a), rate)
    BY <1>5 DEF PriceOf, AssetsOut
  <2>2. PriceOf(a) \in (Nat \ {0}) \X (Nat \ {0})
    BY WorthTimes
  <2> HIDE DEF o, rate, scale
  <2>3. o * PriceOf(a)[1] * ShareScale * ShareScale <= k * rate * (scale * PriceOf(a)[2])
    BY <1>1, <2>1, <2>2, PricedPayWorth
  <2> QED
    BY <2>3 DEF o, rate, scale
<1> QED
  BY <1>3, <1>4, <1>5

(* In units of value: what is minted for a deposit, and what is paid for      *)
(* shares.                                                                    *)
LEMMA MintWorth ==
  ASSUME VaultInv, NEW a \in Assets, NEW n \in Nat, teller.exchange_rate > 0
  PROVE  SharesOut(a, n, FixedPrice[a]) * teller.exchange_rate * Unit
           <= n * UnitWorth(a) * ShareScale * ShareScale
<1> DEFINE m    == SharesOut(a, n, FixedPrice[a])
           rate == teller.exchange_rate
           w    == UnitWorth(a)
           p    == PriceOf(a)[1]
           den  == AssetScale[a] * PriceOf(a)[2]
<1>1. rate \in Nat /\ ShareScale \in Nat /\ Unit \in Nat /\ FixedPrice[a] \in PositivePrice
  BY ShareScaleAssumption, BackingAssumption DEF VaultInv, TypeOK, TellerState, PositivePrice
<1>2. m \in Nat
  BY <1>1, SharesOutType
<1>3. w \in Nat /\ p \in Nat \ {0} /\ den \in Nat /\ w * den = p * Unit
  <2>1. PriceOf(a)[1] \in Nat \ {0} /\ PriceOf(a)[2] \in Nat /\ AssetScale[a] \in Nat
    BY WorthTimes, AssetsAssumption
  <2> QED
    BY <2>1, WorthTimes, NatTimes
<1>4. m * rate * den <= n * p * ShareScale * ShareScale
  BY MintBelow
<1> HIDE DEF m, rate, w, p, den
<1>5. /\ m * rate \in Nat /\ m * rate * den \in Nat
      /\ n * p * ShareScale * ShareScale \in Nat
      /\ m * rate * Unit \in Nat /\ n * w * ShareScale * ShareScale \in Nat
  <2>1. m * rate \in Nat /\ n * p \in Nat /\ n * w \in Nat
    BY <1>1, <1>2, <1>3, NatTimes
  <2>2. n * p * ShareScale \in Nat /\ n * w * ShareScale \in Nat
    BY <1>1, <2>1, NatTimes
  <2> QED
    BY <1>1, <1>3, <2>1, <2>2, NatTimes
<1>6. m * rate * den * w <= n * p * ShareScale * ShareScale * w
  BY <1>3, <1>4, <1>5, TimesMono
<1>7. m * rate * den * w = m * rate * Unit * p
  <2>1. m * rate * den * w = m * rate * (w * den)
    BY <1>3, <1>5
  <2>2. m * rate * (p * Unit) = m * rate * Unit * p
    BY <1>1, <1>3, <1>5
  <2> QED
    BY <1>3, <2>1, <2>2
<1>8. n * p * ShareScale * ShareScale * w = n * w * ShareScale * ShareScale * p
  BY <1>1, <1>3
<1>9. m * rate * Unit <= n * w * ShareScale * ShareScale
  BY <1>3, <1>5, <1>6, <1>7, <1>8, TimesCancel
<1> QED
  BY <1>9 DEF m, rate, w

LEMMA PayWorth ==
  ASSUME VaultInv, NEW a \in Assets, NEW k \in Nat
  PROVE  AssetsOut(a, k, FixedPrice[a]) * UnitWorth(a) * ShareScale * ShareScale
           <= k * teller.exchange_rate * Unit
<1> DEFINE o    == AssetsOut(a, k, FixedPrice[a])
           rate == teller.exchange_rate
           w    == UnitWorth(a)
           p    == PriceOf(a)[1]
           den  == AssetScale[a] * PriceOf(a)[2]
<1>1. rate \in Nat /\ ShareScale \in Nat /\ Unit \in Nat /\ FixedPrice[a] \in PositivePrice
  BY ShareScaleAssumption, BackingAssumption DEF VaultInv, TypeOK, TellerState, PositivePrice
<1>2. o \in Nat
  BY <1>1, AssetsOutType DEF VaultInv
<1>3. w \in Nat /\ p \in Nat \ {0} /\ den \in Nat /\ w * den = p * Unit
  <2>1. PriceOf(a)[1] \in Nat \ {0} /\ PriceOf(a)[2] \in Nat /\ AssetScale[a] \in Nat
    BY WorthTimes, AssetsAssumption
  <2> QED
    BY <2>1, WorthTimes, NatTimes
<1>4. o * p * ShareScale * ShareScale <= k * rate * den
  BY PayBelow
<1> HIDE DEF o, rate, w, p, den
<1>5. /\ k * rate \in Nat /\ k * rate * den \in Nat
      /\ o * p * ShareScale * ShareScale \in Nat
      /\ k * rate * Unit \in Nat /\ o * w * ShareScale * ShareScale \in Nat
  <2>1. k * rate \in Nat /\ o * p \in Nat /\ o * w \in Nat
    BY <1>1, <1>2, <1>3, NatTimes
  <2>2. o * p * ShareScale \in Nat /\ o * w * ShareScale \in Nat
    BY <1>1, <2>1, NatTimes
  <2> QED
    BY <1>1, <1>3, <2>1, <2>2, NatTimes
<1>6. o * p * ShareScale * ShareScale * w <= k * rate * den * w
  BY <1>3, <1>4, <1>5, TimesMono
<1>7. k * rate * den * w = k * rate * Unit * p
  <2>1. k * rate * den * w = k * rate * (w * den)
    BY <1>3, <1>5
  <2>2. k * rate * (p * Unit) = k * rate * Unit * p
    BY <1>1, <1>3, <1>5
  <2> QED
    BY <1>3, <2>1, <2>2
<1>8. o * p * ShareScale * ShareScale * w = o * w * ShareScale * ShareScale * p
  BY <1>1, <1>2, <1>3
<1>9. o * w * ShareScale * ShareScale <= k * rate * Unit
  BY <1>3, <1>5, <1>6, <1>7, <1>8, TimesCancel
<1> QED
  BY <1>9 DEF o, rate, w

-----------------------------------------------------------------------------
(* The value held before and after a step. *)

WorthTable == [a \in Assets |-> UnitWorth(a)]

LEMMA HeldUnits ==
  /\ WorthTable \in Worths
  /\ ValueHeld = Cardinality(UnitsOf(tokens, WorthTable))
<1>1. WorthTable \in Worths
  BY WorthTimes DEF WorthTable, Worths
<1>2. UnitsHeld = UnitsOf(tokens, WorthTable)
  <2>1. ASSUME NEW x \in Assets \X SubAccounts
        PROVE  {x} \X (1..(tokens[x[1]][x[2]] * UnitWorth(x[1])))
                 = UnitsIn(x, tokens, WorthTable)
    <3>1. x[1] \in Assets
      BY <2>1
    <3>2. WorthTable[x[1]] = UnitWorth(x[1])
      BY <3>1 DEF WorthTable
    <3> QED
      BY <3>2 DEF UnitsIn
  <2>2. UnitsHeld = UNION {UnitsIn(x, tokens, WorthTable) : x \in Assets \X SubAccounts}
    BY <2>1 DEF UnitsHeld
  <2> QED
    BY <2>2 DEF UnitsOf
<1> QED
  BY <1>1, <1>2 DEF ValueHeld

LEMMA NextHeldUnits ==
  /\ WorthTable' \in Worths
  /\ ValueHeld' = Cardinality(UnitsOf(tokens', WorthTable'))
  /\ TermsKept => WorthTable' = WorthTable
<1>1. WorthTable' \in Worths
  BY NextWorthType DEF WorthTable, Worths
<1>2. UnitsHeld' = UnitsOf(tokens', WorthTable')
  <2>1. ASSUME NEW x \in Assets \X SubAccounts
        PROVE  {x} \X (1..(tokens'[x[1]][x[2]] * UnitWorth(x[1])'))
                 = UnitsIn(x, tokens', WorthTable')
    <3>1. x[1] \in Assets
      BY <2>1
    <3>2. WorthTable'[x[1]] = UnitWorth(x[1])'
      BY <3>1 DEF WorthTable
    <3> QED
      BY <3>2 DEF UnitsIn
  <2>2. UnitsHeld' = UNION {UnitsIn(x, tokens', WorthTable') : x \in Assets \X SubAccounts}
    BY <2>1 DEF UnitsHeld
  <2> QED
    BY <2>2 DEF UnitsOf
<1>3. ASSUME TermsKept, NEW a \in Assets PROVE UnitWorth(a)' = UnitWorth(a)
  BY <1>3 DEF TermsKept, UnitWorth
<1>4. TermsKept => WorthTable' = WorthTable
  BY <1>3 DEF WorthTable
<1> QED
  BY <1>1, <1>2, <1>4 DEF ValueHeld

LEMMA BackingTypes ==
  ASSUME VaultInv
  PROVE  /\ ValueHeld \in Nat /\ supply \in Nat /\ teller.exchange_rate \in Nat
         /\ ShareScale \in Nat \ {0} /\ Unit \in Nat \ {0}
         /\ tokens \in Balances
<1>1. tokens \in Balances /\ supply \in Nat /\ teller.exchange_rate \in Nat
  BY DEF VaultInv, TypeOK, TellerState, Balances
<1>2. ValueHeld \in Nat
  BY <1>1, HeldUnits, UnitsFinite
<1> QED
  BY <1>1, <1>2, ShareScaleAssumption, BackingAssumption

LEMMA NextBackingTypes ==
  ASSUME VaultInv'
  PROVE  /\ ValueHeld' \in Nat /\ supply' \in Nat /\ teller'.exchange_rate \in Nat
         /\ tokens' \in Balances
<1>1. tokens' \in Balances /\ supply' \in Nat /\ teller'.exchange_rate \in Nat
  BY DEF VaultInv, TypeOK, TellerState, Balances
<1>2. ValueHeld' \in Nat
  BY <1>1, NextHeldUnits, UnitsFinite
<1> QED
  BY <1>1, <1>2

LEMMA AdminKeptTerms ==
  ASSUME UNCHANGED adminVars
  PROVE  TermsKept
BY DEF adminVars, TermsKept, PriceOf, OraclePrice

-----------------------------------------------------------------------------
(* Three kinds of step: value comes in for the shares minted, value goes out  *)
(* for the shares burnt, and no value goes out and no share is minted.        *)

LEMMA BackingRises ==
  ASSUME NEW v \in Nat, NEW shs \in Nat, NEW rate \in Nat, NEW w \in Nat,
         NEW n \in Nat, NEW m \in Nat, NEW s \in Nat, NEW u \in Nat,
         v * s * s >= shs * rate * u, m * rate * u <= n * w * s * s
  PROVE  (v + n * w) * s * s >= (shs + m) * rate * u
<1> DEFINE x == n * w
<1>1. x \in Nat
  BY NatTimes
<1> HIDE DEF x
<1>2. m * rate * u <= x * s * s
  BY DEF x
<1>3. (v + x) * s * s = v * s * s + x * s * s
  BY <1>1
<1>4. (shs + m) * rate * u = shs * rate * u + m * rate * u
  OBVIOUS
<1>5. /\ v * s * s \in Nat /\ x * s * s \in Nat
      /\ shs * rate * u \in Nat /\ m * rate * u \in Nat
  <2>1. v * s \in Nat /\ x * s \in Nat /\ shs * rate \in Nat /\ m * rate \in Nat
    BY <1>1, NatTimes
  <2> QED
    BY <2>1, NatTimes
<1>6. (v + x) * s * s >= (shs + m) * rate * u
  BY <1>2, <1>3, <1>4, <1>5
<1> QED
  BY <1>6 DEF x

LEMMA BackingFalls ==
  ASSUME NEW v \in Nat, NEW shs \in Nat, NEW rate \in Nat, NEW w \in Nat,
         NEW o \in Nat, NEW k \in Nat, NEW s \in Nat, NEW u \in Nat,
         (v + o * w) * s * s >= (shs + k) * rate * u, o * w * s * s <= k * rate * u
  PROVE  v * s * s >= shs * rate * u
<1> DEFINE x == o * w
<1>1. x \in Nat
  BY NatTimes
<1> HIDE DEF x
<1>2. x * s * s <= k * rate * u /\ (v + x) * s * s >= (shs + k) * rate * u
  BY DEF x
<1>3. (v + x) * s * s = v * s * s + x * s * s
  BY <1>1
<1>4. (shs + k) * rate * u = shs * rate * u + k * rate * u
  OBVIOUS
<1>5. /\ v * s * s \in Nat /\ x * s * s \in Nat
      /\ shs * rate * u \in Nat /\ k * rate * u \in Nat
  <2>1. v * s \in Nat /\ x * s \in Nat /\ shs * rate \in Nat /\ k * rate \in Nat
    BY <1>1, NatTimes
  <2> QED
    BY <2>1, NatTimes
<1> QED
  BY <1>2, <1>3, <1>4, <1>5

LEMMA DepositBacked ==
  ASSUME VaultInv, VaultInv', SharesBacked, UNCHANGED adminVars,
         NEW s \in Signers, NEW a \in Assets, NEW n \in Nat, NEW least,
         TakeDeposit(s, a, n), CalculateSharesAndMint(s, a, n, least, FixedPrice[a])
  PROVE  SharesBacked'
<1> DEFINE sub == config.deposit_sub_account
           m   == SharesOut(a, n, FixedPrice[a])
           w   == WorthTable[a]
<1>1. /\ sub \in SubAccounts /\ sub \in Accounts /\ s \in Accounts /\ s \notin SubAccounts
      /\ SubAccounts \subseteq Accounts
  BY KeysAssumption DEF VaultInv, TypeOK, VaultState, Accounts, Keys
<1>2. tokens \in [Assets -> [Accounts -> Nat]]
  BY DEF VaultInv, TypeOK
<1>3. tokens' = [tokens EXCEPT ![a] = Move(@, s, sub, n)]
  BY DEF TakeDeposit
<1> HIDE DEF sub
<1>4. tokens'[a][sub] = tokens[a][sub] + n
  <2>1. tokens[a] \in [Accounts -> Nat] /\ tokens'[a] = Move(tokens[a], s, sub, n) /\ s # sub
    BY <1>1, <1>2, <1>3
  <2> QED
    BY <1>1, <2>1 DEF Move
<1>5. ASSUME NEW d \in Assets, NEW other \in SubAccounts, <<d, other>> # <<a, sub>>
      PROVE  tokens'[d][other] = tokens[d][other]
  <2>1. CASE d # a
    BY <1>2, <1>3, <2>1
  <2>2. CASE d = a
    <3>1. tokens[a] \in [Accounts -> Nat] /\ tokens'[a] = Move(tokens[a], s, sub, n)
      BY <1>2, <1>3
    <3>2. other # sub /\ other # s /\ other \in Accounts
      BY <1>1, <1>5, <2>2
    <3> QED
      BY <2>2, <3>1, <3>2 DEF Move
  <2> QED
    BY <2>1, <2>2
<1>6. TermsKept
  BY AdminKeptTerms
<1>7. ValueHeld' = ValueHeld + n * w
  BY <1>1, <1>4, <1>5, <1>6, HeldUnits, NextHeldUnits, BackingTypes, NextBackingTypes, UnitsRise
<1>8. m \in Nat /\ w \in Nat /\ m * teller.exchange_rate * Unit <= n * w * ShareScale * ShareScale
  <2>1. w = UnitWorth(a) /\ FixedPrice[a] \in PositivePrice
    BY BackingAssumption DEF WorthTable, PositivePrice
  <2>2. teller.exchange_rate > 0
    BY DEF CalculateSharesAndMint
  <2> QED
    BY <2>1, <2>2, MintWorth, SharesOutType, WorthTimes
<1>9. supply' = supply + m /\ teller'.exchange_rate = teller.exchange_rate
  BY <1>6 DEF CalculateSharesAndMint, TermsKept
<1> HIDE DEF m, w
<1>10. ValueHeld * ShareScale * ShareScale >= supply * teller.exchange_rate * Unit
  BY DEF SharesBacked
<1>11. (ValueHeld + n * w) * ShareScale * ShareScale
         >= (supply + m) * teller.exchange_rate * Unit
  BY <1>8, <1>10, BackingTypes, BackingRises
<1> QED
  BY <1>7, <1>9, <1>11 DEF SharesBacked

LEMMA WithdrawBacked ==
  ASSUME VaultInv, VaultInv', SharesBacked,
         NEW s, NEW a, NEW k \in Nat, NEW least, Withdraw(s, a, k, least, FixedPrice[a])
  PROVE  SharesBacked'
<1> DEFINE sub == config.withdraw_sub_account
           o   == AssetsOut(a, k, FixedPrice[a])
           w   == WorthTable[a]
<1>0. a \in Assets /\ s \in Signers /\ UNCHANGED adminVars
  BY DEF Withdraw, WithdrawAllowed, Assets
<1>1. /\ sub \in SubAccounts /\ sub \in Accounts /\ s \in Accounts /\ s \notin SubAccounts
      /\ SubAccounts \subseteq Accounts
  BY <1>0, KeysAssumption DEF VaultInv, TypeOK, VaultState, Accounts, Keys
<1>2. tokens \in [Assets -> [Accounts -> Nat]]
  BY DEF VaultInv, TypeOK
<1>3. tokens' = [tokens EXCEPT ![a] = Move(@, sub, s, o)]
  BY DEF Withdraw
<1>4. o \in Nat /\ w \in Nat /\ o * w * ShareScale * ShareScale <= k * teller.exchange_rate * Unit
  <2>1. w = UnitWorth(a) /\ FixedPrice[a] \in PositivePrice
    BY <1>0, BackingAssumption DEF WorthTable, PositivePrice
  <2> QED
    BY <1>0, <2>1, PayWorth, AssetsOutType, WorthTimes DEF VaultInv
<1> HIDE DEF sub, o
<1>5. tokens[a][sub] = tokens'[a][sub] + o
  <2>1. tokens[a] \in [Accounts -> Nat] /\ tokens'[a] = Move(tokens[a], sub, s, o) /\ s # sub
    BY <1>0, <1>1, <1>2, <1>3
  <2>2. tokens'[a][sub] = tokens[a][sub] - o /\ tokens[a][sub] \in Nat
    BY <1>1, <2>1 DEF Move
  <2> QED
    BY <1>4, <2>2
<1>6. ASSUME NEW d \in Assets, NEW other \in SubAccounts, <<d, other>> # <<a, sub>>
      PROVE  tokens[d][other] = tokens'[d][other]
  <2>1. CASE d # a
    BY <1>2, <1>3, <2>1
  <2>2. CASE d = a
    <3>1. tokens[a] \in [Accounts -> Nat] /\ tokens'[a] = Move(tokens[a], sub, s, o)
      BY <1>0, <1>2, <1>3
    <3>2. other # sub /\ other # s /\ other \in Accounts
      BY <1>1, <1>6, <2>2
    <3> QED
      BY <2>2, <3>1, <3>2 DEF Move
  <2> QED
    BY <2>1, <2>2
<1>7. TermsKept
  BY <1>0, AdminKeptTerms
<1>8. ValueHeld = ValueHeld' + o * w
  BY <1>0, <1>1, <1>4, <1>5, <1>6, <1>7, HeldUnits, NextHeldUnits, BackingTypes,
     NextBackingTypes, UnitsRise
<1>9. supply = supply' + k /\ teller'.exchange_rate = teller.exchange_rate
  <2>1. supply' = supply - k
    BY DEF Withdraw, BurnFrom
  <2> QED
    BY <1>7, <2>1, BackingTypes DEF TermsKept
<1> HIDE DEF w
<1>10. (ValueHeld' + o * w) * ShareScale * ShareScale
         >= (supply' + k) * teller.exchange_rate * Unit
  BY <1>8, <1>9 DEF SharesBacked
<1>11. ValueHeld' * ShareScale * ShareScale >= supply' * teller.exchange_rate * Unit
  BY <1>4, <1>10, BackingTypes, NextBackingTypes, BackingFalls
<1> QED
  BY <1>9, <1>11 DEF SharesBacked

(* No share is minted and no sub-account loses a token; once there are shares *)
(* the terms are kept, and before there are any there is nothing to back.     *)
NothingOut ==
  /\ supply' <= supply
  /\ \A a \in Assets, sub \in SubAccounts : tokens'[a][sub] >= tokens[a][sub]

LEMMA NothingOutBacked ==
  ASSUME VaultInv, VaultInv', SharesBacked, NothingOut, supply = 0 \/ TermsKept
  PROVE  SharesBacked'
<1>1. /\ ValueHeld' \in Nat /\ supply' \in Nat /\ teller'.exchange_rate \in Nat
      /\ ShareScale \in Nat /\ Unit \in Nat /\ ValueHeld \in Nat /\ supply \in Nat
      /\ teller.exchange_rate \in Nat
  BY BackingTypes, NextBackingTypes
<1>2. CASE supply = 0
  <2>1. supply' = 0
    BY <1>1, <1>2 DEF NothingOut
  <2>2. ValueHeld' * ShareScale * ShareScale \in Nat
    BY <1>1, NatTimes
  <2>3. supply' * teller'.exchange_rate * Unit = 0
    BY <1>1, <2>1
  <2> QED
    BY <2>2, <2>3 DEF SharesBacked
<1>3. CASE TermsKept
  <2>1. ValueHeld <= ValueHeld'
    BY <1>3, HeldUnits, NextHeldUnits, BackingTypes, NextBackingTypes, UnitsMono DEF NothingOut
  <2>2. ValueHeld * ShareScale <= ValueHeld' * ShareScale
    BY <1>1, <2>1, TimesMono
  <2>3. ValueHeld * ShareScale * ShareScale <= ValueHeld' * ShareScale * ShareScale
    BY <1>1, <2>2, NatTimes, TimesMono
  <2>4. supply' * teller.exchange_rate <= supply * teller.exchange_rate
    BY <1>1, TimesMono DEF NothingOut
  <2>5. supply' * teller.exchange_rate * Unit <= supply * teller.exchange_rate * Unit
    BY <1>1, <2>4, NatTimes, TimesMono
  <2>6. /\ ValueHeld * ShareScale * ShareScale \in Nat
        /\ ValueHeld' * ShareScale * ShareScale \in Nat
        /\ supply * teller.exchange_rate * Unit \in Nat
        /\ supply' * teller.exchange_rate * Unit \in Nat
    <3>1. /\ ValueHeld * ShareScale \in Nat /\ ValueHeld' * ShareScale \in Nat
          /\ supply * teller.exchange_rate \in Nat /\ supply' * teller.exchange_rate \in Nat
      BY <1>1, NatTimes
    <3> QED
      BY <1>1, <3>1, NatTimes
  <2>7. ValueHeld * ShareScale * ShareScale >= supply * teller.exchange_rate * Unit
    BY DEF SharesBacked
  <2>8. ValueHeld' * ShareScale * ShareScale >= supply' * teller.exchange_rate * Unit
    BY <2>3, <2>5, <2>6, <2>7
  <2> QED
    BY <1>3, <2>8 DEF SharesBacked, TermsKept
<1> QED
  BY <1>2, <1>3

LEMMA TokensKeptNothingOut ==
  ASSUME VaultInv, supply' <= supply, UNCHANGED tokens
  PROVE  NothingOut
<1>1. \A a \in Assets, sub \in SubAccounts : tokens[a][sub] \in Nat
  BY DEF VaultInv, TypeOK, Accounts
<1> QED
  BY <1>1 DEF NothingOut

LEMMA FrozenNothingOut ==
  ASSUME VaultInv, Frozen
  PROVE  NothingOut
<1>1. supply \in Nat
  BY DEF VaultInv, TypeOK
<1> QED
  BY <1>1 DEF Frozen, NothingOut

-----------------------------------------------------------------------------

LEMMA BackingStepInv ==
  ASSUME VaultInv, SharesBacked, [BackingStep]_vaultVars
  PROVE  VaultInv' /\ SharesBacked'
<1>0. supply \in Nat /\ Amounts \subseteq Nat /\ Rates \subseteq Nat
  BY InputsAssumption DEF VaultInv, TypeOK
<1>1. ASSUME VaultInv', NothingOut, BackingStep PROVE SharesBacked'
  BY <1>1, NothingOutBacked DEF BackingStep
<1>2. CASE Setup /\ BackingStep
  <2>1. VaultInv'
    BY <1>2, SetupInv
  <2>2. NothingOut
    BY <1>0, <1>2, TokensKeptNothingOut DEF Setup, Initialize, Deploy, ledgerVars
  <2> QED
    BY <1>1, <1>2, <2>1, <2>2
<1>3. ASSUME NEW s \in Signers, Administer(s), BackingStep PROVE VaultInv' /\ SharesBacked'
  <2>1. VaultInv'
    BY <1>3, AdministerInv
  <2>2. NothingOut
    BY <1>3, PausedAdminister, FrozenNothingOut
  <2> QED
    BY <1>1, <1>3, <2>1, <2>2
<1>4. ASSUME NEW s \in Signers, TradeAtFixedPrices(s) PROVE VaultInv' /\ SharesBacked'
  <2>1. PICK n \in Amounts, least \in Amounts \cup {0} :
          \/ \E a \in Mints : \/ Deposit(s, a, n, least, FixedPrice[a])
                              \/ Withdraw(s, a, n, least, FixedPrice[a])
          \/ DepositSol(s, n, least, FixedPrice[Native])
    BY <1>4 DEF TradeAtFixedPrices
  <2>2. n \in Nat /\ \A a \in Assets : FixedPrice[a] \in PositivePrice
    BY <1>0, BackingAssumption DEF PositivePrice
  <2>3. ASSUME NEW a \in Mints, Deposit(s, a, n, least, FixedPrice[a])
        PROVE  VaultInv' /\ SharesBacked'
    <3>1. a \in Assets /\ VaultInv'
      BY <2>2, <2>3, DepositInv DEF Assets
    <3> QED
      BY <2>2, <2>3, <3>1, DepositBacked DEF Deposit
  <2>4. ASSUME NEW a \in Mints, Withdraw(s, a, n, least, FixedPrice[a])
        PROVE  VaultInv' /\ SharesBacked'
    <3>1. VaultInv'
      BY <2>2, <2>4, WithdrawInv DEF Assets
    <3> QED
      BY <2>2, <2>4, <3>1, WithdrawBacked
  <2>5. CASE DepositSol(s, n, least, FixedPrice[Native])
    <3>1. Native \in Assets /\ VaultInv'
      BY <2>2, <2>5, DepositSolInv DEF Assets
    <3> QED
      BY <2>2, <2>5, <3>1, DepositBacked DEF DepositSol
  <2> QED
    BY <2>1, <2>3, <2>4, <2>5
<1>5. ASSUME NEW s \in Signers, NEW r \in Rates, UpdateExchangeRate(s, r), BackingStep
      PROVE  VaultInv' /\ SharesBacked'
  <2>1. VaultInv'
    BY <1>0, <1>5, RateUpdateInv
  <2>2. NothingOut
    BY <1>0, <1>5, TokensKeptNothingOut DEF UpdateExchangeRate, ledgerVars
  <2> QED
    BY <1>1, <1>5, <2>1, <2>2
<1>6. ASSUME NEW s \in Signers, NEW k \in Signers, NEW n \in Amounts,
             BurnShares(s, k, n), BackingStep
      PROVE  VaultInv' /\ SharesBacked'
  <2>1. VaultInv'
    BY <1>0, <1>6, BridgeInv
  <2>2. supply' <= supply /\ UNCHANGED tokens
    BY <1>0, <1>6 DEF BurnShares, BurnFrom
  <2>3. NothingOut
    BY <2>2, TokensKeptNothingOut
  <2> QED
    BY <1>1, <1>6, <2>1, <2>3
<1>7. CASE Environment /\ BackingStep
  <2>1. VaultInv'
    BY <1>7, EnvironmentInv
  <2>2. NothingOut
    <3>1. ASSUME NEW s \in Signers, NEW k \in Keys, NEW n \in Amounts,
                 TransferShares(s, k, n)
          PROVE  NothingOut
      BY <1>0, <3>1, TokensKeptNothingOut DEF TransferShares
    <3>2. ASSUME NEW s \in Signers, NEW a \in Assets, NEW k \in Accounts,
                 NEW n \in Amounts, TransferTokens(s, a, k, n)
          PROVE  NothingOut
      BY <1>0, <3>2, HolderTransferFreezes, FrozenNothingOut
    <3>3. CASE Tick
      BY <1>0, <3>3, TokensKeptNothingOut DEF Tick, ledgerVars
    <3> QED
      BY <1>7, <3>1, <3>2, <3>3 DEF Environment
  <2> QED
    BY <1>1, <1>7, <2>1, <2>2
<1>8. CASE UNCHANGED vaultVars
  <2>1. VaultInv' /\ UNCHANGED adminVars
    BY <1>8, LedgerInv DEF vaultVars, ledgerVars, VaultInv, TypeOK
  <2>2. NothingOut
    BY <1>0, <1>8, TokensKeptNothingOut DEF vaultVars, ledgerVars
  <2> QED
    BY <2>1, <2>2, AdminKeptTerms, NothingOutBacked
<1> QED
  BY <1>2, <1>3, <1>4, <1>5, <1>6, <1>7, <1>8 DEF BackingStep

LEMMA InitBacked == Init => SharesBacked
<1> SUFFICES ASSUME Init PROVE SharesBacked
  OBVIOUS
<1>1. VaultInv /\ supply = 0
  BY InitVaultInv DEF Init
<1>2. ValueHeld * ShareScale * ShareScale \in Nat
  BY <1>1, BackingTypes, NatTimes
<1>3. supply * teller.exchange_rate * Unit = 0
  BY <1>1, BackingTypes
<1> QED
  BY <1>2, <1>3 DEF SharesBacked

(* At a fixed rate and fixed prices, what the sub-accounts hold is worth at   *)
(* least the outstanding shares, after any mix of deposits and withdrawals in *)
(* base, pegged and priced assets, native lamports among them, at whatever    *)
(* decimals and premiums: every from_decimal truncation and the share premium *)
(* fall on the user's side.                                                   *)
THEOREM VaultSharesBacked == BackingSpec => []SharesBacked
<1>1. Init => VaultInv /\ SharesBacked
  BY InitVaultInv, InitBacked
<1>2. VaultInv /\ SharesBacked /\ [BackingStep]_vaultVars => VaultInv' /\ SharesBacked'
  BY BackingStepInv
<1> QED
  BY <1>1, <1>2, PTL DEF BackingSpec

=============================================================================
