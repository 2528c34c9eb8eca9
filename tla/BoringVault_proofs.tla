-------------------------- MODULE BoringVault_proofs --------------------------
(***************************************************************************)
(* Theorems about the vault for every set of keys, assets, inputs and every *)
(* bound; first the conversion chains it computes with (TellerMath), their  *)
(* types, that a round trip returns at most what was put in, and that a     *)
(* promise never exceeds the payout it is for.                              *)
(***************************************************************************)
EXTENDS BoringVault, TLAPS

(* Multiplication and truncating division of natural numbers. *)
LEMMA NatTimes ==
  ASSUME NEW m \in Nat, NEW n \in Nat
  PROVE  m * n \in Nat
OBVIOUS

LEMMA PosTimes ==
  ASSUME NEW m \in Nat \ {0}, NEW n \in Nat \ {0}
  PROVE  m * n \in Nat \ {0}
OBVIOUS

LEMMA TimesMono ==
  ASSUME NEW m \in Nat, NEW n \in Nat, NEW k \in Nat, m <= n
  PROVE  m * k <= n * k
OBVIOUS

LEMMA TimesCancel ==
  ASSUME NEW m \in Nat, NEW n \in Nat, NEW k \in Nat \ {0}, m * k <= n * k
  PROVE  m <= n
OBVIOUS

LEMMA TruncateType ==
  ASSUME NEW m \in Nat, NEW n \in Nat \ {0}
  PROVE  Truncate(m, n) \in Nat
BY DEF Truncate

LEMMA TruncateBelow ==
  ASSUME NEW m \in Nat, NEW n \in Nat \ {0}
  PROVE  Truncate(m, n) * n <= m
BY DEF Truncate

LEMMA TruncateAtLeast ==
  ASSUME NEW m \in Nat, NEW n \in Nat \ {0}, NEW q \in Nat, q * n <= m
  PROVE  q <= Truncate(m, n)
BY DEF Truncate

LEMMA TruncateMono ==
  ASSUME NEW m \in Nat, NEW k \in Nat, NEW n \in Nat \ {0}, m <= k
  PROVE  Truncate(m, n) <= Truncate(k, n)
BY DEF Truncate

(* A truncated ratio is at most any bound its numerator keeps to. *)
LEMMA TruncateAtMost ==
  ASSUME NEW m \in Nat, NEW n \in Nat \ {0}, NEW q \in Nat, m <= q * n
  PROVE  Truncate(m, n) <= q
<1>1. Truncate(m, n) \in Nat /\ Truncate(m, n) * n <= m /\ q * n \in Nat
  BY TruncateType, TruncateBelow, NatTimes
<1>2. Truncate(m, n) * n \in Nat
  BY <1>1, NatTimes
<1>3. Truncate(m, n) * n <= q * n
  BY <1>1, <1>2
<1> QED
  BY <1>1, <1>3, TimesCancel

-----------------------------------------------------------------------------
(* Types of the chains. *)

LEMMA RescaleType ==
  ASSUME NEW n \in Nat, NEW from \in Nat \ {0}, NEW to \in Nat
  PROVE  Rescale(n, from, to) \in Nat
BY NatTimes, TruncateType DEF Rescale

LEMMA SharesForBaseType ==
  ASSUME NEW n \in Nat, NEW rate \in Nat \ {0}, NEW premium \in 0..BpsScale
  PROVE  SharesForBase(n, rate, premium) \in Nat
<1>1. ShareScale \in Nat \ {0} /\ BpsScale \in Nat \ {0} /\ BpsScale - premium \in Nat
  BY ShareScaleAssumption DEF BpsScale
<1>2. n * ShareScale \in Nat
  BY <1>1, NatTimes
<1>3. n * ShareScale * (BpsScale - premium) \in Nat
  BY <1>1, <1>2, NatTimes
<1>4. rate * BpsScale \in Nat \ {0}
  BY <1>1, PosTimes
<1> QED
  BY <1>3, <1>4, TruncateType DEF SharesForBase

LEMMA SharesForPeggedType ==
  ASSUME NEW n \in Nat, NEW scale \in Nat \ {0}, NEW rate \in Nat \ {0},
         NEW premium \in 0..BpsScale
  PROVE  SharesForPegged(n, scale, rate, premium) \in Nat
BY ShareScaleAssumption, RescaleType, SharesForBaseType DEF SharesForPegged

LEMMA SharesForPricedType ==
  ASSUME NEW n \in Nat, NEW scale \in Nat \ {0}, NEW rate \in Nat \ {0},
         NEW premium \in 0..BpsScale, NEW price \in (Nat \ {0}) \X (Nat \ {0})
  PROVE  SharesForPriced(n, scale, price, rate, premium) \in Nat
<1>1. ShareScale \in Nat \ {0} /\ BpsScale \in Nat \ {0} /\ BpsScale - premium \in Nat
  BY ShareScaleAssumption DEF BpsScale
<1>2. price[1] \in Nat \ {0} /\ price[2] \in Nat \ {0}
  OBVIOUS
<1>3. n * price[1] \in Nat
  BY <1>2, NatTimes
<1>4. n * price[1] * ShareScale \in Nat
  BY <1>1, <1>3, NatTimes
<1>5. n * price[1] * ShareScale * ShareScale \in Nat
  BY <1>1, <1>4, NatTimes
<1>6. n * price[1] * ShareScale * ShareScale * (BpsScale - premium) \in Nat
  BY <1>1, <1>5, NatTimes
<1>7. scale * price[2] \in Nat \ {0}
  BY <1>2, PosTimes
<1>8. scale * price[2] * rate \in Nat \ {0}
  BY <1>7, PosTimes
<1>9. scale * price[2] * rate * BpsScale \in Nat \ {0}
  BY <1>1, <1>8, PosTimes
<1> QED
  BY <1>6, <1>9, TruncateType DEF SharesForPriced

LEMMA AssetsInBaseType ==
  ASSUME NEW n \in Nat, NEW rate \in Nat
  PROVE  AssetsInBase(n, rate) \in Nat
BY ShareScaleAssumption, NatTimes, TruncateType DEF AssetsInBase

LEMMA AssetsPeggedType ==
  ASSUME NEW n \in Nat, NEW scale \in Nat, NEW rate \in Nat
  PROVE  AssetsPegged(n, scale, rate) \in Nat
BY ShareScaleAssumption, AssetsInBaseType, RescaleType DEF AssetsPegged

LEMMA AssetsPricedType ==
  ASSUME NEW n \in Nat, NEW scale \in Nat, NEW rate \in Nat,
         NEW price \in (Nat \ {0}) \X (Nat \ {0})
  PROVE  AssetsPriced(n, scale, price, rate) \in Nat
<1>1. price[1] \in Nat \ {0} /\ price[2] \in Nat /\ ShareScale \in Nat \ {0}
  BY ShareScaleAssumption
<1>2. n * rate \in Nat
  BY NatTimes
<1>3. n * rate * price[2] \in Nat
  BY <1>1, <1>2, NatTimes
<1>4. n * rate * price[2] * scale \in Nat
  BY <1>3, NatTimes
<1>5. ShareScale * ShareScale \in Nat \ {0}
  BY <1>1, PosTimes
<1>6. ShareScale * ShareScale * price[1] \in Nat \ {0}
  BY <1>1, <1>5, PosTimes
<1> QED
  BY <1>4, <1>6, TruncateType DEF AssetsPriced

LEMMA RatePricedType ==
  ASSUME NEW rate \in Nat, NEW scale \in Nat, NEW price \in (Nat \ {0}) \X (Nat \ {0})
  PROVE  RatePriced(rate, scale, price) \in Nat
<1>1. price[1] \in Nat \ {0} /\ price[2] \in Nat /\ ShareScale \in Nat \ {0}
  BY ShareScaleAssumption
<1>2. rate * price[2] \in Nat
  BY <1>1, NatTimes
<1>3. rate * price[2] * scale \in Nat
  BY <1>2, NatTimes
<1>4. ShareScale * price[1] \in Nat \ {0}
  BY <1>1, PosTimes
<1> QED
  BY <1>3, <1>4, TruncateType DEF RatePriced

LEMMA PromisedAssetsType ==
  ASSUME NEW n \in Nat, NEW rate \in Nat, NEW discount \in 0..BpsScale
  PROVE  PromisedAssets(n, rate, discount) \in Nat
<1>1. ShareScale \in Nat \ {0} /\ BpsScale \in Nat \ {0} /\ BpsScale - discount \in Nat
  BY ShareScaleAssumption DEF BpsScale
<1>2. n * rate \in Nat
  BY NatTimes
<1>3. n * rate * (BpsScale - discount) \in Nat
  BY <1>1, <1>2, NatTimes
<1>4. ShareScale * BpsScale \in Nat \ {0}
  BY <1>1, PosTimes
<1> QED
  BY <1>3, <1>4, TruncateType DEF PromisedAssets

-----------------------------------------------------------------------------

(* Round trips. *)

(* A deposit of the base asset withdrawn at the same rate returns at most     *)
(* what was deposited, whatever the share premium.                            *)
THEOREM BaseRoundTrip ==
  ASSUME NEW n \in Nat, NEW rate \in Nat \ {0}, NEW premium \in 0..BpsScale
  PROVE  AssetsInBase(SharesForBase(n, rate, premium), rate) <= n
<1> DEFINE s == SharesForBase(n, rate, premium)
<1>1. ShareScale \in Nat \ {0} /\ BpsScale \in Nat \ {0} /\ BpsScale - premium \in Nat
  BY ShareScaleAssumption DEF BpsScale
<1>2. s \in Nat
  BY SharesForBaseType
<1>3. n * ShareScale \in Nat /\ s * rate \in Nat
  BY <1>1, <1>2, NatTimes
<1>4. n * ShareScale * (BpsScale - premium) \in Nat /\ rate * BpsScale \in Nat \ {0}
  BY <1>1, <1>3, NatTimes, PosTimes
<1>5. s * (rate * BpsScale) <= n * ShareScale * (BpsScale - premium)
  BY <1>4, TruncateBelow DEF SharesForBase
<1> HIDE DEF s
<1>6. n * ShareScale * (BpsScale - premium) <= n * ShareScale * BpsScale
  BY <1>1, <1>3, BpsScale - premium <= BpsScale
<1>7. s * rate * BpsScale <= n * ShareScale * BpsScale
  BY <1>1, <1>2, <1>4, <1>5, <1>6
<1>8. s * rate <= n * ShareScale
  BY <1>1, <1>3, <1>7, TimesCancel
<1>9. AssetsInBase(s, rate) <= n
  BY <1>1, <1>3, <1>8, TruncateAtMost DEF AssetsInBase
<1> QED
  BY <1>9 DEF s

(* The same for a pegged asset, at whatever scale its decimals give.          *)
THEOREM PeggedRoundTrip ==
  ASSUME NEW n \in Nat, NEW scale \in Nat \ {0}, NEW rate \in Nat \ {0},
         NEW premium \in 0..BpsScale
  PROVE  AssetsPegged(SharesForPegged(n, scale, rate, premium), scale, rate) <= n
<1> DEFINE m == Rescale(n, scale, ShareScale)
           b == AssetsInBase(SharesForBase(m, rate, premium), rate)
<1>1. ShareScale \in Nat \ {0}
  BY ShareScaleAssumption
<1>2. m \in Nat
  BY <1>1, RescaleType
<1>3. b \in Nat /\ b <= m
  BY <1>2, SharesForBaseType, AssetsInBaseType, BaseRoundTrip
<1>4. m * scale <= n * ShareScale
  BY <1>1, NatTimes, TruncateBelow DEF Rescale
<1> HIDE DEF m, b
<1>5. b * scale \in Nat /\ m * scale \in Nat /\ n * ShareScale \in Nat
  BY <1>1, <1>2, <1>3, NatTimes
<1>6. b * scale <= m * scale
  BY <1>2, <1>3, TimesMono
<1>7. b * scale <= n * ShareScale
  BY <1>4, <1>5, <1>6
<1>8. Truncate(b * scale, ShareScale) <= n
  BY <1>1, <1>5, <1>7, TruncateAtMost
<1> QED
  BY <1>8 DEF AssetsPegged, SharesForPegged, Rescale, m, b

-----------------------------------------------------------------------------
(* Promises of the queue against payouts of the vault. *)

(* What a promise at a quoted rate amounts to before its discount.            *)
LEMMA PromiseBelowQuote ==
  ASSUME NEW n \in Nat, NEW quoted \in Nat, NEW discount \in 0..BpsScale
  PROVE  PromisedAssets(n, quoted, discount) * ShareScale <= n * quoted
<1> DEFINE q == PromisedAssets(n, quoted, discount)
<1>1. ShareScale \in Nat \ {0} /\ BpsScale \in Nat \ {0} /\ BpsScale - discount \in Nat
  BY ShareScaleAssumption DEF BpsScale
<1>2. q \in Nat
  BY PromisedAssetsType
<1>3. n * quoted \in Nat /\ q * ShareScale \in Nat
  BY <1>1, <1>2, NatTimes
<1>4. n * quoted * (BpsScale - discount) \in Nat /\ ShareScale * BpsScale \in Nat \ {0}
  BY <1>1, <1>3, NatTimes, PosTimes
<1>5. q * (ShareScale * BpsScale) <= n * quoted * (BpsScale - discount)
  BY <1>4, TruncateBelow DEF PromisedAssets
<1> HIDE DEF q
<1>6. n * quoted * (BpsScale - discount) <= n * quoted * BpsScale
  BY <1>1, <1>3, BpsScale - discount <= BpsScale
<1>7. q * ShareScale * BpsScale <= n * quoted * BpsScale
  BY <1>1, <1>2, <1>4, <1>5, <1>6
<1>8. q * ShareScale <= n * quoted
  BY <1>1, <1>3, <1>7, TimesCancel
<1> QED
  BY <1>8 DEF q

(* A request for the base asset is covered as long as the rate has not fallen. *)
THEOREM BasePromiseCovered ==
  ASSUME NEW n \in Nat, NEW quoted \in Nat, NEW rate \in Nat, quoted <= rate,
         NEW discount \in 0..BpsScale
  PROVE  PromisedAssets(n, quoted, discount) <= AssetsInBase(n, rate)
<1>1. ShareScale \in Nat \ {0}
  BY ShareScaleAssumption
<1>2. PromisedAssets(n, quoted, discount) \in Nat
  BY PromisedAssetsType
<1>3. n * quoted \in Nat /\ n * rate \in Nat
  BY NatTimes
<1>4. n * quoted <= n * rate
  OBVIOUS
<1> DEFINE q == PromisedAssets(n, quoted, discount)
<1>5. q * ShareScale \in Nat /\ q * ShareScale <= n * quoted
  BY <1>1, <1>2, PromiseBelowQuote, NatTimes
<1> HIDE DEF q
<1>6. q * ShareScale <= n * rate
  BY <1>3, <1>4, <1>5
<1>7. q <= AssetsInBase(n, rate)
  BY <1>1, <1>2, <1>3, <1>6, TruncateAtLeast DEF AssetsInBase, q
<1> QED
  BY <1>7 DEF q

(* A request for a priced asset is covered at the rate and price it was       *)
(* quoted at.                                                                 *)
THEOREM PricedPromiseCovered ==
  ASSUME NEW n \in Nat, NEW rate \in Nat, NEW scale \in Nat \ {0},
         NEW price \in (Nat \ {0}) \X (Nat \ {0}), NEW discount \in 0..BpsScale
  PROVE  PromisedAssets(n, RatePriced(rate, scale, price), discount)
           <= AssetsPriced(n, scale, price, rate)
<1> DEFINE quoted == RatePriced(rate, scale, price)
           q      == PromisedAssets(n, quoted, discount)
           units  == rate * price[2] * scale
           den    == ShareScale * price[1]
<1>1. ShareScale \in Nat \ {0} /\ price[1] \in Nat \ {0} /\ price[2] \in Nat \ {0}
  BY ShareScaleAssumption
<1>2. quoted \in Nat
  BY RatePricedType
<1>3. q \in Nat /\ q * ShareScale <= n * quoted
  BY <1>2, PromisedAssetsType, PromiseBelowQuote
<1>4. units \in Nat /\ den \in Nat \ {0}
  BY <1>1, NatTimes, PosTimes
<1>5. quoted * den <= units
  BY <1>4, TruncateBelow DEF RatePriced
<1>6. /\ AssetsPriced(n, scale, price, rate) = Truncate(n * units, ShareScale * den)
      /\ ShareScale * den \in Nat \ {0}
  <2>1. n * rate * price[2] * scale = n * units
    BY <1>1
  <2>2. ShareScale * ShareScale * price[1] = ShareScale * den
    BY <1>1
  <2>3. ShareScale * den \in Nat \ {0}
    BY <1>1, <1>4, PosTimes
  <2> QED
    BY <2>1, <2>2, <2>3 DEF AssetsPriced
<1> HIDE DEF quoted, q, units, den
<1>7. q * ShareScale * den <= n * quoted * den
  <2>1. q * ShareScale \in Nat /\ n * quoted \in Nat
    BY <1>1, <1>2, <1>3, NatTimes
  <2> QED
    BY <1>3, <1>4, <2>1, TimesMono
<1>8. n * quoted * den <= n * units
  BY <1>2, <1>4, <1>5, NatTimes
<1>9. q * (ShareScale * den) <= n * units
  BY <1>1, <1>2, <1>3, <1>4, <1>7, <1>8
<1>10. q <= Truncate(n * units, ShareScale * den)
  BY <1>3, <1>4, <1>6, <1>9, NatTimes, TruncateAtLeast
<1> QED
  BY <1>6, <1>10 DEF q, quoted

(* A request for a pegged asset is covered when the asset has at most the     *)
(* decimals of the share token (its scale divides the share scale); with more *)
(* decimals it need not be, see the run queue_fine_promise.                   *)
THEOREM CoarsePeggedPromiseCovered ==
  ASSUME NEW n \in Nat, NEW rate \in Nat, NEW scale \in Nat \ {0},
         NEW k \in Nat \ {0}, scale * k = ShareScale, NEW discount \in 0..BpsScale
  PROVE  PromisedAssets(n, RatePegged(rate, scale), discount)
           <= AssetsPegged(n, scale, rate)
<1> DEFINE quoted == RatePegged(rate, scale)
           q      == PromisedAssets(n, quoted, discount)
           b      == AssetsInBase(n, rate)
<1>1. ShareScale \in Nat \ {0}
  BY ShareScaleAssumption
<1>2. quoted \in Nat /\ b \in Nat
  BY <1>1, RescaleType, AssetsInBaseType DEF RatePegged
<1>3. q \in Nat /\ q * ShareScale <= n * quoted
  BY <1>2, PromisedAssetsType, PromiseBelowQuote
<1>4. quoted * ShareScale <= rate * scale
  BY <1>1, NatTimes, TruncateBelow DEF RatePegged, Rescale
<1>5. AssetsPegged(n, scale, rate) = Truncate(b * scale, ShareScale)
  BY DEF AssetsPegged, Rescale
<1>6. b = Truncate(n * rate, ShareScale)
  BY DEF AssetsInBase
<1> HIDE DEF quoted, q, b
<1>7. quoted * k <= rate
  <2>1. quoted * k \in Nat
    BY <1>2, NatTimes
  <2>2. quoted * k * scale <= rate * scale
    BY <1>2, <1>4
  <2> QED
    BY <2>1, <2>2, TimesCancel
<1>8. q * k <= b
  <2>1. q * k \in Nat /\ n * rate \in Nat /\ n * quoted \in Nat /\ quoted * k \in Nat
    BY <1>2, <1>3, NatTimes
  <2>2. q * ShareScale * k <= n * quoted * k
    BY <1>1, <1>3, <2>1, NatTimes, TimesMono
  <2>3. n * quoted * k <= n * rate
    <3>1. quoted * k * n <= rate * n
      BY <1>7, <2>1, TimesMono
    <3> QED
      BY <1>2, <3>1
  <2>4. q * k * ShareScale <= n * rate
    BY <1>1, <1>2, <1>3, <2>2, <2>3
  <2> QED
    BY <1>1, <1>6, <2>1, <2>4, TruncateAtLeast
<1>9. q * ShareScale <= b * scale
  <2>1. q * k \in Nat
    BY <1>3, NatTimes
  <2>2. q * k * scale <= b * scale
    BY <1>2, <1>8, <2>1, TimesMono
  <2> QED
    BY <1>3, <2>2
<1>10. q <= Truncate(b * scale, ShareScale)
  BY <1>1, <1>2, <1>3, <1>9, NatTimes, TruncateAtLeast
<1> QED
  BY <1>5, <1>10 DEF q, quoted

(* What shares are worth does not fall when the rate rises, nor when the      *)
(* asset becomes cheaper.                                                     *)
LEMMA AssetsInBaseRise ==
  ASSUME NEW n \in Nat, NEW before \in Nat, NEW rate \in Nat, before <= rate
  PROVE  AssetsInBase(n, before) <= AssetsInBase(n, rate)
<1>1. n * before \in Nat /\ n * rate \in Nat /\ n * before <= n * rate
  BY NatTimes, TimesMono
<1> QED
  BY <1>1, ShareScaleAssumption, TruncateMono DEF AssetsInBase

LEMMA AssetsPeggedRise ==
  ASSUME NEW n \in Nat, NEW scale \in Nat, NEW before \in Nat, NEW rate \in Nat,
         before <= rate
  PROVE  AssetsPegged(n, scale, before) <= AssetsPegged(n, scale, rate)
<1> DEFINE b == AssetsInBase(n, before)
           c == AssetsInBase(n, rate)
<1>1. b \in Nat /\ c \in Nat /\ b <= c
  BY AssetsInBaseType, AssetsInBaseRise
<1> HIDE DEF b, c
<1>2. b * scale \in Nat /\ c * scale \in Nat /\ b * scale <= c * scale
  BY <1>1, NatTimes, TimesMono
<1>3. Truncate(b * scale, ShareScale) <= Truncate(c * scale, ShareScale)
  BY <1>2, ShareScaleAssumption, TruncateMono
<1> QED
  BY <1>3 DEF AssetsPegged, Rescale, b, c

LEMMA AssetsPricedRise ==
  ASSUME NEW n \in Nat, NEW scale \in Nat, NEW before \in Nat, NEW rate \in Nat,
         before <= rate,
         NEW then \in (Nat \ {0}) \X (Nat \ {0}), NEW this \in (Nat \ {0}) \X (Nat \ {0}),
         this[1] * then[2] <= then[1] * this[2]
  PROVE  AssetsPriced(n, scale, then, before) <= AssetsPriced(n, scale, this, rate)
<1> DEFINE q == AssetsPriced(n, scale, then, before)
           c == then[1]
           d == then[2]
           e == this[1]
           g == this[2]
           m == n * scale
           k == ShareScale * ShareScale
<1>1. /\ c \in Nat \ {0} /\ d \in Nat \ {0} /\ e \in Nat \ {0} /\ g \in Nat \ {0}
      /\ ShareScale \in Nat \ {0}
  BY ShareScaleAssumption
<1>2. q \in Nat /\ m \in Nat /\ k \in Nat \ {0}
  BY <1>1, AssetsPricedType, NatTimes, PosTimes
<1>3. /\ n * before * d * scale = m * before * d
      /\ n * rate * g * scale = m * rate * g
      /\ m * before * d \in Nat /\ m * rate * g \in Nat
  <2>1. m * before \in Nat /\ m * rate \in Nat
    BY <1>2, NatTimes
  <2> QED
    BY <1>1, <2>1, NatTimes
<1>4. k * c \in Nat \ {0} /\ k * e \in Nat \ {0}
  BY <1>1, <1>2, PosTimes
<1>5. q = Truncate(m * before * d, k * c)
  BY <1>3 DEF AssetsPriced
<1>6. AssetsPriced(n, scale, this, rate) = Truncate(m * rate * g, k * e)
  BY <1>3 DEF AssetsPriced
<1>7. e * d <= c * g
  OBVIOUS
<1> HIDE DEF q, c, d, e, g, m, k
<1>8. q * (k * c) <= m * before * d
  BY <1>3, <1>4, <1>5, TruncateBelow
<1>9. q * (k * e) * c <= m * rate * g * c
  <2> DEFINE x == q * (k * c)
             y == m * before * d
             z == m * before
  <2>1. x \in Nat /\ y \in Nat /\ z \in Nat
    BY <1>2, <1>3, <1>4, NatTimes
  <2>2. x * e <= y * e
    BY <1>1, <1>8, <2>1, TimesMono
  <2>3. y * e = e * d * z
    BY <1>1, <1>2
  <2>4. e * d * z <= c * g * z
    <3>1. e * d \in Nat /\ c * g \in Nat
      BY <1>1, NatTimes
    <3> QED
      BY <1>7, <2>1, <3>1, TimesMono
  <2>5. c * g * z <= m * rate * g * c
    <3>1. c * g * m \in Nat
      BY <1>1, <1>2, NatTimes
    <3>2. before * (c * g * m) <= rate * (c * g * m)
      BY <3>1, TimesMono
    <3> QED
      BY <1>1, <1>2, <3>2
  <2>6. x * e = q * (k * e) * c
    BY <1>1, <1>2
  <2>7. x * e \in Nat /\ y * e \in Nat /\ c * g * z \in Nat /\ m * rate * g * c \in Nat
    BY <1>1, <1>3, <2>1, NatTimes
  <2> QED
    BY <2>2, <2>3, <2>4, <2>5, <2>6, <2>7
<1>10. q * (k * e) <= m * rate * g
  <2>1. q * (k * e) \in Nat
    BY <1>2, <1>4, NatTimes
  <2> QED
    BY <1>1, <1>3, <1>9, <2>1, TimesCancel
<1>11. q <= Truncate(m * rate * g, k * e)
  BY <1>2, <1>3, <1>4, <1>10, TruncateAtLeast
<1> QED
  BY <1>6, <1>11 DEF q

-----------------------------------------------------------------------------
(* The inductive invariant adds to the types that the last update of the rate *)
(* is not in the future and that no share premium exceeds its maximum:        *)
(* without the first a platform fee, and without the second a deposit's       *)
(* shares, might not be a natural number.                                     *)

PremiumsBounded == \A a \in Assets : assetData[a].share_premium_bps <= MaxSharePremium

VaultInv ==
  /\ TypeOK
  /\ teller.last_update_timestamp <= now
  /\ PremiumsBounded

(* The parts of a step that leave the rest of the invariant alone. *)
LEMMA SetConfigInv ==
  ASSUME VaultInv, NEW c \in VaultState, SetConfig(c)
  PROVE  VaultInv'
BY DEF VaultInv, TypeOK, PremiumsBounded, SetConfig, ledgerVars

LEMMA SetTellerInv ==
  ASSUME VaultInv, NEW t \in TellerState, t.last_update_timestamp <= now, SetTeller(t)
  PROVE  VaultInv'
BY DEF VaultInv, TypeOK, PremiumsBounded, SetTeller, ledgerVars

LEMMA LedgerInv ==
  ASSUME VaultInv, UNCHANGED <<adminVars, now>>,
         shares' \in [Keys -> Nat], supply' \in Nat,
         tokens' \in [Assets -> [Accounts -> Nat]]
  PROVE  VaultInv'
BY DEF VaultInv, TypeOK, PremiumsBounded, adminVars

(* A transfer covered by the sender's balance keeps balances natural.         *)
LEMMA MoveType ==
  ASSUME NEW Holders, NEW balance \in [Holders -> Nat],
         NEW from \in Holders, NEW to \in Holders,
         NEW amount \in Nat, balance[from] >= amount
  PROVE  Move(balance, from, to, amount) \in [Holders -> Nat]
BY DEF Move

LEMMA TokensMoved ==
  ASSUME TypeOK, NEW a \in Assets, NEW from \in Accounts, NEW to \in Accounts,
         NEW amount \in Nat, tokens[a][from] >= amount,
         tokens' = [tokens EXCEPT ![a] = Move(@, from, to, amount)]
  PROVE  tokens' \in [Assets -> [Accounts -> Nat]]
<1>1. tokens[a] \in [Accounts -> Nat]
  BY DEF TypeOK
<1>2. Move(tokens[a], from, to, amount) \in [Accounts -> Nat]
  BY <1>1, MoveType
<1> QED
  BY <1>2 DEF TypeOK

LEMMA BurnType ==
  ASSUME TypeOK, NEW s \in Keys, NEW amount \in Nat, shares[s] >= amount,
         BurnFrom(s, amount)
  PROVE  shares' \in [Keys -> Nat] /\ supply' \in Nat
<1>1. shares[s] - amount \in Nat /\ supply - amount \in Nat
  BY DEF TypeOK, BurnFrom
<1> QED
  BY <1>1 DEF TypeOK, BurnFrom

-----------------------------------------------------------------------------
(* Types of what the vault computes from its state. *)

(* A price, whether it is one of those considered or one a feed published.    *)
PositivePrice == (Nat \ {0}) \X (Nat \ {0})

LEMMA PricesPositive == Prices \subseteq PositivePrice
BY InputsAssumption DEF PositivePrice

LEMMA OraclePriceType ==
  ASSUME NEW a, NEW p \in PositivePrice
  PROVE  OraclePrice(a, p) \in (Nat \ {0}) \X (Nat \ {0})
BY DEF OraclePrice, PositivePrice

LEMMA PremiumIsShare ==
  ASSUME NEW n \in Nat, n <= MaxSharePremium
  PROVE  n \in 0..BpsScale
BY DEF MaxSharePremium, BpsScale

LEMMA SharesOutType ==
  ASSUME VaultInv, NEW a \in Assets, NEW amount \in Nat, NEW p \in PositivePrice,
         teller.exchange_rate > 0
  PROVE  SharesOut(a, amount, p) \in Nat
<1>1. teller.exchange_rate \in Nat \ {0}
  BY DEF VaultInv, TypeOK, TellerState
<1>2. assetData[a].share_premium_bps \in 0..BpsScale
  <2>1. assetData[a] \in AssetData
    BY DEF VaultInv, TypeOK
  <2>2. assetData[a].share_premium_bps \in Nat
    BY <2>1 DEF AssetData
  <2>3. assetData[a].share_premium_bps <= MaxSharePremium
    BY DEF VaultInv, PremiumsBounded
  <2> QED
    BY <2>2, <2>3, PremiumIsShare
<1>3. AssetScale[a] \in Nat \ {0}
  BY AssetsAssumption
<1>4. OraclePrice(a, p) \in (Nat \ {0}) \X (Nat \ {0})
  BY OraclePriceType
<1>5. /\ SharesForBase(amount, teller.exchange_rate,
                       assetData[a].share_premium_bps) \in Nat
      /\ SharesForPegged(amount, AssetScale[a], teller.exchange_rate,
                         assetData[a].share_premium_bps) \in Nat
      /\ SharesForPriced(amount, AssetScale[a], OraclePrice(a, p),
                         teller.exchange_rate, assetData[a].share_premium_bps) \in Nat
  BY <1>1, <1>2, <1>3, <1>4, SharesForBaseType, SharesForPeggedType, SharesForPricedType
<1> QED
  BY <1>5 DEF SharesOut

LEMMA AssetsOutType ==
  ASSUME TypeOK, NEW a \in Assets, NEW amount \in Nat, NEW p \in PositivePrice
  PROVE  AssetsOut(a, amount, p) \in Nat
<1>1. teller.exchange_rate \in Nat
  BY DEF TypeOK, TellerState
<1>2. AssetScale[a] \in Nat
  BY AssetsAssumption
<1>3. OraclePrice(a, p) \in (Nat \ {0}) \X (Nat \ {0})
  BY OraclePriceType
<1>4. /\ AssetsInBase(amount, teller.exchange_rate) \in Nat
      /\ AssetsPegged(amount, AssetScale[a], teller.exchange_rate) \in Nat
      /\ AssetsPriced(amount, AssetScale[a], OraclePrice(a, p), teller.exchange_rate) \in Nat
  BY <1>1, <1>2, <1>3, AssetsInBaseType, AssetsPeggedType, AssetsPricedType
<1> QED
  BY <1>4 DEF AssetsOut

LEMMA FeesType ==
  ASSUME VaultInv, NEW r \in Nat
  PROVE  PlatformFee(r) \in Nat /\ PerformanceFee(r) \in Nat
<1> DEFINE rate == IF r > teller.exchange_rate THEN teller.exchange_rate ELSE r
           mark == teller.exchange_rate_high_water_mark
<1>1. /\ rate \in Nat /\ mark \in Nat /\ SharesCharged \in Nat
      /\ teller.platform_fee_bps \in Nat /\ teller.performance_fee_bps \in Nat
      /\ now - teller.last_update_timestamp \in Nat
  BY BoundsAssumption DEF VaultInv, TypeOK, TellerState, SharesCharged
<1>2. /\ ShareScale * BpsScale \in Nat \ {0}
      /\ ShareScale * BpsScale * SecondsPerYear \in Nat \ {0}
  BY ShareScaleAssumption, BoundsAssumption, PosTimes DEF BpsScale
<1> HIDE DEF rate, mark
<1>3. PlatformFee(r) \in Nat
  <2>1. rate * SharesCharged \in Nat
    BY <1>1, NatTimes
  <2>2. rate * SharesCharged * teller.platform_fee_bps \in Nat
    BY <1>1, <2>1, NatTimes
  <2>3. rate * SharesCharged * teller.platform_fee_bps
          * (now - teller.last_update_timestamp) \in Nat
    BY <1>1, <2>2, NatTimes
  <2> QED
    BY <1>2, <2>3, TruncateType DEF PlatformFee, rate
<1>4. PerformanceFee(r) \in Nat
  <2>1. CASE r > mark
    <3>1. r - mark \in Nat
      BY <1>1, <2>1
    <3>2. (r - mark) * SharesCharged \in Nat
      BY <1>1, <3>1, NatTimes
    <3>3. (r - mark) * SharesCharged * teller.performance_fee_bps \in Nat
      BY <1>1, <3>2, NatTimes
    <3> QED
      BY <1>2, <2>1, <3>3, TruncateType DEF PerformanceFee, mark
  <2>2. CASE ~(r > mark)
    BY <2>2 DEF PerformanceFee, mark
  <2> QED
    BY <2>1, <2>2
<1> QED
  BY <1>3, <1>4

-----------------------------------------------------------------------------

LEMMA InitVaultInv == Init => VaultInv
BY KeysAssumption, AssetsAssumption, BoundsAssumption
   DEF Init, VaultInv, TypeOK, PremiumsBounded, MaxSharePremium, VaultState,
       TellerState, AssetData, CpiDigest, KeyOrDefault, ledgerVars

LEMMA SetupInv == ASSUME VaultInv, Setup PROVE VaultInv'
<1>1. ASSUME NEW k \in AdminKeys, Initialize(k) PROVE VaultInv'
  BY <1>1, InputsAssumption
     DEF Initialize, VaultInv, TypeOK, PremiumsBounded, ledgerVars, KeyOrDefault
<1>2. ASSUME NEW s \in Signers, NEW args \in DeployArgs, Deploy(s, args) PROVE VaultInv'
  <2>1. args \in DeployArgsType
    BY InputsAssumption
  <2>2. config' \in VaultState /\ manager' \in [strategist: KeyOrDefault]
    BY <1>2, <2>1, KeysAssumption
       DEF Deploy, VaultState, DeployArgsType, KeyOrDefault
  <2>3. teller' \in TellerState /\ teller'.last_update_timestamp = now
    BY <1>2, <2>1, BoundsAssumption DEF Deploy, VaultInv, TypeOK, TellerState, DeployArgsType
  <2>4. program' \in [authority: KeyOrDefault, vault_count: 0..1]
    BY <1>2 DEF Deploy, DeployAccounts, Deployed, VaultInv, TypeOK
  <2> QED
    BY <1>2, <2>2, <2>3, <2>4, BoundsAssumption
       DEF Deploy, VaultInv, TypeOK, PremiumsBounded, ledgerVars
<1> QED
  BY <1>1, <1>2 DEF Setup

(* Administration: the setters, the whitelist and the change of authority. *)
LEMMA AdministerInv ==
  ASSUME VaultInv, NEW s \in Signers, Administer(s)
  PROVE  VaultInv'
<1> USE KeysAssumption, InputsAssumption DEF AuthorityOnly
<1>c. /\ config \in VaultState /\ teller \in TellerState
      /\ manager \in [strategist: KeyOrDefault]
      /\ teller.last_update_timestamp <= now /\ s \in KeyOrDefault
  BY DEF VaultInv, TypeOK, KeyOrDefault, Keys
<1>1. CASE Pause(s)
  <2>1. [config EXCEPT !.paused = TRUE] \in VaultState
    BY <1>c DEF VaultState
  <2> QED
    BY <1>1, <2>1, SetConfigInv DEF Pause
<1>2. CASE Unpause(s)
  <2>1. [config EXCEPT !.paused = FALSE] \in VaultState
    BY <1>c DEF VaultState
  <2> QED
    BY <1>2, <2>1, SetConfigInv DEF Unpause
<1>3. ASSUME NEW k \in AdminKeys, TransferAuthority(s, k) PROVE VaultInv'
  <2>1. [config EXCEPT !.pending_authority = k] \in VaultState
    BY <1>c DEF VaultState
  <2> QED
    BY <1>3, <2>1, SetConfigInv DEF TransferAuthority
<1>4. CASE AcceptAuthority(s)
  <2>1. [config EXCEPT !.authority = config.pending_authority,
                       !.pending_authority = NoKey] \in VaultState
    BY <1>c DEF VaultState, KeyOrDefault
  <2> QED
    BY <1>4, <2>1, SetConfigInv DEF AcceptAuthority
<1>5. ASSUME NEW sub \in SubAccounts, SetDepositSubAccount(s, sub) PROVE VaultInv'
  <2>1. [config EXCEPT !.deposit_sub_account = sub] \in VaultState
    BY <1>c DEF VaultState
  <2> QED
    BY <1>5, <2>1, SetConfigInv DEF SetDepositSubAccount
<1>6. ASSUME NEW sub \in SubAccounts, SetWithdrawSubAccount(s, sub) PROVE VaultInv'
  <2>1. [config EXCEPT !.withdraw_sub_account = sub] \in VaultState
    BY <1>c DEF VaultState
  <2> QED
    BY <1>6, <2>1, SetConfigInv DEF SetWithdrawSubAccount
<1>7. ASSUME NEW k \in AdminKeys, SetShareMover(s, k) PROVE VaultInv'
  <2>1. [config EXCEPT !.share_mover = k] \in VaultState
    BY <1>c DEF VaultState
  <2> QED
    BY <1>7, <2>1, SetConfigInv DEF SetShareMover
<1>8. ASSUME NEW k \in AdminKeys, UpdateExchangeRateProvider(s, k) PROVE VaultInv'
  <2>1. [teller EXCEPT !.exchange_rate_provider = k] \in TellerState
    BY <1>c DEF TellerState
  <2>2. [teller EXCEPT !.exchange_rate_provider = k].last_update_timestamp <= now
    BY <1>c DEF TellerState
  <2> QED
    BY <1>8, <2>1, <2>2, SetTellerInv DEF UpdateExchangeRateProvider
<1>9. ASSUME NEW k \in AdminKeys, SetWithdrawAuthority(s, k) PROVE VaultInv'
  <2>1. [teller EXCEPT !.withdraw_authority = k] \in TellerState
    BY <1>c DEF TellerState
  <2>2. [teller EXCEPT !.withdraw_authority = k].last_update_timestamp <= now
    BY <1>c DEF TellerState
  <2> QED
    BY <1>9, <2>1, <2>2, SetTellerInv DEF SetWithdrawAuthority
<1>10. ASSUME NEW k \in AdminKeys, SetPayout(s, k) PROVE VaultInv'
  <2>1. [teller EXCEPT !.payout_address = k] \in TellerState
    BY <1>c DEF TellerState
  <2>2. [teller EXCEPT !.payout_address = k].last_update_timestamp <= now
    BY <1>c DEF TellerState
  <2> QED
    BY <1>10, <2>1, <2>2, SetTellerInv DEF SetPayout
<1>11. ASSUME NEW k \in AdminKeys, SetStrategist(s, k) PROVE VaultInv'
  BY <1>11 DEF SetStrategist, VaultInv, TypeOK, PremiumsBounded, ledgerVars
<1>12. ASSUME NEW b \in BoundSettings,
              ConfigureExchangeRateUpdateBounds(s, b[1], b[2], b[3])
       PROVE  VaultInv'
  <2> DEFINE t == [teller EXCEPT !.upper_bound = b[1], !.lower_bound = b[2],
                                 !.minimum_update_delay = b[3]]
  <2>1. b[1] \in Nat /\ b[2] \in Nat /\ b[3] \in Nat
    OBVIOUS
  <2>2. t \in TellerState /\ t.last_update_timestamp <= now
    BY <1>c, <2>1 DEF TellerState
  <2> QED
    BY <1>12, <2>2, SetTellerInv DEF ConfigureExchangeRateUpdateBounds
<1>13. ASSUME NEW f \in FeeSettings, SetFees(s, f[1], f[2]) PROVE VaultInv'
  <2> DEFINE t == [teller EXCEPT !.platform_fee_bps = f[1],
                                 !.performance_fee_bps = f[2]]
  <2>1. f[1] \in Nat /\ f[2] \in Nat
    OBVIOUS
  <2>2. t \in TellerState /\ t.last_update_timestamp <= now
    BY <1>c, <2>1 DEF TellerState
  <2> QED
    BY <1>13, <2>2, SetTellerInv DEF SetFees
<1>14. ASSUME NEW a \in Assets, NEW data \in AssetDatas, UpdateAssetData(s, a, data)
       PROVE  VaultInv'
  <2> DEFINE d == [data EXCEPT !.initialized = TRUE]
  <2>1. d \in AssetData /\ d.share_premium_bps <= MaxSharePremium
    <3>1. data \in AssetData /\ data.share_premium_bps <= MaxSharePremium
      BY <1>14 DEF UpdateAssetData
    <3>2. d \in AssetData
      BY <3>1 DEF AssetData
    <3>3. d.share_premium_bps = data.share_premium_bps
      BY <3>1 DEF AssetData
    <3> HIDE DEF d
    <3> QED
      BY <3>1, <3>2, <3>3
  <2>2. assetData' = [assetData EXCEPT ![a] = d]
    BY <1>14 DEF UpdateAssetData
  <2> HIDE DEF d
  <2>3. assetData' \in [Assets -> AssetData] /\ PremiumsBounded'
    BY <2>1, <2>2 DEF VaultInv, TypeOK, PremiumsBounded
  <2> QED
    BY <1>14, <2>3 DEF UpdateAssetData, VaultInv, TypeOK, ledgerVars
<1>15. ASSUME NEW digest \in Digests, NEW ops \in OperatorSets,
              InitializeCpiDigest(s, digest, ops)
       PROVE  VaultInv'
  BY <1>15 DEF InitializeCpiDigest, VaultInv, TypeOK, PremiumsBounded, ledgerVars,
               CpiDigest
<1>16. ASSUME NEW d \in cpiDigests, CloseCpiDigest(s, d) PROVE VaultInv'
  BY <1>16 DEF CloseCpiDigest, VaultInv, TypeOK, PremiumsBounded, ledgerVars
<1> QED
  BY <1>1, <1>2, <1>3, <1>4, <1>5, <1>6, <1>7, <1>8, <1>9, <1>10, <1>11, <1>12,
     <1>13, <1>14, <1>15, <1>16 DEF Administer

(* Operation: the rate, the fees, the strategist and the bridge. *)
LEMMA RateUpdateInv ==
  ASSUME VaultInv, NEW s \in Signers, NEW r \in Rates, UpdateExchangeRate(s, r)
  PROVE  VaultInv'
<1> DEFINE recorded == [teller EXCEPT !.exchange_rate = r,
                                      !.last_update_timestamp = now,
                                      !.total_shares_last_update = supply]
           fees == teller.fees_owed_in_base_asset + PlatformFee(r) + PerformanceFee(r)
           charged == [recorded EXCEPT !.fees_owed_in_base_asset = fees,
                                       !.exchange_rate_high_water_mark = HighWaterMark(r)]
<1>1. r \in Nat /\ now \in Nat /\ supply \in Nat /\ teller \in TellerState
  BY InputsAssumption, BoundsAssumption DEF VaultInv, TypeOK
<1>2. teller.fees_owed_in_base_asset \in Nat
      /\ teller.exchange_rate_high_water_mark \in Nat
  BY <1>1 DEF TellerState
<1>3. fees \in Nat /\ HighWaterMark(r) \in Nat
  <2>1. PlatformFee(r) \in Nat /\ PerformanceFee(r) \in Nat
    BY <1>1, FeesType
  <2> QED
    BY <1>1, <1>2, <2>1 DEF HighWaterMark
<1>4. recorded \in TellerState /\ recorded.last_update_timestamp = now
  BY <1>1 DEF TellerState
<1> HIDE DEF fees
<1>5. charged \in TellerState /\ charged.last_update_timestamp = now
  BY <1>1, <1>3 DEF TellerState
<1>6. /\ teller' \in {recorded, charged}
      /\ config' \in {config, [config EXCEPT !.paused = TRUE]}
      /\ UNCHANGED <<program, manager, assetData, cpiDigests, ledgerVars, now>>
  BY DEF UpdateExchangeRate, fees
<1> HIDE DEF recorded, charged
<1>7. teller' \in TellerState /\ teller'.last_update_timestamp = now
  BY <1>4, <1>5, <1>6
<1>8. config' \in VaultState
  BY <1>6 DEF VaultInv, TypeOK, VaultState
<1> QED
  BY <1>1, <1>6, <1>7, <1>8 DEF VaultInv, TypeOK, PremiumsBounded, ledgerVars

LEMMA ClaimFeesInv ==
  ASSUME VaultInv, NEW s \in Signers, NEW sub \in SubAccounts, ClaimFeesInBase(s, sub),
         teller.payout_address \in Keys
  PROVE  VaultInv'
<1> DEFINE owed == teller.fees_owed_in_base_asset
<1>1. teller \in TellerState /\ owed \in Nat
  BY DEF VaultInv, TypeOK, TellerState
<1>2. /\ teller' \in TellerState
      /\ teller'.last_update_timestamp = teller.last_update_timestamp
  BY <1>1 DEF ClaimFeesInBase, TellerState
<1>3. tokens' \in [Assets -> [Accounts -> Nat]]
  <2>1. BaseAsset \in Assets /\ sub \in Accounts /\ teller.payout_address \in Accounts
    BY AssetsAssumption DEF Assets, Accounts
  <2>2. tokens[BaseAsset][sub] >= owed
        /\ tokens' = [tokens EXCEPT ![BaseAsset]
                                      = Move(@, sub, teller.payout_address, owed)]
    BY DEF ClaimFeesInBase
  <2> HIDE DEF owed
  <2> QED
    BY <1>1, <2>1, <2>2, TokensMoved DEF VaultInv
<1> QED
  BY <1>2, <1>3 DEF ClaimFeesInBase, VaultInv, TypeOK, PremiumsBounded

LEMMA ManageInv ==
  ASSUME VaultInv, NEW s \in Signers, NEW d \in cpiDigests, NEW ix \in Instructions,
         Manage(s, d, ix)
  PROVE  VaultInv'
<1>1. /\ ix.asset \in Assets /\ ix.from \in Accounts /\ ix.to \in Accounts
      /\ ix.amount \in Nat
  BY InputsAssumption DEF Instruction, Assets, Accounts
<1>2. tokens' \in [Assets -> [Accounts -> Nat]]
  BY <1>1, TokensMoved DEF Manage, VaultInv
<1> QED
  BY <1>2, LedgerInv DEF Manage, VaultInv, TypeOK

(* Whoever the share mover is: it may be the PDA of another program. *)
LEMMA BridgeInv ==
  ASSUME VaultInv, NEW s, NEW n \in Nat
  PROVE  /\ \A k \in Keys : MintShares(s, k, n) => VaultInv'
         /\ \A k \in Signers : BurnShares(s, k, n) => VaultInv'
<1>1. tokens \in [Assets -> [Accounts -> Nat]]
  BY DEF VaultInv, TypeOK
<1>2. ASSUME NEW k \in Keys, MintShares(s, k, n) PROVE VaultInv'
  <2>1. shares' \in [Keys -> Nat] /\ supply' \in Nat
    BY <1>1, <1>2 DEF MintShares, VaultInv, TypeOK
  <2> QED
    BY <1>1, <1>2, <2>1, LedgerInv DEF MintShares
<1>3. ASSUME NEW k \in Signers, BurnShares(s, k, n) PROVE VaultInv'
  <2>1. shares' \in [Keys -> Nat] /\ supply' \in Nat
    BY <1>1, <1>3, BurnType DEF BurnShares, BurnSharesAccounts, VaultInv, Keys
  <2> QED
    BY <1>1, <1>3, <2>1, LedgerInv DEF BurnShares
<1> QED
  BY <1>2, <1>3

-----------------------------------------------------------------------------
(* Use: deposits and withdrawals. *)

LEMMA MintedType ==
  ASSUME VaultInv, NEW s \in Signers, NEW a \in Assets, NEW n \in Nat,
         NEW least, NEW p \in PositivePrice, CalculateSharesAndMint(s, a, n, least, p)
  PROVE  shares' \in [Keys -> Nat] /\ supply' \in Nat
<1> DEFINE minted == SharesOut(a, n, p)
<1>1. minted \in Nat
  BY SharesOutType DEF CalculateSharesAndMint
<1>2. shares' = [shares EXCEPT ![s] = @ + minted] /\ supply' = supply + minted
  BY DEF CalculateSharesAndMint
<1>3. shares \in [Keys -> Nat] /\ supply \in Nat
  BY DEF VaultInv, TypeOK
<1> HIDE DEF minted
<1>4. s \in Keys /\ shares[s] + minted \in Nat
  BY <1>1, <1>3 DEF Keys
<1> QED
  BY <1>1, <1>2, <1>3, <1>4

LEMMA TakenType ==
  ASSUME VaultInv, NEW s \in Signers, NEW a \in Assets, NEW n \in Nat,
         TakeDeposit(s, a, n)
  PROVE  tokens' \in [Assets -> [Accounts -> Nat]]
<1>1. s \in Accounts /\ config.deposit_sub_account \in Accounts
  BY DEF VaultInv, TypeOK, VaultState, Accounts, Keys
<1> QED
  BY <1>1, TokensMoved DEF TakeDeposit, VaultInv

LEMMA DepositInv ==
  ASSUME VaultInv, NEW s, NEW a, NEW n \in Nat, NEW least, NEW p \in PositivePrice,
         Deposit(s, a, n, least, p)
  PROVE  VaultInv'
<1>1. s \in Signers /\ a \in Assets
  BY DEF Deposit, Assets
<1>2. shares' \in [Keys -> Nat] /\ supply' \in Nat
  BY <1>1, MintedType DEF Deposit
<1>3. tokens' \in [Assets -> [Accounts -> Nat]]
  BY <1>1, TakenType DEF Deposit
<1> QED
  BY <1>2, <1>3, LedgerInv DEF Deposit

LEMMA DepositSolInv ==
  ASSUME VaultInv, NEW s, NEW n \in Nat, NEW least, NEW p \in PositivePrice,
         DepositSol(s, n, least, p)
  PROVE  VaultInv'
<1>1. s \in Signers /\ Native \in Assets
  BY DEF DepositSol, Assets
<1>2. shares' \in [Keys -> Nat] /\ supply' \in Nat
  BY <1>1, MintedType DEF DepositSol
<1>3. tokens' \in [Assets -> [Accounts -> Nat]]
  BY <1>1, TakenType DEF DepositSol
<1> QED
  BY <1>2, <1>3, LedgerInv DEF DepositSol

LEMMA WithdrawInv ==
  ASSUME VaultInv, NEW s, NEW a, NEW n \in Nat, NEW least, NEW p \in PositivePrice,
         Withdraw(s, a, n, least, p)
  PROVE  VaultInv'
<1>1. s \in Keys /\ a \in Assets /\ shares[s] >= n
  BY DEF Withdraw, WithdrawAllowed, Assets, Keys
<1>2. shares' \in [Keys -> Nat] /\ supply' \in Nat
  BY <1>1, BurnType DEF Withdraw, VaultInv
<1>3. AssetsOut(a, n, p) \in Nat
  BY <1>1, AssetsOutType DEF VaultInv
<1>4. s \in Accounts /\ config.withdraw_sub_account \in Accounts
  BY <1>1 DEF VaultInv, TypeOK, VaultState, Accounts
<1>5. tokens' \in [Assets -> [Accounts -> Nat]]
  BY <1>1, <1>3, <1>4, TokensMoved DEF Withdraw, WithdrawAllowed, VaultInv
<1> QED
  BY <1>2, <1>5, LedgerInv DEF Withdraw

LEMMA UseInv ==
  ASSUME VaultInv, NEW s \in Signers, Use(s)
  PROVE  VaultInv'
<1>1. Amounts \subseteq Nat /\ Prices \subseteq PositivePrice
  BY InputsAssumption, PricesPositive
<1> QED
  BY <1>1, DepositInv, DepositSolInv, WithdrawInv DEF Use

LEMMA EnvironmentInv ==
  ASSUME VaultInv, Environment
  PROVE  VaultInv'
<1>0. Amounts \subseteq Nat
  BY InputsAssumption
<1>1. ASSUME NEW s \in Signers, NEW k \in Keys, NEW n \in Amounts,
             TransferShares(s, k, n)
      PROVE  VaultInv'
  <2>1. /\ shares \in [Keys -> Nat] /\ s \in Keys /\ n \in Nat /\ shares[s] >= n
        /\ shares' = Move(shares, s, k, n)
    BY <1>0, <1>1 DEF TransferShares, Move, VaultInv, TypeOK, Keys
  <2>2. shares' \in [Keys -> Nat]
    BY <2>1, MoveType
  <2> QED
    BY <1>1, <2>2, LedgerInv DEF TransferShares, VaultInv, TypeOK
<1>2. ASSUME NEW s \in Signers, NEW a \in Assets, NEW k \in Accounts, NEW n \in Amounts,
             TransferTokens(s, a, k, n)
      PROVE  VaultInv'
  <2>1. tokens' \in [Assets -> [Accounts -> Nat]]
    BY <1>0, <1>2, TokensMoved DEF TransferTokens, VaultInv, Accounts, Keys
  <2> QED
    BY <1>2, <2>1, LedgerInv DEF TransferTokens, VaultInv, TypeOK
<1>3. CASE Tick
  <2>1. now' \in 0..MaxTime /\ teller.last_update_timestamp <= now'
    BY <1>3, BoundsAssumption DEF Tick, VaultInv, TypeOK, TellerState
  <2> QED
    BY <1>3, <2>1 DEF Tick, adminVars, ledgerVars, VaultInv, TypeOK, PremiumsBounded
<1> QED
  BY <1>1, <1>2, <1>3 DEF Environment

-----------------------------------------------------------------------------

(* Every role of a deployed vault is a real key. *)
RolesInv ==
  Deployed => /\ config.authority \in Keys
              /\ teller.exchange_rate_provider \in Keys
              /\ teller.payout_address \in Keys
              /\ manager.strategist \in Keys

(* A step that leaves the four roles and the deployment alone. *)
LEMMA RolesKept ==
  ASSUME RolesInv, program' = program, manager' = manager,
         config'.authority = config.authority,
         teller'.exchange_rate_provider = teller.exchange_rate_provider,
         teller'.payout_address = teller.payout_address
  PROVE  RolesInv'
BY DEF RolesInv, Deployed

LEMMA SetupRoles == ASSUME VaultInv, RolesInv, Setup PROVE RolesInv'
<1>1. ASSUME NEW k \in AdminKeys, Initialize(k) PROVE RolesInv'
  <2>1. program.vault_count \in 0..1 /\ program'.vault_count = program.vault_count
    BY <1>1 DEF Initialize, VaultInv, TypeOK
  <2> QED
    BY <1>1, <2>1 DEF Initialize, RolesInv, Deployed
<1>2. ASSUME NEW s \in Signers, NEW args \in DeployArgs, Deploy(s, args) PROVE RolesInv'
  <2>1. {args.authority, args.exchange_rate_provider, args.payout_address,
         args.strategist} \subseteq Keys
    <3>1. args \in DeployArgsType
      BY InputsAssumption
    <3> QED
      BY <1>2, <3>1 DEF Deploy, DeployArgsType, KeyOrDefault
  <2> QED
    BY <1>2, <2>1 DEF Deploy, RolesInv
<1> QED
  BY <1>1, <1>2 DEF Setup

LEMMA AdministerRoles ==
  ASSUME VaultInv, RolesInv, NEW s \in Signers, Administer(s)
  PROVE  RolesInv'
<1> USE DEF AuthorityOnly
<1>c. /\ config \in VaultState /\ teller \in TellerState
      /\ manager \in [strategist: KeyOrDefault]
  BY DEF VaultInv, TypeOK
<1>k. s \in Keys /\ \A k \in AdminKeys : k # NoKey => k \in Keys
  BY InputsAssumption DEF Keys, KeyOrDefault
<1>1. CASE \/ Pause(s) \/ Unpause(s)
           \/ \E k \in AdminKeys : TransferAuthority(s, k)
           \/ \E sub \in SubAccounts : SetDepositSubAccount(s, sub)
           \/ \E sub \in SubAccounts : SetWithdrawSubAccount(s, sub)
           \/ \E k \in AdminKeys : SetShareMover(s, k)
  <2>1. config'.authority = config.authority
        /\ UNCHANGED <<program, teller, manager>>
    BY <1>1, <1>c DEF Pause, Unpause, TransferAuthority, SetDepositSubAccount,
         SetWithdrawSubAccount, SetShareMover, SetConfig, VaultState
  <2> QED
    BY <2>1, RolesKept
<1>2. CASE AcceptAuthority(s)
  <2>1. config'.authority = s /\ UNCHANGED <<program, teller, manager>>
    BY <1>2, <1>c DEF AcceptAuthority, PendingOnly, SetConfig, VaultState
  <2> QED
    BY <1>k, <2>1 DEF RolesInv, Deployed
<1>3. CASE \E k \in AdminKeys : UpdateExchangeRateProvider(s, k)
  <2>1. PICK k \in AdminKeys : UpdateExchangeRateProvider(s, k)
    BY <1>3
  <2>2. /\ teller'.exchange_rate_provider = k /\ k \in Keys
        /\ teller'.payout_address = teller.payout_address
        /\ UNCHANGED <<program, config, manager>>
    BY <1>c, <1>k, <2>1 DEF UpdateExchangeRateProvider, SetTeller, TellerState
  <2> QED
    BY <2>2 DEF RolesInv, Deployed
<1>4. CASE \E k \in AdminKeys : SetPayout(s, k)
  <2>1. PICK k \in AdminKeys : SetPayout(s, k)
    BY <1>4
  <2>2. /\ teller'.payout_address = k /\ k \in Keys
        /\ teller'.exchange_rate_provider = teller.exchange_rate_provider
        /\ UNCHANGED <<program, config, manager>>
    BY <1>c, <1>k, <2>1 DEF SetPayout, SetTeller, TellerState
  <2> QED
    BY <2>2 DEF RolesInv, Deployed
<1>5. CASE \E k \in AdminKeys : SetStrategist(s, k)
  <2>1. PICK k \in AdminKeys : SetStrategist(s, k)
    BY <1>5
  <2>2. manager'.strategist = k /\ k \in Keys /\ UNCHANGED <<program, config, teller>>
    BY <1>c, <1>k, <2>1 DEF SetStrategist
  <2> QED
    BY <2>2 DEF RolesInv, Deployed
<1>6. CASE \/ \E k \in AdminKeys : SetWithdrawAuthority(s, k)
           \/ \E b \in BoundSettings :
                ConfigureExchangeRateUpdateBounds(s, b[1], b[2], b[3])
           \/ \E f \in FeeSettings : SetFees(s, f[1], f[2])
  <2>1. /\ teller'.exchange_rate_provider = teller.exchange_rate_provider
        /\ teller'.payout_address = teller.payout_address
        /\ UNCHANGED <<program, config, manager>>
    BY <1>6, <1>c DEF SetWithdrawAuthority, ConfigureExchangeRateUpdateBounds, SetFees,
         SetTeller, TellerState
  <2> QED
    BY <2>1, RolesKept
<1>7. CASE \/ \E a \in Assets, data \in AssetDatas : UpdateAssetData(s, a, data)
           \/ \E digest \in Digests, ops \in OperatorSets :
                InitializeCpiDigest(s, digest, ops)
           \/ \E d \in cpiDigests : CloseCpiDigest(s, d)
  BY <1>7, RolesKept DEF UpdateAssetData, InitializeCpiDigest, CloseCpiDigest
<1> QED
  BY <1>1, <1>2, <1>3, <1>4, <1>5, <1>6, <1>7 DEF Administer

LEMMA OperateRoles ==
  ASSUME VaultInv, RolesInv, NEW s \in Signers, Operate(s)
  PROVE  RolesInv'
<1>c. config \in VaultState /\ teller \in TellerState
  BY DEF VaultInv, TypeOK
<1>1. ASSUME NEW r \in Rates, UpdateExchangeRate(s, r) PROVE RolesInv'
  <2>1. /\ config'.authority = config.authority
        /\ teller'.exchange_rate_provider = teller.exchange_rate_provider
        /\ teller'.payout_address = teller.payout_address
        /\ UNCHANGED <<program, manager>>
    BY <1>1, <1>c DEF UpdateExchangeRate, VaultState, TellerState
  <2> QED
    BY <2>1, RolesKept
<1>2. ASSUME NEW sub \in SubAccounts, ClaimFeesInBase(s, sub) PROVE RolesInv'
  <2>1. /\ teller'.exchange_rate_provider = teller.exchange_rate_provider
        /\ teller'.payout_address = teller.payout_address
        /\ UNCHANGED <<program, config, manager>>
    BY <1>2, <1>c DEF ClaimFeesInBase, TellerState
  <2> QED
    BY <2>1, RolesKept
<1>3. CASE UNCHANGED adminVars
  BY <1>3, RolesKept DEF adminVars
<1> QED
  BY <1>1, <1>2, <1>3 DEF Operate, Manage, MintShares, BurnShares

-----------------------------------------------------------------------------
(* The step of the whole program. *)

LEMMA UseAndEnvironmentKeepAdmin ==
  ASSUME NEW s \in Signers, Use(s) \/ Environment
  PROVE  UNCHANGED adminVars
BY DEF Use, Environment, Deposit, DepositSol, Withdraw, TransferShares, TransferTokens, Tick

LEMMA VaultStepInv ==
  ASSUME VaultInv, RolesInv, [VaultStep]_vaultVars
  PROVE  VaultInv' /\ RolesInv'
<1>1. CASE Setup
  BY <1>1, SetupInv, SetupRoles
<1>2. ASSUME NEW s \in Signers, Administer(s) PROVE VaultInv' /\ RolesInv'
  BY <1>2, AdministerInv, AdministerRoles
<1>3. ASSUME NEW s \in Signers, Operate(s) PROVE VaultInv' /\ RolesInv'
  <2>1. ASSUME NEW sub \in SubAccounts, ClaimFeesInBase(s, sub) PROVE VaultInv'
    BY <2>1, ClaimFeesInv DEF RolesInv, ClaimFeesInBase, ClaimFeesAccounts, AuthorityOnly
  <2>2. VaultInv'
    BY <1>3, <2>1, InputsAssumption, RateUpdateInv, ManageInv, BridgeInv DEF Operate
  <2> QED
    BY <1>3, <2>2, OperateRoles
<1>4. ASSUME NEW s \in Signers, Use(s) PROVE VaultInv' /\ RolesInv'
  BY <1>4, UseInv, UseAndEnvironmentKeepAdmin, RolesKept DEF adminVars
<1>5. CASE Environment
  <2>1. UNCHANGED adminVars
    BY <1>5 DEF Environment, TransferShares, TransferTokens, Tick
  <2> QED
    BY <1>5, <2>1, EnvironmentInv, RolesKept DEF adminVars
<1>6. CASE UNCHANGED vaultVars
  <2>1. VaultInv'
    BY <1>6 DEF vaultVars, adminVars, ledgerVars, VaultInv, TypeOK, PremiumsBounded
  <2> QED
    BY <1>6, <2>1, RolesKept DEF vaultVars, adminVars
<1> QED
  BY <1>1, <1>2, <1>3, <1>4, <1>5, <1>6 DEF VaultStep

LEMMA InitRoles == Init => RolesInv
BY DEF Init, RolesInv, Deployed

LEMMA VaultInvariant == VaultSpec => [](VaultInv /\ RolesInv)
<1>1. Init => VaultInv /\ RolesInv
  BY InitVaultInv, InitRoles
<1>2. VaultInv /\ RolesInv /\ [VaultStep]_vaultVars => (VaultInv /\ RolesInv)'
  BY VaultStepInv
<1> QED
  BY <1>1, <1>2, PTL DEF VaultSpec

(* The state of the vault always has its types: in particular no balance, no  *)
(* supply and no fee debt ever becomes negative, whatever the rates and fees  *)
(* (the checked subtractions of withdraw, burn_shares and update_exchange_rate). *)
THEOREM VaultTypeCorrect == VaultSpec => []TypeOK
<1>1. VaultInv => TypeOK
  BY DEF VaultInv
<1> QED
  BY <1>1, VaultInvariant, PTL

(* For any keys and any sequence of deploy, nominations, acceptances and      *)
(* setters, the four roles of a deployed vault are real keys.                 *)
THEOREM VaultRolesNeverVacant == VaultSpec => []RolesNeverVacant
<1>1. RolesInv => RolesNeverVacant
  BY KeysAssumption DEF RolesInv, RolesNeverVacant
<1> QED
  BY <1>1, VaultInvariant, PTL

-----------------------------------------------------------------------------
(* What no step of the vault may do: move value while the vault is paused, *)
(* or let tokens out of a sub-account that nothing accounts for.            *)


(* Only a deployed vault can be paused, so deploy cannot reset a paused one.  *)
PausedWhenDeployed == config.paused => Deployed

LEMMA PausedWhenDeployedStep ==
  ASSUME VaultInv, PausedWhenDeployed, [VaultStep]_vaultVars
  PROVE  PausedWhenDeployed'
<1>c. config \in VaultState /\ program \in [authority: KeyOrDefault, vault_count: 0..1]
  BY DEF VaultInv, TypeOK
<1>1. CASE Setup
  <2>1. ASSUME NEW k \in AdminKeys, Initialize(k) PROVE PausedWhenDeployed'
    BY <1>c, <2>1 DEF Initialize, PausedWhenDeployed, Deployed
  <2>2. ASSUME NEW s \in Signers, NEW args \in DeployArgs, Deploy(s, args)
        PROVE  PausedWhenDeployed'
    BY <2>2 DEF Deploy, PausedWhenDeployed
  <2> QED
    BY <1>1, <2>1, <2>2 DEF Setup
<1>2. ASSUME NEW s \in Signers, Administer(s) PROVE PausedWhenDeployed'
  <2>1. Deployed /\ program' = program
    BY <1>2 DEF Administer, Pause, Unpause, TransferAuthority, AcceptAuthority, PendingOnly,
         SetDepositSubAccount, SetWithdrawSubAccount, SetShareMover, SetShareMoverAccounts,
         UpdateExchangeRateProvider, SetWithdrawAuthority, SetPayout, SetStrategist,
         ConfigureExchangeRateUpdateBounds, SetFees, UpdateAssetData,
         UpdateAssetDataAccounts, InitializeCpiDigest, CloseCpiDigest, AuthorityOnly,
         SetConfig, SetTeller
  <2> QED
    BY <2>1 DEF PausedWhenDeployed, Deployed
<1>3. ASSUME NEW s \in Signers, Operate(s) PROVE PausedWhenDeployed'
  <2>1. Deployed /\ program' = program
    BY <1>3 DEF Operate, UpdateExchangeRate, UpdateExchangeRateAccounts, ClaimFeesInBase,
         ClaimFeesAccounts, AuthorityOnly, Manage, ManageAccounts, MintShares,
         MintSharesAccounts, BurnShares, BurnSharesAccounts, adminVars
  <2> QED
    BY <2>1 DEF PausedWhenDeployed, Deployed
<1>4. ASSUME UNCHANGED adminVars PROVE PausedWhenDeployed'
  BY <1>4 DEF adminVars, PausedWhenDeployed, Deployed
<1>5. ASSUME NEW s \in Signers, Use(s) PROVE PausedWhenDeployed'
  BY <1>4, <1>5, UseAndEnvironmentKeepAdmin
<1>6. CASE Environment
  BY <1>4, <1>6 DEF Environment, TransferShares, TransferTokens, Tick
<1> QED
  BY <1>1, <1>2, <1>3, <1>4, <1>5, <1>6 DEF VaultStep, vaultVars

LEMMA VaultSafetyInvariant ==
  VaultSpec => [](VaultInv /\ RolesInv /\ PausedWhenDeployed)
<1>1. Init => PausedWhenDeployed
  BY DEF Init, PausedWhenDeployed
<1>2. VaultInv /\ PausedWhenDeployed /\ [VaultStep]_vaultVars => PausedWhenDeployed'
  BY PausedWhenDeployedStep
<1> QED
  BY <1>1, <1>2, VaultInvariant, PTL DEF VaultSpec

-----------------------------------------------------------------------------
(* Paused: nothing of value moves. *)

Frozen ==
  /\ supply' = supply
  /\ \A a \in Assets, sub \in SubAccounts : tokens'[a][sub] >= tokens[a][sub]
  /\ teller'.exchange_rate = teller.exchange_rate
  /\ teller'.fees_owed_in_base_asset = teller.fees_owed_in_base_asset

LEMMA TokensKeptFreeze ==
  ASSUME VaultInv, UNCHANGED <<supply, tokens>>,
         teller'.exchange_rate = teller.exchange_rate,
         teller'.fees_owed_in_base_asset = teller.fees_owed_in_base_asset
  PROVE  Frozen
<1>1. \A a \in Assets, sub \in SubAccounts : tokens[a][sub] \in Nat
  BY DEF VaultInv, TypeOK, Accounts
<1> QED
  BY <1>1 DEF Frozen

LEMMA PausedAdminister ==
  ASSUME VaultInv, NEW s \in Signers, Administer(s)
  PROVE  Frozen
<1>c. teller \in TellerState
  BY DEF VaultInv, TypeOK
<1>1. UNCHANGED <<supply, tokens>>
  BY DEF Administer, Pause, Unpause, TransferAuthority, AcceptAuthority,
       SetDepositSubAccount, SetWithdrawSubAccount, SetShareMover,
       UpdateExchangeRateProvider, SetWithdrawAuthority, SetPayout, SetStrategist,
       ConfigureExchangeRateUpdateBounds, SetFees, UpdateAssetData,
       InitializeCpiDigest, CloseCpiDigest, SetConfig, SetTeller, ledgerVars
<1>2. CASE \/ \E k \in AdminKeys : UpdateExchangeRateProvider(s, k)
           \/ \E k \in AdminKeys : SetWithdrawAuthority(s, k)
           \/ \E k \in AdminKeys : SetPayout(s, k)
           \/ \E b \in BoundSettings : ConfigureExchangeRateUpdateBounds(s, b[1], b[2], b[3])
           \/ \E f \in FeeSettings : SetFees(s, f[1], f[2])
  <2>1. /\ teller'.exchange_rate = teller.exchange_rate
        /\ teller'.fees_owed_in_base_asset = teller.fees_owed_in_base_asset
    BY <1>2, <1>c DEF UpdateExchangeRateProvider, SetWithdrawAuthority, SetPayout,
         ConfigureExchangeRateUpdateBounds, SetFees, SetTeller, TellerState
  <2> QED
    BY <1>1, <2>1, TokensKeptFreeze
<1>3. CASE UNCHANGED teller
  BY <1>1, <1>3, TokensKeptFreeze
<1> QED
  BY <1>2, <1>3 DEF Administer, Pause, Unpause, TransferAuthority, AcceptAuthority,
       SetDepositSubAccount, SetWithdrawSubAccount, SetShareMover, SetStrategist,
       UpdateAssetData, InitializeCpiDigest, CloseCpiDigest, SetConfig

(* A holder's own transfer can only add to a sub-account. *)
LEMMA HolderTransferFreezes ==
  ASSUME VaultInv, NEW s \in Signers, NEW a \in Assets, NEW k \in Accounts,
         NEW n \in Nat, TransferTokens(s, a, k, n)
  PROVE  Frozen
<1>1. tokens \in [Assets -> [Accounts -> Nat]]
  BY DEF VaultInv, TypeOK
<1>2. s \in Accounts /\ s \notin SubAccounts /\ SubAccounts \subseteq Accounts
  BY KeysAssumption DEF Keys, Accounts
<1>3. ASSUME NEW b \in Assets, NEW sub \in SubAccounts
      PROVE  tokens'[b][sub] >= tokens[b][sub]
  <2>1. tokens[b][sub] \in Nat
    BY <1>1, <1>2
  <2>2. tokens'[b][sub] \in {tokens[b][sub], tokens[b][sub] + n}
    BY <1>1, <1>2 DEF TransferTokens, Move
  <2> QED
    BY <2>1, <2>2
<1> QED
  BY <1>3 DEF TransferTokens, adminVars, Frozen

LEMMA PausedStep ==
  ASSUME VaultInv, PausedWhenDeployed, config.paused, [VaultStep]_vaultVars
  PROVE  Frozen
<1>1. CASE Setup
  <2>1. ASSUME NEW k \in AdminKeys, Initialize(k) PROVE Frozen
    BY <2>1, TokensKeptFreeze DEF Initialize, ledgerVars
  <2>2. ASSUME NEW s \in Signers, NEW args \in DeployArgs, Deploy(s, args) PROVE FALSE
    BY <2>2 DEF Deploy, DeployAccounts, PausedWhenDeployed
  <2> QED
    BY <1>1, <2>1, <2>2 DEF Setup
<1>2. ASSUME NEW s \in Signers, Administer(s) PROVE Frozen
  BY <1>2, PausedAdminister
<1>3. ASSUME NEW s \in Signers, Operate(s) PROVE FALSE
  BY <1>3 DEF Operate, UpdateExchangeRate, UpdateExchangeRateAccounts, ClaimFeesInBase,
       ClaimFeesAccounts, Manage, ManageAccounts, MintShares, MintSharesAccounts,
       BurnShares, BurnSharesAccounts
<1>4. ASSUME NEW s \in Signers, Use(s) PROVE FALSE
  BY <1>4 DEF Use, Deposit, DepositSol, BeforeDeposit, Withdraw, WithdrawAllowed,
       BeforeWithdraw
<1>5. CASE Environment
  <2>1. ASSUME NEW s \in Signers, NEW k \in Keys, NEW n \in Amounts,
               TransferShares(s, k, n)
        PROVE  Frozen
    BY <2>1, TokensKeptFreeze DEF TransferShares, adminVars
  <2>2. ASSUME NEW s \in Signers, NEW a \in Assets, NEW k \in Accounts,
               NEW n \in Amounts, TransferTokens(s, a, k, n)
        PROVE  Frozen
    BY <2>2, HolderTransferFreezes, InputsAssumption
  <2>3. CASE Tick
    BY <2>3, TokensKeptFreeze DEF Tick, adminVars, ledgerVars
  <2> QED
    BY <1>5, <2>1, <2>2, <2>3 DEF Environment
<1>6. CASE UNCHANGED vaultVars
  BY <1>6, TokensKeptFreeze DEF vaultVars, adminVars, ledgerVars
<1> QED
  BY <1>1, <1>2, <1>3, <1>4, <1>5, <1>6 DEF VaultStep

(* While the vault is paused no instruction, of any key with any input, mints *)
(* or burns a share, takes tokens out of a sub-account, or changes the rate   *)
(* or the fee debt (the pause constraints of the eight operating handlers).   *)
THEOREM VaultPausedFreezes == VaultSpec => PausedFreezes
<1>1. VaultInv /\ PausedWhenDeployed /\ [VaultStep]_vaultVars
        => [config.paused => Frozen]_vaultVars
  BY PausedStep
<1>2. VaultSpec => [][config.paused => Frozen]_vaultVars
  BY <1>1, VaultSafetyInvariant, PTL DEF VaultSpec
<1> QED
  BY <1>2 DEF PausedFreezes, Frozen

-----------------------------------------------------------------------------
(* What leaves a sub-account. *)

Accounted ==
  \A a \in Assets, sub \in SubAccounts :
    LET paid == tokens[a][sub] - tokens'[a][sub]
    IN  paid > 0 => \/ BurntFor(a, paid)
                    \/ SettlesFees(a, paid)
                    \/ Whitelisted(a, sub, paid)

LEMMA FrozenAccounted ==
  ASSUME VaultInv, \A a \in Assets, sub \in SubAccounts : tokens'[a][sub] >= tokens[a][sub],
         tokens' \in [Assets -> [Accounts -> Nat]]
  PROVE  Accounted
<1>1. \A a \in Assets, sub \in SubAccounts : tokens[a][sub] \in Nat /\ tokens'[a][sub] \in Nat
  BY DEF VaultInv, TypeOK, Accounts
<1>2. ASSUME NEW m \in Nat, NEW n \in Nat, n >= m PROVE ~(m - n > 0)
  BY <1>2
<1> QED
  BY <1>1, <1>2 DEF Accounted

(* A move takes tokens out of its source only, and its own amount of them.    *)
LEMMA MovedOut ==
  ASSUME NEW balances \in [Assets -> [Accounts -> Nat]],
         NEW a \in Assets, NEW from \in Accounts, NEW to \in Accounts, NEW amount \in Nat
  PROVE  LET after == [balances EXCEPT ![a] = Move(@, from, to, amount)]
         IN  \A b \in Assets, sub \in SubAccounts :
               balances[b][sub] - after[b][sub] > 0
                 => b = a /\ sub = from /\ balances[b][sub] - after[b][sub] = amount
<1> DEFINE after == [balances EXCEPT ![a] = Move(@, from, to, amount)]
<1> SUFFICES ASSUME NEW b \in Assets, NEW sub \in SubAccounts,
                    balances[b][sub] - after[b][sub] > 0
             PROVE  b = a /\ sub = from /\ balances[b][sub] - after[b][sub] = amount
  OBVIOUS
<1> DEFINE old == balances[b][sub]
<1>1. old \in Nat /\ sub \in Accounts
  BY DEF Accounts
<1>2. after[b][sub] =
        IF b # a THEN old
        ELSE IF sub = from THEN (IF sub = to THEN old - amount + amount ELSE old - amount)
        ELSE IF sub = to THEN old + amount ELSE old
  BY <1>1 DEF Move
<1>3. old - after[b][sub] > 0
  OBVIOUS
<1> HIDE DEF old, after
<1> QED
  BY <1>1, <1>2, <1>3 DEF old

LEMMA NothingForNothing ==
  ASSUME VaultInv, NEW a \in Assets, NEW p \in PositivePrice
  PROVE  AssetsOut(a, 0, p) = 0
<1>1. /\ teller.exchange_rate \in Nat /\ AssetScale[a] \in Nat /\ ShareScale \in Nat \ {0}
  BY AssetsAssumption, ShareScaleAssumption DEF VaultInv, TypeOK, TellerState
<1>2. OraclePrice(a, p) \in (Nat \ {0}) \X (Nat \ {0})
  BY OraclePriceType
<1>3. ASSUME NEW k \in Nat \ {0} PROVE Truncate(0, k) = 0
  BY DEF Truncate
<1>4. ASSUME NEW k \in Nat PROVE 0 * k = 0
  OBVIOUS
<1>5. AssetsInBase(0, teller.exchange_rate) = 0
  BY <1>1, <1>3, <1>4 DEF AssetsInBase
<1>6. AssetsPegged(0, AssetScale[a], teller.exchange_rate) = 0
  BY <1>1, <1>3, <1>4, <1>5 DEF AssetsPegged, Rescale
<1>7. AssetsPriced(0, AssetScale[a], OraclePrice(a, p), teller.exchange_rate) = 0
  <2>1. ShareScale * ShareScale * OraclePrice(a, p)[1] \in Nat \ {0}
    BY <1>1, <1>2, PosTimes
  <2>2. 0 * teller.exchange_rate * OraclePrice(a, p)[2] * AssetScale[a] = 0
    <3>1. 0 * teller.exchange_rate = 0
      BY <1>1, <1>4
    <3>2. 0 * OraclePrice(a, p)[2] = 0
      BY <1>2, <1>4
    <3>3. 0 * AssetScale[a] = 0
      BY <1>1, <1>4
    <3> QED
      BY <3>1, <3>2, <3>3
  <2> QED
    BY <1>3, <2>1, <2>2 DEF AssetsPriced
<1> QED
  BY <1>5, <1>6, <1>7 DEF AssetsOut

LEMMA WithdrawAccounted ==
  ASSUME VaultInv, NEW s \in Signers, NEW n \in Amounts, NEW least, NEW a \in Mints,
         NEW p \in Prices, Withdraw(s, a, n, least, p)
  PROVE  Accounted
<1> DEFINE out  == AssetsOut(a, n, p)
           from == config.withdraw_sub_account
<1>1. /\ n \in Nat /\ a \in Assets /\ s \in Accounts /\ from \in Accounts
      /\ teller.exchange_rate \in Nat /\ supply \in Nat
      /\ tokens \in [Assets -> [Accounts -> Nat]]
  BY InputsAssumption
     DEF VaultInv, TypeOK, VaultState, TellerState, Assets, Accounts, Keys
<1>2. out \in Nat
  BY <1>1, AssetsOutType, PricesPositive DEF VaultInv
<1>3. tokens' = [tokens EXCEPT ![a] = Move(@, from, s, out)]
  BY DEF Withdraw
<1>4. supply' = supply - n /\ supply >= n
  BY DEF Withdraw, BurnFrom
<1>5. a = BaseAsset => out * ShareScale <= n * teller.exchange_rate
  <2> SUFFICES ASSUME a = BaseAsset
               PROVE  out * ShareScale <= n * teller.exchange_rate
    OBVIOUS
  <2>1. out = Truncate(n * teller.exchange_rate, ShareScale)
    BY DEF AssetsOut, AssetsInBase
  <2>2. n * teller.exchange_rate \in Nat
    BY <1>1, NatTimes
  <2>3. Truncate(n * teller.exchange_rate, ShareScale) * ShareScale
          <= n * teller.exchange_rate
    BY <2>2, TruncateBelow, ShareScaleAssumption
  <2> HIDE DEF out
  <2> QED
    BY <2>1, <2>3
<1>6. n = 0 => out = 0
  BY <1>1, NothingForNothing, PricesPositive
<1> HIDE DEF out, from
<1>7. \A b \in Assets, sub \in SubAccounts :
        tokens[b][sub] - tokens'[b][sub] > 0
          => b = a /\ sub = from /\ tokens[b][sub] - tokens'[b][sub] = out
  BY <1>1, <1>2, <1>3, MovedOut
<1>8. ASSUME NEW b \in Assets, NEW sub \in SubAccounts, tokens[b][sub] - tokens'[b][sub] > 0
      PROVE  BurntFor(b, tokens[b][sub] - tokens'[b][sub])
  <2>1. b = a /\ tokens[b][sub] - tokens'[b][sub] = out
    BY <1>8, <1>7
  <2>2. out > 0 /\ n > 0
    BY <1>1, <1>2, <1>6, <1>8, <2>1
  <2>3. supply' < supply /\ supply - supply' = n
    BY <1>1, <1>4, <2>2
  <2> QED
    BY <1>5, <2>1, <2>3 DEF BurntFor
<1> QED
  BY <1>8 DEF Accounted

LEMMA ClaimAccounted ==
  ASSUME VaultInv, RolesInv, NEW s \in Signers, NEW account \in SubAccounts,
         ClaimFeesInBase(s, account)
  PROVE  Accounted
<1> DEFINE owed == teller.fees_owed_in_base_asset
           payee == teller.payout_address
<1>1. /\ teller \in TellerState /\ owed \in Nat
      /\ tokens \in [Assets -> [Accounts -> Nat]]
      /\ BaseAsset \in Assets /\ account \in Accounts
  BY AssetsAssumption DEF VaultInv, TypeOK, TellerState, Assets, Accounts
<1>2. payee \in Accounts
  BY DEF RolesInv, ClaimFeesInBase, ClaimFeesAccounts, AuthorityOnly, Accounts
<1>3. tokens' = [tokens EXCEPT ![BaseAsset] = Move(@, account, payee, owed)]
  BY DEF ClaimFeesInBase
<1>4. teller'.fees_owed_in_base_asset = 0
  BY <1>1 DEF ClaimFeesInBase, TellerState
<1> HIDE DEF owed, payee
<1>5. LET after == [tokens EXCEPT ![BaseAsset] = Move(@, account, payee, owed)]
      IN  \A b \in Assets, sub \in SubAccounts :
            tokens[b][sub] - after[b][sub] > 0
              => b = BaseAsset /\ sub = account /\ tokens[b][sub] - after[b][sub] = owed
  BY <1>1, <1>2, MovedOut
<1>6. \A b \in Assets, sub \in SubAccounts :
        tokens[b][sub] - tokens'[b][sub] > 0
          => b = BaseAsset /\ sub = account /\ tokens[b][sub] - tokens'[b][sub] = owed
  BY <1>3, <1>5
<1>7. ASSUME NEW b \in Assets, NEW sub \in SubAccounts, tokens[b][sub] - tokens'[b][sub] > 0
      PROVE  SettlesFees(b, tokens[b][sub] - tokens'[b][sub])
  <2>1. b = BaseAsset /\ tokens[b][sub] - tokens'[b][sub] = owed
    BY <1>6, <1>7
  <2> QED
    BY <1>4, <2>1 DEF owed, SettlesFees
<1> QED
  BY <1>7 DEF Accounted

LEMMA ManageAccounted ==
  ASSUME VaultInv, NEW s \in Signers, NEW d \in cpiDigests, NEW ix \in Instructions,
         Manage(s, d, ix)
  PROVE  Accounted
<1> DEFINE asset == ix.asset
           from == ix.from
           to == ix.to
           amount == ix.amount
<1>1. /\ asset \in Assets /\ from \in Accounts /\ to \in Accounts /\ amount \in Nat
      /\ tokens \in [Assets -> [Accounts -> Nat]]
  BY InputsAssumption DEF Instruction, Assets, Accounts, VaultInv, TypeOK
<1>2. /\ tokens' = [tokens EXCEPT ![asset] = Move(@, from, to, amount)]
      /\ Ingest(ix, d.operators) = d.digest
  BY DEF Manage
<1>3. ASSUME NEW b \in Assets, NEW sub \in SubAccounts,
             b = asset, sub = from, tokens[b][sub] - tokens'[b][sub] = amount
      PROVE  Whitelisted(b, sub, tokens[b][sub] - tokens'[b][sub])
  BY <1>2, <1>3 DEF Whitelisted
<1> HIDE DEF asset, from, to, amount
<1>4. \A b \in Assets, sub \in SubAccounts :
        tokens[b][sub] - tokens'[b][sub] > 0
          => b = asset /\ sub = from /\ tokens[b][sub] - tokens'[b][sub] = amount
  BY <1>1, <1>2, MovedOut
<1> QED
  BY <1>3, <1>4 DEF Accounted

(* A deposit only adds to the sub-account it goes to. *)
LEMMA DepositAccounted ==
  ASSUME VaultInv, VaultInv', NEW s \in Signers, NEW a \in Assets, NEW n \in Nat,
         TakeDeposit(s, a, n)
  PROVE  Accounted
<1> DEFINE to == config.deposit_sub_account
<1>1. /\ tokens \in [Assets -> [Accounts -> Nat]]
      /\ s \in Accounts /\ s \notin SubAccounts /\ to \in Accounts
  BY KeysAssumption DEF VaultInv, TypeOK, VaultState, Keys, Accounts
<1>2. tokens' = [tokens EXCEPT ![a] = Move(@, s, to, n)]
  BY DEF TakeDeposit
<1> HIDE DEF to
<1>3. \A b \in Assets, sub \in SubAccounts :
        tokens[b][sub] - tokens'[b][sub] > 0
          => b = a /\ sub = s /\ tokens[b][sub] - tokens'[b][sub] = n
  BY <1>1, <1>2, MovedOut
<1> QED
  BY <1>1, <1>3 DEF Accounted

LEMMA TokensKeptAccounted ==
  ASSUME VaultInv, VaultInv', tokens' = tokens
  PROVE  Accounted
<1>1. \A a \in Assets, sub \in SubAccounts : tokens[a][sub] \in Nat
  BY DEF VaultInv, TypeOK, Accounts
<1>2. ASSUME NEW m \in Nat PROVE ~(m - m > 0)
  OBVIOUS
<1> QED
  BY <1>1, <1>2 DEF Accounted

LEMMA OutflowStep ==
  ASSUME VaultInv, VaultInv', RolesInv, [VaultStep]_vaultVars
  PROVE  Accounted
<1>0. Amounts \subseteq Nat /\ Mints \subseteq Assets /\ Native \in Assets
  BY InputsAssumption DEF Assets
<1>t. tokens' \in [Assets -> [Accounts -> Nat]]
  BY DEF VaultInv, TypeOK
<1>1. CASE Setup
  <2>1. tokens' = tokens
    BY <1>1 DEF Setup, Initialize, Deploy, ledgerVars
  <2> QED
    BY <2>1, TokensKeptAccounted
<1>2. ASSUME NEW s \in Signers, Administer(s) PROVE Accounted
  <2>1. Frozen
    BY <1>2, PausedAdminister
  <2> QED
    BY <1>t, <2>1, FrozenAccounted DEF Frozen
<1>3. ASSUME NEW s \in Signers, Operate(s) PROVE Accounted
  <2>1. CASE tokens' = tokens
    BY <2>1, TokensKeptAccounted
  <2>2. ASSUME NEW sub \in SubAccounts, ClaimFeesInBase(s, sub) PROVE Accounted
    BY <2>2, ClaimAccounted
  <2>3. ASSUME NEW d \in cpiDigests, NEW ix \in Instructions, Manage(s, d, ix)
        PROVE  Accounted
    BY <2>3, ManageAccounted
  <2> QED
    BY <1>3, <2>1, <2>2, <2>3 DEF Operate, UpdateExchangeRate, MintShares, BurnShares, ledgerVars
<1>4. ASSUME NEW s \in Signers, Use(s) PROVE Accounted
  <2>1. ASSUME NEW n \in Amounts, NEW least, NEW a \in Mints, NEW p \in Prices,
               Deposit(s, a, n, least, p)
        PROVE  Accounted
    BY <1>0, <2>1, DepositAccounted DEF Deposit
  <2>2. ASSUME NEW n \in Amounts, NEW least, NEW p \in Prices, DepositSol(s, n, least, p)
        PROVE  Accounted
    BY <1>0, <2>2, DepositAccounted DEF DepositSol
  <2>3. ASSUME NEW n \in Amounts, NEW least, NEW a \in Mints, NEW p \in Prices,
               Withdraw(s, a, n, least, p)
        PROVE  Accounted
    BY <2>3, WithdrawAccounted
  <2> QED
    BY <1>4, <2>1, <2>2, <2>3 DEF Use
<1>5. CASE Environment
  <2>1. CASE tokens' = tokens
    BY <2>1, TokensKeptAccounted
  <2>2. ASSUME NEW s \in Signers, NEW a \in Assets, NEW k \in Accounts,
               NEW n \in Amounts, TransferTokens(s, a, k, n)
        PROVE  Accounted
    <3>1. Frozen
      BY <1>0, <2>2, HolderTransferFreezes
    <3> QED
      BY <1>t, <3>1, FrozenAccounted DEF Frozen
  <2> QED
    BY <1>5, <2>1, <2>2 DEF Environment, TransferShares, Tick, ledgerVars
<1>6. CASE UNCHANGED vaultVars
  BY <1>6, TokensKeptAccounted DEF vaultVars, ledgerVars
<1> QED
  BY <1>1, <1>2, <1>3, <1>4, <1>5, <1>6 DEF VaultStep

(* In no run of the vault do tokens leave a sub-account except for burnt      *)
(* shares (in base asset never more than they are worth), for the whole fee   *)
(* debt, or through an instruction that was whitelisted at that moment        *)
(* (withdraw, claim_fees_in_base, manage).                                    *)
THEOREM VaultOutflowsAccounted == VaultSpec => OutflowsAccounted
<1>1. VaultInv /\ VaultInv' /\ RolesInv /\ [VaultStep]_vaultVars => [Accounted]_vaultVars
  BY OutflowStep
<1> QED
  BY <1>1, VaultInvariant, PTL DEF VaultSpec, OutflowsAccounted, Accounted

=============================================================================
