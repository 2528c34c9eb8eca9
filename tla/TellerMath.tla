------------------------------ MODULE TellerMath ------------------------------
(***************************************************************************)
(* The price arithmetic of the vault (utils/teller.rs, utils/math.rs) and   *)
(* of the withdraw queue (request_withdraw).                                *)
(*                                                                          *)
(* The code computes with rust_decimal.  An amount in raw token units is an *)
(* integer; to_decimal divides it by the token's scale (10^decimals) and    *)
(* from_decimal multiplies by a scale and truncates to u64.  Here the       *)
(* intermediate decimals are exact rationals, so each conversion chain is   *)
(* one quotient, truncated where the code calls from_decimal and nowhere    *)
(* else.  Oracle prices are pairs <<num, den>>: base asset per whole token. *)
(***************************************************************************)
EXTENDS Integers

CONSTANT ShareScale  \* 10^(share decimals); the share mint copies the base asset's

ASSUME ShareScaleAssumption == ShareScale \in Nat \ {0}

BpsScale == 10000

MaxUpperBound     == 12000
MaxLowerBound     == 8000
MaxPlatformFee    == 2000
MaxPerformanceFee == 5000
MaxSharePremium   == 1000

-----------------------------------------------------------------------------

(* from_decimal: a non-negative ratio truncated to raw units. *)
Truncate(num, den) == num \div den

(* to_decimal at one scale followed by from_decimal at another. *)
Rescale(amount, from, to) == Truncate(amount * to, from)

-----------------------------------------------------------------------------
(* Deposits: shares minted, after the asset's share premium is deducted.    *)

SharesForBase(amount, rate, premium) ==
  Truncate(amount * ShareScale * (BpsScale - premium), rate * BpsScale)

SharesForPegged(amount, assetScale, rate, premium) ==
  SharesForBase(Rescale(amount, assetScale, ShareScale), rate, premium)

SharesForPriced(amount, assetScale, price, rate, premium) ==
  Truncate(amount * price[1] * ShareScale * ShareScale * (BpsScale - premium),
           assetScale * price[2] * rate * BpsScale)

-----------------------------------------------------------------------------
(* Withdrawals: assets paid for burnt shares.                               *)

(* A variant that rounds in the user's favour. *)
AssetsInBaseUp(shareAmount, rate) ==
  Truncate(shareAmount * rate + ShareScale - 1, ShareScale)

AssetsInBase(shareAmount, rate) == Truncate(shareAmount * rate, ShareScale)

AssetsPegged(shareAmount, assetScale, rate) ==
  Rescale(AssetsInBase(shareAmount, rate), ShareScale, assetScale)

AssetsPriced(shareAmount, assetScale, price, rate) ==
  Truncate(shareAmount * rate * price[2] * assetScale,
           ShareScale * ShareScale * price[1])

-----------------------------------------------------------------------------
(* The exchange rate quoted in another asset, and what the queue promises.  *)

RatePegged(rate, assetScale) == Rescale(rate, ShareScale, assetScale)

RatePriced(rate, assetScale, price) ==
  Truncate(rate * price[2] * assetScale, ShareScale * price[1])

(* A variant that rounds the promise up. *)
PromisedAssetsUp(shareAmount, rateInQuote, discount) ==
  Truncate(shareAmount * rateInQuote * (BpsScale - discount) + ShareScale * BpsScale - 1,
           ShareScale * BpsScale)

PromisedAssets(shareAmount, rateInQuote, discount) ==
  Truncate(shareAmount * rateInQuote * (BpsScale - discount),
           ShareScale * BpsScale)

=============================================================================
