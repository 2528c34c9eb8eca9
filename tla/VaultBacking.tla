----------------------------- MODULE VaultBacking -----------------------------
(***************************************************************************)
(* What the vault holds against what its shares are worth: at a fixed       *)
(* exchange rate and fixed prices no mix of deposits and withdrawals, in    *)
(* any asset, takes more out of the vault than was put in.                  *)
(***************************************************************************)
EXTENDS BoringVault

CONSTANTS
  FixedPrice,  \* what the oracle of each asset reads, all the time
  Unit         \* units of value in a whole unit of the base asset

(* Any common multiple will do: it clears the fractions.                      *)
ASSUME BackingAssumption ==
  /\ IsFiniteSet(Mints) /\ IsFiniteSet(SubAccounts)
  /\ FixedPrice \in [Assets -> (Nat \ {0}) \X (Nat \ {0})]
  /\ Unit \in Nat \ {0}
  /\ \A a \in Assets :
       /\ Unit % AssetScale[a] = 0
       /\ Unit % (AssetScale[a] * FixedPrice[a][1]) = 0
       /\ Unit % (AssetScale[a] * FixedPrice[a][2]) = 0

(* Base units for a whole one of an asset; the oracle quotes the price as it   *)
(* is or inverted.                                                            *)
PriceOf(a) ==
  IF a = BaseAsset \/ assetData[a].is_pegged_to_base_asset THEN <<1, 1>>
  ELSE OraclePrice(a, FixedPrice[a])

UnitWorth(a) == PriceOf(a)[1] * (Unit \div (AssetScale[a] * PriceOf(a)[2]))

(* One element for each unit of value of each asset in each sub-account.       *)
UnitsHeld ==
  UNION {{x} \X (1..(tokens[x[1]][x[2]] * UnitWorth(x[1]))) : x \in Assets \X SubAccounts}

ValueHeld == Cardinality(UnitsHeld)

-----------------------------------------------------------------------------
(* Trading at these prices, and everything else but what is meant to take      *)
(* value out or to share it anew: the strategist's calls, the payment of fees *)
(* and the bridge, which brings shares that were paid for elsewhere.          *)

TradeAtFixedPrices(s) ==
  \E n \in Amounts, least \in Amounts \cup {0} :
    \/ \E a \in Mints : \/ Deposit(s, a, n, least, FixedPrice[a])
                        \/ Withdraw(s, a, n, least, FixedPrice[a])
    \/ DepositSol(s, n, least, FixedPrice[Native])

TermsKept ==
  /\ teller'.exchange_rate = teller.exchange_rate
  /\ \A a \in Assets : PriceOf(a)' = PriceOf(a)

BackingStep ==
  /\ \/ Setup
     \/ \E s \in Signers :
          \/ Administer(s)
          \/ TradeAtFixedPrices(s)
          \/ \E r \in Rates : UpdateExchangeRate(s, r)
          \/ \E k \in Signers, n \in Amounts : BurnShares(s, k, n)
     \/ Environment
  /\ supply = 0 \/ TermsKept

BackingSpec == Init /\ [][BackingStep]_vaultVars

-----------------------------------------------------------------------------

(* The vault's holdings are worth at least its outstanding shares: every       *)
(* truncation of the conversion chains and the share premium fall on the      *)
(* user's side, whatever the order of deposits and withdrawals and whichever  *)
(* assets they use.                                                           *)
SharesBacked ==
  ValueHeld * ShareScale * ShareScale >= supply * teller.exchange_rate * Unit

=============================================================================
