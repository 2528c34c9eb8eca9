---------------------------- MODULE MCVaultBacking ----------------------------
(***************************************************************************)
(* TLC instance: one user trading in every kind of asset, the base asset, a *)
(* pegged one with more decimals, one with fewer, one priced by an inverse  *)
(* feed, and lamports, at one exchange rate that divides nothing.  No fees, *)
(* no strategist, no bridge: they are meant to take value out.              *)
(***************************************************************************)
EXTENDS VaultBacking

CONSTANTS boss, user, treasury, base, fine, coarse, priced, sol, nobody

MCSigners == {boss, user}
MCPdas    == {treasury}
MCMints   == {base, fine, coarse, priced}
MCAssetScale ==
  [a \in {base, fine, coarse, priced, sol} |->
     CASE a = base -> 4 [] a = fine -> 8 [] a = coarse -> 2 [] OTHER -> 4]
MCInitialTokens ==
  [a \in {base, fine, coarse, priced, sol} |->
     [k \in Signers \cup Pdas \cup SubAccounts |->
        IF k # user THEN 0 ELSE CASE a = base -> 9 [] a = fine -> 7 [] OTHER -> 3]]
MCDeployArgs ==
  {[authority |-> boss, exchange_rate_provider |-> boss, exchange_rate |-> 5,
    payout_address |-> treasury, upper_bound |-> 12000, lower_bound |-> 8000,
    minimum_update_delay |-> 0, platform_fee_bps |-> 0,
    performance_fee_bps |-> 0, withdraw_authority |-> NoKey, strategist |-> boss]}

DataOf(a) ==
  [initialized |-> TRUE, allow_deposits |-> TRUE, allow_withdrawals |-> a # sol,
   share_premium_bps |-> IF a \in {coarse, priced} THEN 1000 ELSE 0,
   is_pegged_to_base_asset |-> a \in {fine, coarse},
   inverse_price_feed |-> a = priced, has_feed |-> a \in {priced, sol}]
MCAssetDatas == {DataOf(a) : a \in MCMints \cup {sol}}
MCAmounts == {1, 2, 3, 5, 7}
MCFixedPrice == [a \in {base, fine, coarse, priced, sol} |->
                   CASE a = priced -> <<2, 3>> [] a = sol -> <<3, 2>> [] OTHER -> <<1, 1>>]

(* Each asset is enabled with its own data, once, at the beginning; then the  *)
(* user trades and sends the vault tokens.                                    *)
Enabled(a) == assetData[a] = DataOf(a)

BackingNext ==
  \/ Setup
  \/ \E a \in Assets : ~Enabled(a) /\ UpdateAssetData(boss, a, DataOf(a))
  \/ /\ \A a \in Assets : Enabled(a)
     /\ \/ \E n \in Amounts :
             \/ \E a \in Mints : \/ Deposit(user, a, n, 0, FixedPrice[a])
                                 \/ Withdraw(user, a, n, 0, FixedPrice[a])
             \/ DepositSol(user, n, 0, FixedPrice[Native])
        \/ TransferTokens(user, priced, 0, 1)

BackingRuns == Init /\ [][BackingNext]_vaultVars

=============================================================================
