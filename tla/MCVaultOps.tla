------------------------------ MODULE MCVaultOps ------------------------------
(***************************************************************************)
(* TLC instance: every instruction of the vault.  Two keys set it up, hand   *)
(* its roles around and try every setter, the default key among the inputs; *)
(* then one of them, holding all roles (the share mover's too), operates it *)
(* and the other uses it, with two sub-accounts, one mint and lamports.     *)
(***************************************************************************)
EXTENDS BoringVault

CONSTANTS boss, user, treasury, usdc, sol, nobody

MCSigners == {boss, user}
MCPdas    == {treasury}
MCMints   == {usdc}
MCAssetScale == [a \in {usdc, sol} |-> IF a = usdc THEN 2 ELSE 1]
MCInitialTokens ==
  [a \in {usdc, sol} |-> [k \in {boss, user, treasury} \cup SubAccounts |->
     IF k # user THEN 0 ELSE IF a = usdc THEN 5 ELSE 1]]
(* The second set of arguments leaves the strategist to nobody.              *)
Args(strategist) ==
  [authority |-> boss, exchange_rate_provider |-> boss, exchange_rate |-> 5,
   payout_address |-> treasury, upper_bound |-> 12000, lower_bound |-> 8000,
   minimum_update_delay |-> 0, platform_fee_bps |-> 2000,
   performance_fee_bps |-> 5000, withdraw_authority |-> nobody,
   strategist |-> strategist]
MCDeployArgs == {Args(boss), Args(nobody)}
MCAssetDatas ==
  {[initialized |-> TRUE, allow_deposits |-> TRUE, allow_withdrawals |-> TRUE,
    share_premium_bps |-> 0, is_pegged_to_base_asset |-> FALSE,
    inverse_price_feed |-> FALSE, has_feed |-> TRUE]}
MCAmounts == {1, 5}
MCRates   == {4, 6}
MCPrices  == {<<2, 1>>}
MCInstructions ==
  {[asset |-> usdc, from |-> 0, to |-> 1, amount |-> 1],
   [asset |-> usdc, from |-> 0, to |-> treasury, amount |-> 1]}
MCOperatorSets == {{"asset", "from"}}

MCFeeSettings   == {<<2000, 5000>>, <<2001, 0>>}
MCBoundSettings == {<<12000, 8000, 0>>, <<9999, 8000, 0>>}

(* Bound on the share supply, far below MaxU64, which is to leave the payouts *)
(* of withdraw and the fees alone.                                            *)
MaxSupply == 2

Untouched == \A a \in Assets : ~assetData[a].initialized

(* Every role is as deployed, or the share mover the administrator's.         *)
AsDeployed ==
  /\ program.authority = boss
  /\ config.authority = boss /\ config.pending_authority = NoKey
  /\ config.deposit_sub_account = 0 /\ config.share_mover \in {NoKey, boss}
  /\ teller.exchange_rate_provider = boss /\ teller.payout_address = treasury
  /\ teller.withdraw_authority = NoKey
  /\ manager.strategist = boss

Configured == \A a \in Assets : assetData[a].initialized

(* Before an asset is enabled both keys administer the vault and hand its     *)
(* roles around; a vault that is as deployed may enable assets and go into    *)
(* operation, with its roles as they are from then on.                        *)
OpsStep ==
  \/ Setup
  \/ \E s \in Signers :
       Untouched /\ Administer(s) /\ (Untouched' \/ AsDeployed)
  \/ \E a \in Assets, data \in AssetDatas :
       AsDeployed /\ ~assetData[a].initialized /\ UpdateAssetData(boss, a, data)
  \/ /\ Configured
     /\ \/ Pause(boss)
        \/ Unpause(boss)
        \/ SetShareMover(boss, boss)
        \/ SetWithdrawSubAccount(boss, 1)
        \/ \E digest \in Digests, ops \in OperatorSets :
             InitializeCpiDigest(boss, digest, ops)
        \/ \E d \in cpiDigests : CloseCpiDigest(boss, d)
        \/ (Operate(boss) \/ Use(user)) /\ supply' <= MaxSupply
        \/ Tick

OpsSpec == Init /\ [][OpsStep]_vaultVars

=============================================================================
