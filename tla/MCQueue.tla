-------------------------------- MODULE MCQueue --------------------------------
(***************************************************************************)
(* TLC instance of the queue on its vault: two users with shares of their   *)
(* own, one administrator of both programs who is also the solver, one      *)
(* mint, and an exchange rate that moves between request and fulfilment.    *)
(***************************************************************************)
EXTENDS BoringQueue

CONSTANTS boss, alice, bob, queuepda, usdc, sol, nobody

MCSigners == {boss, alice, bob}
MCPdas    == {queuepda}
MCMints   == {usdc}
MCAssetScale == [a \in {usdc, sol} |-> 1]
MCInitialTokens ==
  [a \in {usdc, sol} |-> [k \in Keys \cup SubAccounts |->
     IF a = sol THEN 0 ELSE CASE k = alice -> 10 [] k = bob -> 5 [] OTHER -> 0]]
MCDeployArgs ==
  {[authority |-> boss, exchange_rate_provider |-> boss, exchange_rate |-> 5,
    payout_address |-> boss, upper_bound |-> 12000, lower_bound |-> 8000,
    minimum_update_delay |-> 0, platform_fee_bps |-> 0,
    performance_fee_bps |-> 0, withdraw_authority |-> NoKey, strategist |-> boss]}
MCAssetDatas ==
  {[initialized |-> TRUE, allow_deposits |-> TRUE, allow_withdrawals |-> TRUE,
    share_premium_bps |-> 0, is_pegged_to_base_asset |-> FALSE,
    inverse_price_feed |-> FALSE, has_feed |-> FALSE]}
MCSettings(minimum, maturity) ==
  [allow_withdrawals |-> TRUE, seconds_to_maturity |-> maturity,
   minimum_seconds_to_deadline |-> 0, minimum_discount |-> 0,
   maximum_discount |-> 1000, minimum_shares |-> minimum]
MCWithdrawAssetSettings == {MCSettings(1, 1)}
MCPrices == {<<1, 1>>}

Ready ==
  /\ assetData[usdc].initialized
  /\ queue.deployed
  /\ withdrawAssetData[usdc].allow_withdrawals
  /\ \A s \in {alice, bob} : lastNonce[s] # NoState

(* Both programs are set up, and each user has deposited all it has and then  *)
(* set up its withdraw state, before time starts.                             *)
QueueSetup ==
  \/ /\ \/ Setup
        \/ \E data \in AssetDatas : UpdateAssetData(boss, usdc, data)
        \/ \E s \in {alice, bob} : Deposit(s, usdc, 5, 0, <<1, 1>>)
     /\ UNCHANGED queueVars
  \/ \E s \in {alice, bob} : tokens[usdc][s] = 0 /\ SetupUserWithdrawState(s)
  \/ InitializeQueue(boss)
  \/ DeployQueue(boss, boss, boss)
  \/ \E data \in WithdrawAssetSettings : UpdateWithdrawAssetData(boss, usdc, data)

(* Everything that bears on a request: both pauses, the rate, the solver, the *)
(* users' own trades with the vault, transfers into the queue.                *)
QueueOps ==
  \/ PauseQueue(boss) \/ UnpauseQueue(boss)
  \/ \E s \in {alice, bob} :
       \/ Request(s)
       \/ \E r \in requests : CancelWithdraw(s, r)
  \/ \E s \in Signers, r \in requests, p \in Prices : FulfillWithdraw(s, r, p)
  \/ /\ \/ Pause(boss) \/ Unpause(boss)
        \/ \E r \in Rates : UpdateExchangeRate(boss, r)
        \/ Withdraw(alice, usdc, 1, 0, <<1, 1>>)
        \/ TransferShares(bob, QueuePda, 1)
        \/ Tick
     /\ UNCHANGED queueVars

QueueNext == (~Ready /\ QueueSetup) \/ (Ready /\ QueueOps)

QueueSpec == QueueInit /\ [][QueueNext]_vars

FairQueueSpec == QueueSpec /\ Fairness

=============================================================================
