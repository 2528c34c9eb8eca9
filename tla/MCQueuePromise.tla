---------------------------- MODULE MCQueuePromise ----------------------------
(***************************************************************************)
(* TLC instance: requests for every kind of asset the configuration offers: *)
(* the base asset, one pegged to it with fewer decimals, one priced by an   *)
(* inverse feed, one pegged to it with more decimals than the share token.  *)
(* After the first request the rate and the price may rise and fall, and the *)
(* priced asset may be pegged.                                              *)
(***************************************************************************)
EXTENDS QueuePromise

CONSTANTS boss, user, queuepda, base, coarse, priced, fine, sol, nobody,
          Offered,     \* the assets the queue accepts requests for
          MaxRequests  \* bound on the requests the user makes

MCSigners == {boss, user}
MCPdas    == {queuepda}
MCMints   == {base, coarse, priced, fine}
MCAssetScale ==
  [a \in {base, coarse, priced, fine, sol} |->
     CASE a = base -> 4 [] a = fine -> 8 [] a = coarse -> 2 [] OTHER -> 4]
MCInitialTokens ==
  [a \in {base, coarse, priced, fine, sol} |-> [k \in Keys \cup SubAccounts |->
     CASE a = base -> IF k = user THEN 6 ELSE 0
       [] a \in {coarse, priced, fine} -> IF k = 0 THEN 5 ELSE 0
       [] OTHER -> 0]]
MCDeployArgs ==
  {[authority |-> boss, exchange_rate_provider |-> boss, exchange_rate |-> 5,
    payout_address |-> boss, upper_bound |-> 12000, lower_bound |-> 8000,
    minimum_update_delay |-> 0, platform_fee_bps |-> 0,
    performance_fee_bps |-> 0, withdraw_authority |-> NoKey, strategist |-> boss]}

DataOf(a) ==
  [initialized |-> TRUE, allow_deposits |-> TRUE, allow_withdrawals |-> TRUE,
   share_premium_bps |-> 0, is_pegged_to_base_asset |-> a \in {fine, coarse},
   inverse_price_feed |-> a = priced, has_feed |-> a = priced]
Pegged(data) == [data EXCEPT !.is_pegged_to_base_asset = TRUE]
MCAssetDatas == {DataOf(a) : a \in MCMints} \cup {Pegged(DataOf(priced))}
MCWithdrawAssetSettings ==
  {[allow_withdrawals |-> TRUE, seconds_to_maturity |-> 1,
    minimum_seconds_to_deadline |-> 0, minimum_discount |-> 0,
    maximum_discount |-> 1000, minimum_shares |-> 1]}
MCPrices == {<<2, 3>>, <<1, 2>>}

Ready == lastNonce[user] # NoState

(* The user buys shares with the base asset; the vault has been sent some of  *)
(* each other asset.                                                          *)
PrepareStep ==
  \/ /\ \/ Setup
        \/ \E a \in Mints : ~assetData[a].initialized /\ UpdateAssetData(boss, a, DataOf(a))
        \/ \E p \in Prices : Deposit(user, base, 5, 0, p)
     /\ UNCHANGED queueVars
  \/ InitializeQueue(boss)
  \/ DeployQueue(boss, boss, boss)
  \/ \E a \in Offered, data \in WithdrawAssetSettings : UpdateWithdrawAssetData(boss, a, data)
  \/ /\ tokens[base][user] < 5
     /\ \A a \in Offered : withdrawAssetData[a].allow_withdrawals
     /\ SetupUserWithdrawState(user)

OtherStep ==
  \/ SetSolveAuthority(boss, NoKey)
  \/ \E r \in requests : CancelWithdraw(user, r)
  \/ \E s \in Signers, r \in requests, p \in Prices : FulfillWithdraw(s, r, p)
  \/ /\ \/ \E rate \in Rates : UpdateExchangeRate(boss, rate)
        \/ UpdateAssetData(boss, priced, Pegged(DataOf(priced)))
        \/ SetWithdrawAuthority(boss, QueuePda)
        \/ \E a \in Offered, p \in Prices : Withdraw(user, a, 1, 0, p)
        \/ Tick
     /\ UNCHANGED queueVars

PromiseNext ==
  \/ ~Ready /\ PrepareStep /\ KeepQuotes
  \/ Ready /\ lastNonce[user] < MaxRequests /\ QuoteFor(user)
  \/ Ready /\ lastNonce[user] > 0 /\ OtherStep /\ KeepQuotes

PromiseRuns == PromiseInit /\ [][PromiseNext]_<<vars, quoted>>

=============================================================================
