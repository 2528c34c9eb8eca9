------------------------------ MODULE MCVaultTime ------------------------------
(***************************************************************************)
(* TLC instance: what the passing of time does to one vault.  As soon as    *)
(* one asset is enabled, a behaviour follows one of two courses:            *)
(*   - the base asset: every sequence of rate updates, pauses, unpauses,    *)
(*     claims, deposits and withdrawals, under one set of fees; the payout  *)
(*     account receives nothing but fees;                                   *)
(*   - lamports or a token with a price: feeds publish, slots pass, the     *)
(*     oracle of the asset is replaced, and the user trades.                *)
(***************************************************************************)
EXTENDS VaultFees, OracleReading

CONSTANTS boss, user, treasury, usdc, steth, sol, nobody, pyth, pull, nofeed,
          LastTick,    \* last second of the first course
          ReviewTime,  \* the second of it in which settings change
          MaxPublished

MCSigners == {boss, user}
MCPdas    == {treasury}
MCMints   == {usdc, steth}
MCAssetScale == [a \in {usdc, steth, sol} |-> 1]
MCInitialTokens ==
  [a \in {usdc, steth, sol} |-> [k \in Signers \cup Pdas \cup SubAccounts |->
     IF k = user THEN 20 ELSE 0]]
MCDeployArgs ==
  {[authority |-> boss, exchange_rate_provider |-> boss, exchange_rate |-> 10,
    payout_address |-> treasury, upper_bound |-> 12000, lower_bound |-> 9000,
    minimum_update_delay |-> 2, platform_fee_bps |-> 1000,
    performance_fee_bps |-> 5000, withdraw_authority |-> NoKey, strategist |-> boss]}
DataWith(feed) ==
  [initialized |-> TRUE, allow_deposits |-> TRUE, allow_withdrawals |-> TRUE,
   share_premium_bps |-> 0, is_pegged_to_base_asset |-> FALSE,
   inverse_price_feed |-> FALSE, has_feed |-> feed # nofeed]
MCAssetDatas == {DataWith(feed) : feed \in {pyth, nofeed}}
MCAmounts == {1, 10}
MCRates   == {8, 10, 12, 14}
MCFeeSettings   == {<<2000, 2000>>}
MCBoundSettings == {<<11000, 8000, 1>>}
MCPrices  == {<<1, 1>>}
MCFeeds   == {pyth, pull}
MCOracleSettings ==
  {[adapter |-> "PythV2", feed |-> pyth, max_staleness |-> 50, max_conf_width_bps |-> 5000],
   [adapter |-> "SwitchboardV2", feed |-> pull, max_staleness |-> 60, min_samples |-> 2]}
MCQuotes ==
  {[price |-> <<2, 1>>, conf |-> 1],  \* half a price wide at most, and as wide
   [price |-> <<1, 1>>, conf |-> 1],  \* too wide for Pyth's setting
   [price |-> <<0, 1>>, conf |-> 0]}  \* no price at all

Priced == {a \in Assets \ {BaseAsset} : assetData[a].initialized}

FeesCourse ==
  /\ assetData[BaseAsset].initialized
  /\ \/ Pause(boss)
     \/ Unpause(boss)
     \/ \E r \in Rates : UpdateExchangeRate(boss, r)
     \/ ClaimFeesInBase(boss, 0)
     \/ now = ReviewTime /\ \E f \in FeeSettings : SetFees(boss, f[1], f[2])
     \/ now = ReviewTime /\ \E b \in BoundSettings :
          ConfigureExchangeRateUpdateBounds(boss, b[1], b[2], b[3])
     \/ \E n \in Amounts, p \in Prices :
          \/ Deposit(user, BaseAsset, n, 1, p)
          \/ Withdraw(user, BaseAsset, n, 0, p)
     \/ now < LastTick /\ Tick
  /\ UNCHANGED oracleVars

PricesCourse ==
  /\ Priced # {}
  /\ \/ \E n \in Amounts : Trade(user, n, 1)
     \/ \E a \in Priced, source \in OracleSettings :
          ConfigureAsset(boss, a, DataWith(source.feed), source)
     \/ \E feed \in Feeds, quote \in Quotes :
          Cardinality(published) < MaxPublished /\ Publish(feed, quote)
     \/ \E n \in SlotSteps : PassSlots(n)

Enable ==
  /\ \A a \in Assets : ~assetData[a].initialized
  /\ \/ UpdateAssetData(boss, BaseAsset, DataWith(nofeed)) /\ UNCHANGED oracleVars
     \/ \E a \in Assets \ {BaseAsset}, source \in OracleSettings :
          ConfigureAsset(boss, a, DataWith(source.feed), source)

TimeStep ==
  \/ Setup /\ UNCHANGED oracleVars
  \/ Enable
  \/ FeesCourse
  \/ PricesCourse

TimeInit == FeesInit /\ OracleInit

TimeSpec == TimeInit /\ [][TimeStep /\ Remember]_<<feesVars, oracleVars>>

=============================================================================
