----------------------------- MODULE BoringVault -----------------------------
(***************************************************************************)
(* The boring-vault-svm program: one vault from its deployment on.          *)
(*                                                                          *)
(* Every instruction is one action.  A Solana transaction is atomic: an     *)
(* instruction that returns an error changes nothing, so an action is       *)
(* enabled exactly when its instruction succeeds, and its guard collects    *)
(* the constraints of the accounts struct, the require!s of the handler,    *)
(* the checks of the token program and the failing arithmetic.              *)
(*                                                                          *)
(* The token program (share and asset balances), the clock, the oracle's    *)
(* readings and the programs the strategist calls are the environment.      *)
(***************************************************************************)
EXTENDS TellerMath, FiniteSets

CONSTANTS
  Signers,        \* keys whose signature the environment can present
  Pdas,           \* program addresses that sign only through their program
  NoKey,          \* Pubkey::default()
  SubAccounts,    \* vault sub-account numbers; each is a token holder
  Mints,          \* asset mints
  Native,         \* NATIVE: lamports, an asset without a mint
  BaseAsset,      \* base_asset of the deployed vault
  AssetScale,     \* 10^decimals of each asset
  InitialTokens,  \* asset balances before the vault exists
  SecondsPerYear, \* 365 * 86400
  MaxU64,         \* largest value of a u64
  MaxTime         \* bound on the clock

CONSTANTS         \* the instruction inputs that are considered
  DeployArgs, AssetDatas, Amounts, Rates, Prices, FeeSettings, BoundSettings,
  Instructions, OperatorSets, AdminKeys

Keys     == Signers \cup Pdas
Accounts == Keys \cup SubAccounts
Assets   == Mints \cup {Native}
KeyOrDefault == Keys \cup {NoKey}

VARIABLES
  program,     \* ProgramConfig
  config,      \* VaultState
  teller,      \* TellerState
  manager,     \* ManagerState
  assetData,   \* the AssetData account of each asset
  cpiDigests,  \* the open CpiDigest accounts
  shares,      \* share balance of each key
  supply,      \* share_mint.supply
  tokens,      \* asset balances of keys and vault sub-accounts
  now          \* Clock::unix_timestamp

adminVars  == <<program, config, teller, manager, assetData, cpiDigests>>
ledgerVars == <<shares, supply, tokens>>
vaultVars  == <<adminVars, ledgerVars, now>>

-----------------------------------------------------------------------------
(* State types. *)

VaultState ==
  [authority: KeyOrDefault, pending_authority: KeyOrDefault, paused: BOOLEAN,
   deposit_sub_account: SubAccounts, withdraw_sub_account: SubAccounts,
   share_mover: KeyOrDefault]

TellerState ==
  [exchange_rate_provider: KeyOrDefault, exchange_rate: Nat,
   exchange_rate_high_water_mark: Nat, fees_owed_in_base_asset: Nat,
   total_shares_last_update: Nat, last_update_timestamp: Nat,
   payout_address: KeyOrDefault, upper_bound: Nat, lower_bound: Nat,
   minimum_update_delay: Nat, platform_fee_bps: Nat, performance_fee_bps: Nat,
   withdraw_authority: KeyOrDefault]

AssetData ==
  [initialized: BOOLEAN, allow_deposits: BOOLEAN, allow_withdrawals: BOOLEAN,
   share_premium_bps: Nat, is_pegged_to_base_asset: BOOLEAN,
   inverse_price_feed: BOOLEAN, has_feed: BOOLEAN]

DeployArgsType ==
  [authority: KeyOrDefault, exchange_rate_provider: KeyOrDefault,
   exchange_rate: Nat, payout_address: KeyOrDefault, upper_bound: Nat,
   lower_bound: Nat, minimum_update_delay: Nat, platform_fee_bps: Nat,
   performance_fee_bps: Nat, withdraw_authority: KeyOrDefault,
   strategist: KeyOrDefault]

(* A whitelisted instruction moves `amount` of `asset` out of `from`; the     *)
(* operators of a digest select the parts of it that are hashed.              *)
Instruction == [asset: Mints, from: SubAccounts, to: Accounts, amount: Nat]
Ingest(ix, operators) == [part \in operators |-> ix[part]]

-----------------------------------------------------------------------------
(* What is assumed of the parameters. *)

ASSUME KeysAssumption ==
  /\ NoKey \notin Keys
  /\ Signers \cap Pdas = {}
  /\ Keys \cap SubAccounts = {}
  /\ 0 \in SubAccounts

ASSUME AssetsAssumption ==
  /\ BaseAsset \in Mints
  /\ Native \notin Mints
  /\ AssetScale \in [Assets -> Nat \ {0}]
  /\ AssetScale[BaseAsset] = ShareScale
  /\ InitialTokens \in [Assets -> [Accounts -> Nat]]

ASSUME BoundsAssumption ==
  /\ SecondsPerYear \in Nat \ {0}
  /\ MaxU64 \in Nat
  /\ MaxTime \in Nat

ASSUME InputsAssumption ==
  /\ DeployArgs \subseteq DeployArgsType
  /\ AssetDatas \subseteq AssetData
  /\ Amounts \subseteq Nat
  /\ Rates \subseteq Nat
  /\ Prices \subseteq (Nat \ {0}) \X (Nat \ {0})
  /\ FeeSettings \subseteq Nat \X Nat
  /\ BoundSettings \subseteq Nat \X Nat \X Nat
  /\ Instructions \subseteq Instruction
  /\ OperatorSets \subseteq SUBSET {"asset", "from", "to", "amount"}
  /\ AdminKeys \subseteq KeyOrDefault

-----------------------------------------------------------------------------
(* Program functions: initialize and deploy.  The model follows the first    *)
(* vault the program deploys (vault_id 0).                                   *)

Deployed == program.vault_count > 0

Init ==
  /\ program = [authority |-> NoKey, vault_count |-> 0]
  /\ config = [authority |-> NoKey, pending_authority |-> NoKey, paused |-> FALSE,
               deposit_sub_account |-> 0, withdraw_sub_account |-> 0,
               share_mover |-> NoKey]
  /\ teller = [exchange_rate_provider |-> NoKey, exchange_rate |-> 0,
               exchange_rate_high_water_mark |-> 0, fees_owed_in_base_asset |-> 0,
               total_shares_last_update |-> 0, last_update_timestamp |-> 0,
               payout_address |-> NoKey, upper_bound |-> 0, lower_bound |-> 0,
               minimum_update_delay |-> 0, platform_fee_bps |-> 0,
               performance_fee_bps |-> 0, withdraw_authority |-> NoKey]
  /\ manager = [strategist |-> NoKey]
  /\ assetData = [a \in Assets |->
       [initialized |-> FALSE, allow_deposits |-> FALSE, allow_withdrawals |-> FALSE,
        share_premium_bps |-> 0, is_pegged_to_base_asset |-> FALSE,
        inverse_price_feed |-> FALSE, has_feed |-> FALSE]]
  /\ cpiDigests = {}
  /\ shares = [k \in Keys |-> 0]
  /\ supply = 0
  /\ tokens = InitialTokens
  /\ now = 0

(* The config account is created once, by the program's own key. *)
Initialize(authority) ==
  /\ program.authority = NoKey
  /\ authority # NoKey
  /\ program' = [program EXCEPT !.authority = authority]
  /\ UNCHANGED <<config, teller, manager, assetData, cpiDigests, ledgerVars, now>>

ValidBounds(upper, lower) ==
  /\ upper <= MaxUpperBound /\ upper >= BpsScale
  /\ lower >= MaxLowerBound /\ lower <= BpsScale

ValidFees(platform, performance) ==
  /\ platform <= MaxPlatformFee
  /\ performance <= MaxPerformanceFee

DeployAccounts(s) == s \in Signers /\ s = program.authority /\ ~Deployed

Deploy(s, args) ==
  /\ DeployAccounts(s)
  /\ NoKey \notin {args.authority, args.exchange_rate_provider,
                   args.payout_address, args.strategist}
  /\ ValidBounds(args.upper_bound, args.lower_bound)
  /\ ValidFees(args.platform_fee_bps, args.performance_fee_bps)
  /\ config' = [authority |-> args.authority, pending_authority |-> NoKey,
                paused |-> FALSE, deposit_sub_account |-> 0,
                withdraw_sub_account |-> 0, share_mover |-> NoKey]
  /\ teller' = [exchange_rate_provider |-> args.exchange_rate_provider,
                exchange_rate |-> args.exchange_rate,
                exchange_rate_high_water_mark |-> args.exchange_rate,
                fees_owed_in_base_asset |-> 0,
                total_shares_last_update |-> supply,
                last_update_timestamp |-> now,
                payout_address |-> args.payout_address,
                upper_bound |-> args.upper_bound,
                lower_bound |-> args.lower_bound,
                minimum_update_delay |-> args.minimum_update_delay,
                platform_fee_bps |-> args.platform_fee_bps,
                performance_fee_bps |-> args.performance_fee_bps,
                withdraw_authority |-> args.withdraw_authority]
  /\ manager' = [strategist |-> args.strategist]
  /\ program' = [program EXCEPT !.vault_count = @ + 1]
  /\ UNCHANGED <<assetData, cpiDigests, ledgerVars, now>>

-----------------------------------------------------------------------------
(* Authority functions. *)

AuthorityOnly(s) == Deployed /\ s \in Signers /\ s = config.authority

SetConfig(newConfig) ==
  /\ config' = newConfig
  /\ UNCHANGED <<program, teller, manager, assetData, cpiDigests, ledgerVars, now>>

SetTeller(newTeller) ==
  /\ teller' = newTeller
  /\ UNCHANGED <<program, config, manager, assetData, cpiDigests, ledgerVars, now>>

Pause(s) == AuthorityOnly(s) /\ SetConfig([config EXCEPT !.paused = TRUE])

Unpause(s) == AuthorityOnly(s) /\ SetConfig([config EXCEPT !.paused = FALSE])

TransferAuthority(s, pending) ==
  AuthorityOnly(s) /\ SetConfig([config EXCEPT !.pending_authority = pending])

PendingOnly(s) == Deployed /\ s \in Signers /\ s = config.pending_authority

(* A variant that clears the nomination before it copies it. *)
AcceptAuthorityClearsFirst(s) ==
  /\ PendingOnly(s)
  /\ SetConfig([config EXCEPT !.pending_authority = NoKey, !.authority = NoKey])

AcceptAuthority(s) ==
  /\ PendingOnly(s)
  /\ SetConfig([config EXCEPT !.authority = config.pending_authority,
                              !.pending_authority = NoKey])

SetDepositSubAccount(s, sub) ==
  AuthorityOnly(s) /\ SetConfig([config EXCEPT !.deposit_sub_account = sub])

SetWithdrawSubAccount(s, sub) ==
  AuthorityOnly(s) /\ SetConfig([config EXCEPT !.withdraw_sub_account = sub])

SetShareMoverAccounts(s) == AuthorityOnly(s)

SetShareMover(s, mover) ==
  /\ SetShareMoverAccounts(s)
  /\ mover # NoKey
  /\ SetConfig([config EXCEPT !.share_mover = mover])

UpdateExchangeRateProvider(s, provider) ==
  /\ AuthorityOnly(s)
  /\ provider # NoKey
  /\ SetTeller([teller EXCEPT !.exchange_rate_provider = provider])

SetWithdrawAuthority(s, authority) ==
  AuthorityOnly(s) /\ SetTeller([teller EXCEPT !.withdraw_authority = authority])

SetPayout(s, payout) ==
  /\ AuthorityOnly(s)
  /\ payout # NoKey
  /\ SetTeller([teller EXCEPT !.payout_address = payout])

ConfigureExchangeRateUpdateBounds(s, upper, lower, delay) ==
  /\ AuthorityOnly(s)
  /\ ValidBounds(upper, lower)
  /\ SetTeller([teller EXCEPT !.upper_bound = upper, !.lower_bound = lower,
                              !.minimum_update_delay = delay])

SetFees(s, platform, performance) ==
  /\ AuthorityOnly(s)
  /\ ValidFees(platform, performance)
  /\ SetTeller([teller EXCEPT !.platform_fee_bps = platform,
                              !.performance_fee_bps = performance])

SetStrategist(s, strategist) ==
  /\ AuthorityOnly(s)
  /\ strategist # NoKey
  /\ manager' = [manager EXCEPT !.strategist = strategist]
  /\ UNCHANGED <<program, config, teller, assetData, cpiDigests, ledgerVars, now>>

UpdateAssetDataAccounts(s, a) == AuthorityOnly(s) /\ a \in Assets

(* A priced asset needs a feed; the base asset and a pegged one do not. *)
UpdateAssetData(s, a, data) ==
  /\ UpdateAssetDataAccounts(s, a)
  /\ data.has_feed \/ data.is_pegged_to_base_asset \/ a = BaseAsset
  /\ data.share_premium_bps <= MaxSharePremium
  /\ assetData' = [assetData EXCEPT ![a] = [data EXCEPT !.initialized = TRUE]]
  /\ UNCHANGED <<program, config, teller, manager, cpiDigests, ledgerVars, now>>

-----------------------------------------------------------------------------
(* Exchange rate and fees. *)

SharesCharged ==
  IF supply > teller.total_shares_last_update
  THEN teller.total_shares_last_update ELSE supply

PlatformFee(newRate) ==
  LET rate == IF newRate > teller.exchange_rate THEN teller.exchange_rate ELSE newRate
  IN  Truncate(rate * SharesCharged * teller.platform_fee_bps
                 * (now - teller.last_update_timestamp),
               ShareScale * BpsScale * SecondsPerYear)

(* A variant that charges a fall of the rate as well. *)
PerformanceFeeUnguarded(newRate) ==
  Truncate((newRate - teller.exchange_rate_high_water_mark)
             * SharesCharged * teller.performance_fee_bps,
           ShareScale * BpsScale)

PerformanceFee(newRate) ==
  IF newRate > teller.exchange_rate_high_water_mark
  THEN Truncate((newRate - teller.exchange_rate_high_water_mark)
                  * SharesCharged * teller.performance_fee_bps,
                ShareScale * BpsScale)
  ELSE 0

(* A variant that never lifts the mark. *)
MarkNotLifted(newRate) == teller.exchange_rate_high_water_mark

HighWaterMark(newRate) ==
  IF newRate > teller.exchange_rate_high_water_mark
  THEN newRate ELSE teller.exchange_rate_high_water_mark

(* A variant without the minimum delay between updates. *)
ShouldPauseIgnoresDelay(newRate) ==
  \/ newRate * BpsScale > teller.exchange_rate * teller.upper_bound
  \/ newRate * BpsScale < teller.exchange_rate * teller.lower_bound

ShouldPause(newRate) ==
  \/ now < teller.last_update_timestamp + teller.minimum_update_delay
  \/ newRate * BpsScale > teller.exchange_rate * teller.upper_bound
  \/ newRate * BpsScale < teller.exchange_rate * teller.lower_bound

UpdateExchangeRateAccounts(s) ==
  /\ Deployed
  /\ ~config.paused
  /\ s \in Signers
  /\ s = teller.exchange_rate_provider

(* A suspect rate is stored all the same, but the vault is paused and no fee *)
(* is charged; an accepted one charges the fees and lifts the high water mark. *)
UpdateExchangeRate(s, newRate) ==
  /\ UpdateExchangeRateAccounts(s)
  /\ LET recorded == [teller EXCEPT !.exchange_rate = newRate,
                                    !.last_update_timestamp = now,
                                    !.total_shares_last_update = supply]
         fees == teller.fees_owed_in_base_asset
                   + PlatformFee(newRate) + PerformanceFee(newRate)
     IN  \/ /\ ShouldPause(newRate)
            /\ config' = [config EXCEPT !.paused = TRUE]
            /\ teller' = recorded
         \/ /\ ~ShouldPause(newRate)
            /\ fees <= MaxU64
            /\ teller' = [recorded EXCEPT
                 !.fees_owed_in_base_asset = fees,
                 !.exchange_rate_high_water_mark = HighWaterMark(newRate)]
            /\ UNCHANGED config
  /\ UNCHANGED <<program, manager, assetData, cpiDigests, ledgerVars, now>>

(* The environment's token transfers. *)
Move(balance, from, to, amount) ==
  [balance EXCEPT ![from] = @ - amount, ![to] = @ + amount]

ClaimFeesAccounts(s) == AuthorityOnly(s) /\ ~config.paused

ClaimFeesInBase(s, sub) ==
  /\ ClaimFeesAccounts(s)
  /\ tokens[BaseAsset][sub] >= teller.fees_owed_in_base_asset
  /\ teller' = [teller EXCEPT !.fees_owed_in_base_asset = 0]
  /\ tokens' = [tokens EXCEPT ![BaseAsset] =
                  Move(@, sub, teller.payout_address, teller.fees_owed_in_base_asset)]
  /\ UNCHANGED <<program, config, manager, assetData, cpiDigests, shares, supply, now>>

-----------------------------------------------------------------------------
(* Deposits. *)

(* read_oracle's reading p, turned round for an inverse feed. *)
OraclePrice(a, p) == IF assetData[a].inverse_price_feed THEN <<p[2], p[1]>> ELSE p

SharesOut(a, amount, p) ==
  LET rate    == teller.exchange_rate
      premium == assetData[a].share_premium_bps
  IN  IF a = BaseAsset
      THEN SharesForBase(amount, rate, premium)
      ELSE IF assetData[a].is_pegged_to_base_asset
      THEN SharesForPegged(amount, AssetScale[a], rate, premium)
      ELSE SharesForPriced(amount, AssetScale[a], OraclePrice(a, p), rate, premium)

(* A pegged deposit is first converted to share decimals, which must fit a u64. *)
DepositConvertible(a, amount) ==
  a # BaseAsset /\ assetData[a].is_pegged_to_base_asset =>
    Rescale(amount, AssetScale[a], ShareScale) <= MaxU64

BeforeDeposit(a) ==
  /\ Deployed
  /\ assetData[a].initialized
  /\ ~config.paused
  /\ assetData[a].allow_deposits

(* A zero rate is a division by zero; shares beyond a u64 do not convert. *)
CalculateSharesAndMint(s, a, amount, minShares, p) ==
  /\ teller.exchange_rate > 0
  /\ DepositConvertible(a, amount)
  /\ SharesOut(a, amount, p) >= minShares
  /\ supply + SharesOut(a, amount, p) <= MaxU64
  /\ shares' = [shares EXCEPT ![s] = @ + SharesOut(a, amount, p)]
  /\ supply' = supply + SharesOut(a, amount, p)

TakeDeposit(s, a, amount) ==
  /\ tokens[a][s] >= amount
  /\ tokens' = [tokens EXCEPT ![a] = Move(@, s, config.deposit_sub_account, amount)]

Deposit(s, a, amount, minShares, p) ==
  /\ s \in Signers
  /\ a \in Mints
  /\ BeforeDeposit(a)
  /\ TakeDeposit(s, a, amount)
  /\ CalculateSharesAndMint(s, a, amount, minShares, p)
  /\ UNCHANGED <<adminVars, now>>

(* NATIVE has no mint, so it is never the base asset. *)
DepositSol(s, amount, minShares, p) ==
  /\ s \in Signers
  /\ BeforeDeposit(Native)
  /\ TakeDeposit(s, Native, amount)
  /\ CalculateSharesAndMint(s, Native, amount, minShares, p)
  /\ UNCHANGED <<adminVars, now>>

-----------------------------------------------------------------------------
(* Withdrawals.  The queue calls withdraw as well, signing with its PDA, so  *)
(* the checks and the payment are kept apart from the action.                *)

AssetsOut(a, shareAmount, p) ==
  LET rate == teller.exchange_rate
  IN  IF a = BaseAsset
      THEN AssetsInBase(shareAmount, rate)
      ELSE IF assetData[a].is_pegged_to_base_asset
      THEN AssetsPegged(shareAmount, AssetScale[a], rate)
      ELSE AssetsPriced(shareAmount, AssetScale[a], OraclePrice(a, p), rate)

(* Every amount on the way fits a u64: the assets, and for a pegged asset what *)
(* they are in the base asset before they are converted to its decimals.      *)
PayoutConvertible(a, shareAmount, p) ==
  /\ AssetsOut(a, shareAmount, p) <= MaxU64
  /\ a # BaseAsset /\ assetData[a].is_pegged_to_base_asset =>
       AssetsInBase(shareAmount, teller.exchange_rate) <= MaxU64

(* A variant without the pause constraint. *)
BeforeWithdrawPaused(a) ==
  /\ assetData[a].initialized
  /\ assetData[a].allow_withdrawals

BeforeWithdraw(a) ==
  /\ assetData[a].initialized
  /\ ~config.paused
  /\ assetData[a].allow_withdrawals

WithdrawAccounts(s) ==
  /\ Deployed
  /\ teller.withdraw_authority = NoKey \/ s = teller.withdraw_authority

(* A variant that does not look at the balance of shares. *)
WithdrawOnCredit(s, a, shareAmount, minAssets, p) ==
  /\ a \in Mints
  /\ WithdrawAccounts(s)
  /\ BeforeWithdraw(a)
  /\ AssetsOut(a, shareAmount, p) >= minAssets
  /\ PayoutConvertible(a, shareAmount, p)
  /\ tokens[a][config.withdraw_sub_account] >= AssetsOut(a, shareAmount, p)

WithdrawAllowed(s, a, shareAmount, minAssets, p) ==
  /\ a \in Mints
  /\ WithdrawAccounts(s)
  /\ BeforeWithdraw(a)
  /\ shares[s] >= shareAmount
  /\ AssetsOut(a, shareAmount, p) >= minAssets
  /\ PayoutConvertible(a, shareAmount, p)
  /\ tokens[a][config.withdraw_sub_account] >= AssetsOut(a, shareAmount, p)

(* The token program checks the subtraction from the supply as well. *)
BurnFrom(s, amount) ==
  /\ supply >= amount
  /\ shares' = [shares EXCEPT ![s] = @ - amount]
  /\ supply' = supply - amount

Withdraw(s, a, shareAmount, minAssets, p) ==
  /\ s \in Signers
  /\ WithdrawAllowed(s, a, shareAmount, minAssets, p)
  /\ BurnFrom(s, shareAmount)
  /\ tokens' = [tokens EXCEPT ![a] =
                  Move(@, config.withdraw_sub_account, s, AssetsOut(a, shareAmount, p))]
  /\ UNCHANGED <<adminVars, now>>

(* get_rate_in_quote, and its safe form, which refuses while paused. *)
RateInQuote(a, p) ==
  IF a = BaseAsset
  THEN teller.exchange_rate
  ELSE IF assetData[a].is_pegged_to_base_asset
  THEN RatePegged(teller.exchange_rate, AssetScale[a])
  ELSE RatePriced(teller.exchange_rate, AssetScale[a], OraclePrice(a, p))

RateInQuoteSafe(a, p) == ~config.paused /\ assetData[a].initialized /\ RateInQuote(a, p) <= MaxU64

-----------------------------------------------------------------------------
(* Bridge functions.  The mover signs: a key does, or the share mover's       *)
(* program for its PDA; whichever calls these says who.                       *)

MintSharesAccounts(mover) ==
  Deployed /\ mover = config.share_mover /\ ~config.paused

MintShares(mover, recipient, amount) ==
  /\ MintSharesAccounts(mover)
  /\ amount > 0
  /\ supply + amount <= MaxU64
  /\ shares' = [shares EXCEPT ![recipient] = @ + amount]
  /\ supply' = supply + amount
  /\ UNCHANGED <<adminVars, tokens, now>>

BurnSharesAccounts(mover, source, amount) ==
  /\ Deployed
  /\ source \in Signers
  /\ mover = config.share_mover
  /\ ~config.paused
  /\ shares[source] >= amount

BurnShares(mover, source, amount) ==
  /\ BurnSharesAccounts(mover, source, amount)
  /\ amount > 0
  /\ BurnFrom(source, amount)
  /\ UNCHANGED <<adminVars, tokens, now>>

-----------------------------------------------------------------------------
(* Strategist functions.  A digest account is named by the hash of the parts *)
(* its operators select; initialize does not check that it is.               *)

Digests   == {Ingest(ix, parts) : ix \in Instructions, parts \in OperatorSets}
CpiDigest == [digest: Digests, operators: OperatorSets]

InitializeCpiDigest(s, digest, operators) ==
  /\ AuthorityOnly(s)
  /\ \A d \in cpiDigests : d.digest # digest
  /\ cpiDigests' = cpiDigests \cup {[digest |-> digest, operators |-> operators]}
  /\ UNCHANGED <<program, config, teller, manager, assetData, ledgerVars, now>>

CloseCpiDigest(s, d) ==
  /\ AuthorityOnly(s)
  /\ d \in cpiDigests
  /\ cpiDigests' = cpiDigests \ {d}
  /\ UNCHANGED <<program, config, teller, manager, assetData, ledgerVars, now>>

ManageAccounts(s, d) ==
  /\ Deployed
  /\ ~config.paused
  /\ s \in Signers
  /\ s = manager.strategist
  /\ d \in cpiDigests

(* The sub-account's PDA signs the call, so the call spends from it alone. *)
Manage(s, d, ix) ==
  /\ ManageAccounts(s, d)
  /\ Ingest(ix, d.operators) = d.digest
  /\ tokens[ix.asset][ix.from] >= ix.amount
  /\ tokens' = [tokens EXCEPT ![ix.asset] = Move(@, ix.from, ix.to, ix.amount)]
  /\ UNCHANGED <<adminVars, shares, supply, now>>

-----------------------------------------------------------------------------
(* The environment: plain token transfers between holders, and time. *)

TransferShares(s, to, amount) ==
  /\ shares[s] >= amount
  /\ shares' = [shares EXCEPT ![s] = @ - amount, ![to] = @ + amount]
  /\ UNCHANGED <<adminVars, supply, tokens, now>>

TransferTokens(s, a, to, amount) ==
  /\ tokens[a][s] >= amount
  /\ tokens' = [tokens EXCEPT ![a] = Move(@, s, to, amount)]
  /\ UNCHANGED <<adminVars, shares, supply, now>>

Tick ==
  /\ now < MaxTime
  /\ now' = now + 1
  /\ UNCHANGED <<adminVars, ledgerVars>>

-----------------------------------------------------------------------------

Setup ==
  \/ \E k \in AdminKeys : Initialize(k)
  \/ \E s \in Signers, args \in DeployArgs : Deploy(s, args)

Administer(s) ==
  \/ Pause(s)
  \/ Unpause(s)
  \/ \E k \in AdminKeys : TransferAuthority(s, k)
  \/ AcceptAuthority(s)
  \/ \E sub \in SubAccounts : SetDepositSubAccount(s, sub)
  \/ \E sub \in SubAccounts : SetWithdrawSubAccount(s, sub)
  \/ \E k \in AdminKeys : SetShareMover(s, k)
  \/ \E k \in AdminKeys : UpdateExchangeRateProvider(s, k)
  \/ \E k \in AdminKeys : SetWithdrawAuthority(s, k)
  \/ \E k \in AdminKeys : SetPayout(s, k)
  \/ \E k \in AdminKeys : SetStrategist(s, k)
  \/ \E b \in BoundSettings : ConfigureExchangeRateUpdateBounds(s, b[1], b[2], b[3])
  \/ \E f \in FeeSettings : SetFees(s, f[1], f[2])
  \/ \E a \in Assets, data \in AssetDatas : UpdateAssetData(s, a, data)
  \/ \E digest \in Digests, ops \in OperatorSets : InitializeCpiDigest(s, digest, ops)
  \/ \E d \in cpiDigests : CloseCpiDigest(s, d)

Operate(s) ==
  \/ \E r \in Rates : UpdateExchangeRate(s, r)
  \/ \E sub \in SubAccounts : ClaimFeesInBase(s, sub)
  \/ \E d \in cpiDigests, ix \in Instructions : Manage(s, d, ix)
  \/ \E k \in Keys, n \in Amounts : MintShares(s, k, n)
  \/ \E k \in Signers, n \in Amounts : BurnShares(s, k, n)

Use(s) ==
  \E n \in Amounts, least \in Amounts \cup {0} :
    \/ \E a \in Mints, p \in Prices : Deposit(s, a, n, least, p)
    \/ \E p \in Prices : DepositSol(s, n, least, p)
    \/ \E a \in Mints, p \in Prices : Withdraw(s, a, n, least, p)

Environment ==
  \/ \E s \in Signers, k \in Keys, n \in Amounts : TransferShares(s, k, n)
  \/ \E s \in Signers, a \in Assets, k \in Accounts, n \in Amounts :
       TransferTokens(s, a, k, n)
  \/ Tick

VaultStep ==
  \/ Setup
  \/ \E s \in Signers : Administer(s) \/ Operate(s) \/ Use(s)
  \/ Environment

VaultSpec == Init /\ [][VaultStep]_vaultVars

-----------------------------------------------------------------------------

TypeOK ==
  /\ program \in [authority: KeyOrDefault, vault_count: 0..1]
  /\ config \in VaultState
  /\ teller \in TellerState
  /\ manager \in [strategist: KeyOrDefault]
  /\ assetData \in [Assets -> AssetData]
  /\ cpiDigests \subseteq CpiDigest
  /\ shares \in [Keys -> Nat]
  /\ supply \in Nat
  /\ tokens \in [Assets -> [Accounts -> Nat]]
  /\ now \in 0..MaxTime

-----------------------------------------------------------------------------
(* Properties. *)

(* No role of a deployed vault is ever left to nobody: whatever sequence of   *)
(* deploy, nominations, acceptances and setters runs, the authority, the rate *)
(* provider, the fee payout and the strategist are real keys (deploy,         *)
(* accept_authority and the set_* handlers each refuse or never store         *)
(* Pubkey::default()).                                                        *)
RolesNeverVacant ==
  Deployed => NoKey \notin {config.authority, teller.exchange_rate_provider,
                            teller.payout_address, manager.strategist}

(* While the vault is paused nothing of value changes hands through it: no    *)
(* share is minted or burnt, no sub-account loses tokens, the exchange rate   *)
(* and the fees owed stand still.  Each of the eight handlers that could      *)
(* break this checks the pause on its own.                                    *)
PausedFreezes ==
  [][config.paused =>
       /\ supply' = supply
       /\ \A a \in Assets, sub \in SubAccounts : tokens'[a][sub] >= tokens[a][sub]
       /\ teller'.exchange_rate = teller.exchange_rate
       /\ teller'.fees_owed_in_base_asset = teller.fees_owed_in_base_asset]_vaultVars

(* The three ways tokens may leave a sub-account: shares are burnt for them,  *)
(* the whole fee debt is settled with them, or an instruction the authority   *)
(* whitelisted spends them.                                                   *)
BurntFor(a, paid) ==
  /\ supply' < supply
  /\ a = BaseAsset => paid * ShareScale <= (supply - supply') * teller.exchange_rate

SettlesFees(a, paid) ==
  /\ a = BaseAsset
  /\ paid = teller.fees_owed_in_base_asset
  /\ teller'.fees_owed_in_base_asset = 0

Whitelisted(a, sub, paid) ==
  \E d \in cpiDigests, ix \in Instructions :
    /\ ix.asset = a /\ ix.from = sub /\ ix.amount = paid
    /\ Ingest(ix, d.operators) = d.digest

(* Tokens leave a sub-account in no other way and in no other amount          *)
(* (withdraw, claim_fees_in_base, manage).                                    *)
OutflowsAccounted ==
  [][\A a \in Assets, sub \in SubAccounts :
       LET paid == tokens[a][sub] - tokens'[a][sub]
       IN  paid > 0 => \/ BurntFor(a, paid)
                       \/ SettlesFees(a, paid)
                       \/ Whitelisted(a, sub, paid)]_vaultVars

=============================================================================
