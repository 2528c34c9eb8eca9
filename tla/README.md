# Boring vault for Solana: models and proofs

This directory holds TLA+ models of the on-chain programs of this repository,
the TLC configurations that check them on small instances, and theorems about
them that TLAPS proves for every instance. `PROJECT.json` lists every run,
mutant, mapped definition, hazard and theorem.

## 1. The system

| component | state it keeps | operations | what makes it correct |
|---|---|---|---|
| **Vault administration** (`boring-vault-svm/src/lib.rs`, `state.rs`) | `ProgramConfig`, `VaultState` (authority, pending authority, pause, two sub-accounts, share mover), the roles in `TellerState` and `ManagerState` | `initialize`, `deploy`, `pause`, `unpause`, `transfer_authority`, `accept_authority`, the setters, `update_asset_data` | roles never fall to nobody; a pause stops everything that moves value |
| **Teller** (`lib.rs`, `utils/teller.rs`, `utils/math.rs`) | share mint supply, share and asset balances, one `AssetData` per asset | `deposit`, `deposit_sol`, `withdraw`, `get_rate*` | rounding never favours the user; tokens leave only for burnt shares |
| **Exchange rate and fees** (`update_exchange_rate`, `claim_fees_in_base`) | rate, high water mark, fees owed, supply and time of the last update | a provider's updates, the authority's claims | an open vault's rate drifts only as fast as its bounds; nothing is charged twice |
| **Manager** (`manage`, the CPI digests, `utils/operators.rs`) | one `CpiDigest` account per whitelisted call | `initialize_cpi_digest`, `close_cpi_digest`, `manage` | the strategist spends only what the authority whitelisted |
| **Withdraw queue** (`boring-onchain-queue`) | `QueueState`, `WithdrawAssetData` per mint, a nonce per user, the open `WithdrawRequest`s, the PDA's share balance | `request_withdraw`, `cancel_withdraw`, `fulfill_withdraw`, admin setters | every request ends once, with its shares or with the promised assets; shares are never stuck |
| **Share mover** (`layer-zero-share-mover`) | `ShareMover` (admin, pending admin, endpoint, pause, allow flags, decimals and kind of the peers' chain, two rate limits), a `PeerConfig` per chain | `send`, `lz_receive`, `set_peer`, `close_peer`, the setters, both steps of the authority transfer | each message is taken once, for no more than was burnt for it; what is burnt is lost only as far as decimals force it; no payload waits behind another |
| **Rate limiter, message codec** (`crates/common`) | in-flight amount, time of last use | `check_and_consume`, `calculate_available`; encode, decode, convert | how much may pass in a window; what conversion loses |
| **State assert** (`state-assert`) | per signer an array of sixteen expectations and its length | `setup_stack`, `push_state_assert`, `pop_state_assert` | a pop judges the change since the matching push, and an aborted transaction leaves no trace |
| endpoint mock, scripts, tests, migrations | none of the system's | | not modelled |

How they interact. The programs share no memory: they call each other within
one transaction, which is atomic. The queue's `fulfill_withdraw` calls the
vault's `withdraw`, signing with the queue's PDA; `request_withdraw` calls
`get_rate_in_quote_safe`. The share mover's `send` calls the vault's
`burn_shares` and then the endpoint's `send`; its `lz_receive` calls the
endpoint's `clear` and then the vault's `mint_shares`, both signing with the
mover's PDA. State-assert's instructions bracket those of other programs in a
transaction. All of them move balances of the token programs, which any
holder can also move without asking any of these programs.

What is hard here. Transactions of different actors interleave in any order;
promises are fixed at one time and honoured at another; two programs round the
same quantity in different orders; each of eight handlers checks the pause on
its own; roles change hands between the steps of longer protocols; time decides
who may act and which prices count; messages between chains are late, overtaken and tried in vain while
peers, endpoint and limits change. `PROJECT.json` lists these hazards at their lines.

## 2. Modules

| module | what it is | proofs |
|---|---|---|
| `TellerMath` | price arithmetic of the vault and of the queue | `BoringVault_proofs` |
| `BoringVault` | the vault program, one action per instruction | `BoringVault_proofs` |
| `VaultFees` | the vault with history variables for rates and fees | `VaultHistory_proofs` |
| `OracleReading` | `read_oracle` on top of the vault: feeds, slots, staleness, both adapters | `VaultHistory_proofs` |
| `VaultBacking` | what the vault holds against what its shares are worth | `VaultHistory_proofs` |
| `ShareEscrow` | abstract: what the queue promises about the shares it is handed | `ShareEscrow_proofs` |
| `BoringQueue` | the queue composed with the vault (it EXTENDS `BoringVault`) | `BoringQueue_proofs` |
| `QueuePromise` | the queue with a history variable for the terms of each open request's quote | `BoringQueue_proofs` |
| `RateLimit` | the linear-decay rate limit, operators only | |
| `RateLimiter` | the share mover's two limiters over time, with `set_rate_limit` | `RateLimiter_proofs` |
| `ShareBridge` | abstract: what the bridge promises about value that leaves and comes back | `ShareBridge_proofs` |
| `ShareMover` | the share mover composed with the vault (it EXTENDS `BoringVault`), the endpoints and the other chains | `ShareMover_proofs` |
| `AssertStack` | abstract: what state-assert promises about statements and changes | |
| `StateAssert` | the state-assert program within transactions | `StateAssert_proofs` |
| `MC*` | TLC instances | |

**Correspondence.** An action has its instruction's name in camel case
(`claim_fees_in_base` is `ClaimFeesInBase`), and `XAccounts` collects the
constraints of the instruction's accounts struct. A failed instruction changes
nothing, so an action is enabled exactly when its instruction succeeds: its
guard holds the account constraints, the `require!`s, the token program's own
checks (sufficient balance, supply) and the arithmetic that would fail
(`overflow-checks = true` in `Cargo.toml` turns overflow into an error). Records
have the source's field names, shortened only for the two rate bounds
(`upper_bound`, `lower_bound`) and the update delay.

**State.** `program`, `config`, `teller`, `manager` are the config account and
the three parts of the `BoringVault` account; `assetData` is the `AssetData`
account of each asset (`initialized` says whether it exists); `cpiDigests` is
the set of digest accounts. `shares` and `supply` are the share mint's
balances; `tokens` the balances of each asset, held by keys and by vault
sub-accounts; `now` the clock. In the queue `requests` is the set of open
request accounts and `lastNonce` the user states. In the share mover `mover` is
the `ShareMover` account and `peers` the `PeerConfig` account of each chain
(`open` says whether it exists); `inbound` is the set of open payload-hash
accounts of the endpoints, `outbound` the packets they have not delivered,
`abroad` the supply of each other chain. `bridged` is a history variable: shares
burnt for a chain less those minted back. Other history variables are those of
`VaultFees` (the rate last vouched for with the loosest bounds since, the
deployment, the peaks of supply and fees, what claims have paid), `quoted` in
`QueuePromise` (the terms each open request was quoted at) and the running totals
of `RateLimiter` (what has passed before each second, in how many calls). In
state-assert `stacks` holds the
array and the length as the account does, `before` what an abort goes back to,
and `open`, a history variable, what the running transaction pushed and has not
popped.

**External parts**, modelled from how the code uses them: the token programs
(transfer, mint, burn), the clock, the oracle feeds, the program the strategist
calls, the runtime's transactions, and for the bridge the LayerZero endpoints,
the executor and the share movers of the other chains. An endpoint dispatches a
packet once, verifies a message of another chain at most once under a nonce of
its own, and closes its payload-hash account when the mover clears it. The
other chains' movers mirror this one. Other senders may send anything to this
mover.

### Abstractions

* *Decimals.* `rust_decimal` values are exact rationals here; the only
  truncations are those of `from_decimal`. rust_decimal itself rounds at 28
  significant digits, far beyond a truncated u64, and is not modelled.
* *Oracle.* In `BoringVault` a price is any positive one of the instance at each
  reading, so two readings may differ; the theorems therefore hold whatever the
  oracle returns. `OracleReading` models what `read_oracle` can return: the
  feeds publish and age, and the configured adapter filters by feed, staleness,
  samples, sign and confidence. Account formats are left out, price accounts are
  written by the oracle programs only, a Switchboard value is the median of its
  recent samples, prices have a negative exponent, and time passes at the 400 ms a
  slot that the code reckons with. `TradesAtRecentPrices` is about that clock.
* *One vault.* The first vault of the program (`vault_id` 0); vaults share
  nothing but the config account's counter.
* *Manage.* The invoked instruction moves one amount of one asset out of the
  signing sub-account. The digest is the record of the parts its operators
  select, i.e. the hash is injective.
* *Sub-accounts* hold assets, not shares.
* *Other chains.* One supply for each chain, in its own units, with the peers'
  decimals the mover was deployed with (`peer_scale`). The administrator is
  trusted to register a chain's share mover and no other contract
  (`MoverAssumption`): who registers another contract lets it mint. Messages
  are records; `encode_message` and `decode_message` are each other's inverse on
  48 bytes and are left out. Options matter only as far as legacy ones cannot
  be combined with enforced ones, and fees not at all.
* *Watched data.* The data of an account is the sequence of u64 values at the
  offsets in use; reads at overlapping offsets are not told apart.
* *Integers.* Amounts are naturals with `MaxU64` as the largest u64 where the
  code's conversion or addition can fail, the intermediate amount of a pegged
  asset's conversion included (`DepositConvertible`, `PayoutConvertible`).
* *Clock.* `Clock::unix_timestamp` never runs backwards. The cast that would turn
  a negative elapsed time into a huge one is modelled (`AsU64`) but not reached.

## 3. Runs

| run | question | bounds, and why they are enough |
|---|---|---|
| `vault_ops` | can a role fall to nobody, does a pause freeze all value, and is every outflow of a sub-account accounted for? | first two keys and the default key as inputs of every setter, of `deploy` and of the two-step transfer; then one administrator with every role, one user, two sub-accounts, a mint and lamports, one tick. The share token's scale is two and the rates are 4, 5 and 6, so that paying one share out at the deployed rate of 5 truncates; a step from 5 to 4 or 6 is accepted and one between 4 and 6 is suspect, so gains, falls and suspect rates all occur. The supply is kept to 2 (`MaxSupply`) and `MaxU64` = 7 is above every payout and fee, so each handler, `withdraw` at each of the three rates and from either sub-account included, succeeds both before and after each other one |
| `vault_time` | how far can an open vault's rate drift, how much can be charged, and how old a price can be traded at? | two courses. Rates and fees: six time units with a minimum delay of two, that is three accepted updates in a row, falls, recoveries and suspect rates, with deposits, withdrawals and claims between them; bounds and fees change once, in its second second (`BpsUnit` counts the bounds in units of 1000 bps, so that their powers stay within TLC's integers). Prices: a token and lamports, a Pyth feed with a limit of 50 and a Switchboard feed with one of 60 that replace each other, three publications (a price, one too uncertain for Pyth, none) over 200 slots, past both limits |
| `oracle_staleness_unit` | is the limit a number of slots? **violated** | see findings |
| `vault_backing` | can trading at a fixed rate take out more than was put in? | assets with twice and half the share token's scale, an inverse feed, lamports, a premium, and a rate that divides nothing; `FixedPrice` is each asset's price and `Unit` = 24 the common multiple that makes one unit of every asset worth a whole number of units of value; nothing else may take value out, so fees, strategist and bridge are left out; the user may run out of means, so the run may stop |
| `queue_escrow` | does the queue implement the share escrow, how do requests end, and do they all end? | two users, up to three time units, a moving rate, both programs' pauses, donations to the PDA; liveness under the fairness below |
| `queue_promise` | is the promise payable unless the rate or the price has turned against it? | one request for a base, coarse pegged or inverse-priced asset, three rates and two prices between quote and fulfilment, most of which divide nothing, and the priced asset pegged on the way |
| `queue_fine_promise` | is it at the terms of the quote, for a pegged asset with finer decimals than the share token? **violated** | see findings; rates stand still, so the run stops when the requests are closed and the time is over |
| `rate_limit` | what can pass in a window at most, and for how long does it count? | a window of four and settings that raise, lower, shorten, disable and are refused, over six seconds; what passes is kept as running totals, so every interval is looked at; the inbound limiter's decay overflows after each use, and the modelled time may run out while the limiter is exhausted, so the run may stop |
| `rate_limit_window` | does at most the limit pass within a window? **violated** | see findings |
| `bridge` | do vault and mover carry out the bridge, is anything made or lost on the way, does anything get stuck? | two messages each way, so that one can overtake the other and a stranger's can come first; share mint with twice the other chain's scale and amounts of one and three, so that one amount is dust and the other loses a share; two endpoints, an inbound limit that admits no three, one tick (a window); after a fixed setup every administrative change at any time |
| `bridge_paused_peers` | does a pause keep the peers? **violated** | see findings |
| `state_assert` | is the array a stack of statements, and does a pop check its own transaction's change? | a stack of two, so that it is full, leaves residue and meets a slot used before; values that rise and fall, data that shrinks below the offset, three ways to judge; any number of transactions |

The configurations share their module's actions unchanged; an MC module only
chooses which of them run (its next-state relation is a subset of the
module's), and leaves out those that do not bear on its question. Every action
is exercised by some passing run. Bounds on behaviour: `MaxTime` (clock),
`MaxU64` (supply, payouts and fees), `MaxSupply` (share supply in `vault_ops`), `MaxSlot` (the oracle's clock; `MaxLimit` is the u64 its
arithmetic saturates at, kept apart so that `MaxU64` can be small), in the queue `ExpiresInTime`, which admits only
requests whose deadline lies within the modelled time, and in the share mover
`MaxMessages` (packets dispatched, and payloads verified).

**Properties.** `TypeOK`/`QueueTypeOK` (types; no balance below zero),
`PausedFreezes`, `OutflowsAccounted`, `RolesNeverVacant`, `RateDriftBounded`,
`FeesNeverDoubleCharged`, `TradesAtRecentPrices`, `SharesBacked`, `EscrowSpec` (refinement),
`EscrowBacked`, `ExpiredIsRecoverable`, `RequestsEndInOneWay`,
`PromisesPayable`, `EveryRequestCloses`, `TwiceTheLimitAtMost`,
`OnlyTheWindowCounts`, `InFlightBounded`, `MoverTypeOK`, `BridgeSpec` (refinement),
`NothingFromNowhere`, `OnlyDustLost`, `NoPayloadStuck`, `StackTypeOK`, `GuardSpec`
(refinement), `OwnChangesChecked`. Each is stated in words where
it is defined. For each there is a mutant of the code's model that breaks it.

**Refinement.** `BoringQueue` implements `ShareEscrow` under the mapping
`open` = the open requests with user, nonce and amount; `next` = the users'
nonces; `held` = the PDA's share balance. A request opens a claim, a cancel and
a fulfilment both close one, a transfer of shares into the PDA is a donation;
everything else stutters. `ShareMover` implements `ShareBridge` with all amounts
in a unit of which both a share and the other chain's smallest amount are
multiples: `send` leaves with what the message carries and loses the rest,
`lz_receive` comes home with exactly what the message carries, and payloads of
strangers exist for the endpoint only. `StateAssert` implements `AssertStack` by
the live part of its array.

**Fairness.** `EveryRequestCloses` assumes that the clock goes on
(Solana's does) and that a user who can cancel a request does so in the end:
`cancel_withdraw` is the user's own transaction and needs nobody else. Nothing
is assumed of authorities, solvers, rates or pauses. `NoPayloadStuck` assumes
that someone tries each verified payload again as long as it could be received:
`lz_receive` needs no signer, so the executor or anyone else can. It says
that no payload stays for ever while its road is clear; it assumes nothing of
the other chains, the administrators or the order of deliveries.

## 4. Findings

* `queue_fine_promise`: for a pegged asset with more decimals than the share
  token, a matured request may be impossible to fulfil although the rate has
  not moved and nothing is paused. `request_withdraw` computes the promise with
  the quote asset's finer decimals, `withdraw` truncates at the share token's
  decimals first, so with no discount the promise is larger than the payout and
  the call fails with `SlippageExceeded` until the deadline passes. The shares
  are not lost: the user can cancel (`ExpiredIsRecoverable` holds).
* `oracle_staleness_unit`: `max_staleness` is one number in two units. The Pyth
  branch of `read_oracle` takes it for slots, as `slots_to_seconds` documents
  ("Maximum staleness in Solana slots", `math.rs:43`); the Switchboard branch takes
  it for seconds and multiplies by 5/2. The same setting is two and a half times
  as lenient for one adapter as for the other; and below 60 the Switchboard branch
  takes it for a test's and accepts samples up to a million slots old. In the
  more lenient reading, seconds, the limit does hold for both adapters
  (`TradesAtRecentPrices`), except below 60.
* `rate_limit_window`: the field `limit` is documented as "Maximum allowed amount
  within the window", but an amount up to the limit can pass at once and more
  while the same window runs, as what was used decays: up to twice the limit in
  an interval as long as the window. The worked example in the same file
  (`rate_limit.rs:7-10`) says that of 600 used under a limit of 1000 half an
  hour leaves 300; decay is computed from the limit, so 100 are left.

* `bridge_paused_peers`: the test "fails to close peer when ShareMover is paused"
  (`tests/boring-vault-svm.ts:6018`) expects "Share Mover paused", but `close_peer`
  has no such constraint and closes the peer of a paused mover. The test
  passes because its expectation stands in a `catch` that a successful call never
  runs. (`set_peer` is in the same position, with a test of the same kind at line
  5797.) A pause stops `send` and `lz_receive` only.

One more disagreement has no run of its own. A unit test of the codec says that the
receiver converts too ("RECEIVE LOGIC: Convert the amount from the message back
to local decimals", `message.rs:311`) and tests the round trip of the conversion.
`lz_receive` does not convert: it mints the message's amount as it is
(`lz_receive.rs:272`), and only `send` converts. The model follows the code, so
`NothingFromNowhere`, `OnlyDustLost` and `BridgeSpec` hold for remote movers that,
like `send`, put the amount into the receiver's decimals before they dispatch. A
remote mover written to the test's comment would send other amounts.

Noted while modelling, with no claim in the sources to compare with:

* While `limit * elapsed` overflows a `u64`, the limiter refuses every amount and
  `set_rate_limit` fails too, for both directions, until the window is over.
* Enforced options set before any address open the peer account with an address
  of zeros; `send` then burns and dispatches to that address.
* A payload whose amount exceeds the inbound limit waits until the limit is
  raised or switched off, and one for the default key, or of an amount
  beyond `u64`, can never be received.
* An expectation left on a stack whose account has shrunk can never be popped
  unless the account grows again, and blocks what is below it.
* `set_peer` allocates `size_of::<PeerConfig>()` bytes, in which the two option
  lists together have room for a few dozen bytes, not for the 512 and 1024 of
  `constants.rs`; longer ones fail to be stored. Account sizes are not modelled.

## 5. Proofs

What TLAPS proves, for every value of the constants that satisfies the named
assumptions (`ShareScaleAssumption`, `KeysAssumption`, `AssetsAssumption`,
`BoundsAssumption`, `InputsAssumption`, `QueueAssumption`, `LimiterAssumption`,
`MoverAssumption`, `StateAssertAssumption`, `BpsUnitAssumption`,
`OracleAssumption`, `BackingAssumption`):

* `VaultTypeCorrect`, `VaultRolesNeverVacant` (`BoringVault_proofs`). The
  inductive invariant is `VaultInv /\ RolesInv`. `TypeOK` alone is not
  inductive: a platform fee is natural only because the last update is not in
  the future, minted shares only because no premium exceeds its maximum, and a
  claim's recipient is a holder only because the payout address is a real key.
* `VaultPausedFreezes` (`BoringVault_proofs`). Adds that only a deployed vault is
  paused, so that `deploy` cannot reset a paused one.
* `VaultOutflowsAccounted` (`BoringVault_proofs`). From the same invariant: one
  lemma per outgoing instruction (`WithdrawAccounted`, `ClaimAccounted`,
  `ManageAccounted`) over a common fact about a single move of tokens
  (`MovedOut`); every other step only adds to sub-accounts.
* `VaultRateDriftBounded`, `VaultFeesNeverDoubleCharged` (`VaultHistory_proofs`).
  The invariant adds to the vault's that every bound in force is a valid one and
  what the histories say of the rate and of the charges *at the last update*,
  where both are exact. The bound on the rate compounds: `MoreUpdates`, by
  induction on their number, says that looser bounds and more time allow no less,
  and an accepted update adds one factor (`OneMoreUpdate`) for the delay it
  waited. The charges telescope: an update's performance fee is at most that on
  the rise of the mark (`PerformanceFeeAbove`), its platform fee at most that for
  the time since the last update (`PlatformFeeAbove`), and both rises add up.
  `StepKinds` sorts the vault's steps into deployments, updates, claims and steps
  that leave all of this alone.
* `VaultTradesAtRecentPrices` (`VaultHistory_proofs`). An action property. The
  invariant says that no publication is from the future and that clock and slots
  agree; `ReadRecent` that whatever `read_oracle` returns was published by the feed
  in force, within the limit counted in seconds, and is positive. The second half
  of the argument is that a step which changes the supply and an asset's
  balances is a deposit or a withdrawal that used this reading.
* `VaultSharesBacked` (`VaultHistory_proofs`). Inductive with the vault's
  invariant. Value is counted, not summed: each unit of value of each asset in
  each sub-account is an element of one finite set, and a transfer adds or removes
  a block of it (`UnitsRise`). `MintWorth` and `PayWorth` say of each of the three
  conversion chains, whatever the decimals, prices and premiums, that the shares
  minted are worth no more than the deposit and the assets paid no more than the
  shares. `BackingSpec` is a restriction of the vault's specification, since the
  statement is about fixed prices: it leaves out what is meant to take value out
  (manage, claims) or brings shares paid for elsewhere (`mint_shares`), and lets
  rate, peg and inversion change only while there are no shares.
* `QueueTypeCorrect`, `QueueImplementsEscrow`, `QueueAlwaysBacked`,
  `QueueAlwaysRecoverable`, `QueueRequestsEndInOneWay` (`BoringQueue_proofs`), about
  the queue composed with all of the vault's instructions. The inductive
  invariant `QueueInv` is the vault's plus: discounts are bounded (or a promise
  would not be a natural number), nonces are fresh (or closing one request would
  close two claims), and requests exist only once the queue is deployed.
  `VaultSparesPda` shows that no vault step takes shares from the queue's PDA:
  the vault takes shares only from keys that sign, and the PDA is none of them.
  With it every step maps to a step of the escrow or a stutter; the escrow's own
  invariant, instantiated under the refinement mapping, then gives the backing
  and the recoverability of every request.
* `QueuePromisesPayable` (`BoringQueue_proofs`). The invariant `PromiseInv` says
  that each open request's amount is the promise for its quoted terms under some
  discount, and that requests exist only for a deployed vault. The payout rises
  with the rate and falls with the price (`AssetsInBaseRise`, `AssetsPeggedRise`,
  `AssetsPricedRise`), so the lemmas on covered promises below, stated at the quote's
  terms, carry over to the terms of the moment. A pegged asset with finer
  decimals is excepted (`FinePegged`): it is the finding above.
* `LimiterTypeCorrect`, `LimiterInFlightBounded` (`RateLimiter_proofs`, from
  `LimiterAssumption`). Inductive once `SettingsInForce` is added: a limiter that
  is on has a window, so no decay divides by zero, and no limit in force exceeds
  the largest so far. `ConsumeBounded` and `CarriedOverBounded` state the two
  steps for a single limiter.
* `LimiterPassesTwiceTheLimit`, `LimiterCountsTheWindow` (`RateLimiter_proofs`).
  What passed is kept as running totals, so that an interval's amount is a
  difference and no sum over seconds is needed. The invariant `HistoryInv` bounds,
  for every time in the window before, what has passed since from above (by what
  is in flight and what decayed meanwhile, the largest limit over the shortest
  window at most)
  and from below (what is in flight is covered by what passed since, by what is
  left of what was in flight then, and by one truncated unit for each call).
  `RecentStep` and `OldStep` are one call's step of the two.
* `EscrowAlwaysBacked` (`ShareEscrow_proofs`). The escrow holds at least what it
  owes. Inductive with fresh names: without them a new claim could coincide
  with an open one and be counted once while two amounts arrive.
* `BridgeAlwaysCovered` (`ShareBridge_proofs`). The abstract bridge makes nothing
  from nowhere. Inductive with fresh numbers: a new message is then none of
  those under way, and its units (pairs of message and number, counted as a
  set) are not counted twice.
* `MoverTypeCorrect`, `MoverImplementsBridge`, `MoverMakesNothing`,
  `MoverLosesOnlyDust` (`ShareMover_proofs`), about the mover composed with all of
  the vault's instructions. The inductive invariant `MoverInv` is the vault's
  plus: a peer is the chain's share mover or nobody (or a stranger's payload
  would be minted), nonces tell packets and payloads apart (or taking one would
  take two), and nothing is under way before the mover is deployed, when its
  decimals are set (or the unit of the mapping would change under what is under
  way). `StepCases` sorts every step into one of the bridge's, said of the mapped
  variables, with what the conversion may lose; the refinement follows from it,
  and with the bridge's invariant, instantiated under the mapping, the two
  statements about nothing made and nothing lost.
* `StackTypeCorrect`, `OwnChangesAlwaysChecked`, `StackImplemented`
  (`StateAssert_proofs`). Inductive with `OpenIsTop`: what the running transaction
  pushed and has not popped is the top of the stack, so its pops come to its own
  statements before those of earlier transactions.
* `BaseRoundTrip`, `PeggedRoundTrip` (`BoringVault_proofs`). A deposit followed by
  the withdrawal of the minted shares returns no more than was deposited.
* `BasePromiseCovered`, `PricedPromiseCovered`, `CoarsePeggedPromiseCovered`
  (`BoringVault_proofs`). The promise is at most the payout in these three
  cases; the fourth, a finer pegged asset, is the finding above.

*Induction.* The library's induction theorems take an operator as a parameter,
which the provers here cannot instantiate. `SetInduction` (`VaultHistory_proofs`)
states induction over the naturals for a set instead: a set that holds 0 and
with each number the next holds them all. It is proved by counting (were a number
missing, adding one would map the members below it one to one into those that
are not 0, of which there is one fewer) and carries the inductions on the powers
of a bound.

Model-checked only: the two liveness properties `EveryRequestCloses` and
`NoPayloadStuck` (liveness under fairness and `ENABLED` are out of this prover's
reach). Every invariant and every action property that a passing run checks is
also a theorem, and so are the three refinements. The liveness runs rest on the
safety half that is proved: `QueueAlwaysRecoverable` says that the guard of
`cancel_withdraw`, for which fairness is assumed, holds of every expired request.

## 6. Not modelled, and the plan

Open work:

1. The manager's `manage` moves one amount of one asset; calls that swap or stake,
   and the operators' byte selection, would refine it.
2. The backing across rate updates: how far fees and drift together may take
   `SharesBacked` from equality once the rate may move while shares are out.

Left out for good: byte layouts (of messages and of digests), account sizes and
rents, logging, the oracle accounts' formats, `preview_fee` and `lz_receive_types`,
which only read, the endpoint mock, scripts and tests.
