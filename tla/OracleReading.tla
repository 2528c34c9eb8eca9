----------------------------- MODULE OracleReading -----------------------------
(***************************************************************************)
(* read_oracle on top of the vault: which of the prices the feeds have      *)
(* published a deposit or a withdrawal takes.  The oracle programs and their *)
(* SDKs are the environment, and only they write price accounts; so is time, *)
(* which passes in slots of the 400 ms the code reckons with.               *)
(***************************************************************************)
EXTENDS BoringVault

CONSTANTS
  Feeds,           \* Switchboard feed accounts and Pyth feed ids
  NoFeed,          \* the default address, the feed id of zeros
  OracleSettings,  \* oracle sources with their staleness limits
  Quotes,          \* what a feed may publish
  SlotSteps,       \* numbers of slots that pass between two instructions
  MaxSlot,         \* bound on the slots
  MaxLimit         \* largest u64 for the arithmetic of the limits; an instance
                   \* sets MaxU64 lower, to meet the overflow of amounts

VARIABLES
  slot,            \* Clock::slot
  oracle,          \* oracle_source and max_staleness of each asset
  published        \* everything the feeds have published

oracleVars == <<slot, oracle, published>>

-----------------------------------------------------------------------------

OracleSource ==
  [adapter: {"SwitchboardV2"}, feed: Feeds \cup {NoFeed}, max_staleness: Nat,
   min_samples: Nat]
  \cup
  [adapter: {"PythV2"}, feed: Feeds \cup {NoFeed}, max_staleness: Nat,
   max_conf_width_bps: Nat]

(* A price of whichever sign, a numerator over a power of ten, and the width  *)
(* of its confidence interval in units of the numerator.                      *)
Quote == [price: Int \X (Nat \ {0}), conf: Nat]

Publication == [feed: Feeds, quote: Quote, slot: Nat, time: Nat]

TimeAt(s) == (2 * s) \div 5

ASSUME OracleAssumption ==
  /\ NoFeed \notin Feeds
  /\ OracleSettings \subseteq OracleSource
  /\ Quotes \subseteq Quote
  /\ SlotSteps \subseteq Nat \ {0}
  /\ MaxSlot \in Nat
  /\ MaxLimit \in Nat
  /\ TimeAt(MaxSlot) <= MaxTime

(* A new asset's account is all zeros. *)
OracleInit ==
  /\ slot = 0
  /\ oracle = [a \in Assets |-> [adapter |-> "SwitchboardV2", feed |-> NoFeed,
                                 max_staleness |-> 0, min_samples |-> 0]]
  /\ published = {}

-----------------------------------------------------------------------------
(* read_oracle, as the set of prices it can return.  A Pyth account with any  *)
(* of a feed's prices may be handed in; a Switchboard account is one feed's,  *)
(* and its value is the median of its recent samples.                         *)

NeedsPrice(a) == a # BaseAsset /\ ~assetData[a].is_pegged_to_base_asset

PublishedBy(feed) == {u \in published : u.feed = feed}

SaturatingMul(m, n) == IF m * n > MaxLimit THEN MaxLimit ELSE m * n

(* A variant with the ratio turned round. *)
SlotsToSecondsInverted(slots) == SaturatingMul(slots, 10) \div 4

SlotsToSeconds(slots) == SaturatingMul(slots, 4) \div 10

(* Below a minute the limit is taken for a test's, and means any slot at all. *)
StalenessSlots(max_staleness) ==
  LET slots == IF max_staleness < 60 THEN 1000000
               ELSE SaturatingMul(max_staleness, 5) \div 2
  IN  IF slots > slot THEN slot ELSE slots

(* Neither more than half of the samples below it nor more than half above. *)
Medians(samples) ==
  LET below(u, v) == u.quote.price[1] * v.quote.price[2] < v.quote.price[1] * u.quote.price[2]
  IN  {u \in samples :
         /\ 2 * Cardinality({v \in samples : below(v, u)}) <= Cardinality(samples)
         /\ 2 * Cardinality({v \in samples : below(u, v)}) <= Cardinality(samples)}

GetValue(feed, max_staleness_slots, min_samples) ==
  LET recent == {u \in PublishedBy(feed) : u.slot >= slot - max_staleness_slots}
  IN  IF Cardinality(recent) >= min_samples
      THEN {u.quote.price : u \in {v \in Medians(recent) : v.quote.price[1] > 0}}
      ELSE {}

NoOlderThan(feed, max_age) == {u \in PublishedBy(feed) : u.time + max_age >= now}

ConfidentEnough(quote, max_conf_width_bps) ==
  /\ quote.price[1] > 0
  /\ quote.price[1] * max_conf_width_bps <= MaxLimit
  /\ quote.conf <= (quote.price[1] * max_conf_width_bps) \div BpsScale

ReadOracle(source) ==
  IF source.adapter = "SwitchboardV2"
  THEN GetValue(source.feed, StalenessSlots(source.max_staleness), source.min_samples)
  ELSE {u.quote.price : u \in
         {v \in NoOlderThan(source.feed, SlotsToSeconds(source.max_staleness)) :
            ConfidentEnough(v.quote, source.max_conf_width_bps)}}

(* The base asset and pegged ones are traded without a price. *)
PricesFor(a) == IF NeedsPrice(a) THEN ReadOracle(oracle[a]) ELSE {<<1, 1>>}

-----------------------------------------------------------------------------
(* update_asset_data sets the oracle with the rest of the asset's data. *)
ConfigureAsset(s, a, data, source) ==
  /\ UpdateAssetData(s, a, data)
  /\ data.has_feed = (source.feed # NoFeed)
  /\ oracle' = [oracle EXCEPT ![a] = source]
  /\ UNCHANGED <<slot, published>>

Trade(s, n, least) ==
  /\ \/ \E a \in Mints : \E p \in PricesFor(a) :
          Deposit(s, a, n, least, p) \/ Withdraw(s, a, n, least, p)
     \/ \E p \in PricesFor(Native) : DepositSol(s, n, least, p)
  /\ UNCHANGED oracleVars

Publish(feed, quote) ==
  /\ published' = published \cup
       {[feed |-> feed, quote |-> quote, slot |-> slot, time |-> now]}
  /\ UNCHANGED <<vaultVars, slot, oracle>>

PassSlots(n) ==
  /\ slot + n <= MaxSlot
  /\ slot' = slot + n
  /\ now' = TimeAt(slot')
  /\ UNCHANGED <<adminVars, ledgerVars, oracle, published>>

(* The instructions that read no price and leave the oracles as they are.     *)
ElseStep ==
  /\ \/ Setup
     \/ \E s \in Signers : Administer(s) \/ Operate(s)
     \/ Environment
  /\ UNCHANGED <<assetData, now, oracleVars>>

OracleStep ==
  \/ \E s \in Signers, n \in Amounts, least \in Amounts \cup {0} : Trade(s, n, least)
  \/ \E s \in Signers, a \in Assets, data \in AssetDatas, source \in OracleSettings :
       ConfigureAsset(s, a, data, source)
  \/ \E feed \in Feeds, quote \in Quotes : Publish(feed, quote)
  \/ \E n \in SlotSteps : PassSlots(n)
  \/ ElseStep

OracleSpec == Init /\ OracleInit /\ [][OracleStep]_<<vaultVars, oracleVars>>

-----------------------------------------------------------------------------
(* Properties. *)

(* The tokens and shares of the step changed hands at the price of u. *)
TradedAt(a, u) ==
  LET vaultHas(balance) == balance[a][config.deposit_sub_account]
      vaultPays(balance) == balance[a][config.withdraw_sub_account]
  IN  \/ /\ supply' > supply
         /\ supply' - supply
              = SharesOut(a, vaultHas(tokens') - vaultHas(tokens), u.quote.price)
      \/ /\ supply' < supply
         /\ vaultPays(tokens) - vaultPays(tokens')
              = AssetsOut(a, supply - supply', u.quote.price)

Trades(a) == NeedsPrice(a) /\ supply' # supply /\ tokens'[a] # tokens[a]

(* Below a minute the code takes a Switchboard limit for a test's. *)
TestLimit(source) == source.adapter = "SwitchboardV2" /\ source.max_staleness < 60

(* Whatever the feeds publish and whenever an asset's oracle is replaced, a   *)
(* trade in a priced asset is settled at a price that the feed configured at  *)
(* that moment published no more than max_staleness seconds before            *)
(* (read_oracle, both adapters with their conversions of the limit).          *)
TradesAtRecentPrices ==
  [][\A a \in Assets : Trades(a) =>
       \E u \in PublishedBy(oracle[a].feed) :
         /\ u.quote.price[1] > 0 /\ TradedAt(a, u)
         /\ TestLimit(oracle[a]) \/ now - u.time <= oracle[a].max_staleness
    ]_<<vaultVars, oracleVars>>

(* What the limit is documented to be: a number of slots.  No trade is        *)
(* settled at a price more than max_staleness slots old.                      *)
StalenessInSlots ==
  [][\A a \in Assets : Trades(a) =>
       \E u \in PublishedBy(oracle[a].feed) :
         /\ u.quote.price[1] > 0 /\ TradedAt(a, u)
         /\ slot - u.slot <= oracle[a].max_staleness
    ]_<<vaultVars, oracleVars>>

=============================================================================
