------------------------------ MODULE VaultFees ------------------------------
(***************************************************************************)
(* The exchange rate and the fees over a long run of updates.  History      *)
(* variables remember the last rate somebody vouched for, the deployer's    *)
(* first rate or the rate the authority adopts when it unpauses a vault     *)
(* that a suspect update had paused, with the loosest bounds since; the     *)
(* peaks of what fees depend on; and all that claims have paid out.         *)
(***************************************************************************)
EXTENDS BoringVault

CONSTANT
  BpsUnit    \* the bounds of an instance are multiples of it: 1 always is a
             \* choice, a larger one keeps the powers below within TLC's integers

ASSUME BpsUnitAssumption ==
  /\ BpsUnit \in Nat \ {0}
  /\ BpsScale % BpsUnit = 0
  /\ \A args \in DeployArgs : /\ args.upper_bound % BpsUnit = 0
                              /\ args.lower_bound % BpsUnit = 0
  /\ \A b \in BoundSettings : b[1] % BpsUnit = 0 /\ b[2] % BpsUnit = 0

VARIABLES
  vouched,   \* rate and last_update_timestamp when somebody last vouched for the
             \* rate, the widest bounds and the shortest delay since
  launch,    \* rate and time of the deployment
  peak,      \* largest supply and highest fees so far
  feesPaid   \* base asset that claims have taken out of the sub-accounts

historyVars == <<vouched, launch, peak, feesPaid>>
feesVars    == <<vaultVars, historyVars>>

Higher(m, n) == IF m > n THEN m ELSE n
Lower(m, n)  == IF m < n THEN m ELSE n

FeesInit ==
  /\ Init
  /\ vouched = [rate |-> 0, time |-> 0, upper_bound |-> 0, lower_bound |-> 0,
                minimum_update_delay |-> 0]
  /\ launch = [rate |-> 0, time |-> 0]
  /\ peak = [supply |-> 0, platform_fee_bps |-> 0, performance_fee_bps |-> 0]
  /\ feesPaid = 0

DeployingStep == program'.vault_count > program.vault_count

VouchingStep == DeployingStep \/ (config.paused /\ ~config'.paused)

Vouched ==
  [rate |-> teller'.exchange_rate, time |-> teller'.last_update_timestamp,
   upper_bound |-> teller'.upper_bound, lower_bound |-> teller'.lower_bound,
   minimum_update_delay |-> teller'.minimum_update_delay]

Loosened ==
  [vouched EXCEPT !.upper_bound = Higher(@, teller'.upper_bound),
                  !.lower_bound = Lower(@, teller'.lower_bound),
                  !.minimum_update_delay = Lower(@, teller'.minimum_update_delay)]

Lifted ==
  [supply |-> Higher(peak.supply, supply'),
   platform_fee_bps |-> Higher(peak.platform_fee_bps, teller'.platform_fee_bps),
   performance_fee_bps |-> Higher(peak.performance_fee_bps, teller'.performance_fee_bps)]

Claiming(sub) == \E s \in Signers : ClaimFeesInBase(s, sub)

Remember ==
  /\ vouched' = IF VouchingStep THEN Vouched ELSE Loosened
  /\ launch' = IF DeployingStep
               THEN [rate |-> teller'.exchange_rate, time |-> now] ELSE launch
  /\ peak' = Lifted
  /\ \/ \E sub \in SubAccounts :
          /\ Claiming(sub)
          /\ feesPaid' = feesPaid + (tokens[BaseAsset][sub] - tokens'[BaseAsset][sub])
     \/ /\ \A sub \in SubAccounts : ~Claiming(sub)
        /\ UNCHANGED feesPaid

FeesSpec == FeesInit /\ [][VaultStep /\ Remember]_feesVars

-----------------------------------------------------------------------------

(* Powers of a bound in bps, exactly, in units of BpsUnit. *)
Powers(bps) ==
  LET power[k \in Nat] == IF k = 0 THEN 1 ELSE (bps \div BpsUnit) * power[k - 1]
  IN  power

Updates == (teller.last_update_timestamp - vouched.time) \div vouched.minimum_update_delay

(* An open vault trades at a rate that accepted updates can have reached from *)
(* the last one somebody vouched for: at most one update per                  *)
(* minimum_update_delay, each within the allowed change.  A rate that jumped  *)
(* or came early is stored (update_exchange_rate stores it and pauses), but   *)
(* no one can trade at it before the authority unpauses.                      *)
RateDriftBounded ==
  Deployed /\ ~config.paused /\ vouched.minimum_update_delay > 0 =>
    /\ teller.exchange_rate * Powers(BpsScale)[Updates]
         <= vouched.rate * Powers(vouched.upper_bound)[Updates]
    /\ teller.exchange_rate * Powers(BpsScale)[Updates]
         >= vouched.rate * Powers(vouched.lower_bound)[Updates]

-----------------------------------------------------------------------------

(* Everything the vault has charged: the debt and what claims have paid out.  *)
FeesCharged == teller.fees_owed_in_base_asset + feesPaid

(* No gain is charged twice and no second is charged twice: all performance   *)
(* fees together are at most the fee on the climb of the high water mark, all *)
(* platform fees together at most the fee for the time since the deployment,  *)
(* whatever the order of updates, pauses, suspect rates, new settings,        *)
(* deposits, withdrawals and claims.                                          *)
FeesNeverDoubleCharged ==
  Deployed =>
    FeesCharged * BpsScale * ShareScale * SecondsPerYear
      <= (teller.exchange_rate_high_water_mark - launch.rate) * peak.supply
             * peak.performance_fee_bps * SecondsPerYear
         + teller.exchange_rate_high_water_mark * peak.supply
             * peak.platform_fee_bps * (now - launch.time)

=============================================================================
