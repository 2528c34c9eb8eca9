-------------------------- MODULE BoringQueue_proofs --------------------------
(***************************************************************************)
(* Theorems about the queue and the vault together, for every set of keys,  *)
(* assets, inputs and every bound.  The vault's invariant is kept by the    *)
(* queue's own steps too; the queue adds that request names are fresh and   *)
(* that there are requests only once it is deployed.                        *)
(***************************************************************************)
EXTENDS QueuePromise, BoringVault_proofs

QueueTypes ==
  /\ queueProgram \in [initialized: BOOLEAN, authority: KeyOrDefault]
  /\ queue \in QueueState
  /\ withdrawAssetData \in [Mints -> WithdrawAssetData]
  /\ lastNonce \in [Signers -> Nat \cup {NoState}]
  /\ requests \subseteq WithdrawRequest

NoncesFresh ==
  /\ \A r \in requests : r.nonce < lastNonce[r.user]
  /\ \A r, q \in requests : r.user = q.user /\ r.nonce = q.nonce => r = q

RequestsWhenDeployed == requests # {} => queue.deployed

DiscountsBounded == \A a \in Mints : withdrawAssetData[a].maximum_discount <= MaxDiscount

QueueInv ==
  /\ VaultInv /\ RolesInv
  /\ QueueTypes /\ DiscountsBounded /\ NoncesFresh /\ RequestsWhenDeployed

LEMMA PdaIsKey == /\ QueuePda \in Keys /\ QueuePda \in Accounts /\ QueuePda \notin SubAccounts
                  /\ \A s \in Signers : s \in Keys /\ s \in Accounts /\ s # QueuePda
                                          /\ s \notin SubAccounts
BY QueueAssumption, KeysAssumption DEF Keys, Accounts

(* A step of the queue moves shares and tokens and nothing else of the vault. *)
LEMMA LedgerStepInv ==
  ASSUME VaultInv, RolesInv, UNCHANGED <<adminVars, now>>,
         shares' \in [Keys -> Nat], supply' \in Nat,
         tokens' \in [Assets -> [Accounts -> Nat]]
  PROVE  VaultInv' /\ RolesInv'
<1>1. VaultInv'
  BY LedgerInv
<1>2. RolesInv'
  BY RolesKept DEF adminVars
<1> QED
  BY <1>1, <1>2

LEMMA VaultKeptInv ==
  ASSUME VaultInv, RolesInv, UNCHANGED vaultVars
  PROVE  VaultInv' /\ RolesInv'
BY VaultStepInv

(* A request's promise is a natural number. *)
LEMMA RateInQuoteType ==
  ASSUME VaultInv, NEW a \in Mints, NEW p \in Prices
  PROVE  RateInQuote(a, p) \in Nat
<1>1. /\ teller.exchange_rate \in Nat /\ AssetScale[a] \in Nat
      /\ ShareScale \in Nat \ {0}
  BY AssetsAssumption, ShareScaleAssumption DEF VaultInv, TypeOK, TellerState, Assets
<1>2. OraclePrice(a, p) \in (Nat \ {0}) \X (Nat \ {0})
  BY OraclePriceType, PricesPositive
<1>3. RatePegged(teller.exchange_rate, AssetScale[a]) \in Nat
  BY <1>1, NatTimes, TruncateType DEF RatePegged, Rescale
<1>4. RatePriced(teller.exchange_rate, AssetScale[a], OraclePrice(a, p)) \in Nat
  <2> DEFINE q == OraclePrice(a, p)
  <2>1. q[1] \in Nat \ {0} /\ q[2] \in Nat \ {0}
    BY <1>2
  <2> HIDE DEF q
  <2>2. /\ teller.exchange_rate * q[2] * AssetScale[a] \in Nat
        /\ ShareScale * q[1] \in Nat \ {0}
    BY <1>1, <2>1, NatTimes, PosTimes
  <2> QED
    BY <2>2, TruncateType DEF RatePriced, q
<1> QED
  BY <1>1, <1>3, <1>4 DEF RateInQuote

LEMMA PromiseType ==
  ASSUME NEW n \in Nat, NEW rate \in Nat, NEW d \in Nat, d <= MaxDiscount
  PROVE  PromisedAssets(n, rate, d) \in Nat
<1>1. BpsScale - d \in Nat /\ BpsScale \in Nat \ {0} /\ ShareScale \in Nat \ {0}
  BY ShareScaleAssumption DEF BpsScale, MaxDiscount
<1>2. n * rate * (BpsScale - d) \in Nat /\ ShareScale * BpsScale \in Nat \ {0}
  BY <1>1, NatTimes, PosTimes
<1> QED
  BY <1>2, TruncateType DEF PromisedAssets

-----------------------------------------------------------------------------
(* The invariant is kept: administration. *)

LEMMA InitQueueInv == QueueInit => QueueInv
<1> SUFFICES ASSUME QueueInit PROVE QueueInv
  OBVIOUS
<1>1. VaultInv /\ RolesInv
  BY InitVaultInv, InitRoles DEF QueueInit
<1>2. QueueTypes
  BY DEF QueueInit, QueueTypes, KeyOrDefault, QueueState, WithdrawAssetData
<1>3. DiscountsBounded /\ NoncesFresh /\ RequestsWhenDeployed
  BY DEF QueueInit, DiscountsBounded, NoncesFresh, RequestsWhenDeployed, MaxDiscount
<1> QED
  BY <1>1, <1>2, <1>3 DEF QueueInv

LEMMA InitializeQueueInv ==
  ASSUME QueueInv, NEW k \in AdminKeys, InitializeQueue(k)
  PROVE  QueueInv'
<1>1. VaultInv' /\ RolesInv'
  BY VaultKeptInv DEF QueueInv, InitializeQueue
<1>2. k \in KeyOrDefault
  BY InputsAssumption
<1>3. QueueTypes' /\ DiscountsBounded' /\ NoncesFresh' /\ RequestsWhenDeployed'
  BY <1>2 DEF QueueInv, InitializeQueue, QueueTypes, DiscountsBounded, NoncesFresh,
              RequestsWhenDeployed
<1> QED
  BY <1>1, <1>3 DEF QueueInv

LEMMA SetQueueInv ==
  ASSUME QueueInv, NEW q \in QueueState, q.deployed, SetQueue(q)
  PROVE  QueueInv'
<1>1. VaultInv' /\ RolesInv'
  BY VaultKeptInv DEF QueueInv, SetQueue
<1>2. QueueTypes' /\ DiscountsBounded' /\ NoncesFresh' /\ RequestsWhenDeployed'
  BY DEF QueueInv, SetQueue, QueueTypes, DiscountsBounded, NoncesFresh,
         RequestsWhenDeployed
<1> QED
  BY <1>1, <1>2 DEF QueueInv

LEMMA QueueAdminInv ==
  ASSUME QueueInv, NEW s \in Signers, QueueAdminStep(s)
  PROVE  QueueInv'
<1> USE InputsAssumption DEF QueueAuthorityOnly
<1>c. queue \in QueueState
  BY DEF QueueInv, QueueTypes
<1>1. ASSUME NEW k \in AdminKeys, NEW solver \in AdminKeys, DeployQueue(s, k, solver)
      PROVE  QueueInv'
  <2> DEFINE fresh == [deployed |-> TRUE, authority |-> k, solve_authority |-> solver,
                       paused |-> FALSE]
  <2>1. fresh \in QueueState /\ fresh.deployed
    BY DEF QueueState
  <2>2. SetQueue(fresh)
    BY <1>1 DEF DeployQueue, SetQueue
  <2> QED
    BY <2>1, <2>2, SetQueueInv
<1>2. ASSUME NEW k \in AdminKeys, SetSolveAuthority(s, k) PROVE QueueInv'
  <2>1. [queue EXCEPT !.solve_authority = k] \in QueueState
    BY <1>c DEF QueueState
  <2>2. [queue EXCEPT !.solve_authority = k].deployed
    BY <1>2, <1>c DEF SetSolveAuthority, QueueState
  <2> QED
    BY <1>2, <2>1, <2>2, SetQueueInv DEF SetSolveAuthority
<1>3. ASSUME NEW flag \in BOOLEAN, queue.deployed, SetQueue([queue EXCEPT !.paused = flag])
      PROVE  QueueInv'
  <2>1. [queue EXCEPT !.paused = flag] \in QueueState
    BY <1>c DEF QueueState
  <2>2. [queue EXCEPT !.paused = flag].deployed
    BY <1>3, <1>c DEF QueueState
  <2> QED
    BY <1>3, <2>1, <2>2, SetQueueInv
<1>4. CASE PauseQueue(s)
  BY <1>3, <1>4 DEF PauseQueue
<1>5. CASE UnpauseQueue(s)
  BY <1>3, <1>5 DEF UnpauseQueue
<1>6. ASSUME NEW a \in Mints, NEW data \in WithdrawAssetSettings,
             UpdateWithdrawAssetData(s, a, data)
      PROVE  QueueInv'
  <2>1. VaultInv' /\ RolesInv'
    BY <1>6, VaultKeptInv DEF QueueInv, UpdateWithdrawAssetData
  <2>2. data \in WithdrawAssetData /\ data.maximum_discount <= MaxDiscount
    BY <1>6, QueueAssumption DEF UpdateWithdrawAssetData
  <2>3. QueueTypes' /\ DiscountsBounded'
    BY <1>6, <2>2 DEF QueueInv, UpdateWithdrawAssetData, QueueTypes, DiscountsBounded
  <2>4. NoncesFresh' /\ RequestsWhenDeployed'
    BY <1>6 DEF QueueInv, UpdateWithdrawAssetData, NoncesFresh, RequestsWhenDeployed
  <2> QED
    BY <2>1, <2>3, <2>4 DEF QueueInv
<1> QED
  BY <1>1, <1>2, <1>4, <1>5, <1>6 DEF QueueAdminStep

LEMMA SetupUserInv ==
  ASSUME QueueInv, NEW s \in Signers, SetupUserWithdrawState(s)
  PROVE  QueueInv'
<1>1. VaultInv' /\ RolesInv'
  BY VaultKeptInv DEF QueueInv, SetupUserWithdrawState
<1>2. QueueTypes' /\ DiscountsBounded' /\ RequestsWhenDeployed'
  BY DEF QueueInv, SetupUserWithdrawState, QueueTypes, DiscountsBounded,
         RequestsWhenDeployed
<1>3. NoncesFresh'
  <2>1. \A r \in requests : r.nonce \in Nat /\ r.user \in Signers
    BY DEF QueueInv, QueueTypes, WithdrawRequest
  <2>2. \A r \in requests : r.user # s
    BY <2>1 DEF QueueInv, NoncesFresh, SetupUserWithdrawState, NoState
  <2> QED
    BY <2>1, <2>2 DEF QueueInv, QueueTypes, NoncesFresh, SetupUserWithdrawState
<1> QED
  BY <1>1, <1>2, <1>3 DEF QueueInv

-----------------------------------------------------------------------------
(* The invariant is kept: requests are made, cancelled and fulfilled. *)

RequestMade(s, a, n, d, t, p) ==
  [user |-> s, nonce |-> lastNonce[s], asset_out |-> a, share_amount |-> n,
   asset_amount |-> PromisedAssets(n, RateInQuote(a, p), d), creation_time |-> now,
   seconds_to_maturity |-> withdrawAssetData[a].seconds_to_maturity,
   seconds_to_deadline |-> t]

LEMMA RequestMadeType ==
  ASSUME QueueInv, NEW s \in Signers, NEW a \in Mints, NEW n \in Amounts,
         NEW d \in Discounts, NEW t \in Deadlines, NEW p \in Prices,
         RequestWithdraw(s, a, n, d, t, p)
  PROVE  /\ RequestMade(s, a, n, d, t, p) \in WithdrawRequest
         /\ requests' = requests \cup {RequestMade(s, a, n, d, t, p)}
         /\ lastNonce[s] \in Nat
<1>1. n \in Nat /\ d \in Nat /\ t \in Nat
  BY InputsAssumption, QueueAssumption
<1>2. d <= MaxDiscount
  <2>1. /\ withdrawAssetData[a].maximum_discount \in Nat
        /\ withdrawAssetData[a].maximum_discount <= MaxDiscount
    BY DEF QueueInv, QueueTypes, WithdrawAssetData, DiscountsBounded
  <2>2. d <= withdrawAssetData[a].maximum_discount
    BY DEF RequestWithdraw, RequestTermsOk
  <2> QED
    BY <1>1, <2>1, <2>2 DEF MaxDiscount
<1>3. PromisedAssets(n, RateInQuote(a, p), d) \in Nat
  BY <1>1, <1>2, RateInQuoteType, PromiseType DEF QueueInv
<1>4. lastNonce[s] \in Nat
  BY DEF QueueInv, QueueTypes, RequestWithdraw, RequestWithdrawAccounts
<1>5. now \in Nat /\ withdrawAssetData[a].seconds_to_maturity \in Nat
  BY BoundsAssumption DEF QueueInv, VaultInv, TypeOK, QueueTypes, WithdrawAssetData
<1>6. requests' = requests \cup {RequestMade(s, a, n, d, t, p)}
  BY DEF RequestWithdraw, RequestMade
<1> QED
  BY <1>1, <1>3, <1>4, <1>5, <1>6 DEF RequestMade, WithdrawRequest

(* Shares moved from one key to another. *)
LEMMA SharesMovedType ==
  ASSUME NEW balance \in [Keys -> Nat], NEW from \in Keys, NEW to \in Keys,
         NEW n \in Nat, from # to, balance[from] >= n
  PROVE  LET after == [balance EXCEPT ![from] = @ - n, ![to] = @ + n]
         IN  /\ after \in [Keys -> Nat]
             /\ after[from] = balance[from] - n
             /\ after[to] = balance[to] + n
OBVIOUS

LEMMA RequestInv ==
  ASSUME QueueInv, NEW s \in Signers, NEW a \in Mints, NEW n \in Amounts,
         NEW d \in Discounts, NEW t \in Deadlines, NEW p \in Prices,
         RequestWithdraw(s, a, n, d, t, p)
  PROVE  QueueInv'
<1> DEFINE made == RequestMade(s, a, n, d, t, p)
<1>1. made \in WithdrawRequest /\ requests' = requests \cup {made} /\ lastNonce[s] \in Nat
  BY RequestMadeType
<1>2. made.user = s /\ made.nonce = lastNonce[s]
  BY DEF RequestMade
<1> HIDE DEF made
<1>3. lastNonce' = [lastNonce EXCEPT ![s] = @ + 1]
  BY DEF RequestWithdraw, NonceAdvanced
<1>4. VaultInv' /\ RolesInv'
  <2>1. shares \in [Keys -> Nat] /\ n \in Nat
    BY InputsAssumption DEF QueueInv, VaultInv, TypeOK
  <2>2. shares' \in [Keys -> Nat]
    BY <2>1, PdaIsKey, SharesMovedType DEF RequestWithdraw
  <2> QED
    BY <2>2, LedgerStepInv DEF RequestWithdraw, QueueInv, VaultInv, TypeOK
<1>5. QueueTypes' /\ DiscountsBounded' /\ RequestsWhenDeployed'
  BY <1>1, <1>3 DEF QueueInv, QueueTypes, DiscountsBounded, RequestsWhenDeployed,
                    RequestWithdraw, RequestWithdrawAccounts
<1>6. \A r \in requests : r.user \in Signers /\ r.nonce \in Nat /\ lastNonce[r.user] \in Int
  BY DEF QueueInv, QueueTypes, WithdrawRequest, NoState
<1>7. NoncesFresh'
  <2>1. \A r \in requests : r.nonce < lastNonce[r.user]
    BY DEF QueueInv, NoncesFresh
  <2>2. \A r \in requests : r.nonce < lastNonce'[r.user]
    BY <1>1, <1>3, <1>6, <2>1 DEF QueueInv, QueueTypes
  <2>3. made.nonce < lastNonce'[made.user]
    BY <1>1, <1>2, <1>3 DEF QueueInv, QueueTypes
  <2>4. \A r \in requests : r.user = made.user => r.nonce # made.nonce
    BY <1>1, <1>2, <1>6, <2>1
  <2> QED
    BY <1>1, <2>2, <2>3, <2>4 DEF QueueInv, NoncesFresh
<1> QED
  BY <1>4, <1>5, <1>7 DEF QueueInv

(* Closing a request leaves the others as they were. *)
LEMMA ClosedInv ==
  ASSUME QueueInv, VaultInv', RolesInv', NEW r \in requests, requests' = requests \ {r},
         UNCHANGED <<queueProgram, queue, withdrawAssetData, lastNonce>>
  PROVE  QueueInv'
BY DEF QueueInv, QueueTypes, DiscountsBounded, NoncesFresh, RequestsWhenDeployed

LEMMA RequestType ==
  ASSUME QueueInv, NEW r \in requests
  PROVE  /\ r.user \in Signers /\ r.asset_out \in Mints /\ r.asset_out \in Assets
         /\ r.nonce \in Nat /\ r.share_amount \in Nat /\ r.asset_amount \in Nat
BY DEF QueueInv, QueueTypes, WithdrawRequest, Assets

LEMMA CancelInv ==
  ASSUME QueueInv, NEW s \in Signers, NEW r \in requests, CancelWithdraw(s, r)
  PROVE  QueueInv'
<1>1. shares \in [Keys -> Nat] /\ r.share_amount \in Nat
  BY RequestType DEF QueueInv, VaultInv, TypeOK
<1>2. shares[QueuePda] >= r.share_amount
  BY DEF CancelWithdraw, CancelAllowed
<1>3. shares' \in [Keys -> Nat]
  BY <1>1, <1>2, PdaIsKey, SharesMovedType DEF CancelWithdraw
<1>4. VaultInv' /\ RolesInv'
  BY <1>3, LedgerStepInv DEF CancelWithdraw, QueueInv, VaultInv, TypeOK
<1> QED
  BY <1>4, ClosedInv DEF CancelWithdraw

(* Of what the vault pays out for a request, the user gets the promise, the  *)
(* queue keeps nothing and the sub-account gets the rest back.               *)
LEMMA PaidThrough ==
  ASSUME NEW balance \in [Accounts -> Nat], NEW pot \in SubAccounts, NEW user \in Signers,
         NEW out \in Nat, NEW promised \in Nat, NEW excess \in Nat,
         out = promised + excess, out <= balance[pot]
  PROVE  LET withdrawn == Move(balance, pot, QueuePda, out)
             paid      == Move(withdrawn, QueuePda, user, promised)
             after     == Move(paid, QueuePda, pot, excess)
         IN  /\ after \in [Accounts -> Nat]
             /\ after[user] = balance[user] + promised
             /\ after[QueuePda] = balance[QueuePda]
<1> DEFINE withdrawn == Move(balance, pot, QueuePda, out)
           paid      == Move(withdrawn, QueuePda, user, promised)
           after     == Move(paid, QueuePda, pot, excess)
<1>1. /\ pot \in Accounts /\ user \in Accounts /\ QueuePda \in Accounts
      /\ pot # user /\ pot # QueuePda /\ user # QueuePda
  BY PdaIsKey DEF Accounts
<1>2. /\ withdrawn \in [Accounts -> Nat]
      /\ withdrawn[user] = balance[user]
      /\ withdrawn[QueuePda] = balance[QueuePda] + out
  BY <1>1 DEF Move
<1> HIDE DEF withdrawn
<1>3. /\ paid \in [Accounts -> Nat]
      /\ paid[user] = balance[user] + promised
      /\ paid[QueuePda] = balance[QueuePda] + excess
  BY <1>1, <1>2 DEF Move
<1> HIDE DEF paid
<1>4. /\ after \in [Accounts -> Nat]
      /\ after[user] = paid[user]
      /\ after[QueuePda] = paid[QueuePda] - excess
  BY <1>1, <1>3 DEF Move
<1>5. after[QueuePda] = balance[QueuePda] /\ after[user] = balance[user] + promised
  BY <1>1, <1>3, <1>4
<1> QED
  BY <1>4, <1>5 DEF withdrawn, paid

LEMMA FulfillPays ==
  ASSUME QueueInv, NEW s \in Signers, NEW r \in requests, NEW p \in Prices,
         FulfillWithdraw(s, r, p)
  PROVE  /\ tokens' \in [Assets -> [Accounts -> Nat]]
         /\ tokens'[r.asset_out][r.user] = tokens[r.asset_out][r.user] + r.asset_amount
         /\ tokens'[r.asset_out][QueuePda] = tokens[r.asset_out][QueuePda]
<1> DEFINE a == r.asset_out
           user == r.user
           promised == r.asset_amount
           out == AssetsOut(a, r.share_amount, p)
           pot == config.withdraw_sub_account
           before == tokens[a]
           excess == out - promised
           after == PayThroughQueue(before, user, out, promised)
<1>1. a \in Assets /\ user \in Signers /\ promised \in Nat /\ r.share_amount \in Nat
  BY RequestType
<1>2. out \in Nat
  BY <1>1, AssetsOutType, PricesPositive DEF QueueInv, VaultInv
<1>3. tokens \in [Assets -> [Accounts -> Nat]] /\ before \in [Accounts -> Nat]
         /\ pot \in SubAccounts
  BY <1>1 DEF QueueInv, VaultInv, TypeOK, VaultState
<1>4. promised <= out /\ out <= before[pot]
  BY <1>1, <1>2, <1>3 DEF FulfillWithdraw, FulfillAllowed, WithdrawAllowed, Accounts
<1>5. tokens' = [tokens EXCEPT ![a] = after]
  BY DEF FulfillWithdraw
<1> HIDE DEF a, user, promised, out, before
<1>6. after = LET withdrawn == Move(before, pot, QueuePda, out)
                  paid      == Move(withdrawn, QueuePda, user, promised)
              IN  Move(paid, QueuePda, pot, excess)
  BY DEF PayThroughQueue
<1>7. excess \in Nat /\ out = promised + excess
  BY <1>1, <1>2, <1>4
<1> HIDE DEF pot, after, excess
<1>8. /\ after \in [Accounts -> Nat]
      /\ after[user] = before[user] + promised
      /\ after[QueuePda] = before[QueuePda]
  BY <1>1, <1>2, <1>3, <1>4, <1>6, <1>7, PaidThrough
<1>9. tokens'[a] = after /\ tokens' \in [Assets -> [Accounts -> Nat]]
  BY <1>1, <1>3, <1>5, <1>8
<1> QED
  BY <1>8, <1>9 DEF a, user, promised, before

LEMMA FulfillInv ==
  ASSUME QueueInv, NEW s \in Signers, NEW r \in requests, NEW p \in Prices,
         FulfillWithdraw(s, r, p)
  PROVE  QueueInv'
<1>1. shares' \in [Keys -> Nat] /\ supply' \in Nat
  BY RequestType, PdaIsKey, BurnType
     DEF QueueInv, VaultInv, FulfillWithdraw, FulfillAllowed, WithdrawAllowed
<1>2. VaultInv' /\ RolesInv'
  BY <1>1, FulfillPays, LedgerStepInv DEF FulfillWithdraw, QueueInv
<1> QED
  BY <1>2, ClosedInv DEF FulfillWithdraw

LEMMA NextQueueInv == QueueInv /\ [Next]_vars => QueueInv'
<1> SUFFICES ASSUME QueueInv, [Next]_vars PROVE QueueInv'
  OBVIOUS
<1>1. ASSUME [VaultStep]_vaultVars, UNCHANGED queueVars PROVE QueueInv'
  <2>1. VaultInv' /\ RolesInv'
    BY <1>1, VaultStepInv DEF QueueInv
  <2>2. QueueTypes' /\ DiscountsBounded' /\ NoncesFresh' /\ RequestsWhenDeployed'
    BY <1>1 DEF QueueInv, queueVars, QueueTypes, DiscountsBounded, NoncesFresh,
                RequestsWhenDeployed
  <2> QED
    BY <2>1, <2>2 DEF QueueInv
<1>2. CASE QueueStep
  <2>1. ASSUME NEW k \in AdminKeys, InitializeQueue(k) PROVE QueueInv'
    BY <2>1, InitializeQueueInv
  <2>2. ASSUME NEW s \in Signers, QueueAdminStep(s) PROVE QueueInv'
    BY <2>2, QueueAdminInv
  <2>3. ASSUME NEW s \in Signers, SetupUserWithdrawState(s) PROVE QueueInv'
    BY <2>3, SetupUserInv
  <2>4. ASSUME NEW s \in Signers, Request(s) PROVE QueueInv'
    BY <2>4, RequestInv DEF Request
  <2>5. ASSUME NEW s \in Signers, NEW r \in requests, CancelWithdraw(s, r) PROVE QueueInv'
    BY <2>5, CancelInv
  <2>6. ASSUME NEW s \in Signers, NEW r \in requests, NEW p \in Prices,
               FulfillWithdraw(s, r, p)
        PROVE  QueueInv'
    BY <2>6, FulfillInv
  <2> QED
    BY <1>2, <2>1, <2>2, <2>3, <2>4, <2>5, <2>6 DEF QueueStep
<1>3. CASE UNCHANGED vars
  BY <1>1, <1>3 DEF vars
<1> QED
  BY <1>1, <1>2, <1>3 DEF Next

LEMMA QueueInvariant == Spec => []QueueInv
BY InitQueueInv, NextQueueInv, PTL DEF Spec

(* The queue's and the vault's state keep their types, whatever the keys, the *)
(* inputs and the bounds (all instructions of both programs).                 *)
THEOREM QueueTypeCorrect == Spec => []QueueTypeOK
<1>1. QueueInv => QueueTypeOK
  BY DEF QueueInv, QueueTypeOK, QueueTypes, VaultInv
<1> QED
  BY <1>1, QueueInvariant, PTL

-----------------------------------------------------------------------------
(* The queue implements the share escrow. *)

(* Nothing the vault does takes shares from the queue's PDA. *)
LEMMA VaultSparesPda ==
  ASSUME VaultInv, VaultInv', [VaultStep]_vaultVars
  PROVE  shares'[QueuePda] \in Nat /\ shares'[QueuePda] >= shares[QueuePda]
<1>1. /\ shares \in [Keys -> Nat] /\ shares' \in [Keys -> Nat]
      /\ QueuePda \in Keys /\ shares[QueuePda] \in Nat /\ shares'[QueuePda] \in Nat
  BY PdaIsKey DEF VaultInv, TypeOK
<1>0. Amounts \subseteq Nat /\ Mints \subseteq Assets /\ Native \in Assets
  BY InputsAssumption DEF Assets
<1>k. \A s \in Signers : s \in Keys /\ s # QueuePda
  BY PdaIsKey
<1>2. CASE shares' = shares
  BY <1>1, <1>2
<1>3. ASSUME NEW s \in Signers, NEW n \in Nat, BurnFrom(s, n)
      PROVE  shares'[QueuePda] = shares[QueuePda]
  BY <1>1, <1>3, <1>k DEF BurnFrom
<1>4. ASSUME NEW s \in Signers, NEW a \in Assets, NEW n \in Nat, NEW least,
             NEW p \in Prices, CalculateSharesAndMint(s, a, n, least, p)
      PROVE  shares'[QueuePda] = shares[QueuePda]
  BY <1>1, <1>4, <1>k DEF CalculateSharesAndMint
<1>5. ASSUME NEW s \in Signers, NEW k \in Keys, NEW n \in Nat,
             \/ shares' = [shares EXCEPT ![k] = @ + n]
             \/ shares' = [shares EXCEPT ![s] = @ - n, ![k] = @ + n]
      PROVE  shares'[QueuePda] >= shares[QueuePda]
  BY <1>1, <1>5, <1>k
<1>6. CASE Setup
  BY <1>2, <1>6 DEF Setup, Initialize, Deploy, ledgerVars
<1>7. ASSUME NEW s \in Signers, Administer(s) PROVE shares' = shares
  BY <1>7 DEF Administer, Pause, Unpause, TransferAuthority, AcceptAuthority,
       SetDepositSubAccount, SetWithdrawSubAccount, SetShareMover,
       UpdateExchangeRateProvider, SetWithdrawAuthority, SetPayout, SetStrategist,
       ConfigureExchangeRateUpdateBounds, SetFees, UpdateAssetData,
       InitializeCpiDigest, CloseCpiDigest, SetConfig, SetTeller, ledgerVars
<1>8. ASSUME NEW s \in Signers, Operate(s) PROVE shares'[QueuePda] >= shares[QueuePda]
  <2>1. ASSUME NEW k \in Keys, NEW n \in Amounts, MintShares(s, k, n)
        PROVE  shares'[QueuePda] >= shares[QueuePda]
    BY <1>0, <1>5, <2>1 DEF MintShares
  <2>2. ASSUME NEW k \in Signers, NEW n \in Amounts, BurnShares(s, k, n)
        PROVE  shares'[QueuePda] >= shares[QueuePda]
    <3>1. shares'[QueuePda] = shares[QueuePda]
      BY <1>0, <1>3, <2>2 DEF BurnShares
    <3> QED
      BY <1>1, <3>1
  <2> QED
    BY <1>2, <1>8, <2>1, <2>2 DEF Operate, UpdateExchangeRate, ClaimFeesInBase, Manage, ledgerVars
<1>9. ASSUME NEW s \in Signers, Use(s) PROVE shares'[QueuePda] = shares[QueuePda]
  <2>1. ASSUME NEW n \in Amounts, NEW least, NEW a \in Mints, NEW p \in Prices,
               Deposit(s, a, n, least, p)
        PROVE  shares'[QueuePda] = shares[QueuePda]
    BY <1>0, <1>4, <2>1 DEF Deposit
  <2>2. ASSUME NEW n \in Amounts, NEW least, NEW p \in Prices, DepositSol(s, n, least, p)
        PROVE  shares'[QueuePda] = shares[QueuePda]
    BY <1>0, <1>4, <2>2 DEF DepositSol
  <2>3. ASSUME NEW n \in Amounts, NEW least, NEW a \in Mints, NEW p \in Prices,
               Withdraw(s, a, n, least, p)
        PROVE  shares'[QueuePda] = shares[QueuePda]
    BY <1>0, <1>3, <2>3 DEF Withdraw
  <2> QED
    BY <1>9, <2>1, <2>2, <2>3 DEF Use
<1>10. CASE Environment
  <2>1. ASSUME NEW s \in Signers, NEW k \in Keys, NEW n \in Amounts, TransferShares(s, k, n)
        PROVE  shares'[QueuePda] >= shares[QueuePda]
    BY <1>0, <1>5, <2>1 DEF TransferShares
  <2> QED
    BY <1>1, <1>2, <1>10, <2>1 DEF Environment, TransferTokens, Tick, ledgerVars
<1>11. CASE UNCHANGED vaultVars
  BY <1>2, <1>11 DEF vaultVars, ledgerVars
<1> QED
  BY <1>1, <1>2, <1>6, <1>7, <1>8, <1>9, <1>10, <1>11 DEF VaultStep

OpenClaims == {ClaimOf(r) : r \in requests}
NextNumber == [s \in Signers |-> IF lastNonce[s] = NoState THEN 0 ELSE lastNonce[s]]

(* Two requests of the queue are never the same claim of the escrow. *)
LEMMA ClaimsDistinct ==
  ASSUME QueueInv, NEW r \in requests
  PROVE  {ClaimOf(q) : q \in requests \ {r}} = OpenClaims \ {ClaimOf(r)}
<1>1. \A q \in requests : ClaimOf(q) = ClaimOf(r) => q = r
  BY DEF QueueInv, NoncesFresh, ClaimOf
<1> QED
  BY <1>1 DEF OpenClaims

(* Shares that come without a request are a donation. *)
LEMMA DonationStep ==
  ASSUME shares'[QueuePda] \in Nat, shares'[QueuePda] >= shares[QueuePda],
         requests' = requests, NextNumber' = NextNumber
  PROVE  Escrow!Next
BY DEF Escrow!Next, Escrow!Donate, NextNumber

LEMMA OpeningStep ==
  ASSUME QueueInv, NEW s \in Signers, NEW a \in Mints, NEW n \in Amounts,
         NEW d \in Discounts, NEW t \in Deadlines, NEW p \in Prices,
         RequestWithdraw(s, a, n, d, t, p)
  PROVE  Escrow!Next
<1> DEFINE made == RequestMade(s, a, n, d, t, p)
<1>1. requests' = requests \cup {made} /\ lastNonce[s] \in Nat
  BY RequestMadeType
<1>2. ClaimOf(made) = [user |-> s, number |-> lastNonce[s], amount |-> n]
  BY DEF RequestMade, ClaimOf
<1> HIDE DEF made
<1>3. shares'[QueuePda] = shares[QueuePda] + n /\ shares[QueuePda] \in Nat /\ n \in Nat
  <2>1. shares \in [Keys -> Nat] /\ n \in Nat
    BY InputsAssumption DEF QueueInv, VaultInv, TypeOK
  <2> QED
    BY <2>1, PdaIsKey, SharesMovedType DEF RequestWithdraw
<1>4. OpenClaims' = OpenClaims
         \cup {[user |-> s, number |-> NextNumber[s], amount |-> shares'[QueuePda] - shares[QueuePda]]}
  <2>1. NextNumber[s] = lastNonce[s]
    BY <1>1 DEF NextNumber, NoState
  <2>2. shares'[QueuePda] - shares[QueuePda] = n
    BY <1>3
  <2> QED
    BY <1>1, <1>2, <2>1, <2>2 DEF OpenClaims
<1>5. NextNumber' = [NextNumber EXCEPT ![s] = @ + 1]
  <2>1. lastNonce' = [lastNonce EXCEPT ![s] = @ + 1] /\ lastNonce \in [Signers -> Nat \cup {NoState}]
    BY DEF RequestWithdraw, NonceAdvanced, QueueInv, QueueTypes
  <2>2. ASSUME NEW u \in Signers
        PROVE  (IF lastNonce'[u] = NoState THEN 0 ELSE lastNonce'[u])
                 = IF u = s THEN NextNumber[u] + 1 ELSE NextNumber[u]
    BY <1>1, <2>1 DEF NextNumber, NoState
  <2>3. NextNumber \in [Signers -> Int]
    BY <2>1 DEF NextNumber, NoState
  <2>4. NextNumber' = [u \in Signers |-> IF lastNonce'[u] = NoState THEN 0 ELSE lastNonce'[u]]
    BY DEF NextNumber
  <2> HIDE DEF NextNumber
  <2> QED
    BY <2>2, <2>3, <2>4
<1>6. shares'[QueuePda] \in Nat /\ shares'[QueuePda] >= shares[QueuePda]
  BY <1>3
<1> QED
  BY <1>4, <1>5, <1>6 DEF Escrow!Next, Escrow!Open, OpenClaims, NextNumber

LEMMA ClosingStep ==
  ASSUME QueueInv, NEW r \in requests, requests' = requests \ {r}, lastNonce' = lastNonce,
         shares'[QueuePda] = shares[QueuePda] - r.share_amount
  PROVE  Escrow!Next
<1>1. OpenClaims' = OpenClaims \ {ClaimOf(r)}
  BY ClaimsDistinct DEF OpenClaims
<1>2. ClaimOf(r) \in OpenClaims /\ ClaimOf(r).amount = r.share_amount
  BY DEF OpenClaims, ClaimOf
<1>3. NextNumber' = NextNumber
  BY DEF NextNumber
<1> QED
  BY <1>1, <1>2, <1>3 DEF Escrow!Next, Escrow!Close, OpenClaims, NextNumber

LEMMA EscrowStep ==
  ASSUME QueueInv, QueueInv', [Next]_vars
  PROVE  Escrow!Next \/ UNCHANGED Escrow!escrowVars
<1>1. ASSUME [VaultStep]_vaultVars, UNCHANGED queueVars PROVE Escrow!Next
  <2>1. shares'[QueuePda] \in Nat /\ shares'[QueuePda] >= shares[QueuePda]
    BY <1>1, VaultSparesPda DEF QueueInv
  <2>2. requests' = requests /\ NextNumber' = NextNumber
    BY <1>1 DEF queueVars, NextNumber
  <2> QED
    BY <2>1, <2>2, DonationStep
<1>2. CASE QueueStep
  <2>0. ASSUME shares' = shares, requests' = requests, NextNumber' = NextNumber
        PROVE  UNCHANGED Escrow!escrowVars
    BY <2>0 DEF Escrow!escrowVars, NextNumber
  <2>1. ASSUME NEW k \in AdminKeys, InitializeQueue(k) PROVE UNCHANGED Escrow!escrowVars
    BY <2>0, <2>1 DEF InitializeQueue, NextNumber, vaultVars, ledgerVars
  <2>2. ASSUME NEW s \in Signers, QueueAdminStep(s) PROVE UNCHANGED Escrow!escrowVars
    BY <2>0, <2>2 DEF QueueAdminStep, DeployQueue, SetSolveAuthority, PauseQueue,
       UnpauseQueue, UpdateWithdrawAssetData, SetQueue, NextNumber, vaultVars, ledgerVars
  <2>3. ASSUME NEW s \in Signers, SetupUserWithdrawState(s) PROVE UNCHANGED Escrow!escrowVars
    <3>1. NextNumber' = NextNumber
      BY <2>3 DEF SetupUserWithdrawState, NextNumber, NoState, QueueInv, QueueTypes
    <3> QED
      BY <2>0, <2>3, <3>1 DEF SetupUserWithdrawState, vaultVars, ledgerVars
  <2>4. ASSUME NEW s \in Signers, Request(s) PROVE Escrow!Next
    BY <2>4, OpeningStep DEF Request
  <2>5. ASSUME NEW s \in Signers, NEW r \in requests, CancelWithdraw(s, r)
        PROVE  Escrow!Next
    <3>1. shares \in [Keys -> Nat] /\ r.user = s /\ s \in Keys /\ QueuePda \in Keys /\ s # QueuePda
      BY <2>5, PdaIsKey DEF QueueInv, VaultInv, TypeOK, CancelWithdraw, CancelAllowed
    <3>2. shares'[QueuePda] = shares[QueuePda] - r.share_amount
      BY <2>5, <3>1 DEF CancelWithdraw
    <3> QED
      BY <2>5, <3>2, ClosingStep DEF CancelWithdraw
  <2>6. ASSUME NEW s \in Signers, NEW r \in requests, NEW p \in Prices,
               FulfillWithdraw(s, r, p)
        PROVE  Escrow!Next
    <3>1. shares \in [Keys -> Nat] /\ QueuePda \in Keys
      BY PdaIsKey DEF QueueInv, VaultInv, TypeOK
    <3>2. shares'[QueuePda] = shares[QueuePda] - r.share_amount
      BY <2>6, <3>1 DEF FulfillWithdraw, BurnFrom
    <3> QED
      BY <2>6, <3>2, ClosingStep DEF FulfillWithdraw
  <2> QED
    BY <1>2, <2>1, <2>2, <2>3, <2>4, <2>5, <2>6 DEF QueueStep
<1>3. CASE UNCHANGED vars
  BY <1>1, <1>3 DEF vars
<1> QED
  BY <1>1, <1>2, <1>3 DEF Next

(* The queue with its vault implements the share escrow, whatever the keys,   *)
(* the inputs and the bounds (request_withdraw opens a claim, cancel_withdraw *)
(* and fulfill_withdraw close one, and nothing else takes shares out).        *)
THEOREM QueueImplementsEscrow == Spec => EscrowSpec
<1>1. QueueInit => Escrow!Init
  <2> SUFFICES ASSUME QueueInit PROVE Escrow!Init
    OBVIOUS
  <2>1. requests = {} /\ lastNonce = [s \in Signers |-> NoState]
    BY DEF QueueInit
  <2>2. shares[QueuePda] = 0
    BY PdaIsKey DEF QueueInit, Init
  <2> QED
    BY <2>1, <2>2 DEF Escrow!Init, NoState
<1>2. QueueInv /\ QueueInv' /\ [Next]_vars => [Escrow!Next]_(Escrow!escrowVars)
  BY EscrowStep
<1> QED
  BY <1>1, <1>2, QueueInvariant, PTL DEF Spec, EscrowSpec, Escrow!Spec

-----------------------------------------------------------------------------
(* What the escrow guarantees, said of the queue. *)

EscrowFacts == INSTANCE ShareEscrow_proofs WITH
  Users <- Signers,
  open  <- {ClaimOf(r) : r \in requests},
  next  <- [s \in Signers |-> IF lastNonce[s] = NoState THEN 0 ELSE lastNonce[s]],
  held  <- shares[QueuePda]

LEMMA EscrowFactsHold == Spec => []EscrowFacts!EscrowInv
<1>1. EscrowFacts!Spec => []EscrowFacts!EscrowInv
  BY EscrowFacts!EscrowInvariant
<1>2. Escrow!Init => EscrowFacts!Init
  BY DEF Escrow!Init, EscrowFacts!Init
<1>3. [Escrow!Next]_(Escrow!escrowVars) => [EscrowFacts!Next]_(EscrowFacts!escrowVars)
  BY DEF Escrow!Next, Escrow!Open, Escrow!Close, Escrow!Donate, Escrow!escrowVars,
         EscrowFacts!Next, EscrowFacts!Open, EscrowFacts!Close, EscrowFacts!Donate,
         EscrowFacts!escrowVars
<1>4. EscrowSpec => EscrowFacts!Spec
  BY <1>2, <1>3, PTL DEF EscrowSpec, Escrow!Spec, EscrowFacts!Spec
<1> QED
  BY <1>1, <1>4, QueueImplementsEscrow, PTL

(* The PDA holds the shares of all open requests together, for any number of  *)
(* users and requests (request_withdraw, cancel_withdraw, fulfill_withdraw,   *)
(* transfers of shares).                                                      *)
THEOREM QueueAlwaysBacked == Spec => []EscrowBacked
<1>1. EscrowFacts!EscrowInv => EscrowBacked
  BY DEF EscrowFacts!EscrowInv, EscrowFacts!Backed, EscrowBacked, Escrow!Backed,
         EscrowFacts!OwedUnits, Escrow!OwedUnits,
         EscrowFacts!Cardinality, Escrow!Cardinality
<1> QED
  BY <1>1, EscrowFactsHold, PTL

(* An expired request can be cancelled by its user, whatever was paused or    *)
(* changed since (cancel_withdraw has no pause check, and its shares are      *)
(* there).                                                                    *)
THEOREM QueueAlwaysRecoverable == Spec => []ExpiredIsRecoverable
<1>1. ASSUME QueueInv, EscrowFacts!EscrowInv PROVE ExpiredIsRecoverable
  <2> SUFFICES ASSUME NEW r \in requests, now > Deadline(r)
               PROVE  CancelAllowed(r.user, r)
    BY DEF ExpiredIsRecoverable
  <2>1. shares[QueuePda] >= ClaimOf(r).amount
    BY <1>1, EscrowFacts!EveryClaimCovered
  <2>2. queue.deployed
    BY <1>1 DEF QueueInv, RequestsWhenDeployed
  <2> QED
    BY <2>1, <2>2 DEF CancelAllowed, ClaimOf
<1> QED
  BY <1>1, QueueInvariant, EscrowFactsHold, PTL

-----------------------------------------------------------------------------
(* How a request ends. *)

EndsInOneWay ==
  \A r \in requests : r \in requests' \/ SharesReturned(r) \/ PromisePaid(r)

LEMMA EndingStep ==
  ASSUME QueueInv, [Next]_vars
  PROVE  EndsInOneWay
<1>1. CASE requests \subseteq requests'
  BY <1>1 DEF EndsInOneWay
<1>2. ASSUME NEW s \in Signers, NEW r \in requests, CancelWithdraw(s, r) PROVE EndsInOneWay
  <2>1. /\ shares \in [Keys -> Nat] /\ r.share_amount \in Nat /\ r.user = s
        /\ s \in Keys /\ QueuePda \in Keys /\ s # QueuePda
    BY <1>2, PdaIsKey, RequestType
       DEF QueueInv, VaultInv, TypeOK, CancelWithdraw, CancelAllowed
  <2>2. shares'[s] = shares[s] + r.share_amount
    BY <1>2, <2>1 DEF CancelWithdraw
  <2>3. SharesReturned(r)
    BY <1>2, <2>1, <2>2 DEF SharesReturned, CancelWithdraw, CancelAllowed
  <2> QED
    BY <1>2, <2>3 DEF EndsInOneWay, CancelWithdraw
<1>3. ASSUME NEW s \in Signers, NEW r \in requests, NEW p \in Prices,
             FulfillWithdraw(s, r, p)
      PROVE  EndsInOneWay
  <2>1. now >= Maturity(r) /\ now <= Deadline(r)
    BY <1>3 DEF FulfillWithdraw, FulfillAllowed
  <2>2. now \in Int /\ Maturity(r) \in Int /\ Deadline(r) \in Int
    BY DEF QueueInv, VaultInv, TypeOK, QueueTypes, WithdrawRequest, Maturity, Deadline
  <2>3. now \in Maturity(r)..Deadline(r)
    BY <2>1, <2>2
  <2>4. supply' = supply - r.share_amount
    BY <1>3 DEF FulfillWithdraw, BurnFrom
  <2>5. PromisePaid(r)
    BY <1>3, <2>3, <2>4, FulfillPays DEF PromisePaid
  <2> QED
    BY <1>3, <2>5 DEF EndsInOneWay, FulfillWithdraw
<1>4. CASE QueueStep
  <2>1. ASSUME NEW k \in AdminKeys, InitializeQueue(k) PROVE requests \subseteq requests'
    BY <2>1 DEF InitializeQueue
  <2>2. ASSUME NEW s \in Signers, QueueAdminStep(s) PROVE requests \subseteq requests'
    BY <2>2 DEF QueueAdminStep, DeployQueue, SetSolveAuthority, PauseQueue,
                UnpauseQueue, UpdateWithdrawAssetData, SetQueue
  <2>3. ASSUME NEW s \in Signers, SetupUserWithdrawState(s) PROVE requests \subseteq requests'
    BY <2>3 DEF SetupUserWithdrawState
  <2>4. ASSUME NEW s \in Signers, Request(s) PROVE requests \subseteq requests'
    BY <2>4 DEF Request, RequestWithdraw
  <2> QED
    BY <1>1, <1>2, <1>3, <1>4, <2>1, <2>2, <2>3, <2>4 DEF QueueStep
<1> QED
  BY <1>1, <1>4 DEF Next, queueVars, vars

(* A request never disappears but by its shares coming back after the         *)
(* deadline or by its promised assets being paid, to the unit, within the     *)
(* window (cancel_withdraw, and fulfill_withdraw with the vault's withdraw).  *)
THEOREM QueueRequestsEndInOneWay == Spec => RequestsEndInOneWay
<1>1. QueueInv /\ [Next]_vars => [EndsInOneWay]_vars
  BY EndingStep
<1> QED
  BY <1>1, QueueInvariant, PTL DEF Spec, RequestsEndInOneWay, EndsInOneWay

-----------------------------------------------------------------------------
(* What promises are worth.  The invariant says that every open request       *)
(* promises what its terms gave, at some discount, and that the vault it      *)
(* draws on is deployed.                                                      *)

TermsType == [rate: Nat, pegged: BOOLEAN, price: (Nat \ {0}) \X (Nat \ {0})]

(* The rate the terms q give in asset a. *)
QuotedRate(a, q) ==
  IF a = BaseAsset THEN q.rate
  ELSE IF q.pegged THEN RatePegged(q.rate, AssetScale[a])
  ELSE RatePriced(q.rate, AssetScale[a], q.price)

PromisedFrom(r, q) ==
  \E d \in 0..BpsScale :
    r.asset_amount = PromisedAssets(r.share_amount, QuotedRate(r.asset_out, q), d)

PromiseInv ==
  /\ quoted \in [requests -> TermsType]
  /\ \A r \in requests : PromisedFrom(r, quoted[r])
  /\ requests # {} => Deployed

LEMMA TermsQuoteRate ==
  ASSUME VaultInv, NEW a \in Assets, NEW p \in Prices
  PROVE  /\ Terms(a, p) \in TermsType
         /\ RateInQuote(a, p) = QuotedRate(a, Terms(a, p))
<1>1. /\ teller.exchange_rate \in Nat
      /\ assetData[a].is_pegged_to_base_asset \in BOOLEAN
  BY DEF VaultInv, TypeOK, TellerState, AssetData
<1>2. OraclePrice(a, p) \in (Nat \ {0}) \X (Nat \ {0})
  BY OraclePriceType, PricesPositive
<1> QED
  BY <1>1, <1>2 DEF Terms, TermsType, QuotedRate, RateInQuote

LEMMA VaultKeepsDeployed ==
  ASSUME VaultInv, Deployed, [VaultStep]_vaultVars
  PROVE  Deployed'
<1>1. program.vault_count \in Nat
  BY DEF VaultInv, TypeOK
<1>2. CASE program' = program
  BY <1>2 DEF Deployed
<1>3. ASSUME NEW s \in Signers, Administer(s) PROVE program' = program
  BY <1>3 DEF Administer, Pause, Unpause, TransferAuthority, AcceptAuthority,
     SetDepositSubAccount, SetWithdrawSubAccount, SetShareMover,
     UpdateExchangeRateProvider, SetWithdrawAuthority, SetPayout, SetStrategist,
     ConfigureExchangeRateUpdateBounds, SetFees, UpdateAssetData, InitializeCpiDigest,
     CloseCpiDigest, SetConfig, SetTeller
<1>4. ASSUME NEW s \in Signers, Operate(s) PROVE program' = program
  BY <1>4 DEF Operate, UpdateExchangeRate, ClaimFeesInBase, Manage, MintShares,
              BurnShares, adminVars
<1>5. ASSUME NEW s \in Signers, Use(s) PROVE program' = program
  BY <1>5 DEF Use, Deposit, DepositSol, Withdraw, adminVars
<1>6. CASE Environment
  BY <1>2, <1>6 DEF Environment, TransferShares, TransferTokens, Tick, adminVars
<1>7. CASE Setup
  <2>1. ASSUME NEW k \in AdminKeys, Initialize(k) PROVE Deployed'
    BY <2>1 DEF Initialize, Deployed, VaultInv, TypeOK
  <2>2. ASSUME NEW s \in Signers, NEW args \in DeployArgs, Deploy(s, args) PROVE FALSE
    BY <2>2 DEF Deploy, DeployAccounts
  <2> QED
    BY <1>7, <2>1, <2>2 DEF Setup
<1>8. CASE UNCHANGED vaultVars
  BY <1>2, <1>8 DEF vaultVars, adminVars
<1> QED
  BY <1>2, <1>3, <1>4, <1>5, <1>6, <1>7, <1>8 DEF VaultStep

LEMMA NextKeepsDeployed ==
  ASSUME QueueInv, Deployed, [Next]_vars
  PROVE  Deployed'
<1>1. CASE QueueStep
  <2>1. program' = program
    <3>1. UNCHANGED vaultVars => program' = program
      BY DEF vaultVars, adminVars
    <3>2. ASSUME NEW s \in Signers, QueueAdminStep(s) PROVE UNCHANGED vaultVars
      BY <3>2 DEF QueueAdminStep, DeployQueue, SetSolveAuthority, PauseQueue,
                  UnpauseQueue, SetQueue, UpdateWithdrawAssetData
    <3>3. ASSUME NEW s \in Signers, Request(s) PROVE program' = program
      BY <3>3 DEF Request, RequestWithdraw, adminVars
    <3>4. ASSUME NEW s \in Signers, NEW q \in requests, CancelWithdraw(s, q)
          PROVE  program' = program
      BY <3>4 DEF CancelWithdraw, adminVars
    <3>5. ASSUME NEW s \in Signers, NEW q \in requests, NEW p \in Prices,
                 FulfillWithdraw(s, q, p)
          PROVE  program' = program
      BY <3>5 DEF FulfillWithdraw, adminVars
    <3> QED
      BY <1>1, <3>1, <3>2, <3>3, <3>4, <3>5
         DEF QueueStep, InitializeQueue, SetupUserWithdrawState
  <2> QED
    BY <2>1 DEF Deployed
<1>2. CASE [VaultStep]_vaultVars
  BY <1>2, VaultKeepsDeployed DEF QueueInv
<1> QED
  BY <1>1, <1>2 DEF Next, vars

(* The promise of a request just made. *)
LEMMA QuotePromised ==
  ASSUME QueueInv, PromiseInv, NEW s \in Signers, QuoteFor(s)
  PROVE  PromiseInv'
<1>1. PICK p \in Prices :
        /\ RequestAt(s, p)
        /\ quoted' = [r \in requests' |->
                        IF r \in requests THEN quoted[r] ELSE Terms(r.asset_out, p)]
  BY DEF QuoteFor
<1>2. PICK a \in Mints, n \in Amounts, d \in Discounts, t \in Deadlines :
        RequestWithdraw(s, a, n, d, t, p)
  BY <1>1 DEF RequestAt
<1> DEFINE made == RequestMade(s, a, n, d, t, p)
<1>3. requests' = requests \cup {made}
  BY <1>2, RequestMadeType
<1>4. /\ made.asset_out = a /\ made.share_amount = n
      /\ made.asset_amount = PromisedAssets(n, RateInQuote(a, p), d)
  BY DEF RequestMade
<1>5. a \in Assets /\ d \in 0..BpsScale
  <2>1. d \in Nat /\ d <= withdrawAssetData[a].maximum_discount
    BY <1>2, QueueAssumption DEF RequestWithdraw, RequestTermsOk
  <2>2. withdrawAssetData[a].maximum_discount \in Nat
    BY DEF QueueInv, QueueTypes, WithdrawAssetData
  <2>3. withdrawAssetData[a].maximum_discount <= MaxDiscount
    BY DEF QueueInv, DiscountsBounded
  <2> QED
    BY <2>1, <2>2, <2>3 DEF MaxDiscount, BpsScale, Assets
<1> HIDE DEF made
<1>6. Terms(a, p) \in TermsType /\ PromisedFrom(made, Terms(a, p))
  <2>1. Terms(a, p) \in TermsType /\ RateInQuote(a, p) = QuotedRate(a, Terms(a, p))
    BY <1>5, TermsQuoteRate DEF QueueInv
  <2> QED
    BY <1>4, <1>5, <2>1 DEF PromisedFrom
<1>7. \A r \in requests' : /\ quoted'[r] \in TermsType
                           /\ PromisedFrom(r, quoted'[r])
  <2>1. ASSUME NEW r \in requests
        PROVE  quoted'[r] \in TermsType /\ PromisedFrom(r, quoted'[r])
    <3>1. quoted'[r] = quoted[r]
      BY <1>1, <1>3
    <3> QED
      BY <3>1 DEF PromiseInv
  <2>2. made \notin requests => quoted'[made] = Terms(a, p)
    BY <1>1, <1>3, <1>4
  <2> QED
    BY <1>3, <1>6, <2>1, <2>2
<1>8. Deployed'
  <2>1. program' = program /\ Deployed
    BY <1>2 DEF RequestWithdraw, RequestWithdrawAccounts, adminVars
  <2> QED
    BY <2>1 DEF Deployed
<1>9. quoted' \in [requests' -> TermsType]
  BY <1>1, <1>7
<1>10. (\A r \in requests : PromisedFrom(r, quoted[r]))'
  BY <1>7 DEF PromisedFrom, QuotedRate
<1> QED
  BY <1>8, <1>9, <1>10 DEF PromiseInv

LEMMA NextPromiseInv ==
  ASSUME QueueInv, PromiseInv, [PromiseStep]_<<vars, quoted>>
  PROVE  PromiseInv'
<1>1. ASSUME NEW s \in Signers, QuoteFor(s) PROVE PromiseInv'
  BY <1>1, QuotePromised
<1>2. ASSUME Next, KeepQuotes PROVE PromiseInv'
  <2>1. requests' \subseteq requests /\ quoted' = [r \in requests' |-> quoted[r]]
    BY <1>2 DEF KeepQuotes
  <2>2. quoted' \in [requests' -> TermsType]
    BY <2>1 DEF PromiseInv
  <2>3. \A r \in requests' : PromisedFrom(r, quoted'[r])
    BY <2>1 DEF PromiseInv
  <2>4. requests' # {} => Deployed'
    BY <1>2, <2>1, NextKeepsDeployed DEF PromiseInv
  <2>5. (\A r \in requests : PromisedFrom(r, quoted[r]))'
    BY <2>3 DEF PromisedFrom, QuotedRate
  <2> QED
    BY <2>2, <2>4, <2>5 DEF PromiseInv
<1>3. CASE UNCHANGED <<vars, quoted>>
  <2>1. requests' = requests /\ quoted' = quoted /\ program' = program
    BY <1>3 DEF vars, queueVars, vaultVars, adminVars
  <2> QED
    BY <2>1 DEF PromiseInv, PromisedFrom, QuotedRate, Deployed
<1> QED
  BY <1>1, <1>2, <1>3 DEF PromiseStep

(* A promise is covered as long as neither rate nor price has turned.         *)
LEMMA PromiseCovered ==
  ASSUME QueueInv, PromiseInv, NEW r \in requests, NEW p \in Prices,
         ~FinePegged(r.asset_out), NoWorseThanQuoted(r, p)
  PROVE  AssetsOut(r.asset_out, r.share_amount, p) >= r.asset_amount
<1> DEFINE a    == r.asset_out
           n    == r.share_amount
           then == quoted[r]
           rate == teller.exchange_rate
           this == OraclePrice(a, p)
           scale == AssetScale[a]
<1>1. a \in Assets /\ n \in Nat
  BY RequestType
<1>2. /\ then.rate \in Nat /\ then.pegged \in BOOLEAN
      /\ then.price \in (Nat \ {0}) \X (Nat \ {0})
  BY DEF PromiseInv, TermsType
<1>3. /\ rate \in Nat /\ scale \in Nat \ {0}
      /\ assetData[a].is_pegged_to_base_asset \in BOOLEAN
      /\ this \in (Nat \ {0}) \X (Nat \ {0})
  BY <1>1, AssetsAssumption, OraclePriceType, PricesPositive
     DEF QueueInv, VaultInv, TypeOK, TellerState, AssetData
<1>4. /\ then.rate <= rate
      /\ a # BaseAsset =>
           /\ assetData[a].is_pegged_to_base_asset = then.pegged
           /\ then.pegged \/ this[1] * then.price[2] <= then.price[1] * this[2]
  BY <1>2, <1>3 DEF NoWorseThanQuoted, Terms
<1>5. PICK d \in 0..BpsScale : r.asset_amount = PromisedAssets(n, QuotedRate(a, then), d)
  BY DEF PromiseInv, PromisedFrom
<1>6. ShareScale \in Nat \ {0}
  BY ShareScaleAssumption
<1> HIDE DEF a, n, then, rate, this, scale
<1>7. CASE a = BaseAsset
  <2>1. r.asset_amount <= AssetsInBase(n, rate)
    BY <1>1, <1>2, <1>3, <1>4, <1>5, <1>7, BasePromiseCovered DEF QuotedRate
  <2>2. AssetsOut(a, n, p) = AssetsInBase(n, rate)
    BY <1>7 DEF AssetsOut, rate
  <2>3. r.asset_amount \in Nat /\ AssetsInBase(n, rate) \in Nat
    BY <1>1, <1>3, RequestType, AssetsInBaseType
  <2> QED
    BY <2>1, <2>2, <2>3 DEF a, n
<1>8. CASE a # BaseAsset /\ then.pegged
  <2>1. ShareScale % scale = 0
    BY <1>4, <1>8 DEF FinePegged, a, scale
  <2>2. PICK k \in Nat \ {0} : scale * k = ShareScale
    <3> DEFINE k == ShareScale \div scale
    <3>1. k \in Nat /\ scale * k = ShareScale
      BY <1>3, <1>6, <2>1
    <3> HIDE DEF k
    <3>2. k # 0
      BY <1>3, <1>6, <3>1
    <3> QED
      BY <3>1, <3>2
  <2>3. r.asset_amount <= AssetsPegged(n, scale, then.rate)
    BY <1>1, <1>2, <1>3, <1>5, <1>8, <2>2, CoarsePeggedPromiseCovered DEF QuotedRate, scale
  <2>4. AssetsPegged(n, scale, then.rate) <= AssetsPegged(n, scale, rate)
    BY <1>1, <1>2, <1>3, <1>4, AssetsPeggedRise
  <2>5. AssetsOut(a, n, p) = AssetsPegged(n, scale, rate)
    BY <1>4, <1>8 DEF AssetsOut, rate, scale
  <2>6. /\ r.asset_amount \in Nat /\ AssetsPegged(n, scale, then.rate) \in Nat
        /\ AssetsPegged(n, scale, rate) \in Nat
    BY <1>1, <1>2, <1>3, RequestType, AssetsPeggedType
  <2> QED
    BY <2>3, <2>4, <2>5, <2>6 DEF a, n
<1>9. CASE a # BaseAsset /\ ~then.pegged
  <2>1. r.asset_amount <= AssetsPriced(n, scale, then.price, then.rate)
    BY <1>1, <1>2, <1>3, <1>5, <1>9, PricedPromiseCovered DEF QuotedRate, scale
  <2>2. AssetsPriced(n, scale, then.price, then.rate) <= AssetsPriced(n, scale, this, rate)
    BY <1>1, <1>2, <1>3, <1>4, <1>9, AssetsPricedRise
  <2>3. AssetsOut(a, n, p) = AssetsPriced(n, scale, this, rate)
    BY <1>3, <1>4, <1>9 DEF AssetsOut, rate, scale, this
  <2>4. /\ r.asset_amount \in Nat /\ AssetsPriced(n, scale, then.price, then.rate) \in Nat
        /\ AssetsPriced(n, scale, this, rate) \in Nat
    BY <1>1, <1>2, <1>3, RequestType, AssetsPricedType
  <2> QED
    BY <2>1, <2>2, <2>3, <2>4 DEF a, n
<1> QED
  BY <1>2, <1>7, <1>8, <1>9

LEMMA PromisePayable ==
  ASSUME QueueInv, PromiseInv, EscrowFacts!EscrowInv
  PROVE  PromisesPayable
<1> SUFFICES ASSUME NEW r \in requests, NEW p \in Prices,
                    ~FinePegged(r.asset_out), Fulfillable(r, p), NoWorseThanQuoted(r, p)
             PROVE  FoundSolver(r, p)
  BY DEF PromisesPayable
<1>1. r.user \in Signers /\ r.asset_out \in Mints
  BY RequestType
<1>2. AssetsOut(r.asset_out, r.share_amount, p) >= r.asset_amount
  BY PromiseCovered
<1>3. shares[QueuePda] >= r.share_amount
  <2>1. shares[QueuePda] >= ClaimOf(r).amount
    BY EscrowFacts!EveryClaimCovered
  <2> QED
    BY <2>1 DEF ClaimOf
<1>4. Deployed /\ queue.deployed
  BY DEF PromiseInv, QueueInv, RequestsWhenDeployed
<1>5. WithdrawAllowed(QueuePda, r.asset_out, r.share_amount, r.asset_amount, p)
  <2>1. tokens[r.asset_out][config.withdraw_sub_account]
          >= AssetsOut(r.asset_out, r.share_amount, p)
    <3>1. AssetsOut(r.asset_out, r.share_amount, p) \in Nat
      BY <1>1, RequestType, AssetsOutType, PricesPositive DEF QueueInv, VaultInv
    <3>2. tokens[r.asset_out][config.withdraw_sub_account] \in Nat
      BY <1>1 DEF QueueInv, VaultInv, TypeOK, VaultState, Accounts, Assets
    <3> QED
      BY <3>1, <3>2 DEF Fulfillable
  <2> QED
    BY <1>1, <1>2, <1>3, <1>4, <2>1 DEF WithdrawAllowed, WithdrawAccounts, Fulfillable
<1>6. \E s \in Signers : FulfillWithdrawAccounts(s, r)
  BY <1>1, <1>4 DEF FulfillWithdrawAccounts, Fulfillable
<1>7. now >= Maturity(r) /\ now <= Deadline(r)
  <2>1. now \in Int /\ Maturity(r) \in Int /\ Deadline(r) \in Int
    BY DEF QueueInv, VaultInv, TypeOK, QueueTypes, WithdrawRequest, Maturity, Deadline
  <2> QED
    BY <2>1 DEF Fulfillable
<1> QED
  BY <1>5, <1>6, <1>7 DEF FoundSolver, FulfillAllowed

(* Whatever the assets' decimals, the inputs and the bounds, and however rate, *)
(* prices and settings move: once matured, a promise that neither the rate nor *)
(* the price has turned against can be paid, except for a pegged asset with   *)
(* more decimals than the shares (request_withdraw against the vault's        *)
(* withdraw, which truncate on their own).                                    *)
THEOREM QueuePromisesPayable == PromiseSpec => []PromisesPayable
<1>1. PromiseInit => QueueInit /\ PromiseInv
  <2> SUFFICES ASSUME PromiseInit PROVE QueueInit /\ PromiseInv
    OBVIOUS
  <2>1. QueueInit /\ requests = {} /\ quoted = [r \in {} |-> 0]
    BY DEF PromiseInit, QueueInit
  <2> QED
    BY <2>1 DEF PromiseInv
<1>2. [PromiseStep]_<<vars, quoted>> => [Next]_vars
  BY DEF PromiseStep, QuoteFor, RequestAt, Next, QueueStep, Request
<1>3. QueueInv /\ PromiseInv /\ [PromiseStep]_<<vars, quoted>> => PromiseInv'
  BY NextPromiseInv
<1>4. PromiseSpec => Spec
  BY <1>1, <1>2, PTL DEF PromiseSpec, Spec
<1>5. PromiseSpec => []PromiseInv
  BY <1>1, <1>3, <1>4, QueueInvariant, PTL DEF PromiseSpec
<1>6. QueueInv /\ PromiseInv /\ EscrowFacts!EscrowInv => PromisesPayable
  BY PromisePayable
<1> QED
  BY <1>4, <1>5, <1>6, QueueInvariant, EscrowFactsHold, PTL

=============================================================================
