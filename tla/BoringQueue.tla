----------------------------- MODULE BoringQueue -----------------------------
(***************************************************************************)
(* The boring-onchain-queue program on top of the vault it serves.          *)
(*                                                                          *)
(* A user hands shares to the queue's PDA and is promised an amount of an   *)
(* asset, priced at the vault's rate of that moment.  Once the request has  *)
(* matured a solver may fulfil it, which calls the vault's withdraw signed  *)
(* by the PDA; once the deadline has passed the user may take the shares    *)
(* back.  Programs call each other within one transaction, so a queue       *)
(* instruction and the vault instruction it calls are one step.             *)
(***************************************************************************)
EXTENDS BoringVault

CONSTANTS
  QueuePda,               \* the queue's share and asset holder
  WithdrawAssetSettings,  \* inputs of update_withdraw_asset_data
  Discounts,              \* discounts users ask for, in bps
  Deadlines,              \* seconds_to_deadline users ask for
  MaxDays                 \* MAXIMUM_DEADLINE and MAXIMUM_MATURITY, both 90 days

VARIABLES
  queueProgram,       \* the queue's ProgramConfig
  queue,              \* QueueState
  withdrawAssetData,  \* the WithdrawAssetData account of each mint
  lastNonce,          \* UserWithdrawState of each user, NoState if not set up
  requests            \* the open WithdrawRequest accounts

queueVars == <<queueProgram, queue, withdrawAssetData, lastNonce, requests>>
vars      == <<vaultVars, queueVars>>

NoState == -1

QueueState == [deployed: BOOLEAN, authority: KeyOrDefault,
               solve_authority: KeyOrDefault, paused: BOOLEAN]

WithdrawAssetData ==
  [allow_withdrawals: BOOLEAN, seconds_to_maturity: Nat,
   minimum_seconds_to_deadline: Nat, minimum_discount: Nat,
   maximum_discount: Nat, minimum_shares: Nat]

WithdrawRequest ==
  [user: Signers, nonce: Nat, asset_out: Mints, share_amount: Nat,
   asset_amount: Nat, creation_time: Nat, seconds_to_maturity: Nat,
   seconds_to_deadline: Nat]

MaxDiscount == 1000

ASSUME QueueAssumption ==
  /\ QueuePda \in Pdas
  /\ WithdrawAssetSettings \subseteq WithdrawAssetData
  /\ Discounts \subseteq Nat
  /\ Deadlines \subseteq Nat
  /\ MaxDays \in Nat

-----------------------------------------------------------------------------

QueueInit ==
  /\ Init
  /\ queueProgram = [initialized |-> FALSE, authority |-> NoKey]
  /\ queue = [deployed |-> FALSE, authority |-> NoKey,
              solve_authority |-> NoKey, paused |-> FALSE]
  /\ withdrawAssetData = [a \in Mints |->
       [allow_withdrawals |-> FALSE, seconds_to_maturity |-> 0,
        minimum_seconds_to_deadline |-> 0, minimum_discount |-> 0,
        maximum_discount |-> 0, minimum_shares |-> 0]]
  /\ lastNonce = [s \in Signers |-> NoState]
  /\ requests = {}

(* The authority may be the default key: then no queue is ever deployed. *)
InitializeQueue(authority) ==
  /\ ~queueProgram.initialized
  /\ queueProgram' = [initialized |-> TRUE, authority |-> authority]
  /\ UNCHANGED <<vaultVars, queue, withdrawAssetData, lastNonce, requests>>

(* The one share mint in the model is the one deploy derives and checks. *)
DeployQueue(s, authority, solver) ==
  /\ s \in Signers
  /\ s = queueProgram.authority
  /\ ~queue.deployed
  /\ queue' = [deployed |-> TRUE, authority |-> authority,
               solve_authority |-> solver, paused |-> FALSE]
  /\ UNCHANGED <<vaultVars, queueProgram, withdrawAssetData, lastNonce, requests>>

-----------------------------------------------------------------------------
(* Admin functions. *)

QueueAuthorityOnly(s) == queue.deployed /\ s \in Signers /\ s = queue.authority

SetQueue(newQueue) ==
  /\ queue' = newQueue
  /\ UNCHANGED <<vaultVars, queueProgram, withdrawAssetData, lastNonce, requests>>

SetSolveAuthority(s, solver) ==
  QueueAuthorityOnly(s) /\ SetQueue([queue EXCEPT !.solve_authority = solver])

PauseQueue(s) == QueueAuthorityOnly(s) /\ SetQueue([queue EXCEPT !.paused = TRUE])

UnpauseQueue(s) == QueueAuthorityOnly(s) /\ SetQueue([queue EXCEPT !.paused = FALSE])

UpdateWithdrawAssetData(s, a, data) ==
  /\ QueueAuthorityOnly(s)
  /\ data.minimum_seconds_to_deadline <= MaxDays
  /\ data.seconds_to_maturity <= MaxDays
  /\ data.maximum_discount > data.minimum_discount
  /\ data.maximum_discount <= MaxDiscount
  /\ withdrawAssetData' = [withdrawAssetData EXCEPT ![a] = data]
  /\ UNCHANGED <<vaultVars, queueProgram, queue, lastNonce, requests>>

-----------------------------------------------------------------------------
(* User functions. *)

SetupUserWithdrawState(s) ==
  /\ lastNonce[s] = NoState
  /\ lastNonce' = [lastNonce EXCEPT ![s] = 0]
  /\ UNCHANGED <<vaultVars, queueProgram, queue, withdrawAssetData, requests>>

Maturity(r) == r.creation_time + r.seconds_to_maturity
Deadline(r) == Maturity(r) + r.seconds_to_deadline

(* Bound: only requests that expire within the modelled time are made. *)
ExpiresInTime(r) == Deadline(r) < MaxTime

(* The request account lives at the address of (user, nonce), created once. *)
RequestWithdrawAccounts(s, a) ==
  /\ queue.deployed
  /\ ~queue.paused
  /\ withdrawAssetData[a].allow_withdrawals
  /\ lastNonce[s] # NoState
  /\ \A r \in requests : <<r.user, r.nonce>> # <<s, lastNonce[s]>>
  /\ Deployed

RequestTermsOk(a, shareAmount, discount, seconds) ==
  /\ discount >= withdrawAssetData[a].minimum_discount
  /\ discount <= withdrawAssetData[a].maximum_discount
  /\ shareAmount >= withdrawAssetData[a].minimum_shares
  /\ seconds >= withdrawAssetData[a].minimum_seconds_to_deadline
  /\ seconds <= MaxDays

(* A variant that leaves the nonce where it was. *)
NonceKept(s) == lastNonce

NonceAdvanced(s) == [lastNonce EXCEPT ![s] = @ + 1]

RequestWithdraw(s, a, shareAmount, discount, seconds, p) ==
  LET promised == PromisedAssets(shareAmount, RateInQuote(a, p), discount)
      request  == [user |-> s, nonce |-> lastNonce[s], asset_out |-> a,
                   share_amount |-> shareAmount, asset_amount |-> promised,
                   creation_time |-> now,
                   seconds_to_maturity |-> withdrawAssetData[a].seconds_to_maturity,
                   seconds_to_deadline |-> seconds]
  IN  /\ RequestWithdrawAccounts(s, a)
      /\ RequestTermsOk(a, shareAmount, discount, seconds)
      /\ shares[s] >= shareAmount
      /\ RateInQuoteSafe(a, p)
      /\ promised <= MaxU64
      /\ ExpiresInTime(request)
      /\ shares' = [shares EXCEPT ![s] = @ - shareAmount, ![QueuePda] = @ + shareAmount]
      /\ requests' = requests \cup {request}
      /\ lastNonce' = NonceAdvanced(s)
      /\ UNCHANGED <<adminVars, supply, tokens, now, queueProgram, queue, withdrawAssetData>>

(* A variant that the queue's pause holds up. *)
CancelBlockedByPause(s, r) ==
  /\ r \in requests
  /\ r.user = s
  /\ queue.deployed
  /\ ~queue.paused
  /\ now > Deadline(r)
  /\ shares[QueuePda] >= r.share_amount

(* No pause, of the queue or of the vault, stands in the way of a cancel. *)
CancelAllowed(s, r) ==
  /\ r \in requests
  /\ r.user = s
  /\ queue.deployed
  /\ now > Deadline(r)
  /\ shares[QueuePda] >= r.share_amount

(* A variant that returns the shares and leaves the request open. *)
CancelLeavesOpen(s, r) ==
  /\ CancelAllowed(s, r)
  /\ shares' = [shares EXCEPT ![QueuePda] = @ - r.share_amount, ![s] = @ + r.share_amount]
  /\ UNCHANGED <<adminVars, supply, tokens, now, queueVars>>

CancelWithdraw(s, r) ==
  /\ CancelAllowed(s, r)
  /\ shares' = [shares EXCEPT ![QueuePda] = @ - r.share_amount, ![s] = @ + r.share_amount]
  /\ requests' = requests \ {r}
  /\ UNCHANGED <<adminVars, supply, tokens, now, queueProgram, queue,
                 withdrawAssetData, lastNonce>>

-----------------------------------------------------------------------------
(* Solver functions. *)

FulfillWithdrawAccounts(solver, r) ==
  /\ r \in requests
  /\ queue.deployed
  /\ ~queue.paused
  /\ queue.solve_authority = NoKey \/ solver = queue.solve_authority

FulfillAllowed(solver, r, p) ==
  /\ FulfillWithdrawAccounts(solver, r)
  /\ now >= Maturity(r)
  /\ now <= Deadline(r)
  /\ WithdrawAllowed(QueuePda, r.asset_out, r.share_amount, r.asset_amount, p)

(* A variant that keeps the excess in the queue. *)
ExcessKept(balance, user, out, promised) ==
  Move(Move(balance, config.withdraw_sub_account, QueuePda, out), QueuePda, user, promised)

(* The vault pays the queue, the queue pays the user what was promised and   *)
(* returns the excess to the sub-account it came from.                       *)
PayThroughQueue(balance, user, out, promised) ==
  LET withdrawn == Move(balance, config.withdraw_sub_account, QueuePda, out)
      paid      == Move(withdrawn, QueuePda, user, promised)
  IN  Move(paid, QueuePda, config.withdraw_sub_account, out - promised)

FulfillWithdraw(solver, r, p) ==
  /\ FulfillAllowed(solver, r, p)
  /\ BurnFrom(QueuePda, r.share_amount)
  /\ tokens' = [tokens EXCEPT ![r.asset_out] =
       PayThroughQueue(@, r.user, AssetsOut(r.asset_out, r.share_amount, p), r.asset_amount)]
  /\ requests' = requests \ {r}
  /\ UNCHANGED <<adminVars, now, queueProgram, queue, withdrawAssetData, lastNonce>>

-----------------------------------------------------------------------------

QueueAdminStep(s) ==
  \/ \E k, solver \in AdminKeys : DeployQueue(s, k, solver)
  \/ \E k \in AdminKeys : SetSolveAuthority(s, k)
  \/ PauseQueue(s)
  \/ UnpauseQueue(s)
  \/ \E a \in Mints, data \in WithdrawAssetSettings : UpdateWithdrawAssetData(s, a, data)

Request(s) ==
  \E a \in Mints, n \in Amounts, d \in Discounts, t \in Deadlines, p \in Prices :
    RequestWithdraw(s, a, n, d, t, p)

QueueStep ==
  \/ \E k \in AdminKeys : InitializeQueue(k)
  \/ \E s \in Signers :
       \/ QueueAdminStep(s)
       \/ SetupUserWithdrawState(s)
       \/ Request(s)
       \/ \E r \in requests : CancelWithdraw(s, r)
       \/ \E r \in requests, p \in Prices : FulfillWithdraw(s, r, p)

Next == (VaultStep /\ UNCHANGED queueVars) \/ QueueStep

Spec == QueueInit /\ [][Next]_vars

-----------------------------------------------------------------------------

QueueTypeOK ==
  /\ TypeOK
  /\ queueProgram \in [initialized: BOOLEAN, authority: KeyOrDefault]
  /\ queue \in QueueState
  /\ withdrawAssetData \in [Mints -> WithdrawAssetData]
  /\ lastNonce \in [Signers -> Nat \cup {NoState}]
  /\ requests \subseteq WithdrawRequest

-----------------------------------------------------------------------------
(* Properties. *)

(* The queue seen as a share escrow: its open requests, their nonces and the  *)
(* shares its PDA holds, without prices, pauses, deadlines and solvers.       *)
ClaimOf(r) == [user |-> r.user, number |-> r.nonce, amount |-> r.share_amount]

Escrow == INSTANCE ShareEscrow WITH
  Users <- Signers,
  open  <- {ClaimOf(r) : r \in requests},
  next  <- [s \in Signers |-> IF lastNonce[s] = NoState THEN 0 ELSE lastNonce[s]],
  held  <- shares[QueuePda]

(* Every run of the queue and the vault together is a run of the escrow: a    *)
(* request is opened once under a (user, nonce) that is never used again, it  *)
(* is closed once, by cancel_withdraw or fulfill_withdraw, and takes exactly  *)
(* its own shares out; nothing else takes shares from the PDA.                *)
EscrowSpec == Escrow!Spec

(* The PDA holds at least the shares of all open requests together, so that   *)
(* closing one never spends the shares of another (request_withdraw,          *)
(* cancel_withdraw, fulfill_withdraw and the burn in the vault's withdraw).   *)
EscrowBacked == Escrow!Backed

(* Once its deadline has passed a request can be cancelled by its user at     *)
(* once, whatever the authorities of the queue and of the vault have paused,  *)
(* changed or handed over since.                                              *)
ExpiredIsRecoverable ==
  \A r \in requests : now > Deadline(r) => CancelAllowed(r.user, r)

(* How a request may end: its shares come back after the deadline, or, within *)
(* the window, its shares are burnt and its user is paid the promised amount  *)
(* to the unit, of which the queue keeps nothing and spends nothing.          *)
SharesReturned(r) ==
  /\ now > Deadline(r)
  /\ shares'[r.user] = shares[r.user] + r.share_amount
  /\ UNCHANGED <<supply, tokens>>

PromisePaid(r) ==
  /\ now \in Maturity(r)..Deadline(r)
  /\ supply' = supply - r.share_amount
  /\ tokens'[r.asset_out][r.user] = tokens[r.asset_out][r.user] + r.asset_amount
  /\ tokens'[r.asset_out][QueuePda] = tokens[r.asset_out][QueuePda]

(* A request ends in one of these two ways, whatever happened to the exchange *)
(* rate, the asset's data and the vault's settings since it was made          *)
(* (fulfill_withdraw with the withdraw it calls, cancel_withdraw).            *)
RequestsEndInOneWay ==
  [][\A r \in requests :
       r \in requests' \/ SharesReturned(r) \/ PromisePaid(r)]_vars

-----------------------------------------------------------------------------
(* Liveness: the clock goes on, and a user who can cancel something does.     *)
(* Nothing is assumed of the authorities, the solvers and the vault.          *)

Fairness ==
  /\ WF_vars(Tick /\ UNCHANGED queueVars)
  /\ \A s \in Signers : WF_vars(\E r \in requests : CancelWithdraw(s, r))

Outstanding(s, n) == \E r \in requests : r.user = s /\ r.nonce = n

(* No share stays in the queue for ever: every request is closed in the end,  *)
(* even if both programs stay paused and no solver ever comes.                *)
EveryRequestCloses ==
  \A s \in Signers, n \in 0..MaxTime : Outstanding(s, n) ~> ~Outstanding(s, n)

=============================================================================
