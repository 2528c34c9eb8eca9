----------------------------- MODULE QueuePromise -----------------------------
(***************************************************************************)
(* What the queue's promises are worth.  A history variable keeps, for each *)
(* open request, the terms its promise was computed from, which the program *)
(* does not store; with them one can say when the promise should be payable. *)
(***************************************************************************)
EXTENDS BoringQueue

VARIABLE quoted  \* the terms each open request was quoted at

Terms(a, p) ==
  [rate   |-> teller.exchange_rate,
   pegged |-> assetData[a].is_pegged_to_base_asset,
   price  |-> OraclePrice(a, p)]

RequestAt(s, p) ==
  \E a \in Mints, n \in Amounts, d \in Discounts, t \in Deadlines :
    RequestWithdraw(s, a, n, d, t, p)

QuoteFor(s) ==
  \E p \in Prices :
    /\ RequestAt(s, p)
    /\ quoted' = [r \in requests' |->
                    IF r \in requests THEN quoted[r] ELSE Terms(r.asset_out, p)]

(* Every other step forgets the terms of the requests it closes. *)
KeepQuotes ==
  /\ requests' \subseteq requests
  /\ quoted' = [r \in requests' |-> quoted[r]]

PromiseInit == QueueInit /\ quoted = [r \in {} |-> 0]

PromiseStep == (\E s \in Signers : QuoteFor(s)) \/ (Next /\ KeepQuotes)

PromiseSpec == PromiseInit /\ [][PromiseStep]_<<vars, quoted>>

-----------------------------------------------------------------------------
(* Properties. *)

(* The circumstances in which a matured request should find a solver able to  *)
(* fulfil it: nothing is paused or disabled, the queue may withdraw, and the  *)
(* vault can pay for the burnt shares.                                        *)
Fulfillable(r, p) ==
  /\ now \in Maturity(r)..Deadline(r)
  /\ ~queue.paused
  /\ queue.solve_authority \in Signers \cup {NoKey}
  /\ teller.withdraw_authority \in {NoKey, QueuePda}
  /\ BeforeWithdraw(r.asset_out)
  /\ PayoutConvertible(r.asset_out, r.share_amount, p)
  /\ AssetsOut(r.asset_out, r.share_amount, p)
       <= tokens[r.asset_out][config.withdraw_sub_account]

FoundSolver(r, p) == \E s \in Signers : FulfillAllowed(s, r, p)

(* The rate has not fallen and the asset has not become dearer since.         *)
NoWorseThanQuoted(r, p) ==
  LET then == quoted[r]
      this == Terms(r.asset_out, p)
  IN  /\ this.rate >= then.rate
      /\ r.asset_out # BaseAsset =>
           /\ this.pegged = then.pegged
           /\ \/ this.pegged
              \/ this.price[1] * then.price[2] <= then.price[1] * this.price[2]

(* A pegged asset with more decimals than the share token: its scale does not *)
(* divide the shares'.                                                        *)
FinePegged(a) ==
  /\ a # BaseAsset
  /\ assetData[a].is_pegged_to_base_asset
  /\ ShareScale % AssetScale[a] # 0

(* A promise is never more than the vault's withdraw pays out, unless the     *)
(* rate or the price has since turned against it: a matured request can then  *)
(* be fulfilled.  Both programs compute and truncate on their own, one the    *)
(* rate quoted in the asset and the promise (request_withdraw), the other the *)
(* assets for the shares (withdraw).                                          *)
PromisesPayable ==
  \A r \in requests, p \in Prices :
    ~FinePegged(r.asset_out) /\ Fulfillable(r, p) /\ NoWorseThanQuoted(r, p)
      => FoundSolver(r, p)

(* The same of every asset, and only while the terms are those of the quote.  *)
UnchangedRateFulfillable ==
  \A r \in requests, p \in Prices :
    Fulfillable(r, p) /\ quoted[r] = Terms(r.asset_out, p) => FoundSolver(r, p)

=============================================================================
