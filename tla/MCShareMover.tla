----------------------------- MODULE MCShareMover -----------------------------
(***************************************************************************)
(* TLC instance: one vault, its mover, one other chain with coarser         *)
(* amounts, two endpoint programs, one user, a stranger on the other chain. *)
(***************************************************************************)
EXTENDS ShareMover

CONSTANTS boss, alice, moverpda, usdc, sol, nobody, ep1, ep2, app, stranger, zeros

MCSigners == {boss, alice}
MCPdas    == {moverpda}
MCMints   == {usdc}
MCAssetScale == [a \in {usdc, sol} |-> 2]
MCInitialTokens ==
  [a \in {usdc, sol} |-> [k \in Signers \cup Pdas \cup SubAccounts |->
     IF k = alice /\ a = usdc THEN 6 ELSE 0]]
MCDeployArgs ==
  {[authority |-> boss, exchange_rate_provider |-> boss, exchange_rate |-> 2,
    payout_address |-> boss, upper_bound |-> 12000, lower_bound |-> 8000,
    minimum_update_delay |-> 0, platform_fee_bps |-> 0,
    performance_fee_bps |-> 0, withdraw_authority |-> NoKey, strategist |-> boss]}
MCAssetDatas ==
  {[initialized |-> TRUE, allow_deposits |-> TRUE, allow_withdrawals |-> TRUE,
    share_premium_bps |-> 0, is_pegged_to_base_asset |-> FALSE,
    inverse_price_feed |-> FALSE, has_feed |-> FALSE]}

MCRemoteMover == [e \in Eids |-> app]
MCPeerInputs  == [e \in Eids |-> {app, zeros}]
MCMoverArgs ==
  {[admin |-> alice, endpoint_program |-> ep1, peer_scale |-> 1,
    peer_chain |-> "Evm", outbound |-> <<0, 0>>, inbound |-> <<2, 1>>]}
MCLimitSettings == {<<<<3, 2>>, <<0, 0>>>>}

(* The vault is funded by one deposit and names the mover's PDA, the mover is *)
(* deployed and handed over to its last administrator, before all else.       *)
Ready == mover.admin = boss

BridgeSetup ==
  \/ /\ \/ Setup
        \/ Deployed /\ \E data \in AssetDatas : UpdateAssetData(boss, usdc, data)
        \/ Deposit(alice, usdc, 6, 0, <<1, 1>>)
        \/ supply > 0 /\ SetShareMover(boss, MoverPda)
     /\ UNCHANGED <<moverVars, remoteVars>>
  \/ config.share_mover = MoverPda /\ MoverSetup
  \/ TransferMoverAuthority(alice, boss) \/ AcceptMoverAuthority(boss)

BridgeOps ==
  \/ /\ Pause(boss) \/ Unpause(boss) \/ Tick
     /\ UNCHANGED <<moverVars, remoteVars>>
  \/ \E b \in BOOLEAN : SetMoverPause(boss, b) \/ SetAllow(boss, b, TRUE)
  \/ \E p \in Endpoints : SetEndpointProgram(boss, p)
  \/ \E l \in LimitSettings : SetRateLimit(boss, l[1], l[2])
  \/ \E e \in Eids : \/ \E address \in PeerInputs[e] : SetPeerAddress(boss, e, address)
                     \/ SetEnforcedOptions(boss, e)
                     \/ ClosePeer(boss, e)
  \/ \E n \in {1, 3} : \E e \in Eids, address \in AnyAddress, extra \in OptionKinds :
       Send(alice, e, address, n, extra)
  \/ Executor
  \/ \E p \in outbound : PacketArrives(p)
  \/ \E e \in Eids, endpoint \in Endpoints :
       RemoteSends(e, endpoint, alice, 1)
  \/ \E e \in Eids : StrangerSends(e, ep1, stranger, alice, 3)

BridgeNext == (~Ready /\ BridgeSetup) \/ (Ready /\ BridgeOps)

MoverSpec == MoverInit /\ [][BridgeNext]_vars

FairMoverSpec == MoverSpec /\ Fairness

=============================================================================
