--------------------------- MODULE ShareMover_proofs ---------------------------
(***************************************************************************)
(* Theorems about the share mover, the vault and the bridge they make, for  *)
(* every set of chains, endpoints and addresses, every pair of decimals and *)
(* every bound.  The inductive invariant adds to the types, the vault's     *)
(* among them, that a peer is the chain's share mover or nobody, that       *)
(* packets and payloads are told apart by their nonces, and that nothing is *)
(* under way before the mover is deployed, when its decimals are set.       *)
(***************************************************************************)
EXTENDS ShareMover, BoringVault_proofs

-----------------------------------------------------------------------------
(* Types of the rate limiters. *)

LEMMA LimitElapsedType ==
  ASSUME NEW rl \in Limit!RateLimitState, NEW ts \in Nat
  PROVE  Limit!Elapsed(rl, ts) \in Nat
<1>1. rl.last_updated \in Nat /\ MaxU64 + 1 \in Nat \ {0}
  BY BoundsAssumption DEF Limit!RateLimitState
<1> DEFINE d == ts - rl.last_updated
<1>2. d \in Int
  BY <1>1
<1> HIDE DEF d
<1>3. d % (MaxU64 + 1) \in Nat
  BY <1>1, <1>2
<1>4. Limit!AsU64(d) \in Nat
  BY <1>2, <1>3 DEF Limit!AsU64
<1> QED
  BY <1>4 DEF Limit!Elapsed, d

LEMMA LimitInFlightType ==
  ASSUME NEW rl \in Limit!RateLimitState, NEW ts \in Nat
  PROVE  Limit!InFlight(rl, ts) \in Nat
<1>1. /\ rl.amount_in_flight \in Nat /\ rl.limit \in Nat /\ rl.window \in Nat
      /\ Limit!Elapsed(rl, ts) \in Nat
  BY LimitElapsedType DEF Limit!RateLimitState
<1>2. CASE Limit!WindowOver(rl, ts)
  BY <1>2 DEF Limit!InFlight
<1>3. CASE ~Limit!WindowOver(rl, ts)
  <2>1. rl.window \in Nat \ {0}
    BY <1>1, <1>3 DEF Limit!WindowOver
  <2>2. rl.limit * Limit!Elapsed(rl, ts) \in Nat
    BY <1>1
  <2>3. Limit!Decay(rl, ts) \in Nat
    BY <2>1, <2>2 DEF Limit!Decay
  <2> QED
    BY <1>1, <1>3, <2>3 DEF Limit!InFlight, Limit!SaturatingSub
<1> QED
  BY <1>2, <1>3

LEMMA LimitTypes ==
  ASSUME NEW rl \in Limit!RateLimitState, NEW ts \in Nat, NEW n \in Nat,
         NEW limit \in Nat, NEW window \in Nat
  PROVE  /\ Limit!Consume(rl, n, ts) \in Limit!RateLimitState
         /\ Limit!NewLimit(limit, window, ts) \in Limit!RateLimitState
         /\ Limit!CarriedOver(rl, limit, window, ts) \in Limit!RateLimitState
<1> DEFINE counted == Limit!InFlight(rl, ts)
<1>1. counted \in Nat /\ counted + n \in Nat
  BY LimitInFlightType
<1>2. Limit!Consume(rl, n, ts) \in Limit!RateLimitState
  <2>1. CASE rl.limit = 0
    BY <2>1 DEF Limit!Consume
  <2>2. CASE rl.limit # 0
    <3>1. Limit!Consume(rl, n, ts)
            = [rl EXCEPT !.amount_in_flight = counted + n, !.last_updated = ts]
      BY <2>2 DEF Limit!Consume
    <3> HIDE DEF counted
    <3> QED
      BY <1>1, <3>1 DEF Limit!RateLimitState
  <2> QED
    BY <2>1, <2>2
<1>3. Limit!NewLimit(limit, window, ts) \in Limit!RateLimitState
  BY DEF Limit!NewLimit, Limit!RateLimitState
<1>4. Limit!CarriedOver(rl, limit, window, ts) \in Limit!RateLimitState
  <2>1. Limit!CarriedOver(rl, limit, window, ts)
          = [Limit!NewLimit(limit, window, ts) EXCEPT !.amount_in_flight = counted]
    BY DEF Limit!CarriedOver
  <2> HIDE DEF counted
  <2> QED
    BY <1>1, <1>3, <2>1 DEF Limit!RateLimitState
<1> QED
  BY <1>2, <1>3, <1>4

-----------------------------------------------------------------------------
(* The invariant. *)

PeersTrusted == \A e \in Eids : peers[e].peer_address \in {RemoteMover[e], NoAddress}

NoncesTellApart ==
  /\ \A p \in outbound : p.nonce <= sent
  /\ \A p \in inbound : p.nonce <= returned
  /\ \A p, q \in outbound : p.nonce = q.nonce => p = q
  /\ \A p, q \in inbound : p.nonce = q.nonce => p = q

NothingBeforeDeployment ==
  ~mover.deployed => /\ outbound = {}
                     /\ \A p \in inbound : ~Authentic(p)
                     /\ \A e \in Eids : abroad[e] = 0 /\ bridged[e] = 0

MoverInv ==
  /\ VaultInv /\ RolesInv
  /\ MoverTypeOK
  /\ PeersTrusted
  /\ NoncesTellApart
  /\ NothingBeforeDeployment

LEMMA InitMoverInv == MoverInit => MoverInv
<1> SUFFICES ASSUME MoverInit PROVE MoverInv
  OBVIOUS
<1>1. VaultInv /\ RolesInv
  BY InitVaultInv, InitRoles DEF MoverInit
<1>2. Limit!NewLimit(0, 0, 0) \in Limit!RateLimitState
  BY DEF Limit!NewLimit, Limit!RateLimitState
<1>3. mover \in ShareMoverState
  BY <1>2 DEF MoverInit, ShareMoverState, KeyOrDefault, AnyEndpoint, PeerChains
<1>4. peers \in [Eids -> PeerConfig] /\ PeersTrusted
  BY DEF MoverInit, Closed, PeerConfig, AnyAddress, PeersTrusted
<1>5. moverProgram \in [initialized: BOOLEAN, authority: KeyOrDefault]
  BY DEF MoverInit, KeyOrDefault
<1>6. outbound \subseteq Packet /\ inbound \subseteq Payload
        /\ sent \in 0..MaxMessages /\ returned \in 0..MaxMessages
        /\ abroad \in [Eids -> Nat] /\ bridged \in [Eids -> Int]
  BY MoverAssumption DEF MoverInit
<1>7. MoverTypeOK
  BY <1>1, <1>3, <1>4, <1>5, <1>6 DEF MoverTypeOK, VaultInv
<1>8. NoncesTellApart /\ NothingBeforeDeployment
  BY DEF MoverInit, NoncesTellApart, NothingBeforeDeployment
<1> QED
  BY <1>1, <1>4, <1>7, <1>8 DEF MoverInv

-----------------------------------------------------------------------------
(* The vault's part of each step. *)

LEMMA MoverStepsVault ==
  ASSUME MoverInv, [Next]_vars
  PROVE  VaultInv' /\ RolesInv'
<1>1. CASE VaultStep
  BY <1>1, VaultStepInv DEF MoverInv
<1>2. CASE UNCHANGED vaultVars
  BY <1>2, VaultStepInv DEF MoverInv
<1>3. ASSUME NEW s \in Signers, NEW n \in Amounts, BurnShares(MoverPda, s, n)
      PROVE  VaultInv' /\ RolesInv'
  <2>1. VaultInv'
    BY <1>3, InputsAssumption, BridgeInv DEF MoverInv
  <2> QED
    BY <1>3, <2>1, RolesKept DEF MoverInv, BurnShares, adminVars
<1>4. ASSUME NEW p \in inbound, LzReceive(p) PROVE VaultInv' /\ RolesInv'
  <2>1. p.recipient \in Keys /\ p.amount \in Nat
    BY <1>4 DEF MoverInv, MoverTypeOK, Payload, LzReceive, KeyOrDefault
  <2>2. MintShares(MoverPda, p.recipient, p.amount)
    BY <1>4 DEF LzReceive
  <2>3. VaultInv'
    BY <2>1, <2>2, BridgeInv DEF MoverInv
  <2> QED
    BY <2>2, <2>3, RolesKept DEF MoverInv, MintShares, adminVars
<1>5. ASSUME NEW s \in Signers, UserSends(s) PROVE VaultInv' /\ RolesInv'
  BY <1>3, <1>5 DEF UserSends, Send
<1>6. ASSUME MoverSetup PROVE UNCHANGED vaultVars
  BY <1>6 DEF MoverSetup, InitializeMover, DeployMover
<1>7. ASSUME NEW s \in Signers, MoverAdminister(s) PROVE UNCHANGED vaultVars
  BY <1>7 DEF MoverAdminister, SetMoverPause, SetAllow, SetEndpointProgram, SetRateLimit,
     TransferMoverAuthority, AcceptMoverAuthority, SetPeerAddress, SetEnforcedOptions,
     ClosePeer, SetMover, SetPeers
<1>8. ASSUME OtherChains PROVE UNCHANGED vaultVars
  BY <1>8 DEF OtherChains, PacketArrives, RemoteSends, StrangerSends
<1>9. CASE UNCHANGED vars
  BY <1>2, <1>9 DEF vars
<1> QED
  BY <1>1, <1>2, <1>4, <1>5, <1>6, <1>7, <1>8, <1>9 DEF Next, Executor

-----------------------------------------------------------------------------
(* Deployment and administration. *)

LEMMA NowIsNat == ASSUME VaultInv PROVE now \in Nat
BY BoundsAssumption DEF VaultInv, TypeOK

(* A step that changes the mover's settings, but not its decimals. *)
LEMMA SetMoverInv ==
  ASSUME MoverInv, VaultInv', RolesInv', NEW m \in ShareMoverState, SetMover(m),
         m.deployed = mover.deployed, m.peer_scale = mover.peer_scale
  PROVE  MoverInv'
<1>1. MoverTypeOK'
  BY DEF SetMover, MoverInv, MoverTypeOK, remoteVars, VaultInv
<1> QED
  BY <1>1 DEF SetMover, MoverInv, PeersTrusted, NoncesTellApart, NothingBeforeDeployment,
     Authentic, remoteVars

LEMMA SetPeersInv ==
  ASSUME MoverInv, VaultInv', RolesInv', NEW e \in Eids, NEW peer \in PeerConfig,
         peer.peer_address \in {RemoteMover[e], NoAddress},
         SetPeers([peers EXCEPT ![e] = peer])
  PROVE  MoverInv'
<1>1. MoverTypeOK'
  BY DEF SetPeers, MoverInv, MoverTypeOK, remoteVars, VaultInv
<1>2. PeersTrusted'
  BY DEF SetPeers, MoverInv, MoverTypeOK, PeersTrusted
<1> QED
  BY <1>1, <1>2 DEF SetPeers, MoverInv, NoncesTellApart, NothingBeforeDeployment,
     Authentic, remoteVars

LEMMA MoverSetupInv ==
  ASSUME MoverInv, VaultInv', RolesInv', MoverSetup
  PROVE  MoverInv'
<1>1. ASSUME NEW k \in AdminKeys, InitializeMover(k) PROVE MoverInv'
  <2>1. MoverTypeOK'
    BY <1>1, InputsAssumption DEF InitializeMover, MoverInv, MoverTypeOK, remoteVars, VaultInv
  <2> QED
    BY <1>1, <2>1 DEF InitializeMover, MoverInv, PeersTrusted, NoncesTellApart,
       NothingBeforeDeployment, Authentic, remoteVars
<1>2. ASSUME NEW s \in Signers, NEW args \in MoverArgs, DeployMover(s, args) PROVE MoverInv'
  <2>1. args \in MoverArgsType /\ now \in Nat
    BY MoverAssumption, NowIsNat DEF MoverInv
  <2>2. /\ Limit!NewLimit(args.outbound[1], args.outbound[2], now) \in Limit!RateLimitState
        /\ Limit!NewLimit(args.inbound[1], args.inbound[2], now) \in Limit!RateLimitState
    <3>1. /\ args.outbound[1] \in Nat /\ args.outbound[2] \in Nat
          /\ args.inbound[1] \in Nat /\ args.inbound[2] \in Nat
      BY <2>1 DEF MoverArgsType
    <3> QED
      BY <2>1, <3>1 DEF Limit!NewLimit, Limit!RateLimitState
  <2>3. mover' \in ShareMoverState
    BY <1>2, <2>1, <2>2 DEF DeployMover, MoverArgsType, ShareMoverState, AnyEndpoint,
       KeyOrDefault
  <2>4. MoverTypeOK'
    BY <1>2, <2>3 DEF DeployMover, MoverInv, MoverTypeOK, remoteVars, VaultInv
  <2> QED
    BY <1>2, <2>4 DEF DeployMover, MoverInv, PeersTrusted, NoncesTellApart,
       NothingBeforeDeployment, Authentic, remoteVars
<1> QED
  BY <1>1, <1>2 DEF MoverSetup

LEMMA MoverAdministerInv ==
  ASSUME MoverInv, VaultInv', RolesInv', NEW s \in Signers, MoverAdminister(s)
  PROVE  MoverInv'
<1>0. mover \in ShareMoverState /\ peers \in [Eids -> PeerConfig] /\ now \in Nat
  BY NowIsNat DEF MoverInv, MoverTypeOK
<1>1. ASSUME NEW b \in BOOLEAN, SetMoverPause(s, b) PROVE MoverInv'
  <2>1. [mover EXCEPT !.is_paused = b] \in ShareMoverState
    BY <1>0 DEF ShareMoverState
  <2> QED
    BY <1>0, <1>1, <2>1, SetMoverInv DEF SetMoverPause, ShareMoverState
<1>2. ASSUME NEW from \in BOOLEAN, NEW to \in BOOLEAN, SetAllow(s, from, to) PROVE MoverInv'
  <2>1. [mover EXCEPT !.allow_from = from, !.allow_to = to] \in ShareMoverState
    BY <1>0 DEF ShareMoverState
  <2> QED
    BY <1>0, <1>2, <2>1, SetMoverInv DEF SetAllow, ShareMoverState
<1>3. ASSUME NEW endpoint \in AnyEndpoint, SetEndpointProgram(s, endpoint) PROVE MoverInv'
  <2>1. [mover EXCEPT !.endpoint_program = endpoint] \in ShareMoverState
    BY <1>0 DEF ShareMoverState
  <2> QED
    BY <1>0, <1>3, <2>1, SetMoverInv DEF SetEndpointProgram, ShareMoverState
<1>4. ASSUME NEW l \in LimitSettings, SetRateLimit(s, l[1], l[2]) PROVE MoverInv'
  <2> DEFINE out == Limit!CarriedOver(mover.outbound_rate_limit, l[1][1], l[1][2], now)
  <2> DEFINE in == Limit!CarriedOver(mover.inbound_rate_limit, l[2][1], l[2][2], now)
  <2>1. out \in Limit!RateLimitState /\ in \in Limit!RateLimitState
    <3>1. /\ l[1][1] \in Nat /\ l[1][2] \in Nat /\ l[2][1] \in Nat /\ l[2][2] \in Nat
          /\ mover.outbound_rate_limit \in Limit!RateLimitState
          /\ mover.inbound_rate_limit \in Limit!RateLimitState
      BY <1>0, MoverAssumption DEF ShareMoverState
    <3> QED
      BY <1>0, <3>1, LimitTypes
  <2>2. SetMover([mover EXCEPT !.outbound_rate_limit = out, !.inbound_rate_limit = in])
    BY <1>4 DEF SetRateLimit
  <2> HIDE DEF out, in
  <2>3. [mover EXCEPT !.outbound_rate_limit = out, !.inbound_rate_limit = in]
          \in ShareMoverState
    BY <1>0, <2>1 DEF ShareMoverState
  <2> QED
    BY <1>0, <2>2, <2>3, SetMoverInv DEF ShareMoverState
<1>5. ASSUME NEW k \in AdminKeys, TransferMoverAuthority(s, k) PROVE MoverInv'
  <2>1. [mover EXCEPT !.pending_admin = k] \in ShareMoverState
    BY <1>0, InputsAssumption DEF ShareMoverState
  <2> QED
    BY <1>0, <1>5, <2>1, SetMoverInv DEF TransferMoverAuthority, ShareMoverState
<1>6. CASE AcceptMoverAuthority(s)
  <2>1. [mover EXCEPT !.admin = s, !.pending_admin = NoKey] \in ShareMoverState
    BY <1>0 DEF ShareMoverState, KeyOrDefault, Keys
  <2> QED
    BY <1>0, <1>6, <2>1, SetMoverInv DEF AcceptMoverAuthority, ShareMoverState
<1>7. ASSUME NEW e \in Eids, NEW address \in PeerInputs[e], SetPeerAddress(s, e, address)
      PROVE  MoverInv'
  <2> DEFINE peer == [peers[e] EXCEPT !.open = TRUE, !.peer_address = address]
  <2>1. address \in {RemoteMover[e], NoAddress} /\ address \in AnyAddress
    BY MoverAssumption DEF AnyAddress
  <2>2. peer \in PeerConfig /\ peer.peer_address = address
    BY <1>0, <2>1 DEF PeerConfig
  <2>3. SetPeers([peers EXCEPT ![e] = peer])
    BY <1>0, <1>7 DEF SetPeerAddress, PeerConfig
  <2> QED
    BY <2>1, <2>2, <2>3, SetPeersInv
<1>8. ASSUME NEW e \in Eids, SetEnforcedOptions(s, e) PROVE MoverInv'
  <2> DEFINE peer == [peers[e] EXCEPT !.open = TRUE, !.enforced_options = TRUE]
  <2>1. peer \in PeerConfig /\ peer.peer_address = peers[e].peer_address
    BY <1>0 DEF PeerConfig
  <2>2. SetPeers([peers EXCEPT ![e] = peer])
    BY <1>0, <1>8 DEF SetEnforcedOptions, PeerConfig
  <2> QED
    BY <2>1, <2>2, SetPeersInv DEF MoverInv, PeersTrusted
<1>9. ASSUME NEW e \in Eids, ClosePeer(s, e) PROVE MoverInv'
  <2>1. Closed \in PeerConfig /\ Closed.peer_address = NoAddress
    BY DEF Closed, PeerConfig, AnyAddress
  <2> QED
    BY <1>9, <2>1, SetPeersInv DEF ClosePeer
<1> QED
  BY <1>1, <1>2, <1>3, <1>4, <1>5, <1>6, <1>7, <1>8, <1>9 DEF MoverAdminister

-----------------------------------------------------------------------------
(* Messages out and home. *)

LEMMA ScalesType ==
  ASSUME MoverInv
  PROVE  mover.peer_scale \in Nat \ {0} /\ ShareScale \in Nat \ {0}
BY ShareScaleAssumption DEF MoverInv, MoverTypeOK, ShareMoverState

LEMMA MessageAmountType ==
  ASSUME MoverInv, NEW n \in Nat
  PROVE  MessageAmount(n) \in Nat
BY ScalesType, RescaleType DEF MessageAmount

LEMMA OneMore ==
  ASSUME NEW n \in 0..MaxMessages, n < MaxMessages
  PROVE  n + 1 \in 0..MaxMessages /\ n \in Nat
BY MoverAssumption

LEMMA SendInv ==
  ASSUME MoverInv, VaultInv', RolesInv', NEW s \in Signers, NEW e \in Eids,
         NEW recipient \in AnyAddress, NEW n \in Amounts, NEW extra \in OptionKinds,
         Send(s, e, recipient, n, extra)
  PROVE  MoverInv'
<1> DEFINE p == Dispatched(e, n)
<1> DEFINE out == Limit!Consume(mover.outbound_rate_limit, n, now)
<1>0. /\ n \in Nat /\ now \in Nat /\ mover \in ShareMoverState /\ mover.deployed
      /\ sent + 1 \in 0..MaxMessages /\ sent \in Nat
  BY InputsAssumption, NowIsNat, OneMore DEF MoverInv, MoverTypeOK, Send, SendAccounts
<1>1. p \in Packet /\ p.nonce = sent + 1
  BY <1>0, MessageAmountType DEF Send, Dispatched, Packet, MoverInv, MoverTypeOK, PeerConfig
<1>2. out \in Limit!RateLimitState
  BY <1>0, LimitTypes DEF ShareMoverState
<1>3. /\ outbound' = outbound \cup {p} /\ sent' = sent + 1
      /\ mover' = [mover EXCEPT !.outbound_rate_limit = out]
      /\ bridged' = [bridged EXCEPT ![e] = @ + n]
      /\ UNCHANGED <<moverProgram, peers, inbound, returned, abroad>>
  BY DEF Send
<1> HIDE DEF p, out
<1>4. mover' \in ShareMoverState /\ mover'.deployed
  BY <1>0, <1>2, <1>3 DEF ShareMoverState
<1>5. bridged' \in [Eids -> Int]
  BY <1>0, <1>3 DEF MoverInv, MoverTypeOK
<1>6. MoverTypeOK'
  BY <1>0, <1>1, <1>3, <1>4, <1>5 DEF MoverInv, MoverTypeOK, VaultInv
<1>7. NoncesTellApart'
  <2>1. \A q \in outbound : q.nonce \in Nat /\ q.nonce <= sent
    BY DEF MoverInv, MoverTypeOK, Packet, NoncesTellApart
  <2>2. \A q \in outbound : q.nonce # p.nonce
    BY <1>0, <1>1, <2>1
  <2>3. \A q \in outbound' : q.nonce <= sent'
    BY <1>0, <1>1, <1>3, <2>1
  <2>4. \A q, r \in outbound' : q.nonce = r.nonce => q = r
    BY <1>3, <2>2 DEF MoverInv, NoncesTellApart
  <2> QED
    BY <1>3, <2>3, <2>4 DEF MoverInv, NoncesTellApart
<1>8. PeersTrusted' /\ NothingBeforeDeployment'
  BY <1>3, <1>4 DEF MoverInv, PeersTrusted, NothingBeforeDeployment
<1> QED
  BY <1>6, <1>7, <1>8 DEF MoverInv

LEMMA ReceiveInv ==
  ASSUME MoverInv, VaultInv', RolesInv', NEW p \in inbound, LzReceive(p)
  PROVE  MoverInv'
<1> DEFINE in == Limit!Consume(mover.inbound_rate_limit, p.amount, now)
<1>0. /\ p \in Payload /\ p.amount \in Nat /\ now \in Nat
      /\ mover \in ShareMoverState /\ mover.deployed
  BY NowIsNat DEF MoverInv, MoverTypeOK, Payload, LzReceive, ReceiveAccounts
<1>1. in \in Limit!RateLimitState
  BY <1>0, LimitTypes DEF ShareMoverState
<1>2. /\ inbound' = inbound \ {p}
      /\ mover' = [mover EXCEPT !.inbound_rate_limit = in]
      /\ bridged' = [bridged EXCEPT ![p.src_eid] = @ - p.amount]
      /\ UNCHANGED <<moverProgram, peers, outbound, sent, returned, abroad>>
  BY DEF LzReceive, Clear
<1> HIDE DEF in
<1>3. mover' \in ShareMoverState /\ mover'.deployed
  BY <1>0, <1>1, <1>2 DEF ShareMoverState
<1>4. bridged' \in [Eids -> Int]
  <2>1. p.src_eid \in Eids /\ bridged \in [Eids -> Int]
    BY <1>0 DEF Payload, MoverInv, MoverTypeOK
  <2>2. bridged[p.src_eid] - p.amount \in Int
    BY <1>0, <2>1
  <2> QED
    BY <1>2, <2>1, <2>2
<1>5. MoverTypeOK'
  BY <1>2, <1>3, <1>4 DEF MoverInv, MoverTypeOK, VaultInv
<1> QED
  BY <1>2, <1>3, <1>5 DEF MoverInv, PeersTrusted, NoncesTellApart, NothingBeforeDeployment

LEMMA VerifiedInv ==
  ASSUME MoverInv, NEW p \in Payload, p.nonce = returned + 1, Verified(p)
  PROVE  /\ inbound' = inbound \cup {p}
         /\ returned' \in 0..MaxMessages /\ returned' = returned + 1
         /\ inbound' \subseteq Payload
         /\ \A q \in inbound' : q.nonce <= returned'
         /\ \A q, r \in inbound' : q.nonce = r.nonce => q = r
<1>1. /\ inbound' = inbound \cup {p} /\ returned' = returned + 1
      /\ returned + 1 \in 0..MaxMessages /\ returned \in Nat
  BY OneMore DEF Verified, MoverInv, MoverTypeOK
<1>2. \A q \in inbound : q.nonce \in Nat /\ q.nonce <= returned
  BY DEF MoverInv, MoverTypeOK, Payload, NoncesTellApart
<1>3. \A q \in inbound : q.nonce # p.nonce
  BY <1>1, <1>2
<1>4. \A q \in inbound' : q.nonce <= returned'
  BY <1>1, <1>2
<1>5. \A q, r \in inbound' : q.nonce = r.nonce => q = r
  BY <1>1, <1>3 DEF MoverInv, NoncesTellApart
<1> QED
  BY <1>1, <1>4, <1>5 DEF MoverInv, MoverTypeOK

(* What a chain's share mover burns for a message is there to be burnt, so     *)
(* the mover here has been deployed.                                          *)
LEMMA RemoteAmount ==
  ASSUME MoverInv, NEW e \in Eids, NEW n \in Nat,
         abroad[e] >= n, Rescale(n, mover.peer_scale, ShareScale) > 0
  PROVE  Rescale(n, mover.peer_scale, ShareScale) \in Nat /\ mover.deployed
<1>1. Rescale(n, mover.peer_scale, ShareScale) \in Nat
  BY ScalesType, RescaleType
<1>2. ASSUME n = 0 PROVE FALSE
  <2>1. Truncate(0 * ShareScale, mover.peer_scale) = 0
    BY ScalesType DEF Truncate
  <2> QED
    BY <1>2, <2>1 DEF Rescale
<1>3. abroad[e] # 0
  BY <1>2
<1> QED
  BY <1>1, <1>3 DEF MoverInv, NothingBeforeDeployment

LEMMA OtherChainsInv ==
  ASSUME MoverInv, VaultInv', RolesInv', OtherChains
  PROVE  MoverInv'
<1>1. ASSUME NEW p \in outbound, PacketArrives(p) PROVE MoverInv'
  <2>1. p \in Packet /\ p.amount \in Nat
    BY DEF MoverInv, MoverTypeOK, Packet
  <2>2. abroad' \in [Eids -> Nat]
    <3>1. p.dst_eid \in Eids /\ abroad \in [Eids -> Nat]
      BY <2>1 DEF Packet, MoverInv, MoverTypeOK
    <3>2. abroad[p.dst_eid] + p.amount \in Nat
      BY <2>1, <3>1
    <3> QED
      BY <1>1, <3>1, <3>2 DEF PacketArrives
  <2>3. MoverTypeOK'
    BY <1>1, <2>2 DEF PacketArrives, MoverInv, MoverTypeOK, moverVars, VaultInv
  <2> QED
    BY <1>1, <2>3 DEF PacketArrives, MoverInv, PeersTrusted, NoncesTellApart,
       NothingBeforeDeployment, Authentic, moverVars
<1>2. ASSUME NEW e \in Eids, NEW endpoint \in Endpoints, NEW recipient \in Recipients,
             NEW n \in Amounts, RemoteSends(e, endpoint, recipient, n)
      PROVE  MoverInv'
  <2> DEFINE message == Rescale(n, mover.peer_scale, ShareScale)
  <2> DEFINE p == [endpoint |-> endpoint, src_eid |-> e, nonce |-> returned + 1,
                   sender |-> RemoteMover[e], recipient |-> recipient, amount |-> message]
  <2>1. n \in Nat /\ abroad[e] >= n /\ message > 0 /\ Verified(p)
          /\ abroad' = [abroad EXCEPT ![e] = @ - n]
          /\ UNCHANGED <<vaultVars, moverVars, outbound, sent, bridged>>
    BY <1>2, InputsAssumption DEF RemoteSends
  <2>2. message \in Nat /\ mover.deployed
    BY <2>1, RemoteAmount
  <2> HIDE DEF message
  <2>3. p \in Payload /\ p.nonce = returned + 1
    BY <2>2, MoverAssumption DEF Payload, MoverInv, MoverTypeOK
  <2> HIDE DEF p
  <2>4. /\ returned' \in 0..MaxMessages
        /\ inbound' \subseteq Payload
        /\ \A q \in inbound' : q.nonce <= returned'
        /\ \A q, r \in inbound' : q.nonce = r.nonce => q = r
    BY <2>1, <2>3, VerifiedInv
  <2>5. abroad' \in [Eids -> Nat]
    <3>1. abroad[e] - n \in Nat
      BY <2>1 DEF MoverInv, MoverTypeOK
    <3> QED
      BY <2>1, <3>1 DEF MoverInv, MoverTypeOK
  <2>6. MoverTypeOK'
    BY <2>1, <2>4, <2>5 DEF MoverInv, MoverTypeOK, moverVars, VaultInv
  <2> QED
    BY <2>1, <2>2, <2>4, <2>6 DEF MoverInv, PeersTrusted, NoncesTellApart,
       NothingBeforeDeployment, moverVars
<1>3. ASSUME NEW e \in Eids, NEW endpoint \in Endpoints, NEW recipient \in Recipients,
             NEW n \in Amounts, NEW sender \in Addresses,
             StrangerSends(e, endpoint, sender, recipient, n)
      PROVE  MoverInv'
  <2> DEFINE p == [endpoint |-> endpoint, src_eid |-> e, nonce |-> returned + 1,
                   sender |-> sender, recipient |-> recipient, amount |-> n]
  <2>1. Verified(p) /\ sender # RemoteMover[e]
          /\ UNCHANGED <<vaultVars, moverVars, outbound, sent, abroad, bridged>>
    BY <1>3 DEF StrangerSends
  <2>2. p \in Payload /\ p.nonce = returned + 1 /\ ~Authentic(p)
    BY <2>1, MoverAssumption, InputsAssumption DEF Payload, MoverInv, MoverTypeOK, Authentic
  <2> HIDE DEF p
  <2>3. /\ inbound' = inbound \cup {p}
        /\ returned' \in 0..MaxMessages
        /\ inbound' \subseteq Payload
        /\ \A q \in inbound' : q.nonce <= returned'
        /\ \A q, r \in inbound' : q.nonce = r.nonce => q = r
    BY <2>1, <2>2, VerifiedInv
  <2>4. MoverTypeOK'
    BY <2>1, <2>3 DEF MoverInv, MoverTypeOK, moverVars, VaultInv
  <2>5. NothingBeforeDeployment'
    BY <2>1, <2>2, <2>3 DEF MoverInv, NothingBeforeDeployment, Authentic, moverVars
  <2> QED
    BY <2>1, <2>3, <2>4, <2>5 DEF MoverInv, PeersTrusted, NoncesTellApart, moverVars
<1> QED
  BY <1>1, <1>2, <1>3 DEF OtherChains

LEMMA NextMoverInv == MoverInv /\ [Next]_vars => MoverInv'
<1> SUFFICES ASSUME MoverInv, [Next]_vars PROVE MoverInv'
  OBVIOUS
<1>0. VaultInv' /\ RolesInv'
  BY MoverStepsVault
<1>1. CASE UNCHANGED <<moverVars, remoteVars>>
  <2>1. MoverTypeOK'
    BY <1>0, <1>1 DEF MoverInv, MoverTypeOK, VaultInv, moverVars, remoteVars
  <2> QED
    BY <1>0, <1>1, <2>1 DEF MoverInv, PeersTrusted, NoncesTellApart,
       NothingBeforeDeployment, Authentic, moverVars, remoteVars
<1>2. ASSUME NEW s \in Signers, UserSends(s) PROVE MoverInv'
  BY <1>0, <1>2, SendInv DEF UserSends
<1>3. CASE Executor
  BY <1>0, <1>3, ReceiveInv DEF Executor
<1> QED
  BY <1>0, <1>1, <1>2, <1>3, MoverSetupInv, MoverAdministerInv, OtherChainsInv
  DEF Next, vars

LEMMA MoverInvariant == Spec => []MoverInv
BY InitMoverInv, NextMoverInv, PTL DEF Spec

(* Vault and mover together keep their types: the mover's mints and burns     *)
(* leave balances, supply and rate limits natural numbers, for any decimals   *)
(* and limits (send, lz_receive, set_rate_limit).                             *)
THEOREM MoverTypeCorrect == Spec => []MoverTypeOK
<1>1. MoverInv => MoverTypeOK
  BY DEF MoverInv
<1> QED
  BY <1>1, MoverInvariant, PTL

-----------------------------------------------------------------------------
(* Amounts in the unit of both chains. *)

LEMMA Distributes ==
  ASSUME NEW m \in Int, NEW n \in Int, NEW k \in Int
  PROVE  (m + n) * k = m * k + n * k /\ (m - n) * k = m * k - n * k
OBVIOUS

(* A conversion loses less than one unit of the side it converts to. *)
LEMMA RescaleLoses ==
  ASSUME NEW n \in Nat, NEW from \in Nat \ {0}, NEW to \in Nat
  PROVE  /\ Rescale(n, from, to) * from \in Nat
         /\ n * to \in Nat
         /\ Rescale(n, from, to) * from <= n * to
         /\ n * to <= Rescale(n, from, to) * from + (from - 1)
<1> DEFINE m == n * to
<1>1. m \in Nat
  BY NatTimes
<1> HIDE DEF m
<1>2. /\ (m \div from) * from \in Nat
      /\ (m \div from) * from <= m
      /\ m <= (m \div from) * from + (from - 1)
  BY <1>1
<1> QED
  BY <1>1, <1>2 DEF Rescale, Truncate, m

(* The variables of the bridge, as the mover keeps them. *)
Away   == [e \in Eids |-> bridged[e] * mover.peer_scale]
Out    == {OutMessage(p) : p \in outbound}
Abroad == [e \in Eids |-> abroad[e] * ShareScale]
Home   == {HomeMessage(p) : p \in {q \in inbound : Authentic(q)}}

LEMMA InitBridge == MoverInit => Bridge!Init
<1> SUFFICES ASSUME MoverInit PROVE Bridge!Init
  OBVIOUS
<1>1. \A k \in Nat : 0 * k = 0
  OBVIOUS
<1>2. mover.peer_scale = 1 /\ ShareScale \in Nat
  BY ShareScaleAssumption DEF MoverInit
<1>3. Away = [e \in Eids |-> 0] /\ Abroad = [e \in Eids |-> 0]
  BY <1>1, <1>2 DEF MoverInit, Away, Abroad
<1>4. Out = {} /\ Home = {}
  BY DEF MoverInit, Out, Home
<1> QED
  BY <1>3, <1>4 DEF MoverInit, Bridge!Init, Away, Out, Abroad, Home

(* Decimals are set once, when nothing is under way. *)
LEMMA SameMapping ==
  ASSUME MoverInv, UNCHANGED remoteVars,
         mover.deployed => mover'.peer_scale = mover.peer_scale,
         mover'.peer_scale \in Nat
  PROVE  UNCHANGED Bridge!bridgeVars
<1>1. CASE mover.deployed
  BY <1>1 DEF remoteVars, Bridge!bridgeVars, OutMessage, HomeMessage, Authentic
<1>2. CASE ~mover.deployed
  <2>1. /\ \A p \in inbound : ~Authentic(p)
        /\ \A e \in Eids : bridged[e] = 0
    BY <1>2 DEF MoverInv, NothingBeforeDeployment
  <2>2. \A k \in Nat : 0 * k = 0
    OBVIOUS
  <2>3. mover.peer_scale \in Nat
    BY ScalesType
  <2>4. Away' = Away
    BY <2>1, <2>2, <2>3 DEF Away, remoteVars
  <2>5. Home = {} /\ Home' = {}
    BY <2>1 DEF Home, remoteVars, Authentic
  <2>6. Out' = Out /\ Abroad' = Abroad
    BY DEF Out, Abroad, OutMessage, remoteVars
  <2> QED
    BY <2>4, <2>5, <2>6 DEF remoteVars, Bridge!bridgeVars, Away, Out, Abroad, Home
<1> QED
  BY <1>1, <1>2

(* The steps of the bridge, said of the mover's variables, with what the      *)
(* conversion of an amount may lose.                                          *)
Leaving(m, taken) ==
  /\ m \notin Out /\ Out' = Out \cup {m}
  /\ m.number > sent /\ sent' = m.number /\ sent' = sent + 1
  /\ m.amount <= taken /\ taken <= m.amount + (ShareScale - 1)
  /\ Away' = [Away EXCEPT ![m.chain] = @ + taken]
  /\ Abroad' = Abroad /\ Home' = Home /\ returned' = returned
  /\ mover'.peer_scale = mover.peer_scale

Arriving(m) ==
  /\ Out' = Out \ {m}
  /\ Abroad' = [Abroad EXCEPT ![m.chain] = @ + m.amount]
  /\ Away' = Away /\ Home' = Home /\ sent' = sent /\ returned' = returned
  /\ mover'.peer_scale = mover.peer_scale

SettingOut(m, taken) ==
  /\ m \notin Home /\ Home' = Home \cup {m}
  /\ m.number > returned /\ returned' = m.number /\ returned' = returned + 1
  /\ m.amount <= taken /\ taken <= m.amount + (mover.peer_scale - 1)
  /\ taken <= Abroad[m.chain]
  /\ Abroad' = [Abroad EXCEPT ![m.chain] = @ - taken]
  /\ Away' = Away /\ Out' = Out /\ sent' = sent
  /\ mover'.peer_scale = mover.peer_scale

ComingHome(m) ==
  /\ Home' = Home \ {m}
  /\ Away' = [Away EXCEPT ![m.chain] = @ - m.amount]
  /\ Out' = Out /\ Abroad' = Abroad /\ sent' = sent /\ returned' = returned
  /\ mover'.peer_scale = mover.peer_scale

Skipping ==
  /\ returned' = returned + 1
  /\ Away' = Away /\ Out' = Out /\ Abroad' = Abroad /\ Home' = Home /\ sent' = sent
  /\ mover'.peer_scale = mover.peer_scale

LEMMA MappedTypes ==
  ASSUME MoverInv
  PROVE  /\ Away \in [Eids -> Int] /\ Abroad \in [Eids -> Nat]
         /\ sent \in Nat /\ returned \in Nat
<1>1. /\ bridged \in [Eids -> Int] /\ abroad \in [Eids -> Nat]
      /\ mover.peer_scale \in Nat /\ ShareScale \in Nat
  BY ScalesType DEF MoverInv, MoverTypeOK
<1>2. \A e \in Eids : bridged[e] * mover.peer_scale \in Int /\ abroad[e] * ShareScale \in Nat
  BY <1>1
<1> QED
  BY <1>2 DEF Away, Abroad, MoverInv, MoverTypeOK

LEMMA SendLeaves ==
  ASSUME MoverInv, NEW s \in Signers, NEW e \in Eids, NEW recipient \in AnyAddress,
         NEW n \in Amounts, NEW extra \in OptionKinds, Send(s, e, recipient, n, extra)
  PROVE  \E m \in Bridge!Message, taken \in Nat : Leaving(m, taken)
<1> DEFINE p == Dispatched(e, n)
<1> DEFINE m == OutMessage(p)
<1> DEFINE k == mover.peer_scale
<1> DEFINE taken == n * k
<1>0. /\ n \in Nat /\ sent \in Nat /\ k \in Nat \ {0} /\ ShareScale \in Nat \ {0}
  BY InputsAssumption, ScalesType DEF MoverInv, MoverTypeOK
<1>1. /\ outbound' = outbound \cup {p} /\ sent' = sent + 1
      /\ bridged' = [bridged EXCEPT ![e] = @ + n] /\ mover'.peer_scale = k
      /\ UNCHANGED <<inbound, returned, abroad>>
  BY DEF Send, MoverInv, MoverTypeOK, ShareMoverState
<1>2. /\ m.chain = e /\ m.number = sent + 1
      /\ m.amount = Rescale(n, ShareScale, k) * ShareScale
      /\ m = [chain |-> e, number |-> sent + 1, amount |-> Rescale(n, ShareScale, k) * ShareScale]
  BY DEF OutMessage, Dispatched, MessageAmount
<1>3. /\ m.amount \in Nat /\ taken \in Nat
      /\ m.amount <= taken /\ taken <= m.amount + (ShareScale - 1)
  <2> HIDE DEF k, m
  <2> QED
    BY <1>0, <1>2, RescaleLoses
<1>4. m \in Bridge!Message
  BY <1>0, <1>2, <1>3 DEF Bridge!Message
<1>5. Out' = Out \cup {m}
  BY <1>1 DEF Out, OutMessage
<1>6. m \notin Out
  <2>1. \A q \in outbound : OutMessage(q).number <= sent /\ OutMessage(q).number \in Nat
    BY DEF MoverInv, MoverTypeOK, Packet, NoncesTellApart, OutMessage
  <2> QED
    BY <1>0, <1>2, <2>1 DEF Out
<1>7. Away \in [Eids -> Int] /\ Away' = [Away EXCEPT ![e] = @ + taken]
  <2>1. bridged \in [Eids -> Int]
    BY DEF MoverInv, MoverTypeOK
  <2>2. (bridged[e] + n) * k = bridged[e] * k + taken
    BY <1>0, <2>1, Distributes
  <2> HIDE DEF k, taken
  <2>3. Away = [c \in Eids |-> bridged[c] * k]
    BY DEF Away, k
  <2>4. Away' = [c \in Eids |-> bridged'[c] * k]
    BY <1>1 DEF Away
  <2>5. \A c \in Eids : bridged[c] * k \in Int
    BY <1>0, <2>1
  <2> QED
    BY <1>1, <2>1, <2>2, <2>3, <2>4, <2>5
<1> HIDE DEF p, m, k, taken
<1>8. Abroad' = Abroad /\ Home' = Home
  BY <1>1 DEF Abroad, Home, HomeMessage, Authentic, k
<1>9. m.number > sent /\ sent' = m.number /\ sent' = sent + 1
  BY <1>0, <1>1, <1>2
<1>10. Leaving(m, taken)
  BY <1>1, <1>2, <1>3, <1>5, <1>6, <1>7, <1>8, <1>9 DEF Leaving, k
<1> QED
  BY <1>3, <1>4, <1>10

LEMMA PacketArrivesAbroad ==
  ASSUME MoverInv, NEW p \in outbound, PacketArrives(p)
  PROVE  \E m \in Out : Arriving(m)
<1> DEFINE m == OutMessage(p)
<1>0. p \in Packet /\ p.dst_eid \in Eids /\ p.amount \in Nat /\ ShareScale \in Nat
  BY ShareScaleAssumption DEF MoverInv, MoverTypeOK, Packet
<1>1. /\ outbound' = outbound \ {p}
      /\ abroad' = [abroad EXCEPT ![p.dst_eid] = @ + p.amount]
      /\ UNCHANGED <<mover, inbound, sent, returned, bridged>>
  BY DEF PacketArrives, moverVars
<1>2. m.chain = p.dst_eid /\ m.number = p.nonce /\ m.amount = p.amount * ShareScale
  BY DEF OutMessage
<1>3. m \in Out
  BY DEF Out
<1>4. Out' = Out \ {m}
  <2>1. \A q \in outbound : OutMessage(q) = m => q = p
    <3> SUFFICES ASSUME NEW q \in outbound, OutMessage(q) = m PROVE q = p
      OBVIOUS
    <3>1. OutMessage(q).number = q.nonce
      BY DEF OutMessage
    <3> QED
      BY <1>2, <3>1 DEF MoverInv, NoncesTellApart
  <2>2. Out' = {OutMessage(q) : q \in outbound \ {p}}
    BY <1>1 DEF Out, OutMessage
  <2> HIDE DEF m
  <2>3. \A q \in outbound : q \in outbound \ {p} <=> OutMessage(q) # m
    <3>1. OutMessage(p) = m
      BY DEF m
    <3> QED
      BY <2>1, <3>1
  <2> QED
    BY <2>2, <2>3 DEF Out
<1>5. Abroad' = [Abroad EXCEPT ![m.chain] = @ + m.amount]
  <2>1. abroad \in [Eids -> Nat]
    BY DEF MoverInv, MoverTypeOK
  <2>2. (abroad[p.dst_eid] + p.amount) * ShareScale
          = abroad[p.dst_eid] * ShareScale + m.amount
    BY <1>0, <1>2, <2>1, Distributes
  <2> HIDE DEF m
  <2>3. Abroad' = [c \in Eids |-> abroad'[c] * ShareScale]
    BY DEF Abroad
  <2> QED
    BY <1>0, <1>1, <1>2, <2>1, <2>2, <2>3 DEF Abroad
<1>6. Away' = Away /\ Home' = Home
  BY <1>1 DEF Away, Home, HomeMessage, Authentic
<1> HIDE DEF m
<1> QED
  BY <1>1, <1>3, <1>4, <1>5, <1>6 DEF Arriving

LEMMA RemoteSetsOut ==
  ASSUME MoverInv, NEW e \in Eids, NEW endpoint \in Endpoints, NEW recipient \in Recipients,
         NEW n \in Amounts, RemoteSends(e, endpoint, recipient, n)
  PROVE  \E m \in Bridge!Message, taken \in Nat : SettingOut(m, taken)
<1> DEFINE k == mover.peer_scale
<1> DEFINE message == Rescale(n, k, ShareScale)
<1> DEFINE p == [endpoint |-> endpoint, src_eid |-> e, nonce |-> returned + 1,
                 sender |-> RemoteMover[e], recipient |-> recipient, amount |-> message]
<1> DEFINE m == HomeMessage(p)
<1> DEFINE taken == n * ShareScale
<1>0. /\ n \in Nat /\ returned \in Nat /\ k \in Nat \ {0} /\ ShareScale \in Nat \ {0}
      /\ abroad \in [Eids -> Nat]
  BY InputsAssumption, ScalesType DEF MoverInv, MoverTypeOK
<1>1. /\ inbound' = inbound \cup {p} /\ returned' = returned + 1
      /\ abroad[e] >= n /\ abroad' = [abroad EXCEPT ![e] = @ - n]
      /\ UNCHANGED <<mover, outbound, sent, bridged>>
  BY DEF RemoteSends, Verified, moverVars
<1>2. /\ m.chain = e /\ m.number = returned + 1
      /\ m.amount = message * k
      /\ m = [chain |-> e, number |-> returned + 1, amount |-> message * k]
  BY DEF HomeMessage
<1>3. /\ m.amount \in Nat /\ taken \in Nat
      /\ m.amount <= taken /\ taken <= m.amount + (k - 1)
  <2> HIDE DEF k, m
  <2> QED
    BY <1>0, <1>2, RescaleLoses
<1>4. m \in Bridge!Message
  BY <1>0, <1>2, <1>3 DEF Bridge!Message
<1>5. Home' = Home \cup {m}
  <2>1. Authentic(p)
    BY DEF Authentic
  <2> HIDE DEF p
  <2>2. {q \in inbound \cup {p} : Authentic(q)} = {q \in inbound : Authentic(q)} \cup {p}
    BY <2>1
  <2>3. Home' = {HomeMessage(q) : q \in {r \in inbound \cup {p} : Authentic(r)}}
    BY <1>1 DEF Home, HomeMessage, Authentic
  <2> QED
    BY <2>2, <2>3 DEF Home
<1>6. m \notin Home
  <2>1. \A q \in inbound : HomeMessage(q).number <= returned /\ HomeMessage(q).number \in Nat
    BY DEF MoverInv, MoverTypeOK, Payload, NoncesTellApart, HomeMessage
  <2> QED
    BY <1>0, <1>2, <2>1 DEF Home
<1>7. /\ Abroad \in [Eids -> Nat] /\ Abroad' = [Abroad EXCEPT ![e] = @ - taken]
      /\ taken <= Abroad[e]
  <2>1. (abroad[e] - n) * ShareScale = abroad[e] * ShareScale - taken
    BY <1>0, Distributes
  <2>2. n * ShareScale <= abroad[e] * ShareScale
    BY <1>0, <1>1, TimesMono
  <2> HIDE DEF taken
  <2>3. Abroad' = [c \in Eids |-> abroad'[c] * ShareScale]
    BY DEF Abroad
  <2>4. \A c \in Eids : abroad[c] * ShareScale \in Nat
    BY <1>0, NatTimes
  <2> QED
    BY <1>0, <1>1, <2>1, <2>2, <2>3, <2>4 DEF Abroad, taken
<1> HIDE DEF p, m, k, taken, message
<1>8. Away' = Away /\ Out' = Out
  BY <1>1 DEF Away, Out, OutMessage
<1>9. m.number > returned /\ returned' = m.number /\ returned' = returned + 1
  BY <1>0, <1>1, <1>2
<1>10. SettingOut(m, taken)
  BY <1>1, <1>2, <1>3, <1>5, <1>6, <1>7, <1>8, <1>9 DEF SettingOut, k
<1> QED
  BY <1>3, <1>4, <1>10

(* A payload that is received is the peer's, and the peer is the share mover. *)
LEMMA ReceivedIsAuthentic ==
  ASSUME MoverInv, NEW p \in inbound, LzReceive(p)
  PROVE  Authentic(p)
<1>1. p \in Payload /\ p.src_eid \in Eids /\ p.sender \in Addresses
  BY DEF MoverInv, MoverTypeOK, Payload
<1>2. peers[p.src_eid].peer_address = p.sender
  BY DEF LzReceive, ReceiveAccounts
<1> QED
  BY <1>1, <1>2, MoverAssumption DEF MoverInv, PeersTrusted, Authentic

LEMMA ReceiveComesHome ==
  ASSUME MoverInv, NEW p \in inbound, LzReceive(p)
  PROVE  \E m \in Home : ComingHome(m)
<1> DEFINE k == mover.peer_scale
<1> DEFINE m == HomeMessage(p)
<1>0. /\ p.src_eid \in Eids /\ p.amount \in Nat /\ k \in Nat \ {0}
      /\ bridged \in [Eids -> Int]
  BY ScalesType DEF MoverInv, MoverTypeOK, Payload
<1>1. /\ inbound' = inbound \ {p} /\ mover'.peer_scale = k
      /\ bridged' = [bridged EXCEPT ![p.src_eid] = @ - p.amount]
      /\ UNCHANGED <<outbound, sent, returned, abroad>>
  BY DEF LzReceive, Clear, MoverInv, MoverTypeOK, ShareMoverState
<1>2. m.chain = p.src_eid /\ m.number = p.nonce /\ m.amount = p.amount * k
  BY DEF HomeMessage
<1>3. m \in Home
  BY ReceivedIsAuthentic DEF Home
<1>4. Home' = Home \ {m}
  <2>1. \A q \in inbound : HomeMessage(q) = m => q = p
    <3> SUFFICES ASSUME NEW q \in inbound, HomeMessage(q) = m PROVE q = p
      OBVIOUS
    <3>1. HomeMessage(q).number = q.nonce
      BY DEF HomeMessage
    <3> QED
      BY <1>2, <3>1 DEF MoverInv, NoncesTellApart
  <2>2. Home' = {HomeMessage(q) : q \in {r \in inbound \ {p} : Authentic(r)}}
    BY <1>1 DEF Home, HomeMessage, Authentic
  <2> HIDE DEF m
  <2>3. \A q \in inbound : q # p <=> HomeMessage(q) # m
    <3>1. HomeMessage(p) = m
      BY DEF m
    <3> QED
      BY <2>1, <3>1
  <2> QED
    BY <2>2, <2>3 DEF Home
<1>5. Away' = [Away EXCEPT ![m.chain] = @ - m.amount]
  <2>1. (bridged[p.src_eid] - p.amount) * k = bridged[p.src_eid] * k - m.amount
    BY <1>0, <1>2, Distributes
  <2> HIDE DEF m, k
  <2>2. Away = [c \in Eids |-> bridged[c] * k] /\ Away' = [c \in Eids |-> bridged'[c] * k]
    BY <1>1 DEF Away, k
  <2> QED
    BY <1>0, <1>1, <1>2, <2>1, <2>2
<1>6. Out' = Out /\ Abroad' = Abroad
  BY <1>1 DEF Out, Abroad, OutMessage
<1> HIDE DEF m
<1> QED
  BY <1>1, <1>3, <1>4, <1>5, <1>6 DEF ComingHome

LEMMA StrangersSkipped ==
  ASSUME MoverInv, NEW e \in Eids, NEW endpoint \in Endpoints, NEW recipient \in Recipients,
         NEW n \in Amounts, NEW sender \in Addresses,
         StrangerSends(e, endpoint, sender, recipient, n)
  PROVE  Skipping
<1> DEFINE p == [endpoint |-> endpoint, src_eid |-> e, nonce |-> returned + 1,
                 sender |-> sender, recipient |-> recipient, amount |-> n]
<1>0. returned \in Nat
  BY DEF MoverInv, MoverTypeOK
<1>1. /\ inbound' = inbound \cup {p} /\ returned' = returned + 1
      /\ UNCHANGED <<mover, outbound, sent, abroad, bridged>>
  BY DEF StrangerSends, Verified, moverVars
<1>2. ~Authentic(p)
  BY DEF StrangerSends, Authentic
<1> HIDE DEF p
<1>3. Home' = Home
  <2>1. {q \in inbound \cup {p} : Authentic(q)} = {q \in inbound : Authentic(q)}
    BY <1>2
  <2>2. Home' = {HomeMessage(q) : q \in {r \in inbound \cup {p} : Authentic(r)}}
    BY <1>1 DEF Home, HomeMessage, Authentic
  <2> QED
    BY <2>1, <2>2 DEF Home
<1>4. Away' = Away /\ Out' = Out /\ Abroad' = Abroad
  BY <1>1 DEF Away, Out, Abroad, OutMessage
<1> QED
  BY <1>1, <1>3, <1>4 DEF Skipping

LEMMA SettingsKeepMapping ==
  ASSUME MoverInv, NEW s \in Signers, MoverAdminister(s)
  PROVE  UNCHANGED remoteVars /\ mover'.peer_scale = mover.peer_scale
BY DEF MoverAdminister, SetMoverPause, SetAllow, SetEndpointProgram, SetRateLimit,
   TransferMoverAuthority, AcceptMoverAuthority, SetPeerAddress, SetEnforcedOptions,
   ClosePeer, SetMover, SetPeers, MoverInv, MoverTypeOK, ShareMoverState

Administering ==
  /\ UNCHANGED remoteVars
  /\ mover.deployed => mover'.peer_scale = mover.peer_scale
  /\ mover'.peer_scale \in Nat

BridgeStep ==
  \/ \E m \in Bridge!Message, taken \in Nat : Leaving(m, taken)
  \/ \E m \in Out : Arriving(m)
  \/ \E m \in Bridge!Message, taken \in Nat : SettingOut(m, taken)
  \/ \E m \in Home : ComingHome(m)
  \/ Skipping

LEMMA StepCases ==
  ASSUME MoverInv, [Next]_vars
  PROVE  Administering \/ BridgeStep
<1>0. mover.peer_scale \in Nat
  BY ScalesType
<1>1. CASE UNCHANGED <<moverVars, remoteVars>>
  BY <1>0, <1>1 DEF Administering, moverVars
<1>2. CASE MoverSetup
  <2>1. UNCHANGED remoteVars
    BY <1>2 DEF MoverSetup, InitializeMover, DeployMover
  <2>2. mover.deployed => mover'.peer_scale = mover.peer_scale
    BY <1>2 DEF MoverSetup, InitializeMover, DeployMover
  <2>3. mover'.peer_scale \in Nat
    BY <1>0, <1>2, MoverAssumption DEF MoverSetup, InitializeMover, DeployMover, MoverArgsType
  <2> QED
    BY <2>1, <2>2, <2>3 DEF Administering
<1>3. ASSUME NEW s \in Signers, MoverAdminister(s) PROVE Administering
  BY <1>0, <1>3, SettingsKeepMapping DEF Administering
<1>4. ASSUME NEW s \in Signers, UserSends(s)
      PROVE  \E m \in Bridge!Message, taken \in Nat : Leaving(m, taken)
  BY <1>4, SendLeaves DEF UserSends
<1>5. CASE Executor
  <2>1. PICK p \in inbound : LzReceive(p)
    BY <1>5 DEF Executor
  <2>2. \E m \in Home : ComingHome(m)
    BY <2>1, ReceiveComesHome
  <2> QED
    BY <2>2 DEF BridgeStep
<1>6. ASSUME NEW p \in outbound, PacketArrives(p) PROVE \E m \in Out : Arriving(m)
  BY <1>6, PacketArrivesAbroad
<1>7. ASSUME NEW e \in Eids, NEW endpoint \in Endpoints, NEW recipient \in Recipients,
             NEW n \in Amounts, RemoteSends(e, endpoint, recipient, n)
      PROVE  \E m \in Bridge!Message, taken \in Nat : SettingOut(m, taken)
  BY <1>7, RemoteSetsOut
<1>8. ASSUME NEW e \in Eids, NEW endpoint \in Endpoints, NEW recipient \in Recipients,
             NEW n \in Amounts, NEW sender \in Addresses,
             StrangerSends(e, endpoint, sender, recipient, n)
      PROVE  Skipping
  BY <1>8, StrangersSkipped
<1>9. CASE OtherChains
  BY <1>6, <1>7, <1>8, <1>9, Zenon DEF OtherChains, BridgeStep
<1>10. CASE \E s \in Signers : UserSends(s)
  BY <1>4, <1>10, Zenon DEF BridgeStep
<1> QED
  BY <1>1, <1>2, <1>3, <1>5, <1>9, <1>10 DEF Next, vars

LEMMA LeavingIsLeave ==
  ASSUME MoverInv, NEW m \in Bridge!Message, NEW taken \in Nat, Leaving(m, taken)
  PROVE  Bridge!Next
<1>1. m.chain \in Eids /\ Away[m.chain] \in Int
        /\ Away' = [Away EXCEPT ![m.chain] = @ + taken]
  BY MappedTypes DEF Bridge!Message, Leaving
<1>2. Away'[m.chain] - Away[m.chain] = taken
  <2>1. Away'[m.chain] = Away[m.chain] + taken
    BY <1>1, MappedTypes
  <2> QED
    BY <1>1, <2>1
<1>3. \E t \in {Away'[m.chain] - Away[m.chain]} :
        /\ t \in Nat /\ t >= m.amount
        /\ Away' = [Away EXCEPT ![m.chain] = @ + t]
  BY <1>1, <1>2 DEF Leaving, Bridge!Message
<1>4. /\ Out' = Out \cup {m} /\ m.number > sent /\ sent' = m.number
      /\ Abroad' = Abroad /\ Home' = Home /\ returned' = returned
  BY DEF Leaving
<1>5. Bridge!Leave(m)
  BY <1>3, <1>4, Zenon DEF Bridge!Leave, Away, Out, Abroad, Home
<1>6. m \in Out' \ Out
  BY DEF Leaving
<1> QED
  BY <1>5, <1>6, Zenon DEF Bridge!Next, Out

LEMMA SettingOutIsSetOut ==
  ASSUME MoverInv, NEW m \in Bridge!Message, NEW taken \in Nat, SettingOut(m, taken)
  PROVE  Bridge!Next
<1>1. m.chain \in Eids /\ Abroad[m.chain] \in Nat
        /\ Abroad' = [Abroad EXCEPT ![m.chain] = @ - taken]
  BY MappedTypes DEF Bridge!Message, SettingOut
<1>2. Abroad[m.chain] - Abroad'[m.chain] = taken
  <2>1. Abroad'[m.chain] = Abroad[m.chain] - taken
    BY <1>1, MappedTypes
  <2> QED
    BY <1>1, <2>1
<1>3. \E t \in {Abroad[m.chain] - Abroad'[m.chain]} :
        /\ t \in Nat /\ t >= m.amount /\ t <= Abroad[m.chain]
        /\ Abroad' = [Abroad EXCEPT ![m.chain] = @ - t]
  BY <1>1, <1>2 DEF SettingOut, Bridge!Message
<1>4. /\ Home' = Home \cup {m} /\ m.number > returned /\ returned' = m.number
      /\ Away' = Away /\ Out' = Out /\ sent' = sent
  BY DEF SettingOut
<1>5. Bridge!SetOut(m)
  BY <1>3, <1>4, Zenon DEF Bridge!SetOut, Away, Out, Abroad, Home
<1>6. m \in Home' \ Home
  BY DEF SettingOut
<1> QED
  BY <1>5, <1>6, Zenon DEF Bridge!Next, Home

LEMMA NextBridge ==
  ASSUME MoverInv, [Next]_vars
  PROVE  Bridge!Next \/ UNCHANGED Bridge!bridgeVars
<1>1. CASE Administering
  BY <1>1, SameMapping DEF Administering
<1>2. ASSUME NEW m \in Out, Arriving(m) PROVE Bridge!Next
  <2>1. Bridge!Arrive(m)
    BY <1>2, Zenon DEF Arriving, Bridge!Arrive, Away, Out, Abroad, Home
  <2> QED
    BY <2>1, Zenon DEF Bridge!Next, Out
<1>3. ASSUME NEW m \in Home, ComingHome(m) PROVE Bridge!Next
  <2>1. Bridge!ComeHome(m)
    BY <1>3, Zenon DEF ComingHome, Bridge!ComeHome, Away, Out, Abroad, Home
  <2> QED
    BY <2>1, Zenon DEF Bridge!Next, Home
<1>4. CASE Skipping
  <2>1. returned' \in Nat /\ returned' > returned
    BY <1>4, MappedTypes DEF Skipping
  <2>2. Bridge!Skip
    BY <1>4, <2>1, Zenon DEF Skipping, Bridge!Skip, Away, Out, Abroad, Home
  <2> QED
    BY <2>2 DEF Bridge!Next
<1> QED
  BY <1>1, <1>2, <1>3, <1>4, StepCases, LeavingIsLeave, SettingOutIsSetOut DEF BridgeStep

(* Vault, mover and endpoint carry out the bridge that ShareBridge describes:  *)
(* however messages are delayed, overtaken and retried, and whatever the       *)
(* administrators change meanwhile, each is taken once, by the chain it is     *)
(* for, and for no more than was burnt for it (send, lz_receive).              *)
THEOREM MoverImplementsBridge == Spec => BridgeSpec
<1>1. MoverInv /\ [Next]_vars => [Bridge!Next]_(Bridge!bridgeVars)
  BY NextBridge
<1> QED
  BY <1>1, InitBridge, MoverInvariant, PTL DEF Spec, BridgeSpec, Bridge!Spec

-----------------------------------------------------------------------------
(* What the bridge guarantees, said of vault and mover. *)

BridgeFacts == INSTANCE ShareBridge_proofs WITH
  Chains    <- Eids,
  away      <- [e \in Eids |-> bridged[e] * mover.peer_scale],
  outbound  <- {OutMessage(p) : p \in outbound},
  abroad    <- [e \in Eids |-> abroad[e] * ShareScale],
  homebound <- {HomeMessage(p) : p \in {q \in inbound : Authentic(q)}}

LEMMA BridgeFactsHold == Spec => []BridgeFacts!BridgeInv
<1>1. BridgeFacts!Spec => []BridgeFacts!BridgeInv
  BY BridgeFacts!BridgeInvariant
<1>2. Bridge!Init => BridgeFacts!Init
  BY DEF Bridge!Init, BridgeFacts!Init
<1>3. [Bridge!Next]_(Bridge!bridgeVars) => [BridgeFacts!Next]_(BridgeFacts!bridgeVars)
  BY DEF Bridge!Next, Bridge!Leave, Bridge!Arrive, Bridge!SetOut, Bridge!ComeHome,
         Bridge!Skip, Bridge!Message, Bridge!bridgeVars,
         BridgeFacts!Next, BridgeFacts!Leave, BridgeFacts!Arrive, BridgeFacts!SetOut,
         BridgeFacts!ComeHome, BridgeFacts!Skip, BridgeFacts!Message, BridgeFacts!bridgeVars
<1>4. BridgeSpec => BridgeFacts!Spec
  BY <1>2, <1>3, PTL DEF BridgeSpec, Bridge!Spec, BridgeFacts!Spec
<1> QED
  BY <1>1, <1>4, MoverImplementsBridge, PTL

(* The shares of every other chain, there or under way, were burnt here and   *)
(* have not been minted again, for any decimals on either side (send,         *)
(* lz_receive, mint_shares, burn_shares).                                     *)
THEOREM MoverMakesNothing == Spec => []NothingFromNowhere
<1>1. BridgeFacts!BridgeInv => NothingFromNowhere
  BY DEF BridgeFacts!BridgeInv, BridgeFacts!Covered, NothingFromNowhere, Bridge!Covered,
         BridgeFacts!UnderWay, Bridge!UnderWay,
         BridgeFacts!UnitsUnderWay, Bridge!UnitsUnderWay,
         BridgeFacts!Cardinality, Bridge!Cardinality
<1> QED
  BY <1>1, BridgeFactsHold, PTL

-----------------------------------------------------------------------------
(* What is lost on the way. *)

Dust(messages, unit) == messages * (unit - 1)

(* Every token sent abroad is under way, abroad, or dust some conversion cut. *)
TokensAdded(e) ==
  Away[e] <= BridgeFacts!UnderWay(Out, e) + Abroad[e] + BridgeFacts!UnderWay(Home, e)
               + Dust(sent, ShareScale) + Dust(returned, mover.peer_scale)

AllTokensAdded == \A e \in Eids : TokensAdded(e)

LEMMA DustGrows ==
  ASSUME NEW n \in Nat, NEW unit \in Nat \ {0}
  PROVE  /\ Dust(n, unit) \in Nat
         /\ Dust(n + 1, unit) \in Nat
         /\ Dust(n + 1, unit) = Dust(n, unit) + (unit - 1)
<1> DEFINE d == unit - 1
<1>1. d \in Nat
  OBVIOUS
<1> HIDE DEF d
<1>2. n * d \in Nat /\ (n + 1) * d \in Nat /\ (n + 1) * d = n * d + d
  BY <1>1
<1> QED
  BY <1>2 DEF Dust, d

(* The messages counted before and after a step. *)
LEMMA TokensCounted ==
  ASSUME BridgeFacts!BridgeInv, NEW e \in Eids
  PROVE  /\ Out \subseteq BridgeFacts!Message /\ Home \subseteq BridgeFacts!Message
         /\ BridgeFacts!Countable(Out) /\ BridgeFacts!Countable(Home)
         /\ BridgeFacts!UnderWay(Out, e) \in Nat /\ BridgeFacts!UnderWay(Home, e) \in Nat
<1>1. BridgeFacts!Countable(Out) /\ BridgeFacts!Countable(Home)
  BY DEF BridgeFacts!BridgeInv, Out, Home
<1>2. Out \subseteq BridgeFacts!Message /\ Home \subseteq BridgeFacts!Message
  BY DEF BridgeFacts!BridgeInv, BridgeFacts!TypeOK, Out, Home
<1> QED
  BY <1>1, <1>2 DEF BridgeFacts!Countable

LEMMA NextTokensAdded ==
  ASSUME MoverInv, MoverInv', BridgeFacts!BridgeInv, [Next]_vars, AllTokensAdded
  PROVE  AllTokensAdded'
<1> SUFFICES ASSUME NEW e \in Eids PROVE TokensAdded(e)'
  BY DEF AllTokensAdded
<1> DEFINE k == mover.peer_scale
<1>0. /\ TokensAdded(e)
      /\ Away[e] \in Int /\ Abroad[e] \in Nat /\ sent \in Nat /\ returned \in Nat
      /\ Away \in [Eids -> Int] /\ Abroad \in [Eids -> Nat]
      /\ k \in Nat \ {0} /\ ShareScale \in Nat \ {0}
  BY MappedTypes, ScalesType DEF AllTokensAdded
<1>1. /\ Out \subseteq BridgeFacts!Message /\ Home \subseteq BridgeFacts!Message
      /\ BridgeFacts!Countable(Out) /\ BridgeFacts!Countable(Home)
      /\ BridgeFacts!UnderWay(Out, e) \in Nat /\ BridgeFacts!UnderWay(Home, e) \in Nat
  BY TokensCounted
<1>2. /\ Dust(sent, ShareScale) \in Nat /\ Dust(returned, k) \in Nat
      /\ Dust(sent + 1, ShareScale) \in Nat /\ Dust(returned + 1, k) \in Nat
      /\ Dust(sent + 1, ShareScale) = Dust(sent, ShareScale) + (ShareScale - 1)
      /\ Dust(returned + 1, k) = Dust(returned, k) + (k - 1)
  BY <1>0, DustGrows
<1> HIDE DEF k
<1>3. ASSUME NEW m \in Bridge!Message, NEW taken \in Nat, Leaving(m, taken)
      PROVE  TokensAdded(e)'
  <2>1. m \in BridgeFacts!Message /\ m.amount \in Nat /\ m.chain \in Eids
    BY DEF Bridge!Message, BridgeFacts!Message
  <2>2. /\ m \notin Out /\ Out' = Out \cup {m} /\ sent' = sent + 1
        /\ taken <= m.amount + (ShareScale - 1)
        /\ Away' = [Away EXCEPT ![m.chain] = @ + taken]
        /\ Abroad' = Abroad /\ Home' = Home /\ returned' = returned
        /\ mover'.peer_scale = k
    BY <1>3 DEF Leaving, k
  <2>3. BridgeFacts!UnderWay(Out \cup {m}, e)
          = BridgeFacts!UnderWay(Out, e) + (IF e = m.chain THEN m.amount ELSE 0)
    BY <1>1, <2>1, <2>2, BridgeFacts!MessageAdded
  <2>4. Away'[e] = IF e = m.chain THEN Away[e] + taken ELSE Away[e]
    BY <1>0, <2>2
  <2>5. Away'[e] <= BridgeFacts!UnderWay(Out \cup {m}, e) + Abroad[e]
          + BridgeFacts!UnderWay(Home, e) + Dust(sent + 1, ShareScale) + Dust(returned, k)
    BY <1>0, <1>1, <1>2, <2>1, <2>2, <2>3, <2>4 DEF TokensAdded, k
  <2> QED
    BY <2>2, <2>5 DEF TokensAdded
<1>4. ASSUME NEW m \in Out, Arriving(m) PROVE TokensAdded(e)'
  <2>1. m \in BridgeFacts!Message /\ m.amount \in Nat /\ m.chain \in Eids
    BY <1>1 DEF BridgeFacts!Message
  <2>2. /\ Out' = Out \ {m}
        /\ Abroad' = [Abroad EXCEPT ![m.chain] = @ + m.amount]
        /\ Away' = Away /\ Home' = Home /\ sent' = sent /\ returned' = returned
        /\ mover'.peer_scale = k
    BY <1>4 DEF Arriving, k
  <2>3. /\ BridgeFacts!UnderWay(Out, e)
             = BridgeFacts!UnderWay(Out \ {m}, e) + (IF e = m.chain THEN m.amount ELSE 0)
        /\ BridgeFacts!UnderWay(Out \ {m}, e) \in Nat
    BY <1>1, <2>1, BridgeFacts!MessageTaken DEF BridgeFacts!Countable
  <2>4. Abroad'[e] = IF e = m.chain THEN Abroad[e] + m.amount ELSE Abroad[e]
    BY <1>0, <2>2
  <2>5. Away[e] <= BridgeFacts!UnderWay(Out \ {m}, e) + Abroad'[e]
          + BridgeFacts!UnderWay(Home, e) + Dust(sent, ShareScale) + Dust(returned, k)
    BY <1>0, <1>1, <1>2, <2>1, <2>3, <2>4 DEF TokensAdded, k
  <2> QED
    BY <2>2, <2>5 DEF TokensAdded
<1>5. ASSUME NEW m \in Bridge!Message, NEW taken \in Nat, SettingOut(m, taken)
      PROVE  TokensAdded(e)'
  <2>1. m \in BridgeFacts!Message /\ m.amount \in Nat /\ m.chain \in Eids
    BY DEF Bridge!Message, BridgeFacts!Message
  <2>2. /\ m \notin Home /\ Home' = Home \cup {m} /\ returned' = returned + 1
        /\ taken <= m.amount + (k - 1)
        /\ Abroad' = [Abroad EXCEPT ![m.chain] = @ - taken]
        /\ Away' = Away /\ Out' = Out /\ sent' = sent
        /\ mover'.peer_scale = k
    BY <1>5 DEF SettingOut, k
  <2>3. BridgeFacts!UnderWay(Home \cup {m}, e)
          = BridgeFacts!UnderWay(Home, e) + (IF e = m.chain THEN m.amount ELSE 0)
    BY <1>1, <2>1, <2>2, BridgeFacts!MessageAdded
  <2>4. Abroad'[e] = IF e = m.chain THEN Abroad[e] - taken ELSE Abroad[e]
    BY <1>0, <2>2
  <2>5. Away[e] <= BridgeFacts!UnderWay(Out, e) + Abroad'[e]
          + BridgeFacts!UnderWay(Home \cup {m}, e) + Dust(sent, ShareScale)
          + Dust(returned + 1, k)
    BY <1>0, <1>1, <1>2, <2>1, <2>2, <2>3, <2>4 DEF TokensAdded, k
  <2> QED
    BY <2>2, <2>5 DEF TokensAdded
<1>6. ASSUME NEW m \in Home, ComingHome(m) PROVE TokensAdded(e)'
  <2>1. m \in BridgeFacts!Message /\ m.amount \in Nat /\ m.chain \in Eids
    BY <1>1 DEF BridgeFacts!Message
  <2>2. /\ Home' = Home \ {m}
        /\ Away' = [Away EXCEPT ![m.chain] = @ - m.amount]
        /\ Out' = Out /\ Abroad' = Abroad /\ sent' = sent /\ returned' = returned
        /\ mover'.peer_scale = k
    BY <1>6 DEF ComingHome, k
  <2>3. /\ BridgeFacts!UnderWay(Home, e)
             = BridgeFacts!UnderWay(Home \ {m}, e) + (IF e = m.chain THEN m.amount ELSE 0)
        /\ BridgeFacts!UnderWay(Home \ {m}, e) \in Nat
    BY <1>1, <2>1, BridgeFacts!MessageTaken DEF BridgeFacts!Countable
  <2>4. Away'[e] = IF e = m.chain THEN Away[e] - m.amount ELSE Away[e]
    BY <1>0, <2>2
  <2>5. Away'[e] <= BridgeFacts!UnderWay(Out, e) + Abroad[e]
          + BridgeFacts!UnderWay(Home \ {m}, e) + Dust(sent, ShareScale) + Dust(returned, k)
    BY <1>0, <1>1, <1>2, <2>1, <2>3, <2>4 DEF TokensAdded, k
  <2> QED
    BY <2>2, <2>5 DEF TokensAdded
<1>7. CASE Skipping
  <2>1. /\ returned' = returned + 1 /\ mover'.peer_scale = k
        /\ Away' = Away /\ Out' = Out /\ Abroad' = Abroad /\ Home' = Home /\ sent' = sent
    BY <1>7 DEF Skipping, k
  <2>2. Away[e] <= BridgeFacts!UnderWay(Out, e) + Abroad[e] + BridgeFacts!UnderWay(Home, e)
          + Dust(sent, ShareScale) + Dust(returned + 1, k)
    BY <1>0, <1>1, <1>2 DEF TokensAdded, k
  <2> QED
    BY <2>1, <2>2 DEF TokensAdded
<1>8. CASE Administering
  <2>1. /\ Away' = Away /\ Out' = Out /\ Abroad' = Abroad /\ Home' = Home
        /\ sent' = sent /\ returned' = returned
    BY <1>8, SameMapping DEF Administering, Bridge!bridgeVars, Away, Out, Abroad, Home
  <2>2. CASE mover.deployed
    BY <1>0, <1>8, <2>1, <2>2 DEF Administering, TokensAdded
  <2>3. CASE ~mover.deployed
    <3>1. Away[e] = 0
      <4>1. bridged[e] = 0
        BY <2>3 DEF MoverInv, NothingBeforeDeployment
      <4>2. 0 * mover.peer_scale = 0
        BY <1>0 DEF k
      <4> QED
        BY <4>1, <4>2 DEF Away
    <3>2. mover'.peer_scale \in Nat \ {0}
      BY DEF MoverInv, MoverTypeOK, ShareMoverState
    <3>3. Dust(returned, mover'.peer_scale) \in Nat
      BY <1>0, <3>2, DustGrows
    <3>4. Away[e] <= BridgeFacts!UnderWay(Out, e) + Abroad[e] + BridgeFacts!UnderWay(Home, e)
            + Dust(sent, ShareScale) + Dust(returned, mover'.peer_scale)
      BY <1>0, <1>1, <1>2, <3>1, <3>3
    <3> QED
      BY <2>1, <3>4 DEF TokensAdded
  <2> QED
    BY <2>2, <2>3
<1> QED
  BY <1>3, <1>4, <1>5, <1>6, <1>7, <1>8, StepCases DEF BridgeStep

LEMMA InitTokensAdded == MoverInit => AllTokensAdded
<1> SUFFICES ASSUME MoverInit, NEW e \in Eids PROVE TokensAdded(e)
  BY DEF AllTokensAdded
<1>1. MoverInv
  BY InitMoverInv
<1>2. Bridge!Init
  BY InitBridge
<1>3. Away[e] = 0 /\ Abroad[e] = 0 /\ Out = {} /\ Home = {}
  BY <1>2 DEF Bridge!Init, Away, Abroad, Out, Home
<1>4. BridgeFacts!UnderWay({}, e) = 0
  BY BridgeFacts!NoMessages
<1>5. sent \in Nat /\ returned \in Nat
        /\ mover.peer_scale \in Nat \ {0} /\ ShareScale \in Nat \ {0}
  BY <1>1, MappedTypes, ScalesType
<1>6. Dust(sent, ShareScale) \in Nat /\ Dust(returned, mover.peer_scale) \in Nat
  BY <1>5, DustGrows
<1> QED
  BY <1>3, <1>4, <1>6 DEF TokensAdded

(* Between the chains nothing is lost but what an amount has in decimals the   *)
(* other side cannot express, less than one unit for each message, for any     *)
(* decimals on either side (convert_amount_decimals, send, lz_receive).        *)
THEOREM MoverLosesOnlyDust == Spec => []OnlyDustLost
<1>1. /\ MoverInv /\ MoverInv' /\ BridgeFacts!BridgeInv /\ [Next]_vars /\ AllTokensAdded
        => AllTokensAdded'
  BY NextTokensAdded
<1>2. AllTokensAdded => OnlyDustLost
  BY DEF AllTokensAdded, TokensAdded, Dust, OnlyDustLost, Away, Out, Abroad, Home,
         BridgeFacts!UnderWay, Bridge!UnderWay,
         BridgeFacts!UnitsUnderWay, Bridge!UnitsUnderWay,
         BridgeFacts!Cardinality, Bridge!Cardinality
<1> QED
  BY <1>1, <1>2, InitTokensAdded, MoverInvariant, BridgeFactsHold, PTL DEF Spec

=============================================================================
