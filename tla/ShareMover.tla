------------------------------ MODULE ShareMover ------------------------------
(***************************************************************************)
(* The layer-zero-share-mover program on top of the vault whose shares it   *)
(* carries to other chains and back.                                        *)
(*                                                                          *)
(* send burns a user's shares, through the vault's burn_shares signed by    *)
(* the mover's PDA, and hands a message to the LayerZero endpoint program;  *)
(* lz_receive takes a message the endpoint has verified, has the endpoint   *)
(* clear it, and mints the shares through mint_shares.  Each is one         *)
(* transaction: a failing call undoes the ones before it.                   *)
(*                                                                          *)
(* The endpoints, the executor that calls lz_receive, and the share movers  *)
(* of the other chains are the environment.  A message may be delayed for   *)
(* any time, overtaken by others and tried in vain any number of times;     *)
(* until it is cleared its payload-hash account stays open.                 *)
(***************************************************************************)
EXTENDS BoringVault

CONSTANTS
  MoverPda,       \* the mover's PDA, which the vault may name as share_mover
  Eids,           \* LayerZero ids of the other chains
  Endpoints,      \* programs that are LayerZero endpoints
  Addresses,      \* 32-byte addresses on other chains
  NoAddress,      \* the address of zeros
  EvmAddresses,   \* the addresses that are padded EVM addresses
  RemoteMover,    \* address of the share mover on each other chain
  PeerInputs,     \* the addresses the administrator registers for each chain
  MaxScale,       \* 10^18: the codec allows no more than 18 decimals
  MoverArgs, LimitSettings, Recipients,  \* further inputs
  MaxMessages     \* bound on the messages in each direction

VARIABLES
  moverProgram,  \* ProgramConfig
  mover,         \* the ShareMover account
  peers,         \* the PeerConfig account of each chain
  outbound,      \* packets dispatched through an endpoint and not delivered yet
  inbound,       \* verified payloads: the open payload-hash accounts
  sent,          \* number of packets dispatched
  returned,      \* number of payloads verified
  abroad,        \* supply on each other chain, in that chain's units
  bridged        \* history: shares burnt for each chain less those minted back

moverVars  == <<moverProgram, mover, peers>>
remoteVars == <<outbound, inbound, sent, returned, abroad, bridged>>
vars       == <<vaultVars, moverVars, remoteVars>>

Limit == INSTANCE RateLimit

AnyAddress  == Addresses \cup {NoAddress}
AnyEndpoint == Endpoints \cup {NoKey}
PeerChains  == {"Unknown", "Evm", "Sui"}
OptionKinds == {"none", "type3", "other"}

ShareMoverState ==
  [deployed: BOOLEAN, admin: KeyOrDefault, pending_admin: KeyOrDefault,
   endpoint_program: AnyEndpoint, is_paused: BOOLEAN, allow_from: BOOLEAN,
   allow_to: BOOLEAN, peer_scale: Nat \ {0}, peer_chain: PeerChains,
   outbound_rate_limit: Limit!RateLimitState,
   inbound_rate_limit: Limit!RateLimitState]

(* Whether options are enforced, not which: they say what is paid for on the *)
(* other chain.                                                              *)
PeerConfig == [open: BOOLEAN, peer_address: AnyAddress, enforced_options: BOOLEAN]

Packet  == [endpoint: Endpoints, dst_eid: Eids, nonce: Nat, receiver: AnyAddress,
            amount: Nat]
Payload == [endpoint: Endpoints, src_eid: Eids, nonce: Nat, sender: Addresses,
            recipient: KeyOrDefault, amount: Nat]

MoverArgsType ==
  [admin: KeyOrDefault, endpoint_program: Endpoints, peer_scale: Nat \ {0},
   peer_chain: PeerChains, outbound: Nat \X Nat, inbound: Nat \X Nat]

(* The administrator is trusted to register a chain's share mover and no     *)
(* other contract there; NoAddress is among the inputs it may try.           *)
ASSUME MoverAssumption ==
  /\ MoverPda \in Pdas
  /\ NoAddress \notin Addresses
  /\ EvmAddresses \subseteq Addresses
  /\ RemoteMover \in [Eids -> Addresses]
  /\ \A e \in Eids : PeerInputs[e] \subseteq {RemoteMover[e], NoAddress}
  /\ MaxScale \in Nat
  /\ MoverArgs \subseteq MoverArgsType
  /\ LimitSettings \subseteq (Nat \X Nat) \X (Nat \X Nat)
  /\ Recipients \subseteq KeyOrDefault
  /\ MaxMessages \in Nat

-----------------------------------------------------------------------------

Closed == [open |-> FALSE, peer_address |-> NoAddress, enforced_options |-> FALSE]

MoverInit ==
  /\ Init
  /\ moverProgram = [initialized |-> FALSE, authority |-> NoKey]
  /\ mover = [deployed |-> FALSE, admin |-> NoKey, pending_admin |-> NoKey,
              endpoint_program |-> NoKey, is_paused |-> FALSE,
              allow_from |-> FALSE, allow_to |-> FALSE, peer_scale |-> 1,
              peer_chain |-> "Unknown",
              outbound_rate_limit |-> Limit!NewLimit(0, 0, 0),
              inbound_rate_limit |-> Limit!NewLimit(0, 0, 0)]
  /\ peers = [e \in Eids |-> Closed]
  /\ outbound = {}
  /\ inbound = {}
  /\ sent = 0
  /\ returned = 0
  /\ abroad = [e \in Eids |-> 0]
  /\ bridged = [e \in Eids |-> 0]

(* The authority may be the default key: then no mover is ever deployed. *)
InitializeMover(authority) ==
  /\ ~moverProgram.initialized
  /\ moverProgram' = [initialized |-> TRUE, authority |-> authority]
  /\ UNCHANGED <<vaultVars, mover, peers, remoteVars>>

(* The one share mint in the model is the one deploy checks against the vault. *)
DeployMover(s, args) ==
  /\ s \in Signers
  /\ moverProgram.initialized
  /\ s = moverProgram.authority
  /\ ~mover.deployed
  /\ Deployed
  /\ Limit!NewAllowed(args.outbound[1], args.outbound[2])
  /\ Limit!NewAllowed(args.inbound[1], args.inbound[2])
  /\ mover' = [deployed |-> TRUE, admin |-> args.admin, pending_admin |-> NoKey,
               endpoint_program |-> args.endpoint_program, is_paused |-> FALSE,
               allow_from |-> FALSE, allow_to |-> FALSE,
               peer_scale |-> args.peer_scale, peer_chain |-> args.peer_chain,
               outbound_rate_limit |->
                 Limit!NewLimit(args.outbound[1], args.outbound[2], now),
               inbound_rate_limit |->
                 Limit!NewLimit(args.inbound[1], args.inbound[2], now)]
  /\ UNCHANGED <<vaultVars, moverProgram, peers, remoteVars>>

-----------------------------------------------------------------------------
(* Administration. *)

MoverAdminOnly(s) == mover.deployed /\ s \in Signers /\ s = mover.admin

SetMover(newMover) ==
  /\ mover' = newMover
  /\ UNCHANGED <<vaultVars, moverProgram, peers, remoteVars>>

SetPeers(newPeers) ==
  /\ peers' = newPeers
  /\ UNCHANGED <<vaultVars, moverProgram, mover, remoteVars>>

SetMoverPause(s, paused) ==
  MoverAdminOnly(s) /\ SetMover([mover EXCEPT !.is_paused = paused])

SetAllow(s, from, to) ==
  MoverAdminOnly(s) /\ SetMover([mover EXCEPT !.allow_from = from, !.allow_to = to])

(* Payloads verified by the endpoint used so far stay where they are. *)
SetEndpointProgram(s, endpoint) ==
  MoverAdminOnly(s) /\ SetMover([mover EXCEPT !.endpoint_program = endpoint])

SetRateLimit(s, out, in) ==
  /\ MoverAdminOnly(s)
  /\ Limit!Computable(mover.outbound_rate_limit, now)
  /\ Limit!Computable(mover.inbound_rate_limit, now)
  /\ Limit!NewAllowed(out[1], out[2])
  /\ Limit!NewAllowed(in[1], in[2])
  /\ SetMover([mover EXCEPT
       !.outbound_rate_limit = Limit!CarriedOver(@, out[1], out[2], now),
       !.inbound_rate_limit = Limit!CarriedOver(@, in[1], in[2], now)])

TransferMoverAuthority(s, newAdmin) ==
  /\ MoverAdminOnly(s)
  /\ newAdmin # NoKey
  /\ SetMover([mover EXCEPT !.pending_admin = newAdmin])

AcceptMoverAuthority(s) ==
  /\ mover.deployed
  /\ s \in Signers
  /\ s = mover.pending_admin
  /\ SetMover([mover EXCEPT !.admin = s, !.pending_admin = NoKey])

(* PeerChain::validate, for peers and for the recipients of what is sent. *)
ValidOn(chain, address) ==
  /\ address # NoAddress
  /\ \/ chain = "Evm" /\ address \in EvmAddresses
     \/ chain = "Sui" /\ address \notin EvmAddresses

(* set_peer opens the account if it has to, in both its forms: enforced       *)
(* options alone leave the address of zeros in a new one.                     *)
SetPeerAddress(s, e, address) ==
  /\ MoverAdminOnly(s)
  /\ ValidOn(mover.peer_chain, address)
  /\ SetPeers([peers EXCEPT ![e].open = TRUE, ![e].peer_address = address])

SetEnforcedOptions(s, e) ==
  /\ MoverAdminOnly(s)
  /\ SetPeers([peers EXCEPT ![e].open = TRUE, ![e].enforced_options = TRUE])

ClosePeer(s, e) ==
  /\ MoverAdminOnly(s)
  /\ peers[e].open
  /\ SetPeers([peers EXCEPT ![e] = Closed])

-----------------------------------------------------------------------------
(* send *)

(* convert_amount_decimals; a u64 times 10^18 always fits a u128. *)
ConvertAllowed == ShareScale <= MaxScale /\ mover.peer_scale <= MaxScale

(* A variant that rounds in the recipient's favour. *)
MessageAmountUp(amount) ==
  Truncate(amount * mover.peer_scale + ShareScale - 1, ShareScale)

MessageAmount(amount) == Rescale(amount, ShareScale, mover.peer_scale)

(* combine_options: legacy options cannot be added to enforced ones. *)
OptionsCombine(e, extra) == peers[e].enforced_options => extra # "other"

SendAccounts(e) ==
  /\ mover.deployed
  /\ ~mover.is_paused
  /\ peers[e].open

(* The receiver is whatever the peer account says, an address of zeros too. *)
Dispatched(e, amount) ==
  [endpoint |-> mover.endpoint_program, dst_eid |-> e, nonce |-> sent + 1,
   receiver |-> peers[e].peer_address, amount |-> MessageAmount(amount)]

(* The shares burnt are the whole amount, also the part the message loses.   *)
Send(s, e, recipient, amount, extra) ==
  /\ SendAccounts(e)
  /\ mover.allow_to
  /\ ValidOn(mover.peer_chain, recipient)
  /\ Limit!Passes(mover.outbound_rate_limit, amount, now)
  /\ ConvertAllowed
  /\ MessageAmount(amount) > 0
  /\ OptionsCombine(e, extra)
  /\ mover.endpoint_program \in Endpoints
  /\ sent < MaxMessages
  /\ BurnShares(MoverPda, s, amount)
  /\ mover' = [mover EXCEPT !.outbound_rate_limit = Limit!Consume(@, amount, now)]
  /\ outbound' = outbound \cup {Dispatched(e, amount)}
  /\ sent' = sent + 1
  /\ bridged' = [bridged EXCEPT ![e] = @ + amount]
  /\ UNCHANGED <<moverProgram, peers, inbound, returned, abroad>>

-----------------------------------------------------------------------------
(* lz_receive *)

(* A variant that trusts whatever the endpoint verified. *)
ReceiveFromAnyone(p) ==
  /\ mover.deployed
  /\ ~mover.is_paused
  /\ peers[p.src_eid].open

(* A variant that takes the payloads of a path in order. *)
ReceiveInOrder(p) ==
  /\ mover.deployed
  /\ ~mover.is_paused
  /\ peers[p.src_eid].open
  /\ peers[p.src_eid].peer_address = p.sender
  /\ \A q \in inbound :
       q.src_eid = p.src_eid /\ q.sender = p.sender => q.nonce >= p.nonce

ReceiveAccounts(p) ==
  /\ mover.deployed
  /\ ~mover.is_paused
  /\ peers[p.src_eid].open
  /\ peers[p.src_eid].peer_address = p.sender

(* The clear accounts are derived from the endpoint of the moment; clearing   *)
(* closes the payload's account.                                              *)
Clear(p) ==
  /\ p \in inbound
  /\ p.endpoint = mover.endpoint_program
  /\ inbound' = inbound \ {p}

(* A variant in which a payload stays cleared when the vault refuses to mint. *)
LzReceiveInTwoSteps(p) ==
  /\ ReceiveAccounts(p)
  /\ mover.allow_from
  /\ p.recipient # NoKey
  /\ Limit!Passes(mover.inbound_rate_limit, p.amount, now)
  /\ Clear(p)
  /\ IF MintSharesAccounts(MoverPda)
     THEN /\ MintShares(MoverPda, p.recipient, p.amount)
          /\ bridged' = [bridged EXCEPT ![p.src_eid] = @ - p.amount]
     ELSE UNCHANGED <<vaultVars, bridged>>
  /\ UNCHANGED <<moverVars, outbound, sent, returned, abroad>>

(* The message's amount is minted as it is: it is in shares already. *)
LzReceive(p) ==
  /\ ReceiveAccounts(p)
  /\ mover.allow_from
  /\ p.recipient # NoKey
  /\ p.amount <= MaxU64
  /\ Limit!Passes(mover.inbound_rate_limit, p.amount, now)
  /\ Clear(p)
  /\ MintShares(MoverPda, p.recipient, p.amount)
  /\ mover' = [mover EXCEPT !.inbound_rate_limit = Limit!Consume(@, p.amount, now)]
  /\ bridged' = [bridged EXCEPT ![p.src_eid] = @ - p.amount]
  /\ UNCHANGED <<moverProgram, peers, outbound, sent, returned, abroad>>

-----------------------------------------------------------------------------
(* The other chains.  Their share movers mirror this one: they mint what a   *)
(* packet from their endpoint says, and burn what they send, converted to    *)
(* the decimals of the share mint here.  Others may send messages as well.   *)

PacketArrives(p) ==
  /\ p \in outbound
  /\ p.receiver = RemoteMover[p.dst_eid]
  /\ outbound' = outbound \ {p}
  /\ abroad' = [abroad EXCEPT ![p.dst_eid] = @ + p.amount]
  /\ UNCHANGED <<vaultVars, moverVars, inbound, sent, returned, bridged>>

Verified(p) ==
  /\ returned < MaxMessages
  /\ inbound' = inbound \cup {p}
  /\ returned' = returned + 1

RemoteSends(e, endpoint, recipient, amount) ==
  LET message == Rescale(amount, mover.peer_scale, ShareScale)
  IN  /\ abroad[e] >= amount
      /\ message > 0
      /\ Verified([endpoint |-> endpoint, src_eid |-> e, nonce |-> returned + 1,
                   sender |-> RemoteMover[e], recipient |-> recipient,
                   amount |-> message])
      /\ abroad' = [abroad EXCEPT ![e] = @ - amount]
      /\ UNCHANGED <<vaultVars, moverVars, outbound, sent, bridged>>

StrangerSends(e, endpoint, sender, recipient, amount) ==
  /\ sender # RemoteMover[e]
  /\ Verified([endpoint |-> endpoint, src_eid |-> e, nonce |-> returned + 1,
               sender |-> sender, recipient |-> recipient, amount |-> amount])
  /\ UNCHANGED <<vaultVars, moverVars, outbound, sent, abroad, bridged>>

-----------------------------------------------------------------------------

MoverSetup ==
  \/ \E k \in AdminKeys : InitializeMover(k)
  \/ \E s \in Signers, args \in MoverArgs : DeployMover(s, args)

MoverAdminister(s) ==
  \/ \E b \in BOOLEAN : SetMoverPause(s, b)
  \/ \E from, to \in BOOLEAN : SetAllow(s, from, to)
  \/ \E p \in AnyEndpoint : SetEndpointProgram(s, p)
  \/ \E l \in LimitSettings : SetRateLimit(s, l[1], l[2])
  \/ \E k \in AdminKeys : TransferMoverAuthority(s, k)
  \/ AcceptMoverAuthority(s)
  \/ \E e \in Eids : \/ \E address \in PeerInputs[e] : SetPeerAddress(s, e, address)
                     \/ SetEnforcedOptions(s, e)
                     \/ ClosePeer(s, e)

UserSends(s) ==
  \E e \in Eids, recipient \in AnyAddress, n \in Amounts, extra \in OptionKinds :
    Send(s, e, recipient, n, extra)

Executor == \E p \in inbound : LzReceive(p)

OtherChains ==
  \/ \E p \in outbound : PacketArrives(p)
  \/ \E e \in Eids, endpoint \in Endpoints, recipient \in Recipients, n \in Amounts :
       \/ RemoteSends(e, endpoint, recipient, n)
       \/ \E sender \in Addresses : StrangerSends(e, endpoint, sender, recipient, n)

Next ==
  \/ VaultStep /\ UNCHANGED <<moverVars, remoteVars>>
  \/ MoverSetup
  \/ \E s \in Signers : MoverAdminister(s) \/ UserSends(s)
  \/ Executor
  \/ OtherChains

Spec == MoverInit /\ [][Next]_vars

(* lz_receive needs nobody's permission: the executor, or anyone else, tries  *)
(* each verified payload again until it goes through.                         *)
Fairness ==
  \A n \in 1..MaxMessages : WF_vars(\E p \in inbound : p.nonce = n /\ LzReceive(p))

-----------------------------------------------------------------------------
(* Properties. *)

MoverTypeOK ==
  /\ TypeOK
  /\ moverProgram \in [initialized: BOOLEAN, authority: KeyOrDefault]
  /\ mover \in ShareMoverState
  /\ peers \in [Eids -> PeerConfig]
  /\ outbound \subseteq Packet
  /\ inbound \subseteq Payload
  /\ sent \in 0..MaxMessages
  /\ returned \in 0..MaxMessages
  /\ abroad \in [Eids -> Nat]
  /\ bridged \in [Eids -> Int]

(* A share here and an amount there in one unit: a share is peer_scale units  *)
(* and the smallest amount of another chain ShareScale.                       *)
OutMessage(p)  == [chain |-> p.dst_eid, number |-> p.nonce, amount |-> p.amount * ShareScale]
HomeMessage(p) == [chain |-> p.src_eid, number |-> p.nonce, amount |-> p.amount * mover.peer_scale]
Authentic(p)   == p.sender = RemoteMover[p.src_eid]

Bridge == INSTANCE ShareBridge WITH
  Chains    <- Eids,
  away      <- [e \in Eids |-> bridged[e] * mover.peer_scale],
  outbound  <- {OutMessage(p) : p \in outbound},
  abroad    <- [e \in Eids |-> abroad[e] * ShareScale],
  homebound <- {HomeMessage(p) : p \in {q \in inbound : Authentic(q)}}

(* However messages are delayed, reordered and retried, and whatever the      *)
(* administrators of vault and mover change meanwhile, each message is taken  *)
(* at most once, here or there, for no more than was burnt for it, and no     *)
(* message disappears otherwise (send, lz_receive).                           *)
BridgeSpec == Bridge!Spec

(* The shares of every chain, on it or under way to or from it, were burnt    *)
(* here and have not been minted again: the vault's assets back the shares    *)
(* of all chains together (send, lz_receive, mint_shares, burn_shares).       *)
NothingFromNowhere == Bridge!Covered

(* Nor is anything lost on the way but what decimals cannot express, less     *)
(* than one unit of the coarser side for each message: a call that fails      *)
(* after the payload is cleared or the shares are burnt undoes both           *)
(* (convert_amount_decimals, send, lz_receive).                               *)
OnlyDustLost ==
  \A e \in Eids :
    bridged[e] * mover.peer_scale
      <= Bridge!UnderWay({OutMessage(p) : p \in outbound}, e)
           + abroad[e] * ShareScale
           + Bridge!UnderWay({HomeMessage(p) : p \in {q \in inbound : Authentic(q)}}, e)
           + sent * (ShareScale - 1) + returned * (mover.peer_scale - 1)

(* Nothing keeps a payload out but its own contents and the present settings: *)
(* its sender is the peer, its endpoint the mover's, nothing is paused, and   *)
(* the limiter is off, or has been idle for a window and allows the amount.   *)
RoadClear(p) ==
  /\ mover.allow_from /\ ~mover.is_paused
  /\ peers[p.src_eid].peer_address = p.sender
  /\ p.endpoint = mover.endpoint_program
  /\ ~config.paused /\ config.share_mover = MoverPda
  /\ p.recipient # NoKey /\ p.amount \in 1..MaxU64
  /\ supply + p.amount <= MaxU64
  /\ LET rl == mover.inbound_rate_limit
     IN  rl.limit = 0 \/ (p.amount <= rl.limit /\ Limit!WindowOver(rl, now))

(* No payload waits for ever on a clear road: others that cannot be received, *)
(* those before it included, do not hold it up (lz_receive, clear).           *)
NoPayloadStuck ==
  \A n \in 1..MaxMessages :
    []<>~(\E p \in inbound : p.nonce = n /\ RoadClear(p))

(* What a test of the program says of close_peer: it fails while the mover is *)
(* paused.                                                                    *)
PausedKeepsPeers ==
  [][mover.is_paused => \A e \in Eids : peers[e].open => peers'[e].open]_vars

=============================================================================
