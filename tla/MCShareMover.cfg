CONSTANTS
  boss = boss
  alice = alice
  moverpda = moverpda
  usdc = usdc
  sol = sol
  nobody = nobody
  ep1 = ep1
  ep2 = ep2
  app = app
  stranger = stranger
  zeros = zeros
  Signers <- MCSigners
  Pdas <- MCPdas
  NoKey = nobody
  SubAccounts = {0}
  Mints <- MCMints
  Native = sol
  BaseAsset = usdc
  ShareScale = 2
  AssetScale <- MCAssetScale
  InitialTokens <- MCInitialTokens
  SecondsPerYear = 1
  MaxU64 = 6
  MaxTime = 1
  DeployArgs <- MCDeployArgs
  AssetDatas <- MCAssetDatas
  Amounts = {1, 3}
  Rates = {}
  Prices = {}
  FeeSettings = {}
  BoundSettings = {}
  Instructions = {}
  OperatorSets = {}
  AdminKeys = {boss}
  MoverPda = moverpda
  Eids = {1}
  Endpoints = {ep1, ep2}
  Addresses = {app, stranger}
  NoAddress = zeros
  EvmAddresses = {app}
  RemoteMover <- MCRemoteMover
  PeerInputs <- MCPeerInputs
  MaxScale = 10
  MoverArgs <- MCMoverArgs
  LimitSettings <- MCLimitSettings
  Recipients = {alice}
  MaxMessages = 2
SPECIFICATION FairMoverSpec
INVARIANTS
  MoverTypeOK
  NothingFromNowhere
  OnlyDustLost
PROPERTIES
  BridgeSpec
  NoPayloadStuck
CHECK_DEADLOCK FALSE
