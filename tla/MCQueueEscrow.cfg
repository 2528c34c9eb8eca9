CONSTANTS
  boss = boss
  alice = alice
  bob = bob
  queuepda = queuepda
  usdc = usdc
  sol = sol
  nobody = nobody
  Signers <- MCSigners
  Pdas <- MCPdas
  NoKey = nobody
  QueuePda = queuepda
  SubAccounts = {0}
  Mints <- MCMints
  Native = sol
  BaseAsset = usdc
  ShareScale = 1
  AssetScale <- MCAssetScale
  InitialTokens <- MCInitialTokens
  SecondsPerYear = 1
  MaxU64 = 100
  MaxTime = 3
  MaxDays = 1
  DeployArgs <- MCDeployArgs
  AssetDatas <- MCAssetDatas
  Amounts = {1, 2}
  Rates = {4}
  Prices <- MCPrices
  FeeSettings = {}
  BoundSettings = {}
  Instructions = {}
  OperatorSets = {}
  AdminKeys = {boss}
  WithdrawAssetSettings <- MCWithdrawAssetSettings
  Discounts = {1000}
  Deadlines = {0, 1}
SPECIFICATION FairQueueSpec
INVARIANTS
  QueueTypeOK
  EscrowBacked
  ExpiredIsRecoverable
PROPERTIES
  EscrowSpec
  RequestsEndInOneWay
  EveryRequestCloses
