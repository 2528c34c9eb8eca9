CONSTANTS
  boss = boss
  user = user
  treasury = treasury
  usdc = usdc
  steth = steth
  sol = sol
  nobody = nobody
  pyth = pyth
  pull = pull
  nofeed = nofeed
  LastTick = 6
  ReviewTime = 2
  MaxPublished = 3
  BpsUnit = 1000
  Feeds <- MCFeeds
  NoFeed = nofeed
  OracleSettings <- MCOracleSettings
  Quotes <- MCQuotes
  SlotSteps = {50}
  MaxSlot = 200
  MaxLimit = 100000
  Signers <- MCSigners
  Pdas <- MCPdas
  NoKey = nobody
  SubAccounts = {0}
  Mints <- MCMints
  Native = sol
  BaseAsset = usdc
  ShareScale = 1
  AssetScale <- MCAssetScale
  InitialTokens <- MCInitialTokens
  SecondsPerYear = 4
  MaxU64 = 6
  MaxTime = 100
  DeployArgs <- MCDeployArgs
  AssetDatas <- MCAssetDatas
  Amounts <- MCAmounts
  Rates <- MCRates
  Prices <- MCPrices
  FeeSettings <- MCFeeSettings
  BoundSettings <- MCBoundSettings
  Instructions = {}
  OperatorSets = {}
  AdminKeys = {boss}
SPECIFICATION TimeSpec
PROPERTY
  StalenessInSlots
