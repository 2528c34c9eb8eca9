CONSTANTS
  boss = boss
  user = user
  treasury = treasury
  base = base
  fine = fine
  coarse = coarse
  priced = priced
  sol = sol
  nobody = nobody
  Signers <- MCSigners
  Pdas <- MCPdas
  NoKey = nobody
  SubAccounts = {0}
  Mints <- MCMints
  Native = sol
  BaseAsset = base
  ShareScale = 4
  AssetScale <- MCAssetScale
  InitialTokens <- MCInitialTokens
  SecondsPerYear = 1
  MaxU64 = 40
  MaxTime = 0
  DeployArgs <- MCDeployArgs
  AssetDatas <- MCAssetDatas
  Amounts <- MCAmounts
  Rates = {}
  Prices = {}
  FixedPrice <- MCFixedPrice
  Unit = 24
  FeeSettings = {}
  BoundSettings = {}
  Instructions = {}
  OperatorSets = {}
  AdminKeys = {boss}
SPECIFICATION BackingRuns
INVARIANT
  SharesBacked
CHECK_DEADLOCK FALSE
