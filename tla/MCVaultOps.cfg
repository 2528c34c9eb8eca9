CONSTANTS
  boss = boss
  user = user
  treasury = treasury
  usdc = usdc
  sol = sol
  nobody = nobody
  Signers <- MCSigners
  Pdas <- MCPdas
  NoKey = nobody
  SubAccounts = {0, 1}
  Mints <- MCMints
  Native = sol
  BaseAsset = usdc
  ShareScale = 2
  AssetScale <- MCAssetScale
  InitialTokens <- MCInitialTokens
  SecondsPerYear = 1
  MaxU64 = 7
  MaxTime = 1
  DeployArgs <- MCDeployArgs
  AssetDatas <- MCAssetDatas
  Amounts <- MCAmounts
  Rates <- MCRates
  Prices <- MCPrices
  FeeSettings <- MCFeeSettings
  BoundSettings <- MCBoundSettings
  Instructions <- MCInstructions
  OperatorSets <- MCOperatorSets
  AdminKeys = {boss, user, nobody}
SPECIFICATION OpsSpec
INVARIANTS
  TypeOK
  RolesNeverVacant
PROPERTIES
  PausedFreezes
  OutflowsAccounted
