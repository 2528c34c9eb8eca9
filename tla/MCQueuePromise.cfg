CONSTANTS
  boss = boss
  user = user
  queuepda = queuepda
  base = base
  coarse = coarse
  priced = priced
  fine = fine
  sol = sol
  nobody = nobody
  Offered = {base, coarse, priced}
  MaxRequests = 1
  Signers <- MCSigners
  Pdas <- MCPdas
  NoKey = nobody
  QueuePda = queuepda
  SubAccounts = {0}
  Mints <- MCMints
  Native = sol
  BaseAsset = base
  ShareScale = 4
  AssetScale <- MCAssetScale
  InitialTokens <- MCInitialTokens
  SecondsPerYear = 1
  MaxU64 = 100
  MaxTime = 2
  MaxDays = 1
  DeployArgs <- MCDeployArgs
  AssetDatas <- MCAssetDatas
  Amounts = {1, 2, 3}
  Rates = {4, 5, 6}
  Prices <- MCPrices
  FeeSettings = {}
  BoundSettings = {}
  Instructions = {}
  OperatorSets = {}
  AdminKeys = {boss}
  WithdrawAssetSettings <- MCWithdrawAssetSettings
  Discounts = {0}
  Deadlines = {0}
SPECIFICATION PromiseRuns
INVARIANT
  PromisesPayable
