SPECIFICATION Spec
CONSTANTS
  coin = coin
  stock = stock
  yahoo = yahoo
  coingecko = coingecko
  figi = figi
  cg = cg
  shareClass = shareClass
  A = A
  B = B
  acme = acme
  noIssuer = noIssuer
  Kinds = {coin, stock}
  Symbols = {A, B}
  Issuers = {acme}
  NoIssuer = noIssuer
  Sources = {yahoo, coingecko}
  IdentitySource <- MCIdentitySource
  MatchGroups = {figi, cg}
  AnchorGroup = figi
  SilentGroup = shareClass
  Values = {1, 2, 3}
  Dates = {1, 2}
  Observations <- MCObservations
  MaxInstruments = 4
  MaxRecords = 3
INVARIANTS
  TypeOK
  EarlierSurvives
  OneFamilyPerReference
  MergedOnEvidence
  OneValuePerGroup
  IdsAreUnique
  ResolvedMeansAnchored
  HistoryIsAChain
PROPERTIES
  FamiliesOnlyGrow
