SPECIFICATION Spec
CONSTANTS
  coin = coin
  coingecko = coingecko
  figi = figi
  cg = cg
  shareClass = shareClass
  A = A
  B = B
  noIssuer = noIssuer
  Kinds = {coin}
  Symbols = {A, B}
  Issuers = {}
  NoIssuer = noIssuer
  Sources = {coingecko}
  IdentitySource <- MCIdentitySource
  MatchGroups = {figi, cg}
  AnchorGroup = figi
  SilentGroup = shareClass
  Values = {1, 2}
  Dates = {1, 2}
  Sightings <- MCSightings
  Listings <- MCListings
  FigiAnswers <- MCFigiAnswers
  CoinSource = coingecko
  CoinGroup = cg
  CoinIds <- MCCoinIds
  Typists = {t1}
  Retriers = {}
  MaxInstruments = 4
  MaxRecords = 2
PROPERTIES
  NoneMintedBeside
