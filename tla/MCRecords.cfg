SPECIFICATION RecordsSpec
CONSTANTS
  none = none
  ann = ann
  bob = bob
  main = main
  p1 = p1
  p2 = p2
  r1 = r1
  r2 = r2
  m1 = m1
  m2 = m2
  o1 = o1
  o2 = o2
  Owners = {ann, bob}
  Names = {main}
  Fills <- MCFills
  NoCost = none
  Traded = {1, 2}
  PerDay = 2
  ReadDays = {0, 1}
  Close <- MCClose
  NoClose = none
  MaxPortfolios = 2
  MaxTrades = 3
  MaxVoids = 2
  Programs = {p1, p2}
  Recipes = {r1, r2}
  Axes = {r1, r2}
  AsOf = {1, 2}
  Matrices = {m1, m2}
  NoCopy = none
  MaxRevisions = 2
  Openers = {o1, o2}
  Builds = {1, 2, 3}
  Shipped = {2}
  NoFile = none
  LastSecond = 1
  MaxFiles = 3
SYMMETRY RecordsSymmetry
CHECK_DEADLOCK FALSE
INVARIANTS
  RecordsTypeOK
  PositionsAddUp
  SeriesLoadBack
  VersionIsTrue
  MigratedKeepsPristineCopy
