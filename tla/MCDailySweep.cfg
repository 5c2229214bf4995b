SPECIFICATION FairSpec
CONSTANTS
  btc = btc
  eth = eth
  top = top
  Instruments = {btc, eth}
  Unresolved = Unresolved
  PortfolioHeld = PortfolioHeld
  Declarations <- OneBand
  Listings <- OneOrBoth
  Sweepers = {p, q}
  Pinners = {}
  HandPinned = {}
  Traded = {eth}
  NoOne = NoOne
  LastMoment = 3
  MaxRevisions = 1
INVARIANTS
  OneRunPerDay
  NeverRefused
  MembersArePriced
  TradedIsIncluded
PROPERTIES
  DayBarsStand
  EveryFiringEnds
