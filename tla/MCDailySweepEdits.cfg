SPECIFICATION Spec
CONSTANTS
  btc = btc
  eth = eth
  top = top
  Instruments = {btc, eth}
  Unresolved = Unresolved
  PortfolioHeld = PortfolioHeld
  Declarations <- TwoBands
  Listings <- EitherOrder
  Sweepers = {p}
  Pinners = {pinner}
  HandPinned = {top}
  Traded = {}
  NoOne = NoOne
  LastMoment = 3
  MaxRevisions = 2
INVARIANTS
  TypeOK
  RuleFollowsBand
