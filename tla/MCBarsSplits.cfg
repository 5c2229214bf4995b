SPECIFICATION BarsSpec
CONSTANTS
  MomentsPerDay = 2
  PointSources = {coingecko}
  NoValue = none
  Feeds = {yahoo, coingecko}
  Dates = {0, 1, 2}
  Ratio = 2
  Quotes <- MCQuotes
  FirstQuote <- MCFirstQuote
  LastMoment = 5
  MaxFetches = 2
  MaxSplits = 2
  MaxRewrites = 1
  yahoo = yahoo
  coingecko = coingecko
  usd = usd
  eur = eur
  usd_usd = usd_usd
  eur_usd = eur_usd
  free = free
  none = none
  b1 = b1
  b2 = b2
  Instruments = {1, 2, 3}
  PriceSources <- MCPriceSources
  Sources = {yahoo, coingecko}
  Offset <- MCOffset
  Days = {0, 1, 2}
  Stays <- MCStays
  NoBar = none
  MaxRows = 3
  Yahoo = yahoo
  CoinGecko = coingecko
  Coins = {usd, eur}
  NamedCoin <- MCNamed
  NoCoin = none
  Tickers = {usd_usd, eur_usd}
  Candidates <- MCCandidates
  CoinClose <- MCCoinClose
  TickerClose <- MCTickerClose
  Listed <- MCListed
  PairSessions = 1
  Listings = {{usd, eur}}
  Runs = {b1, b2}
  Free = free
  FirstDay = 1
  MaxTargets = 1
  MaxMerges = 1
SYMMETRY RunSymmetry
CHECK_DEADLOCK FALSE
INVARIANT
  NothingFiledUnlessRewritten
