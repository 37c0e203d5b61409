SPECIFICATION Spec
CONSTANTS
  Components = {"queue", "market", "books", "paper", "config", "hours"}
  Capacity = 4
  Items = {1, 2}
  MaxPushes = 5
  CacheCapacity = 2
  KeepTicks = 2
  MaxUses = 5
  Symbols = {"a", "b", "c"}
  Prices = {1, 2}
  Quantities = {1, 2, 3}
  MaxTrades = 4
  Coins = {"A", "B"}
  PaperOrders <- MCOrders
  Rates <- MCRates
  Balances <- MCBalances
  DefaultPrice = 3
  MaxOrders = 3
  Files <- MCFiles
  ListPaths <- MCListPaths
  ActivePath <- MCActivePath
  Defaults <- MCDefaults
  DefaultLists <- MCDefaultLists
  Known = {"momentum"}
  Step = 30
CHECK_DEADLOCK FALSE
INVARIANTS
  TypeOK
  AccountsAgree
  ParserFollowsOutline
  OpensWhenSaid
PROPERTIES
  QueueIsFifo
  CacheIsSound
