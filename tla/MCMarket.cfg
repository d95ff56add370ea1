SPECIFICATION Spec
CONSTANTS
  Traders = {t1, t2}
  Prices <- MCPrices
  Quantities <- MCQuantities
  LongMax = 3
  MaxOrders = 4
INVARIANTS
  TypeOK
  BookIntegrity
  OnlyNewestCrosses
  DepthIsBook
  ZeroSum
PROPERTIES
  PriceTimePriority
  LimitsRespected
  MatchingEnds
