SPECIFICATION SceneSpec
CONSTANTS
  Traders = {t1, t2}
  Watchers = {t1}
  Double <- MCDouble
  Prices <- MCPrices
  Quantities <- MCQuantities
  LongMax = 7
  Rows = 2
  MaxOrders = 2
INVARIANT
  OnlyOwnStream
