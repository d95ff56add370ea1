SPECIFICATION Spec
CONSTANTS
  Markets = {m1, m2}
  Traders = {t1, t2}
  MaxOrders = 2
  MaxRestarts = 1
  None = None
CHECK_DEADLOCK FALSE
INVARIANTS
  TypeOK
  AccountKept
PROPERTIES
  CancelsShownOrder
