SPECIFICATION Spec
CONSTANTS
  Password = "right"
  Passwords = {"right", "wrong"}
  Methods = {"trust", "password", "scram", "plus", "oauth", "md5", "newer"}
  Salts <- MCSalts
  Iterations = {4096}
  Scripts <- MCScripts
  ParamLists <- MCParamLists
  MaxOperations = 4
  MaxAsync = 1
  Callers = {c1, c2, c3, c4}
  m_max_connections = 2
INVARIANTS
  LoggedIn
  
  ResultsMatch
  RowsKept
  CountExact
  IdleForWoken
PROPERTIES
  Served
