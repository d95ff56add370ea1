SPECIFICATION Spec
CONSTANTS
  Password = "right"
  Passwords = {"right"}
  Methods = {"trust"}
  Salts <- MCSalts
  Iterations = {4096}
  Scripts <- MCScripts
  ParamLists <- MCParamLists
  MaxOperations = 4
  MaxAsync = 0
  Callers = {c1}
  m_max_connections = 1
INVARIANTS
  RowsTakenWhole
