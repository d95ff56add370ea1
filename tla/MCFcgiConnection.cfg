SPECIFICATION FairSpec
CONSTANTS
  Ids = {r1, r2}
  Forms <- MCForms
  Routes <- MCRoutes
  MaxRecords = 6
  MaxWire = 3
  MaxContent = 2
  MaxItems = 1
INVARIANTS
  TypeOK
  OneReader
  Aligned
  HandlesLive
  RepliesInOrder
  Routed
PROPERTIES
  TornDown
  Answered
