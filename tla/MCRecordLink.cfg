SPECIFICATION FairLinkSpec
CONSTANTS
  BUFFER_SIZE = 3
  Garbage = 8
  Base = 3
  LinkSize = 2
  MaxOutputs = 2
  Payloads <- MCPayloads
  Requests <- MCRequests
  Outputs <- MCOutputs
INVARIANTS
  BuffersOK
  NeverEmptyCall
  InOrder
  Framed
PROPERTIES
  Delivered
