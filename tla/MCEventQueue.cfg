SPECIFICATION Spec
CONSTANTS
  Queues = {q1, q2}
  MaxItems = 2
  MaxEvents = 4
INVARIANTS
  TypeOK
  NoLostWakeup
  SleepsWithoutStatus
PROPERTIES
  ItemsTaken
  TornDown
