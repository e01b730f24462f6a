SPECIFICATION FairSpec
CONSTANTS
  Markets = {m1}
  m1 = m1
  Quotes = {q1, q2}
  q1 = q1
  q2 = q2
  Sides = {"buy", "sell"}
  MaxOrders = 2
  QuoteReuse = FALSE
  MaxReloads = 0
  Turns = {"partly", "cancel"}
  Faults = {}
INVARIANTS
  TypeOK
  OneRecordPerSide
  SentOrderHasRecord
  OnePostInFlight
  RecordHasOrder
  LiveOrderKnown
  FillRecorded
PROPERTIES
  SideFreed
CHECK_DEADLOCK FALSE
