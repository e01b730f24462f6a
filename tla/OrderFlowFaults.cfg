SPECIFICATION Spec
CONSTANTS
  Markets = {m1}
  m1 = m1
  Quotes = {q1, q2}
  q1 = q1
  q2 = q2
  Sides = {"sell"}
  MaxOrders = 2
  QuoteReuse = FALSE
  MaxReloads = 1
  Turns = {"partly"}
  Faults = {"unsent", "refused", "timeout"}
SYMMETRY Symmetry
INVARIANTS
  
  LiveOrderKnown
  FillRecorded
CHECK_DEADLOCK FALSE
