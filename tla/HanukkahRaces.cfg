CONSTANTS
  Last = 2
  Decline <- MCDecline2
  Growth <- MCGrowth2
  Rates <- MCRates
  MaxSteps = 2
  MaxPurchases = 2
  MaxUpdates = 1
  Races = {"account", "filled", "zombie", "sold", "ignored", "partly", "stop"}

SPECIFICATION Spec

INVARIANTS
  StepsInOrder
  RowMatches

CHECK_DEADLOCK FALSE
