CONSTANTS
  Last = 2
  Decline <- MCDecline2
  Growth <- MCGrowth2
  Rates <- MCRates
  MaxSteps = 2
  MaxPurchases = 3
  MaxUpdates = 1
  Races = {"update"}

SPECIFICATION Spec

PROPERTIES
  NeverBack

CHECK_DEADLOCK FALSE
