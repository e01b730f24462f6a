CONSTANTS
  Last = 2
  Decline <- MCDecline2
  Growth <- MCGrowth2
  Rates <- MCRates
  MaxSteps = 2
  MaxPurchases = 3
  MaxUpdates = 1
  Races = {"partly", "crash"}

SPECIFICATION FairSpec

INVARIANTS
  TypeOK
  OnePurchasePerStep
  SellCoversCycle
  ExecMatches
  OnlyFirstForgotten
  RowMatches

PROPERTIES
  CycleRefined
  NeverBack
  UnlockedWhenSold
  SellOffered
  SoldRestarts

CHECK_DEADLOCK FALSE
