SPECIFICATION Spec
CONSTANTS
  Pairs <- MCOne
  Others = TRUE
  Rates <- MCRates
  MaxSteps = 1
  MaxQueue = 2
  MaxLoads = 2
  Inputs = {"book", "trade"}
  Races = {"trend", "tick", "reload", "row"}
  Faults = {"crash", "upgrade", "listing"}
INVARIANTS
  ModelAgrees
  NothingOfRemoved
CHECK_DEADLOCK FALSE
