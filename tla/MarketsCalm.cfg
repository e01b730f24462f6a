SPECIFICATION Spec
CONSTANTS
  Pairs <- MCTwo
  Others = FALSE
  Rates <- MCFlat
  MaxSteps = 2
  MaxQueue = 3
  MaxLoads = 1
  Inputs = {"pause"}
  Races = {}
  Faults = {"stop", "crash", "upgrade"}
INVARIANTS
  TypeOK
  WantedTraded
  RemovedStaysOut
  StepsKept
  StreamsCover
CHECK_DEADLOCK FALSE
