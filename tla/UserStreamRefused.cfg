SPECIFICATION FairSpec
CONSTANTS
  MaxFaults = 1
  Faults = {"refused"}
  Races = {}
PROPERTIES
  UserStreamKept
CHECK_DEADLOCK FALSE
