SPECIFICATION FairSpec
CONSTANTS
  MaxFaults = 2
  Faults = {"clean", "reset", "silent", "down", "block", "refused", "expire", "streams", "ping"}
  Races = {}
INVARIANTS
  TypeOK
  UrlCurrent
PROPERTIES
  UserStreamReturns
  MarketStreamReturns
  DataReloaded
CHECK_DEADLOCK FALSE
