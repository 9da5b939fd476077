SPECIFICATION FairSpec
CONSTANTS
  Documents = {a}
  MaxGenerations = 1
  Sessions <- MCSessions
  NoSession = NoSession
  MaxSessions = 1
  MaxEvents = 2
  MaxVersion = 2
  MaxFaults = 0
  Asking = {}
PROPERTIES EarlierLifetimeIgnored
CHECK_DEADLOCK FALSE
