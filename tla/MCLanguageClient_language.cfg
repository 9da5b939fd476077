SPECIFICATION FairSpec
CONSTANTS
  Documents = {a, b}
  MaxGenerations = 2
  Sessions <- MCSessions
  NoSession = NoSession
  MaxSessions = 1
  MaxEvents = 2
  MaxVersion = 2
  MaxFaults = 1
  Asking = {1}
INVARIANTS ShownIsCurrent BuffersAgree
PROPERTIES DiagnosticsArrive LeftSessionsEnd
CHECK_DEADLOCK FALSE
