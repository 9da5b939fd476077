SPECIFICATION FairSpec
CONSTANTS
  tofino = tofino  bmv2 = bmv2  Ids = {tofino, bmv2}  Native = {tofino}  NoId = NoId
  Requests = {r1, r2}
  Retries = 2
INVARIANTS NothingLeaks
PROPERTIES NotClosedWhileHeld RequestsEnd
CHECK_DEADLOCK FALSE
