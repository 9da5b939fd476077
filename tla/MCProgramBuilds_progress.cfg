SPECIFICATION FairSpec
CONSTANTS
  Builds = {b1, b2}
  Programs = {p1}
  Times = {1, 2}
  Rows = {}
  Switches = {w1, w2}
  Requests = {r1, r2}
  Savers = {}
  NoBuild = NoBuild
  NoRow = NoRow
  NoSwitch = NoSwitch
  NoRequest = NoRequest
INVARIANTS HeldBuildsLoadable RunningBuildsLoadable PrunedAreSuperseded
PROPERTIES JobsEnd RequestsEnd
