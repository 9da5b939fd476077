SPECIFICATION Spec
CONSTANTS
  Builds = {b1, b2}
  Programs = {p1}
  Times = {1, 2}
  Rows = {s1, s2}
  Switches = {w1}
  Requests = {r1}
  Savers = {v1}
  NoBuild = NoBuild
  NoRow = NoRow
  NoSwitch = NoSwitch
  NoRequest = NoRequest
INVARIANTS NeverNeither
