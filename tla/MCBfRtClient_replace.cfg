SPECIFICATION FairSpec
CONSTANTS
  p1 = p1  p2 = p2  NoProgram = NoProgram  Programs = {p1, p2}
  d1 = d1  d2 = d2  d3 = d3  NoFilter = NoFilter  Digests = {d1, d2, d3}
  SizeOf <- MCSizeOf
  Readers = {r1}  PageSizes = {1, 2}
  MaxEvents = 2  MaxBytes = 2  MaxListBytes = 2
  MaxTaken = 3  MaxOperations = 1
INVARIANTS NoStaleEvents ErrorIsOwn DeadStreamReported Accounted
PROPERTIES IsEventLog ReplacedThreadsEnd
CHECK_DEADLOCK FALSE
