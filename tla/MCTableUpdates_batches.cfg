SPECIFICATION RowsSpec
CONSTANTS
  k1 = k1  k2 = k2  k3 = k3  Keys = {k1, k2, k3}
  drop = drop  forward = forward  Actions = {drop, forward}  Absent = Absent
  c1 = c1  c2 = c2  Clients = {c1, c2}
  Batches <- MCBatches
  DirectMeter = FALSE
  MaxFaults = 1
INVARIANTS FailedBatchRestores StaleRowRestored SucceededBatchApplied
CHECK_DEADLOCK FALSE
