SPECIFICATION FairSpec
CONSTANTS
  d1 = d1  d2 = d2  l1 = l1  l2 = l2  l3 = l3
  Digests = {d1, d2}
  Lists = {l1, l2, l3}
  DigestOf <- MCDigestOf
  SizeOf <- MCSizeOf
  Readers = {r1}
  PageSizes = {1, 2}
  NoFilter = NoFilter
  MaxEvents = 2
  MaxBytes = 3
  MaxListBytes = 3
  SendCap = 1
  ArbCap = 1
  MaxResponses = 3
INVARIANTS AckedIsCaptured Accounted EmptyOnceClosed LossIsExplained
PROPERTIES IsEventLog ArbitrationWakes ConsumerEnds
