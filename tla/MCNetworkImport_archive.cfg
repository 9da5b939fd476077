SPECIFICATION FairSpec
CONSTANTS
  member = member
  group = group
  entry = entry
  counter = counter
  const = const
  Entities <- MCEntities
  CategoryOf <- MCCategoryOf
  Needs <- MCNeeds
  ConstEntries <- MCConstEntries
  MaxEdits = 1
  Requests = {q1, q2}
  NoRequest = NoRequest
  MaxStaged = 2
  MaxCompleted = 1
  MaxRetries = 1
  MaxTokens = 3
INVARIANTS ExportedIsImportable CompleteIsFaithful ReferencesRestored DeployedOnce
PROPERTIES ReservationsEnd
CHECK_DEADLOCK FALSE
