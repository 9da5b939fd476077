SPECIFICATION FairSpec
CONSTANTS
  Files = {f1, f2}
  Nodes = {h1}
  Users = {u1, u2}
  NoFile = NoFile
  NoNode = NoNode
  MaxJobs = 2
  MaxOperations = 3
INVARIANTS TerminalsRun NetworkIsReported ReadyIsRunning
PROPERTIES AnswersStay DeploymentsEnd StoppedCommandsEnd
CHECK_DEADLOCK FALSE
