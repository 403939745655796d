\* Two operators race the worker, and something breaks once.
SPECIFICATION WatchedSpec
CONSTANTS
  Jobs = {j1}
  Operators = {o1, o2}
  Calls = {"create", "resume", "cancel", "decide"}
  Missing = {"workspace"}
  NoJob = NoJob
  MaxAttempts = 2
  MaxReqs = 1
  MaxApprovals = 1
  MaxCalls = 2
  MaxFaults = 1
SYMMETRY OperatorSymmetry
\* A system at rest has nothing to do.
CHECK_DEADLOCK FALSE
INVARIANTS
  TypeOK
  CompletedIsVerified
  CancelIsFinal
PROPERTIES
  KeepsPromise
