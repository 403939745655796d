\* A job waits for its runtime and is resumed.
SPECIFICATION OrderlySpec
CONSTANTS
  Jobs = {j1}
  Operators = {o1}
  Calls = {"create", "resume"}
  Missing = {"runtime"}
  NoJob = NoJob
  MaxAttempts = 2
  MaxReqs = 1
  MaxApprovals = 1
  MaxCalls = 1
  MaxFaults = 0
\* A system at rest has nothing to do.
CHECK_DEADLOCK FALSE
INVARIANTS
  NoneStranded
