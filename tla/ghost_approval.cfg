\* A verification pass finds a port closed.
SPECIFICATION OrderlySpec
CONSTANTS
  Jobs = {j1}
  Operators = {o1}
  Calls = {"create"}
  Missing = {"port"}
  NoJob = NoJob
  MaxAttempts = 2
  MaxReqs = 3
  MaxApprovals = 1
  MaxCalls = 1
  MaxFaults = 0
\* A system at rest has nothing to do.
CHECK_DEADLOCK FALSE
INVARIANTS
  WaitingHasRequirement
