\* The worker is restarted once.
SPECIFICATION Spec
CONSTANTS
  Jobs = {j1}
  Operators = {o1}
  Calls = {"create"}
  Missing = {}
  NoJob = NoJob
  MaxAttempts = 2
  MaxReqs = 1
  MaxApprovals = 1
  MaxCalls = 1
  MaxFaults = 1
\* A system at rest has nothing to do.
CHECK_DEADLOCK FALSE
INVARIANTS
  NotWedged
