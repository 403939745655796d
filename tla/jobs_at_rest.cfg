\* Three requests, each on a job at rest; every probe but the port check may fail.
SPECIFICATION OrderlySpec
CONSTANTS
  Jobs = {j1}
  Operators = {o1}
  Calls = {"create", "resume", "cancel", "decide"}
  Missing = {"workspace", "runtime", "inference", "agent", "time"}
  NoJob = NoJob
  MaxAttempts = 2
  MaxReqs = 3
  MaxApprovals = 2
  MaxCalls = 3
  MaxFaults = 0
\* A system at rest has nothing to do.
CHECK_DEADLOCK FALSE
INVARIANTS
  NoForgottenStep
  HandoffIsFresh
  OneStepRunning
  NotWedged
PROPERTIES
  EventuallyAtRest
