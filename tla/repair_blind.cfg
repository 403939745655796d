\* One job whose agent asks for nothing that needs an approval or for one call, and no faults:
\* a verification finds a blocker and the implementation is told to work on it.
SPECIFICATION PassSpec
CONSTANTS
  Modes = {"restrictive", "default", "full_access"}
  MaxAgentSteps = 2
  MaxAttempts = 2
  MaxAsks = 2
  MaxPassFaults = 0
CHECK_DEADLOCK FALSE
INVARIANT RepairIsTold
