\* A proposal is moved to another folder and confirmed.
SPECIFICATION Spec
CONSTANTS
  Turns = {t1, t2, t3}
  Clicks = {}
  Paths = {folder}
  Home = Home
  NoPath = NoPath
  MaxFaults = 0
SYMMETRY TurnSymmetry
\* Every message has been handled.
CHECK_DEADLOCK FALSE
INVARIANTS
  LaunchedWhereConfirmed
