\* Three messages and a click on the console, in any overlap, and one failure.
SPECIFICATION Spec
CONSTANTS
  Turns = {t1, t2, t3}
  Clicks = {c1}
  Paths = {}
  Home = Home
  NoPath = NoPath
  MaxFaults = 1
SYMMETRY TurnSymmetry
\* Every message has been handled.
CHECK_DEADLOCK FALSE
INVARIANTS
  TypeOK
  MarkedWhenDone
  RunsAreGranted
  RecordsAgree
  OneProposal
  LaunchedOnce
  TurnsAnswered
