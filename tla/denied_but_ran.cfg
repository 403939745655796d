\* A no in the chat meets a yes on the console.
SPECIFICATION Spec
CONSTANTS
  Turns = {t1, t2}
  Clicks = {c1}
  Paths = {folder}
  Home = Home
  NoPath = NoPath
  MaxFaults = 0
SYMMETRY TurnSymmetry
\* Every message has been handled.
CHECK_DEADLOCK FALSE
INVARIANTS
  DenialIsTrue
