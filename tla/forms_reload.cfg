\* The page of the heartbeat, with one edit and nothing asked for.
SPECIFICATION FormsSpec
CONSTANTS
  Pages = {"heartbeat"}
  Providers = {1}
  MaxVersions = 2
  MaxFormLoads = 2
  MaxFormAsks = 0
\* The operator may do nothing.
CHECK_DEADLOCK FALSE
INVARIANTS
  EditsStay
