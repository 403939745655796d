\* One terminal and three commands for the launcher, or two and an edit of the sources, and
\* something that dies; two requests about the persona that overlap and one after them; two recordings; two
\* conversations, replies and clicks on the desk; edits, loads and two
\* requests on each settings page; three deltas in two sections of a reply; an agent's passes
\* with two calls that ask, in every mode, and one fault.
SPECIFICATION EdgesSpec
CONSTANTS
  Terminals = {x1}
  Apps = 1
  Parts = {"deps", "worker"}
  MaxRunners = 2
  MaxCommands = 3
  MaxChanges = 1
  MaxCrashes = 1
  Callers = {c1, c2}
  Profiles = {1, 2}
  MaxSouls = 2
  MaxRaces = 2
  MaxVisits = 3
  Uploaders = {u1, u2}
  Owners = {w1}
  MaxMedia = 2
  MaxLosses = 1
  MaxCleans = 2
  Conversations = {1, 2}
  MaxReplies = 2
  MaxClicks = 2
  Pages = {"telegram", "outbound", "heartbeat", "agent", "voice", "memory", "tools", "secretary", "general"}
  Providers = {1, 2}
  MaxVersions = 3
  MaxFormLoads = 3
  MaxFormAsks = 2
  HeldDeltas = 2
  ScannedDeltas = 2
  MaxDeltas = 3
  MaxSections = 2
  Modes = {"restrictive", "default", "full_access"}
  MaxAgentSteps = 2
  MaxAttempts = 2
  MaxAsks = 2
  MaxPassFaults = 1
\* A part that nobody asks anything of has nothing to do, and bounds end all behaviours.
CHECK_DEADLOCK FALSE
INVARIANTS
  EdgesTypesOK
  StopIsComplete
  LauncherInOrder
  StampHonest
  PersonaHeals
  RecordingsKept
  HistoryFits
  FormsHold
  ReplyHolds
  ApprovedOnly
