\* One operator, one webhook call, two updates, two requests for Telegram; one run by hand and
\* one patch for the heartbeat; one task, two dispatches and three requests for reminders; two
\* messages and one fact for memory; two savers and one loader of settings;
\* two jobs on the console, with one change or maintenance action, a click and a failed request.
\* One thing breaks, or two in the heartbeat; a catch in memory may throw in its turn.
SPECIFICATION ServicesSpec
CONSTANTS
  Operators = {o1}
  Deliveries = {d1}
  MaxUpdates = 2
  BatchLimit = 1
  MaxRequests = 2
  MaxTelegramFaults = 1
  Runs = {r1}
  Patches = {p1}
  MaxBeats = 2
  MaxBeatFaults = 2
  Tasks = {t1}
  Dispatchers = {d1, d2}
  Editors = {e1}
  MaxDue = 1
  MaxSends = 3
  MaxSendFaults = 1
  Outbound = {"email", "sms"}
  Configured = {"telegram", "email"}
  Messages = {m1, m2}
  Facts = {f1}
  MaxEntries = 2
  Curators = {c1}
  RecallLimit = 1
  MaxEdits = 3
  MaxMemoryFaults = 1
  Savers = {s1, s2}
  Loaders = {r1}
  Linkers = {l1}
  Speakers = {t1}
  MaxLockTries = 2
  MaxSaves = 2
  MaxFileFaults = 1
  Builds = {1, 2}
  Looks = {k1}
  Presses = {a1}
  MaxTurns = 1
  MaxPicks = 1
  MaxMisses = 1
\* A system that nobody asks anything of has nothing to do.
CHECK_DEADLOCK FALSE
INVARIANTS
  TypesOK
  NothingForgotten
  OneTurnEach
  KeepsBeating
  RemindersHonest
  OneEntryPerFact
  CompletedIsRemembered
  MemoryInOrder
  NoUpdateLost
  KeyFitsHost
PROPERTIES
  PollingCatchesUp
  DueRuns
  JobsEnd
  ShownCatchesUp
