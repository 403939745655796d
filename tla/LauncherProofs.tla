---------------------------- MODULE LauncherProofs ----------------------------
(***************************************************************************)
(* What the two launchers may rely on: a stamp tells the truth about what  *)
(* was built, whoever built it; and secretary.py, as long as it is used    *)
(* alone, finds the runner it has started and leaves nothing behind.       *)
(***************************************************************************)
EXTENDS Launcher, TLAPS

\* A command that builds or, as a restart, is going to: of those there is one at a time.
Boots(c) == AtWork(c) /\ (\/ command[c].at \in {"read", "stat", "build", "building", "docker", "retry", "save"}
                          \/ command[c].kind = "nodeRestart")
OneBoots == \A c, d \in Terminals : Boots(c) /\ Boots(d) => c = d

\* Stamps are not ahead of the sources, and one that has caught up with them is true.
HonestOf(stamp, versions, outputs) ==
    \A p \in Parts : stamp[p] <= versions[p] /\ (stamp[p] = versions[p] => outputs[p] = versions[p])
Honest(stamp) == HonestOf(stamp, source, dist)
StampsHonest ==
    /\ \A p \in Parts : source[p] > 0
    /\ \A l \in Launchers, p \in Parts : mtime[l][p] <= source[p]
    /\ \A l \in Launchers : Honest(file[l].stamp)
    /\ \A c \in Terminals : Honest(command[c].state.stamp)

\* What a build is made from is no older than its stamp, nor than any stamp there is.
BuildsHonest ==
    \A c \in Terminals :
        LET part == command[c].part
        IN  /\ command[c].at \in {"build", "building"} => command[c].version <= source[part]
            /\ command[c].at = "building" =>
                  /\ command[c].version <= command[c].built /\ command[c].built <= source[part]
                  /\ \A l \in Launchers : file[l].stamp[part] <= command[c].built
                  /\ \A d \in Terminals : command[d].state.stamp[part] <= command[c].built

StampInv == LauncherTypeOK /\ OneBoots /\ StampsHonest /\ BuildsHonest

-----------------------------------------------------------------------------
(* secretary.py alone *)

\* What a command of secretary.py that does not stay in the foreground goes through.
GoesOn(kind, step) ==
    \/ kind \in {"install", "all"} /\ step \in {"read", "stat", "build", "building", "docker", "retry", "save"}
    \/ kind \in {"start", "all"} /\ step \in {"docker", "retry", "check", "spawn", "record"}
    \/ kind = "stop" /\ step \in {"look", "kill", "await", "ports", "patterns", "down", "unlink"}
GoesThrough(c) == command[c] = NoCommand \/ GoesOn(command[c].kind, command[c].at)
OneAfterTheOther ==
    /\ \A c \in Terminals : GoesThrough(c)
    /\ \A c, d \in Terminals : command[c] # NoCommand /\ command[d] # NoCommand => c = d

At(c, steps) == command[c].at \in steps
NoneAlive == \A r \in 1 .. MaxRunners : ~Alive(r)

\* A runner is the recorded one, or is about to be recorded, and has its infrastructure unless
\* something failed or that is being brought up again.
RunnerKnown ==
    \A r \in 1 .. MaxRunners : Alive(r) =>
        /\ docker \/ "fault" \in disorder \/ \E c \in Terminals : At(c, {"retry"})
        /\ r = file["py"].pid \/ \E c \in Terminals : At(c, {"record"}) /\ command[c].pid = r

\* What a command has read is what is in the file, and what it has done stays done.
FreshAt(c) ==
    /\ At(c, {"stat", "build", "building", "docker", "retry", "save"}) /\ command[c].kind # "start"
           => command[c].state.pid = file["py"].pid
    /\ At(c, {"kill", "await"}) => command[c].pid = file["py"].pid
    /\ At(c, {"read"}) => command[c].part = "deps"
    /\ At(c, {"stat", "build", "building"}) /\ command[c].part # "deps" => docker
    /\ At(c, {"save", "check", "spawn", "record"}) => docker
    /\ At(c, {"spawn", "ports", "patterns", "down", "unlink"}) => NoneAlive
    /\ At(c, {"record"}) => \A r \in 1 .. MaxRunners : Alive(r) => r = command[c].pid
    /\ At(c, {"unlink"}) => (docker => "docker" \in disorder)

\* Once stopped, nothing is given or alive.
StoppedIsQuiet == stopped => NoneAlive /\ (docker => "docker" \in disorder) /\ \A c \in Terminals : command[c] = NoCommand

\* On Unix the services are gone once they were looked for by name; on Windows a runner takes its
\* services along, unless it dies of something else.
UnixServices ==
    platform = "unix" => /\ \A c \in Terminals : At(c, {"down", "unlink"}) => live = {}
                         /\ stopped => live = {}
WindowsServices ==
    platform # "unix" /\ disorder \subseteq {"docker"} =>
        /\ \A r \in 1 .. MaxRunners : runner[r].at \in {"none", "on", "gone"}
        /\ \A s \in live : runner[s[1]].at = "on"

StopRest == /\ OneAfterTheOther /\ RunnerKnown /\ (\A c \in Terminals : FreshAt(c))
            /\ StoppedIsQuiet /\ UnixServices /\ WindowsServices
StopInv == LauncherTypeOK /\ (PyAlone => StopRest)

-----------------------------------------------------------------------------
(* Types *)

CommandValues == PyKinds \cup NodeKinds

\* An idle terminal holds no state and no step.
LEMMA NothingGiven ==
    /\ NoState \in LauncherState /\ NoState.pid = 0 /\ NoState.stamp = [p \in Parts |-> 0]
    /\ NoCommand \in Command /\ NoCommand.at = "idle" /\ NoCommand.kind = "stop"
    /\ NoCommand.state = NoState /\ NoCommand.pid = 0 /\ NoCommand.part = "deps"
    /\ NoRunner \in ServiceRunner /\ NoRunner.at = "none"
  BY LauncherAssumption DEF NoState, LauncherState, NoCommand, Command, NoRunner, ServiceRunner, Pids, Versions,
                            PyKinds, NodeKinds, Steps

\* What a step of a command leaves of it, and of the other terminals.
Others(c) == \A d \in Terminals \ {c} : command'[d] = command[d]

NothingToKill(c) == command[c].pid = 0 \/ (platform = "unix" /\ Its(c) = "node")
MaySignal(c) == platform = "unix" /\ command[c].pid # 0 /\ Its(c) = "py" /\ Alive(command[c].pid)
Ended(c) == Others(c) /\ command'[c] = NoCommand
Moved(c, step) ==
    /\ Others(c)
    /\ command'[c].at = step /\ command'[c].kind = command[c].kind
    /\ command'[c].part = command[c].part /\ command'[c].state = command[c].state
    /\ command'[c].version = command[c].version /\ command'[c].built = command[c].built
    /\ command'[c].pid = command[c].pid

\* A command that goes on stays what it is.
LEMMA GoesTo ==
    ASSUME LauncherTypeOK, NEW c \in Terminals, NEW step \in Steps, GoTo(c, step)
    PROVE  command' \in [Terminals -> Command] /\ Moved(c, step)
  BY DEF LauncherTypeOK, GoTo, Others, Moved, Command, sources

\* A command that has ended is none.
LEMMA Finishes ==
    ASSUME LauncherTypeOK, NEW c \in Terminals, Finish(c)
    PROVE  command' \in [Terminals -> Command] /\ Ended(c)
  BY NothingGiven DEF LauncherTypeOK, Finish, Others, Ended, sources

\* Versions are numbers.
LEMMA VersionsAreNat == Versions \subseteq Nat
  BY LauncherAssumption DEF Versions

\* The steps there are.
LEMMA StepsAre == \A step \in {"idle", "read", "stat", "build", "building", "docker", "retry", "save", "check", "spawn",
          "record", "attend", "preflight", "look", "kill", "await", "patterns", "ports", "forget",
          "down", "unlink"} : step \in Steps
  BY DEF Steps

\* A command is given where none was.
LEMMA GiveDoes ==
    ASSUME LauncherTypeOK, NEW c \in Terminals, Give(c)
    PROVE  /\ LauncherTypeOK' /\ Others(c) /\ command[c].at = "idle"
           /\ \E kind \in CommandValues \ {"interrupt"} :
                 command'[c] = [command[c] EXCEPT !.kind = kind, !.at = FirstStep(kind)]
           /\ command'[c].kind \in CommandValues /\ command'[c].at = FirstStep(command'[c].kind)
           /\ command'[c].state = command[c].state /\ command'[c].part = command[c].part
           /\ disorder' = IF command'[c].kind \in {"install", "start", "all", "stop"} THEN disorder
                          ELSE disorder \cup {"others"}
  <1>1. PICK kind \in CommandValues \ {"interrupt"} :
           /\ command' = [command EXCEPT ![c].kind = kind, ![c].at = FirstStep(kind)]
           /\ disorder' = IF kind \in {"install", "start", "all", "stop"} THEN disorder
                          ELSE disorder \cup {"others"}
    BY DEF Give, CommandValues
  <1>2. FirstStep(kind) \in Steps /\ kind \in PyKinds \cup NodeKinds
    BY StepsAre DEF FirstStep, CommandValues
  <1>3. command' \in [Terminals -> Command] /\ Others(c) /\ command'[c].kind = kind
        /\ command'[c].at = FirstStep(kind) /\ command'[c].state = command[c].state
        /\ command'[c].part = command[c].part
        /\ command'[c] = [command[c] EXCEPT !.kind = kind, !.at = FirstStep(kind)]
    BY <1>1, <1>2 DEF LauncherTypeOK, Others, Command, sources
  <1>4. given' \in 0 .. MaxCommands /\ stopped' \in BOOLEAN
    <2>1. given \in 0 .. MaxCommands /\ given < MaxCommands /\ given' = given + 1
      BY DEF Give, LauncherTypeOK, sources
    <2>2. given' \in 0 .. MaxCommands
      BY <2>1, LauncherAssumption
    <2> QED
      BY <2>2 DEF Give
  <1>5. disorder' \subseteq Disorders
    BY <1>1 DEF LauncherTypeOK, sources, Disorders
  <1> QED
    BY <1>1, <1>3, <1>4, <1>5 DEF Give, LauncherTypeOK, world, sources

\* Ctrl+C makes the command that waits stop its runner.
LEMMA InterruptDoes ==
    ASSUME LauncherTypeOK, NEW c \in Terminals, Interrupt(c)
    PROVE  /\ LauncherTypeOK' /\ Others(c) /\ command[c].at = "attend"
           /\ command'[c].kind # "nodeRestart" /\ command'[c].at \in {"await", "look"}
           /\ command'[c].state = command[c].state
  <1>1. command' \in [Terminals -> Command] /\ Others(c) /\ command'[c].state = command[c].state
        /\ command'[c].kind # "nodeRestart" /\ command'[c].at \in {"await", "look"}
    <2>1. CASE command[c].kind = "foreground"
      BY <2>1, GoesTo, StepsAre DEF Interrupt, Moved
    <2>2. CASE command[c].kind # "foreground"
      <3>1. "look" \in Steps /\ "interrupt" \in PyKinds \cup NodeKinds
        BY StepsAre DEF NodeKinds
      <3> QED
        BY <2>2, <3>1 DEF Interrupt, LauncherTypeOK, Others, Command, sources
    <2> QED
      BY <2>1, <2>2
  <1>2. runner' \in [1 .. MaxRunners -> ServiceRunner] /\ live' \subseteq Services
    BY DEF Interrupt, Signal, LauncherTypeOK, ServiceRunner, sources
  <1> QED
    BY <1>1, <1>2 DEF Interrupt, LauncherTypeOK, world, tally, sources

\* The state of the command's own launcher is read.
LEMMA ReadStateDoes ==
    ASSUME LauncherTypeOK, NEW c \in Terminals, ReadState(c)
    PROVE  /\ LauncherTypeOK' /\ Others(c) /\ command'[c].at = "stat" /\ command'[c].state = file[Its(c)]
           /\ command'[c].kind = command[c].kind /\ command'[c].part = command[c].part
  <1>1. "stat" \in Steps /\ file[Its(c)] \in LauncherState
    BY StepsAre DEF LauncherTypeOK, Launchers, Its, LauncherOf, sources
  <1>2. command' \in [Terminals -> Command] /\ Others(c) /\ command'[c].at = "stat"
        /\ command'[c].state = file[Its(c)] /\ command'[c].kind = command[c].kind
        /\ command'[c].part = command[c].part
    BY <1>1 DEF ReadState, LauncherTypeOK, Others, Command, sources
  <1> QED
    BY <1>2 DEF ReadState, LauncherTypeOK, world, tally, sources

\* A part is passed over, or will be built from what its sources are now.
LEMMA StatDoes ==
    ASSUME LauncherTypeOK, NEW c \in Terminals, Stat(c)
    PROVE  /\ LauncherTypeOK' /\ Others(c)
           /\ command'[c].state = command[c].state /\ command'[c].kind = command[c].kind
           /\ \/ command'[c].at = AfterPart(command[c].part) /\ command'[c].part = PartAfter(command[c].part)
              \/ /\ command'[c].at = "build" /\ command'[c].version = mtime[Its(c)][command[c].part]
                 /\ command'[c].part = command[c].part
  <1>1. command[c].part \in Parts /\ mtime[Its(c)][command[c].part] \in Versions
    BY DEF LauncherTypeOK, Command, Its, LauncherOf, Launchers
  <1>2. AfterPart(command[c].part) \in Steps /\ PartAfter(command[c].part) \in Parts /\ "build" \in Steps
    BY <1>1, StepsAre DEF AfterPart, PartAfter, SpeechNext
  <1>3. CASE UpToDate(c)
    <2>1. command' = [command EXCEPT ![c].at = AfterPart(command[c].part), ![c].part = PartAfter(command[c].part)]
          /\ UNCHANGED <<world, file, runner, live, tally>>
      BY <1>3 DEF Stat
    <2>2. /\ command' \in [Terminals -> Command] /\ Others(c)
          /\ command'[c].state = command[c].state /\ command'[c].kind = command[c].kind
          /\ command'[c].at = AfterPart(command[c].part) /\ command'[c].part = PartAfter(command[c].part)
      BY <1>2, <2>1 DEF LauncherTypeOK, Others, Command
    <2> QED
      BY <2>1, <2>2 DEF LauncherTypeOK, world, tally, sources
  <1>4. CASE ~UpToDate(c)
    <2>1. command' = [command EXCEPT ![c].at = "build", ![c].version = mtime[Its(c)][command[c].part]]
          /\ UNCHANGED <<world, file, runner, live, tally>>
      BY <1>4 DEF Stat
    <2>2. /\ command' \in [Terminals -> Command] /\ Others(c)
          /\ command'[c].state = command[c].state /\ command'[c].kind = command[c].kind
          /\ command'[c].at = "build" /\ command'[c].version = mtime[Its(c)][command[c].part]
          /\ command'[c].part = command[c].part
      BY <1>1, <1>2, <2>1 DEF LauncherTypeOK, Others, Command
    <2> QED
      BY <2>1, <2>2 DEF LauncherTypeOK, world, tally, sources
  <1> QED
    BY <1>3, <1>4

\* The build reads its sources.
LEMMA BeginBuildDoes ==
    ASSUME LauncherTypeOK, NEW c \in Terminals, BeginBuild(c)
    PROVE  /\ LauncherTypeOK' /\ Others(c) /\ command'[c].at = "building" /\ command'[c].kind = command[c].kind
           /\ command'[c].part = command[c].part /\ command'[c].version = command[c].version
           /\ command'[c].state = command[c].state /\ command'[c].built = source[command[c].part]
  <1>1. "building" \in Steps /\ source[command[c].part] \in Versions
    BY StepsAre DEF LauncherTypeOK, Command, sources
  <1>2. command' \in [Terminals -> Command] /\ Others(c) /\ command'[c].at = "building"
        /\ command'[c].kind = command[c].kind /\ command'[c].part = command[c].part
        /\ command'[c].version = command[c].version /\ command'[c].state = command[c].state
        /\ command'[c].built = source[command[c].part]
    BY <1>1 DEF BeginBuild, LauncherTypeOK, Others, Command, sources
  <1> QED
    BY <1>2 DEF BeginBuild, LauncherTypeOK, world, tally, sources

\* The part is stamped with what its sources were before the build.
LEMMA EndBuildDoes ==
    ASSUME LauncherTypeOK, NEW c \in Terminals, EndBuild(c)
    PROVE  /\ LauncherTypeOK' /\ Others(c) /\ command'[c].kind = command[c].kind
           /\ command'[c].at = AfterPart(command[c].part) /\ command'[c].part = PartAfter(command[c].part)
           /\ command'[c].state = [command[c].state EXCEPT !.stamp = [@ EXCEPT ![command[c].part] = command[c].version]]
  <1>1. command[c].part \in Parts /\ command[c].version \in Versions /\ command[c].built \in Versions
    BY DEF LauncherTypeOK, Command, sources
  <1>2. AfterPart(command[c].part) \in Steps /\ PartAfter(command[c].part) \in Parts
    BY <1>1, StepsAre DEF AfterPart, PartAfter, SpeechNext
  <1>3. [command[c].state EXCEPT !.stamp = [@ EXCEPT ![command[c].part] = command[c].version]] \in LauncherState
    BY <1>1 DEF LauncherState, LauncherTypeOK, Command, sources
  <1>4. /\ command' \in [Terminals -> Command] /\ Others(c) /\ command'[c].kind = command[c].kind
        /\ command'[c].at = AfterPart(command[c].part) /\ command'[c].part = PartAfter(command[c].part)
        /\ command'[c].state = [command[c].state EXCEPT !.stamp = [@ EXCEPT ![command[c].part] = command[c].version]]
    BY <1>2, <1>3 DEF EndBuild, LauncherTypeOK, Others, Command, sources
  <1>5. dist' \in [Parts -> Versions]
    BY <1>1 DEF EndBuild, LauncherTypeOK, sources
  <1> QED
    BY <1>4, <1>5 DEF EndBuild, LauncherTypeOK, world, tally, sources

\* A build that fails ends its command.
LEMMA BuildFailsDoes ==
    ASSUME LauncherTypeOK, NEW c \in Terminals, BuildFails(c)
    PROVE  /\ LauncherTypeOK' /\ Others(c) /\ command'[c] = NoCommand
           /\ dist' \in {dist, [dist EXCEPT ![command[c].part] = command[c].built]}
           /\ disorder' = disorder \cup {"fault"}
  <1>1. command' \in [Terminals -> Command] /\ Others(c) /\ command'[c] = NoCommand
    BY Finishes DEF BuildFails, Ended, sources
  <1>2. dist' \in [Parts -> Versions]
    BY DEF BuildFails, LauncherTypeOK, Command, sources
  <1>3. crashes' \in 0 .. MaxCrashes /\ disorder' \subseteq Disorders
    BY LauncherAssumption DEF BuildFails, LauncherTypeOK, sources, Disorders
  <1> QED
    BY <1>1, <1>2, <1>3 DEF BuildFails, LauncherTypeOK, sources

\* The infrastructure is up, and what follows depends on the command.
LEMMA UpDockerDoes ==
    ASSUME LauncherTypeOK, NEW c \in Terminals, UpDocker(c)
    PROVE  /\ LauncherTypeOK' /\ Others(c) /\ command'[c].kind = command[c].kind
           /\ command'[c].part = "worker" /\ command'[c].state = command[c].state
           /\ command'[c].at = CASE command[c].kind = "start" -> "check"
                                 [] command[c].kind = "foreground" -> "spawn"
                                 [] OTHER -> "stat"
  <1> DEFINE step == CASE command[c].kind = "start" -> "check"
                         [] command[c].kind = "foreground" -> "spawn"
                         [] OTHER -> "stat"
  <1>1. step \in Steps /\ "worker" \in Parts
    BY StepsAre, LauncherAssumption
  <1> HIDE DEF step
  <1>2. command' = [command EXCEPT ![c].part = "worker", ![c].at = step]
    BY DEF UpDocker, step, sources
  <1>3. command' \in [Terminals -> Command] /\ Others(c) /\ command'[c].at = step
        /\ command'[c].kind = command[c].kind /\ command'[c].part = "worker"
        /\ command'[c].state = command[c].state
    BY <1>1, <1>2 DEF LauncherTypeOK, Others, Command, sources
  <1>4. docker' \in BOOLEAN /\ UNCHANGED <<platform, source, mtime, dist, file, runner, live, tally>>
    BY DEF UpDocker, sources
  <1> QED
    BY <1>3, <1>4 DEF LauncherTypeOK, tally, step, sources

\* The infrastructure is tried once more.
LEMMA DownAndRetryDoes ==
    ASSUME LauncherTypeOK, NEW c \in Terminals, DownAndRetry(c)
    PROVE  LauncherTypeOK' /\ Moved(c, "retry")
  <1>1. command' \in [Terminals -> Command] /\ Moved(c, "retry")
    BY GoesTo, StepsAre DEF DownAndRetry
  <1> QED
    BY <1>1 DEF DownAndRetry, LauncherTypeOK, sources, tally

\* An infrastructure that does not come up ends its command.
LEMMA UpFailsDoes ==
    ASSUME LauncherTypeOK, NEW c \in Terminals, UpFails(c)
    PROVE  LauncherTypeOK' /\ Ended(c)
  <1>1. command' \in [Terminals -> Command] /\ Ended(c)
    BY Finishes DEF UpFails
  <1>2. crashes' \in 0 .. MaxCrashes /\ disorder' \subseteq Disorders
    BY LauncherAssumption DEF UpFails, LauncherTypeOK, Disorders
  <1> QED
    BY <1>1, <1>2 DEF UpFails, LauncherTypeOK, sources

\* A command that dies is none.
LEMMA LauncherDiesDoes ==
    ASSUME LauncherTypeOK, NEW c \in Terminals, LauncherDies(c)
    PROVE  LauncherTypeOK' /\ Ended(c)
  <1>1. command' \in [Terminals -> Command] /\ Ended(c)
    BY Finishes DEF LauncherDies
  <1>2. crashes' \in 0 .. MaxCrashes /\ disorder' \subseteq Disorders
    BY LauncherAssumption DEF LauncherDies, LauncherTypeOK, Disorders
  <1> QED
    BY <1>1, <1>2 DEF LauncherDies, LauncherTypeOK, world, sources

\* What the bootstrap read and stamped goes to the file of its launcher.
LEMMA SaveStateDoes ==
    ASSUME LauncherTypeOK, NEW c \in Terminals, SaveState(c)
    PROVE  /\ LauncherTypeOK' /\ file' = [file EXCEPT ![Its(c)] = command[c].state]
           /\ \/ command[c].kind = "all" /\ Moved(c, "check")
              \/ command[c].kind = "nodeStart" /\ Moved(c, "preflight")
              \/ command[c].kind \notin {"all", "nodeStart"} /\ Ended(c)
  <1>1. command' \in [Terminals -> Command]
        /\ \/ command[c].kind = "all" /\ Moved(c, "check")
           \/ command[c].kind = "nodeStart" /\ Moved(c, "preflight")
           \/ command[c].kind \notin {"all", "nodeStart"} /\ Ended(c)
    <2>1. CASE command[c].kind = "all"
      BY <2>1, GoesTo, StepsAre DEF SaveState
    <2>2. CASE command[c].kind = "nodeStart"
      BY <2>2, GoesTo, StepsAre DEF SaveState
    <2>3. CASE command[c].kind \notin {"all", "nodeStart"}
      BY <2>3, Finishes DEF SaveState
    <2> QED
      BY <2>1, <2>2, <2>3
  <1>2. file' \in [Launchers -> LauncherState]
    BY DEF SaveState, LauncherTypeOK, Command, sources
  <1>3. file' = [file EXCEPT ![Its(c)] = command[c].state] /\ UNCHANGED <<world, runner, live, tally>>
    BY DEF SaveState
  <1> QED
    BY <1>1, <1>2, <1>3 DEF LauncherTypeOK, world, tally, sources

\* A runner is spawned unless the recorded one lives.
LEMMA CheckPidDoes ==
    ASSUME LauncherTypeOK, NEW c \in Terminals, CheckPid(c)
    PROVE  /\ LauncherTypeOK'
           /\ \/ Ended(c)
              \/ /\ Others(c) /\ command'[c].at = "spawn" /\ command'[c].state = file["py"]
                 /\ command'[c].kind = command[c].kind
                 /\ file["py"].pid # 0 => ~Alive(file["py"].pid)
  <1>1. CASE Finish(c)
    BY <1>1, Finishes DEF CheckPid, LauncherTypeOK, Ended, world, tally, sources
  <1>2. CASE ~Finish(c)
    <2>1. "spawn" \in Steps /\ file["py"] \in LauncherState
      BY StepsAre DEF LauncherTypeOK, Launchers, sources
    <2>2. command' = [command EXCEPT ![c].at = "spawn", ![c].state = file["py"]]
          /\ (file["py"].pid # 0 => ~Alive(file["py"].pid))
      BY <1>2 DEF CheckPid
    <2> QED
      BY <2>1, <2>2 DEF CheckPid, LauncherTypeOK, Others, Command, world, tally, sources
  <1> QED
    BY <1>1, <1>2

\* A new runner is on.
LEMMA SpawnRunnerDoes ==
    ASSUME LauncherTypeOK, NEW c \in Terminals, SpawnRunner(c)
    PROVE  /\ LauncherTypeOK' /\ Others(c) /\ command'[c].pid \in 1 .. MaxRunners
           /\ runner' = [runner EXCEPT ![command'[c].pid].at = "on"]
           /\ command'[c].state = command[c].state /\ command'[c].kind = command[c].kind
           /\ command'[c].at = IF command[c].kind = "foreground" THEN "attend" ELSE "record"
  <1>1. PICK r \in 1 .. MaxRunners :
           /\ runner' = [runner EXCEPT ![r].at = "on"]
           /\ command' = [command EXCEPT ![c].pid = r,
                  ![c].at = IF command[c].kind = "foreground" THEN "attend" ELSE "record"]
    BY DEF SpawnRunner
  <1>2. r \in Pids /\ "attend" \in Steps /\ "record" \in Steps
    BY StepsAre, LauncherAssumption DEF Pids
  <1>3. command' \in [Terminals -> Command] /\ Others(c) /\ command'[c].pid = r
        /\ command'[c].state = command[c].state /\ command'[c].kind = command[c].kind
        /\ command'[c].at = IF command[c].kind = "foreground" THEN "attend" ELSE "record"
    BY <1>1, <1>2 DEF LauncherTypeOK, Others, Command, sources
  <1>4. runner' \in [1 .. MaxRunners -> ServiceRunner]
    BY <1>1 DEF LauncherTypeOK, ServiceRunner, sources
  <1> QED
    BY <1>1, <1>3, <1>4 DEF SpawnRunner, LauncherTypeOK, world, tally, sources

\* The new runner is recorded.
LEMMA RecordPidDoes ==
    ASSUME LauncherTypeOK, NEW c \in Terminals, RecordPid(c)
    PROVE  /\ LauncherTypeOK'
           /\ file' = [file EXCEPT ![Its(c)] =
                  [(IF Its(c) = "py" THEN command[c].state ELSE file["node"]) EXCEPT !.pid = command[c].pid]]
           /\ IF Its(c) = "py" THEN Ended(c) ELSE Moved(c, "attend")
  <1> DEFINE state == IF Its(c) = "py" THEN command[c].state ELSE file["node"]
  <1>1. state \in LauncherState /\ command[c].pid \in Pids
    BY DEF LauncherTypeOK, Command, Launchers, sources
  <1>2. [state EXCEPT !.pid = command[c].pid] \in LauncherState
    BY <1>1 DEF LauncherState
  <1>3. file' = [file EXCEPT ![Its(c)] = [state EXCEPT !.pid = command[c].pid]]
        /\ (IF Its(c) = "py" THEN Finish(c) ELSE GoTo(c, "attend")) /\ UNCHANGED <<world, runner, live, tally>>
    BY DEF RecordPid
  <1>4. file' \in [Launchers -> LauncherState]
    BY <1>2, <1>3 DEF LauncherTypeOK, sources
  <1>5. command' \in [Terminals -> Command] /\ (IF Its(c) = "py" THEN Ended(c) ELSE Moved(c, "attend"))
    BY <1>3, Finishes, GoesTo, StepsAre
  <1> QED
    BY <1>3, <1>4, <1>5 DEF LauncherTypeOK, world, tally, sources

\* A command that waited for its runner ends with it.
LEMMA RunnerEndedDoes ==
    ASSUME LauncherTypeOK, NEW c \in Terminals, RunnerEnded(c)
    PROVE  /\ LauncherTypeOK' /\ Ended(c)
           /\ file' \in {file, [file EXCEPT !["node"].pid = 0]} /\ command[c].at = "attend"
  <1>1. command' \in [Terminals -> Command] /\ Ended(c)
    BY Finishes DEF RunnerEnded
  <1>2. [file["node"] EXCEPT !.pid = 0] \in LauncherState
    <2>1. file["node"] \in LauncherState /\ 0 \in Pids
      BY LauncherAssumption DEF LauncherTypeOK, Launchers, Pids, sources
    <2> QED
      BY <2>1 DEF LauncherState
  <1>3. file' \in [Launchers -> LauncherState]
    BY <1>2 DEF RunnerEnded, LauncherTypeOK, sources
  <1> QED
    BY <1>1, <1>3 DEF RunnerEnded, LauncherTypeOK, world, tally, sources

\* A stop reads the file of its launcher.
LEMMA LookDoes ==
    ASSUME LauncherTypeOK, NEW c \in Terminals, Look(c)
    PROVE  /\ LauncherTypeOK' /\ Others(c) /\ command'[c].at = "kill" /\ command'[c].kind = command[c].kind
           /\ command'[c].state = file[Its(c)] /\ command'[c].pid = file[Its(c)].pid
  <1>1. "kill" \in Steps /\ file[Its(c)] \in LauncherState /\ file[Its(c)].pid \in Pids
    BY StepsAre DEF LauncherTypeOK, Launchers, Its, LauncherOf, LauncherState, sources
  <1>2. command' \in [Terminals -> Command] /\ Others(c) /\ command'[c].at = "kill"
        /\ command'[c].kind = command[c].kind
        /\ command'[c].state = file[Its(c)] /\ command'[c].pid = file[Its(c)].pid
    BY <1>1 DEF Look, LauncherTypeOK, Others, Command, sources
  <1> QED
    BY <1>2 DEF Look, LauncherTypeOK, world, tally, sources

\* The recorded process is stopped, in one way or another.
LEMMA KillRecordedDoes ==
    ASSUME LauncherTypeOK, NEW c \in Terminals, KillRecorded(c)
    PROVE  /\ LauncherTypeOK' /\ Moved(c, IF Its(c) = "py" THEN "await" ELSE "patterns")
           /\ \/ NothingToKill(c) /\ UNCHANGED <<runner, live>>
              \/ MaySignal(c) /\ Signal(command[c].pid)
              \/ /\ ~NothingToKill(c) /\ ~MaySignal(c)
                 /\ runner' = [runner EXCEPT ![command[c].pid].at = "gone"]
                 /\ live' = IF Alive(command[c].pid) THEN {s \in live : s[1] # command[c].pid} ELSE live
  <1>1. command' \in [Terminals -> Command] /\ Moved(c, IF Its(c) = "py" THEN "await" ELSE "patterns")
    BY GoesTo, StepsAre DEF KillRecorded
  <1> DEFINE killed == /\ runner' = [runner EXCEPT ![command[c].pid].at = "gone"]
                       /\ live' = IF Alive(command[c].pid) THEN {s \in live : s[1] # command[c].pid} ELSE live
  <1>2. (CASE NothingToKill(c) -> UNCHANGED <<runner, live>>
           [] MaySignal(c) -> Signal(command[c].pid)
           [] OTHER -> killed)
    BY DEF KillRecorded, NothingToKill, MaySignal
  <1>3. \/ NothingToKill(c) /\ UNCHANGED <<runner, live>>
        \/ MaySignal(c) /\ Signal(command[c].pid)
        \/ ~NothingToKill(c) /\ ~MaySignal(c) /\ killed
    <2>1. ~(NothingToKill(c) /\ MaySignal(c))
      BY DEF NothingToKill, MaySignal
    <2>2. CASE NothingToKill(c)
      BY <1>2, <2>1, <2>2
    <2>3. CASE MaySignal(c)
      BY <1>2, <2>1, <2>3
    <2>4. CASE ~NothingToKill(c) /\ ~MaySignal(c)
      BY <1>2, <2>4
    <2> QED
      BY <2>2, <2>3, <2>4
  <1>4. runner' \in [1 .. MaxRunners -> ServiceRunner] /\ live' \subseteq Services
    BY <1>3 DEF Signal, LauncherTypeOK, ServiceRunner, sources
  <1>5. UNCHANGED <<world, file, tally>>
    BY DEF KillRecorded
  <1> QED
    BY <1>1, <1>3, <1>4, <1>5 DEF LauncherTypeOK, world, tally, sources

\* The runner is gone.
LEMMA AwaitEndDoes ==
    ASSUME LauncherTypeOK, NEW c \in Terminals, AwaitEnd(c)
    PROVE  /\ LauncherTypeOK' /\ Moved(c, IF command[c].kind = "stop" THEN "ports" ELSE "down")
  <1>1. command' \in [Terminals -> Command] /\ Moved(c, IF command[c].kind = "stop" THEN "ports" ELSE "down")
    BY GoesTo, StepsAre DEF AwaitEnd
  <1> QED
    BY <1>1 DEF AwaitEnd, LauncherTypeOK, world, tally, sources

\* What listens on the ports is killed.
LEMMA KillPortsDoes ==
    ASSUME LauncherTypeOK, NEW c \in Terminals, KillPorts(c)
    PROVE  /\ LauncherTypeOK' /\ live' \subseteq live
           /\ \/ command[c].at = "preflight" /\ Moved(c, "look")
              \/ command[c].at = "ports" /\ Its(c) = "py" /\ Moved(c, "patterns")
              \/ command[c].at = "ports" /\ Its(c) # "py" /\ Moved(c, "forget")
  <1>1. /\ command[c].at \in {"ports", "preflight"}
        /\ GoTo(c, CASE command[c].at = "preflight" -> "look"
                     [] command[c].at = "ports" /\ Its(c) = "py" -> "patterns"
                     [] OTHER -> "forget")
    BY DEF KillPorts
  <1>2. \/ command[c].at = "preflight" /\ GoTo(c, "look")
        \/ command[c].at = "ports" /\ Its(c) = "py" /\ GoTo(c, "patterns")
        \/ command[c].at = "ports" /\ Its(c) # "py" /\ GoTo(c, "forget")
    <2>1. CASE command[c].at = "preflight"
      BY <1>1, <2>1
    <2>2. CASE command[c].at = "ports" /\ Its(c) = "py"
      BY <1>1, <2>2
    <2>3. CASE command[c].at = "ports" /\ Its(c) # "py"
      BY <1>1, <2>3
    <2> QED
      BY <1>1, <2>1, <2>2, <2>3
  <1>3. command' \in [Terminals -> Command]
        /\ \/ command[c].at = "preflight" /\ Moved(c, "look")
           \/ command[c].at = "ports" /\ Its(c) = "py" /\ Moved(c, "patterns")
           \/ command[c].at = "ports" /\ Its(c) # "py" /\ Moved(c, "forget")
    BY <1>2, GoesTo, StepsAre
  <1>4. live' \subseteq live
    BY DEF KillPorts
  <1> QED
    BY <1>3, <1>4 DEF KillPorts, LauncherTypeOK, world, tally, sources

\* So is what has the command line of a service, where it is looked for.
LEMMA KillPatternsDoes ==
    ASSUME LauncherTypeOK, NEW c \in Terminals, KillPatterns(c)
    PROVE  /\ LauncherTypeOK' /\ Moved(c, IF Its(c) = "py" THEN "down" ELSE "ports")
           /\ live' = IF (Its(c) = "py") = (platform = "unix") THEN {} ELSE live
  <1>1. command' \in [Terminals -> Command] /\ Moved(c, IF Its(c) = "py" THEN "down" ELSE "ports")
    BY GoesTo, StepsAre DEF KillPatterns
  <1> QED
    BY <1>1 DEF KillPatterns, LauncherTypeOK, world, tally, sources

\* The orchestrator forgets its processes and goes on.
LEMMA ForgetDoes ==
    ASSUME LauncherTypeOK, NEW c \in Terminals, Forget(c)
    PROVE  /\ LauncherTypeOK'
           /\ file' = [file EXCEPT !["node"] = [command[c].state EXCEPT !.pid = 0]]
           /\ \/ command[c].kind = "nodeStop" /\ Moved(c, "down")
              \/ command[c].kind = "nodeStart" /\ Moved(c, "spawn")
              \/ /\ command[c].kind = "nodeRestart" /\ Others(c) /\ command'[c].kind = "nodeStart"
                 /\ command'[c].at = "read" /\ command'[c].state = NoState
              \/ Ended(c)
  <1>1. [command[c].state EXCEPT !.pid = 0] \in LauncherState
    <2>1. command[c].state \in LauncherState /\ 0 \in Pids
      BY LauncherAssumption DEF LauncherTypeOK, Command, Pids, sources
    <2> QED
      BY <2>1 DEF LauncherState
  <1>2. file' = [file EXCEPT !["node"] = [command[c].state EXCEPT !.pid = 0]]
        /\ UNCHANGED <<world, runner, live, tally>>
    BY DEF Forget
  <1>3. file' \in [Launchers -> LauncherState]
    BY <1>1, <1>2 DEF LauncherTypeOK, sources
  <1>4. command' \in [Terminals -> Command]
        /\ \/ command[c].kind = "nodeStop" /\ Moved(c, "down")
           \/ command[c].kind = "nodeStart" /\ Moved(c, "spawn")
           \/ /\ command[c].kind = "nodeRestart" /\ Others(c) /\ command'[c].kind = "nodeStart"
              /\ command'[c].at = "read" /\ command'[c].state = NoState
           \/ Ended(c)
    <2>1. CASE command[c].kind = "nodeStop"
      BY <2>1, GoesTo, StepsAre DEF Forget
    <2>2. CASE command[c].kind = "nodeStart"
      BY <2>2, GoesTo, StepsAre DEF Forget
    <2>3. CASE command[c].kind = "nodeRestart"
      <3>1. command' = [command EXCEPT ![c] = [NoCommand EXCEPT !.kind = "nodeStart", !.at = "read"]]
        BY <2>3 DEF Forget
      <3>2. "read" \in Steps /\ "nodeStart" \in PyKinds \cup NodeKinds
        BY StepsAre DEF NodeKinds
      <3> QED
        BY <2>3, <3>1, <3>2, NothingGiven DEF LauncherTypeOK, Others, Command, sources
    <2>4. CASE command[c].kind \notin {"nodeStop", "nodeStart", "nodeRestart"}
      BY <2>4, Finishes DEF Forget
    <2> QED
      BY <2>1, <2>2, <2>3, <2>4
  <1> QED
    BY <1>2, <1>3, <1>4 DEF LauncherTypeOK, world, tally, sources

\* The infrastructure goes down.
LEMMA DownDockerDoes ==
    ASSUME LauncherTypeOK, NEW c \in Terminals, DownDocker(c)
    PROVE  /\ LauncherTypeOK' /\ IF command[c].kind = "stop" THEN Moved(c, "unlink") ELSE Ended(c)
  <1>1. command' \in [Terminals -> Command] /\ IF command[c].kind = "stop" THEN Moved(c, "unlink") ELSE Ended(c)
    BY GoesTo, Finishes, StepsAre DEF DownDocker
  <1>2. docker' \in BOOLEAN /\ disorder' \subseteq Disorders
    BY DEF DownDocker, LauncherTypeOK, Disorders
  <1> QED
    BY <1>1, <1>2 DEF DownDocker, LauncherTypeOK, world, tally, sources

\* The state of secretary.py is gone.
LEMMA UnlinkDoes ==
    ASSUME LauncherTypeOK, NEW c \in Terminals, Unlink(c)
    PROVE  /\ LauncherTypeOK' /\ Ended(c)
  <1>1. command' \in [Terminals -> Command] /\ Ended(c)
    BY Finishes DEF Unlink
  <1>2. file' \in [Launchers -> LauncherState]
    BY NothingGiven DEF Unlink, LauncherTypeOK, sources
  <1> QED
    BY <1>1, <1>2 DEF Unlink, LauncherTypeOK, world, tally, sources

\* The runner starts a service.
LEMMA SpawnServiceDoes ==
    ASSUME LauncherTypeOK, NEW r \in 1 .. MaxRunners, SpawnService(r)
    PROVE  LauncherTypeOK' /\ UNCHANGED <<command, file, source, mtime, dist>>
  <1>1. runner' \in [1 .. MaxRunners -> ServiceRunner] /\ live' \subseteq Services
    BY LauncherAssumption, SMTT(60) DEF SpawnService, LauncherTypeOK, ServiceRunner, Services, Alive, sources
  <1> QED
    BY <1>1 DEF SpawnService, LauncherTypeOK, world, tally, sources

\* A runner that was signalled ends with its services.
LEMMA ExitAfterShutdownDoes ==
    ASSUME LauncherTypeOK, NEW r \in 1 .. MaxRunners, ExitAfterShutdown(r)
    PROVE  LauncherTypeOK' /\ UNCHANGED <<command, file, source, mtime, dist>>
  <1>1. runner' \in [1 .. MaxRunners -> ServiceRunner] /\ live' \subseteq Services
    BY LauncherAssumption DEF ExitAfterShutdown, LauncherTypeOK, ServiceRunner, Services, Alive, sources
  <1> QED
    BY <1>1 DEF ExitAfterShutdown, LauncherTypeOK, world, tally, sources

\* A runner ends.
LEMMA RunnerEndsDoes ==
    ASSUME LauncherTypeOK, NEW r \in 1 .. MaxRunners, RunnerEnds(r)
    PROVE  LauncherTypeOK' /\ UNCHANGED <<command, file, source, mtime, dist>>
  <1>1. runner' \in [1 .. MaxRunners -> ServiceRunner] /\ live' \subseteq Services
    BY LauncherAssumption DEF RunnerEnds, LauncherTypeOK, ServiceRunner, Services, Alive, sources
  <1> QED
    BY <1>1 DEF RunnerEnds, LauncherTypeOK, world, tally, sources

\* A runner dies and leaves its services.
LEMMA RunnerDiesDoes ==
    ASSUME LauncherTypeOK, NEW r \in 1 .. MaxRunners, RunnerDies(r)
    PROVE  LauncherTypeOK' /\ UNCHANGED <<command, file, source, mtime, dist>>
  <1>1. runner' \in [1 .. MaxRunners -> ServiceRunner] /\ live' \subseteq Services
    BY LauncherAssumption DEF RunnerDies, LauncherTypeOK, ServiceRunner, Services, Alive, sources
  <1>2. crashes' \in 0 .. MaxCrashes /\ disorder' \subseteq Disorders
    BY LauncherAssumption DEF RunnerDies, LauncherTypeOK, sources, Disorders
  <1> QED
    BY <1>1, <1>2 DEF RunnerDies, LauncherTypeOK, world, tally, sources

\* The sources of a part change.
LEMMA ChangeDoes ==
    ASSUME LauncherTypeOK, NEW part \in Parts, Change(part)
    PROVE  /\ LauncherTypeOK' /\ source[part] \in Nat
           /\ \A l \in Launchers, p \in Parts : mtime'[l][p] = mtime[l][p] \/ mtime'[l][p] <= source'[p]
  <1>1. source[part] \in Nat /\ source[part] + 1 \in Versions /\ source' \in [Parts -> Versions]
        /\ source'[part] = source[part] + 1
    BY LauncherAssumption DEF Change, LauncherTypeOK, Versions
  <1>2. PICK time \in [Launchers -> 1 .. source[part] + 1] :
           mtime' = [l \in Launchers |-> [mtime[l] EXCEPT ![part] = time[l]]]
    BY DEF Change
  <1>3. \A l \in Launchers : time[l] \in Versions /\ time[l] <= source'[part]
    BY <1>1, LauncherAssumption DEF Versions
  <1>4. \A l \in Launchers : mtime[l] \in [Parts -> Versions]
    BY DEF LauncherTypeOK
  <1>5. mtime' \in [Launchers -> [Parts -> Versions]]
    BY <1>2, <1>3, <1>4
  <1>6. \A l \in Launchers, p \in Parts : mtime'[l][p] = mtime[l][p] \/ mtime'[l][p] <= source'[p]
    BY <1>2, <1>3, <1>4
  <1> QED
    BY <1>1, <1>5, <1>6 DEF Change, LauncherTypeOK, tally

\* After a restart of the machine nothing is alive, and a pid may be a stranger's.
LEMMA RebootDoes ==
    ASSUME LauncherTypeOK, Reboot
    PROVE  /\ LauncherTypeOK' /\ command' = [c \in Terminals |-> NoCommand] /\ live' = {} /\ NoneAlive'
  <1>1. PICK reused \in SUBSET {r \in 1 .. MaxRunners : runner[r].at # "none"} :
          runner' = [r \in 1 .. MaxRunners |->
                        CASE runner[r].at = "none" -> runner[r]
                          [] r \in reused -> [runner[r] EXCEPT !.at = "stranger"]
                          [] OTHER -> [runner[r] EXCEPT !.at = "gone"]]
    BY DEF Reboot, sources
  <1>2. ASSUME NEW r \in 1 .. MaxRunners
        PROVE  runner'[r] \in ServiceRunner /\ ~(runner'[r].at \in {"on", "stopping"})
    <2>1. runner[r] \in ServiceRunner
      BY DEF LauncherTypeOK, sources
    <2>2. CASE runner[r].at = "none"
      BY <1>1, <2>1, <2>2
    <2>3. CASE runner[r].at # "none" /\ r \in reused
      BY <1>1, <2>1, <2>3 DEF ServiceRunner
    <2>4. CASE runner[r].at # "none" /\ r \notin reused
      BY <1>1, <2>1, <2>4 DEF ServiceRunner
    <2> QED
      BY <2>2, <2>3, <2>4
  <1>3. runner' \in [1 .. MaxRunners -> ServiceRunner]
    BY <1>1, <1>2
  <1>4. command' \in [Terminals -> Command]
    BY NothingGiven DEF Reboot, sources
  <1>5. crashes' \in 0 .. MaxCrashes /\ disorder' \subseteq Disorders
    BY LauncherAssumption DEF Reboot, LauncherTypeOK, sources, Disorders
  <1> QED
    BY <1>2, <1>3, <1>4, <1>5 DEF Reboot, LauncherTypeOK, NoneAlive, Alive, sources

-----------------------------------------------------------------------------
(* Stamps *)

\* A stamp that some file or some command held.
OldStamp(stamp) == \/ \E l \in Launchers : stamp = file[l].stamp
                   \/ \E c \in Terminals : stamp = command[c].state.stamp
                   \/ stamp = NoState.stamp

\* Every stamp that is held is honest, and not ahead of what a build under way is made from.
LEMMA OldStampHonest ==
    ASSUME StampInv, NEW stamp, OldStamp(stamp)
    PROVE  Honest(stamp) /\ \A c \in Terminals : command[c].at = "building" =>
                                stamp[command[c].part] <= command[c].built
  <1>1. CASE \E l \in Launchers : stamp = file[l].stamp
    BY <1>1 DEF StampInv, StampsHonest, BuildsHonest
  <1>2. CASE \E c \in Terminals : stamp = command[c].state.stamp
    BY <1>2 DEF StampInv, StampsHonest, BuildsHonest
  <1>3. CASE stamp = NoState.stamp
    <2>1. \A p \in Parts : stamp[p] = 0 /\ source[p] \in Nat /\ source[p] > 0
      BY <1>3, NothingGiven, LauncherAssumption DEF StampInv, StampsHonest, LauncherTypeOK, Versions, sources
    <2>2. \A c \in Terminals : command[c].part \in Parts /\ command[c].built \in Nat
      BY LauncherAssumption DEF StampInv, LauncherTypeOK, Command, Versions, sources
    <2> QED
      BY <2>1, <2>2 DEF Honest, HonestOf
  <1> QED
    BY <1>1, <1>2, <1>3 DEF OldStamp

\* A step that builds nothing: stamps are copied, at most, and no command becomes one that boots.
LEMMA StampsStay ==
    ASSUME StampInv, LauncherTypeOK', UNCHANGED <<source, mtime, dist>>, OneBoots',
           \A l \in Launchers : OldStamp(file'[l].stamp),
           \A c \in Terminals : OldStamp(command'[c].state.stamp),
           \A c \in Terminals : command'[c].at \in {"build", "building"} =>
               /\ command'[c].at = command[c].at /\ command'[c].part = command[c].part
               /\ command'[c].version = command[c].version /\ command'[c].built = command[c].built
    PROVE  StampInv'
  <1>1. StampsHonest'
    BY OldStampHonest DEF StampInv, StampsHonest, Honest, HonestOf
  <1>2. ASSUME NEW c \in Terminals, command'[c].at \in {"build", "building"}
        PROVE  /\ command'[c].version <= source'[command'[c].part]
               /\ command'[c].at = "building" =>
                     /\ command'[c].version <= command'[c].built /\ command'[c].built <= source'[command'[c].part]
                     /\ \A l \in Launchers : file'[l].stamp[command'[c].part] <= command'[c].built
                     /\ \A d \in Terminals : command'[d].state.stamp[command'[c].part] <= command'[c].built
    BY <1>2, OldStampHonest DEF StampInv, BuildsHonest
  <1>3. BuildsHonest'
    BY <1>2 DEF BuildsHonest
  <1> QED
    BY <1>1, <1>3 DEF StampInv

\* The same of a step of one command.
LEMMA StepKeepsStamps ==
    ASSUME StampInv, LauncherTypeOK', UNCHANGED <<source, mtime, dist>>, NEW c \in Terminals, Others(c),
           Boots(c)' => Boots(c), command'[c].at \notin {"build", "building"},
           OldStamp(command'[c].state.stamp), \A l \in Launchers : OldStamp(file'[l].stamp)
    PROVE  StampInv'
  <1>1. \A d \in Terminals : Boots(d)' => Boots(d)
    BY DEF Boots, AtWork, Others
  <1>2. OneBoots'
    BY <1>1 DEF StampInv, OneBoots
  <1>3. \A d \in Terminals : OldStamp(command'[d].state.stamp)
    BY DEF OldStamp, Others
  <1>4. \A d \in Terminals : command'[d].at \in {"build", "building"} => command'[d] = command[d]
    BY DEF Others
  <1> QED
    BY <1>2, <1>3, <1>4, StampsStay

\* Ctrl+C leaves stamps honest: it copies one at most.
LEMMA InterruptKeepsStamps ==
    ASSUME StampInv, NEW c \in Terminals, Interrupt(c)
    PROVE  StampInv'
  <1>1. LauncherTypeOK
    BY DEF StampInv
  <1>2. LauncherTypeOK' /\ Others(c) /\ UNCHANGED <<source, mtime, dist>>
    BY <1>1, InterruptDoes DEF Interrupt, world, Moved, Ended, sources
  <1>3. (Boots(c)' => Boots(c)) /\ command'[c].at \notin {"build", "building"}
    BY <1>1, InterruptDoes, NothingGiven DEF Interrupt, Boots, AtWork, Moved, Ended
  <1>4. OldStamp(command'[c].state.stamp)
    BY <1>1, InterruptDoes, NothingGiven DEF OldStamp, Moved, Ended, LauncherTypeOK, Its, LauncherOf, Launchers, sources
  <1>5. \A l \in Launchers : OldStamp(file'[l].stamp)
    BY <1>1, InterruptDoes, NothingGiven DEF Interrupt, OldStamp, LauncherTypeOK, LauncherState, Command, Launchers, sources
  <1> QED
    BY <1>2, <1>3, <1>4, <1>5, StepKeepsStamps

\* Reading the state leaves stamps honest: it copies one at most.
LEMMA ReadStateKeepsStamps ==
    ASSUME StampInv, NEW c \in Terminals, ReadState(c)
    PROVE  StampInv'
  <1>1. LauncherTypeOK
    BY DEF StampInv
  <1>2. LauncherTypeOK' /\ Others(c) /\ UNCHANGED <<source, mtime, dist>>
    BY <1>1, ReadStateDoes DEF ReadState, world, Moved, Ended, sources
  <1>3. (Boots(c)' => Boots(c)) /\ command'[c].at \notin {"build", "building"}
    BY <1>1, ReadStateDoes, NothingGiven DEF ReadState, Boots, AtWork, Moved, Ended
  <1>4. OldStamp(command'[c].state.stamp)
    BY <1>1, ReadStateDoes, NothingGiven DEF OldStamp, Moved, Ended, LauncherTypeOK, Its, LauncherOf, Launchers, sources
  <1>5. \A l \in Launchers : OldStamp(file'[l].stamp)
    BY <1>1, ReadStateDoes, NothingGiven DEF ReadState, OldStamp, LauncherTypeOK, LauncherState, Command, Launchers, sources
  <1> QED
    BY <1>2, <1>3, <1>4, <1>5, StepKeepsStamps

\* Starting the infrastructure leaves stamps honest: it copies one at most.
LEMMA UpDockerKeepsStamps ==
    ASSUME StampInv, NEW c \in Terminals, UpDocker(c)
    PROVE  StampInv'
  <1>1. LauncherTypeOK
    BY DEF StampInv
  <1>2. LauncherTypeOK' /\ Others(c) /\ UNCHANGED <<source, mtime, dist>>
    BY <1>1, UpDockerDoes DEF UpDocker, world, Moved, Ended, sources
  <1>3. (Boots(c)' => Boots(c)) /\ command'[c].at \notin {"build", "building"}
    <2>1. command'[c].at \in {"check", "spawn", "stat"}
      BY <1>1, UpDockerDoes
    <2>2. Boots(c)
      BY DEF UpDocker, Boots, AtWork, sources
    <2> QED
      BY <2>1, <2>2
  <1>4. OldStamp(command'[c].state.stamp)
    BY <1>1, UpDockerDoes, NothingGiven DEF OldStamp, Moved, Ended, LauncherTypeOK, Its, LauncherOf, Launchers, sources
  <1>5. \A l \in Launchers : OldStamp(file'[l].stamp)
    BY <1>1, UpDockerDoes, NothingGiven DEF UpDocker, OldStamp, LauncherTypeOK, LauncherState, Command, Launchers, sources
  <1> QED
    BY <1>2, <1>3, <1>4, <1>5, StepKeepsStamps

\* Trying the infrastructure again leaves stamps honest: it copies one at most.
LEMMA DownAndRetryKeepsStamps ==
    ASSUME StampInv, NEW c \in Terminals, DownAndRetry(c)
    PROVE  StampInv'
  <1>1. LauncherTypeOK
    BY DEF StampInv
  <1>2. LauncherTypeOK' /\ Others(c) /\ UNCHANGED <<source, mtime, dist>>
    BY <1>1, DownAndRetryDoes DEF DownAndRetry, world, Moved, Ended, sources
  <1>3. (Boots(c)' => Boots(c)) /\ command'[c].at \notin {"build", "building"}
    BY <1>1, DownAndRetryDoes, NothingGiven DEF DownAndRetry, Boots, AtWork, Moved, Ended
  <1>4. OldStamp(command'[c].state.stamp)
    BY <1>1, DownAndRetryDoes, NothingGiven DEF OldStamp, Moved, Ended, LauncherTypeOK, Its, LauncherOf, Launchers
  <1>5. \A l \in Launchers : OldStamp(file'[l].stamp)
    BY <1>1, DownAndRetryDoes, NothingGiven DEF DownAndRetry, OldStamp, LauncherTypeOK, LauncherState, Command, Launchers
  <1> QED
    BY <1>2, <1>3, <1>4, <1>5, StepKeepsStamps

\* An infrastructure that fails leaves stamps honest: it copies one at most.
LEMMA UpFailsKeepsStamps ==
    ASSUME StampInv, NEW c \in Terminals, UpFails(c)
    PROVE  StampInv'
  <1>1. LauncherTypeOK
    BY DEF StampInv
  <1>2. LauncherTypeOK' /\ Others(c) /\ UNCHANGED <<source, mtime, dist>>
    BY <1>1, UpFailsDoes DEF UpFails, world, Moved, Ended, sources
  <1>3. (Boots(c)' => Boots(c)) /\ command'[c].at \notin {"build", "building"}
    BY <1>1, UpFailsDoes, NothingGiven DEF UpFails, Boots, AtWork, Moved, Ended
  <1>4. OldStamp(command'[c].state.stamp)
    BY <1>1, UpFailsDoes, NothingGiven DEF OldStamp, Moved, Ended, LauncherTypeOK, Its, LauncherOf, Launchers
  <1>5. \A l \in Launchers : OldStamp(file'[l].stamp)
    BY <1>1, UpFailsDoes, NothingGiven DEF UpFails, OldStamp, LauncherTypeOK, LauncherState, Command, Launchers
  <1> QED
    BY <1>2, <1>3, <1>4, <1>5, StepKeepsStamps

\* A command that dies leaves stamps honest: it copies one at most.
LEMMA LauncherDiesKeepsStamps ==
    ASSUME StampInv, NEW c \in Terminals, LauncherDies(c)
    PROVE  StampInv'
  <1>1. LauncherTypeOK
    BY DEF StampInv
  <1>2. LauncherTypeOK' /\ Others(c) /\ UNCHANGED <<source, mtime, dist>>
    BY <1>1, LauncherDiesDoes DEF LauncherDies, world, Moved, Ended, sources
  <1>3. (Boots(c)' => Boots(c)) /\ command'[c].at \notin {"build", "building"}
    BY <1>1, LauncherDiesDoes, NothingGiven DEF LauncherDies, Boots, AtWork, Moved, Ended
  <1>4. OldStamp(command'[c].state.stamp)
    BY <1>1, LauncherDiesDoes, NothingGiven DEF OldStamp, Moved, Ended, LauncherTypeOK, Its, LauncherOf, Launchers
  <1>5. \A l \in Launchers : OldStamp(file'[l].stamp)
    BY <1>1, LauncherDiesDoes, NothingGiven DEF LauncherDies, OldStamp, LauncherTypeOK, LauncherState, Command, Launchers
  <1> QED
    BY <1>2, <1>3, <1>4, <1>5, StepKeepsStamps

\* Saving the state leaves stamps honest: it copies one at most.
LEMMA SaveStateKeepsStamps ==
    ASSUME StampInv, NEW c \in Terminals, SaveState(c)
    PROVE  StampInv'
  <1>1. LauncherTypeOK
    BY DEF StampInv
  <1>2. LauncherTypeOK' /\ Others(c) /\ UNCHANGED <<source, mtime, dist>>
    BY <1>1, SaveStateDoes DEF SaveState, world, Moved, Ended, sources
  <1>3. (Boots(c)' => Boots(c)) /\ command'[c].at \notin {"build", "building"}
    BY <1>1, SaveStateDoes, NothingGiven DEF SaveState, Boots, AtWork, Moved, Ended
  <1>4. OldStamp(command'[c].state.stamp)
    BY <1>1, SaveStateDoes, NothingGiven DEF OldStamp, Moved, Ended, LauncherTypeOK, Its, LauncherOf, Launchers, sources
  <1>5. \A l \in Launchers : OldStamp(file'[l].stamp)
    BY <1>1, SaveStateDoes, NothingGiven DEF SaveState, OldStamp, LauncherTypeOK, LauncherState, Command, Launchers, sources
  <1> QED
    BY <1>2, <1>3, <1>4, <1>5, StepKeepsStamps

\* Looking whether the recorded runner is alive leaves stamps honest: it copies one at most.
LEMMA CheckPidKeepsStamps ==
    ASSUME StampInv, NEW c \in Terminals, CheckPid(c)
    PROVE  StampInv'
  <1>1. LauncherTypeOK
    BY DEF StampInv
  <1>2. LauncherTypeOK' /\ Others(c) /\ UNCHANGED <<source, mtime, dist>>
    BY <1>1, CheckPidDoes DEF CheckPid, world, Moved, Ended, sources
  <1>3. (Boots(c)' => Boots(c)) /\ command'[c].at \notin {"build", "building"}
    BY <1>1, CheckPidDoes, NothingGiven DEF CheckPid, Boots, AtWork, Moved, Ended
  <1>4. OldStamp(command'[c].state.stamp)
    BY <1>1, CheckPidDoes, NothingGiven DEF OldStamp, Moved, Ended, LauncherTypeOK, Its, LauncherOf, Launchers, sources
  <1>5. \A l \in Launchers : OldStamp(file'[l].stamp)
    BY <1>1, CheckPidDoes, NothingGiven DEF CheckPid, OldStamp, LauncherTypeOK, LauncherState, Command, Launchers, sources
  <1> QED
    BY <1>2, <1>3, <1>4, <1>5, StepKeepsStamps

\* Spawning the runner leaves stamps honest: it copies one at most.
LEMMA SpawnRunnerKeepsStamps ==
    ASSUME StampInv, NEW c \in Terminals, SpawnRunner(c)
    PROVE  StampInv'
  <1>1. LauncherTypeOK
    BY DEF StampInv
  <1>2. LauncherTypeOK' /\ Others(c) /\ UNCHANGED <<source, mtime, dist>>
    BY <1>1, SpawnRunnerDoes DEF SpawnRunner, world, Moved, Ended, sources
  <1>3. (Boots(c)' => Boots(c)) /\ command'[c].at \notin {"build", "building"}
    BY <1>1, SpawnRunnerDoes, NothingGiven DEF SpawnRunner, Boots, AtWork, Moved, Ended
  <1>4. OldStamp(command'[c].state.stamp)
    BY <1>1, SpawnRunnerDoes, NothingGiven DEF OldStamp, Moved, Ended, LauncherTypeOK, Its, LauncherOf, Launchers, sources
  <1>5. \A l \in Launchers : OldStamp(file'[l].stamp)
    BY <1>1, SpawnRunnerDoes, NothingGiven DEF SpawnRunner, OldStamp, LauncherTypeOK, LauncherState, Command, Launchers, sources
  <1> QED
    BY <1>2, <1>3, <1>4, <1>5, StepKeepsStamps

\* Recording the runner leaves stamps honest: it copies one at most.
LEMMA RecordPidKeepsStamps ==
    ASSUME StampInv, NEW c \in Terminals, RecordPid(c)
    PROVE  StampInv'
  <1>1. LauncherTypeOK
    BY DEF StampInv
  <1>2. LauncherTypeOK' /\ Others(c) /\ UNCHANGED <<source, mtime, dist>>
    BY <1>1, RecordPidDoes DEF RecordPid, world, Moved, Ended, sources
  <1>3. (Boots(c)' => Boots(c)) /\ command'[c].at \notin {"build", "building"}
    BY <1>1, RecordPidDoes, NothingGiven DEF RecordPid, Boots, AtWork, Moved, Ended
  <1>4. OldStamp(command'[c].state.stamp)
    BY <1>1, RecordPidDoes, NothingGiven DEF OldStamp, Moved, Ended, LauncherTypeOK, Its, LauncherOf, Launchers, sources
  <1>5. \A l \in Launchers : OldStamp(file'[l].stamp)
    BY <1>1, RecordPidDoes, NothingGiven DEF RecordPid, OldStamp, LauncherTypeOK, LauncherState, Command, Launchers, sources
  <1> QED
    BY <1>2, <1>3, <1>4, <1>5, StepKeepsStamps

\* The end of the runner in the foreground leaves stamps honest: it copies one at most.
LEMMA RunnerEndedKeepsStamps ==
    ASSUME StampInv, NEW c \in Terminals, RunnerEnded(c)
    PROVE  StampInv'
  <1>1. LauncherTypeOK
    BY DEF StampInv
  <1>2. LauncherTypeOK' /\ Others(c) /\ UNCHANGED <<source, mtime, dist>>
    BY <1>1, RunnerEndedDoes DEF RunnerEnded, world, Moved, Ended, sources
  <1>3. (Boots(c)' => Boots(c)) /\ command'[c].at \notin {"build", "building"}
    BY <1>1, RunnerEndedDoes, NothingGiven DEF RunnerEnded, Boots, AtWork, Moved, Ended
  <1>4. OldStamp(command'[c].state.stamp)
    BY <1>1, RunnerEndedDoes, NothingGiven DEF OldStamp, Moved, Ended, LauncherTypeOK, Its, LauncherOf, Launchers, sources
  <1>5. \A l \in Launchers : OldStamp(file'[l].stamp)
    BY <1>1, RunnerEndedDoes, NothingGiven DEF RunnerEnded, OldStamp, LauncherTypeOK, LauncherState, Command, Launchers, sources
  <1> QED
    BY <1>2, <1>3, <1>4, <1>5, StepKeepsStamps

\* Looking for the recorded runner leaves stamps honest: it copies one at most.
LEMMA LookKeepsStamps ==
    ASSUME StampInv, NEW c \in Terminals, Look(c)
    PROVE  StampInv'
  <1>1. LauncherTypeOK
    BY DEF StampInv
  <1>2. LauncherTypeOK' /\ Others(c) /\ UNCHANGED <<source, mtime, dist>>
    BY <1>1, LookDoes DEF Look, world, Moved, Ended, sources
  <1>3. (Boots(c)' => Boots(c)) /\ command'[c].at \notin {"build", "building"}
    BY <1>1, LookDoes, NothingGiven DEF Look, Boots, AtWork, Moved, Ended
  <1>4. OldStamp(command'[c].state.stamp)
    BY <1>1, LookDoes, NothingGiven DEF OldStamp, Moved, Ended, LauncherTypeOK, Its, LauncherOf, Launchers, sources
  <1>5. \A l \in Launchers : OldStamp(file'[l].stamp)
    BY <1>1, LookDoes, NothingGiven DEF Look, OldStamp, LauncherTypeOK, LauncherState, Command, Launchers, sources
  <1> QED
    BY <1>2, <1>3, <1>4, <1>5, StepKeepsStamps

\* Signalling the recorded runner leaves stamps honest: it copies one at most.
LEMMA KillRecordedKeepsStamps ==
    ASSUME StampInv, NEW c \in Terminals, KillRecorded(c)
    PROVE  StampInv'
  <1>1. LauncherTypeOK
    BY DEF StampInv
  <1>2. LauncherTypeOK' /\ Others(c) /\ UNCHANGED <<source, mtime, dist>>
    BY <1>1, KillRecordedDoes DEF KillRecorded, world, Moved, Ended, sources
  <1>3. (Boots(c)' => Boots(c)) /\ command'[c].at \notin {"build", "building"}
    BY <1>1, KillRecordedDoes, NothingGiven DEF KillRecorded, Boots, AtWork, Moved, Ended
  <1>4. OldStamp(command'[c].state.stamp)
    BY <1>1, KillRecordedDoes, NothingGiven DEF OldStamp, Moved, Ended, LauncherTypeOK, Its, LauncherOf, Launchers, sources
  <1>5. \A l \in Launchers : OldStamp(file'[l].stamp)
    BY <1>1, KillRecordedDoes, NothingGiven DEF KillRecorded, OldStamp, LauncherTypeOK, LauncherState, Command, Launchers, sources
  <1> QED
    BY <1>2, <1>3, <1>4, <1>5, StepKeepsStamps

\* Waiting for the runner to end leaves stamps honest: it copies one at most.
LEMMA AwaitEndKeepsStamps ==
    ASSUME StampInv, NEW c \in Terminals, AwaitEnd(c)
    PROVE  StampInv'
  <1>1. LauncherTypeOK
    BY DEF StampInv
  <1>2. LauncherTypeOK' /\ Others(c) /\ UNCHANGED <<source, mtime, dist>>
    BY <1>1, AwaitEndDoes DEF AwaitEnd, world, Moved, Ended, sources
  <1>3. (Boots(c)' => Boots(c)) /\ command'[c].at \notin {"build", "building"}
    BY <1>1, AwaitEndDoes, NothingGiven DEF AwaitEnd, Boots, AtWork, Moved, Ended
  <1>4. OldStamp(command'[c].state.stamp)
    BY <1>1, AwaitEndDoes, NothingGiven DEF OldStamp, Moved, Ended, LauncherTypeOK, Its, LauncherOf, Launchers, sources
  <1>5. \A l \in Launchers : OldStamp(file'[l].stamp)
    BY <1>1, AwaitEndDoes, NothingGiven DEF AwaitEnd, OldStamp, LauncherTypeOK, LauncherState, Command, Launchers, sources
  <1> QED
    BY <1>2, <1>3, <1>4, <1>5, StepKeepsStamps

\* Killing what holds the ports leaves stamps honest: it copies one at most.
LEMMA KillPortsKeepsStamps ==
    ASSUME StampInv, NEW c \in Terminals, KillPorts(c)
    PROVE  StampInv'
  <1>1. LauncherTypeOK
    BY DEF StampInv
  <1>2. LauncherTypeOK' /\ Others(c) /\ UNCHANGED <<source, mtime, dist>>
    BY <1>1, KillPortsDoes DEF KillPorts, world, Moved, Ended, sources
  <1>3. (Boots(c)' => Boots(c)) /\ command'[c].at \notin {"build", "building"}
    BY <1>1, KillPortsDoes, NothingGiven DEF KillPorts, Boots, AtWork, Moved, Ended
  <1>4. OldStamp(command'[c].state.stamp)
    BY <1>1, KillPortsDoes, NothingGiven DEF OldStamp, Moved, Ended, LauncherTypeOK, Its, LauncherOf, Launchers, sources
  <1>5. \A l \in Launchers : OldStamp(file'[l].stamp)
    BY <1>1, KillPortsDoes, NothingGiven DEF KillPorts, OldStamp, LauncherTypeOK, LauncherState, Command, Launchers, sources
  <1> QED
    BY <1>2, <1>3, <1>4, <1>5, StepKeepsStamps

\* Killing by name leaves stamps honest: it copies one at most.
LEMMA KillPatternsKeepsStamps ==
    ASSUME StampInv, NEW c \in Terminals, KillPatterns(c)
    PROVE  StampInv'
  <1>1. LauncherTypeOK
    BY DEF StampInv
  <1>2. LauncherTypeOK' /\ Others(c) /\ UNCHANGED <<source, mtime, dist>>
    BY <1>1, KillPatternsDoes DEF KillPatterns, world, Moved, Ended, sources
  <1>3. (Boots(c)' => Boots(c)) /\ command'[c].at \notin {"build", "building"}
    BY <1>1, KillPatternsDoes, NothingGiven DEF KillPatterns, Boots, AtWork, Moved, Ended
  <1>4. OldStamp(command'[c].state.stamp)
    BY <1>1, KillPatternsDoes, NothingGiven DEF OldStamp, Moved, Ended, LauncherTypeOK, Its, LauncherOf, Launchers, sources
  <1>5. \A l \in Launchers : OldStamp(file'[l].stamp)
    BY <1>1, KillPatternsDoes, NothingGiven DEF KillPatterns, OldStamp, LauncherTypeOK, LauncherState, Command, Launchers, sources
  <1> QED
    BY <1>2, <1>3, <1>4, <1>5, StepKeepsStamps

\* Forgetting the runner leaves stamps honest: it copies one at most.
LEMMA ForgetKeepsStamps ==
    ASSUME StampInv, NEW c \in Terminals, Forget(c)
    PROVE  StampInv'
  <1>1. LauncherTypeOK
    BY DEF StampInv
  <1>2. LauncherTypeOK' /\ Others(c) /\ UNCHANGED <<source, mtime, dist>>
    BY <1>1, ForgetDoes DEF Forget, world, Moved, Ended, sources
  <1>3. (Boots(c)' => Boots(c)) /\ command'[c].at \notin {"build", "building"}
    BY <1>1, ForgetDoes, NothingGiven DEF Forget, Boots, AtWork, Moved, Ended
  <1>4. OldStamp(command'[c].state.stamp)
    BY <1>1, ForgetDoes, NothingGiven DEF OldStamp, Moved, Ended, LauncherTypeOK, Its, LauncherOf, Launchers, sources
  <1>5. \A l \in Launchers : OldStamp(file'[l].stamp)
    BY <1>1, ForgetDoes, NothingGiven DEF Forget, OldStamp, LauncherTypeOK, LauncherState, Command, Launchers, sources
  <1> QED
    BY <1>2, <1>3, <1>4, <1>5, StepKeepsStamps

\* Stopping the infrastructure leaves stamps honest: it copies one at most.
LEMMA DownDockerKeepsStamps ==
    ASSUME StampInv, NEW c \in Terminals, DownDocker(c)
    PROVE  StampInv'
  <1>1. LauncherTypeOK
    BY DEF StampInv
  <1>2. LauncherTypeOK' /\ Others(c) /\ UNCHANGED <<source, mtime, dist>>
    BY <1>1, DownDockerDoes DEF DownDocker, world, Moved, Ended, sources
  <1>3. (Boots(c)' => Boots(c)) /\ command'[c].at \notin {"build", "building"}
    BY <1>1, DownDockerDoes, NothingGiven DEF DownDocker, Boots, AtWork, Moved, Ended, sources
  <1>4. OldStamp(command'[c].state.stamp)
    BY <1>1, DownDockerDoes, NothingGiven DEF OldStamp, Moved, Ended, LauncherTypeOK, Its, LauncherOf, Launchers, sources
  <1>5. \A l \in Launchers : OldStamp(file'[l].stamp)
    BY <1>1, DownDockerDoes, NothingGiven DEF DownDocker, OldStamp, LauncherTypeOK, LauncherState, Command, Launchers, sources
  <1> QED
    BY <1>2, <1>3, <1>4, <1>5, StepKeepsStamps

\* Removing the state leaves stamps honest: it copies one at most.
LEMMA UnlinkKeepsStamps ==
    ASSUME StampInv, NEW c \in Terminals, Unlink(c)
    PROVE  StampInv'
  <1>1. LauncherTypeOK
    BY DEF StampInv
  <1>2. LauncherTypeOK' /\ Others(c) /\ UNCHANGED <<source, mtime, dist>>
    BY <1>1, UnlinkDoes DEF Unlink, world, Moved, Ended, sources
  <1>3. (Boots(c)' => Boots(c)) /\ command'[c].at \notin {"build", "building"}
    BY <1>1, UnlinkDoes, NothingGiven DEF Unlink, Boots, AtWork, Moved, Ended
  <1>4. OldStamp(command'[c].state.stamp)
    BY <1>1, UnlinkDoes, NothingGiven DEF OldStamp, Moved, Ended, LauncherTypeOK, Its, LauncherOf, Launchers, sources
  <1>5. \A l \in Launchers : OldStamp(file'[l].stamp)
    BY <1>1, UnlinkDoes, NothingGiven DEF Unlink, OldStamp, LauncherTypeOK, LauncherState, Command, Launchers, sources
  <1> QED
    BY <1>2, <1>3, <1>4, <1>5, StepKeepsStamps

\* A new command boots nothing while another command does.
LEMMA GiveKeepsStamps ==
    ASSUME StampInv, NEW c \in Terminals, Give(c)
    PROVE  StampInv'
  <1>1. LauncherTypeOK
    BY DEF StampInv
  <1>2. LauncherTypeOK' /\ Others(c) /\ UNCHANGED <<source, mtime, dist, file>> /\ command'[c].state = command[c].state
        /\ command'[c].at \notin {"build", "building"}
    BY <1>1, GiveDoes DEF Give, world, FirstStep, sources
  <1>3. \A d \in Terminals : Boots(d)' => d = c
    BY <1>2 DEF Give, Boots, AtWork, Others
  <1>4. OneBoots'
    BY <1>3 DEF OneBoots
  <1>5. /\ \A l \in Launchers : OldStamp(file'[l].stamp)
        /\ \A d \in Terminals : OldStamp(command'[d].state.stamp)
        /\ \A d \in Terminals : command'[d].at \in {"build", "building"} => command'[d] = command[d]
    BY <1>2 DEF OldStamp, Others
  <1> QED
    BY <1>2, <1>4, <1>5, StampsStay

\* Looking whether a part is built takes the version the build will be stamped with from the sources.
LEMMA StatKeepsStamps ==
    ASSUME StampInv, NEW c \in Terminals, Stat(c)
    PROVE  StampInv'
  <1> DEFINE part == command[c].part
  <1>1. LauncherTypeOK /\ part \in Parts /\ command[c].at = "stat" /\ UNCHANGED <<source, mtime, dist, file>>
    BY DEF StampInv, Stat, world, LauncherTypeOK, Command, sources
  <1>2. LauncherTypeOK' /\ Others(c) /\ command'[c].state = command[c].state
        /\ \/ command'[c].at = AfterPart(part)
           \/ command'[c].at = "build" /\ command'[c].version = mtime[Its(c)][part] /\ command'[c].part = part
    BY <1>1, StatDoes
  <1>3. CASE command'[c].at = AfterPart(part)
    <2>1. command'[c].at \notin {"build", "building"}
      BY <1>3 DEF AfterPart
    <2>2. Boots(c) /\ OldStamp(command'[c].state.stamp) /\ \A l \in Launchers : OldStamp(file'[l].stamp)
      BY <1>1, <1>2 DEF Boots, AtWork, OldStamp
    <2> QED
      BY <1>1, <1>2, <2>1, <2>2, StepKeepsStamps
  <1>4. CASE command'[c].at = "build" /\ command'[c].version = mtime[Its(c)][part] /\ command'[c].part = part
    <2>1. StampsHonest'
      BY <1>1, <1>2 DEF StampInv, StampsHonest, Honest, HonestOf, Others
    <2>2. \A d \in Terminals : Boots(d)' => Boots(d)
      BY <1>1, <1>2 DEF Boots, AtWork, Others
    <2>3. OneBoots'
      BY <2>2 DEF StampInv, OneBoots
    <2>4. \A d \in Terminals : command'[d].state = command[d].state
      BY <1>2 DEF Others
    <2>5. mtime[Its(c)][part] <= source[part]
      BY <1>1 DEF StampInv, StampsHonest, Its, LauncherOf, Launchers
    <2>6. ASSUME NEW d \in Terminals, command'[d].at \in {"build", "building"}
          PROVE  command'[d].version <= source[command'[d].part]
      BY <1>2, <1>4, <2>5, <2>6 DEF StampInv, BuildsHonest, Others
    <2>7. \A d \in Terminals : command'[d].at = "building" => d # c /\ command'[d] = command[d]
      BY <1>2, <1>4 DEF Others
    <2>8. BuildsHonest'
      BY <1>1, <2>4, <2>6, <2>7 DEF StampInv, BuildsHonest
    <2> QED
      BY <1>2, <2>1, <2>3, <2>8 DEF StampInv
  <1> QED
    BY <1>2, <1>3, <1>4

\* The beginning of a build reads sources no older than that.
LEMMA BeginBuildKeepsStamps ==
    ASSUME StampInv, NEW c \in Terminals, BeginBuild(c)
    PROVE  StampInv'
  <1>1. LauncherTypeOK /\ command[c].at = "build" /\ UNCHANGED <<source, mtime, dist, file>>
    BY DEF StampInv, BeginBuild, world, sources
  <1>2. /\ LauncherTypeOK' /\ Others(c) /\ command'[c].at = "building" /\ command'[c].kind = command[c].kind
        /\ command'[c].part = command[c].part /\ command'[c].version = command[c].version
        /\ command'[c].state = command[c].state /\ command'[c].built = source[command[c].part]
    BY <1>1, BeginBuildDoes
  <1>3. StampsHonest'
    BY <1>1, <1>2 DEF StampInv, StampsHonest, Honest, HonestOf, Others
  <1>4. \A d \in Terminals : Boots(d)' => Boots(d)
    BY <1>1, <1>2 DEF Boots, AtWork, Others
  <1>5. OneBoots'
    BY <1>4 DEF StampInv, OneBoots
  <1>6. \A d \in Terminals : /\ command'[d].state = command[d].state /\ command'[d].part = command[d].part
                             /\ command'[d].version = command[d].version
                             /\ command'[d].at \in {"build", "building"} => command[d].at \in {"build", "building"}
    BY <1>1, <1>2 DEF Others
  <1>7. source[command[c].part] \in Nat
    BY <1>1, VersionsAreNat DEF LauncherTypeOK, Command, sources
  <1>8. /\ \A l \in Launchers : file[l].stamp[command[c].part] <= source[command[c].part]
        /\ \A d \in Terminals : command[d].state.stamp[command[c].part] <= source[command[c].part]
    BY <1>1 DEF StampInv, StampsHonest, Honest, HonestOf, LauncherTypeOK, Command
  <1>9. ASSUME NEW d \in Terminals
        PROVE  /\ command'[d].at \in {"build", "building"} => command'[d].version <= source'[command'[d].part]
               /\ command'[d].at = "building" =>
                     /\ command'[d].version <= command'[d].built /\ command'[d].built <= source'[command'[d].part]
                     /\ \A l \in Launchers : file'[l].stamp[command'[d].part] <= command'[d].built
                     /\ \A e \in Terminals : command'[e].state.stamp[command'[d].part] <= command'[d].built
    <2>1. CASE d = c
      BY <1>1, <1>2, <1>6, <1>7, <1>8, <2>1 DEF StampInv, BuildsHonest
    <2>2. CASE d # c
      <3>1. command'[d] = command[d]
        BY <1>2, <2>2 DEF Others
      <3> QED
        BY <1>1, <1>6, <3>1 DEF StampInv, BuildsHonest
    <2> QED
      BY <2>1, <2>2
  <1>10. BuildsHonest'
    BY <1>9 DEF BuildsHonest
  <1> QED
    BY <1>2, <1>3, <1>5, <1>10 DEF StampInv

\* What a build leaves makes no stamp untrue: of its part, no stamp is newer than its sources were.
LEMMA BuiltIsHonest ==
    ASSUME StampInv, NEW c \in Terminals, command[c].at = "building", UNCHANGED source,
           dist' \in {dist, [dist EXCEPT ![command[c].part] = command[c].built]}
    PROVE  \A stamp : OldStamp(stamp) => HonestOf(stamp, source', dist')
  <1> SUFFICES ASSUME NEW stamp, OldStamp(stamp), NEW p \in Parts
               PROVE  stamp[p] <= source[p] /\ (stamp[p] = source[p] => dist'[p] = source[p])
    BY DEF Honest, HonestOf
  <1>1. Honest(stamp) /\ stamp[command[c].part] <= command[c].built
    BY OldStampHonest
  <1>2. /\ command[c].version <= command[c].built /\ command[c].built <= source[command[c].part]
        /\ command[c].part \in Parts /\ dist \in [Parts -> Versions]
        /\ source[command[c].part] \in Nat /\ command[c].built \in Nat /\ command[c].version \in Nat
    BY VersionsAreNat DEF StampInv, BuildsHonest, LauncherTypeOK, Command, sources
  <1>3. CASE dist'[p] = dist[p]
    BY <1>1, <1>3 DEF Honest, HonestOf
  <1>4. CASE p = command[c].part /\ dist'[p] = command[c].built
    <2>1. stamp[p] = source[p] => command[c].built = source[p]
      BY <1>1, <1>2, <1>4
    <2> QED
      BY <1>1, <1>4, <2>1 DEF Honest, HonestOf
  <1> QED
    BY <1>2, <1>3, <1>4

\* One builds at a time.
LEMMA OneBuilds ==
    ASSUME StampInv, NEW c \in Terminals, command[c].at = "building", NEW d \in Terminals, d # c
    PROVE  command[d].at \notin {"build", "building"}
  BY DEF StampInv, OneBoots, Boots, AtWork

\* The end of a build stamps the part with a version that is no newer than what it was built from.
LEMMA EndBuildKeepsStamps ==
    ASSUME StampInv, NEW c \in Terminals, EndBuild(c)
    PROVE  StampInv'
  <1> DEFINE part == command[c].part
  <1>1. LauncherTypeOK /\ command[c].at = "building" /\ UNCHANGED <<source, mtime, file>>
        /\ dist' = [dist EXCEPT ![part] = command[c].built]
    BY DEF StampInv, EndBuild, sources
  <1>2. /\ LauncherTypeOK' /\ Others(c) /\ command'[c].at = AfterPart(part)
        /\ command'[c].state = [command[c].state EXCEPT !.stamp = [@ EXCEPT ![part] = command[c].version]]
    BY <1>1, EndBuildDoes
  <1>3. \A stamp : OldStamp(stamp) => HonestOf(stamp, source', dist')
    BY <1>1, BuiltIsHonest
  <1>4. HonestOf(command'[c].state.stamp, source', dist')
    <2> SUFFICES ASSUME NEW p \in Parts
                 PROVE  /\ command'[c].state.stamp[p] <= source[p]
                        /\ command'[c].state.stamp[p] = source[p] => dist'[p] = source[p]
      BY <1>1 DEF Honest, HonestOf
    <2>1. command[c].state.stamp \in [Parts -> Versions] /\ part \in Parts /\ dist \in [Parts -> Versions]
      BY <1>1 DEF LauncherTypeOK, Command, LauncherState, sources
    <2>2. command'[c].state.stamp = [command[c].state.stamp EXCEPT ![part] = command[c].version]
      BY <1>1, <1>2 DEF LauncherTypeOK, Command, LauncherState, sources
    <2>3. CASE p # part
      <3>1. command'[c].state.stamp[p] = command[c].state.stamp[p] /\ OldStamp(command[c].state.stamp)
        BY <2>1, <2>2, <2>3 DEF OldStamp
      <3> QED
        BY <1>1, <1>3, <3>1 DEF Honest, HonestOf
    <2>4. CASE p = part
      <3>1. command'[c].state.stamp[p] = command[c].version /\ dist'[p] = command[c].built
        BY <1>1, <2>1, <2>2, <2>4
      <3>2. /\ command[c].version <= command[c].built /\ command[c].built <= source[part]
            /\ source[part] \in Nat /\ command[c].built \in Nat /\ command[c].version \in Nat
        BY <1>1, <2>1, VersionsAreNat DEF StampInv, BuildsHonest, LauncherTypeOK, Command, sources
      <3> QED
        BY <2>4, <3>1, <3>2
    <2> QED
      BY <2>3, <2>4
  <1>5. \A l \in Launchers : HonestOf(file'[l].stamp, source', dist')
    BY <1>1, <1>3 DEF OldStamp
  <1>6. \A d \in Terminals : HonestOf(command'[d].state.stamp, source', dist')
    BY <1>2, <1>3, <1>4 DEF OldStamp, Others
  <1>7. StampsHonest'
    BY <1>1, <1>5, <1>6 DEF StampInv, StampsHonest, Honest
  <1>8. \A d \in Terminals : Boots(d)' => Boots(d)
    BY <1>1, <1>2 DEF Boots, AtWork, Others
  <1>9. OneBoots'
    BY <1>8 DEF StampInv, OneBoots
  <1>10. \A d \in Terminals : command'[d].at \notin {"build", "building"}
    BY <1>1, <1>2, OneBuilds DEF AfterPart, Others
  <1>11. BuildsHonest'
    BY <1>10 DEF BuildsHonest
  <1> QED
    BY <1>2, <1>7, <1>9, <1>11 DEF StampInv

\* A failing build leaves no stamp.
LEMMA BuildFailsKeepsStamps ==
    ASSUME StampInv, NEW c \in Terminals, BuildFails(c)
    PROVE  StampInv'
  <1>1. LauncherTypeOK /\ command[c].at = "building" /\ UNCHANGED <<source, mtime, file>>
    BY DEF StampInv, BuildFails, sources
  <1>2. /\ LauncherTypeOK' /\ Others(c) /\ command'[c] = NoCommand
        /\ dist' \in {dist, [dist EXCEPT ![command[c].part] = command[c].built]}
    BY <1>1, BuildFailsDoes
  <1>3. \A stamp : OldStamp(stamp) => HonestOf(stamp, source', dist')
    BY <1>1, <1>2, BuiltIsHonest
  <1>4. \A d \in Terminals : OldStamp(command'[d].state.stamp)
    BY <1>2, NothingGiven DEF OldStamp, Others
  <1>5. StampsHonest'
    BY <1>1, <1>3, <1>4 DEF StampInv, StampsHonest, OldStamp, Honest
  <1>6. \A d \in Terminals : Boots(d)' => Boots(d)
    BY <1>2, NothingGiven DEF Boots, AtWork, Others
  <1>7. OneBoots'
    BY <1>6 DEF StampInv, OneBoots
  <1>8. \A d \in Terminals : command'[d].at \notin {"build", "building"}
    BY <1>1, <1>2, OneBuilds, NothingGiven DEF Others
  <1>9. BuildsHonest'
    BY <1>8 DEF BuildsHonest
  <1> QED
    BY <1>2, <1>5, <1>7, <1>9 DEF StampInv

\* Sources that are edited leave every stamp behind.
LEMMA ChangeKeepsStamps ==
    ASSUME StampInv, NEW part \in Parts, Change(part)
    PROVE  StampInv'
  <1>1. LauncherTypeOK /\ LauncherTypeOK' /\ UNCHANGED <<dist, file, command>>
    BY ChangeDoes DEF StampInv, Change, sources
  <1>2. /\ source' = [source EXCEPT ![part] = @ + 1]
        /\ \A p \in Parts : source[p] \in Nat /\ source'[p] \in Nat
        /\ \A p \in Parts : source'[p] = source[p] \/ source'[p] = source[p] + 1
    BY <1>1, LauncherAssumption DEF Change, LauncherTypeOK, Versions, sources
  <1>3. \A l \in Launchers : file[l].stamp \in [Parts -> Nat]
    BY <1>1, LauncherAssumption, SMTT(60) DEF LauncherTypeOK, LauncherState, Versions, sources
  <1>4. \A c \in Terminals : /\ command[c].state.stamp \in [Parts -> Nat] /\ command[c].part \in Parts
                             /\ command[c].version \in Nat /\ command[c].built \in Nat
    <2> SUFFICES ASSUME NEW c \in Terminals
                 PROVE  /\ command[c].state.stamp \in [Parts -> Nat] /\ command[c].part \in Parts
                        /\ command[c].version \in Nat /\ command[c].built \in Nat
      OBVIOUS
    <2>1. /\ command[c].state \in LauncherState /\ command[c].part \in Parts
          /\ command[c].version \in Versions /\ command[c].built \in Versions
      BY <1>1 DEF LauncherTypeOK, Command, sources
    <2>2. command[c].state.stamp \in [Parts -> Versions]
      BY <2>1 DEF LauncherState
    <2> QED
      BY <2>1, <2>2, VersionsAreNat
  <1>5. ASSUME NEW stamp \in [Parts -> Nat], Honest(stamp)
        PROVE  HonestOf(stamp, source', dist')
    BY <1>1, <1>2, <1>5 DEF Honest, HonestOf
  <1>6. StampsHonest'
    <2>1. \A p \in Parts : source'[p] > 0
      BY <1>2 DEF StampInv, StampsHonest
    <2>4. \A l \in Launchers, p \in Parts : mtime'[l][p] <= source'[p]
      <3>1. \A l \in Launchers, p \in Parts : mtime[l][p] <= source[p] /\ mtime[l][p] \in Nat
        BY <1>1, VersionsAreNat DEF StampInv, StampsHonest, LauncherTypeOK
      <3>2. \A l \in Launchers, p \in Parts : mtime'[l][p] = mtime[l][p] \/ mtime'[l][p] <= source'[p]
        BY <1>1, ChangeDoes
      <3> QED
        BY <1>2, <3>1, <3>2
    <2>2. \A l \in Launchers : HonestOf(file[l].stamp, source', dist')
      BY <1>3, <1>5 DEF StampInv, StampsHonest
    <2>3. \A c \in Terminals : HonestOf(command[c].state.stamp, source', dist')
      BY <1>4, <1>5 DEF StampInv, StampsHonest
    <2> QED
      BY <1>1, <2>1, <2>2, <2>3, <2>4 DEF StampsHonest, Honest
  <1>7. OneBoots'
    BY <1>1 DEF StampInv, OneBoots, Boots, AtWork
  <1>8. BuildsHonest'
    <2> SUFFICES ASSUME NEW c \in Terminals
                 PROVE  /\ command[c].at \in {"build", "building"} => command[c].version <= source'[command[c].part]
                        /\ command[c].at = "building" =>
                              /\ command[c].version <= command[c].built
                              /\ command[c].built <= source'[command[c].part]
                              /\ \A l \in Launchers : file[l].stamp[command[c].part] <= command[c].built
                              /\ \A d \in Terminals : command[d].state.stamp[command[c].part] <= command[c].built
      BY <1>1 DEF BuildsHonest
    <2>1. \A n \in Nat : n <= source[command[c].part] => n <= source'[command[c].part]
      BY <1>2, <1>4
    <2> QED
      BY <1>4, <2>1 DEF StampInv, BuildsHonest
  <1> QED
    BY <1>1, <1>6, <1>7, <1>8 DEF StampInv

\* What the runners do leaves stamps honest: it copies one at most.
LEMMA RunnerKeepsStamps ==
    ASSUME StampInv, NEW r \in 1 .. MaxRunners,
           SpawnService(r) \/ ExitAfterShutdown(r) \/ RunnerEnds(r) \/ RunnerDies(r)
    PROVE  StampInv'
  <1>1. LauncherTypeOK' /\ UNCHANGED <<command, file, source, mtime, dist>>
    BY SpawnServiceDoes, ExitAfterShutdownDoes, RunnerEndsDoes, RunnerDiesDoes DEF StampInv
  <1> QED
    BY <1>1 DEF StampInv, OneBoots, Boots, AtWork, StampsHonest, Honest, HonestOf, BuildsHonest

\* A restart of the machine leaves stamps honest: it copies one at most.
LEMMA RebootKeepsStamps ==
    ASSUME StampInv, Reboot
    PROVE  StampInv'
  <1>1. LauncherTypeOK' /\ command' = [c \in Terminals |-> NoCommand] /\ UNCHANGED <<file, source, mtime, dist>>
    BY RebootDoes DEF Reboot, StampInv, sources
  <1>2. OneBoots'
    BY <1>1, NothingGiven DEF OneBoots, Boots, AtWork
  <1>3. \A l \in Launchers : OldStamp(file'[l].stamp)
    BY <1>1 DEF OldStamp
  <1>4. \A c \in Terminals : command'[c].at = "idle" /\ OldStamp(command'[c].state.stamp)
    BY <1>1, NothingGiven DEF OldStamp
  <1> QED
    BY <1>1, <1>2, <1>3, <1>4, StampsStay

\* Nothing is installed at the beginning.
LEMMA LauncherInitial == LauncherInit => LauncherTypeOK
  <1> SUFFICES ASSUME LauncherInit PROVE LauncherTypeOK
    OBVIOUS
  <1>1. 1 \in Versions /\ 0 \in Versions /\ 0 \in 0 .. MaxCommands /\ 0 \in 0 .. MaxCrashes
    BY LauncherAssumption DEF Versions
  <1>2. file \in [Launchers -> LauncherState] /\ command \in [Terminals -> Command]
        /\ runner \in [1 .. MaxRunners -> ServiceRunner]
    BY NothingGiven DEF LauncherInit
  <1> QED
    BY <1>1, <1>2 DEF LauncherInit, LauncherTypeOK, Services, sources

\* Nothing is stamped at the beginning.
LEMMA StampsInitial == LauncherInit => StampInv
  <1> SUFFICES ASSUME LauncherInit PROVE StampInv
    OBVIOUS
  <1>1. \A c \in Terminals : command[c].at = "idle" /\ command[c].state = NoState
    BY NothingGiven DEF LauncherInit
  <1>2. \A p \in Parts : source[p] = 1 /\ NoState.stamp[p] = 0
    BY NothingGiven DEF LauncherInit
  <1>3. StampsHonest
    BY <1>1, <1>2 DEF LauncherInit, StampsHonest, Honest, HonestOf
  <1>4. OneBoots /\ BuildsHonest
    BY <1>1 DEF OneBoots, Boots, AtWork, BuildsHonest
  <1> QED
    BY <1>3, <1>4, LauncherInitial DEF StampInv

\* Every action keeps the stamps honest.
LEMMA StampsNext == StampInv /\ [LauncherNext]_launcherVars => StampInv'
  <1> SUFFICES ASSUME StampInv, [LauncherNext]_launcherVars PROVE StampInv'
    OBVIOUS
  <1>1. CASE UNCHANGED launcherVars
    BY <1>1 DEF launcherVars, StampInv, LauncherTypeOK, OneBoots, Boots, AtWork, StampsHonest, Honest, HonestOf,
                BuildsHonest, sources
  <1>2. ASSUME NEW c \in Terminals,
               Give(c) \/ Interrupt(c) \/ CommandStep(c) \/ BuildFails(c) \/ UpFails(c) \/ LauncherDies(c)
        PROVE  StampInv'
    BY <1>2, GiveKeepsStamps, InterruptKeepsStamps, BuildFailsKeepsStamps, ReadStateKeepsStamps,
       DownAndRetryKeepsStamps, UpFailsKeepsStamps, LauncherDiesKeepsStamps,
       StatKeepsStamps, BeginBuildKeepsStamps, EndBuildKeepsStamps, UpDockerKeepsStamps,
       SaveStateKeepsStamps, CheckPidKeepsStamps, SpawnRunnerKeepsStamps, RecordPidKeepsStamps,
       RunnerEndedKeepsStamps, LookKeepsStamps, KillRecordedKeepsStamps, AwaitEndKeepsStamps,
       KillPortsKeepsStamps, KillPatternsKeepsStamps, ForgetKeepsStamps, DownDockerKeepsStamps,
       UnlinkKeepsStamps
    DEF CommandStep
  <1>3. ASSUME NEW r \in 1 .. MaxRunners,
               SpawnService(r) \/ ExitAfterShutdown(r) \/ RunnerEnds(r) \/ RunnerDies(r)
        PROVE  StampInv'
    BY <1>3, RunnerKeepsStamps
  <1>4. ASSUME NEW part \in Parts, Change(part)
        PROVE  StampInv'
    BY <1>4, ChangeKeepsStamps
  <1>5. CASE Reboot
    BY <1>5, RebootKeepsStamps
  <1> QED
    BY <1>1, <1>2, <1>3, <1>4, <1>5 DEF LauncherNext

\* A part is left unbuilt only when it was built from what its sources are now: whichever launcher
\* stamped it, whatever was edited while it was built, whatever failed.
THEOREM StampsAreTrue == LauncherSpec => []StampHonest
  <1>1. StampInv => StampHonest
    BY DEF StampInv, StampsHonest, Honest, HonestOf, StampHonest
  <1> QED
    BY <1>1, StampsInitial, StampsNext, PTL DEF LauncherSpec

-----------------------------------------------------------------------------
(* secretary.py alone *)

\* The command under way is the only one, and one of secretary.py.
LEMMA Alone ==
    ASSUME StopInv, PyAlone, NEW c \in Terminals, command[c].at # "idle"
    PROVE  /\ \A d \in Terminals \ {c} : command[d] = NoCommand
           /\ GoesOn(command[c].kind, command[c].at)
           /\ command[c].kind \in {"install", "all", "start", "stop"} /\ Its(c) = "py"
           /\ stopped = FALSE
  <1>1. StopRest /\ LauncherTypeOK /\ command[c] # NoCommand
    BY NothingGiven DEF StopInv
  <1>2. \A d \in Terminals \ {c} : command[d] = NoCommand
    BY <1>1 DEF StopRest, OneAfterTheOther
  <1>3. GoesOn(command[c].kind, command[c].at)
    BY <1>1 DEF StopRest, OneAfterTheOther, GoesThrough
  <1>4. command[c].kind \in {"install", "all", "start", "stop"}
    BY <1>3 DEF GoesOn
  <1>5. stopped = FALSE
    BY <1>1 DEF StopRest, StoppedIsQuiet, LauncherTypeOK, sources
  <1> QED
    BY <1>2, <1>3, <1>4, <1>5 DEF Its, LauncherOf, PyKinds

\* So only what becomes of that command and of what it acts on is to be looked at.
LEMMA StopStep ==
    ASSUME StopInv, PyAlone, LauncherTypeOK', NEW c \in Terminals, command[c].at # "idle",
           Others(c), GoesThrough(c)', FreshAt(c)', RunnerKnown', StoppedIsQuiet', UnixServices', WindowsServices'
    PROVE  StopInv'
  <1>1. \A d \in Terminals \ {c} : command'[d] = NoCommand
    BY Alone DEF Others
  <1>2. OneAfterTheOther'
    BY <1>1 DEF OneAfterTheOther, GoesThrough
  <1>3. \A d \in Terminals : FreshAt(d)'
    BY <1>1, NothingGiven DEF FreshAt, At
  <1> QED
    BY <1>2, <1>3 DEF StopInv, StopRest

\* After a part come the infrastructure, another part, or the end.
LEMMA AfterPartIs ==
    ASSUME NEW part
    PROVE  /\ AfterPart(part) \in {"docker", "stat", "save"}
           /\ part = "deps" <=> AfterPart(part) = "docker"
           /\ part # "deps" => PartAfter(part) # "deps"
           /\ part = "deps" => PartAfter(part) = "deps"
  BY DEF AfterPart, PartAfter, SpeechNext

\* A step that records nothing and under which no runner comes up.
LEMMA RunnerKnownStays ==
    ASSUME RunnerKnown, \A r \in 1 .. MaxRunners : Alive(r)' => Alive(r), NEW c \in Terminals, Others(c),
           command[c].at # "record", file'["py"].pid = file["py"].pid, docker => docker',
           command[c].at # "retry" \/ docker', disorder \subseteq disorder'
    PROVE  RunnerKnown'
  <1> SUFFICES ASSUME NEW r \in 1 .. MaxRunners, Alive(r)'
               PROVE  /\ docker' \/ "fault" \in disorder' \/ \E d \in Terminals : command'[d].at = "retry"
                      /\ r = file'["py"].pid \/ \E d \in Terminals : command'[d].at = "record" /\ command'[d].pid = r
    BY DEF RunnerKnown, At
  <1>1. r = file["py"].pid \/ \E d \in Terminals : command[d].at = "record" /\ command[d].pid = r
    BY DEF RunnerKnown, At
  <1>2. docker \/ "fault" \in disorder \/ \E d \in Terminals : command[d].at = "retry"
    BY DEF RunnerKnown, At
  <1>3. r = file'["py"].pid \/ \E d \in Terminals : command'[d].at = "record" /\ command'[d].pid = r
    BY <1>1 DEF Others
  <1>4. docker' \/ "fault" \in disorder' \/ \E d \in Terminals : command'[d].at = "retry"
    BY <1>2 DEF Others
  <1> QED
    BY <1>3, <1>4

\* A step that stops no runner and does not come to the end of a stop.
LEMMA ServicesStay ==
    ASSUME UnixServices, WindowsServices, UNCHANGED <<platform, runner, live, stopped, disorder>>,
           NEW c \in Terminals, Others(c), command'[c].at \notin {"down", "unlink"}
    PROVE  UnixServices' /\ WindowsServices'
  <1>1. WindowsServices'
    BY DEF WindowsServices
  <1>2. ASSUME NEW d \in Terminals, command'[d].at \in {"down", "unlink"}
        PROVE  d # c /\ command[d].at \in {"down", "unlink"}
    BY <1>2 DEF Others
  <1>3. UnixServices'
    BY <1>2 DEF UnixServices, At
  <1> QED
    BY <1>1, <1>3

\* Reading the state keeps what is known of a launcher used alone.
LEMMA ReadStateKeepsStop ==
    ASSUME StopInv, NEW c \in Terminals, ReadState(c)
    PROVE  StopInv'
  <1>1. LauncherTypeOK /\ LauncherTypeOK' /\ Others(c) /\ command[c].at # "idle"
    BY ReadStateDoes DEF StopInv, ReadState, Moved, Ended
  <1>2. PyAlone' => PyAlone
    BY DEF ReadState, tally, PyAlone
  <1> SUFFICES ASSUME PyAlone PROVE StopInv'
    BY <1>1, <1>2 DEF StopInv
  <1>3. /\ \A d \in Terminals \ {c} : command[d] = NoCommand
        /\ GoesOn(command[c].kind, command[c].at)
        /\ command[c].kind \in {"install", "all", "start", "stop"} /\ Its(c) = "py"
        /\ stopped = FALSE /\ RunnerKnown /\ FreshAt(c) /\ UnixServices /\ WindowsServices
    BY <1>1, Alone DEF StopInv, StopRest
  <1>4. GoesThrough(c)'
    BY <1>1, <1>3, ReadStateDoes, NothingGiven, AfterPartIs DEF ReadState, GoesThrough, GoesOn, Moved, Ended
  <1>5. FreshAt(c)'
    <2>1. command[c].part = "deps" /\ command'[c].at = "stat" /\ command'[c].part = command[c].part
          /\ command'[c].state.pid = file["py"].pid /\ file' = file
      BY <1>1, <1>3, ReadStateDoes DEF ReadState, FreshAt, At
    <2> QED
      BY <2>1 DEF FreshAt, At
  <1>6. RunnerKnown'
    <2>1. (\A r \in 1 .. MaxRunners : Alive(r)' => Alive(r)) /\ (docker => docker')
          /\ command[c].at # "record" /\ (command[c].at # "retry" \/ docker') /\ disorder \subseteq disorder'
      BY DEF ReadState, Alive, world, sources, tally
    <2>2. file'["py"].pid = file["py"].pid
      BY <1>1, <1>3, ReadStateDoes DEF ReadState, FreshAt, At, GoesOn, LauncherTypeOK, Launchers, LauncherState, Command, sources
    <2> QED
      BY <1>1, <1>3, <2>1, <2>2, RunnerKnownStays
  <1>7. StoppedIsQuiet'
    BY <1>1, <1>3, ReadStateDoes, NothingGiven DEF ReadState, StoppedIsQuiet, tally
  <1>8. UnixServices' /\ WindowsServices'
    <2>1. UNCHANGED <<platform, runner, live, stopped, disorder>>
      BY DEF ReadState, world, tally, sources
    <2>2. command'[c].at \notin {"down", "unlink"}
      BY <1>1, <1>3, ReadStateDoes, NothingGiven, AfterPartIs DEF Moved, Ended
    <2> QED
      BY <1>1, <1>3, <2>1, <2>2, ServicesStay
  <1> QED
    BY <1>1, <1>4, <1>5, <1>6, <1>7, <1>8, StopStep

\* Looking whether a part is built keeps what is known of a launcher used alone.
LEMMA StatKeepsStop ==
    ASSUME StopInv, NEW c \in Terminals, Stat(c)
    PROVE  StopInv'
  <1>1. LauncherTypeOK /\ LauncherTypeOK' /\ Others(c) /\ command[c].at # "idle"
    BY StatDoes DEF StopInv, Stat, Moved, Ended, sources
  <1>2. PyAlone' => PyAlone
    BY DEF Stat, tally, sources, PyAlone
  <1> SUFFICES ASSUME PyAlone PROVE StopInv'
    BY <1>1, <1>2 DEF StopInv
  <1>3. /\ \A d \in Terminals \ {c} : command[d] = NoCommand
        /\ GoesOn(command[c].kind, command[c].at)
        /\ command[c].kind \in {"install", "all", "start", "stop"} /\ Its(c) = "py"
        /\ stopped = FALSE /\ RunnerKnown /\ FreshAt(c) /\ UnixServices /\ WindowsServices
    BY <1>1, Alone DEF StopInv, StopRest
  <1>4. GoesThrough(c)'
    BY <1>1, <1>3, StatDoes, NothingGiven, AfterPartIs DEF Stat, GoesThrough, GoesOn, Moved, Ended, sources
  <1>5. FreshAt(c)'
    <2>1. /\ command[c].at = "stat" /\ command'[c].kind = command[c].kind /\ command'[c].state = command[c].state
          /\ command[c].state.pid = file["py"].pid /\ file' = file /\ docker' = docker
          /\ command[c].part # "deps" => docker
      BY <1>1, <1>3, StatDoes DEF Stat, world, FreshAt, At, GoesOn, sources
    <2>2. \/ command'[c].at = AfterPart(command[c].part) /\ command'[c].part = PartAfter(command[c].part)
          \/ command'[c].at = "build" /\ command'[c].part = command[c].part
      BY <1>1, StatDoes
    <2>3. /\ command'[c].at \in {"docker", "stat", "save", "build"}
          /\ command'[c].at \in {"stat", "save"} => command[c].part # "deps"
          /\ command'[c].at = "build" /\ command'[c].part # "deps" => command[c].part # "deps"
      BY <2>2, AfterPartIs
    <2> QED
      BY <2>1, <2>3 DEF FreshAt, At
  <1>6. RunnerKnown'
    <2>1. (\A r \in 1 .. MaxRunners : Alive(r)' => Alive(r)) /\ (docker => docker')
          /\ command[c].at # "record" /\ (command[c].at # "retry" \/ docker') /\ disorder \subseteq disorder'
      BY DEF Stat, Alive, world, sources, tally
    <2>2. file'["py"].pid = file["py"].pid
      BY <1>1, <1>3, StatDoes DEF Stat, FreshAt, At, GoesOn, LauncherTypeOK, Launchers, LauncherState, Command, sources
    <2> QED
      BY <1>1, <1>3, <2>1, <2>2, RunnerKnownStays
  <1>7. StoppedIsQuiet'
    BY <1>1, <1>3, StatDoes, NothingGiven DEF Stat, StoppedIsQuiet, tally, sources
  <1>8. UnixServices' /\ WindowsServices'
    <2>1. UNCHANGED <<platform, runner, live, stopped, disorder>>
      BY DEF Stat, world, tally, sources
    <2>2. command'[c].at \notin {"down", "unlink"}
      BY <1>1, <1>3, StatDoes, NothingGiven, AfterPartIs DEF Moved, Ended
    <2> QED
      BY <1>1, <1>3, <2>1, <2>2, ServicesStay
  <1> QED
    BY <1>1, <1>4, <1>5, <1>6, <1>7, <1>8, StopStep

\* The beginning of a build keeps what is known of a launcher used alone.
LEMMA BeginBuildKeepsStop ==
    ASSUME StopInv, NEW c \in Terminals, BeginBuild(c)
    PROVE  StopInv'
  <1>1. LauncherTypeOK /\ LauncherTypeOK' /\ Others(c) /\ command[c].at # "idle"
    BY BeginBuildDoes DEF StopInv, BeginBuild, Moved, Ended
  <1>2. PyAlone' => PyAlone
    BY DEF BeginBuild, tally, PyAlone
  <1> SUFFICES ASSUME PyAlone PROVE StopInv'
    BY <1>1, <1>2 DEF StopInv
  <1>3. /\ \A d \in Terminals \ {c} : command[d] = NoCommand
        /\ GoesOn(command[c].kind, command[c].at)
        /\ command[c].kind \in {"install", "all", "start", "stop"} /\ Its(c) = "py"
        /\ stopped = FALSE /\ RunnerKnown /\ FreshAt(c) /\ UnixServices /\ WindowsServices
    BY <1>1, Alone DEF StopInv, StopRest
  <1>4. GoesThrough(c)'
    BY <1>1, <1>3, BeginBuildDoes, NothingGiven, AfterPartIs DEF BeginBuild, GoesThrough, GoesOn, Moved, Ended
  <1>5. FreshAt(c)'
    BY <1>1, <1>3, BeginBuildDoes, NothingGiven, AfterPartIs DEF BeginBuild, FreshAt, At, GoesOn, Moved, Ended, NoneAlive, Alive, RunnerKnown, world, LauncherTypeOK, Launchers, LauncherState, Command, sources
  <1>6. RunnerKnown'
    <2>1. (\A r \in 1 .. MaxRunners : Alive(r)' => Alive(r)) /\ (docker => docker')
          /\ command[c].at # "record" /\ (command[c].at # "retry" \/ docker') /\ disorder \subseteq disorder'
      BY DEF BeginBuild, Alive, world, sources, tally
    <2>2. file'["py"].pid = file["py"].pid
      BY <1>1, <1>3, BeginBuildDoes DEF BeginBuild, FreshAt, At, GoesOn, LauncherTypeOK, Launchers, LauncherState, Command, sources
    <2> QED
      BY <1>1, <1>3, <2>1, <2>2, RunnerKnownStays
  <1>7. StoppedIsQuiet'
    BY <1>1, <1>3, BeginBuildDoes, NothingGiven DEF BeginBuild, StoppedIsQuiet, tally
  <1>8. UnixServices' /\ WindowsServices'
    <2>1. UNCHANGED <<platform, runner, live, stopped, disorder>>
      BY DEF BeginBuild, world, tally, sources
    <2>2. command'[c].at \notin {"down", "unlink"}
      BY <1>1, <1>3, BeginBuildDoes, NothingGiven, AfterPartIs DEF Moved, Ended
    <2> QED
      BY <1>1, <1>3, <2>1, <2>2, ServicesStay
  <1> QED
    BY <1>1, <1>4, <1>5, <1>6, <1>7, <1>8, StopStep

\* The end of a build keeps what is known of a launcher used alone.
LEMMA EndBuildKeepsStop ==
    ASSUME StopInv, NEW c \in Terminals, EndBuild(c)
    PROVE  StopInv'
  <1>1. LauncherTypeOK /\ LauncherTypeOK' /\ Others(c) /\ command[c].at # "idle"
    BY EndBuildDoes DEF StopInv, EndBuild, Moved, Ended, sources
  <1>2. PyAlone' => PyAlone
    BY DEF EndBuild, tally, sources, PyAlone
  <1> SUFFICES ASSUME PyAlone PROVE StopInv'
    BY <1>1, <1>2 DEF StopInv
  <1>3. /\ \A d \in Terminals \ {c} : command[d] = NoCommand
        /\ GoesOn(command[c].kind, command[c].at)
        /\ command[c].kind \in {"install", "all", "start", "stop"} /\ Its(c) = "py"
        /\ stopped = FALSE /\ RunnerKnown /\ FreshAt(c) /\ UnixServices /\ WindowsServices
    BY <1>1, Alone DEF StopInv, StopRest
  <1>4. GoesThrough(c)'
    BY <1>1, <1>3, EndBuildDoes, NothingGiven, AfterPartIs DEF EndBuild, GoesThrough, GoesOn, Moved, Ended, sources
  <1>5. FreshAt(c)'
    <2>1. /\ command[c].at = "building" /\ file' = file /\ docker' = docker /\ command[c].kind # "start"
          /\ command[c].state.pid = file["py"].pid /\ (command[c].part # "deps" => docker)
      BY <1>3 DEF EndBuild, FreshAt, At, GoesOn, sources
    <2>2. command'[c].at = AfterPart(command[c].part) /\ command'[c].part = PartAfter(command[c].part)
          /\ command'[c].kind = command[c].kind
      BY <1>1, EndBuildDoes
    <2>3. command'[c].state.pid = command[c].state.pid
      BY <1>1, EndBuildDoes DEF LauncherTypeOK, Command, LauncherState, sources
    <2>4. /\ command'[c].at \in {"docker", "stat", "save"}
          /\ command'[c].at \in {"stat", "save"} => command[c].part # "deps"
      BY <2>2, AfterPartIs
    <2> QED
      BY <2>1, <2>2, <2>3, <2>4 DEF FreshAt, At
  <1>6. RunnerKnown'
    <2>1. (\A r \in 1 .. MaxRunners : Alive(r)' => Alive(r)) /\ (docker => docker')
          /\ command[c].at # "record" /\ (command[c].at # "retry" \/ docker') /\ disorder \subseteq disorder'
      BY DEF EndBuild, Alive, world, sources, tally
    <2>2. file'["py"].pid = file["py"].pid
      BY <1>1, <1>3, EndBuildDoes DEF EndBuild, FreshAt, At, GoesOn, LauncherTypeOK, Launchers, LauncherState, Command, sources
    <2> QED
      BY <1>1, <1>3, <2>1, <2>2, RunnerKnownStays
  <1>7. StoppedIsQuiet'
    BY <1>1, <1>3, EndBuildDoes, NothingGiven DEF EndBuild, StoppedIsQuiet, tally, sources
  <1>8. UnixServices' /\ WindowsServices'
    <2>1. UNCHANGED <<platform, runner, live, stopped, disorder>>
      BY DEF EndBuild, world, tally, sources
    <2>2. command'[c].at \notin {"down", "unlink"}
      BY <1>1, <1>3, EndBuildDoes, NothingGiven, AfterPartIs DEF Moved, Ended
    <2> QED
      BY <1>1, <1>3, <2>1, <2>2, ServicesStay
  <1> QED
    BY <1>1, <1>4, <1>5, <1>6, <1>7, <1>8, StopStep

\* Starting the infrastructure keeps what is known of a launcher used alone.
LEMMA UpDockerKeepsStop ==
    ASSUME StopInv, NEW c \in Terminals, UpDocker(c)
    PROVE  StopInv'
  <1>1. LauncherTypeOK /\ LauncherTypeOK' /\ Others(c) /\ command[c].at # "idle"
    BY UpDockerDoes DEF StopInv, UpDocker, Moved, Ended, sources
  <1>2. PyAlone' => PyAlone
    BY DEF UpDocker, tally, sources, PyAlone
  <1> SUFFICES ASSUME PyAlone PROVE StopInv'
    BY <1>1, <1>2 DEF StopInv
  <1>3. /\ \A d \in Terminals \ {c} : command[d] = NoCommand
        /\ GoesOn(command[c].kind, command[c].at)
        /\ command[c].kind \in {"install", "all", "start", "stop"} /\ Its(c) = "py"
        /\ stopped = FALSE /\ RunnerKnown /\ FreshAt(c) /\ UnixServices /\ WindowsServices
    BY <1>1, Alone DEF StopInv, StopRest
  <1>4. GoesThrough(c)'
    <2>1. /\ command'[c].at \in {"check", "stat"} /\ (command[c].kind = "start" <=> command'[c].at = "check")
          /\ command'[c].kind = command[c].kind /\ command'[c].state = command[c].state
      BY <1>1, <1>3, UpDockerDoes
    <2> QED
      BY <1>3, <2>1 DEF UpDocker, GoesThrough, GoesOn, sources
  <1>5. FreshAt(c)'
    <2>1. /\ command'[c].at \in {"check", "stat"} /\ (command[c].kind = "start" <=> command'[c].at = "check")
          /\ command'[c].kind = command[c].kind /\ command'[c].state = command[c].state
      BY <1>1, <1>3, UpDockerDoes
    <2>2. docker' = TRUE /\ file' = file /\ (command[c].kind # "start" => command[c].state.pid = file["py"].pid)
      BY <1>3 DEF UpDocker, FreshAt, At, sources
    <2> QED
      BY <2>1, <2>2 DEF FreshAt, At
  <1>6. RunnerKnown'
    <2>1. (\A r \in 1 .. MaxRunners : Alive(r)' => Alive(r)) /\ (docker => docker')
          /\ command[c].at # "record" /\ (command[c].at # "retry" \/ docker') /\ disorder \subseteq disorder'
      BY DEF UpDocker, Alive, world, sources, tally
    <2>2. file'["py"].pid = file["py"].pid
      BY <1>1, <1>3, UpDockerDoes DEF UpDocker, FreshAt, At, GoesOn, LauncherTypeOK, Launchers, LauncherState, Command, sources
    <2> QED
      BY <1>1, <1>3, <2>1, <2>2, RunnerKnownStays
  <1>7. StoppedIsQuiet'
    BY <1>1, <1>3, UpDockerDoes, NothingGiven DEF UpDocker, StoppedIsQuiet, tally, sources
  <1>8. UnixServices' /\ WindowsServices'
    <2>1. UNCHANGED <<platform, runner, live, stopped, disorder>>
      BY DEF UpDocker, world, tally, sources
    <2>2. command'[c].at \notin {"down", "unlink"}
      BY <1>1, <1>3, UpDockerDoes, NothingGiven, AfterPartIs DEF Moved, Ended
    <2> QED
      BY <1>1, <1>3, <2>1, <2>2, ServicesStay
  <1> QED
    BY <1>1, <1>4, <1>5, <1>6, <1>7, <1>8, StopStep

\* Trying the infrastructure again keeps what is known of a launcher used alone.
LEMMA DownAndRetryKeepsStop ==
    ASSUME StopInv, NEW c \in Terminals, DownAndRetry(c)
    PROVE  StopInv'
  <1>1. LauncherTypeOK /\ LauncherTypeOK' /\ Moved(c, "retry") /\ Others(c) /\ command[c].at = "docker"
        /\ UNCHANGED <<platform, file, runner, live, stopped, disorder>>
    BY DownAndRetryDoes DEF StopInv, DownAndRetry, Moved, tally
  <1> SUFFICES ASSUME PyAlone PROVE StopInv'
    BY <1>1 DEF StopInv, PyAlone
  <1>2. /\ \A d \in Terminals \ {c} : command[d] = NoCommand
        /\ GoesOn(command[c].kind, "docker")
        /\ stopped = FALSE /\ RunnerKnown /\ FreshAt(c) /\ UnixServices /\ WindowsServices
    BY <1>1, Alone DEF StopInv, StopRest
  <1>3. GoesThrough(c)' /\ FreshAt(c)'
    BY <1>1, <1>2 DEF GoesThrough, GoesOn, FreshAt, At, Moved
  <1>4. RunnerKnown'
    <2>1. \A r \in 1 .. MaxRunners : Alive(r) => r = file["py"].pid
      BY <1>1, <1>2, NothingGiven DEF RunnerKnown, At
    <2> QED
      BY <1>1, <2>1 DEF RunnerKnown, Alive, At, Moved
  <1>5. StoppedIsQuiet'
    BY <1>1, <1>2 DEF StoppedIsQuiet
  <1>6. UnixServices' /\ WindowsServices'
    BY <1>1, <1>2, ServicesStay DEF Moved
  <1> QED
    BY <1>1, <1>3, <1>4, <1>5, <1>6, StopStep

\* An infrastructure that fails keeps what is known of a launcher used alone.
LEMMA UpFailsKeepsStop ==
    ASSUME StopInv, NEW c \in Terminals, UpFails(c)
    PROVE  StopInv'
  <1>1. /\ LauncherTypeOK' /\ Ended(c) /\ Others(c) /\ command[c].at # "idle"
        /\ UNCHANGED <<platform, file, runner, live, stopped>>
    BY UpFailsDoes DEF StopInv, UpFails, Ended, world
  <1> SUFFICES ASSUME PyAlone' PROVE StopInv'
    BY <1>1 DEF StopInv
  <1>2. PyAlone /\ command[c].at # "record" /\ "fault" \in disorder'
    BY DEF UpFails, PyAlone
  <1>3. /\ \A d \in Terminals : command'[d] = NoCommand
        /\ \A d \in Terminals : command[d].at # "record"
        /\ stopped = FALSE /\ RunnerKnown
    <2>1. (\A d \in Terminals \ {c} : command[d] = NoCommand) /\ stopped = FALSE /\ RunnerKnown
      BY <1>1, <1>2, Alone DEF StopInv, StopRest
    <2> QED
      BY <1>1, <1>2, <2>1, NothingGiven DEF Ended, Others
  <1>4. GoesThrough(c)' /\ FreshAt(c)'
    BY <1>3, NothingGiven DEF GoesThrough, FreshAt, At
  <1>5. RunnerKnown'
    <2>1. \A r \in 1 .. MaxRunners : Alive(r) => r = file["py"].pid
      BY <1>3 DEF RunnerKnown, At
    <2> QED
      BY <1>1, <1>2, <2>1 DEF RunnerKnown, Alive
  <1>6. StoppedIsQuiet' /\ UnixServices' /\ WindowsServices'
    BY <1>1, <1>2, <1>3, NothingGiven DEF StoppedIsQuiet, UnixServices, WindowsServices, At
  <1> QED
    BY <1>1, <1>2, <1>4, <1>5, <1>6, StopStep

\* A command that dies keeps what is known of a launcher used alone, unless it loses its runner.
LEMMA LauncherDiesKeepsStop ==
    ASSUME StopInv, NEW c \in Terminals, LauncherDies(c)
    PROVE  StopInv'
  <1>1. /\ LauncherTypeOK' /\ Ended(c) /\ Others(c) /\ command[c].at # "idle"
        /\ UNCHANGED <<platform, file, runner, live, stopped>>
    BY LauncherDiesDoes DEF StopInv, LauncherDies, Ended, world
  <1> SUFFICES ASSUME PyAlone' PROVE StopInv'
    BY <1>1 DEF StopInv
  <1>2. PyAlone /\ command[c].at # "record" /\ "fault" \in disorder'
    BY DEF LauncherDies, PyAlone
  <1>3. /\ \A d \in Terminals : command'[d] = NoCommand
        /\ \A d \in Terminals : command[d].at # "record"
        /\ stopped = FALSE /\ RunnerKnown
    <2>1. (\A d \in Terminals \ {c} : command[d] = NoCommand) /\ stopped = FALSE /\ RunnerKnown
      BY <1>1, <1>2, Alone DEF StopInv, StopRest
    <2> QED
      BY <1>1, <1>2, <2>1, NothingGiven DEF Ended, Others
  <1>4. GoesThrough(c)' /\ FreshAt(c)'
    BY <1>3, NothingGiven DEF GoesThrough, FreshAt, At
  <1>5. RunnerKnown'
    <2>1. \A r \in 1 .. MaxRunners : Alive(r) => r = file["py"].pid
      BY <1>3 DEF RunnerKnown, At
    <2> QED
      BY <1>1, <1>2, <2>1 DEF RunnerKnown, Alive
  <1>6. StoppedIsQuiet' /\ UnixServices' /\ WindowsServices'
    BY <1>1, <1>2, <1>3, NothingGiven DEF StoppedIsQuiet, UnixServices, WindowsServices, At
  <1> QED
    BY <1>1, <1>2, <1>4, <1>5, <1>6, StopStep

\* Saving the state keeps what is known of a launcher used alone.
LEMMA SaveStateKeepsStop ==
    ASSUME StopInv, NEW c \in Terminals, SaveState(c)
    PROVE  StopInv'
  <1>1. LauncherTypeOK /\ LauncherTypeOK' /\ Others(c) /\ command[c].at # "idle"
    BY SaveStateDoes DEF StopInv, SaveState, Moved, Ended
  <1>2. PyAlone' => PyAlone
    BY DEF SaveState, tally, PyAlone
  <1> SUFFICES ASSUME PyAlone PROVE StopInv'
    BY <1>1, <1>2 DEF StopInv
  <1>3. /\ \A d \in Terminals \ {c} : command[d] = NoCommand
        /\ GoesOn(command[c].kind, command[c].at)
        /\ command[c].kind \in {"install", "all", "start", "stop"} /\ Its(c) = "py"
        /\ stopped = FALSE /\ RunnerKnown /\ FreshAt(c) /\ UnixServices /\ WindowsServices
    BY <1>1, Alone DEF StopInv, StopRest
  <1>4. GoesThrough(c)'
    BY <1>1, <1>3, SaveStateDoes, NothingGiven, AfterPartIs DEF SaveState, GoesThrough, GoesOn, Moved, Ended
  <1>5. FreshAt(c)'
    <2>1. command[c].at = "save" /\ docker' = docker /\ docker
      BY <1>3 DEF SaveState, world, FreshAt, At, sources
    <2>2. command'[c].at \in {"check", "idle"}
      BY <1>1, <1>3, SaveStateDoes, NothingGiven DEF Moved, Ended
    <2> QED
      BY <2>1, <2>2 DEF FreshAt, At
  <1>6. RunnerKnown'
    <2>1. (\A r \in 1 .. MaxRunners : Alive(r)' => Alive(r)) /\ (docker => docker')
          /\ command[c].at # "record" /\ (command[c].at # "retry" \/ docker') /\ disorder \subseteq disorder'
      BY DEF SaveState, Alive, world, sources, tally
    <2>2. file'["py"].pid = file["py"].pid
      BY <1>1, <1>3, SaveStateDoes DEF SaveState, FreshAt, At, GoesOn, LauncherTypeOK, Launchers, LauncherState, Command, sources
    <2> QED
      BY <1>1, <1>3, <2>1, <2>2, RunnerKnownStays
  <1>7. StoppedIsQuiet'
    BY <1>1, <1>3, SaveStateDoes, NothingGiven DEF SaveState, StoppedIsQuiet, tally
  <1>8. UnixServices' /\ WindowsServices'
    <2>1. UNCHANGED <<platform, runner, live, stopped, disorder>>
      BY DEF SaveState, world, tally, sources
    <2>2. command'[c].at \notin {"down", "unlink"}
      BY <1>1, <1>3, SaveStateDoes, NothingGiven, AfterPartIs DEF Moved, Ended
    <2> QED
      BY <1>1, <1>3, <2>1, <2>2, ServicesStay
  <1> QED
    BY <1>1, <1>4, <1>5, <1>6, <1>7, <1>8, StopStep

\* Looking whether the recorded runner is alive keeps what is known of a launcher used alone.
LEMMA CheckPidKeepsStop ==
    ASSUME StopInv, NEW c \in Terminals, CheckPid(c)
    PROVE  StopInv'
  <1>1. LauncherTypeOK /\ LauncherTypeOK' /\ Others(c) /\ command[c].at # "idle"
    BY CheckPidDoes DEF StopInv, CheckPid, Moved, Ended
  <1>2. PyAlone' => PyAlone
    BY DEF CheckPid, tally, PyAlone
  <1> SUFFICES ASSUME PyAlone PROVE StopInv'
    BY <1>1, <1>2 DEF StopInv
  <1>3. /\ \A d \in Terminals \ {c} : command[d] = NoCommand
        /\ GoesOn(command[c].kind, command[c].at)
        /\ command[c].kind \in {"install", "all", "start", "stop"} /\ Its(c) = "py"
        /\ stopped = FALSE /\ RunnerKnown /\ FreshAt(c) /\ UnixServices /\ WindowsServices
    BY <1>1, Alone DEF StopInv, StopRest
  <1>4. GoesThrough(c)'
    BY <1>1, <1>3, CheckPidDoes, NothingGiven, AfterPartIs DEF CheckPid, GoesThrough, GoesOn, Moved, Ended
  <1>5. FreshAt(c)'
    <2>1. command[c].at = "check" /\ UNCHANGED <<docker, runner, file>> /\ docker
      BY <1>3 DEF CheckPid, world, FreshAt, At, sources
    <2>2. CASE command'[c].at = "idle"
      BY <2>2 DEF FreshAt, At
    <2>3. CASE command'[c].at = "spawn" /\ (file["py"].pid # 0 => ~Alive(file["py"].pid))
      <3>1. \A d \in Terminals : command[d].at # "record"
        BY <1>3, <2>1, NothingGiven
      <3>2. NoneAlive
        BY <1>3, <2>3, <3>1 DEF RunnerKnown, NoneAlive, At
      <3> QED
        BY <2>1, <2>3, <3>2 DEF FreshAt, At, NoneAlive, Alive
    <2> QED
      BY <1>1, <2>2, <2>3, CheckPidDoes, NothingGiven DEF Ended
  <1>6. RunnerKnown'
    <2>1. (\A r \in 1 .. MaxRunners : Alive(r)' => Alive(r)) /\ (docker => docker')
          /\ command[c].at # "record" /\ (command[c].at # "retry" \/ docker') /\ disorder \subseteq disorder'
      BY DEF CheckPid, Alive, world, sources, tally
    <2>2. file'["py"].pid = file["py"].pid
      BY <1>1, <1>3, CheckPidDoes DEF CheckPid, FreshAt, At, GoesOn, LauncherTypeOK, Launchers, LauncherState, Command, sources
    <2> QED
      BY <1>1, <1>3, <2>1, <2>2, RunnerKnownStays
  <1>7. StoppedIsQuiet'
    BY <1>1, <1>3, CheckPidDoes, NothingGiven DEF CheckPid, StoppedIsQuiet, tally
  <1>8. UnixServices' /\ WindowsServices'
    <2>1. UNCHANGED <<platform, runner, live, stopped, disorder>>
      BY DEF CheckPid, world, tally, sources
    <2>2. command'[c].at \notin {"down", "unlink"}
      BY <1>1, <1>3, CheckPidDoes, NothingGiven, AfterPartIs DEF Moved, Ended
    <2> QED
      BY <1>1, <1>3, <2>1, <2>2, ServicesStay
  <1> QED
    BY <1>1, <1>4, <1>5, <1>6, <1>7, <1>8, StopStep

\* Spawning the runner keeps what is known of a launcher used alone.
LEMMA SpawnRunnerKeepsStop ==
    ASSUME StopInv, NEW c \in Terminals, SpawnRunner(c)
    PROVE  StopInv'
  <1>1. LauncherTypeOK /\ LauncherTypeOK' /\ Others(c) /\ command[c].at # "idle"
    BY SpawnRunnerDoes DEF StopInv, SpawnRunner, Moved, Ended
  <1>2. PyAlone' => PyAlone
    BY DEF SpawnRunner, tally, PyAlone
  <1> SUFFICES ASSUME PyAlone PROVE StopInv'
    BY <1>1, <1>2 DEF StopInv
  <1>3. /\ \A d \in Terminals \ {c} : command[d] = NoCommand
        /\ GoesOn(command[c].kind, command[c].at)
        /\ command[c].kind \in {"install", "all", "start", "stop"} /\ Its(c) = "py"
        /\ stopped = FALSE /\ RunnerKnown /\ FreshAt(c) /\ UnixServices /\ WindowsServices
    BY <1>1, Alone DEF StopInv, StopRest
  <1>4. GoesThrough(c)'
    BY <1>1, <1>3, SpawnRunnerDoes, NothingGiven, AfterPartIs DEF SpawnRunner, GoesThrough, GoesOn, Moved, Ended
  <1>5. FreshAt(c)'
    <2>1. NoneAlive /\ docker /\ UNCHANGED docker
      BY <1>3 DEF SpawnRunner, world, FreshAt, At, sources
    <2>2. command'[c].at = "record" /\ runner' = [runner EXCEPT ![command'[c].pid].at = "on"]
      BY <1>1, <1>3, SpawnRunnerDoes
    <2>3. \A r \in 1 .. MaxRunners : Alive(r)' => r = command'[c].pid
      BY <1>1, <2>1, <2>2 DEF NoneAlive, Alive, LauncherTypeOK, sources
    <2> QED
      BY <2>1, <2>2, <2>3 DEF FreshAt, At
  <1>6. RunnerKnown'
    <2>1. NoneAlive /\ docker /\ UNCHANGED docker
      BY <1>3 DEF SpawnRunner, world, FreshAt, At, sources
    <2>2. command'[c].at = "record" /\ runner' = [runner EXCEPT ![command'[c].pid].at = "on"]
      BY <1>1, <1>3, SpawnRunnerDoes
    <2>3. \A r \in 1 .. MaxRunners : Alive(r)' => r = command'[c].pid
      BY <1>1, <2>1, <2>2 DEF NoneAlive, Alive, LauncherTypeOK, sources
    <2> QED
      BY <2>1, <2>2, <2>3 DEF RunnerKnown, At
  <1>7. StoppedIsQuiet'
    BY <1>1, <1>3, SpawnRunnerDoes, NothingGiven DEF SpawnRunner, StoppedIsQuiet, tally
  <1>8. UnixServices' /\ WindowsServices'
    <2>1. UNCHANGED <<platform, live, stopped, disorder>> /\ command'[c].at = "record"
          /\ runner' = [runner EXCEPT ![command'[c].pid].at = "on"]
      BY <1>1, <1>3, SpawnRunnerDoes DEF SpawnRunner, world, tally, sources
    <2>2. \A d \in Terminals : command'[d].at \notin {"down", "unlink"}
      BY <1>1, <1>3, <2>1, NothingGiven DEF Others
    <2>3. UnixServices'
      BY <1>3, <2>1, <2>2 DEF UnixServices, At
    <2>4. \A s \in live : s[1] \in 1 .. MaxRunners
      BY <1>1 DEF LauncherTypeOK, Services, sources
    <2>5. WindowsServices'
      BY <1>1, <1>3, <2>1, <2>4 DEF WindowsServices, LauncherTypeOK, ServiceRunner, sources
    <2> QED
      BY <2>3, <2>5
  <1> QED
    BY <1>1, <1>4, <1>5, <1>6, <1>7, <1>8, StopStep

\* Recording the runner keeps what is known of a launcher used alone.
LEMMA RecordPidKeepsStop ==
    ASSUME StopInv, NEW c \in Terminals, RecordPid(c)
    PROVE  StopInv'
  <1>1. LauncherTypeOK /\ LauncherTypeOK' /\ Others(c) /\ command[c].at # "idle"
    BY RecordPidDoes DEF StopInv, RecordPid, Moved, Ended
  <1>2. PyAlone' => PyAlone
    BY DEF RecordPid, tally, PyAlone
  <1> SUFFICES ASSUME PyAlone PROVE StopInv'
    BY <1>1, <1>2 DEF StopInv
  <1>3. /\ \A d \in Terminals \ {c} : command[d] = NoCommand
        /\ GoesOn(command[c].kind, command[c].at)
        /\ command[c].kind \in {"install", "all", "start", "stop"} /\ Its(c) = "py"
        /\ stopped = FALSE /\ RunnerKnown /\ FreshAt(c) /\ UnixServices /\ WindowsServices
    BY <1>1, Alone DEF StopInv, StopRest
  <1>4. GoesThrough(c)'
    BY <1>1, <1>3, RecordPidDoes, NothingGiven, AfterPartIs DEF RecordPid, GoesThrough, GoesOn, Moved, Ended
  <1>5. FreshAt(c)'
    BY <1>1, <1>3, RecordPidDoes, NothingGiven, AfterPartIs DEF RecordPid, FreshAt, At, GoesOn, Moved, Ended, NoneAlive, Alive, RunnerKnown, world, LauncherTypeOK, Launchers, LauncherState, Command, sources
  <1>6. RunnerKnown'
    <2>1. command[c].at = "record" /\ UNCHANGED <<docker, runner>> /\ docker
      BY <1>3 DEF RecordPid, world, FreshAt, At, sources
    <2>2. file'["py"].pid = command[c].pid
      BY <1>1, <1>3, RecordPidDoes DEF LauncherTypeOK, Launchers, LauncherState, Command, sources
    <2>3. \A r \in 1 .. MaxRunners : Alive(r) => r = command[c].pid
      BY <1>3, <2>1 DEF FreshAt, At
    <2> QED
      BY <2>1, <2>2, <2>3 DEF RunnerKnown, Alive
  <1>7. StoppedIsQuiet'
    BY <1>1, <1>3, RecordPidDoes, NothingGiven DEF RecordPid, StoppedIsQuiet, tally
  <1>8. UnixServices' /\ WindowsServices'
    <2>1. UNCHANGED <<platform, runner, live, stopped, disorder>>
      BY DEF RecordPid, world, tally, sources
    <2>2. command'[c].at \notin {"down", "unlink"}
      BY <1>1, <1>3, RecordPidDoes, NothingGiven DEF Moved, Ended
    <2> QED
      BY <1>1, <1>3, <2>1, <2>2, ServicesStay
  <1> QED
    BY <1>1, <1>4, <1>5, <1>6, <1>7, <1>8, StopStep

\* Looking for the recorded runner keeps what is known of a launcher used alone.
LEMMA LookKeepsStop ==
    ASSUME StopInv, NEW c \in Terminals, Look(c)
    PROVE  StopInv'
  <1>1. LauncherTypeOK /\ LauncherTypeOK' /\ Others(c) /\ command[c].at # "idle"
    BY LookDoes DEF StopInv, Look, Moved, Ended
  <1>2. PyAlone' => PyAlone
    BY DEF Look, tally, PyAlone
  <1> SUFFICES ASSUME PyAlone PROVE StopInv'
    BY <1>1, <1>2 DEF StopInv
  <1>3. /\ \A d \in Terminals \ {c} : command[d] = NoCommand
        /\ GoesOn(command[c].kind, command[c].at)
        /\ command[c].kind \in {"install", "all", "start", "stop"} /\ Its(c) = "py"
        /\ stopped = FALSE /\ RunnerKnown /\ FreshAt(c) /\ UnixServices /\ WindowsServices
    BY <1>1, Alone DEF StopInv, StopRest
  <1>4. GoesThrough(c)'
    BY <1>1, <1>3, LookDoes, NothingGiven, AfterPartIs DEF Look, GoesThrough, GoesOn, Moved, Ended
  <1>5. FreshAt(c)'
    BY <1>1, <1>3, LookDoes, NothingGiven, AfterPartIs, ZenonT(60) DEF Look, FreshAt, At, GoesOn, Moved, Ended, NoneAlive, Alive, RunnerKnown, world, LauncherTypeOK, Launchers, LauncherState, Command, sources
  <1>6. RunnerKnown'
    <2>1. (\A r \in 1 .. MaxRunners : Alive(r)' => Alive(r)) /\ (docker => docker')
          /\ command[c].at # "record" /\ (command[c].at # "retry" \/ docker') /\ disorder \subseteq disorder'
      BY DEF Look, Alive, world, sources, tally
    <2>2. file'["py"].pid = file["py"].pid
      BY <1>1, <1>3, LookDoes DEF Look, FreshAt, At, GoesOn, LauncherTypeOK, Launchers, LauncherState, Command, sources
    <2> QED
      BY <1>1, <1>3, <2>1, <2>2, RunnerKnownStays
  <1>7. StoppedIsQuiet'
    BY <1>1, <1>3, LookDoes, NothingGiven DEF Look, StoppedIsQuiet, tally
  <1>8. UnixServices' /\ WindowsServices'
    <2>1. UNCHANGED <<platform, runner, live, stopped, disorder>>
      BY DEF Look, world, tally, sources
    <2>2. command'[c].at \notin {"down", "unlink"}
      BY <1>1, <1>3, LookDoes, NothingGiven, AfterPartIs DEF Moved, Ended
    <2> QED
      BY <1>1, <1>3, <2>1, <2>2, ServicesStay
  <1> QED
    BY <1>1, <1>4, <1>5, <1>6, <1>7, <1>8, StopStep

\* Signalling the recorded runner keeps what is known of a launcher used alone.
LEMMA KillRecordedKeepsStop ==
    ASSUME StopInv, NEW c \in Terminals, KillRecorded(c)
    PROVE  StopInv'
  <1>1. LauncherTypeOK /\ LauncherTypeOK' /\ Others(c) /\ command[c].at # "idle"
    BY KillRecordedDoes DEF StopInv, KillRecorded, Moved, Ended
  <1>2. PyAlone' => PyAlone
    BY DEF KillRecorded, tally, PyAlone
  <1> SUFFICES ASSUME PyAlone PROVE StopInv'
    BY <1>1, <1>2 DEF StopInv
  <1>3. /\ \A d \in Terminals \ {c} : command[d] = NoCommand
        /\ GoesOn(command[c].kind, command[c].at)
        /\ command[c].kind \in {"install", "all", "start", "stop"} /\ Its(c) = "py"
        /\ stopped = FALSE /\ RunnerKnown /\ FreshAt(c) /\ UnixServices /\ WindowsServices
    BY <1>1, Alone DEF StopInv, StopRest
  <1>4. GoesThrough(c)'
    BY <1>1, <1>3, KillRecordedDoes, NothingGiven, AfterPartIs DEF KillRecorded, GoesThrough, GoesOn, Moved, Ended
  <1>5. FreshAt(c)'
    BY <1>1, <1>3, KillRecordedDoes, NothingGiven, AfterPartIs DEF KillRecorded, FreshAt, At, GoesOn, Moved, Ended, NoneAlive, Alive, RunnerKnown, world, LauncherTypeOK, Launchers, LauncherState, Command, sources
  <1>6. RunnerKnown'
    <2>1. command[c].at = "kill" /\ UNCHANGED <<docker, file>> /\ Moved(c, "await")
      BY <1>1, <1>3, KillRecordedDoes DEF KillRecorded, world, sources
    <2>3. disorder' = disorder
      BY DEF KillRecorded, tally
    <2>2. \A r \in 1 .. MaxRunners : Alive(r)' => Alive(r)
      <3>1. CASE UNCHANGED runner
        BY <3>1 DEF Alive
      <3>2. CASE \E at \in {"stopping", "gone"} : runner' = [runner EXCEPT ![command[c].pid].at = at]
                                               /\ (at = "stopping" => runner[command[c].pid].at = "on")
        BY <1>1, <3>2 DEF Alive, LauncherTypeOK, ServiceRunner, sources
      <3> QED
        BY <1>1, <3>1, <3>2, KillRecordedDoes DEF Signal
    <2> QED
      BY <1>1, <1>3, <2>1, <2>2, <2>3, RunnerKnownStays
  <1>7. StoppedIsQuiet'
    BY <1>1, <1>3, KillRecordedDoes, NothingGiven DEF KillRecorded, StoppedIsQuiet, tally
  <1>8. UnixServices' /\ WindowsServices'
    <2>1. UNCHANGED <<platform, stopped, disorder>> /\ Moved(c, "await")
      BY <1>1, <1>3, KillRecordedDoes DEF KillRecorded, world, tally, sources
    <2>2. \A d \in Terminals : command'[d].at \notin {"down", "unlink"}
      BY <1>1, <1>3, <2>1, NothingGiven DEF Others, Moved
    <2>3. UnixServices'
      BY <1>3, <2>1, <2>2 DEF UnixServices, At
    <2>4. ASSUME platform # "unix", disorder \subseteq {"docker"}
          PROVE  /\ \A r \in 1 .. MaxRunners : runner'[r].at \in {"none", "on", "gone"}
                 /\ \A s \in live' : runner'[s[1]].at = "on"
      <3>1. /\ \A r \in 1 .. MaxRunners : runner[r].at \in {"none", "on", "gone"}
            /\ \A s \in live : s[1] \in 1 .. MaxRunners /\ runner[s[1]].at = "on"
        BY <1>1, <1>3, <2>4 DEF WindowsServices, LauncherTypeOK, Services, sources
      <3>2. CASE UNCHANGED <<runner, live>>
        BY <3>1, <3>2
      <3>3. CASE ~UNCHANGED <<runner, live>>
        <4>1. /\ runner' = [runner EXCEPT ![command[c].pid].at = "gone"]
              /\ live' = IF Alive(command[c].pid) THEN {s \in live : s[1] # command[c].pid} ELSE live
          BY <1>1, <2>4, <3>3, KillRecordedDoes DEF MaySignal
        <4>2. \A s \in live' : s \in live /\ s[1] # command[c].pid
          BY <3>1, <4>1 DEF Alive
        <4> QED
          BY <1>1, <3>1, <4>1, <4>2 DEF LauncherTypeOK, ServiceRunner, sources
      <3> QED
        BY <3>2, <3>3
    <2> QED
      BY <2>1, <2>3, <2>4 DEF WindowsServices
  <1> QED
    BY <1>1, <1>4, <1>5, <1>6, <1>7, <1>8, StopStep

\* Waiting for the runner to end keeps what is known of a launcher used alone.
LEMMA AwaitEndKeepsStop ==
    ASSUME StopInv, NEW c \in Terminals, AwaitEnd(c)
    PROVE  StopInv'
  <1>1. LauncherTypeOK /\ LauncherTypeOK' /\ Others(c) /\ command[c].at # "idle"
    BY AwaitEndDoes DEF StopInv, AwaitEnd, Moved, Ended
  <1>2. PyAlone' => PyAlone
    BY DEF AwaitEnd, tally, PyAlone
  <1> SUFFICES ASSUME PyAlone PROVE StopInv'
    BY <1>1, <1>2 DEF StopInv
  <1>3. /\ \A d \in Terminals \ {c} : command[d] = NoCommand
        /\ GoesOn(command[c].kind, command[c].at)
        /\ command[c].kind \in {"install", "all", "start", "stop"} /\ Its(c) = "py"
        /\ stopped = FALSE /\ RunnerKnown /\ FreshAt(c) /\ UnixServices /\ WindowsServices
    BY <1>1, Alone DEF StopInv, StopRest
  <1>4. GoesThrough(c)'
    BY <1>1, <1>3, AwaitEndDoes, NothingGiven, AfterPartIs DEF AwaitEnd, GoesThrough, GoesOn, Moved, Ended
  <1>5. FreshAt(c)'
    <2>1. /\ command[c].at = "await" /\ command[c].kind = "stop" /\ UNCHANGED <<runner, docker, file>>
          /\ command[c].pid = file["py"].pid /\ (command[c].pid # 0 => ~Alive(command[c].pid))
      BY <1>3 DEF AwaitEnd, world, FreshAt, At, GoesOn, sources
    <2>2. Moved(c, "ports")
      BY <1>1, <2>1, AwaitEndDoes
    <2>3. NoneAlive
      BY <1>3, <2>1, NothingGiven DEF RunnerKnown, NoneAlive, At
    <2> QED
      BY <2>2, <2>3, <2>1 DEF FreshAt, At, Moved, NoneAlive, Alive
  <1>6. RunnerKnown'
    <2>1. (\A r \in 1 .. MaxRunners : Alive(r)' => Alive(r)) /\ (docker => docker')
          /\ command[c].at # "record" /\ (command[c].at # "retry" \/ docker') /\ disorder \subseteq disorder'
      BY DEF AwaitEnd, Alive, world, sources, tally
    <2>2. file'["py"].pid = file["py"].pid
      BY <1>1, <1>3, AwaitEndDoes DEF AwaitEnd, FreshAt, At, GoesOn, LauncherTypeOK, Launchers, LauncherState, Command, sources
    <2> QED
      BY <1>1, <1>3, <2>1, <2>2, RunnerKnownStays
  <1>7. StoppedIsQuiet'
    BY <1>1, <1>3, AwaitEndDoes, NothingGiven DEF AwaitEnd, StoppedIsQuiet, tally
  <1>8. UnixServices' /\ WindowsServices'
    <2>1. UNCHANGED <<platform, runner, live, stopped, disorder>>
      BY DEF AwaitEnd, world, tally, sources
    <2>2. command[c].kind = "stop" /\ command'[c].at = "ports"
      BY <1>1, <1>3, AwaitEndDoes DEF AwaitEnd, GoesOn, Moved
    <2> QED
      BY <1>1, <1>3, <2>1, <2>2, ServicesStay
  <1> QED
    BY <1>1, <1>4, <1>5, <1>6, <1>7, <1>8, StopStep

\* Killing what holds the ports keeps what is known of a launcher used alone.
LEMMA KillPortsKeepsStop ==
    ASSUME StopInv, NEW c \in Terminals, KillPorts(c)
    PROVE  StopInv'
  <1>1. LauncherTypeOK /\ LauncherTypeOK' /\ Others(c) /\ command[c].at # "idle"
    BY KillPortsDoes DEF StopInv, KillPorts, Moved, Ended
  <1>2. PyAlone' => PyAlone
    BY DEF KillPorts, tally, PyAlone
  <1> SUFFICES ASSUME PyAlone PROVE StopInv'
    BY <1>1, <1>2 DEF StopInv
  <1>3. /\ \A d \in Terminals \ {c} : command[d] = NoCommand
        /\ GoesOn(command[c].kind, command[c].at)
        /\ command[c].kind \in {"install", "all", "start", "stop"} /\ Its(c) = "py"
        /\ stopped = FALSE /\ RunnerKnown /\ FreshAt(c) /\ UnixServices /\ WindowsServices
    BY <1>1, Alone DEF StopInv, StopRest
  <1>4. GoesThrough(c)'
    BY <1>1, <1>3, KillPortsDoes, NothingGiven, AfterPartIs DEF KillPorts, GoesThrough, GoesOn, Moved, Ended
  <1>5. FreshAt(c)'
    BY <1>1, <1>3, KillPortsDoes, NothingGiven, AfterPartIs DEF KillPorts, FreshAt, At, GoesOn, Moved, Ended, NoneAlive, Alive, RunnerKnown, world, LauncherTypeOK, Launchers, LauncherState, Command, sources
  <1>6. RunnerKnown'
    <2>1. (\A r \in 1 .. MaxRunners : Alive(r)' => Alive(r)) /\ (docker => docker')
          /\ command[c].at # "record" /\ (command[c].at # "retry" \/ docker') /\ disorder \subseteq disorder'
      BY DEF KillPorts, Alive, world, sources, tally
    <2>2. file'["py"].pid = file["py"].pid
      BY <1>1, <1>3, KillPortsDoes DEF KillPorts, FreshAt, At, GoesOn, LauncherTypeOK, Launchers, LauncherState, Command, sources
    <2> QED
      BY <1>1, <1>3, <2>1, <2>2, RunnerKnownStays
  <1>7. StoppedIsQuiet'
    BY <1>1, <1>3, KillPortsDoes, NothingGiven DEF KillPorts, StoppedIsQuiet, tally
  <1>8. UnixServices' /\ WindowsServices'
    BY <1>1, <1>3, KillPortsDoes, NothingGiven DEF KillPorts, UnixServices, WindowsServices, FreshAt, At, Moved, Ended, Others, world, tally, LauncherTypeOK, NoneAlive, Alive, sources
  <1> QED
    BY <1>1, <1>4, <1>5, <1>6, <1>7, <1>8, StopStep

\* Killing by name keeps what is known of a launcher used alone.
LEMMA KillPatternsKeepsStop ==
    ASSUME StopInv, NEW c \in Terminals, KillPatterns(c)
    PROVE  StopInv'
  <1>1. LauncherTypeOK /\ LauncherTypeOK' /\ Others(c) /\ command[c].at # "idle"
    BY KillPatternsDoes DEF StopInv, KillPatterns, Moved, Ended
  <1>2. PyAlone' => PyAlone
    BY DEF KillPatterns, tally, PyAlone
  <1> SUFFICES ASSUME PyAlone PROVE StopInv'
    BY <1>1, <1>2 DEF StopInv
  <1>3. /\ \A d \in Terminals \ {c} : command[d] = NoCommand
        /\ GoesOn(command[c].kind, command[c].at)
        /\ command[c].kind \in {"install", "all", "start", "stop"} /\ Its(c) = "py"
        /\ stopped = FALSE /\ RunnerKnown /\ FreshAt(c) /\ UnixServices /\ WindowsServices
    BY <1>1, Alone DEF StopInv, StopRest
  <1>4. GoesThrough(c)'
    BY <1>1, <1>3, KillPatternsDoes, NothingGiven, AfterPartIs DEF KillPatterns, GoesThrough, GoesOn, Moved, Ended
  <1>5. FreshAt(c)'
    BY <1>1, <1>3, KillPatternsDoes, NothingGiven, AfterPartIs DEF KillPatterns, FreshAt, At, GoesOn, Moved, Ended, NoneAlive, Alive, RunnerKnown, world, LauncherTypeOK, Launchers, LauncherState, Command, sources
  <1>6. RunnerKnown'
    <2>1. (\A r \in 1 .. MaxRunners : Alive(r)' => Alive(r)) /\ (docker => docker')
          /\ command[c].at # "record" /\ (command[c].at # "retry" \/ docker') /\ disorder \subseteq disorder'
      BY DEF KillPatterns, Alive, world, sources, tally
    <2>2. file'["py"].pid = file["py"].pid
      BY <1>1, <1>3, KillPatternsDoes DEF KillPatterns, FreshAt, At, GoesOn, LauncherTypeOK, Launchers, LauncherState, Command, sources
    <2> QED
      BY <1>1, <1>3, <2>1, <2>2, RunnerKnownStays
  <1>7. StoppedIsQuiet'
    BY <1>1, <1>3, KillPatternsDoes, NothingGiven DEF KillPatterns, StoppedIsQuiet, tally
  <1>8. UnixServices' /\ WindowsServices'
    BY <1>1, <1>3, KillPatternsDoes, NothingGiven DEF KillPatterns, UnixServices, WindowsServices, FreshAt, At, Moved, Ended, Others, world, tally, LauncherTypeOK, NoneAlive, Alive, sources
  <1> QED
    BY <1>1, <1>4, <1>5, <1>6, <1>7, <1>8, StopStep

\* Stopping the infrastructure keeps what is known of a launcher used alone.
LEMMA DownDockerKeepsStop ==
    ASSUME StopInv, NEW c \in Terminals, DownDocker(c)
    PROVE  StopInv'
  <1>1. LauncherTypeOK /\ LauncherTypeOK' /\ Others(c) /\ command[c].at # "idle"
    BY DownDockerDoes DEF StopInv, DownDocker, Moved, Ended, sources
  <1>2. PyAlone' => PyAlone
    BY DEF DownDocker, tally, sources, PyAlone
  <1> SUFFICES ASSUME PyAlone PROVE StopInv'
    BY <1>1, <1>2 DEF StopInv
  <1>3. /\ \A d \in Terminals \ {c} : command[d] = NoCommand
        /\ GoesOn(command[c].kind, command[c].at)
        /\ command[c].kind \in {"install", "all", "start", "stop"} /\ Its(c) = "py"
        /\ stopped = FALSE /\ RunnerKnown /\ FreshAt(c) /\ UnixServices /\ WindowsServices
    BY <1>1, Alone DEF StopInv, StopRest
  <1>4. GoesThrough(c)'
    BY <1>1, <1>3, DownDockerDoes, NothingGiven, AfterPartIs DEF DownDocker, GoesThrough, GoesOn, Moved, Ended, sources
  <1>5. FreshAt(c)'
    <2>1. /\ command[c].kind = "stop" /\ (docker' => "docker" \in disorder') /\ UNCHANGED runner /\ NoneAlive
      BY <1>3 DEF DownDocker, FreshAt, At, GoesOn, sources
    <2>2. Moved(c, "unlink")
      BY <1>1, <2>1, DownDockerDoes
    <2> QED
      BY <2>1, <2>2 DEF FreshAt, At, Moved, NoneAlive, Alive
  <1>6. RunnerKnown'
    BY <1>1, <1>3, DownDockerDoes, NothingGiven DEF DownDocker, RunnerKnown, FreshAt, At, GoesOn, Moved, Ended, Alive, NoneAlive, world, LauncherTypeOK, Launchers, LauncherState, Command, Others, sources
  <1>7. StoppedIsQuiet'
    BY <1>1, <1>3, DownDockerDoes, NothingGiven DEF DownDocker, StoppedIsQuiet, tally, sources
  <1>8. UnixServices' /\ WindowsServices'
    BY <1>1, <1>3, DownDockerDoes, NothingGiven DEF DownDocker, UnixServices, WindowsServices, FreshAt, At, Moved, Ended, Others, world, tally, LauncherTypeOK, NoneAlive, Alive, sources
  <1> QED
    BY <1>1, <1>4, <1>5, <1>6, <1>7, <1>8, StopStep

\* Removing the state keeps what is known of a launcher used alone.
LEMMA UnlinkKeepsStop ==
    ASSUME StopInv, NEW c \in Terminals, Unlink(c)
    PROVE  StopInv'
  <1>1. LauncherTypeOK /\ LauncherTypeOK' /\ Others(c) /\ command[c].at # "idle"
    BY UnlinkDoes DEF StopInv, Unlink, Moved, Ended
  <1>2. PyAlone' => PyAlone
    BY DEF Unlink, tally, PyAlone
  <1> SUFFICES ASSUME PyAlone PROVE StopInv'
    BY <1>1, <1>2 DEF StopInv
  <1>3. /\ \A d \in Terminals \ {c} : command[d] = NoCommand
        /\ GoesOn(command[c].kind, command[c].at)
        /\ command[c].kind \in {"install", "all", "start", "stop"} /\ Its(c) = "py"
        /\ stopped = FALSE /\ RunnerKnown /\ FreshAt(c) /\ UnixServices /\ WindowsServices
    BY <1>1, Alone DEF StopInv, StopRest
  <1>4. GoesThrough(c)'
    BY <1>1, <1>3, UnlinkDoes, NothingGiven, AfterPartIs DEF Unlink, GoesThrough, GoesOn, Moved, Ended
  <1>5. FreshAt(c)'
    BY <1>1, <1>3, UnlinkDoes, NothingGiven, AfterPartIs DEF Unlink, FreshAt, At, GoesOn, Moved, Ended, NoneAlive, Alive, RunnerKnown, world, LauncherTypeOK, Launchers, LauncherState, Command, sources
  <1>6. RunnerKnown'
    BY <1>1, <1>3, UnlinkDoes, NothingGiven DEF Unlink, RunnerKnown, FreshAt, At, GoesOn, Moved, Ended, Alive, NoneAlive, world, LauncherTypeOK, Launchers, LauncherState, Command, Others, sources
  <1>7. StoppedIsQuiet'
    <2>1. NoneAlive /\ (docker => "docker" \in disorder) /\ UNCHANGED <<docker, runner, disorder>>
      BY <1>3 DEF Unlink, world, FreshAt, At, sources
    <2>2. \A d \in Terminals : command'[d] = NoCommand
      BY <1>1, <1>3, UnlinkDoes DEF Ended, Others
    <2> QED
      BY <2>1, <2>2 DEF StoppedIsQuiet, NoneAlive, Alive
  <1>8. UnixServices' /\ WindowsServices'
    BY <1>1, <1>3, UnlinkDoes, NothingGiven DEF Unlink, UnixServices, WindowsServices, FreshAt, At, Moved, Ended, Others, world, tally, LauncherTypeOK, NoneAlive, Alive, sources
  <1> QED
    BY <1>1, <1>4, <1>5, <1>6, <1>7, <1>8, StopStep

\* A failing build keeps what is known of a launcher used alone.
LEMMA BuildFailsKeepsStop ==
    ASSUME StopInv, NEW c \in Terminals, BuildFails(c)
    PROVE  StopInv'
  <1>1. LauncherTypeOK /\ LauncherTypeOK' /\ Others(c) /\ command[c].at # "idle"
    BY BuildFailsDoes DEF StopInv, BuildFails, Moved, Ended, sources
  <1>2. PyAlone' => PyAlone
    BY DEF BuildFails, tally, sources, PyAlone
  <1> SUFFICES ASSUME PyAlone PROVE StopInv'
    BY <1>1, <1>2 DEF StopInv
  <1>3. /\ \A d \in Terminals \ {c} : command[d] = NoCommand
        /\ GoesOn(command[c].kind, command[c].at)
        /\ command[c].kind \in {"install", "all", "start", "stop"} /\ Its(c) = "py"
        /\ stopped = FALSE /\ RunnerKnown /\ FreshAt(c) /\ UnixServices /\ WindowsServices
    BY <1>1, Alone DEF StopInv, StopRest
  <1>4. GoesThrough(c)'
    BY <1>1, <1>3, BuildFailsDoes, NothingGiven, AfterPartIs DEF BuildFails, GoesThrough, GoesOn, Moved, Ended, sources
  <1>5. FreshAt(c)'
    BY <1>1, <1>3, BuildFailsDoes, NothingGiven, AfterPartIs DEF BuildFails, FreshAt, At, GoesOn, Moved, Ended, NoneAlive, Alive, RunnerKnown, world, LauncherTypeOK, Launchers, LauncherState, Command, sources
  <1>6. RunnerKnown'
    <2>1. (\A r \in 1 .. MaxRunners : Alive(r)' => Alive(r)) /\ (docker => docker')
          /\ command[c].at # "record" /\ (command[c].at # "retry" \/ docker') /\ disorder \subseteq disorder'
      BY DEF BuildFails, Alive, world, sources, tally
    <2>2. file'["py"].pid = file["py"].pid
      BY <1>1, <1>3, BuildFailsDoes DEF BuildFails, FreshAt, At, GoesOn, LauncherTypeOK, Launchers, LauncherState, Command, sources
    <2> QED
      BY <1>1, <1>3, <2>1, <2>2, RunnerKnownStays
  <1>7. StoppedIsQuiet'
    BY <1>1, <1>3, BuildFailsDoes, NothingGiven DEF BuildFails, StoppedIsQuiet, tally, sources
  <1>8. UnixServices' /\ WindowsServices'
    BY <1>1, <1>3, BuildFailsDoes, NothingGiven DEF BuildFails, UnixServices, WindowsServices, FreshAt, At, Moved, Ended, Others, world, tally, LauncherTypeOK, NoneAlive, Alive, sources
  <1> QED
    BY <1>1, <1>4, <1>5, <1>6, <1>7, <1>8, StopStep

\* Nothing of these is under way when secretary.py is used alone.
LEMMA OtherStepsKeepStop ==
    ASSUME StopInv, NEW c \in Terminals, Interrupt(c) \/ RunnerEnded(c) \/ Forget(c)
    PROVE  StopInv'
  <1>1. LauncherTypeOK' /\ disorder' = disorder /\ command[c].at \in {"attend", "forget"}
    BY InterruptDoes, RunnerEndedDoes, ForgetDoes DEF StopInv, Interrupt, RunnerEnded, Forget, tally
  <1>2. ~PyAlone /\ ~PyAlone'
    BY <1>1, Alone DEF GoesOn, PyAlone
  <1> QED
    BY <1>1, <1>2 DEF StopInv

\* A new command keeps what is known of a launcher used alone.
LEMMA GiveKeepsStop ==
    ASSUME StopInv, NEW c \in Terminals, Give(c)
    PROVE  StopInv'
  <1>1. /\ LauncherTypeOK /\ LauncherTypeOK' /\ Others(c) /\ command[c].at = "idle"
        /\ command'[c].kind \in CommandValues /\ command'[c].at = FirstStep(command'[c].kind)
        /\ command'[c].state = command[c].state /\ command'[c].part = command[c].part
        /\ disorder' = IF command'[c].kind \in {"install", "start", "all", "stop"} THEN disorder
                       ELSE disorder \cup {"others"}
        /\ UNCHANGED <<world, file, runner, live>> /\ stopped' = FALSE
    BY GiveDoes DEF StopInv, Give
  <1> SUFFICES ASSUME PyAlone' PROVE StopRest'
    BY <1>1 DEF StopInv
  <1>2. PyAlone /\ disorder' = disorder /\ command'[c].kind \in {"install", "start", "all", "stop"}
    BY <1>1 DEF PyAlone
  <1>3. StopRest
    BY <1>2 DEF StopInv
  <1>4. \A d \in Terminals : command[d] = NoCommand
    <2>1. \A d \in Terminals : command[d].at \in {"idle", "attend"}
      BY DEF Give, AtWork
    <2> QED
      BY <1>3, <2>1 DEF StopRest, OneAfterTheOther, GoesThrough, GoesOn
  <1>5. command'[c].at \in {"read", "docker", "look"} /\ (command'[c].at = "docker" => command'[c].kind = "start")
        /\ GoesOn(command'[c].kind, command'[c].at)
    BY <1>1, <1>2 DEF FirstStep, GoesOn
  <1>6. OneAfterTheOther'
    BY <1>1, <1>4, <1>5 DEF OneAfterTheOther, GoesThrough, Others
  <1>7. RunnerKnown'
    BY <1>1, <1>3, <1>4, NothingGiven DEF StopRest, RunnerKnown, At, Alive, world, sources
  <1>8. \A d \in Terminals : FreshAt(d)'
    <2>1. \A d \in Terminals \ {c} : command'[d].at = "idle"
      BY <1>1, <1>4, NothingGiven DEF Others
    <2>2. FreshAt(c)'
      BY <1>1, <1>4, <1>5, NothingGiven DEF FreshAt, At
    <2>3. \A d \in Terminals \ {c} : FreshAt(d)'
      BY <2>1 DEF FreshAt, At
    <2> QED
      BY <2>2, <2>3
  <1>9. StoppedIsQuiet'
    BY <1>1 DEF StoppedIsQuiet
  <1>10. UnixServices' /\ WindowsServices'
    <2>1. \A d \in Terminals : command'[d].at \notin {"down", "unlink"}
      BY <1>1, <1>4, <1>5, NothingGiven DEF Others
    <2>2. UnixServices'
      BY <1>1, <2>1 DEF UnixServices, At
    <2>3. WindowsServices'
      BY <1>1, <1>2, <1>3 DEF StopRest, WindowsServices, world, sources
    <2> QED
      BY <2>2, <2>3
  <1> QED
    BY <1>6, <1>7, <1>8, <1>9, <1>10 DEF StopRest

\* A runner that goes on, ends or dies: none comes up.
LEMMA RunnerKeepsStop ==
    ASSUME StopInv, NEW r \in 1 .. MaxRunners,
           SpawnService(r) \/ ExitAfterShutdown(r) \/ RunnerEnds(r) \/ RunnerDies(r)
    PROVE  StopInv'
  <1>1. LauncherTypeOK /\ LauncherTypeOK' /\ UNCHANGED <<command, file, platform, docker, stopped>>
    BY SpawnServiceDoes, ExitAfterShutdownDoes, RunnerEndsDoes, RunnerDiesDoes
    DEF StopInv, SpawnService, ExitAfterShutdown, RunnerEnds, RunnerDies, world, tally, sources
  <1> SUFFICES ASSUME PyAlone' PROVE StopRest'
    BY <1>1 DEF StopInv
  <1>2. StopRest
    BY DEF StopInv, SpawnService, ExitAfterShutdown, RunnerEnds, RunnerDies, tally, PyAlone
  <1>13. disorder \subseteq disorder'
    BY DEF SpawnService, ExitAfterShutdown, RunnerEnds, RunnerDies, tally
  <1>3. Alive(r) /\ \A q \in 1 .. MaxRunners : Alive(q)' => Alive(q)
    BY <1>1 DEF SpawnService, ExitAfterShutdown, RunnerEnds, RunnerDies, Alive, LauncherTypeOK, ServiceRunner, sources
  <1>4. OneAfterTheOther'
    BY <1>1, <1>2 DEF StopRest, OneAfterTheOther, GoesThrough
  <1>5. RunnerKnown'
    BY <1>1, <1>2, <1>3, <1>13 DEF StopRest, RunnerKnown, At
  <1>6. ASSUME NEW c \in Terminals
        PROVE  FreshAt(c)'
    BY <1>1, <1>2, <1>3, <1>13 DEF StopRest, FreshAt, At, NoneAlive
  <1>7. ~stopped
    BY <1>2, <1>3 DEF StopRest, StoppedIsQuiet, NoneAlive
  <1>8. StoppedIsQuiet'
    BY <1>1, <1>7 DEF StoppedIsQuiet
  <1>9. \A c \in Terminals : command[c].at \notin {"down", "unlink"}
    BY <1>2, <1>3 DEF StopRest, FreshAt, At, NoneAlive
  <1>10. UnixServices'
    BY <1>1, <1>7, <1>9 DEF UnixServices, At
  <1>11. ASSUME platform # "unix", disorder' \subseteq {"docker"}
         PROVE  /\ \A q \in 1 .. MaxRunners : runner'[q].at \in {"none", "on", "gone"}
                /\ \A s \in live' : runner'[s[1]].at = "on"
    <2>1. disorder \subseteq {"docker"} /\ ~RunnerDies(r)
      BY <1>11 DEF SpawnService, ExitAfterShutdown, RunnerEnds, RunnerDies, tally
    <2>2. /\ \A q \in 1 .. MaxRunners : runner[q].at \in {"none", "on", "gone"}
          /\ \A s \in live : s[1] \in 1 .. MaxRunners /\ runner[s[1]].at = "on"
      BY <1>1, <1>2, <1>11, <2>1 DEF StopRest, WindowsServices, LauncherTypeOK, Services, sources
    <2>3. CASE SpawnService(r)
      <3>1. runner[r].at = "on" /\ runner' = [runner EXCEPT ![r].next = @ + 1]
            /\ live' = live \cup {<<r, runner[r].next>>}
        BY <2>2, <2>3 DEF SpawnService, Alive
      <3>2. \A q \in 1 .. MaxRunners : runner'[q].at = runner[q].at
        BY <1>1, <3>1 DEF LauncherTypeOK, ServiceRunner, sources
      <3> QED
        BY <2>2, <3>1, <3>2
    <2>4. CASE RunnerEnds(r)
      BY <1>1, <2>2, <2>4 DEF RunnerEnds, LauncherTypeOK, ServiceRunner, sources
    <2> QED
      BY <2>1, <2>2, <2>3, <2>4 DEF ExitAfterShutdown
  <1>12. WindowsServices'
    BY <1>1, <1>11 DEF WindowsServices
  <1> QED
    BY <1>4, <1>5, <1>6, <1>8, <1>10, <1>12 DEF StopRest

\* An edit of the sources keeps what is known of a launcher used alone.
LEMMA ChangeKeepsStop ==
    ASSUME StopInv, NEW part \in Parts, Change(part)
    PROVE  StopInv'
  <1>1. LauncherTypeOK' /\ UNCHANGED <<platform, docker, dist, file, runner, live, command, tally>>
    BY ChangeDoes DEF StopInv, Change, sources
  <1> QED
    BY <1>1 DEF StopInv, StopRest, OneAfterTheOther, GoesThrough, RunnerKnown, FreshAt, At, StoppedIsQuiet,
                UnixServices, WindowsServices, NoneAlive, Alive, tally, PyAlone

\* A restart of the machine keeps what is known of a launcher used alone.
LEMMA RebootKeepsStop ==
    ASSUME StopInv, Reboot
    PROVE  StopInv'
  <1>1. /\ LauncherTypeOK' /\ command' = [c \in Terminals |-> NoCommand] /\ live' = {} /\ NoneAlive'
        /\ docker' = FALSE /\ disorder' = disorder \cup {"fault"}
    BY RebootDoes DEF Reboot, StopInv, sources
  <1>2. \A c \in Terminals : command'[c] = NoCommand /\ command'[c].at = "idle"
    BY <1>1, NothingGiven
  <1>3. OneAfterTheOther' /\ StoppedIsQuiet'
    BY <1>1, <1>2 DEF OneAfterTheOther, GoesThrough, StoppedIsQuiet
  <1>4. RunnerKnown' /\ UnixServices' /\ WindowsServices'
    BY <1>1, <1>2 DEF RunnerKnown, NoneAlive, UnixServices, WindowsServices, At
  <1>5. \A c \in Terminals : FreshAt(c)'
    BY <1>2 DEF FreshAt, At
  <1> QED
    BY <1>1, <1>3, <1>4, <1>5 DEF StopInv, StopRest, PyAlone

\* Nothing runs at the beginning.
LEMMA StopInitial == LauncherInit => StopInv
  <1> SUFFICES ASSUME LauncherInit PROVE StopInv
    OBVIOUS
  <1>1. \A c \in Terminals : command[c] = NoCommand /\ command[c].at = "idle"
    BY NothingGiven DEF LauncherInit
  <1>2. NoneAlive /\ \A r \in 1 .. MaxRunners : runner[r].at = "none"
    BY NothingGiven DEF LauncherInit, NoneAlive, Alive
  <1>3. OneAfterTheOther /\ StoppedIsQuiet /\ RunnerKnown
    BY <1>1, <1>2 DEF LauncherInit, OneAfterTheOther, GoesThrough, StoppedIsQuiet, RunnerKnown, NoneAlive
  <1>4. UnixServices /\ WindowsServices /\ \A c \in Terminals : FreshAt(c)
    BY <1>1, <1>2 DEF LauncherInit, UnixServices, WindowsServices, FreshAt, At
  <1> QED
    BY <1>3, <1>4, LauncherInitial DEF StopInv, StopRest

\* Every action keeps StopInv.
LEMMA StopNext == StopInv /\ [LauncherNext]_launcherVars => StopInv'
  <1> SUFFICES ASSUME StopInv, [LauncherNext]_launcherVars PROVE StopInv'
    OBVIOUS
  <1>1. CASE UNCHANGED launcherVars
    BY <1>1 DEF launcherVars, StopInv, LauncherTypeOK, StopRest, OneAfterTheOther, GoesThrough, RunnerKnown,
                FreshAt, At, StoppedIsQuiet, UnixServices, WindowsServices, NoneAlive, Alive, PyAlone, sources
  <1>2. ASSUME NEW c \in Terminals,
               Give(c) \/ Interrupt(c) \/ CommandStep(c) \/ BuildFails(c) \/ UpFails(c) \/ LauncherDies(c)
        PROVE  StopInv'
    BY <1>2, DownAndRetryKeepsStop, UpFailsKeepsStop, LauncherDiesKeepsStop, GiveKeepsStop, BuildFailsKeepsStop, OtherStepsKeepStop, ReadStateKeepsStop,
       StatKeepsStop, BeginBuildKeepsStop, EndBuildKeepsStop, UpDockerKeepsStop,
       SaveStateKeepsStop, CheckPidKeepsStop, SpawnRunnerKeepsStop, RecordPidKeepsStop,
       LookKeepsStop, KillRecordedKeepsStop, AwaitEndKeepsStop,
       KillPortsKeepsStop, KillPatternsKeepsStop, DownDockerKeepsStop, UnlinkKeepsStop
    DEF CommandStep
  <1>3. ASSUME NEW r \in 1 .. MaxRunners,
               SpawnService(r) \/ ExitAfterShutdown(r) \/ RunnerEnds(r) \/ RunnerDies(r)
        PROVE  StopInv'
    BY <1>3, RunnerKeepsStop
  <1>4. ASSUME NEW part \in Parts, Change(part)
        PROVE  StopInv'
    BY <1>4, ChangeKeepsStop
  <1>5. CASE Reboot
    BY <1>5, RebootKeepsStop
  <1> QED
    BY <1>1, <1>2, <1>3, <1>4, <1>5 DEF LauncherNext

\* After a stop of secretary.py no runner and no service is left, on Unix whatever failed or died
\* before it, on Windows if nothing did; and the infrastructure is down unless it would not go.
THEOREM NothingOutlivesStop == LauncherSpec => []StopIsComplete
  <1>1. StopInv => StopIsComplete
    <2> SUFFICES ASSUME StopInv, stopped, PyAlone
                 PROVE  /\ NoneAlive
                        /\ platform = "unix" \/ "fault" \notin disorder => live = {}
                        /\ docker => "docker" \in disorder
      BY DEF StopIsComplete, NoneAlive
    <2>1. StopRest /\ LauncherTypeOK
      BY DEF StopInv
    <2>2. NoneAlive /\ (docker => "docker" \in disorder)
      BY <2>1 DEF StopRest, StoppedIsQuiet
    <2>3. CASE platform = "unix"
      BY <2>1, <2>2, <2>3 DEF StopRest, UnixServices
    <2>4. ASSUME platform # "unix", "fault" \notin disorder
          PROVE  live = {}
      <3>1. disorder \subseteq {"docker"}
        BY <2>1, <2>4 DEF PyAlone, LauncherTypeOK, Disorders
      <3> QED
        BY <2>1, <2>2, <2>4, <3>1 DEF StopRest, WindowsServices, LauncherTypeOK, Services, NoneAlive, Alive
    <2> QED
      BY <2>2, <2>3, <2>4
  <1> QED
    BY <1>1, StopInitial, StopNext, PTL DEF LauncherSpec

\* Between commands of secretary.py there is one runner at most and it is the recorded one,
\* whatever failed or died but a launcher that had just started it; if nothing did, it has its
\* infrastructure.
THEOREM OneRunnerRecorded == LauncherSpec => []LauncherInOrder
  <1>1. StopInv => LauncherInOrder
    <2> SUFFICES ASSUME StopInv, PyAlone, \A c \in Terminals : ~AtWork(c),
                        NEW r \in 1 .. MaxRunners, Alive(r)
                 PROVE  r = file["py"].pid /\ (docker \/ "fault" \in disorder)
      BY DEF LauncherInOrder
    <2>1. \A c \in Terminals : command[c].at \notin {"record", "retry"}
      BY DEF AtWork
    <2> QED
      BY <2>1 DEF StopInv, StopRest, RunnerKnown, At
  <1> QED
    BY <1>1, StopInitial, StopNext, PTL DEF LauncherSpec

================================================================================
