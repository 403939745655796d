------------------------------- MODULE Launcher -------------------------------
(***************************************************************************)
(* The two launchers of the whole system, secretary.py ("py") and the dev  *)
(* orchestrator ("node"), each with a state file of its own, and the       *)
(* service runner both start: a process that spawns the services one after *)
(* the other. They share Docker, what the bootstrap builds and the         *)
(* services. A name in `at` is the step a command is about to make.        *)
(***************************************************************************)
EXTENDS Integers

CONSTANTS
    Terminals,      \* where commands are given, one after the other
    Parts,          \* what the bootstrap builds: node_modules, the worker, the speech environments
    Apps,           \* number of services, started in the order 1 .. Apps
    MaxRunners,     \* bound: service runners started
    MaxCommands,    \* bound: commands given
    MaxChanges,     \* bound: changes of what the bootstrap builds from
    MaxCrashes      \* bound: what fails for good or dies, and reboots

ASSUME LauncherAssumption ==
    /\ {"deps", "worker"} \subseteq Parts /\ Parts \subseteq {"deps", "worker", "speech"}
    /\ Apps \in Nat \ {0} /\ MaxRunners \in Nat /\ MaxCommands \in Nat
    /\ MaxChanges \in Nat /\ MaxCrashes \in Nat

VARIABLES
    platform,   \* "unix" or "win32"
    docker,     \* the infrastructure is up
    source,     \* version of what each part is built from; one more than any time before
    mtime,      \* the time each launcher reads on it, at most the version
    dist,       \* version each part was last built from; 0 is never
    file,       \* the state file of each launcher
    runner,     \* the service runners
    live,       \* services that run: pairs of their runner and their number
    command,    \* what each terminal's command is about to do
    given,      \* number of commands given
    crashes,    \* number of faults so far
    stopped,    \* history: the last command was a `secretary.py --stop`, and it has ended
    disorder    \* history: what has happened that the launchers do not guard against

launcherVars == <<platform, docker, source, dist, file, runner, live, command,
                  given, crashes, stopped, disorder, mtime>>
sources == <<source, mtime>>
world == <<platform, docker, sources, dist>>
tally == <<given, crashes, stopped, disorder>>

-----------------------------------------------------------------------------
(* Records *)

Versions == 0 .. MaxChanges + 1
Pids == 0 .. MaxRunners
Launchers == {"py", "node"}

\* A state file: the pid of the runner and the mtimes at the last build, 0 for none.
LauncherState == [pid : Pids, stamp : [Parts -> Versions]]
NoState == [pid |-> 0, stamp |-> [p \in Parts |-> 0]]

\* A runner is spawning services or has spawned all ("on"), is in its shutdown handler, or is
\* gone; the pid of one that is gone may be given to a stranger.
ServiceRunner == [at : {"none", "on", "stopping", "gone", "stranger"}, next : 1 .. Apps + 1]
NoRunner == [at |-> "none", next |-> 1]
Alive(r) == runner[r].at \in {"on", "stopping"}
Services == (1 .. MaxRunners) \X (1 .. Apps)

PyKinds == {"install", "start", "foreground", "all", "stop"}
NodeKinds == {"nodeInstall", "nodeStart", "nodeRestart", "nodeStop", "interrupt"}
Steps == {"idle", "read", "stat", "build", "building", "docker", "retry", "save", "check", "spawn",
          "record", "attend", "preflight", "look", "kill", "await", "patterns", "ports", "forget",
          "down", "unlink"}
Command == [kind : PyKinds \cup NodeKinds, at : Steps, part : Parts, state : LauncherState,
            version : Versions, built : Versions, pid : Pids]
NoCommand == [kind |-> "stop", at |-> "idle", part |-> "deps", state |-> NoState,
              version |-> 0, built |-> 0, pid |-> 0]

LauncherOf(kind) == IF kind \in PyKinds THEN "py" ELSE "node"
Its(c) == LauncherOf(command[c].kind)

\* What is not guarded against: commands in the foreground or of the orchestrator ("others"), what
\* fails or dies ("fault"), a runner nobody records or waits for ("orphan"), containers that stay
\* up when they are taken down ("docker").
Disorders == {"others", "fault", "orphan", "docker"}

\* A command in the foreground waits for its runner; others may be given meanwhile.
AtWork(c) == command[c].at \notin {"idle", "attend"}

LauncherInit ==
    /\ platform \in {"unix", "win32"}
    /\ docker = FALSE
    /\ source = [p \in Parts |-> 1] /\ dist = [p \in Parts |-> 0]
    /\ mtime = [l \in Launchers |-> source]
    /\ file = [l \in Launchers |-> NoState]
    /\ runner = [r \in 1 .. MaxRunners |-> NoRunner]
    /\ live = {}
    /\ command = [c \in Terminals |-> NoCommand]
    /\ given = 0 /\ crashes = 0 /\ stopped = FALSE /\ disorder = {}

GoTo(c, step) == command' = [command EXCEPT ![c].at = step]
Finish(c) == command' = [command EXCEPT ![c] = NoCommand]

-----------------------------------------------------------------------------
(* Commands *)

FirstStep(kind) ==
    CASE kind \in {"install", "all", "nodeInstall", "nodeStart"} -> "read"
      [] kind \in {"start", "foreground"} -> "docker"
      [] OTHER -> "look"

\* Commands that overlap are not given: nothing in the launchers keeps two of them apart.
Give(c) ==
    /\ command[c].at = "idle" /\ given < MaxCommands
    /\ \A d \in Terminals : ~AtWork(d)
    /\ given' = given + 1
    /\ \E kind \in (PyKinds \cup NodeKinds) \ {"interrupt"} :
          /\ command' = [command EXCEPT ![c].kind = kind, ![c].at = FirstStep(kind)]
          /\ disorder' = IF kind \in {"install", "start", "all", "stop"} THEN disorder
                         ELSE disorder \cup {"others"}
    /\ stopped' = FALSE
    /\ UNCHANGED <<world, file, runner, live, crashes>>

\* A runner that gets a signal kills the services it has spawned; a second signal does nothing.
Signal(r) ==
    IF runner[r].at = "on"
    THEN /\ runner' = [runner EXCEPT ![r].at = "stopping"]
         /\ live' = {s \in live : s[1] # r}
    ELSE UNCHANGED <<runner, live>>

\* Ctrl+C in the terminal of a command that waits for its runner; the runner gets it too.
Interrupt(c) ==
    /\ command[c].at = "attend" /\ Alive(command[c].pid)
    /\ Signal(command[c].pid)
    /\ IF command[c].kind = "foreground"
       THEN GoTo(c, "await")
       ELSE command' = [command EXCEPT ![c].kind = "interrupt", ![c].at = "look"]
    /\ UNCHANGED <<world, file, tally>>

-----------------------------------------------------------------------------
(* Bootstrap: run_install, ensureBootstrap *)

\* The state is read at the start and written at the end.
ReadState(c) ==
    /\ command[c].at = "read"
    /\ command' = [command EXCEPT ![c].at = "stat", ![c].state = file[Its(c)]]
    /\ UNCHANGED <<world, file, runner, live, tally>>

SpeechNext(part) == part = "worker" /\ "speech" \in Parts
PartAfter(part) == IF SpeechNext(part) THEN "speech" ELSE part
AfterPart(part) == CASE part = "deps" -> "docker" [] SpeechNext(part) -> "stat" [] OTHER -> "save"

\* A part that is there and has the time it had when it was stamped is not built. The launchers
\* look at different things, and at the worker's own files only.
UpToDate(c) ==
    LET part == command[c].part
    IN  dist[part] # 0 /\ command[c].state.stamp[part] = mtime[Its(c)][part]

\* The mtime is taken before the build.
Stat(c) ==
    LET part == command[c].part
    IN  /\ command[c].at = "stat"
        /\ IF UpToDate(c)
           THEN command' = [command EXCEPT ![c].at = AfterPart(part), ![c].part = PartAfter(part)]
           ELSE command' = [command EXCEPT ![c].at = "build", ![c].version = mtime[Its(c)][part]]
        /\ UNCHANGED <<world, file, runner, live, tally>>

BeginBuild(c) ==
    /\ command[c].at = "build"
    /\ command' = [command EXCEPT ![c].at = "building", ![c].built = source[command[c].part]]
    /\ UNCHANGED <<world, file, runner, live, tally>>

\* Mutant: the mtime recorded is the one after the build.
EndBuildThenStat(c) ==
    LET part == command[c].part
    IN  /\ command[c].at = "building"
        /\ dist' = [dist EXCEPT ![part] = command[c].built]
        /\ command' = [command EXCEPT ![c].state.stamp[part] = mtime[Its(c)][part],
                          ![c].at = AfterPart(part), ![c].part = PartAfter(part)]
        /\ UNCHANGED <<platform, docker, sources, file, runner, live, tally>>

EndBuild(c) ==
    LET part == command[c].part
    IN  /\ command[c].at = "building"
        /\ dist' = [dist EXCEPT ![part] = command[c].built]
        /\ command' = [command EXCEPT ![c].state.stamp[part] = command[c].version,
                          ![c].at = AfterPart(part), ![c].part = PartAfter(part)]
        /\ UNCHANGED <<platform, docker, sources, file, runner, live, tally>>

\* A build that fails, or whose command dies, may have written its output; nothing is saved.
BuildFails(c) ==
    /\ command[c].at = "building" /\ crashes < MaxCrashes
    /\ crashes' = crashes + 1
    /\ dist' \in {dist, [dist EXCEPT ![command[c].part] = command[c].built]}
    /\ Finish(c)
    /\ disorder' = disorder \cup {"fault"}
    /\ UNCHANGED <<platform, docker, sources, file, runner, live, given, stopped>>

\* The infrastructure, and the migrations once it is up.
UpDocker(c) ==
    /\ command[c].at \in {"docker", "retry"}
    /\ docker' = TRUE
    /\ command' = [command EXCEPT ![c].part = "worker",
          ![c].at = CASE command[c].kind = "start" -> "check"
                      [] command[c].kind = "foreground" -> "spawn"
                      [] OTHER -> "stat"]
    /\ UNCHANGED <<platform, sources, dist, file, runner, live, tally>>

\* Containers that do not come up are taken down, if they go, and are tried once more.
DownAndRetry(c) ==
    /\ command[c].at = "docker"
    /\ docker' \in BOOLEAN
    /\ GoTo(c, "retry")
    /\ UNCHANGED <<platform, sources, dist, file, runner, live, tally>>

\* They fail again, time out, do not listen, or the migrations fail: the command ends there.
UpFails(c) ==
    /\ command[c].at \in {"docker", "retry"} /\ crashes < MaxCrashes
    /\ crashes' = crashes + 1
    /\ docker' \in BOOLEAN
    /\ Finish(c)
    /\ disorder' = disorder \cup {"fault"}
    /\ UNCHANGED <<platform, sources, dist, file, runner, live, given, stopped>>

SaveState(c) ==
    /\ command[c].at = "save"
    /\ file' = [file EXCEPT ![Its(c)] = command[c].state]
    /\ CASE command[c].kind = "all" -> GoTo(c, "check")
         [] command[c].kind = "nodeStart" -> GoTo(c, "preflight")
         [] OTHER -> Finish(c)
    /\ UNCHANGED <<world, runner, live, tally>>

-----------------------------------------------------------------------------
(* Start: start_app_services, startCommand *)

\* Mutant: a runner that was recorded is not looked for.
CheckNothing(c) ==
    /\ command[c].at = "check"
    /\ command' = [command EXCEPT ![c].at = "spawn", ![c].state = file["py"]]
    /\ UNCHANGED <<world, file, runner, live, tally>>

\* secretary.py starts nothing when the recorded pid is alive, whoever has it.
CheckPid(c) ==
    LET pid == file["py"].pid
    IN  /\ command[c].at = "check"
        /\ IF pid # 0 /\ (Alive(pid) \/ runner[pid].at = "stranger")
           THEN Finish(c)
           ELSE command' = [command EXCEPT ![c].at = "spawn", ![c].state = file["py"]]
        /\ UNCHANGED <<world, file, runner, live, tally>>

SpawnRunner(c) ==
    /\ command[c].at = "spawn"
    /\ \E r \in 1 .. MaxRunners :
          /\ runner[r].at = "none" /\ \A q \in 1 .. r - 1 : runner[q].at # "none"
          /\ runner' = [runner EXCEPT ![r].at = "on"]
          /\ command' = [command EXCEPT ![c].pid = r,
                ![c].at = IF command[c].kind = "foreground" THEN "attend" ELSE "record"]
    /\ UNCHANGED <<world, file, live, tally>>

\* secretary.py writes the state it checked, the orchestrator reads its own again.
RecordPid(c) ==
    LET state == IF Its(c) = "py" THEN command[c].state ELSE file["node"]
    IN  /\ command[c].at = "record"
        /\ file' = [file EXCEPT ![Its(c)] = [state EXCEPT !.pid = command[c].pid]]
        /\ IF Its(c) = "py" THEN Finish(c) ELSE GoTo(c, "attend")
        /\ UNCHANGED <<world, runner, live, tally>>

\* The runner of a command in the foreground has ended; the orchestrator forgets it.
RunnerEnded(c) ==
    /\ command[c].at = "attend" /\ ~Alive(command[c].pid)
    /\ file' = IF Its(c) = "node" THEN [file EXCEPT !["node"].pid = 0] ELSE file
    /\ Finish(c)
    /\ UNCHANGED <<world, runner, live, tally>>

-----------------------------------------------------------------------------
(* Stop: stop_all, stopManagedProcesses *)

Look(c) ==
    /\ command[c].at = "look"
    /\ command' = [command EXCEPT ![c].at = "kill", ![c].state = file[Its(c)], ![c].pid = file[Its(c)].pid]
    /\ UNCHANGED <<world, file, runner, live, tally>>

\* The recorded pid, whoever has it now. Windows kills the tree below it. On Unix secretary.py
\* signals the process; the orchestrator signals a process group that does not exist.
KillRecorded(c) ==
    LET pid == command[c].pid
    IN  /\ command[c].at = "kill"
        /\ CASE pid = 0 \/ (platform = "unix" /\ Its(c) = "node") -> UNCHANGED <<runner, live>>
             [] platform = "unix" /\ pid # 0 /\ Its(c) = "py" /\ Alive(pid) -> Signal(pid)
             [] OTHER ->
                  /\ runner' = [runner EXCEPT ![pid].at = "gone"]
                  /\ live' = IF Alive(pid) THEN {s \in live : s[1] # pid} ELSE live
        /\ GoTo(c, IF Its(c) = "py" THEN "await" ELSE "patterns")
        /\ UNCHANGED <<world, file, tally>>

\* secretary.py waits until the runner is gone, and in the foreground takes Docker down.
AwaitEnd(c) ==
    /\ command[c].at = "await" /\ (command[c].pid # 0 => ~Alive(command[c].pid))
    /\ GoTo(c, IF command[c].kind = "stop" THEN "ports" ELSE "down")
    /\ UNCHANGED <<world, file, runner, live, tally>>

\* What listens on the services' ports: the orchestrator can tell on Windows only.
FoundOnPorts(launcher) == IF launcher = "py" \/ platform = "win32" THEN SUBSET live ELSE {{}}

KillPorts(c) ==
    /\ command[c].at \in {"ports", "preflight"}
    /\ \E found \in FoundOnPorts(Its(c)) : live' = live \ found
    /\ GoTo(c, CASE command[c].at = "preflight" -> "look"
                 [] command[c].at = "ports" /\ Its(c) = "py" -> "patterns"
                 [] OTHER -> "forget")
    /\ UNCHANGED <<world, file, runner, tally>>

\* Mutant: a stop looks for nothing it has not recorded.
KillNoPatterns(c) ==
    /\ command[c].at = "patterns"
    /\ GoTo(c, IF Its(c) = "py" THEN "down" ELSE "ports")
    /\ UNCHANGED <<world, file, runner, live, tally>>

\* Processes by their command line: secretary.py on Unix, the orchestrator on Windows.
KillPatterns(c) ==
    /\ command[c].at = "patterns"
    /\ live' = IF (Its(c) = "py") = (platform = "unix") THEN {} ELSE live
    /\ GoTo(c, IF Its(c) = "py" THEN "down" ELSE "ports")
    /\ UNCHANGED <<world, file, runner, tally>>

\* The orchestrator writes the state it read without its processes.
Forget(c) ==
    /\ command[c].at = "forget"
    /\ file' = [file EXCEPT !["node"] = [command[c].state EXCEPT !.pid = 0]]
    /\ CASE command[c].kind = "nodeStop" -> GoTo(c, "down")
         [] command[c].kind = "nodeStart" -> GoTo(c, "spawn")
         [] command[c].kind = "nodeRestart" ->
               command' = [command EXCEPT ![c] = [NoCommand EXCEPT !.kind = "nodeStart", !.at = "read"]]
         [] OTHER -> Finish(c)
    /\ UNCHANGED <<world, runner, live, tally>>

\* Containers that stay up stop no command of secretary.py; the orchestrator's is at its end.
DownDocker(c) ==
    /\ command[c].at = "down"
    /\ docker' \in {FALSE, docker}
    /\ disorder' = IF docker' THEN disorder \cup {"docker"} ELSE disorder
    /\ IF command[c].kind = "stop" THEN GoTo(c, "unlink") ELSE Finish(c)
    /\ UNCHANGED <<platform, sources, dist, file, runner, live, given, crashes, stopped>>

\* A state file that cannot be removed is left.
Unlink(c) ==
    /\ command[c].at = "unlink"
    /\ file' \in {file, [file EXCEPT !["py"] = NoState]}
    /\ stopped' = TRUE
    /\ Finish(c)
    /\ UNCHANGED <<world, runner, live, given, crashes, disorder>>

-----------------------------------------------------------------------------
(* The service runner *)

\* The services are started one after the other; main goes on while the shutdown handler waits.
SpawnService(r) ==
    /\ Alive(r) /\ runner[r].next <= Apps
    /\ live' = live \cup {<<r, runner[r].next>>}
    /\ runner' = [runner EXCEPT ![r].next = @ + 1]
    /\ UNCHANGED <<world, file, command, tally>>

ExitAfterShutdown(r) ==
    /\ runner[r].at = "stopping"
    /\ runner' = [runner EXCEPT ![r].at = "gone"]
    /\ UNCHANGED <<world, file, live, command, tally>>

\* A runner whose services have all ended has nothing left to wait for.
RunnerEnds(r) ==
    /\ runner[r].at = "on" /\ runner[r].next > Apps /\ \A s \in live : s[1] # r
    /\ runner' = [runner EXCEPT ![r].at = "gone"]
    /\ UNCHANGED <<world, file, live, command, tally>>

-----------------------------------------------------------------------------
(* What happens to them *)

\* The worker is built from packages no launcher looks at, and a file that goes, or comes back
\* with the time it had, may leave the newest time as it was or lower; directories, which change
\* with their files, are looked at by the orchestrator alone. The other parts have one file.
Change(part) ==
    /\ source[part] <= MaxChanges
    /\ \A p \in Parts \ {part} : source[p] = 1
    /\ source' = [source EXCEPT ![part] = @ + 1]
    /\ \E time \in [Launchers -> 1 .. source[part] + 1] :
          /\ \A l \in Launchers : time[l] = source[part] + 1 \/ time[l] <= mtime[l][part]
          /\ time["py"] = source[part] + 1 => time["node"] = time["py"]
          /\ part # "worker" => time["node"] = time["py"]
          /\ mtime' = [l \in Launchers |-> [mtime[l] EXCEPT ![part] = time[l]]]
    /\ UNCHANGED <<platform, docker, dist, file, runner, live, command, tally>>

\* A command that dies between two steps leaves all it has done; a runner it has started and
\* not recorded, or was waiting for, goes on.
LauncherDies(c) ==
    /\ command[c].at \notin {"idle", "building", "docker", "retry"} /\ crashes < MaxCrashes
    /\ crashes' = crashes + 1
    /\ Finish(c)
    /\ disorder' = disorder \cup {IF command[c].at \in {"record", "attend"} THEN "orphan" ELSE "fault"}
    /\ UNCHANGED <<world, file, runner, live, given, stopped>>

\* A runner killed outright leaves its services running.
RunnerDies(r) ==
    /\ Alive(r) /\ crashes < MaxCrashes
    /\ crashes' = crashes + 1
    /\ runner' = [runner EXCEPT ![r].at = "gone"]
    /\ disorder' = disorder \cup {"fault"}
    /\ UNCHANGED <<world, file, live, command, given, stopped>>

\* The files stay; a pid they hold may belong to another process afterwards.
Reboot ==
    /\ crashes < MaxCrashes
    /\ crashes' = crashes + 1
    /\ docker' = FALSE /\ live' = {}
    /\ \E reused \in SUBSET {r \in 1 .. MaxRunners : runner[r].at # "none"} :
          runner' = [r \in 1 .. MaxRunners |->
                        CASE runner[r].at = "none" -> runner[r]
                          [] r \in reused -> [runner[r] EXCEPT !.at = "stranger"]
                          [] OTHER -> [runner[r] EXCEPT !.at = "gone"]]
    /\ command' = [c \in Terminals |-> NoCommand]
    /\ disorder' = disorder \cup {"fault"}
    /\ UNCHANGED <<platform, sources, dist, file, given, stopped>>

CommandStep(c) ==
    \/ ReadState(c) \/ Stat(c) \/ BeginBuild(c) \/ EndBuild(c) \/ UpDocker(c) \/ DownAndRetry(c)
    \/ SaveState(c) \/ CheckPid(c) \/ SpawnRunner(c) \/ RecordPid(c) \/ RunnerEnded(c)
    \/ Look(c) \/ KillRecorded(c) \/ AwaitEnd(c) \/ KillPorts(c) \/ KillPatterns(c) \/ Forget(c)
    \/ DownDocker(c) \/ Unlink(c)

LauncherNext ==
    \/ \E c \in Terminals :
          Give(c) \/ Interrupt(c) \/ CommandStep(c) \/ BuildFails(c) \/ UpFails(c) \/ LauncherDies(c)
    \/ \E r \in 1 .. MaxRunners :
          SpawnService(r) \/ ExitAfterShutdown(r) \/ RunnerEnds(r) \/ RunnerDies(r)
    \/ \E part \in Parts : Change(part)
    \/ Reboot

LauncherSpec == LauncherInit /\ [][LauncherNext]_launcherVars

-----------------------------------------------------------------------------
(* Properties *)

LauncherTypeOK ==
    /\ platform \in {"unix", "win32"} /\ docker \in BOOLEAN
    /\ source \in [Parts -> Versions] /\ dist \in [Parts -> Versions]
    /\ mtime \in [Launchers -> [Parts -> Versions]]
    /\ file \in [Launchers -> LauncherState]
    /\ runner \in [1 .. MaxRunners -> ServiceRunner]
    /\ live \subseteq Services
    /\ command \in [Terminals -> Command]
    /\ given \in 0 .. MaxCommands /\ crashes \in 0 .. MaxCrashes /\ stopped \in BOOLEAN
    /\ disorder \subseteq Disorders

\* secretary.py, in the background, has been used alone and has lost no runner.
PyAlone == disorder \cap {"others", "orphan"} = {}

\* After a `secretary.py --stop` no runner of secretary.py is alive, no service runs, even one its
\* runner was about to spawn when it was told to stop, and Docker is down unless it would not go.
\* On Unix no service runs whatever died or failed before, a stop half way included: services are
\* found by name.
StopIsComplete ==
    (stopped /\ PyAlone) =>
        /\ \A r \in 1 .. MaxRunners : ~Alive(r)
        /\ platform = "unix" \/ "fault" \notin disorder => live = {}
        /\ docker => "docker" \in disorder

\* Commands of secretary.py given one after the other never leave two runners, nor one that the
\* next stop would not find, whatever dies; nor, if nothing does, one without its infrastructure.
LauncherInOrder ==
    (PyAlone /\ \A c \in Terminals : ~AtWork(c)) =>
        \A r \in 1 .. MaxRunners : Alive(r) => r = file["py"].pid /\ (docker \/ "fault" \in disorder)

\* A stamp that is the time of the last change means the output was built from it, whichever
\* launcher built it, whatever was edited during a build, and whatever failed.
StampHonest ==
    \A l \in Launchers, p \in Parts :
        file[l].stamp[p] = source[p] => dist[p] = source[p]

=============================================================================
