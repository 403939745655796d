------------------------------ MODULE Heartbeat ------------------------------
(***************************************************************************)
(* The autonomy heartbeat: a loop that runs a turn of its own when the     *)
(* time in its row has come, runs an operator asks for, and updates of the *)
(* settings. All of them read the row, await, and write what they read     *)
(* back with their changes.                                                *)
(***************************************************************************)
EXTENDS Integers

CONSTANTS
    Runs,           \* runs asked for by hand that may be under way at once
    Patches,        \* updates of the settings that may be under way at once
    MaxBeats,       \* bound: requests, and times the hour comes
    MaxBeatFaults   \* bound: turns and writes that fail, and restarts

ASSUME HeartbeatAssumption ==
    /\ MaxBeats \in Nat /\ MaxBeatFaults \in Nat
    /\ "loop" \notin Runs

VARIABLES
    beat,       \* the integrations row of the heartbeat
    runner,     \* what the loop and each run is about to do
    patch,      \* what each update of the settings is about to do
    hours,      \* number of times the hour of a run has come
    calls,      \* number of requests made
    beatFaults, \* number of faults so far
    fired,      \* history: scheduled runs started
    rooms,      \* history: conversations the runs have opened
    saved,      \* history: the setting saved last
    mixed       \* history: processes have overlapped, or one broke off

heartbeatVars == <<beat, runner, patch, hours, calls, beatFaults, fired, rooms, saved, mixed>>

-----------------------------------------------------------------------------
(* The row. `next` is nextRunAt: null, an hour to come or one that has come; `room` is     *)
(* whether a conversation is stored. The prompt and the interval are one setting.          *)

Beat == [enabled : BOOLEAN, next : {"none", "later", "due"}, room : BOOLEAN,
         setting : 0 .. MaxBeats, health : {"ok", "degraded", "disabled"}]
FirstBeat == [enabled |-> FALSE, next |-> "none", room |-> FALSE, setting |-> 0,
              health |-> "disabled"]

Runners == {"loop"} \cup Runs
Runner == [at : {"idle", "run", "turn", "save", "caught", "deliver"}, read : Beat]
Patch == [at : {"idle", "save"}, read : Beat, enabled : BOOLEAN, timed : BOOLEAN]
Resting == [at |-> "idle", read |-> FirstBeat]
NoPatch == [at |-> "idle", read |-> FirstBeat, enabled |-> FALSE, timed |-> FALSE]

HeartbeatInit ==
    /\ beat = FirstBeat
    /\ runner = [r \in Runners |-> Resting]
    /\ patch = [p \in Patches |-> NoPatch]
    /\ hours = 0 /\ calls = 0 /\ beatFaults = 0 /\ fired = 0 /\ rooms = 0 /\ saved = 0
    /\ mixed = FALSE

\* Nobody holds a row it has read and will write.
Quiet == (\A r \in Runners : runner[r].at \in {"idle", "run", "deliver"})
         /\ (\A p \in Patches : patch[p].at = "idle")

\* computeNextRunAt for a row that is enabled.
NextRun(enabled) == IF enabled THEN "later" ELSE "none"

-----------------------------------------------------------------------------
(* Runs: startHeartbeatLoop, runHeartbeat *)

\* Mutant: one flag for all runs, so that a run by hand keeps the loop waiting.
TickOneAtATime ==
    /\ \A r \in Runners : runner[r].at = "idle"
    /\ beat.enabled /\ beat.next = "due"
    /\ runner' = [runner EXCEPT !["loop"].at = "run"]
    /\ UNCHANGED <<beat, patch, hours, calls, beatFaults, fired, rooms, saved, mixed>>

\* A tick of the loop, unless the last one still runs: it looks whether a run is due.
Tick ==
    /\ runner["loop"].at = "idle"
    /\ beat.enabled /\ beat.next = "due"
    /\ runner' = [runner EXCEPT !["loop"].at = "run"]
    /\ UNCHANGED <<beat, patch, hours, calls, beatFaults, fired, rooms, saved, mixed>>

\* An operator asks for a run, enabled or not.
AskForRun(r) ==
    /\ r # "loop" /\ runner[r].at = "idle" /\ calls < MaxBeats
    /\ calls' = calls + 1
    /\ runner' = [runner EXCEPT ![r].at = "run"]
    /\ UNCHANGED <<beat, patch, hours, beatFaults, fired, rooms, saved, mixed>>

\* A run reads the row. One of the loop throws when the heartbeat was disabled meanwhile.
StartRun(r) ==
    /\ runner[r].at = "run"
    /\ IF r = "loop" /\ ~beat.enabled
       THEN runner' = [runner EXCEPT ![r] = Resting] /\ UNCHANGED <<fired, mixed>>
       ELSE /\ runner' = [runner EXCEPT ![r] = [at |-> "turn", read |-> beat]]
            /\ fired' = IF r = "loop" THEN fired + 1 ELSE fired
            /\ mixed' = (mixed \/ ~Quiet)
    /\ UNCHANGED <<beat, patch, hours, calls, beatFaults, rooms, saved>>

\* The turn, in the stored conversation or a new one. It may take longer than an interval.
TakeTurn(r) ==
    /\ runner[r].at = "turn"
    /\ runner' = [runner EXCEPT ![r].at = "save"]
    /\ rooms' = IF runner[r].read.room THEN rooms ELSE rooms + 1
    /\ UNCHANGED <<beat, patch, hours, calls, beatFaults, fired, saved, mixed>>

\* The configuration as it was read, with the next run from the `enabled` that was read; the
\* column `enabled` is not written.
SaveRun(r) ==
    /\ runner[r].at = "save"
    /\ LET read == runner[r].read
       IN  beat' = [beat EXCEPT !.room = TRUE, !.setting = read.setting,
                                !.next = NextRun(read.enabled),
                                !.health = IF read.enabled THEN "ok" ELSE "disabled"]
    /\ runner' = [runner EXCEPT ![r].at = "deliver"]
    /\ UNCHANGED <<patch, hours, calls, beatFaults, fired, rooms, saved, mixed>>

\* What the turn says goes to the channels; a failure there is caught.
DeliverRun(r) ==
    /\ runner[r].at = "deliver"
    /\ runner' = [runner EXCEPT ![r] = Resting]
    /\ UNCHANGED <<beat, patch, hours, calls, beatFaults, fired, rooms, saved, mixed>>

\* The turn or the save throws ...
RunFails(r) ==
    /\ runner[r].at \in {"turn", "save"} /\ beatFaults < MaxBeatFaults
    /\ beatFaults' = beatFaults + 1
    /\ runner' = [runner EXCEPT ![r].at = "caught"]
    /\ UNCHANGED <<beat, patch, hours, calls, fired, rooms, saved, mixed>>

\* Mutant: a run that failed is not scheduled again.
CatchRunUnscheduled(r) ==
    /\ runner[r].at = "caught"
    /\ beat' = [beat EXCEPT !.next = "none", !.health = "degraded"]
    /\ runner' = [runner EXCEPT ![r] = Resting]
    /\ UNCHANGED <<patch, hours, calls, beatFaults, fired, rooms, saved, mixed>>

\* ... and the next run is set all the same, in the configuration as it was read.
CatchRun(r) ==
    /\ runner[r].at = "caught"
    /\ LET read == runner[r].read
       IN  beat' = [beat EXCEPT !.room = read.room, !.setting = read.setting,
                                !.next = NextRun(read.enabled), !.health = "degraded"]
    /\ runner' = [runner EXCEPT ![r] = Resting]
    /\ UNCHANGED <<patch, hours, calls, beatFaults, fired, rooms, saved, mixed>>

\* The catch itself throws: nothing was rescheduled, and the loop will find the run due again.
CatchThrows(r) ==
    /\ runner[r].at = "caught" /\ beatFaults < MaxBeatFaults
    /\ beatFaults' = beatFaults + 1
    /\ mixed' = TRUE
    /\ runner' = [runner EXCEPT ![r] = Resting]
    /\ UNCHANGED <<beat, patch, hours, calls, fired, rooms, saved>>

-----------------------------------------------------------------------------
(* Settings, time and restarts *)

\* A patch of the settings: `enabled`, or the interval (`timed`), or only the prompt.
ReadSettings(p) ==
    /\ patch[p].at = "idle" /\ calls < MaxBeats
    /\ calls' = calls + 1
    /\ \E enabled \in BOOLEAN, timed \in BOOLEAN :
          /\ enabled # beat.enabled => timed
          /\ patch' = [patch EXCEPT ![p] =
                 [at |-> "save", read |-> beat, enabled |-> enabled, timed |-> timed]]
    /\ mixed' = (mixed \/ ~Quiet)
    /\ UNCHANGED <<beat, runner, hours, beatFaults, fired, rooms, saved>>

\* The patch goes over the row as it was read.
SaveSetting(p) ==
    /\ patch[p].at = "save"
    /\ LET f == patch[p]
       IN  beat' = [enabled |-> f.enabled, room |-> f.read.room, setting |-> calls,
                    next |-> IF f.timed THEN NextRun(f.enabled) ELSE f.read.next,
                    health |-> IF f.enabled THEN "ok" ELSE "disabled"]
    /\ saved' = calls
    /\ patch' = [patch EXCEPT ![p] = NoPatch]
    /\ UNCHANGED <<runner, hours, calls, beatFaults, fired, rooms, mixed>>

\* The hour of the next run comes.
HourComes ==
    /\ beat.next = "later" /\ hours < MaxBeats
    /\ hours' = hours + 1
    /\ beat' = [beat EXCEPT !.next = "due"]
    /\ UNCHANGED <<runner, patch, calls, beatFaults, fired, rooms, saved, mixed>>

RestartBeat ==
    /\ beatFaults < MaxBeatFaults
    /\ beatFaults' = beatFaults + 1
    /\ mixed' = TRUE
    /\ runner' = [r \in Runners |-> Resting]
    /\ patch' = [p \in Patches |-> NoPatch]
    /\ UNCHANGED <<beat, hours, calls, fired, rooms, saved>>

Proceed(r) == StartRun(r) \/ TakeTurn(r) \/ SaveRun(r) \/ DeliverRun(r) \/ CatchRun(r)
LoopProceeds == Tick \/ Proceed("loop")

HeartbeatNext ==
    \/ Tick \/ HourComes \/ RestartBeat
    \/ \E r \in Runners : AskForRun(r) \/ Proceed(r) \/ RunFails(r) \/ CatchThrows(r)
    \/ \E p \in Patches : ReadSettings(p) \/ SaveSetting(p)

\* The interval timer ticks on and a run of the loop goes on.
HeartbeatSpec == HeartbeatInit /\ [][HeartbeatNext]_heartbeatVars /\ WF_heartbeatVars(LoopProceeds)

-----------------------------------------------------------------------------
(* Properties *)

\* Every field is of its kind.
HeartbeatTypeOK ==
    /\ beat \in Beat
    /\ runner \in [Runners -> Runner]
    /\ patch \in [Patches -> Patch]
    /\ hours \in 0 .. MaxBeats /\ calls \in 0 .. MaxBeats
    /\ beatFaults \in 0 .. MaxBeatFaults
    /\ fired \in Nat /\ rooms \in Nat /\ saved \in 0 .. MaxBeats
    /\ mixed \in BOOLEAN

\* As long as runs and updates do not overlap, an enabled heartbeat has a next run (without
\* one the loop never runs again), failed turns included; it fires once an hour that came;
\* a run leaves the settings as they were saved last; and runs share one conversation.
KeepsBeating ==
    ~mixed => /\ beat.enabled <=> beat.next # "none"
              /\ fired <= hours
              /\ beat.setting = saved
              /\ rooms <= 1 + beatFaults

\* A run of an enabled heartbeat does not stay due, whoever else reads and writes the row: the
\* loop survives runs that fail and catches that fail.
DueRuns == []<>~(beat.enabled /\ beat.next = "due")

=============================================================================
