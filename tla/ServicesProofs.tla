--------------------------- MODULE ServicesProofs ---------------------------
(***************************************************************************)
(* That the worker's services keep what they promise: the heartbeat goes   *)
(* on and keeps its setting, a dispatch of reminders tells what it sent,   *)
(* and the secretary's memory keeps each fact once, in the order it was    *)
(* said, and what a completed job wrote. And that all services, Telegram,  *)
(* the settings and the page of the jobs with them, keep the kinds of      *)
(* their variables. For any numbers of runs, changes, tasks, channels,     *)
(* messages, facts, jobs, clicks and faults.                               *)
(***************************************************************************)
EXTENDS MCServices, TelegramProofs, SettingsFilesProofs

-----------------------------------------------------------------------------
(* The heartbeat. *)

\* A run between its read of the row and its write.
Holds(r) == runner[r].at \in {"turn", "save", "caught"}
Writes(p) == patch[p].at = "save"

\* Whoever holds the row holds it alone.
OneHolder ==
    /\ \A r, s \in Runners : Holds(r) /\ Holds(s) => r = s
    /\ \A p, q \in Patches : Writes(p) /\ Writes(q) => p = q
    /\ \A r \in Runners, p \in Patches : ~(Holds(r) /\ Writes(p))

\* What it read still is in the row; only the hour may have come meanwhile.
RunsReadFresh ==
    \A r \in Runners : Holds(r) =>
        /\ runner[r].read.enabled = beat.enabled /\ runner[r].read.room = beat.room
        /\ runner[r].read.setting = beat.setting
PatchesReadFresh ==
    \A p \in Patches : Writes(p) =>
        /\ patch[p].read.room = beat.room /\ patch[p].read.enabled = beat.enabled
        /\ patch[p].read.next \in {beat.next, "later"}
        /\ patch[p].read.next = "later" => beat.next \in {"later", "due"}
        /\ patch[p].enabled # beat.enabled => patch[p].timed

\* An hour that came is one run that started, that is about to, or that the loop will find due.
OwedRuns == IF runner["loop"].at = "run" THEN 1
            ELSE IF beat.next = "due" /\ ~Holds("loop") THEN 1 ELSE 0
HoursPay == fired + OwedRuns <= hours

\* A conversation beyond the stored one was lost to a fault, or its run is about to store it.
Unsaved == \E r \in Runners : runner[r].at = "save" /\ ~runner[r].read.room
RoomsCounted == rooms <= beatFaults + (IF beat.room \/ Unsaved THEN 1 ELSE 0)

Scheduled == beat.enabled <=> beat.next # "none"
SettingKept == beat.setting = saved

InTurn == /\ OneHolder /\ RunsReadFresh /\ PatchesReadFresh /\ HoursPay /\ RoomsCounted
          /\ Scheduled /\ SettingKept
HeartbeatInv == HeartbeatTypeOK /\ (~mixed => InTurn)

\* Who is at rest holds no row.
LEMMA RestKinds ==
    /\ FirstBeat \in Beat /\ Resting \in Runner /\ NoPatch \in Patch
    /\ Resting.at = "idle" /\ NoPatch.at = "idle"
  BY HeartbeatAssumption DEF FirstBeat, Beat, Resting, Runner, NoPatch, Patch

\* A heartbeat that was never enabled owes no run.
LEMMA HeartbeatInitial == HeartbeatInit => HeartbeatInv
  <1> SUFFICES ASSUME HeartbeatInit PROVE HeartbeatInv
    OBVIOUS
  <1> USE HeartbeatAssumption
  <1>2. HeartbeatTypeOK
    <2>1. runner \in [Runners -> Runner] /\ patch \in [Patches -> Patch] /\ beat \in Beat
      BY RestKinds DEF HeartbeatInit
    <2>2. 0 \in Nat /\ 0 \in 0 .. MaxBeats /\ 0 \in 0 .. MaxBeatFaults
      OBVIOUS
    <2> QED
      BY <2>1, <2>2, Zenon DEF HeartbeatInit, HeartbeatTypeOK
  <1>3. OneHolder /\ RunsReadFresh /\ PatchesReadFresh
    BY DEF HeartbeatInit, OneHolder, RunsReadFresh, PatchesReadFresh, Holds, Writes, Resting, NoPatch
  <1>4. HoursPay /\ RoomsCounted /\ Scheduled /\ SettingKept
    BY DEF HeartbeatInit, HoursPay, OwedRuns, RoomsCounted, Unsaved, Scheduled, SettingKept, FirstBeat,
           Resting, Holds, Runners
  <1> QED
    BY <1>2, <1>3, <1>4 DEF HeartbeatInv, InTurn

\* The loop takes what is due, and only the loop does.
LEMMA TickKeeps ==
    ASSUME HeartbeatInv, Tick
    PROVE  HeartbeatInv'
  <1> USE HeartbeatAssumption DEF Tick
  <1>1. HeartbeatTypeOK /\ "loop" \in Runners
    BY DEF HeartbeatInv, Runners
  <1>2. HeartbeatTypeOK'
    BY <1>1, RestKinds DEF HeartbeatTypeOK, Beat, Runner, Patch, NextRun
  <1>3. ASSUME ~mixed' PROVE InTurn'
    <2>1. InTurn
      BY <1>3 DEF HeartbeatInv
    <2>2. OneHolder'
      BY <1>1, <1>3, <2>1, RestKinds DEF InTurn, OneHolder, Holds, Writes, Quiet, HeartbeatTypeOK, Runner, Patch
    <2>8. \A s \in Runners : Holds(s)' => Holds(s) /\ runner'[s] = runner[s]
      BY <1>1 DEF HeartbeatTypeOK, Holds, Runner
    <2>7. RunsReadFresh'
      BY <2>1, <2>8 DEF InTurn, RunsReadFresh
    <2>3. PatchesReadFresh'
      BY <1>1, <1>3, <2>1, RestKinds DEF InTurn, OneHolder, PatchesReadFresh, Holds, Writes, Quiet, HeartbeatTypeOK, Runner, Patch, Beat, NextRun
    <2>4. HoursPay'
      BY <1>1, <1>3, <2>1 DEF InTurn, PatchesReadFresh, HoursPay, OwedRuns, Scheduled, Holds, Writes, HeartbeatTypeOK, Resting, NoPatch, Runner, Patch, Beat, NextRun
    <2>5. RoomsCounted'
      BY <1>1, <1>3, <2>1 DEF InTurn, OneHolder, RunsReadFresh, PatchesReadFresh, RoomsCounted, Unsaved, Holds, Writes, HeartbeatTypeOK, Resting, NoPatch, Runner, Patch, Beat
    <2>6. Scheduled' /\ SettingKept'
      BY <1>1, <1>3, <2>1 DEF InTurn, RunsReadFresh, PatchesReadFresh, Scheduled, SettingKept, Holds, Writes, HeartbeatTypeOK, Runner, Patch, Beat, NextRun
    <2> QED
      BY <2>2, <2>3, <2>4, <2>5, <2>6, <2>7 DEF InTurn
  <1> QED
    BY <1>2, <1>3 DEF HeartbeatInv

\* A request for a run adds none to what an hour owes.
LEMMA AskForRunKeeps ==
    ASSUME HeartbeatInv, NEW r \in Runners, AskForRun(r)
    PROVE  HeartbeatInv'
  <1> USE HeartbeatAssumption DEF AskForRun
  <1>1. HeartbeatTypeOK /\ "loop" \in Runners
    BY DEF HeartbeatInv, Runners
  <1>2. HeartbeatTypeOK'
    BY <1>1, RestKinds DEF HeartbeatTypeOK, Beat, Runner, Patch, NextRun
  <1>3. ASSUME ~mixed' PROVE InTurn'
    <2>1. InTurn
      BY <1>3 DEF HeartbeatInv
    <2>2. OneHolder'
      BY <1>1, <1>3, <2>1, RestKinds DEF InTurn, OneHolder, Holds, Writes, Quiet, HeartbeatTypeOK, Runner, Patch
    <2>7. RunsReadFresh'
      BY <1>1, <1>3, <2>1, RestKinds DEF InTurn, OneHolder, RunsReadFresh, Holds, Writes, Quiet, HeartbeatTypeOK, Runner, Patch, Beat
    <2>3. PatchesReadFresh'
      BY <1>1, <1>3, <2>1, RestKinds DEF InTurn, OneHolder, PatchesReadFresh, Holds, Writes, Quiet, HeartbeatTypeOK, Runner, Patch, Beat, NextRun
    <2>4. HoursPay'
      BY <1>1, <1>3, <2>1 DEF InTurn, PatchesReadFresh, HoursPay, OwedRuns, Scheduled, Holds, Writes, HeartbeatTypeOK, Resting, NoPatch, Runner, Patch, Beat, NextRun
    <2>5. RoomsCounted'
      BY <1>1, <1>3, <2>1 DEF InTurn, OneHolder, RunsReadFresh, PatchesReadFresh, RoomsCounted, Unsaved, Holds, Writes, HeartbeatTypeOK, Resting, NoPatch, Runner, Patch, Beat
    <2>6. Scheduled' /\ SettingKept'
      BY <1>1, <1>3, <2>1 DEF InTurn, RunsReadFresh, PatchesReadFresh, Scheduled, SettingKept, Holds, Writes, HeartbeatTypeOK, Runner, Patch, Beat, NextRun
    <2> QED
      BY <2>2, <2>3, <2>4, <2>5, <2>6, <2>7 DEF InTurn
  <1> QED
    BY <1>2, <1>3 DEF HeartbeatInv

\* A run that starts holds no row yet.
LEMMA StartRunKeeps ==
    ASSUME HeartbeatInv, NEW r \in Runners, StartRun(r)
    PROVE  HeartbeatInv'
  <1> USE HeartbeatAssumption DEF StartRun
  <1>1. HeartbeatTypeOK /\ "loop" \in Runners
    BY DEF HeartbeatInv, Runners
  <1>2. HeartbeatTypeOK'
    <2>1. [at |-> "turn", read |-> beat] \in Runner
      BY <1>1 DEF HeartbeatTypeOK, Runner
    <2>2. runner' \in [Runners -> Runner]
      BY <1>1, <2>1, RestKinds DEF HeartbeatTypeOK
    <2>3. fired' \in Nat
      BY <1>1 DEF HeartbeatTypeOK
    <2>4. mixed' \in BOOLEAN
      BY <1>1, Zenon DEF HeartbeatTypeOK
    <2> QED
      BY <1>1, <2>2, <2>3, <2>4 DEF HeartbeatTypeOK
  <1>3. ASSUME ~mixed' PROVE InTurn'
    <2>1. InTurn
      BY <1>3 DEF HeartbeatInv
    <2>8. \A s \in Runners : s # r => runner'[s] = runner[s]
      BY <1>1 DEF HeartbeatTypeOK
    <2>9. ~(r = "loop" /\ ~beat.enabled) => Quiet
      BY <1>1, <1>3 DEF HeartbeatTypeOK
    <2>2. OneHolder'
      BY <2>8, <2>9, <1>1, <1>3, <2>1, RestKinds DEF InTurn, OneHolder, Holds, Writes, Quiet, HeartbeatTypeOK, Runner, Patch
    <2>7. RunsReadFresh'
      BY <1>1, <1>3, <2>1, RestKinds DEF InTurn, OneHolder, RunsReadFresh, Holds, Writes, Quiet, HeartbeatTypeOK, Runner, Patch, Beat
    <2>3. PatchesReadFresh'
      BY <1>1, <1>3, <2>1, RestKinds DEF InTurn, OneHolder, PatchesReadFresh, Holds, Writes, Quiet, HeartbeatTypeOK, Runner, Patch, Beat, NextRun
    <2>4. HoursPay'
      BY <1>1, <1>3, <2>1 DEF InTurn, PatchesReadFresh, HoursPay, OwedRuns, Scheduled, Holds, Writes, HeartbeatTypeOK, Resting, NoPatch, Runner, Patch, Beat, NextRun
    <2>5. RoomsCounted'
      BY <1>1, <1>3, <2>1 DEF InTurn, OneHolder, RunsReadFresh, PatchesReadFresh, RoomsCounted, Unsaved, Holds, Writes, HeartbeatTypeOK, Resting, NoPatch, Runner, Patch, Beat
    <2>6. Scheduled' /\ SettingKept'
      BY <1>1, <1>3, <2>1 DEF InTurn, RunsReadFresh, PatchesReadFresh, Scheduled, SettingKept, Holds, Writes, HeartbeatTypeOK, Runner, Patch, Beat, NextRun
    <2> QED
      BY <2>2, <2>3, <2>4, <2>5, <2>6, <2>7 DEF InTurn
  <1> QED
    BY <1>2, <1>3 DEF HeartbeatInv

\* A turn that is taken has read the row that is there.
LEMMA TakeTurnKeeps ==
    ASSUME HeartbeatInv, NEW r \in Runners, TakeTurn(r)
    PROVE  HeartbeatInv'
  <1> USE HeartbeatAssumption DEF TakeTurn
  <1>1. HeartbeatTypeOK /\ "loop" \in Runners
    BY DEF HeartbeatInv, Runners
  <1>2. HeartbeatTypeOK'
    BY <1>1, RestKinds DEF HeartbeatTypeOK, Beat, Runner, Patch, NextRun
  <1>3. ASSUME ~mixed' PROVE InTurn'
    <2>1. InTurn
      BY <1>3 DEF HeartbeatInv
    <2>2. OneHolder'
      BY <1>1, <1>3, <2>1, RestKinds DEF InTurn, OneHolder, Holds, Writes, Quiet, HeartbeatTypeOK, Runner, Patch
    <2>7. RunsReadFresh'
      BY <1>1, <1>3, <2>1, RestKinds DEF InTurn, OneHolder, RunsReadFresh, Holds, Writes, Quiet, HeartbeatTypeOK, Runner, Patch, Beat
    <2>3. PatchesReadFresh'
      BY <1>1, <1>3, <2>1, RestKinds DEF InTurn, OneHolder, PatchesReadFresh, Holds, Writes, Quiet, HeartbeatTypeOK, Runner, Patch, Beat, NextRun
    <2>4. HoursPay'
      BY <1>1, <1>3, <2>1 DEF InTurn, PatchesReadFresh, HoursPay, OwedRuns, Scheduled, Holds, Writes, HeartbeatTypeOK, Resting, NoPatch, Runner, Patch, Beat, NextRun
    <2>5. RoomsCounted'
      BY <1>1, <1>3, <2>1 DEF InTurn, OneHolder, RunsReadFresh, PatchesReadFresh, RoomsCounted, Unsaved, Holds, Writes, HeartbeatTypeOK, Resting, NoPatch, Runner, Patch, Beat
    <2>6. Scheduled' /\ SettingKept'
      BY <1>1, <1>3, <2>1 DEF InTurn, RunsReadFresh, PatchesReadFresh, Scheduled, SettingKept, Holds, Writes, HeartbeatTypeOK, Runner, Patch, Beat, NextRun
    <2> QED
      BY <2>2, <2>3, <2>4, <2>5, <2>6, <2>7 DEF InTurn
  <1> QED
    BY <1>2, <1>3 DEF HeartbeatInv

\* A run writes what it read and the next hour, and leaves the setting.
LEMMA SaveRunKeeps ==
    ASSUME HeartbeatInv, NEW r \in Runners, SaveRun(r)
    PROVE  HeartbeatInv'
  <1> USE HeartbeatAssumption DEF SaveRun
  <1>1. HeartbeatTypeOK /\ "loop" \in Runners
    BY DEF HeartbeatInv, Runners
  <1>2. HeartbeatTypeOK'
    <2>1. runner[r].read \in Beat
      BY <1>1 DEF HeartbeatTypeOK, Runner
    <2>2. beat' \in Beat
      BY <1>1, <2>1 DEF HeartbeatTypeOK, Beat, NextRun
    <2>3. runner' \in [Runners -> Runner]
      BY <1>1 DEF HeartbeatTypeOK, Runner
    <2> QED
      BY <1>1, <2>2, <2>3 DEF HeartbeatTypeOK
  <1>3. ASSUME ~mixed' PROVE InTurn'
    <2>1. InTurn
      BY <1>3 DEF HeartbeatInv
    <2>2. OneHolder'
      BY <1>1, <1>3, <2>1, RestKinds DEF InTurn, OneHolder, Holds, Writes, Quiet, HeartbeatTypeOK, Runner, Patch
    <2>7. RunsReadFresh'
      BY <1>1, <1>3, <2>1, RestKinds DEF InTurn, OneHolder, RunsReadFresh, Holds, Writes, Quiet, HeartbeatTypeOK, Runner, Patch, Beat
    <2>3. PatchesReadFresh'
      BY <1>1, <1>3, <2>1, RestKinds DEF InTurn, OneHolder, PatchesReadFresh, Holds, Writes, Quiet, HeartbeatTypeOK, Runner, Patch, Beat, NextRun
    <2>4. HoursPay'
      BY <1>1, <1>3, <2>1 DEF InTurn, PatchesReadFresh, HoursPay, OwedRuns, Scheduled, Holds, Writes, HeartbeatTypeOK, Resting, NoPatch, Runner, Patch, Beat, NextRun
    <2>5. RoomsCounted'
      BY <1>1, <1>3, <2>1 DEF InTurn, OneHolder, RunsReadFresh, PatchesReadFresh, RoomsCounted, Unsaved, Holds, Writes, HeartbeatTypeOK, Resting, NoPatch, Runner, Patch, Beat
    <2>6. Scheduled' /\ SettingKept'
      BY <1>1, <1>3, <2>1 DEF InTurn, RunsReadFresh, PatchesReadFresh, Scheduled, SettingKept, Holds, Writes, HeartbeatTypeOK, Runner, Patch, Beat, NextRun
    <2> QED
      BY <2>2, <2>3, <2>4, <2>5, <2>6, <2>7 DEF InTurn
  <1> QED
    BY <1>2, <1>3 DEF HeartbeatInv

\* What is delivered touches no row.
LEMMA DeliverRunKeeps ==
    ASSUME HeartbeatInv, NEW r \in Runners, DeliverRun(r)
    PROVE  HeartbeatInv'
  <1> USE HeartbeatAssumption DEF DeliverRun
  <1>1. HeartbeatTypeOK /\ "loop" \in Runners
    BY DEF HeartbeatInv, Runners
  <1>2. HeartbeatTypeOK'
    BY <1>1, RestKinds DEF HeartbeatTypeOK, Beat, Runner, Patch, NextRun
  <1>3. ASSUME ~mixed' PROVE InTurn'
    <2>1. InTurn
      BY <1>3 DEF HeartbeatInv
    <2>2. OneHolder'
      BY <1>1, <1>3, <2>1, RestKinds DEF InTurn, OneHolder, Holds, Writes, Quiet, HeartbeatTypeOK, Runner, Patch
    <2>7. RunsReadFresh'
      BY <1>1, <1>3, <2>1, RestKinds DEF InTurn, OneHolder, RunsReadFresh, Holds, Writes, Quiet, HeartbeatTypeOK, Runner, Patch, Beat
    <2>3. PatchesReadFresh'
      BY <1>1, <1>3, <2>1, RestKinds DEF InTurn, OneHolder, PatchesReadFresh, Holds, Writes, Quiet, HeartbeatTypeOK, Runner, Patch, Beat, NextRun
    <2>4. HoursPay'
      BY <1>1, <1>3, <2>1 DEF InTurn, PatchesReadFresh, HoursPay, OwedRuns, Scheduled, Holds, Writes, HeartbeatTypeOK, Resting, NoPatch, Runner, Patch, Beat, NextRun
    <2>5. RoomsCounted'
      BY <1>1, <1>3, <2>1 DEF InTurn, OneHolder, RunsReadFresh, PatchesReadFresh, RoomsCounted, Unsaved, Holds, Writes, HeartbeatTypeOK, Resting, NoPatch, Runner, Patch, Beat
    <2>6. Scheduled' /\ SettingKept'
      BY <1>1, <1>3, <2>1 DEF InTurn, RunsReadFresh, PatchesReadFresh, Scheduled, SettingKept, Holds, Writes, HeartbeatTypeOK, Runner, Patch, Beat, NextRun
    <2> QED
      BY <2>2, <2>3, <2>4, <2>5, <2>6, <2>7 DEF InTurn
  <1> QED
    BY <1>2, <1>3 DEF HeartbeatInv

\* A run that fails has yet to be caught: its hour is still counted.
LEMMA RunFailsKeeps ==
    ASSUME HeartbeatInv, NEW r \in Runners, RunFails(r)
    PROVE  HeartbeatInv'
  <1> USE HeartbeatAssumption DEF RunFails
  <1>1. HeartbeatTypeOK /\ "loop" \in Runners
    BY DEF HeartbeatInv, Runners
  <1>2. HeartbeatTypeOK'
    BY <1>1, RestKinds DEF HeartbeatTypeOK, Beat, Runner, Patch, NextRun
  <1>3. ASSUME ~mixed' PROVE InTurn'
    <2>1. InTurn
      BY <1>3 DEF HeartbeatInv
    <2>2. OneHolder'
      BY <1>1, <1>3, <2>1, RestKinds DEF InTurn, OneHolder, Holds, Writes, Quiet, HeartbeatTypeOK, Runner, Patch
    <2>7. RunsReadFresh'
      BY <1>1, <1>3, <2>1, RestKinds DEF InTurn, OneHolder, RunsReadFresh, Holds, Writes, Quiet, HeartbeatTypeOK, Runner, Patch, Beat
    <2>3. PatchesReadFresh'
      BY <1>1, <1>3, <2>1, RestKinds DEF InTurn, OneHolder, PatchesReadFresh, Holds, Writes, Quiet, HeartbeatTypeOK, Runner, Patch, Beat, NextRun
    <2>4. HoursPay'
      BY <1>1, <1>3, <2>1 DEF InTurn, PatchesReadFresh, HoursPay, OwedRuns, Scheduled, Holds, Writes, HeartbeatTypeOK, Resting, NoPatch, Runner, Patch, Beat, NextRun
    <2>5. RoomsCounted'
      BY <1>1, <1>3, <2>1 DEF InTurn, OneHolder, RunsReadFresh, PatchesReadFresh, RoomsCounted, Unsaved, Holds, Writes, HeartbeatTypeOK, Resting, NoPatch, Runner, Patch, Beat
    <2>6. Scheduled' /\ SettingKept'
      BY <1>1, <1>3, <2>1 DEF InTurn, RunsReadFresh, PatchesReadFresh, Scheduled, SettingKept, Holds, Writes, HeartbeatTypeOK, Runner, Patch, Beat, NextRun
    <2> QED
      BY <2>2, <2>3, <2>4, <2>5, <2>6, <2>7 DEF InTurn
  <1> QED
    BY <1>2, <1>3 DEF HeartbeatInv

\* A run that is caught is scheduled again all the same.
LEMMA CatchRunKeeps ==
    ASSUME HeartbeatInv, NEW r \in Runners, CatchRun(r)
    PROVE  HeartbeatInv'
  <1> USE HeartbeatAssumption DEF CatchRun
  <1>1. HeartbeatTypeOK /\ "loop" \in Runners
    BY DEF HeartbeatInv, Runners
  <1>2. HeartbeatTypeOK'
    BY <1>1, RestKinds DEF HeartbeatTypeOK, Beat, Runner, Patch, NextRun
  <1>3. ASSUME ~mixed' PROVE InTurn'
    <2>1. InTurn
      BY <1>3 DEF HeartbeatInv
    <2>2. OneHolder'
      BY <1>1, <1>3, <2>1, RestKinds DEF InTurn, OneHolder, Holds, Writes, Quiet, HeartbeatTypeOK, Runner, Patch
    <2>7. RunsReadFresh'
      BY <1>1, <1>3, <2>1, RestKinds DEF InTurn, OneHolder, RunsReadFresh, Holds, Writes, Quiet, HeartbeatTypeOK, Runner, Patch, Beat
    <2>3. PatchesReadFresh'
      BY <1>1, <1>3, <2>1, RestKinds DEF InTurn, OneHolder, PatchesReadFresh, Holds, Writes, Quiet, HeartbeatTypeOK, Runner, Patch, Beat, NextRun
    <2>4. HoursPay'
      BY <1>1, <1>3, <2>1 DEF InTurn, PatchesReadFresh, HoursPay, OwedRuns, Scheduled, Holds, Writes, HeartbeatTypeOK, Resting, NoPatch, Runner, Patch, Beat, NextRun
    <2>5. RoomsCounted'
      BY <1>1, <1>3, <2>1 DEF InTurn, OneHolder, RunsReadFresh, PatchesReadFresh, RoomsCounted, Unsaved, Holds, Writes, HeartbeatTypeOK, Resting, NoPatch, Runner, Patch, Beat
    <2>6. Scheduled' /\ SettingKept'
      BY <1>1, <1>3, <2>1 DEF InTurn, RunsReadFresh, PatchesReadFresh, Scheduled, SettingKept, Holds, Writes, HeartbeatTypeOK, Runner, Patch, Beat, NextRun
    <2> QED
      BY <2>2, <2>3, <2>4, <2>5, <2>6, <2>7 DEF InTurn
  <1> QED
    BY <1>2, <1>3 DEF HeartbeatInv

\* A catch that throws has written what it read, or nothing.
LEMMA CatchThrowsKeeps ==
    ASSUME HeartbeatInv, NEW r \in Runners, CatchThrows(r)
    PROVE  HeartbeatInv'
  <1> USE HeartbeatAssumption DEF CatchThrows
  <1>1. HeartbeatTypeOK /\ "loop" \in Runners
    BY DEF HeartbeatInv, Runners
  <1>2. HeartbeatTypeOK'
    BY <1>1, RestKinds DEF HeartbeatTypeOK, Beat, Runner, Patch, NextRun
  <1>3. ASSUME ~mixed' PROVE InTurn'
    <2>1. InTurn
      BY <1>3 DEF HeartbeatInv
    <2>2. OneHolder'
      BY <1>1, <1>3, <2>1, RestKinds DEF InTurn, OneHolder, Holds, Writes, Quiet, HeartbeatTypeOK, Runner, Patch
    <2>7. RunsReadFresh'
      BY <1>1, <1>3, <2>1, RestKinds DEF InTurn, OneHolder, RunsReadFresh, Holds, Writes, Quiet, HeartbeatTypeOK, Runner, Patch, Beat
    <2>3. PatchesReadFresh'
      BY <1>1, <1>3, <2>1, RestKinds DEF InTurn, OneHolder, PatchesReadFresh, Holds, Writes, Quiet, HeartbeatTypeOK, Runner, Patch, Beat, NextRun
    <2>4. HoursPay'
      BY <1>1, <1>3, <2>1 DEF InTurn, PatchesReadFresh, HoursPay, OwedRuns, Scheduled, Holds, Writes, HeartbeatTypeOK, Resting, NoPatch, Runner, Patch, Beat, NextRun
    <2>5. RoomsCounted'
      BY <1>1, <1>3, <2>1 DEF InTurn, OneHolder, RunsReadFresh, PatchesReadFresh, RoomsCounted, Unsaved, Holds, Writes, HeartbeatTypeOK, Resting, NoPatch, Runner, Patch, Beat
    <2>6. Scheduled' /\ SettingKept'
      BY <1>1, <1>3, <2>1 DEF InTurn, RunsReadFresh, PatchesReadFresh, Scheduled, SettingKept, Holds, Writes, HeartbeatTypeOK, Runner, Patch, Beat, NextRun
    <2> QED
      BY <2>2, <2>3, <2>4, <2>5, <2>6, <2>7 DEF InTurn
  <1> QED
    BY <1>2, <1>3 DEF HeartbeatInv

\* A change of the settings has read the row that is there.
LEMMA ReadSettingsKeeps ==
    ASSUME HeartbeatInv, NEW p \in Patches, ReadSettings(p)
    PROVE  HeartbeatInv'
  <1> USE HeartbeatAssumption DEF ReadSettings
  <1>1. HeartbeatTypeOK /\ "loop" \in Runners
    BY DEF HeartbeatInv, Runners
  <1>2. HeartbeatTypeOK'
    BY <1>1, RestKinds DEF HeartbeatTypeOK, Beat, Runner, Patch, NextRun
  <1>3. ASSUME ~mixed' PROVE InTurn'
    <2>1. InTurn
      BY <1>3 DEF HeartbeatInv
    <2>2. OneHolder'
      BY <1>1, <1>3, <2>1, RestKinds, ZenonT(60) DEF InTurn, OneHolder, Holds, Writes, Quiet, HeartbeatTypeOK, Runner, Patch
    <2>7. RunsReadFresh'
      BY <1>1, <1>3, <2>1, RestKinds DEF InTurn, OneHolder, RunsReadFresh, Holds, Writes, Quiet, HeartbeatTypeOK, Runner, Patch, Beat
    <2>3. PatchesReadFresh'
      BY <1>1, <1>3, <2>1, RestKinds DEF InTurn, OneHolder, PatchesReadFresh, Holds, Writes, Quiet, HeartbeatTypeOK, Runner, Patch, Beat, NextRun
    <2>4. HoursPay'
      BY <1>1, <1>3, <2>1 DEF InTurn, PatchesReadFresh, HoursPay, OwedRuns, Scheduled, Holds, Writes, HeartbeatTypeOK, Resting, NoPatch, Runner, Patch, Beat, NextRun
    <2>5. RoomsCounted'
      BY <1>1, <1>3, <2>1 DEF InTurn, OneHolder, RunsReadFresh, PatchesReadFresh, RoomsCounted, Unsaved, Holds, Writes, HeartbeatTypeOK, Resting, NoPatch, Runner, Patch, Beat
    <2>6. Scheduled' /\ SettingKept'
      BY <1>1, <1>3, <2>1 DEF InTurn, RunsReadFresh, PatchesReadFresh, Scheduled, SettingKept, Holds, Writes, HeartbeatTypeOK, Runner, Patch, Beat, NextRun
    <2> QED
      BY <2>2, <2>3, <2>4, <2>5, <2>6, <2>7 DEF InTurn
  <1> QED
    BY <1>2, <1>3 DEF HeartbeatInv

\* A change that is saved schedules the next hour if, and only if, it is on.
LEMMA SaveSettingKeeps ==
    ASSUME HeartbeatInv, NEW p \in Patches, SaveSetting(p)
    PROVE  HeartbeatInv'
  <1> USE HeartbeatAssumption DEF SaveSetting
  <1>1. HeartbeatTypeOK /\ "loop" \in Runners
    BY DEF HeartbeatInv, Runners
  <1>2. HeartbeatTypeOK'
    BY <1>1, RestKinds DEF HeartbeatTypeOK, Beat, Runner, Patch, NextRun
  <1>3. ASSUME ~mixed' PROVE InTurn'
    <2>1. InTurn
      BY <1>3 DEF HeartbeatInv
    <2>2. OneHolder'
      BY <1>1, <1>3, <2>1, RestKinds DEF InTurn, OneHolder, Holds, Writes, Quiet, HeartbeatTypeOK, Runner, Patch
    <2>7. RunsReadFresh'
      BY <1>1, <1>3, <2>1, RestKinds DEF InTurn, OneHolder, RunsReadFresh, Holds, Writes, Quiet, HeartbeatTypeOK, Runner, Patch, Beat
    <2>3. PatchesReadFresh'
      BY <1>1, <1>3, <2>1, RestKinds DEF InTurn, OneHolder, PatchesReadFresh, Holds, Writes, Quiet, HeartbeatTypeOK, Runner, Patch, Beat, NextRun
    <2>4. HoursPay'
      BY <1>1, <1>3, <2>1 DEF InTurn, PatchesReadFresh, HoursPay, OwedRuns, Scheduled, Holds, Writes, HeartbeatTypeOK, Resting, NoPatch, Runner, Patch, Beat, NextRun
    <2>5. RoomsCounted'
      BY <1>1, <1>3, <2>1 DEF InTurn, OneHolder, RunsReadFresh, PatchesReadFresh, RoomsCounted, Unsaved, Holds, Writes, HeartbeatTypeOK, Resting, NoPatch, Runner, Patch, Beat
    <2>6. Scheduled' /\ SettingKept'
      BY <1>1, <1>3, <2>1 DEF InTurn, RunsReadFresh, PatchesReadFresh, Scheduled, SettingKept, Holds, Writes, HeartbeatTypeOK, Runner, Patch, Beat, NextRun
    <2> QED
      BY <2>2, <2>3, <2>4, <2>5, <2>6, <2>7 DEF InTurn
  <1> QED
    BY <1>2, <1>3 DEF HeartbeatInv

\* An hour that comes is counted before the run it pays for.
LEMMA HourComesKeeps ==
    ASSUME HeartbeatInv, HourComes
    PROVE  HeartbeatInv'
  <1> USE HeartbeatAssumption DEF HourComes
  <1>1. HeartbeatTypeOK /\ "loop" \in Runners
    BY DEF HeartbeatInv, Runners
  <1>2. HeartbeatTypeOK'
    BY <1>1, RestKinds DEF HeartbeatTypeOK, Beat, Runner, Patch, NextRun
  <1>3. ASSUME ~mixed' PROVE InTurn'
    <2>1. InTurn
      BY <1>3 DEF HeartbeatInv
    <2>2. OneHolder'
      BY <1>1, <1>3, <2>1, RestKinds DEF InTurn, OneHolder, Holds, Writes, Quiet, HeartbeatTypeOK, Runner, Patch
    <2>7. RunsReadFresh'
      BY <1>1, <1>3, <2>1, RestKinds DEF InTurn, OneHolder, RunsReadFresh, Holds, Writes, Quiet, HeartbeatTypeOK, Runner, Patch, Beat
    <2>3. PatchesReadFresh'
      BY <1>1, <1>3, <2>1, RestKinds DEF InTurn, OneHolder, PatchesReadFresh, Holds, Writes, Quiet, HeartbeatTypeOK, Runner, Patch, Beat, NextRun
    <2>4. HoursPay'
      BY <1>1, <1>3, <2>1 DEF InTurn, PatchesReadFresh, HoursPay, OwedRuns, Scheduled, Holds, Writes, HeartbeatTypeOK, Resting, NoPatch, Runner, Patch, Beat, NextRun
    <2>5. RoomsCounted'
      BY <1>1, <1>3, <2>1 DEF InTurn, OneHolder, RunsReadFresh, PatchesReadFresh, RoomsCounted, Unsaved, Holds, Writes, HeartbeatTypeOK, Resting, NoPatch, Runner, Patch, Beat
    <2>6. Scheduled' /\ SettingKept'
      BY <1>1, <1>3, <2>1 DEF InTurn, RunsReadFresh, PatchesReadFresh, Scheduled, SettingKept, Holds, Writes, HeartbeatTypeOK, Runner, Patch, Beat, NextRun
    <2> QED
      BY <2>2, <2>3, <2>4, <2>5, <2>6, <2>7 DEF InTurn
  <1> QED
    BY <1>2, <1>3 DEF HeartbeatInv

\* After a restart nobody holds a row.
LEMMA RestartBeatKeeps ==
    ASSUME HeartbeatInv, RestartBeat
    PROVE  HeartbeatInv'
  <1> USE HeartbeatAssumption DEF RestartBeat
  <1>1. HeartbeatTypeOK /\ "loop" \in Runners
    BY DEF HeartbeatInv, Runners
  <1>2. HeartbeatTypeOK'
    BY <1>1, RestKinds DEF HeartbeatTypeOK, Beat, Runner, Patch, NextRun
  <1>3. ASSUME ~mixed' PROVE InTurn'
    <2>1. InTurn
      BY <1>3 DEF HeartbeatInv
    <2>2. OneHolder'
      BY <1>1, <1>3, <2>1, RestKinds DEF InTurn, OneHolder, Holds, Writes, Quiet, HeartbeatTypeOK, Runner, Patch
    <2>7. RunsReadFresh'
      BY <1>1, <1>3, <2>1, RestKinds DEF InTurn, OneHolder, RunsReadFresh, Holds, Writes, Quiet, HeartbeatTypeOK, Runner, Patch, Beat
    <2>3. PatchesReadFresh'
      BY <1>1, <1>3, <2>1, RestKinds DEF InTurn, OneHolder, PatchesReadFresh, Holds, Writes, Quiet, HeartbeatTypeOK, Runner, Patch, Beat, NextRun
    <2>4. HoursPay'
      BY <1>1, <1>3, <2>1 DEF InTurn, PatchesReadFresh, HoursPay, OwedRuns, Scheduled, Holds, Writes, HeartbeatTypeOK, Resting, NoPatch, Runner, Patch, Beat, NextRun
    <2>5. RoomsCounted'
      BY <1>1, <1>3, <2>1 DEF InTurn, OneHolder, RunsReadFresh, PatchesReadFresh, RoomsCounted, Unsaved, Holds, Writes, HeartbeatTypeOK, Resting, NoPatch, Runner, Patch, Beat
    <2>6. Scheduled' /\ SettingKept'
      BY <1>1, <1>3, <2>1 DEF InTurn, RunsReadFresh, PatchesReadFresh, Scheduled, SettingKept, Holds, Writes, HeartbeatTypeOK, Runner, Patch, Beat, NextRun
    <2> QED
      BY <2>2, <2>3, <2>4, <2>5, <2>6, <2>7 DEF InTurn
  <1> QED
    BY <1>2, <1>3 DEF HeartbeatInv

\* Every step keeps it.
LEMMA HeartbeatNextKeeps == HeartbeatInv /\ [HeartbeatNext]_heartbeatVars => HeartbeatInv'
  <1> SUFFICES ASSUME HeartbeatInv, [HeartbeatNext]_heartbeatVars PROVE HeartbeatInv'
    OBVIOUS
  <1>1. CASE UNCHANGED heartbeatVars
    BY <1>1 DEF heartbeatVars, HeartbeatInv, HeartbeatTypeOK, InTurn, OneHolder, RunsReadFresh,
                PatchesReadFresh, HoursPay, OwedRuns, RoomsCounted, Unsaved, Scheduled, SettingKept,
                Holds, Writes
  <1>2. CASE Tick \/ HourComes \/ RestartBeat
    BY <1>2, TickKeeps, HourComesKeeps, RestartBeatKeeps
  <1>3. ASSUME NEW r \in Runners, AskForRun(r) \/ Proceed(r) \/ RunFails(r) \/ CatchThrows(r)
        PROVE  HeartbeatInv'
    BY <1>3, AskForRunKeeps, StartRunKeeps, TakeTurnKeeps, SaveRunKeeps, DeliverRunKeeps, CatchRunKeeps,
       RunFailsKeeps, CatchThrowsKeeps DEF Proceed
  <1>4. ASSUME NEW p \in Patches, ReadSettings(p) \/ SaveSetting(p)
        PROVE  HeartbeatInv'
    BY <1>4, ReadSettingsKeeps, SaveSettingKeeps
  <1> QED
    BY <1>1, <1>2, <1>3, <1>4 DEF HeartbeatNext

\* As long as nobody overlaps and nothing breaks off, an enabled heartbeat has a next run, runs no
\* more often than its hour comes, keeps the settings saved last and its one conversation.
THEOREM BeatGoesOn == HeartbeatSpec => [](HeartbeatTypeOK /\ KeepsBeating)
  <1>1. HeartbeatInv => HeartbeatTypeOK /\ KeepsBeating
    <2> SUFFICES ASSUME HeartbeatInv PROVE HeartbeatTypeOK /\ KeepsBeating
      OBVIOUS
    <2>1. HeartbeatTypeOK
      BY DEF HeartbeatInv
    <2>2. ASSUME ~mixed
          PROVE  /\ Scheduled /\ SettingKept /\ fired <= hours /\ rooms <= 1 + beatFaults
      <3>1. HoursPay /\ RoomsCounted /\ Scheduled /\ SettingKept
        BY <2>2 DEF HeartbeatInv, InTurn
      <3>2. OwedRuns \in {0, 1}
        BY DEF OwedRuns
      <3> QED
        BY <2>1, <3>1, <3>2, HeartbeatAssumption DEF HoursPay, RoomsCounted, HeartbeatTypeOK
    <2> QED
      BY <2>1, <2>2 DEF KeepsBeating, Scheduled, SettingKept
  <1> QED
    BY <1>1, HeartbeatInitial, HeartbeatNextKeeps, PTL DEF HeartbeatSpec

-----------------------------------------------------------------------------
(* Tasks and reminders. *)

\* A process that sends is at its item from the moment it has taken it until it goes on.
AtItem(s) == s.at \notin {"idle", "next"}
InHand(s, t) == AtItem(s) /\ s.item = t

\* A dispatch has tasks that were created, an update or a test message channels.
SendersWork ==
    \A p \in Senders :
        /\ sender[p].todo \subseteq (IF p \in Dispatchers THEN Tasks ELSE Channels)
        /\ sender[p].at = "idle" => sender[p].todo = {}
        /\ AtItem(sender[p]) => sender[p].item \in sender[p].todo /\ ChannelOf(sender[p].item) \in Channels
        /\ sender[p].at = "status" => ChannelOf(sender[p].item) \in Outbound
        /\ \A t \in Tasks : t \in sender[p].todo => task[t].status # "none"

EditsFound ==
    \A e \in Editors : edit[e].at = "write" =>
        /\ edit[e].task \in Tasks /\ edit[e].status # "none"
        /\ task[edit[e].task].status # "none"

\* What is not created was not sent; what is has a channel.
Uncreated ==
    \A t \in Tasks : IF task[t].status = "none" THEN mail[t] = 0 /\ task[t] = NoTask
                     ELSE task[t].channel # "none"

\* The message of the item in hand is out.
HasSent(s) == s.at = "mark" \/ (s.at = "status" /\ s.ok)

\* Delivered, or about to be marked so: it went out, or was not for Telegram.
Accounted ==
    \A t \in Tasks :
        /\ task[t].delivered => mail[t] > 0 \/ t \in refused
        /\ \A p \in Senders : InHand(sender[p], t) /\ HasSent(sender[p]) => mail[t] > 0 \/ t \in refused

\* As long as dispatches do not overlap and nothing fails.
OneDispatch == \A p, q \in Dispatchers : sender[p].at # "idle" /\ sender[q].at # "idle" => p = q

\* A process s with a task still to do: it went out only if it is in hand and about to be marked,
\* and is marked only then.
InStep(s, t, was, mails) ==
    /\ mails = 0 \/ (InHand(s, t) /\ (HasSent(s) \/ s.at = "trace"))
    /\ was.delivered <=> InHand(s, t) /\ s.at = "trace"

\* A reminder that is out is marked or about to be; one that is still to be sent is neither.
SentOnce ==
    \A t \in Tasks :
        /\ mail[t] <= 1
        /\ task[t].delivered => ~task[t].error
        /\ (\A p \in Senders : t \notin sender[p].todo) => mail[t] = 0 \/ task[t].delivered
        /\ \A p \in Senders : t \in sender[p].todo => InStep(sender[p], t, task[t], mail[t])

Quietly == OneDispatch /\ SentOnce
RemindersInv ==
    /\ RemindersTypeOK /\ SendersWork /\ EditsFound /\ Uncreated /\ Accounted
    /\ ~muddled => Quietly

-----------------------------------------------------------------------------

\* The records that empty ones are made of.
LEMMA NothingToSend ==
    /\ NoTask \in Task /\ Unemployed \in Sender /\ NoEdit \in Edit
    /\ Unemployed.at = "idle" /\ Unemployed.todo = {} /\ ~Unemployed.ok /\ NoEdit.at = "idle"
    /\ NoTask.status = "none" /\ ~NoTask.delivered /\ ~NoTask.error
  BY DEF NoTask, Task, Unemployed, Sender, NoEdit, Edit

\* Where nothing was made, nothing is to be sent.
LEMMA RemindersInitial == RemindersInit => RemindersInv
  <1> SUFFICES ASSUME RemindersInit PROVE RemindersInv
    OBVIOUS
  <1>1. RemindersTypeOK
    <2>1. /\ task \in [Tasks -> Task] /\ edit \in [Editors -> Edit] /\ sender \in [Senders -> Sender]
          /\ enabled \in [Channels -> BOOLEAN] /\ health \in [Outbound -> {"ok", "degraded", "not_configured"}]
          /\ mail \in [Tasks -> Nat] /\ made \in 0 .. MaxSends /\ sendFaults \in 0 .. MaxSendFaults
      BY NothingToSend, RemindersAssumption DEF RemindersInit
    <2> QED
      BY <2>1 DEF RemindersInit, RemindersTypeOK
  <1>2. SendersWork /\ EditsFound
    BY NothingToSend DEF RemindersInit, SendersWork, EditsFound, AtItem
  <1>3. Uncreated /\ Accounted
    BY NothingToSend DEF RemindersInit, Uncreated, Accounted, InHand, AtItem
  <1>4. Quietly
    BY NothingToSend, RemindersAssumption DEF RemindersInit, Quietly, OneDispatch, SentOnce, Senders, InStep, InHand, AtItem
  <1> QED
    BY <1>1, <1>2, <1>3, <1>4 DEF RemindersInv

\* One process moves, the others stay.
LEMMA OneMoves ==
    ASSUME sender \in [Senders -> Sender], NEW p \in Senders, NEW s \in Sender,
           sender' = [sender EXCEPT ![p] = s]
    PROVE  /\ sender' \in [Senders -> Sender] /\ sender'[p] = s
           /\ \A q \in Senders : q # p => sender'[q] = sender[q]
  OBVIOUS

\* A row of tasks keeps its channel, and stays created.
TaskStays(t) == /\ task[t].status # "none" => task'[t].status # "none" /\ task'[t].channel = task[t].channel
                /\ task[t].status = "none" => task'[t] = task[t]

\* A process that goes on with what it had: its work is work still.
LEMMA WorkGoesOn ==
    ASSUME RemindersInv, \A t \in Tasks : TaskStays(t), UNCHANGED edit,
           NEW p \in Senders, NEW s \in Sender, sender' = [sender EXCEPT ![p] = s],
           s.todo \subseteq sender[p].todo, s.at = "idle" => s.todo = {},
           s.at \notin {"idle", "next"} => s.item \in s.todo /\ ChannelOf(s.item) \in Channels,
           s.at = "status" => ChannelOf(s.item) \in Outbound
    PROVE  SendersWork' /\ EditsFound'
  <1>1. /\ sender'[p] = s
        /\ \A q \in Senders : q # p => sender'[q] = sender[q]
    BY DEF RemindersInv, RemindersTypeOK
  <1>2. \A q \in Senders : \A item \in sender[q].todo : ChannelOf(item)' = ChannelOf(item)
    BY DEF RemindersInv, SendersWork, ChannelOf, TaskStays
  <1>3. SendersWork'
    <2> SUFFICES ASSUME NEW q \in Senders
                 PROVE  /\ sender'[q].todo \subseteq (IF q \in Dispatchers THEN Tasks ELSE Channels)
                        /\ sender'[q].at = "idle" => sender'[q].todo = {}
                        /\ AtItem(sender'[q]) => sender'[q].item \in sender'[q].todo /\ ChannelOf(sender[q].item)' \in Channels
                        /\ sender'[q].at = "status" => ChannelOf(sender[q].item)' \in Outbound
                        /\ \A t \in Tasks : t \in sender'[q].todo => task'[t].status # "none"
      BY DEF SendersWork
    <2>1. CASE q # p
      <3>1. sender'[q] = sender[q]
        BY <1>1, <2>1
      <3>2. AtItem(sender[q]) => ChannelOf(sender[q].item)' = ChannelOf(sender[q].item)
        BY <1>2, <3>1 DEF RemindersInv, SendersWork, ChannelOf
      <3>3. sender[q].at = "status" => AtItem(sender[q])
        BY DEF AtItem
      <3> QED
        BY <3>1, <3>2, <3>3 DEF RemindersInv, SendersWork, TaskStays, AtItem
    <2>2. CASE q = p
      <3>1. AtItem(sender'[q]) => ChannelOf(sender[q].item)' = ChannelOf(s.item)
        BY <1>1, <1>2, <2>2 DEF AtItem, ChannelOf
      <3>2. sender'[q] = s
        BY <1>1, <2>2
      <3>3. sender'[q].at = "status" => AtItem(sender'[q])
        BY DEF AtItem
      <3> QED
        BY <2>2, <3>1, <3>2, <3>3 DEF RemindersInv, SendersWork, TaskStays, AtItem
    <2> QED
      BY <2>1, <2>2
  <1>4. EditsFound'
    BY DEF RemindersInv, EditsFound, TaskStays
  <1> QED
    BY <1>3, <1>4

-----------------------------------------------------------------------------
(* Tasks and time *)

\* A row changes, and no process moves: what was delivered and created is as it was.
LEMMA RowChanges ==
    ASSUME RemindersInv, UNCHANGED <<sender, mail, refused, muddled, health, sendFaults>>,
           task' \in [Tasks -> Task], edit' \in [Editors -> Edit], enabled' \in [Channels -> BOOLEAN],
           made' \in 0 .. MaxSends, EditsFound', Uncreated',
           \A t \in Tasks : /\ task'[t].delivered = task[t].delivered /\ task'[t].error = task[t].error
                            /\ task[t].status # "none" => /\ task'[t].status # "none"
                                                          /\ task'[t].channel = task[t].channel
    PROVE  RemindersInv'
  <1>1. RemindersTypeOK'
    BY DEF RemindersInv, RemindersTypeOK
  <1>2. \A q \in Senders : \A item \in sender[q].todo : ChannelOf(item)' = ChannelOf(item)
    BY DEF RemindersInv, SendersWork, ChannelOf
  <1>3. SendersWork'
    <2>1. \A q \in Senders : AtItem(sender[q]) => ChannelOf(sender[q].item)' = ChannelOf(sender[q].item)
      BY <1>2 DEF RemindersInv, SendersWork, ChannelOf
    <2>2. \A q \in Senders : /\ AtItem(sender'[q]) = AtItem(sender[q])
                             /\ sender[q].at = "status" => AtItem(sender[q])
      BY DEF AtItem
    <2> QED
      BY <2>1, <2>2 DEF RemindersInv, SendersWork
  <1>4. Accounted'
    BY DEF RemindersInv, Accounted, InHand, AtItem, HasSent
  <1>5. Quietly => Quietly'
    BY DEF Quietly, OneDispatch, SentOnce, InStep, InHand, AtItem, HasSent
  <1> QED
    BY <1>1, <1>3, <1>4, <1>5 DEF RemindersInv

\* Creating a task, its reminder coming due, an update of it, and the settings of a channel.
LEMMA TasksKeep ==
    ASSUME RemindersInv,
           \/ \E t \in Tasks : CreateTask(t) \/ TimePasses(t)
           \/ \E e \in Editors : FindTask(e) \/ UpdateTask(e)
           \/ \E c \in Channels : SetEnabled(c)
    PROVE  RemindersInv'
  <1>1. RemindersTypeOK /\ made + 1 \in Nat
    BY DEF RemindersInv, RemindersTypeOK
  <1>2. ASSUME NEW t \in Tasks, CreateTask(t) PROVE RemindersInv'
    <2>1. PICK channel \in Channels \cup {"other"} :
             task' = [task EXCEPT ![t] = [NoTask EXCEPT !.status = "open", !.channel = channel, !.due = "later"]]
      BY <1>2 DEF CreateTask
    <2>2. PICK r \in Task : /\ r = [NoTask EXCEPT !.status = "open", !.channel = channel, !.due = "later"]
                            /\ r.status = "open" /\ r.channel # "none"
                            /\ r.delivered = FALSE /\ r.error = FALSE
      <3> DEFINE new == [NoTask EXCEPT !.status = "open", !.channel = channel, !.due = "later"]
      <3>1. /\ new \in Task /\ new.status = "open" /\ new.channel # "none"
            /\ new.delivered = FALSE /\ new.error = FALSE
        BY RemindersAssumption DEF NoTask, Task, Channels
      <3> QED
        BY <3>1
    <2>3. task' = [task EXCEPT ![t] = r]
      BY <2>1, <2>2
    <2>4. task[t].status = "none" /\ task[t].delivered = FALSE /\ task[t].error = FALSE
      <3>1. task[t].status = "none"
        BY <1>2 DEF CreateTask
      <3> QED
        BY <3>1 DEF RemindersInv, Uncreated, NoTask
    <2>5. task' \in [Tasks -> Task]
      BY <1>1, <2>3 DEF RemindersTypeOK
    <2>6. EditsFound'
      BY <1>1, <1>2, <2>2, <2>3 DEF CreateTask, RemindersInv, EditsFound, RemindersTypeOK
    <2>7. task'[t] = r /\ \A u \in Tasks : u # t => task'[u] = task[u]
      BY <1>1, <2>3 DEF RemindersTypeOK
    <2>8. Uncreated'
      BY <1>2, <2>2, <2>7 DEF CreateTask, RemindersInv, Uncreated
    <2> QED
      BY <1>1, <1>2, <2>2, <2>4, <2>5, <2>6, <2>7, <2>8, RowChanges DEF CreateTask, RemindersTypeOK
  <1>3. ASSUME NEW t \in Tasks, TimePasses(t) PROVE RemindersInv'
    <2>1. PICK r \in Task : /\ r = [task[t] EXCEPT !.due = "due"]
                            /\ r.status = task[t].status /\ r.channel = task[t].channel
                            /\ r.delivered = task[t].delivered /\ r.error = task[t].error
      <3>1. PICK old \in Task : old = task[t]
        BY <1>1 DEF RemindersTypeOK
      <3> DEFINE new == [old EXCEPT !.due = "due"]
      <3>2. /\ new \in Task /\ new.status = old.status /\ new.channel = old.channel
            /\ new.delivered = old.delivered /\ new.error = old.error
        BY DEF Task
      <3> QED
        BY <3>1, <3>2
    <2>2. task' = [task EXCEPT ![t] = r]
      BY <1>3, <2>1 DEF TimePasses
    <2>3. task[t].status # "none"
      BY <1>3 DEF TimePasses, RemindersInv, Uncreated, NoTask
    <2>4. task' \in [Tasks -> Task] /\ task'[t] = r /\ \A u \in Tasks : u # t => task'[u] = task[u]
      BY <1>1, <2>2 DEF RemindersTypeOK
    <2>5. EditsFound'
      BY <1>3, <2>1, <2>4 DEF TimePasses, RemindersInv, EditsFound
    <2>6. Uncreated'
      BY <1>3, <2>1, <2>3, <2>4 DEF TimePasses, RemindersInv, Uncreated
    <2> QED
      BY <1>1, <1>3, <2>1, <2>3, <2>4, <2>5, <2>6, RowChanges DEF TimePasses, RemindersTypeOK
  <1>4. ASSUME NEW e \in Editors, FindTask(e) PROVE RemindersInv'
    <2>1. PICK t \in Tasks, r \in Edit :
             task[t].status # "none" /\ edit' = [edit EXCEPT ![e] = r] /\ r.task = t /\ r.status # "none"
      <3>1. PICK t \in Tasks :
               /\ task[t].status # "none"
               /\ edit' \in {[edit EXCEPT ![e] = [at |-> "write", task |-> t, status |-> "done", due |-> task[t].due]],
                             [edit EXCEPT ![e] = [at |-> "write", task |-> t, status |-> task[t].status, due |-> "later"]]}
        BY <1>4 DEF FindTask
      <3>2. /\ [at |-> "write", task |-> t, status |-> "done", due |-> task[t].due] \in Edit
            /\ [at |-> "write", task |-> t, status |-> task[t].status, due |-> "later"] \in Edit
        BY <1>1 DEF RemindersTypeOK, Task, Edit
      <3> QED
        BY <3>1, <3>2
    <2>2. edit' \in [Editors -> Edit] /\ edit'[e] = r /\ \A f \in Editors : f # e => edit'[f] = edit[f]
      BY <1>1, <2>1 DEF RemindersTypeOK
    <2>3. EditsFound'
      BY <1>4, <2>1, <2>2 DEF FindTask, RemindersInv, EditsFound
    <2>4. made' \in 0 .. MaxSends
      BY <1>1, <1>4, RemindersAssumption DEF FindTask, RemindersTypeOK
    <2>5. Uncreated'
      BY <1>4 DEF FindTask, RemindersInv, Uncreated
    <2> QED
      BY <1>1, <1>4, <2>2, <2>3, <2>4, <2>5, RowChanges DEF FindTask, RemindersTypeOK
  <1>5. ASSUME NEW e \in Editors, UpdateTask(e) PROVE RemindersInv'
    <2>1. PICK w \in Edit : w = edit[e]
      BY <1>1 DEF RemindersTypeOK
    <2>2. PICK t \in Tasks : t = w.task /\ task[t].status # "none" /\ w.status # "none"
      BY <1>5, <2>1 DEF UpdateTask, RemindersInv, EditsFound
    <2>3. PICK r \in Task : /\ r = [task[t] EXCEPT !.status = w.status, !.due = w.due]
                            /\ r.status = w.status /\ r.channel = task[t].channel
                            /\ r.delivered = task[t].delivered /\ r.error = task[t].error
      <3>1. PICK old \in Task : old = task[t]
        BY <1>1 DEF RemindersTypeOK
      <3> DEFINE new == [old EXCEPT !.status = w.status, !.due = w.due]
      <3>2. /\ new \in Task /\ new.status = w.status /\ new.channel = old.channel
            /\ new.delivered = old.delivered /\ new.error = old.error
        BY DEF Task, Edit
      <3> QED
        BY <3>1, <3>2
    <2>4. task' = [task EXCEPT ![t] = r]
      BY <1>1, <1>5, <2>1, <2>2, <2>3 DEF UpdateTask, RemindersTypeOK
    <2>5. task' \in [Tasks -> Task] /\ task'[t] = r /\ \A u \in Tasks : u # t => task'[u] = task[u]
      BY <1>1, <2>4 DEF RemindersTypeOK
    <2>6. edit' \in [Editors -> Edit]
      BY <1>1, <1>5, NothingToSend DEF UpdateTask, RemindersTypeOK
    <2>7. \A f \in Editors : edit'[f].at = "write" => edit'[f] = edit[f]
      BY <1>1, <1>5, NothingToSend DEF UpdateTask, RemindersTypeOK
    <2>8. EditsFound'
      <3>1. \A u \in Tasks : task[u].status # "none" => task'[u].status # "none"
        BY <2>2, <2>3, <2>5, ZenonT(60)
      <3> QED
        BY <2>7, <3>1 DEF RemindersInv, EditsFound
    <2>9. Uncreated'
      <3>1. task[t].channel # "none" /\ mail' = mail
        BY <1>5, <2>2 DEF UpdateTask, RemindersInv, Uncreated
      <3>2. ASSUME NEW u \in Tasks
            PROVE  IF task'[u].status = "none" THEN mail'[u] = 0 /\ task'[u] = NoTask ELSE task'[u].channel # "none"
        <4>1. CASE u = t
          BY <2>2, <2>3, <2>5, <3>1, <4>1
        <4>2. CASE u # t
          BY <2>5, <3>1, <4>2 DEF RemindersInv, Uncreated
        <4> QED
          BY <4>1, <4>2
      <3> QED
        BY <3>2 DEF Uncreated
    <2> QED
      BY <1>1, <1>5, <2>2, <2>3, <2>5, <2>6, <2>8, <2>9, RowChanges DEF UpdateTask, RemindersTypeOK
  <1>6. ASSUME NEW c \in Channels, SetEnabled(c) PROVE RemindersInv'
    <2>1. enabled' \in [Channels -> BOOLEAN]
      BY <1>1, <1>6, Zenon DEF SetEnabled, RemindersTypeOK
    <2>2. EditsFound'
      BY <1>6 DEF SetEnabled, RemindersInv, EditsFound
    <2>3. made' \in 0 .. MaxSends
      BY <1>1, <1>6, RemindersAssumption DEF SetEnabled, RemindersTypeOK
    <2>4. Uncreated'
      BY <1>6 DEF SetEnabled, RemindersInv, Uncreated
    <2> QED
      BY <1>1, <1>6, <2>1, <2>2, <2>3, <2>4, RowChanges DEF SetEnabled, RemindersTypeOK
  <1> QED
    BY <1>2, <1>3, <1>4, <1>5, <1>6

-----------------------------------------------------------------------------
(* Processes that send *)

\* A step touches no task but those the process has to do, ...
OwnTasks(p) ==
    \A t \in Tasks : /\ TaskStays(t) /\ mail'[t] >= mail[t]
                     /\ t \notin sender[p].todo => task'[t] = task[t] /\ mail'[t] = mail[t]

\* ... says of none that it was delivered without cause ...
HonestStep(p, s) ==
    \A t \in Tasks : t \in sender[p].todo =>
        (task'[t].delivered \/ (InHand(s, t) /\ HasSent(s)) => mail'[t] > 0 \/ t \in refused')

\* ... and reminds of none again.
StepOnce(p, s) ==
    ~muddled' =>
        \A t \in Tasks : t \in sender[p].todo =>
            /\ mail'[t] <= 1
            /\ task'[t].delivered => ~task'[t].error
            /\ t \notin s.todo => mail'[t] = 0 \/ task'[t].delivered
            /\ t \in s.todo => InStep(s, t, task'[t], mail'[t])

\* A step of one process, which touches no task but those it has to do.
LEMMA ProcessMoves ==
    ASSUME RemindersInv, RemindersTypeOK', SendersWork', EditsFound',
           muddled => muddled', refused \subseteq refused',
           NEW p \in Senders, NEW s \in Sender, sender' = [sender EXCEPT ![p] = s],
           s.todo \subseteq sender[p].todo, sender[p].at # "idle",
           OwnTasks(p), HonestStep(p, s), StepOnce(p, s)
    PROVE  RemindersInv'
  <1> USE DEF OwnTasks, HonestStep, StepOnce
  <1>1. sender'[p] = s /\ \A q \in Senders : q # p => sender'[q] = sender[q]
    BY DEF RemindersInv, RemindersTypeOK
  <1>2. \A t \in Tasks : mail[t] \in Nat /\ mail'[t] \in Nat
    BY DEF RemindersInv, RemindersTypeOK
  <1>3. Uncreated'
    <2>1. ASSUME NEW t \in Tasks, task'[t].status = "none" PROVE mail'[t] = 0 /\ task'[t] = NoTask
      <3>1. task[t].status = "none"
        BY <2>1 DEF TaskStays
      <3>2. t \notin sender[p].todo
        BY <3>1 DEF RemindersInv, SendersWork
      <3> QED
        BY <3>1, <3>2 DEF RemindersInv, Uncreated
    <2>2. ASSUME NEW t \in Tasks, task'[t].status # "none" PROVE task'[t].channel # "none"
      <3>1. task[t].status # "none"
        BY <2>2 DEF TaskStays
      <3> QED
        BY <3>1 DEF RemindersInv, Uncreated, TaskStays
    <2> QED
      BY <2>1, <2>2 DEF Uncreated
  <1>4. Accounted'
    <2>1. ASSUME NEW t \in Tasks, task'[t].delivered PROVE mail'[t] > 0 \/ t \in refused'
      <3>1. CASE t \in sender[p].todo
        BY <2>1, <3>1
      <3>2. CASE t \notin sender[p].todo
        BY <1>2, <2>1, <3>2 DEF RemindersInv, Accounted
      <3> QED
        BY <3>1, <3>2
    <2>2. ASSUME NEW t \in Tasks, NEW q \in Senders, InHand(sender'[q], t), HasSent(sender'[q])
          PROVE  mail'[t] > 0 \/ t \in refused'
      <3>1. CASE q # p
        <4>1. mail[t] > 0 \/ t \in refused
          BY <1>1, <2>2, <3>1 DEF RemindersInv, Accounted
        <4> QED
          BY <1>2, <4>1
      <3>2. CASE q = p
        <4>1. InHand(s, t) /\ HasSent(s)
          BY <1>1, <2>2, <3>2
        <4>2. t \in sender[p].todo
          BY <1>1, <4>1 DEF SendersWork, InHand
        <4> QED
          BY <4>1, <4>2
      <3> QED
        BY <3>1, <3>2
    <2> QED
      BY <2>1, <2>2 DEF Accounted
  <1>5. ASSUME ~muddled' PROVE Quietly'
    <2>1. OneDispatch /\ SentOnce
      BY <1>5 DEF RemindersInv, Quietly
    <2>2. OneDispatch'
      BY <1>1, <2>1 DEF OneDispatch
    <2>3. ASSUME NEW t \in Tasks, t \in sender[p].todo, NEW q \in Senders, q # p PROVE t \notin sender[q].todo
      <3>1. p \in Dispatchers
        BY <2>3, RemindersAssumption DEF RemindersInv, SendersWork
      <3>2. t \in sender[q].todo => q \in Dispatchers /\ sender[q].at # "idle"
        BY RemindersAssumption DEF RemindersInv, SendersWork
      <3> QED
        BY <2>1, <2>3, <3>1, <3>2 DEF OneDispatch
    <2>4. ASSUME NEW t \in Tasks
          PROVE  /\ mail'[t] <= 1
                 /\ task'[t].delivered => ~task'[t].error
                 /\ (\A q \in Senders : t \notin sender'[q].todo) => mail'[t] = 0 \/ task'[t].delivered
                 /\ \A q \in Senders : t \in sender'[q].todo => InStep(sender'[q], t, task'[t], mail'[t])
      <3>1. CASE t \in sender[p].todo
        BY <1>1, <1>5, <2>3, <3>1
      <3>2. CASE t \notin sender[p].todo
        BY <1>1, <2>1, <3>2 DEF SentOnce
      <3> QED
        BY <3>1, <3>2
    <2> QED
      BY <2>2, <2>4 DEF Quietly, SentOnce
  <1> QED
    BY <1>3, <1>4, <1>5 DEF RemindersInv

\* A process begins with what is still to be sent.
LEMMA StartKeeps ==
    ASSUME RemindersInv, NEW p \in Senders, NEW todo \in SUBSET Items, Starts(p, todo),
           todo \subseteq (IF p \in Dispatchers THEN Tasks ELSE Channels), muddled' \in BOOLEAN,
           \A t \in Tasks : t \in todo => task[t].status # "none" /\ ~task[t].delivered,
           muddled => muddled',
           ~muddled' /\ p \in Dispatchers => \A q \in Dispatchers : sender[q].at = "idle"
    PROVE  RemindersInv'
  <1>1. PICK s \in Sender : /\ s = [Unemployed EXCEPT !.at = "next", !.todo = todo]
                            /\ s.at = "next" /\ s.todo = todo
    <2> DEFINE new == [Unemployed EXCEPT !.at = "next", !.todo = todo]
    <2>1. new \in Sender /\ new.at = "next" /\ new.todo = todo
      BY DEF Unemployed, Sender
    <2> QED
      BY <2>1
  <1>2. /\ sender' = [sender EXCEPT ![p] = s] /\ sender[p].at = "idle"
        /\ UNCHANGED <<task, edit, enabled, health, sendFaults, mail, refused>>
    BY <1>1 DEF Starts
  <1>3. sender' \in [Senders -> Sender] /\ sender'[p] = s /\ \A q \in Senders : q # p => sender'[q] = sender[q]
    BY <1>2, OneMoves DEF RemindersInv, RemindersTypeOK
  <1>4. RemindersTypeOK'
    <2>1. made' \in 0 .. MaxSends
      BY RemindersAssumption DEF Starts, RemindersInv, RemindersTypeOK
    <2> QED
      BY <1>2, <1>3, <2>1 DEF RemindersInv, RemindersTypeOK
  <1>5. SendersWork' /\ EditsFound'
    <2>1. ~AtItem(s) /\ \A q \in Senders : sender[q].at = "status" => AtItem(sender[q])
      BY <1>1 DEF AtItem
    <2>2. ASSUME NEW q \in Senders, q # p, AtItem(sender'[q])
          PROVE  ChannelOf(sender[q].item)' = ChannelOf(sender[q].item)
      BY <1>2, <1>3, <2>2 DEF ChannelOf
    <2>3. SendersWork'
      BY <1>1, <1>2, <1>3, <2>1, <2>2 DEF RemindersInv, SendersWork
    <2> QED
      BY <1>2, <2>3 DEF RemindersInv, EditsFound
  <1>6. Uncreated' /\ Accounted'
    BY <1>1, <1>2, <1>3 DEF RemindersInv, Uncreated, Accounted, InHand, AtItem
  <1>7. ASSUME ~muddled' PROVE Quietly'
    <2>1. OneDispatch /\ SentOnce
      BY <1>7 DEF RemindersInv, Quietly
    <2>2. OneDispatch'
      <3>1. CASE p \in Dispatchers
        BY <1>3, <1>7, <3>1 DEF OneDispatch, Senders
      <3>2. CASE p \notin Dispatchers
        BY <1>3, <2>1, <3>2 DEF OneDispatch, Senders
      <3> QED
        BY <3>1, <3>2
    <2>3. \A t \in Tasks : t \in todo => \A q \in Senders : t \notin sender[q].todo
      BY <1>7, RemindersAssumption DEF RemindersInv, SendersWork
    <2>4. sender[p].todo = {}
      BY <1>2 DEF RemindersInv, SendersWork
    <2>5. ASSUME NEW t \in Tasks
          PROVE  /\ mail[t] <= 1 /\ (task[t].delivered => ~task[t].error)
                 /\ (\A q \in Senders : t \notin sender'[q].todo) => mail[t] = 0 \/ task[t].delivered
                 /\ \A q \in Senders : t \in sender'[q].todo => InStep(sender'[q], t, task[t], mail[t])
      <3>1. CASE t \in todo
        <4>1. mail[t] = 0 /\ ~task[t].delivered
          BY <2>1, <2>3, <3>1 DEF SentOnce
        <4>2. InStep(s, t, task[t], mail[t])
          BY <1>1, <4>1 DEF InStep, InHand, AtItem
        <4> QED
          BY <1>1, <1>3, <2>1, <2>3, <3>1, <4>1, <4>2 DEF SentOnce
      <3>2. CASE t \notin todo
        <4>1. \A q \in Senders : t \in sender'[q].todo <=> t \in sender[q].todo
          BY <1>1, <1>3, <2>4, <3>2
        <4>2. ASSUME NEW q \in Senders, t \in sender'[q].todo PROVE InStep(sender'[q], t, task[t], mail[t])
          <5>1. q # p
            BY <1>1, <1>3, <3>2, <4>2
          <5> QED
            BY <1>3, <2>1, <4>1, <4>2, <5>1 DEF SentOnce
        <4> QED
          BY <2>1, <4>1, <4>2 DEF SentOnce
      <3> QED
        BY <3>1, <3>2
    <2> QED
      BY <1>2, <2>2, <2>5 DEF Quietly, SentOnce
  <1> QED
    BY <1>4, <1>5, <1>6, <1>7 DEF RemindersInv

\* The requests that send.
LEMMA RequestsKeep ==
    ASSUME RemindersInv, (\E d \in Dispatchers : Dispatch(d)) \/ Announce \/ SendTest
    PROVE  RemindersInv'
  <1>1. muddled \in BOOLEAN
    BY DEF RemindersInv, RemindersTypeOK
  <1>2. ASSUME NEW d \in Dispatchers, Dispatch(d) PROVE RemindersInv'
    <2>1. PICK channels \in {{"telegram"}, Channels \cup {"other"}}, todo \in SUBSET Tasks :
             todo \subseteq DueTasks(channels) /\ Starts(d, todo)
      BY <1>2 DEF Dispatch
    <2>2. muddled' = (muddled \/ \E p \in Dispatchers : sender[p].at # "idle")
      BY <1>2 DEF Dispatch
    <2>3. muddled' \in BOOLEAN
      BY <1>1, <2>2, Zenon
    <2>4. \A t \in Tasks : t \in todo => task[t].status # "none" /\ ~task[t].delivered
      BY <2>1 DEF DueTasks
    <2>5. d \in Senders /\ todo \in SUBSET Items
      BY DEF Senders, Items
    <2> QED
      BY <2>1, <2>2, <2>3, <2>4, <2>5, StartKeeps
  <1>3. CASE Announce
    <2>1. PICK todo \in SUBSET Channels : Starts("notice", todo)
      BY <1>3, RemindersAssumption DEF Announce, Channels
    <2> QED
      BY <1>1, <1>3, <2>1, StartKeeps, RemindersAssumption DEF Announce, Senders, Items
  <1>4. CASE SendTest
    <2>1. PICK todo \in SUBSET Channels : Starts("test", todo)
      BY <1>4 DEF SendTest
    <2> QED
      BY <1>1, <1>4, <2>1, StartKeeps, RemindersAssumption DEF SendTest, Senders, Items
  <1> QED
    BY <1>2, <1>3, <1>4

Places == {"next", "send", "status", "mark", "trace", "note"}

\* A process is at the place s, and hands out nothing.
PlaceOnly(p, s) ==
    /\ s \in Sender /\ sender' = [sender EXCEPT ![p] = s]
    /\ s.todo = sender[p].todo /\ s.item = sender[p].item

\* The members of these sets, one by one: what the provers need told.
LEMMA PlacesThere ==
    /\ "next" \in Places /\ "send" \in Places /\ "status" \in Places /\ "mark" \in Places
    /\ "trace" \in Places /\ "note" \in Places /\ TRUE \in BOOLEAN /\ FALSE \in BOOLEAN
  BY DEF Places

\* Changing its place and its result, a process changes no more.
LEMMA PlaceChanges ==
    ASSUME sender \in [Senders -> Sender], NEW p \in Senders,
           NEW at \in Places, NEW ok \in BOOLEAN,
           sender' = [sender EXCEPT ![p].at = at, ![p].ok = ok]
    PROVE  \E s \in Sender : PlaceOnly(p, s) /\ s.at = at /\ s.ok = ok
  <1>1. PICK old \in Sender : old = sender[p]
    OBVIOUS
  <1> DEFINE s == [old EXCEPT !.at = at, !.ok = ok]
  <1>2. s \in Sender /\ s.at = at /\ s.ok = ok /\ s.todo = old.todo /\ s.item = old.item
    BY DEF Sender, Places
  <1>3. sender' = [sender EXCEPT ![p] = s]
    BY <1>1
  <1> QED
    BY <1>1, <1>2, <1>3 DEF PlaceOnly

\* A process that goes on has its item behind it.
LEMMA NextItem ==
    ASSUME sender \in [Senders -> Sender], NEW p \in Senders, GoOn(p)
    PROVE  \E s \in Sender : /\ sender' = [sender EXCEPT ![p] = s] /\ s.at = "next"
                             /\ s.todo = sender[p].todo \ {sender[p].item}
  <1>1. PICK old \in Sender : old = sender[p]
    OBVIOUS
  <1> DEFINE s == [at |-> "next", todo |-> old.todo \ {old.item}, item |-> "none", ok |-> FALSE]
  <1>2. s \in Sender
    BY DEF Sender
  <1>3. sender' = [sender EXCEPT ![p] = s]
    BY <1>1 DEF GoOn
  <1> QED
    BY <1>1, <1>2, <1>3

\* The steps before the message of the item: taking it, and having none.
LEMMA TakeItemKeeps ==
    ASSUME RemindersInv, NEW p \in Senders, TakeItem(p) \/ Finished(p)
    PROVE  RemindersInv'
  <1>1. RemindersTypeOK
    BY DEF RemindersInv
  <1>2. PICK old \in Sender : old = sender[p]
    BY <1>1 DEF RemindersTypeOK
  <1>3. /\ UNCHANGED <<edit, enabled, health, made, sendFaults, mail, refused, muddled>>
        /\ old.at = "next"
    BY <1>2 DEF TakeItem, Finished
  <1>4. \A t \in Tasks : mail[t] \in Nat
    BY <1>1 DEF RemindersTypeOK
  <1>5. \A t \in Tasks : t \in old.todo /\ ~muddled => mail[t] = 0 /\ ~task[t].delivered
    BY <1>2, <1>3 DEF RemindersInv, Quietly, SentOnce, InStep, InHand, AtItem
  <1>6. CASE Finished(p)
    <2>1. UNCHANGED task /\ sender' = [sender EXCEPT ![p] = Unemployed] /\ old.todo = {}
      BY <1>2, <1>6 DEF Finished
    <2>2. RemindersTypeOK'
      BY <1>1, <1>3, <2>1, NothingToSend, OneMoves DEF RemindersTypeOK
    <2>3. SendersWork' /\ EditsFound'
      BY <1>2, <1>3, <2>1, NothingToSend, WorkGoesOn DEF TaskStays
    <2>4. OwnTasks(p)
      BY <1>3, <1>4, <2>1 DEF OwnTasks, TaskStays
    <2>5. HonestStep(p, Unemployed) /\ StepOnce(p, Unemployed)
      BY <1>2, <2>1 DEF HonestStep, StepOnce
    <2> QED
      BY <1>2, <1>3, <2>1, <2>2, <2>3, <2>4, <2>5, NothingToSend, ProcessMoves
  <1>7. ASSUME NEW item \in old.todo, ChannelOf(item) = "other",
               task' = [task EXCEPT ![item].error = TRUE],
               sender' = [sender EXCEPT ![p].todo = @ \ {item}]
        PROVE  RemindersInv'
    <2>1. PICK s \in Sender : sender' = [sender EXCEPT ![p] = s] /\ s.at = "next" /\ s.todo = old.todo \ {item}
      <3> DEFINE s == [old EXCEPT !.todo = @ \ {item}]
      <3>1. s \in Sender /\ s.at = "next" /\ s.todo = old.todo \ {item}
        BY <1>3 DEF Sender
      <3>2. sender' = [sender EXCEPT ![p] = s]
        BY <1>2, <1>7
      <3> QED
        BY <3>1, <3>2
    <2>2. item \in Tasks
      BY <1>2, <1>7, RemindersAssumption DEF RemindersInv, SendersWork, ChannelOf, Channels
    <2>3. PICK r \in Task : /\ task' = [task EXCEPT ![item] = r]
                            /\ r.status = task[item].status /\ r.channel = task[item].channel
                            /\ r.delivered = task[item].delivered
      <3>1. PICK was \in Task : was = task[item]
        BY <1>1, <2>2 DEF RemindersTypeOK
      <3> DEFINE r == [was EXCEPT !.error = TRUE]
      <3>2. r \in Task /\ r.status = was.status /\ r.channel = was.channel /\ r.delivered = was.delivered
        BY DEF Task
      <3> QED
        BY <1>7, <3>1, <3>2
    <2>4. task' \in [Tasks -> Task] /\ task'[item] = r /\ \A t \in Tasks : t # item => task'[t] = task[t]
      BY <1>1, <2>2, <2>3 DEF RemindersTypeOK
    <2>5. RemindersTypeOK'
      BY <1>1, <1>3, <2>1, <2>4, OneMoves DEF RemindersTypeOK
    <2>6. task[item].status # "none"
      BY <1>2, <1>7, <2>2 DEF RemindersInv, SendersWork
    <2>7. \A t \in Tasks : TaskStays(t)
      BY <2>3, <2>4, <2>6 DEF TaskStays
    <2>8. SendersWork' /\ EditsFound'
      BY <1>2, <1>3, <2>1, <2>7, WorkGoesOn
    <2>9. ~InHand(s, item) /\ \A t \in Tasks : ~InHand(s, t)
      BY <2>1 DEF InHand, AtItem
    <2>10. \A t \in Tasks : task[t].delivered => mail[t] > 0 \/ t \in refused
      BY DEF RemindersInv, Accounted
    <2>11. \A t \in Tasks : task'[t].delivered <=> task[t].delivered
      BY <2>3, <2>4
    <2>12. \A t \in Tasks : t \in old.todo /\ ~muddled => InStep(s, t, task'[t], mail'[t])
      BY <1>3, <1>5, <2>9, <2>11 DEF InStep
    <2>13. OwnTasks(p)
      BY <1>2, <1>3, <1>4, <2>4, <2>7 DEF OwnTasks
    <2>14. HonestStep(p, s)
      BY <1>3, <2>9, <2>10, <2>11 DEF HonestStep
    <2>15. StepOnce(p, s)
      BY <1>2, <1>3, <1>5, <2>11, <2>12 DEF StepOnce
    <2> QED
      BY <1>2, <1>3, <2>1, <2>5, <2>8, <2>13, <2>14, <2>15, ProcessMoves
  <1>8. ASSUME NEW item \in old.todo, ChannelOf(item) # "other",
               sender' = [sender EXCEPT ![p].at = "send", ![p].item = item], UNCHANGED task
        PROVE  RemindersInv'
    <2>1. PICK s \in Sender : /\ sender' = [sender EXCEPT ![p] = s] /\ s.at = "send" /\ s.todo = old.todo
                              /\ s.item = item
      <3>1. item \in Items
        BY DEF Sender
      <3> DEFINE s == [old EXCEPT !.at = "send", !.item = item]
      <3>2. s \in Sender /\ s.at = "send" /\ s.todo = old.todo /\ s.item = item
        BY <3>1 DEF Sender
      <3>3. sender' = [sender EXCEPT ![p] = s]
        BY <1>2, <1>8
      <3> QED
        BY <3>2, <3>3
    <2>2. RemindersTypeOK'
      BY <1>1, <1>3, <1>8, <2>1, OneMoves DEF RemindersTypeOK
    <2>3. ChannelOf(item) \in Channels
      <3>1. CASE item \in Tasks
        <4>1. task[item].channel \in Channels \cup {"other", "none"}
          BY <1>1, <3>1 DEF RemindersTypeOK, Task
        <4>2. task[item].channel # "none"
          BY <1>2, <1>8, <3>1 DEF RemindersInv, SendersWork, Uncreated
        <4> QED
          BY <1>8, <3>1, <4>1, <4>2 DEF ChannelOf
      <3>2. CASE item \notin Tasks
        BY <1>2, <1>8, <3>2 DEF RemindersInv, SendersWork, ChannelOf
      <3> QED
        BY <3>1, <3>2
    <2>4. \A t \in Tasks : TaskStays(t)
      BY <1>8 DEF TaskStays
    <2>5. SendersWork' /\ EditsFound'
      BY <1>2, <1>3, <2>1, <2>3, <2>4, WorkGoesOn
    <2>6. ~HasSent(s)
      BY <2>1 DEF HasSent
    <2>7. \A t \in Tasks : task[t].delivered => mail[t] > 0 \/ t \in refused
      BY DEF RemindersInv, Accounted
    <2>8. \A t \in Tasks : t \in old.todo /\ ~muddled => InStep(s, t, task'[t], mail'[t])
      BY <1>3, <1>5, <1>8, <2>1 DEF InStep
    <2>9. OwnTasks(p)
      BY <1>3, <1>4, <1>8, <2>4 DEF OwnTasks
    <2>10. HonestStep(p, s)
      BY <1>3, <1>8, <2>6, <2>7 DEF HonestStep
    <2>11. StepOnce(p, s)
      BY <1>2, <1>3, <1>5, <1>8, <2>1, <2>8 DEF StepOnce
    <2> QED
      BY <1>2, <1>3, <2>1, <2>2, <2>5, <2>9, <2>10, <2>11, ProcessMoves
  <1> QED
    BY <1>2, <1>6, <1>7, <1>8 DEF TakeItem

\* What the steps that change only a place need to know.
LEMMA OnlyPlace ==
    ASSUME RemindersInv, UNCHANGED <<task, edit, refused>>, muddled => muddled', muddled' \in BOOLEAN,
           RemindersTypeOK', NEW p \in Senders, NEW s, PlaceOnly(p, s), AtItem(sender[p]), s.at # "idle",
           s.at = "status" => ChannelOf(s.item) \in Outbound, mail' = mail,
           HasSent(s) => HasSent(sender[p]),
           ~muddled' => /\ s.at # "trace" /\ sender[p].at # "trace"
                        /\ s.at # "next"
                        /\ HasSent(sender[p]) => HasSent(s)
    PROVE  RemindersInv'
  <1>1. /\ s \in Sender /\ sender' = [sender EXCEPT ![p] = s]
        /\ s.todo = sender[p].todo /\ s.item = sender[p].item
    BY DEF PlaceOnly
  <1>2. s.item \in s.todo /\ ChannelOf(s.item) \in Channels
    BY <1>1 DEF RemindersInv, SendersWork
  <1>3. \A t \in Tasks : TaskStays(t)
    BY DEF TaskStays
  <1>4. SendersWork' /\ EditsFound'
    BY <1>1, <1>2, <1>3, WorkGoesOn
  <1>5. OwnTasks(p)
    BY <1>3 DEF OwnTasks, RemindersInv, RemindersTypeOK
  <1>6. HonestStep(p, s)
    BY <1>1 DEF HonestStep, RemindersInv, Accounted, InHand
  <1>7. StepOnce(p, s)
    BY <1>1 DEF StepOnce, RemindersInv, Quietly, SentOnce, InStep, InHand, AtItem
  <1> QED
    BY <1>1, <1>4, <1>5, <1>6, <1>7, ProcessMoves DEF AtItem

\* A process goes on from an item: its task was marked, or got an error, or had neither.
LEMMA PassOn ==
    ASSUME RemindersInv, RemindersTypeOK', UNCHANGED <<edit, mail, refused, muddled>>,
           NEW p \in Senders, AtItem(sender[p]), GoOn(p),
           \A t \in Tasks : /\ task'[t].status = task[t].status /\ task'[t].channel = task[t].channel
                            /\ task'[t].delivered = task[t].delivered
                            /\ t # sender[p].item \/ sender[p].at # "note" => task'[t] = task[t],
           sender[p].item \in Tasks => sender[p].at \in {"trace", "note"}
    PROVE  RemindersInv'
  <1>1. PICK s \in Sender : /\ sender' = [sender EXCEPT ![p] = s] /\ s.at = "next"
                            /\ s.todo = sender[p].todo \ {sender[p].item}
    BY NextItem DEF RemindersInv, RemindersTypeOK
  <1>2. ~AtItem(s)
    BY <1>1 DEF AtItem
  <1>3. \A t \in Tasks : t \in sender[p].todo => task[t].status # "none"
    BY DEF RemindersInv, SendersWork
  <1>4. sender[p].item \in sender[p].todo
    BY DEF RemindersInv, SendersWork
  <1>5. \A t \in Tasks : TaskStays(t)
    BY <1>3, <1>4 DEF TaskStays
  <1>6. SendersWork' /\ EditsFound'
    BY <1>1, <1>5, WorkGoesOn
  <1>7. OwnTasks(p)
    BY <1>4, <1>5 DEF OwnTasks, RemindersInv, RemindersTypeOK
  <1>8. HonestStep(p, s)
    BY <1>2 DEF HonestStep, RemindersInv, Accounted, InHand
  <1>9. StepOnce(p, s)
    <2> SUFFICES ASSUME ~muddled, NEW t \in Tasks, t \in sender[p].todo
                 PROVE  /\ mail[t] <= 1
                        /\ task'[t].delivered => ~task'[t].error
                        /\ t \notin s.todo => mail[t] = 0 \/ task'[t].delivered
                        /\ t \in s.todo => InStep(s, t, task'[t], mail[t])
      BY DEF StepOnce
    <2>1. InStep(sender[p], t, task[t], mail[t]) /\ mail[t] <= 1 /\ (task[t].delivered => ~task[t].error)
      BY DEF RemindersInv, Quietly, SentOnce
    <2>2. CASE t = sender[p].item
      BY <1>1, <2>1, <2>2 DEF InStep, InHand, HasSent
    <2>3. CASE t # sender[p].item
      BY <1>1, <1>2, <2>1, <2>3 DEF InStep, InHand
    <2> QED
      BY <2>2, <2>3
  <1> QED
    BY <1>1, <1>6, <1>7, <1>8, <1>9, ProcessMoves DEF AtItem

\* The message goes out: the task has it, and the process is about to mark it.
LEMMA GoesOutKeeps ==
    ASSUME RemindersInv, RemindersTypeOK', UNCHANGED <<task, edit, refused, muddled>>,
           NEW p \in Senders, NEW s, PlaceOnly(p, s), sender[p].at = "send", GoesOut(sender[p].item),
           HasSent(s), s.at # "idle", s.at = "status" => ChannelOf(s.item) \in Outbound
    PROVE  RemindersInv'
  <1>1. /\ s \in Sender /\ sender' = [sender EXCEPT ![p] = s]
        /\ s.todo = sender[p].todo /\ s.item = sender[p].item
    BY DEF PlaceOnly
  <1>2. s.item \in s.todo /\ ChannelOf(s.item) \in Channels /\ AtItem(s) /\ s.at # "trace"
    BY <1>1 DEF RemindersInv, SendersWork, AtItem, HasSent
  <1>3. \A t \in Tasks : TaskStays(t)
    BY DEF TaskStays
  <1>4. SendersWork' /\ EditsFound'
    BY <1>1, <1>2, <1>3, WorkGoesOn
  <1>5. \A t \in Tasks : mail[t] \in Nat /\ mail'[t] = IF t = s.item THEN mail[t] + 1 ELSE mail[t]
    BY <1>1 DEF GoesOut, RemindersInv, RemindersTypeOK
  <1>6. OwnTasks(p)
    BY <1>1, <1>2, <1>3, <1>5 DEF OwnTasks
  <1>7. HonestStep(p, s)
    BY <1>5 DEF HonestStep, RemindersInv, Accounted, InHand
  <1>8. StepOnce(p, s)
    <2> SUFFICES ASSUME ~muddled, NEW t \in Tasks, t \in sender[p].todo
                 PROVE  /\ mail'[t] <= 1
                        /\ task[t].delivered => ~task[t].error
                        /\ t \notin s.todo => mail'[t] = 0 \/ task[t].delivered
                        /\ t \in s.todo => InStep(s, t, task[t], mail'[t])
      BY DEF StepOnce
    <2>1. mail[t] = 0 /\ ~task[t].delivered
      BY DEF RemindersInv, Quietly, SentOnce, InStep, InHand, HasSent
    <2> QED
      BY <1>1, <1>2, <1>5, <2>1 DEF InStep, InHand
  <1> QED
    BY <1>1, <1>4, <1>6, <1>7, <1>8, ProcessMoves

\* Telegram is not to be given the message: the task is noted, and marked all the same.
LEMMA RefusedKeeps ==
    ASSUME RemindersInv, RemindersTypeOK', UNCHANGED <<task, edit, mail, muddled>>,
           NEW p \in Senders, NEW s, PlaceOnly(p, s), sender[p].at = "send",
           refused' = refused \cup {sender[p].item}, s.at = "mark"
    PROVE  RemindersInv'
  <1>1. /\ s \in Sender /\ sender' = [sender EXCEPT ![p] = s]
        /\ s.todo = sender[p].todo /\ s.item = sender[p].item
    BY DEF PlaceOnly
  <1>2. s.item \in s.todo /\ ChannelOf(s.item) \in Channels /\ AtItem(s)
    BY <1>1 DEF RemindersInv, SendersWork, AtItem
  <1>3. \A t \in Tasks : TaskStays(t)
    BY DEF TaskStays
  <1>4. SendersWork' /\ EditsFound'
    BY <1>1, <1>2, <1>3, WorkGoesOn
  <1>5. OwnTasks(p)
    BY <1>3 DEF OwnTasks, RemindersInv, RemindersTypeOK
  <1>6. HonestStep(p, s)
    BY <1>1 DEF HonestStep, RemindersInv, Accounted, InHand
  <1>7. StepOnce(p, s)
    BY <1>1 DEF StepOnce, RemindersInv, Quietly, SentOnce, InStep, InHand, HasSent
  <1> QED
    BY <1>1, <1>4, <1>5, <1>6, <1>7, ProcessMoves

\* Sending, and what it leaves of the channel's row.
LEMMA SendKeeps ==
    ASSUME RemindersInv, NEW p \in Senders,
           SendByTelegram(p) \/ SendOutbound(p) \/ SendThrows(p)
    PROVE  RemindersInv'
  <1> DEFINE item == sender[p].item
  <1>1. RemindersTypeOK /\ sender \in [Senders -> Sender] /\ muddled \in BOOLEAN
    BY DEF RemindersInv, RemindersTypeOK
  <1>2. /\ sender[p].at = "send" /\ AtItem(sender[p]) /\ ~HasSent(sender[p])
        /\ UNCHANGED <<task, edit, enabled, health, made, muddled>>
    BY DEF SendByTelegram, SendOutbound, SendThrows, AtItem, HasSent
  <1>3. PICK s \in Sender : PlaceOnly(p, s) /\ s.at \in {"mark", "status", "note"}
                            /\ (s.at = "status" => ChannelOf(item) \in Outbound)
                            /\ \/ HasSent(s) /\ GoesOut(item) /\ UNCHANGED <<refused, sendFaults>>
                               \/ /\ s.at = "mark" /\ item \in Tasks /\ refused' = refused \cup {item}
                                  /\ UNCHANGED <<mail, sendFaults>>
                               \/ /\ ~HasSent(s) /\ UNCHANGED <<mail, refused>>
                                  /\ sendFaults' \in {sendFaults, sendFaults + 1}
                                  /\ sendFaults' # sendFaults => sendFaults < MaxSendFaults
    <2>1. CASE SendByTelegram(p)
      <3>1. CASE sender' = [sender EXCEPT ![p].at = "mark", ![p].ok = TRUE]
        <4>1. PICK s \in Sender : PlaceOnly(p, s) /\ s.at = "mark" /\ s.ok = TRUE
          BY <1>1, <3>1, PlaceChanges, PlacesThere
        <4>2. \/ GoesOut(item) /\ UNCHANGED <<refused, sendFaults>>
              \/ item \in Tasks /\ refused' = refused \cup {item} /\ UNCHANGED <<mail, sendFaults>>
              \/ sender' = [sender EXCEPT ![p].at = "note"]
          BY <2>1 DEF SendByTelegram
        <4>3. sender' # [sender EXCEPT ![p].at = "note"]
          BY <1>1, <3>1 DEF Sender
        <4> QED
          BY <4>1, <4>2, <4>3 DEF HasSent
      <3>2. CASE sender' = [sender EXCEPT ![p].at = "note"] /\ UNCHANGED <<mail, refused, sendFaults>>
        <4>1. PICK ok \in BOOLEAN : ok = sender[p].ok
          BY <1>1 DEF Sender
        <4>2. sender' = [sender EXCEPT ![p].at = "note", ![p].ok = ok]
          BY <1>1, <3>2, <4>1 DEF Sender
        <4>3. "note" \in Places
          BY DEF Places
        <4>4. PICK s \in Sender : PlaceOnly(p, s) /\ s.at = "note" /\ s.ok = ok
          BY <1>1, <4>2, <4>3, PlaceChanges, ZenonT(60)
        <4> QED
          BY <3>2, <4>4 DEF HasSent
      <3> QED
        BY <2>1, <3>1, <3>2 DEF SendByTelegram
    <2>2. CASE SendOutbound(p)
      <3>1. CASE GoesOut(item) /\ sender' = [sender EXCEPT ![p].at = "status", ![p].ok = TRUE]
        <4>1. PICK s \in Sender : PlaceOnly(p, s) /\ s.at = "status" /\ s.ok = TRUE
          BY <1>1, <3>1, PlaceChanges, PlacesThere
        <4> QED
          BY <2>2, <3>1, <4>1 DEF SendOutbound, HasSent
      <3>2. CASE mail' = mail /\ sender' = [sender EXCEPT ![p].at = "note", ![p].ok = FALSE]
        <4>1. PICK s \in Sender : PlaceOnly(p, s) /\ s.at = "note" /\ s.ok = FALSE
          BY <1>1, <3>2, PlaceChanges, PlacesThere
        <4> QED
          BY <2>2, <3>2, <4>1 DEF SendOutbound, HasSent
      <3> QED
        BY <2>2, <3>1, <3>2 DEF SendOutbound
    <2>3. CASE SendThrows(p)
      <3>1. PICK at \in {"status", "note"} : /\ sender' = [sender EXCEPT ![p].at = at, ![p].ok = FALSE]
                                             /\ at = "status" => ChannelOf(item) \in Outbound
        BY <2>3 DEF SendThrows
      <3>2. at \in Places
        BY DEF Places
      <3>3. PICK s \in Sender : PlaceOnly(p, s) /\ s.at = at /\ s.ok = FALSE
        BY <1>1, <3>1, <3>2, PlaceChanges
      <3> QED
        BY <2>3, <3>1, <3>3 DEF SendThrows, HasSent
    <2> QED
      BY <2>1, <2>2, <2>3
  <1>4. item \in sender[p].todo /\ s.item = item
    BY <1>2, <1>3 DEF RemindersInv, SendersWork, PlaceOnly
  <1>5. RemindersTypeOK'
    <2>1. sender' \in [Senders -> Sender]
      BY <1>1, <1>3 DEF PlaceOnly
    <2>2. mail' \in [Tasks -> Nat]
      BY <1>1, <1>3 DEF GoesOut, RemindersTypeOK
    <2>3. refused' \subseteq Tasks
      BY <1>1, <1>3 DEF RemindersTypeOK
    <2>4. sendFaults' \in 0 .. MaxSendFaults
      BY <1>1, <1>3, RemindersAssumption DEF RemindersTypeOK
    <2> QED
      BY <1>1, <1>2, <2>1, <2>2, <2>3, <2>4 DEF RemindersTypeOK
  <1>6. CASE HasSent(s) /\ GoesOut(item) /\ UNCHANGED refused
    BY <1>2, <1>3, <1>4, <1>5, <1>6, GoesOutKeeps
  <1>7. CASE s.at = "mark" /\ refused' = refused \cup {item} /\ UNCHANGED mail
    BY <1>2, <1>3, <1>4, <1>5, <1>7, RefusedKeeps
  <1>8. CASE ~HasSent(s) /\ UNCHANGED <<mail, refused>>
    BY <1>1, <1>2, <1>3, <1>4, <1>5, <1>8, OnlyPlace
  <1> QED
    BY <1>3, <1>6, <1>7, <1>8

\* The channel's row is told, or a write throws.
LEMMA StatusKeeps ==
    ASSUME RemindersInv, NEW p \in Senders, RecordStatus(p) \/ StatusThrows(p) \/ MarkThrows(p)
    PROVE  RemindersInv'
  <1>1. RemindersTypeOK /\ sender \in [Senders -> Sender] /\ muddled \in BOOLEAN
    BY DEF RemindersInv, RemindersTypeOK
  <1>2. /\ AtItem(sender[p]) /\ UNCHANGED <<task, edit, enabled, made, mail, refused>>
        /\ muddled' = muddled \/ muddled' = TRUE
    BY DEF RecordStatus, StatusThrows, MarkThrows, AtItem
  <1>3. PICK s \in Sender : /\ PlaceOnly(p, s) /\ s.at \in {"mark", "status", "note"}
                            /\ s.at = "status" => sender[p].at = "status"
                            /\ HasSent(s) => HasSent(sender[p])
                            /\ ~muddled' => sender[p].at # "trace" /\ (HasSent(sender[p]) => HasSent(s))
    <2>1. CASE RecordStatus(p)
      <3>1. PICK at \in {"mark", "note"}, ok \in BOOLEAN :
               at = (IF sender[p].ok THEN "mark" ELSE "note") /\ ok = sender[p].ok
        BY <1>1 DEF Sender
      <3>2. sender' = [sender EXCEPT ![p].at = at, ![p].ok = ok]
        BY <1>1, <2>1, <3>1 DEF RecordStatus, Sender
      <3>3. at \in Places
        BY DEF Places
      <3>4. PICK s \in Sender : PlaceOnly(p, s) /\ s.at = at /\ s.ok = ok
        BY <1>1, <3>2, <3>3, PlaceChanges, ZenonT(60)
      <3> QED
        BY <2>1, <3>1, <3>4 DEF RecordStatus, HasSent
    <2>2. CASE StatusThrows(p)
      <3>1. sender' = [sender EXCEPT ![p].at = "status", ![p].ok = FALSE]
        BY <1>1, <2>2 DEF StatusThrows, Sender
      <3>2. PICK s \in Sender : PlaceOnly(p, s) /\ s.at = "status" /\ s.ok = FALSE
        BY <1>1, <3>1, PlaceChanges, PlacesThere
      <3> QED
        BY <2>2, <3>2 DEF StatusThrows, HasSent
    <2>3. CASE MarkThrows(p)
      <3>1. PICK ok \in BOOLEAN : ok = sender[p].ok
        BY <1>1 DEF Sender
      <3>2. sender' = [sender EXCEPT ![p].at = "note", ![p].ok = ok]
        BY <1>1, <2>3, <3>1 DEF MarkThrows, Sender
      <3>3. "note" \in Places
        BY DEF Places
      <3>4. PICK s \in Sender : PlaceOnly(p, s) /\ s.at = "note" /\ s.ok = ok
        BY <1>1, <3>2, <3>3, PlaceChanges, ZenonT(60)
      <3> QED
        BY <2>3, <3>4 DEF MarkThrows, HasSent
    <2> QED
      BY <2>1, <2>2, <2>3
  <1>4. s.at = "status" => ChannelOf(s.item) \in Outbound
    BY <1>3 DEF RemindersInv, SendersWork, PlaceOnly
  <1>5. RemindersTypeOK'
    <2>1. sender' \in [Senders -> Sender]
      BY <1>1, <1>3 DEF PlaceOnly
    <2>2. health' \in [Outbound -> {"ok", "degraded", "not_configured"}]
      BY <1>1 DEF RecordStatus, StatusThrows, MarkThrows, RemindersTypeOK, RemindersInv, SendersWork
    <2>3. sendFaults' \in 0 .. MaxSendFaults
      BY <1>1, RemindersAssumption DEF RecordStatus, StatusThrows, MarkThrows, RemindersTypeOK
    <2> QED
      BY <1>1, <1>2, <2>1, <2>2, <2>3 DEF RemindersTypeOK
  <1>6. muddled' \in BOOLEAN /\ (muddled => muddled')
    <2>1. CASE muddled' = muddled
      BY <1>1, <2>1, Zenon
    <2>2. CASE muddled' = TRUE
      BY <2>2, Zenon
    <2> QED
      BY <1>2, <2>1, <2>2
  <1>7. s.at \notin {"idle", "next", "trace"}
    BY <1>3
  <1> QED
    BY <1>2, <1>3, <1>4, <1>5, <1>6, <1>7, OnlyPlace

\* Marking a reminder that is out, or for which Telegram was not to be given anything.
LEMMA MarkKeeps ==
    ASSUME RemindersInv, NEW p \in Senders, MarkDelivered(p)
    PROVE  RemindersInv'
  <1> DEFINE item == sender[p].item
  <1>1. RemindersTypeOK /\ sender \in [Senders -> Sender]
    BY DEF RemindersInv, RemindersTypeOK
  <1>2. /\ sender[p].at = "mark" /\ AtItem(sender[p]) /\ HasSent(sender[p])
        /\ UNCHANGED <<edit, enabled, health, made, sendFaults, mail, refused, muddled>>
    BY DEF MarkDelivered, AtItem, HasSent
  <1>3. item \in sender[p].todo /\ ChannelOf(item) \in Channels
    BY <1>2 DEF RemindersInv, SendersWork
  <1>4. CASE item \notin Tasks
    <2>1. GoOn(p) /\ task' = task
      BY <1>4 DEF MarkDelivered
    <2>2. RemindersTypeOK'
      BY <1>1, <1>2, <2>1, NextItem DEF RemindersTypeOK
    <2> QED
      BY <1>2, <1>4, <2>1, <2>2, PassOn
  <1>5. CASE item \in Tasks
    <2>1. PICK r \in Task : /\ task' = [task EXCEPT ![item] = r]
                            /\ r.status = task[item].status /\ r.channel = task[item].channel
                            /\ r.delivered = TRUE /\ r.error = FALSE
      <3>1. PICK was \in Task : was = task[item]
        BY <1>1, <1>5 DEF RemindersTypeOK
      <3> DEFINE r == [was EXCEPT !.delivered = TRUE, !.error = FALSE]
      <3>2. /\ r \in Task /\ r.status = was.status /\ r.channel = was.channel
            /\ r.delivered = TRUE /\ r.error = FALSE
        BY DEF Task
      <3>3. task' = [task EXCEPT ![item] = r]
        BY <1>1, <1>5, <3>1 DEF MarkDelivered, RemindersTypeOK
      <3> QED
        BY <3>1, <3>2, <3>3
    <2>2. PICK s \in Sender : PlaceOnly(p, s) /\ s.at = "trace"
      <3>1. PICK old \in Sender : old = sender[p]
        BY <1>1
      <3> DEFINE s == [old EXCEPT !.at = "trace"]
      <3>2. s \in Sender /\ s.at = "trace" /\ s.todo = old.todo /\ s.item = old.item
        BY DEF Sender
      <3>3. sender' = [sender EXCEPT ![p] = s]
        BY <1>5, <3>1 DEF MarkDelivered
      <3> QED
        BY <3>1, <3>2, <3>3 DEF PlaceOnly
    <2>3. task' \in [Tasks -> Task] /\ task'[item] = r /\ \A t \in Tasks : t # item => task'[t] = task[t]
      BY <1>1, <1>5, <2>1 DEF RemindersTypeOK
    <2>4. /\ sender' = [sender EXCEPT ![p] = s] /\ sender' \in [Senders -> Sender]
          /\ s.todo = sender[p].todo /\ s.item = item
      BY <1>1, <2>2 DEF PlaceOnly
    <2>5. RemindersTypeOK'
      BY <1>1, <1>2, <2>3, <2>4 DEF RemindersTypeOK
    <2>6. task[item].status # "none"
      BY <1>3, <1>5 DEF RemindersInv, SendersWork
    <2>7. \A t \in Tasks : TaskStays(t)
      BY <2>1, <2>3, <2>6 DEF TaskStays
    <2>8. SendersWork' /\ EditsFound'
      BY <1>2, <1>3, <2>2, <2>4, <2>7, WorkGoesOn
    <2>9. OwnTasks(p)
      BY <1>1, <1>2, <1>3, <2>3, <2>7 DEF OwnTasks, RemindersTypeOK
    <2>10. HonestStep(p, s)
      <3>1. mail[item] > 0 \/ item \in refused
        BY <1>2, <1>5 DEF RemindersInv, Accounted, InHand
      <3> QED
        BY <1>2, <2>2, <2>3, <3>1 DEF HonestStep, RemindersInv, Accounted, HasSent
    <2>11. StepOnce(p, s)
      <3> SUFFICES ASSUME ~muddled, NEW t \in Tasks, t \in sender[p].todo
                   PROVE  /\ mail[t] <= 1
                          /\ task'[t].delivered => ~task'[t].error
                          /\ InStep(s, t, task'[t], mail[t])
        BY <1>2, <2>4 DEF StepOnce
      <3>1. InStep(sender[p], t, task[t], mail[t]) /\ mail[t] <= 1 /\ (task[t].delivered => ~task[t].error)
        BY DEF RemindersInv, Quietly, SentOnce
      <3>2. CASE t = item
        BY <1>2, <2>1, <2>2, <2>3, <2>4, <3>1, <3>2 DEF InStep, InHand, AtItem
      <3>3. CASE t # item
        BY <2>3, <2>4, <3>1, <3>3 DEF InStep, InHand
      <3> QED
        BY <3>2, <3>3
    <2> QED
      BY <1>2, <2>2, <2>4, <2>5, <2>8, <2>9, <2>10, <2>11, ProcessMoves
  <1> QED
    BY <1>4, <1>5

\* The end of an item, and of a process.
LEMMA EndItemKeeps ==
    ASSUME RemindersInv, NEW p \in Senders, TraceDelivery(p) \/ NoteError(p) \/ Abandon(p)
    PROVE  RemindersInv'
  <1> DEFINE item == sender[p].item
  <1>1. RemindersTypeOK /\ sender \in [Senders -> Sender]
    BY DEF RemindersInv, RemindersTypeOK
  <1>2. CASE TraceDelivery(p)
    <2>1. RemindersTypeOK'
      BY <1>1, <1>2, NextItem DEF TraceDelivery, RemindersTypeOK
    <2> QED
      BY <1>2, <2>1, PassOn DEF TraceDelivery, AtItem
  <1>3. CASE NoteError(p)
    <2>1. /\ task' \in [Tasks -> Task] /\ \A t \in Tasks : t # item => task'[t] = task[t]
          /\ item \in Tasks => \E r \in Task :
                /\ task'[item] = r /\ r.status = task[item].status /\ r.channel = task[item].channel
                /\ r.delivered = task[item].delivered
      <3>1. CASE item \in Tasks
        <4>1. PICK was \in Task : was = task[item]
          BY <1>1, <3>1 DEF RemindersTypeOK
        <4> DEFINE r == [was EXCEPT !.error = TRUE]
        <4>2. r \in Task /\ r.status = was.status /\ r.channel = was.channel /\ r.delivered = was.delivered
          BY DEF Task
        <4>3. task' = [task EXCEPT ![item] = r]
          BY <1>1, <1>3, <3>1, <4>1 DEF NoteError, RemindersTypeOK
        <4> HIDE DEF r
        <4> QED
          BY <1>1, <3>1, <4>1, <4>2, <4>3 DEF RemindersTypeOK
      <3>2. CASE item \notin Tasks
        BY <1>1, <1>3, <3>2 DEF NoteError, RemindersTypeOK
      <3> QED
        BY <3>1, <3>2
    <2>2. RemindersTypeOK'
      BY <1>1, <1>3, <2>1, NextItem DEF NoteError, RemindersTypeOK
    <2> QED
      BY <1>3, <2>1, <2>2, PassOn DEF NoteError, AtItem
  <1>4. CASE Abandon(p)
    <2>1. /\ sender' = [sender EXCEPT ![p] = Unemployed] /\ muddled' = TRUE /\ sender[p].at # "idle"
          /\ UNCHANGED <<task, edit, enabled, health, made, mail, refused>>
      BY <1>4 DEF Abandon
    <2>2. RemindersTypeOK'
      BY <1>1, <1>4, <2>1, NothingToSend, OneMoves, RemindersAssumption DEF Abandon, RemindersTypeOK
    <2>3. SendersWork' /\ EditsFound'
      BY <2>1, NothingToSend, WorkGoesOn DEF TaskStays
    <2>4. OwnTasks(p)
      BY <2>1 DEF OwnTasks, TaskStays, RemindersInv, RemindersTypeOK
    <2>5. HonestStep(p, Unemployed)
      BY <2>1, NothingToSend DEF HonestStep, RemindersInv, Accounted, InHand, AtItem
    <2>6. StepOnce(p, Unemployed)
      BY <2>1 DEF StepOnce
    <2> QED
      BY <2>1, <2>2, <2>3, <2>4, <2>5, <2>6, NothingToSend, ProcessMoves
  <1> QED
    BY <1>2, <1>3, <1>4

\* Every step of reminders keeps the invariant.
LEMMA RemindersKept == RemindersInv /\ [RemindersNext]_reminderVars => RemindersInv'
  <1> SUFFICES ASSUME RemindersInv, [RemindersNext]_reminderVars PROVE RemindersInv'
    OBVIOUS
  <1>1. CASE UNCHANGED reminderVars
    BY <1>1 DEF reminderVars, RemindersInv, RemindersTypeOK, SendersWork, EditsFound, Uncreated, Accounted,
                Quietly, OneDispatch, SentOnce, ChannelOf
  <1>2. ASSUME NEW p \in Senders, SendStep(p) PROVE RemindersInv'
    BY <1>2, TakeItemKeeps, SendKeeps, StatusKeeps, MarkKeeps, EndItemKeeps DEF SendStep
  <1> QED
    BY <1>1, <1>2, TasksKeep, RequestsKeep, SendKeeps, StatusKeeps, EndItemKeeps DEF RemindersNext

\* Tasks tell of their reminders what happened (deliverReminder and handleSendResult), for any number
\* of tasks, requests, edits and channels: delivered is said of what went out, or of what Telegram was
\* not to be given; and without overlaps and failures it goes out once and leaves no error.
THEOREM RemindersTell == RemindersSpec => [](RemindersTypeOK /\ RemindersHonest)
  <1>1. RemindersInv => RemindersTypeOK /\ RemindersHonest
    BY DEF RemindersInv, Accounted, Quietly, SentOnce, RemindersHonest
  <1> QED
    BY RemindersInitial, RemindersKept, <1>1, PTL DEF RemindersSpec

-----------------------------------------------------------------------------
(* The memory. *)

MemoryKinds ==
    /\ said \in [Messages -> Content]
    /\ queue \subseteq Messages
    /\ entry \in [Entries -> Entry]
    /\ specialist \in Specialist
    /\ curator \in [Curators -> Curator]

\* What is to be enqueued and what is worked on are jobs of messages.
JobsAreNamed ==
    /\ \A c \in Curators : curator[c].at = "enqueue" => curator[c].message \in Messages
    /\ specialist.at # "idle" => specialist.message \in Messages

\* The worker is the only one that gives an entry its fact: one that its look-up did not find is
\* still not there when its turn comes.
StillUnknown ==
    specialist.at \in {"write", "link"} =>
        \A f \in specialist.todo : specialist.found[f] = 0 => \A e \in Entries : Live(e) => entry[e].key # f

MemoryInv == MemoryKinds /\ JobsAreNamed /\ StillUnknown /\ OneEntryPerFact

\* The records that stand for nothing.
LEMMA EmptyRecords ==
    /\ NoEntry \in Entry /\ NoEntry.key = "none"
    /\ AtRest \in Specialist /\ AtRest.at = "idle"
    /\ Away \in Curator /\ Away.at = "idle"
    /\ Silence \in Content
  <1>1. NoEntry \in Entry /\ NoEntry.key = "none"
    BY DEF NoEntry, Entry
  <1>2. AtRest \in Specialist /\ AtRest.at = "idle"
    BY MemoryAssumption DEF AtRest, Specialist
  <1>3. Away \in Curator /\ Away.at = "idle"
    BY <1>1 DEF Away, Curator
  <1>4. Silence \in Content
    BY DEF Silence, Content
  <1> QED
    BY <1>1, <1>2, <1>3, <1>4

\* Nothing is remembered at the beginning.
LEMMA MemoryInitial == MemoryInit => MemoryInv
  <1> SUFFICES ASSUME MemoryInit PROVE MemoryInv
    OBVIOUS
  <1>1. MemoryKinds
    BY EmptyRecords DEF MemoryInit, MemoryKinds
  <1>2. JobsAreNamed /\ StillUnknown /\ OneEntryPerFact
    BY EmptyRecords DEF MemoryInit, JobsAreNamed, StillUnknown, OneEntryPerFact, Live
  <1> QED
    BY <1>1, <1>2 DEF MemoryInv

\* What leaves the worker alone and gives no entry a fact it did not have.
LEMMA Beside ==
    ASSUME MemoryInv, UNCHANGED specialist,
           said' \in [Messages -> Content], queue' \subseteq Messages,
           entry' \in [Entries -> Entry], curator' \in [Curators -> Curator],
           \A e \in Entries : entry'[e].key \in {entry[e].key, "none"},
           \A c \in Curators : curator'[c].at = "enqueue" => curator'[c].message \in Messages
    PROVE  MemoryInv'
  <1>1. MemoryKinds' /\ JobsAreNamed'
    BY DEF MemoryInv, MemoryKinds, JobsAreNamed
  <1>2. StillUnknown' /\ OneEntryPerFact'
    BY DEF MemoryInv, StillUnknown, OneEntryPerFact, Live
  <1> QED
    BY <1>1, <1>2 DEF MemoryInv

\* What the worker does without giving an entry a fact.
LEMMA Working ==
    ASSUME MemoryInv, UNCHANGED <<said, curator>>, queue' \subseteq Messages,
           entry' \in [Entries -> Entry], \A e \in Entries : entry'[e].key = entry[e].key,
           specialist' \in Specialist,
           specialist'.at # "idle" => specialist'.message \in Messages,
           StillUnknown'
    PROVE  MemoryInv'
  <1>1. MemoryKinds' /\ JobsAreNamed'
    BY DEF MemoryInv, MemoryKinds, JobsAreNamed
  <1>2. OneEntryPerFact'
    BY DEF MemoryInv, OneEntryPerFact, Live
  <1> QED
    BY <1>1, <1>2 DEF MemoryInv

\* A request that ends, begins or goes on; `q` is what it is about to do.
LEMMA CuratorBecomes ==
    ASSUME MemoryInv, NEW c \in Curators, NEW q \in Curator, q.at = "enqueue" => q.message \in Messages,
           curator' = [curator EXCEPT ![c] = q]
    PROVE  /\ curator' \in [Curators -> Curator]
           /\ \A d \in Curators : curator'[d].at = "enqueue" => curator'[d].message \in Messages
  BY DEF MemoryInv, MemoryKinds, JobsAreNamed

\* The requests that change no entry.
LEMMA RequestsBeside ==
    ASSUME MemoryInv, NEW c \in Curators,
           \/ \E m \in Messages : Say(c, m)
           \/ Enqueue(c) \/ Recall(c) \/ FindMemory(c) \/ LookForTask(c) \/ AddTask(c) \/ CloseTask(c)
           \/ Reset(c) \/ FlushQueue(c)
    PROVE  MemoryInv'
  <1>1. MemoryKinds /\ JobsAreNamed
    BY DEF MemoryInv
  <1>2. UNCHANGED <<specialist, entry>> /\ entry \in [Entries -> Entry]
    BY <1>1 DEF Say, Enqueue, Recall, FindMemory, LookForTask, AddTask, CloseTask, Reset, FlushQueue,
                MemoryKinds
  <1>3. said' \in [Messages -> Content]
    BY <1>1 DEF Say, Enqueue, Recall, FindMemory, LookForTask, AddTask, CloseTask, Reset, FlushQueue,
                MemoryKinds
  <1>4. queue' \subseteq Messages
    BY <1>1 DEF Say, Enqueue, Recall, FindMemory, LookForTask, AddTask, CloseTask, Reset, FlushQueue,
                MemoryKinds, JobsAreNamed
  <1>5. ASSUME NEW q \in Curator, q.at = "enqueue" => q.message \in Messages,
               curator' = [curator EXCEPT ![c] = q]
        PROVE  MemoryInv'
    BY <1>1, <1>2, <1>3, <1>4, <1>5, CuratorBecomes, Beside
  <1>6. ASSUME NEW m \in Messages, Say(c, m) PROVE MemoryInv'
    <2> DEFINE q == [Away EXCEPT !.at = "enqueue", !.message = m]
    <2>1. q \in Curator /\ q.message = m
      BY EmptyRecords DEF Away, Curator
    <2>2. curator' = [curator EXCEPT ![c] = q]
      BY <1>6 DEF Say
    <2> HIDE DEF q
    <2> QED
      BY <1>5, <2>1, <2>2
  <1>7. CASE Enqueue(c) \/ AddTask(c)
    BY <1>5, <1>7, EmptyRecords DEF Enqueue, AddTask
  <1>8. CASE Recall(c)
    <2>1. PICK recalled \in SUBSET Entries :
             curator' = [curator EXCEPT ![c] = [Away EXCEPT !.at = "touch", !.entries = recalled]]
      BY <1>8 DEF Recall
    <2> DEFINE q == [Away EXCEPT !.at = "touch", !.entries = recalled]
    <2>2. q \in Curator /\ q.at = "touch"
      BY EmptyRecords DEF Away, Curator
    <2> HIDE DEF q
    <2> QED
      BY <1>5, <2>1, <2>2 DEF q
  <1>9. CASE FindMemory(c)
    <2>1. PICK e \in Entries :
             curator' = [curator EXCEPT ![c] = [Away EXCEPT !.at = "edit", !.entries = {e}, !.read = entry[e]]]
      BY <1>9 DEF FindMemory
    <2>2. PICK read \in Entry : read = entry[e]
      BY <1>2
    <2> DEFINE q == [Away EXCEPT !.at = "edit", !.entries = {e}, !.read = read]
    <2>3. q \in Curator /\ q.at = "edit"
      BY EmptyRecords DEF Away, Curator
    <2>4. curator' = [curator EXCEPT ![c] = q]
      BY <2>1, <2>2
    <2> HIDE DEF q
    <2> QED
      BY <1>5, <2>3, <2>4
  <1>10. CASE LookForTask(c) \/ Reset(c)
    <2>1. PICK at \in {"add", "flush"} : curator' = [curator EXCEPT ![c] = [Away EXCEPT !.at = at]]
      BY <1>10 DEF LookForTask, Reset
    <2> DEFINE q == [Away EXCEPT !.at = at]
    <2>2. q \in Curator /\ q.at = at
      BY EmptyRecords DEF Away, Curator
    <2> HIDE DEF q
    <2> QED
      BY <1>5, <2>1, <2>2 DEF q
  <1>11. CASE CloseTask(c)
    BY <1>1, <1>2, <1>3, <1>4, <1>11, Beside DEF CloseTask, MemoryKinds, JobsAreNamed
  <1>12. CASE FlushQueue(c)
    <2>1. PICK old \in Curator : old = curator[c]
      BY <1>1 DEF MemoryKinds
    <2> DEFINE q == [old EXCEPT !.at = "truncate"]
    <2>2. q \in Curator /\ q.at = "truncate"
      BY DEF Curator
    <2>3. curator' = [curator EXCEPT ![c] = q]
      BY <1>12, <2>1 DEF FlushQueue
    <2> HIDE DEF q
    <2> QED
      BY <1>5, <2>2, <2>3
  <1> QED
    BY <1>6, <1>7, <1>8, <1>9, <1>10, <1>11, <1>12

\* An entry that is written keeps its fact when the record written in its place has it.
LEMMA EntryBecomes ==
    ASSUME MemoryInv, NEW e \in Entries, NEW r \in Entry, r.key = entry[e].key, entry' = [entry EXCEPT ![e] = r]
    PROVE  entry' \in [Entries -> Entry] /\ \A d \in Entries : entry'[d].key = entry[d].key
  BY DEF MemoryInv, MemoryKinds

\* The edits of entries change flags, and the reset takes all facts away.
LEMMA EditsKeep ==
    ASSUME MemoryInv, NEW c \in Curators,
           Touch(c) \/ (\E e \in Entries : PatchMemory(c, e)) \/ WriteMemory(c) \/ Truncate(c)
    PROVE  MemoryInv'
  <1>1. MemoryKinds /\ JobsAreNamed
    BY DEF MemoryInv
  <1>2. UNCHANGED <<specialist, said, queue>> /\ said \in [Messages -> Content] /\ queue \subseteq Messages
        /\ entry \in [Entries -> Entry]
    BY <1>1 DEF Touch, PatchMemory, WriteMemory, Truncate, MemoryKinds
  <1>3. (\E e \in Entries : PatchMemory(c, e)) => curator' = curator
    BY DEF PatchMemory
  <1>4. (Touch(c) \/ WriteMemory(c) \/ Truncate(c)) => curator' = [curator EXCEPT ![c] = Away]
    BY DEF Touch, WriteMemory, Truncate
  <1>5. /\ curator' \in [Curators -> Curator]
        /\ \A d \in Curators : curator'[d].at = "enqueue" => curator'[d].message \in Messages
    <2>1. CASE curator' = curator
      BY <1>1, <2>1 DEF MemoryKinds, JobsAreNamed
    <2>2. CASE curator' = [curator EXCEPT ![c] = Away]
      BY <2>2, CuratorBecomes, EmptyRecords
    <2> QED
      BY <1>3, <1>4, <2>1, <2>2
  <1>6. ASSUME entry' \in [Entries -> Entry], \A d \in Entries : entry'[d].key \in {entry[d].key, "none"}
        PROVE  MemoryInv'
    BY <1>2, <1>5, <1>6, Beside
  <1>7. CASE Touch(c)
    <2>1. \A e \in Entries : entry'[e] = entry[e] \/ entry'[e] = [entry[e] EXCEPT !.recalled = TRUE]
      BY <1>7 DEF Touch
    <2>2. \A e \in Entries : entry'[e] \in Entry /\ entry'[e].key = entry[e].key
      <3> SUFFICES ASSUME NEW e \in Entries PROVE entry'[e] \in Entry /\ entry'[e].key = entry[e].key
        OBVIOUS
      <3>1. PICK old \in Entry : old = entry[e]
        BY <1>2
      <3>2. entry'[e] = old \/ entry'[e] = [old EXCEPT !.recalled = TRUE]
        BY <2>1, <3>1
      <3> QED
        BY <3>1, <3>2 DEF Entry
    <2>3. entry' \in [Entries -> Entry]
      BY <1>7, <2>2 DEF Touch
    <2> QED
      BY <1>6, <2>2, <2>3
  <1>8. ASSUME NEW e \in Entries, PatchMemory(c, e) PROVE MemoryInv'
    <2>1. PICK old \in Entry : old = entry[e]
      BY <1>2
    <2>2. PICK r \in Entry : entry' = [entry EXCEPT ![e] = r] /\ r.key = old.key
      <3>1. [old EXCEPT !.pinned = ~@] \in Entry /\ [old EXCEPT !.pinned = ~@].key = old.key
        BY DEF Entry
      <3>2. [old EXCEPT !.suppressed = ~@] \in Entry /\ [old EXCEPT !.suppressed = ~@].key = old.key
        BY DEF Entry
      <3>3. CASE entry' = [entry EXCEPT ![e].pinned = ~@]
        BY <2>1, <3>1, <3>3
      <3>4. CASE entry' = [entry EXCEPT ![e].suppressed = ~@]
        BY <2>1, <3>2, <3>4
      <3> QED
        BY <1>8, <3>3, <3>4 DEF PatchMemory
    <2> QED
      BY <1>6, <2>1, <2>2, EntryBecomes
  <1>9. CASE WriteMemory(c)
    <2>1. CASE entry' = entry
      BY <1>2, <1>6, <2>1
    <2>2. CASE \E e \in Entries, pinned \in BOOLEAN, suppressed \in BOOLEAN :
                  entry' = [entry EXCEPT ![e].pinned = pinned, ![e].suppressed = suppressed]
      <3>1. PICK e \in Entries, pinned \in BOOLEAN, suppressed \in BOOLEAN :
               entry' = [entry EXCEPT ![e].pinned = pinned, ![e].suppressed = suppressed]
        BY <2>2
      <3>2. PICK old \in Entry : old = entry[e]
        BY <1>2
      <3> DEFINE r == [old EXCEPT !.pinned = pinned, !.suppressed = suppressed]
      <3>3. r \in Entry /\ r.key = old.key
        BY DEF Entry
      <3>4. entry' = [entry EXCEPT ![e] = r]
        BY <1>2, <3>1, <3>2
      <3> HIDE DEF r
      <3> QED
        BY <1>6, <3>2, <3>3, <3>4, EntryBecomes
    <2>3. PICK q \in Curator : q = curator[c]
      BY <1>1 DEF MemoryKinds
    <2>4. q.entries \subseteq Entries /\ q.read \in Entry
      BY DEF Curator
    <2>5. q.read.suppressed \in BOOLEAN
      BY <2>4 DEF Entry
    <2> QED
      BY <1>9, <2>1, <2>2, <2>3, <2>4, <2>5 DEF WriteMemory
  <1>10. CASE Truncate(c)
    <2>1. entry' = [e \in Entries |-> NoEntry]
      BY <1>10 DEF Truncate
    <2> QED
      BY <1>6, <2>1, EmptyRecords
  <1> QED
    BY <1>7, <1>8, <1>9, <1>10

\* What the worker does that needs no look at what it has still to write.
LEMMA WorkerMoves ==
    ASSUME MemoryInv, UNCHANGED <<said, curator, entry>>, queue' \subseteq Messages,
           specialist' \in Specialist, specialist'.at \notin {"write", "link"},
           specialist'.at # "idle" => specialist'.message \in Messages
    PROVE  MemoryInv'
  <1>1. StillUnknown'
    BY DEF StillUnknown
  <1>2. entry' \in [Entries -> Entry]
    BY DEF MemoryInv, MemoryKinds
  <1> QED
    BY <1>1, <1>2, Working

\* The worker's steps, but the look-up and the two that write.
LEMMA WorkerKeeps ==
    ASSUME MemoryInv,
           TakeJob \/ FindOpenTask \/ CreateTaskRow \/ FinishJob \/ MarkJobFailed \/ JobThrows
    PROVE  MemoryInv'
  <1>1. PICK old \in Specialist : old = specialist
    BY DEF MemoryInv, MemoryKinds
  <1>2. UNCHANGED <<said, curator, entry>> /\ queue \subseteq Messages
    BY DEF TakeJob, FindOpenTask, CreateTaskRow, FinishJob, MarkJobFailed, JobThrows, MemoryInv, MemoryKinds
  <1>3. CASE TakeJob
    <2>1. PICK m \in queue : queue' = queue \ {m} /\ \E at \in {"caught", "extract"} :
                              specialist' = [AtRest EXCEPT !.at = at, !.message = m]
      BY <1>3 DEF TakeJob
    <2>2. PICK at \in {"caught", "extract"}, message \in Messages :
             specialist' = [AtRest EXCEPT !.at = at, !.message = message]
      BY <1>2, <2>1
    <2>3. specialist' \in Specialist /\ specialist'.at = at /\ specialist'.message = message
      BY <2>2, EmptyRecords DEF Specialist
    <2>4. queue' \subseteq Messages
      BY <1>2, <2>1
    <2> QED
      BY <1>2, <2>3, <2>4, WorkerMoves
  <1>4. CASE FindOpenTask \/ CreateTaskRow \/ JobThrows
    <2>1. PICK at \in {"create", "finish", "caught"} : specialist' = [old EXCEPT !.at = at]
      BY <1>1, <1>4 DEF FindOpenTask, CreateTaskRow, JobThrows
    <2>2. queue' = queue /\ old.message \in Messages
      BY <1>1, <1>4 DEF FindOpenTask, CreateTaskRow, JobThrows, MemoryInv, JobsAreNamed
    <2>3. specialist' \in Specialist /\ specialist'.at = at /\ specialist'.message = old.message
      BY <2>1 DEF Specialist
    <2> QED
      BY <1>2, <2>2, <2>3, WorkerMoves
  <1>5. CASE FinishJob \/ MarkJobFailed
    <2>1. specialist' = AtRest /\ queue' = queue
      BY <1>5 DEF FinishJob, MarkJobFailed
    <2> QED
      BY <1>2, <2>1, EmptyRecords, WorkerMoves
  <1> QED
    BY <1>3, <1>4, <1>5

\* What the look-up does not find is not there.
LEMMA LookUpKeeps == MemoryInv /\ LookUp => MemoryInv'
  <1> SUFFICES ASSUME MemoryInv, LookUp PROVE MemoryInv'
    OBVIOUS
  <1>1. PICK old \in Specialist : old = specialist
    BY DEF MemoryInv, MemoryKinds
  <1>2. old.message \in Messages
    BY <1>1 DEF LookUp, MemoryInv, JobsAreNamed
  <1>3. PICK content \in Content : content = said[old.message]
    BY <1>2 DEF MemoryInv, MemoryKinds
  <1> DEFINE facts == content.facts
             found == [f \in Facts |-> IF f \in facts /\ Known(f) THEN EntryOf(f) ELSE 0]
             scores == [f \in Facts |-> IF f \in facts /\ Known(f) THEN entry[EntryOf(f)].score ELSE 0]
             at == IF facts = {} THEN "task" ELSE "write"
  <1>4. facts \subseteq Facts
    BY DEF Content
  <1>5. \A f \in Facts : Known(f) => EntryOf(f) \in Entries
    BY DEF Known, EntryOf
  <1>6. \A e \in Entries : entry[e].score \in 0 .. 2
    BY DEF MemoryInv, MemoryKinds, Entry
  <1>7. \A f \in Facts : found[f] \in 0 .. MaxEntries /\ scores[f] \in 0 .. 2
    BY <1>5, <1>6, MemoryAssumption DEF Entries
  <1>8. found \in [Facts -> 0 .. MaxEntries] /\ scores \in [Facts -> 0 .. 2]
    BY <1>7
  <1>9. \A f \in facts : found[f] = 0 => ~Known(f)
    BY <1>4, <1>5, MemoryAssumption DEF Entries
  <1>10. specialist' = [old EXCEPT !.at = at, !.todo = facts, !.found = found, !.scores = scores]
    BY <1>1, <1>3 DEF LookUp
  <1>11. UNCHANGED <<said, curator, entry, queue>>
    BY DEF LookUp
  <1>12. specialist' \in Specialist /\ specialist'.todo = facts /\ specialist'.found = found
         /\ specialist'.message = old.message
    <2>1. at \in {"task", "write"}
      OBVIOUS
    <2> HIDE DEF facts, found, scores, at
    <2> QED
      BY <1>4, <1>8, <1>10, <2>1 DEF Specialist
  <1>13. StillUnknown'
    <2> HIDE DEF facts, found, scores, at
    <2> QED
      BY <1>9, <1>11, <1>12 DEF StillUnknown, Known, Live
  <1>14. entry' \in [Entries -> Entry] /\ queue' \subseteq Messages
    BY <1>11 DEF MemoryInv, MemoryKinds
  <1> QED
    BY <1>2, <1>11, <1>12, <1>13, <1>14, Working

\* The larger of two scores is a score.
LEMMA HigherIsScore == ASSUME NEW a \in 0 .. 2, NEW b \in 1 .. 2 PROVE HigherOf(a, b) \in 0 .. 2
  BY DEF HigherOf

\* An entry gets its fact only when no other has it, and the other facts are still to be written.
LEMMA WriteEntryKeeps == MemoryInv /\ WriteEntry => MemoryInv'
  <1> SUFFICES ASSUME MemoryInv, WriteEntry PROVE MemoryInv'
    OBVIOUS
  <1>1. PICK old \in Specialist : old = specialist
    BY DEF MemoryInv, MemoryKinds
  <1>2. old.message \in Messages /\ old.at = "write"
    BY <1>1 DEF WriteEntry, MemoryInv, JobsAreNamed
  <1>3. PICK score \in 1 .. 2 : score = said[old.message].score
    BY <1>2 DEF MemoryInv, MemoryKinds, Content
  <1>4. UNCHANGED <<said, curator, queue>> /\ entry \in [Entries -> Entry] /\ queue \subseteq Messages
    BY DEF WriteEntry, MemoryInv, MemoryKinds
  <1>5. PICK f \in old.todo :
           IF old.found[f] # 0
           THEN /\ entry' = IF Live(old.found[f])
                            THEN [entry EXCEPT ![old.found[f]].score = HigherOf(old.scores[f], score)]
                            ELSE entry
                /\ specialist' = [old EXCEPT !.at = "link", !.todo = @ \ {f}, !.last = old.found[f]]
           ELSE /\ \E e \in Entries : ~Live(e)
                /\ entry' = [entry EXCEPT ![Fresh] = [NoEntry EXCEPT !.key = f, !.score = score]]
                /\ specialist' = [old EXCEPT !.at = "link", !.todo = @ \ {f}, !.last = Fresh]
    BY <1>1, <1>3 DEF WriteEntry
  <1>6. f \in Facts /\ old.found[f] \in 0 .. MaxEntries /\ old.scores[f] \in 0 .. 2 /\ old.todo \subseteq Facts
    BY DEF Specialist
  <1>7. \A g \in old.todo : old.found[g] = 0 => \A e \in Entries : Live(e) => entry[e].key # g
    BY <1>1, <1>2 DEF MemoryInv, StillUnknown
  <1>8. ASSUME NEW last \in Entries, specialist' = [old EXCEPT !.at = "link", !.todo = @ \ {f}, !.last = last]
        PROVE  /\ specialist' \in Specialist /\ specialist'.at = "link" /\ specialist'.message = old.message
               /\ specialist'.todo = old.todo \ {f} /\ specialist'.found = old.found
    <2>1. PICK todo \in SUBSET Facts : todo = old.todo \ {f}
      BY <1>6
    <2>2. PICK id \in 0 .. MaxEntries : id = last
      BY MemoryAssumption DEF Entries
    <2>3. specialist' = [old EXCEPT !.at = "link", !.todo = todo, !.last = id]
      BY <1>8, <2>1, <2>2
    <2> QED
      BY <2>1, <2>3 DEF Specialist
  <1>9. CASE old.found[f] # 0
    <2> DEFINE known == old.found[f]
    <2>1. known \in Entries
      BY <1>6, <1>9, MemoryAssumption DEF Entries
    <2>2. PICK was \in Entry, higher \in 0 .. 2 : was = entry[known] /\ higher = HigherOf(old.scores[f], score)
      BY <1>4, <1>6, <2>1, HigherIsScore
    <2> DEFINE r == [was EXCEPT !.score = higher]
    <2>3. r \in Entry /\ r.key = was.key
      BY DEF Entry
    <2>4. entry' = entry \/ entry' = [entry EXCEPT ![known] = r]
      BY <1>5, <1>9, <2>2
    <2>5. entry' \in [Entries -> Entry] /\ \A d \in Entries : entry'[d].key = entry[d].key
      <3> HIDE DEF r, known
      <3> QED
        BY <1>4, <2>1, <2>2, <2>3, <2>4, EntryBecomes
    <2>6. specialist' = [old EXCEPT !.at = "link", !.todo = @ \ {f}, !.last = known]
      BY <1>5, <1>9
    <2>7. /\ specialist' \in Specialist /\ specialist'.at = "link" /\ specialist'.message = old.message
          /\ specialist'.todo = old.todo \ {f} /\ specialist'.found = old.found
      <3> HIDE DEF known
      <3> QED
        BY <1>8, <2>1, <2>6
    <2>8. StillUnknown'
      BY <1>7, <2>5, <2>7 DEF StillUnknown, Live
    <2> QED
      BY <1>2, <1>4, <2>5, <2>7, <2>8, Working
  <1>10. CASE old.found[f] = 0
    <2>1. Fresh \in Entries /\ ~Live(Fresh)
      BY <1>5, <1>10 DEF Fresh
    <2>2. PICK new \in Entries : new = Fresh
      BY <2>1
    <2>3. PICK level \in 0 .. 2 : level = score
      OBVIOUS
    <2> DEFINE r == [NoEntry EXCEPT !.key = f, !.score = level]
    <2>4. r \in Entry /\ r.key = f
      BY <1>6, EmptyRecords DEF NoEntry, Entry
    <2>5. entry' = [entry EXCEPT ![new] = r]
      BY <1>5, <1>10, <2>2, <2>3
    <2>6. entry' \in [Entries -> Entry] /\ entry'[new].key = f
          /\ \A d \in Entries : d # new => entry'[d] = entry[d]
      <3> HIDE DEF r
      <3> QED
        BY <1>4, <2>4, <2>5
    <2>7. specialist' = [old EXCEPT !.at = "link", !.todo = @ \ {f}, !.last = new]
      BY <1>5, <1>10, <2>2
    <2>8. /\ specialist' \in Specialist /\ specialist'.at = "link" /\ specialist'.message = old.message
          /\ specialist'.todo = old.todo \ {f} /\ specialist'.found = old.found
      BY <1>8, <2>7
    <2>9. MemoryKinds'
      BY <1>4, <2>6, <2>8 DEF MemoryInv, MemoryKinds
    <2>10. JobsAreNamed'
      BY <1>2, <1>4, <2>8 DEF MemoryInv, JobsAreNamed
    <2>11. StillUnknown'
      BY <1>7, <2>6, <2>8 DEF StillUnknown, Live
    <2>12. \A e \in Entries : Live(e) => entry[e].key # f
      BY <1>7, <1>10
    <2>13. OneEntryPerFact'
      BY <2>1, <2>2, <2>6, <2>12 DEF MemoryInv, OneEntryPerFact, Live
    <2> QED
      BY <2>9, <2>10, <2>11, <2>13 DEF MemoryInv
  <1> QED
    BY <1>9, <1>10

\* Linking an entry leaves the facts that are still to be written as they are.
LEMMA LinkEntryKeeps == MemoryInv /\ LinkEntry => MemoryInv'
  <1> SUFFICES ASSUME MemoryInv, LinkEntry PROVE MemoryInv'
    OBVIOUS
  <1>1. PICK old \in Specialist : old = specialist
    BY DEF MemoryInv, MemoryKinds
  <1>2. old.message \in Messages /\ old.at = "link"
    BY <1>1 DEF LinkEntry, MemoryInv, JobsAreNamed
  <1>3. UNCHANGED <<said, curator, queue, entry>> /\ entry \in [Entries -> Entry] /\ queue \subseteq Messages
    BY DEF LinkEntry, MemoryInv, MemoryKinds
  <1>4. PICK at \in {"caught", "write", "task"} : specialist' = [old EXCEPT !.at = at]
    BY <1>1 DEF LinkEntry
  <1>5. /\ specialist' \in Specialist /\ specialist'.message = old.message
        /\ specialist'.todo = old.todo /\ specialist'.found = old.found
    BY <1>4 DEF Specialist
  <1>6. StillUnknown'
    BY <1>1, <1>2, <1>3, <1>5 DEF MemoryInv, StillUnknown, Live
  <1> QED
    BY <1>2, <1>3, <1>5, <1>6, Working

\* A death of the worker ends all that is under way; its job is handed out again.
LEMMA DeathKeeps == MemoryInv /\ WorkerDies => MemoryInv'
  <1> SUFFICES ASSUME MemoryInv, WorkerDies PROVE MemoryInv'
    OBVIOUS
  <1>1. UNCHANGED <<said, entry>> /\ specialist' = AtRest /\ curator' = [c \in Curators |-> Away]
    BY DEF WorkerDies
  <1>2. queue' \subseteq Messages
    BY DEF WorkerDies, MemoryInv, MemoryKinds, Specialist
  <1>3. MemoryKinds' /\ JobsAreNamed'
    BY <1>1, <1>2, EmptyRecords DEF MemoryInv, MemoryKinds, JobsAreNamed
  <1>4. StillUnknown' /\ OneEntryPerFact'
    BY <1>1, EmptyRecords DEF MemoryInv, StillUnknown, OneEntryPerFact, Live
  <1> QED
    BY <1>3, <1>4 DEF MemoryInv

\* Every step of the memory engine keeps the invariant.
LEMMA MemoryKept == MemoryInv /\ [MemoryNext]_memoryVars => MemoryInv'
  <1> SUFFICES ASSUME MemoryInv, [MemoryNext]_memoryVars PROVE MemoryInv'
    OBVIOUS
  <1>1. CASE UNCHANGED memoryVars
    BY <1>1 DEF memoryVars, MemoryInv, MemoryKinds, JobsAreNamed, StillUnknown, OneEntryPerFact, Live
  <1>2. CASE Extract
    BY <1>2, WorkerKeeps, LookUpKeeps, WriteEntryKeeps, LinkEntryKeeps DEF Extract
  <1> QED
    BY <1>1, <1>2, WorkerKeeps, DeathKeeps, RequestsBeside, EditsKeep DEF MemoryNext

\* A fact that is remembered has one entry (processMemoryCandidateJob and its look-up of canonical
\* keys), for any interleaving with edits, retrievals and resets, and after any deaths of the worker.
THEOREM FactsAreKeptOnce == MemorySpec => []OneEntryPerFact
  <1>1. MemoryInv => OneEntryPerFact
    BY DEF MemoryInv
  <1> QED
    BY MemoryInitial, MemoryKept, <1>1, PTL DEF MemorySpec

-----------------------------------------------------------------------------
(* What a completed job has left *)

JobKinds == job \in [Messages -> JobStatus] /\ openTasks \in Nat /\ erased \subseteq Messages

\* What a reset deleted has no job, and a message that is worked on has one otherwise: it is not
\* said anew meanwhile.
ErasedIsGone == \A m \in erased : job[m] = "none"
WorkedOn == specialist.at # "idle" => specialist.message \in erased \/ job[specialist.message] # "none"

\* The worker's next steps are about the message of its job, which no reset has deleted.
AtFacts == specialist.at \in {"write", "link", "task", "create", "finish"} /\ specialist.message \notin erased

\* An entry that was found is that of its fact still.
FoundIsThere ==
    AtFacts => \A f \in specialist.todo : specialist.found[f] # 0 => entry[specialist.found[f]].key = f

\* Each fact of the message is still to be written, or linked to it, or the one just written.
LinkedTo(f, m) == \E e \in Entries : entry[e].key = f /\ <<e, m>> \in links
JustWritten(f) == specialist.at = "link" /\ specialist.last \in Entries /\ entry[specialist.last].key = f
WritesAll ==
    AtFacts =>
        /\ specialist.at \in {"task", "create", "finish"} => specialist.todo = {}
        /\ \A f \in said[specialist.message].facts :
              f \in specialist.todo \/ LinkedTo(f, specialist.message) \/ JustWritten(f)

LinksInv == JobKinds /\ ErasedIsGone /\ WorkedOn /\ FoundIsThere /\ WritesAll /\ CompletedIsRemembered

-----------------------------------------------------------------------------
(* Order *)

\* An entry without a fact is empty.
EmptyIsBlank == \A e \in Entries : ~Live(e) => entry[e] = NoEntry

\* As long as edits do not overlap, no reset meets a job, and the worker does not die: one edit is
\* between its read and its write, ...
Edits(c) == curator[c].at \in {"edit", "add", "flush", "truncate"}
OneEdit == \A c, d \in Curators : Edits(c) /\ Edits(d) => c = d

\* ... and what it read is there as it was read; ...
EditReadFresh ==
    \A c \in Curators : curator[c].at = "edit" =>
        \A e \in curator[c].entries : Live(e) /\ curator[c].read.suppressed = entry[e].suppressed
FlagsKept == \A e \in Entries : entry[e].suppressed <=> e \in hidden

\* ... who has found no open task is the only one to add it; ...
AddsTask == \E c \in Curators : curator[c].at = "add"
OneTask ==
    /\ openTasks <= 1
    /\ AddsTask \/ specialist.at = "create" => openTasks = 0
    /\ ~(AddsTask /\ specialist.at = "create")

\* ... and the worker writes of no message that was deleted.
NoneErased ==
    /\ specialist.at \notin {"idle", "caught"} => specialist.message \notin erased
    /\ \A link \in links : link[2] \notin erased

InOrder == OneEdit /\ EditReadFresh /\ FlagsKept /\ OneTask /\ NoneErased
OrderInv == crossed \in BOOLEAN /\ EmptyIsBlank /\ (~crossed => InOrder)

-----------------------------------------------------------------------------
(* A completed job is remembered *)

\* Nothing is said, and nothing to be remembered.
LEMMA LinksInitial == MemoryInit => LinksInv
  <1> SUFFICES ASSUME MemoryInit PROVE LinksInv
    OBVIOUS
  <1>1. JobKinds /\ ErasedIsGone /\ CompletedIsRemembered
    BY DEF MemoryInit, JobKinds, JobStatus, ErasedIsGone, CompletedIsRemembered
  <1>2. WorkedOn /\ FoundIsThere /\ WritesAll
    BY EmptyRecords DEF MemoryInit, WorkedOn, AtFacts, FoundIsThere, WritesAll
  <1> QED
    BY <1>1, <1>2 DEF LinksInv

\* What touches neither jobs nor links, nor the worker, nor the fact of any entry.
LEMMA LinksBeside ==
    ASSUME LinksInv, UNCHANGED <<said, job, links, specialist, erased>>,
           \A e \in Entries : entry'[e].key = entry[e].key, openTasks' \in Nat, MemoryInv
    PROVE  LinksInv'
  <1>1. JobKinds' /\ ErasedIsGone' /\ WorkedOn'
    BY DEF LinksInv, JobKinds, ErasedIsGone, WorkedOn
  <1>2. \A f, m : LinkedTo(f, m)' = LinkedTo(f, m)
    BY DEF LinkedTo
  <1>3. CompletedIsRemembered'
    BY DEF LinksInv, CompletedIsRemembered
  <1>4. FoundIsThere'
    <2>1. \A f \in specialist.todo : specialist.found[f] # 0 => specialist.found[f] \in Entries
      BY MemoryAssumption DEF MemoryInv, MemoryKinds, Specialist, Entries
    <2> QED
      BY <2>1 DEF LinksInv, FoundIsThere, AtFacts
  <1>5. WritesAll'
    <2>1. \A f : JustWritten(f)' = JustWritten(f)
      BY DEF JustWritten
    <2> QED
      BY <1>2, <2>1 DEF LinksInv, WritesAll, AtFacts
  <1> QED
    BY <1>1, <1>3, <1>4, <1>5 DEF LinksInv

\* Turns, edits and retrievals.
LEMMA LinksRequests ==
    ASSUME MemoryInv, LinksInv, NEW c \in Curators,
           \/ \E m \in Messages : Say(c, m)
           \/ \E e \in Entries : PatchMemory(c, e)
           \/ Enqueue(c) \/ Recall(c) \/ Touch(c) \/ FindMemory(c) \/ WriteMemory(c)
           \/ LookForTask(c) \/ AddTask(c) \/ CloseTask(c) \/ Reset(c) \/ FlushQueue(c)
    PROVE  LinksInv'
  <1>1. openTasks \in Nat /\ job \in [Messages -> JobStatus] /\ entry \in [Entries -> Entry]
        /\ said \in [Messages -> Content]
    BY DEF LinksInv, JobKinds, MemoryInv, MemoryKinds
  <1>2. CASE Recall(c) \/ FindMemory(c) \/ LookForTask(c) \/ Reset(c) \/ FlushQueue(c)
    BY <1>1, <1>2, LinksBeside DEF Recall, FindMemory, LookForTask, Reset, FlushQueue
  <1>3. CASE AddTask(c) \/ CloseTask(c)
    BY <1>1, <1>3, LinksBeside DEF AddTask, CloseTask
  <1>4. ASSUME UNCHANGED <<said, job, links, specialist, erased, openTasks>>,
               \A e \in Entries : entry'[e].key = entry[e].key
        PROVE  LinksInv'
    BY <1>1, <1>4, LinksBeside
  <1>5. CASE Touch(c)
    <2>1. \A e \in Entries : entry'[e].key = entry[e].key
      <3> SUFFICES ASSUME NEW e \in Entries PROVE entry'[e].key = entry[e].key
        OBVIOUS
      <3>1. PICK old \in Entry : old = entry[e]
        BY <1>1
      <3>2. entry'[e] = old \/ entry'[e] = [old EXCEPT !.recalled = TRUE]
        BY <1>5, <3>1 DEF Touch
      <3> QED
        BY <3>1, <3>2 DEF Entry
    <2> QED
      BY <1>4, <1>5, <2>1 DEF Touch
  <1>6. ASSUME NEW e \in Entries, PatchMemory(c, e) PROVE LinksInv'
    <2>1. \A d \in Entries : entry'[d].key = entry[d].key
      BY <1>1, <1>6 DEF PatchMemory, Entry
    <2> QED
      BY <1>4, <1>6, <2>1 DEF PatchMemory
  <1>7. CASE WriteMemory(c)
    <2>1. \A d \in Entries : entry'[d].key = entry[d].key
      BY <1>1, <1>7 DEF WriteMemory, Entry
    <2> QED
      BY <1>4, <1>7, <2>1 DEF WriteMemory
  <1>8. CASE Enqueue(c)
    <2>1. PICK m \in Messages : m = curator[c].message
      BY <1>8 DEF Enqueue, MemoryInv, JobsAreNamed
    <2>2. UNCHANGED <<said, links, specialist, erased, entry, openTasks>>
      BY <1>8 DEF Enqueue
    <2>3. job' = job \/ (m \notin erased /\ job' = [job EXCEPT ![m] = "failed"])
      BY <1>8, <2>1 DEF Enqueue
    <2>4. JobKinds' /\ ErasedIsGone' /\ WorkedOn' /\ CompletedIsRemembered'
      <3>1. \A n \in Messages : job'[n] = job[n] \/ (n \notin erased /\ job'[n] = "failed")
        BY <1>1, <2>3
      <3>2. JobKinds'
        BY <1>1, <2>2, <2>3 DEF LinksInv, JobKinds, JobStatus
      <3>3. ErasedIsGone' /\ WorkedOn'
        BY <2>2, <3>1 DEF LinksInv, JobKinds, ErasedIsGone, WorkedOn, MemoryInv, JobsAreNamed
      <3>4. CompletedIsRemembered'
        BY <2>2, <3>1 DEF LinksInv, CompletedIsRemembered
      <3> QED
        BY <3>2, <3>3, <3>4
    <2>5. FoundIsThere' /\ WritesAll'
      BY <2>2 DEF LinksInv, FoundIsThere, WritesAll, AtFacts, LinkedTo, JustWritten
    <2> QED
      BY <2>4, <2>5 DEF LinksInv
  <1>9. ASSUME NEW m \in Messages, Say(c, m) PROVE LinksInv'
    <2>1. /\ UNCHANGED <<links, specialist, erased, entry, openTasks>>
          /\ job' = [job EXCEPT ![m] = "queued"] /\ job[m] = "none" /\ m \notin erased
          /\ \A n \in Messages : n # m => said'[n] = said[n]
      BY <1>1, <1>9 DEF Say
    <2>2. JobKinds' /\ ErasedIsGone' /\ WorkedOn'
      BY <1>1, <2>1 DEF LinksInv, JobKinds, JobStatus, ErasedIsGone, WorkedOn
    <2>3. CompletedIsRemembered'
      BY <1>1, <2>1 DEF LinksInv, CompletedIsRemembered
    <2>4. AtFacts => specialist.message # m /\ specialist.message \in Messages
      BY <2>1 DEF LinksInv, WorkedOn, AtFacts, MemoryInv, JobsAreNamed
    <2>5. FoundIsThere' /\ WritesAll'
      BY <2>1, <2>4 DEF LinksInv, FoundIsThere, WritesAll, AtFacts, LinkedTo, JustWritten
    <2> QED
      BY <2>2, <2>3, <2>5 DEF LinksInv
  <1> QED
    BY <1>2, <1>3, <1>5, <1>6, <1>7, <1>8, <1>9

\* A reset takes the jobs with the memories.
LEMMA LinksReset ==
    ASSUME MemoryInv, LinksInv, NEW c \in Curators, Truncate(c)
    PROVE  LinksInv'
  <1>1. /\ UNCHANGED specialist /\ openTasks' = 0
        /\ job' = [m \in Messages |-> "none"] /\ erased' = erased \cup {m \in Messages : job[m] # "none"}
    BY DEF Truncate
  <1>2. JobKinds' /\ CompletedIsRemembered'
    BY <1>1 DEF LinksInv, JobKinds, JobStatus, CompletedIsRemembered
  <1>3. \A m \in Messages : m \in erased' \/ job[m] = "none"
    BY <1>1
  <1>4. specialist.at # "idle" => specialist.message \in erased'
    BY <1>1, <1>3 DEF LinksInv, WorkedOn, MemoryInv, JobsAreNamed
  <1>5. WorkedOn' /\ FoundIsThere' /\ WritesAll'
    BY <1>1, <1>4 DEF WorkedOn, FoundIsThere, WritesAll, AtFacts
  <1>6. ErasedIsGone'
    BY <1>1 DEF LinksInv, JobKinds, ErasedIsGone
  <1> QED
    BY <1>2, <1>5, <1>6 DEF LinksInv

\* A step of the worker that changes no job and ends, or goes on to a place where nothing is to be
\* written any more.
LEMMA LinksWorker ==
    ASSUME MemoryInv, LinksInv, MemoryInv', TakeJob \/ FindOpenTask \/ CreateTaskRow \/ JobThrows \/ WorkerDies
                                   \/ FinishJob \/ MarkJobFailed
    PROVE  LinksInv'
  <1>1. PICK old \in Specialist : old = specialist
    BY DEF MemoryInv, MemoryKinds
  <1>2. UNCHANGED <<said, links, erased, entry>>
    BY DEF TakeJob, FindOpenTask, CreateTaskRow, JobThrows, WorkerDies, FinishJob, MarkJobFailed
  <1>3. openTasks \in Nat /\ job \in [Messages -> JobStatus] /\ erased \subseteq Messages
    BY DEF LinksInv, JobKinds
  <1>4. openTasks' \in Nat
    <2>1. openTasks' = openTasks \/ openTasks' = openTasks + 1
      BY DEF TakeJob, FindOpenTask, CreateTaskRow, JobThrows, WorkerDies, FinishJob, MarkJobFailed
    <2> QED
      BY <1>3, <2>1
  <1>5. CASE TakeJob
    <2>1. PICK m \in Messages :
             /\ job' = IF m \in erased THEN job ELSE [job EXCEPT ![m] = "processing"]
             /\ specialist' = [AtRest EXCEPT !.at = IF m \in erased THEN "caught" ELSE "extract", !.message = m]
      BY <1>5 DEF TakeJob, MemoryInv, MemoryKinds
    <2>2. specialist'.at \in {"caught", "extract"} /\ specialist'.message = m
      BY <2>1 DEF AtRest
    <2>3. \A n \in Messages : \/ job'[n] = job[n] /\ (n = m => n \in erased)
                              \/ n = m /\ n \notin erased /\ job'[n] = "processing"
      BY <1>3, <2>1
    <2>4. JobKinds'
      BY <1>2, <1>3, <1>4, <2>1 DEF JobKinds, JobStatus
    <2>5. ErasedIsGone' /\ CompletedIsRemembered'
      BY <1>2, <1>3, <2>3 DEF LinksInv, ErasedIsGone, CompletedIsRemembered
    <2>6. WorkedOn'
      BY <1>2, <2>2, <2>3 DEF WorkedOn
    <2>7. FoundIsThere' /\ WritesAll'
      BY <2>2 DEF FoundIsThere, WritesAll, AtFacts
    <2> QED
      BY <2>4, <2>5, <2>6, <2>7 DEF LinksInv
  <1>6. CASE FindOpenTask \/ CreateTaskRow \/ JobThrows
    <2>1. PICK at \in {"create", "finish", "caught"} : specialist' = [old EXCEPT !.at = at]
      BY <1>1, <1>6 DEF FindOpenTask, CreateTaskRow, JobThrows
    <2>2. specialist'.at = at /\ specialist'.message = old.message /\ specialist'.todo = old.todo
      BY <2>1 DEF Specialist
    <2>3. job' = job /\ old.at # "idle" /\ (at # "caught" => old.at \in {"task", "create"})
      <3>1. CASE FindOpenTask \/ CreateTaskRow
        BY <1>1, <3>1 DEF FindOpenTask, CreateTaskRow
      <3>2. CASE JobThrows
        <4>1. [old EXCEPT !.at = "caught"].at = "caught"
          BY DEF Specialist
        <4> QED
          BY <1>1, <2>2, <3>2, <4>1 DEF JobThrows
      <3> QED
        BY <1>6, <3>1, <3>2
    <2>4. JobKinds' /\ ErasedIsGone' /\ WorkedOn' /\ CompletedIsRemembered'
      BY <1>1, <1>2, <1>4, <2>2, <2>3 DEF LinksInv, JobKinds, ErasedIsGone, WorkedOn, CompletedIsRemembered
    <2>5. CASE at = "caught"
      BY <2>2, <2>4, <2>5 DEF LinksInv, FoundIsThere, WritesAll, AtFacts
    <2>6. CASE at # "caught"
      <3>1. AtFacts' => AtFacts /\ old.todo = {}
        BY <1>1, <1>2, <2>2, <2>3, <2>6 DEF LinksInv, AtFacts, WritesAll
      <3>2. \A f : JustWritten(f) => FALSE
        BY <1>1, <2>3, <2>6 DEF JustWritten
      <3>3. FoundIsThere'
        BY <2>2, <3>1 DEF FoundIsThere
      <3>4. WritesAll'
        BY <1>1, <1>2, <2>2, <3>1, <3>2 DEF LinksInv, WritesAll, LinkedTo
      <3> QED
        BY <2>4, <3>3, <3>4 DEF LinksInv
    <2> QED
      BY <2>5, <2>6
  <1>7. CASE FinishJob \/ MarkJobFailed \/ WorkerDies
    <2>1. specialist' = AtRest
      BY <1>7 DEF FinishJob, MarkJobFailed, WorkerDies
    <2>2. WorkedOn' /\ FoundIsThere' /\ WritesAll'
      BY <2>1, EmptyRecords DEF WorkedOn, FoundIsThere, WritesAll, AtFacts
    <2>3. PICK m : m = old.message
      OBVIOUS
    <2>4. PICK verdict \in {"completed", "failed"} :
             /\ job' = job \/ (m \in Messages \ erased /\ job' = [job EXCEPT ![m] = verdict])
             /\ verdict = "completed" => old.at = "finish"
      <3>1. WorkerDies \/ m \in Messages
        BY <1>1, <1>7, <2>3 DEF FinishJob, MarkJobFailed, MemoryInv, JobsAreNamed
      <3> QED
        BY <1>1, <1>7, <2>3, <3>1 DEF FinishJob, MarkJobFailed, WorkerDies, SetJob
    <2>5. \A n \in Messages : job'[n] = job[n] \/ (n = m /\ n \notin erased /\ job'[n] = verdict)
      BY <1>3, <2>4
    <2>6. JobKinds'
      BY <1>2, <1>3, <1>4, <2>4 DEF JobKinds, JobStatus
    <2>7. ErasedIsGone'
      BY <1>2, <1>3, <2>5 DEF LinksInv, ErasedIsGone
    <2>8. CompletedIsRemembered'
      <3> SUFFICES ASSUME NEW n \in Messages, job'[n] = "completed", NEW f \in said[n].facts
                   PROVE  LinkedTo(f, n)
        BY <1>2 DEF CompletedIsRemembered, LinkedTo
      <3>1. CASE job[n] = "completed"
        BY <3>1 DEF LinksInv, CompletedIsRemembered, LinkedTo
      <3>2. CASE job[n] # "completed"
        <4>1. n = m /\ m \notin erased /\ old.at = "finish"
          BY <2>4, <2>5, <3>2
        <4> QED
          BY <1>1, <2>3, <4>1 DEF LinksInv, WritesAll, AtFacts, JustWritten
      <3> QED
        BY <3>1, <3>2
    <2> QED
      BY <2>2, <2>6, <2>7, <2>8 DEF LinksInv
  <1> QED
    BY <1>5, <1>6, <1>7

\* The look-up finds entries of the facts, and leaves every fact to be written.
LEMMA LinksLookUp == MemoryInv /\ LinksInv /\ LookUp => LinksInv'
  <1> SUFFICES ASSUME MemoryInv, LinksInv, LookUp PROVE LinksInv'
    OBVIOUS
  <1>1. PICK old \in Specialist : old = specialist /\ old.at = "extract"
    BY DEF MemoryInv, MemoryKinds, LookUp
  <1>2. PICK m \in Messages : m = old.message
    BY <1>1 DEF MemoryInv, JobsAreNamed
  <1>3. PICK facts \in SUBSET Facts : facts = said[m].facts
    BY DEF MemoryInv, MemoryKinds, Content
  <1> DEFINE found == [f \in Facts |-> IF f \in facts /\ Known(f) THEN EntryOf(f) ELSE 0]
             at == IF facts = {} THEN "task" ELSE "write"
  <1>4. \A f \in Facts : Known(f) => EntryOf(f) \in Entries /\ entry[EntryOf(f)].key = f
    BY DEF Known, EntryOf
  <1>5. /\ specialist'.at = at /\ specialist'.todo = facts /\ specialist'.found = found
        /\ specialist'.message = m
    BY <1>1, <1>2, <1>3 DEF LookUp, Specialist
  <1>6. UNCHANGED <<said, job, entry, links, openTasks, erased>>
    BY DEF LookUp
  <1>7. JobKinds' /\ ErasedIsGone' /\ WorkedOn' /\ CompletedIsRemembered'
    BY <1>1, <1>2, <1>5, <1>6 DEF LinksInv, JobKinds, ErasedIsGone, WorkedOn, CompletedIsRemembered
  <1>8. FoundIsThere'
    <2>1. \A f \in facts : found[f] # 0 => entry[found[f]].key = f
      BY <1>4
    <2> HIDE DEF found
    <2> QED
      BY <1>5, <1>6, <2>1 DEF FoundIsThere
  <1>9. WritesAll'
    BY <1>3, <1>5, <1>6 DEF WritesAll
  <1> QED
    BY <1>7, <1>8, <1>9 DEF LinksInv

\* A fact that is written is in the entry the worker goes on to link, and in no other.
LEMMA LinksWrite == MemoryInv /\ LinksInv /\ WriteEntry => LinksInv'
  <1> SUFFICES ASSUME MemoryInv, LinksInv, WriteEntry PROVE LinksInv'
    OBVIOUS
  <1>1. PICK old \in Specialist : old = specialist /\ old.at = "write"
    BY DEF MemoryInv, MemoryKinds, WriteEntry
  <1>2. PICK m \in Messages : m = old.message
    BY <1>1 DEF MemoryInv, JobsAreNamed
  <1>3. UNCHANGED <<said, job, links, openTasks, erased>> /\ entry \in [Entries -> Entry]
        /\ said \in [Messages -> Content]
    BY DEF WriteEntry, MemoryInv, MemoryKinds
  <1>4. PICK f \in old.todo, last \in Entries :
           /\ specialist' = [old EXCEPT !.at = "link", !.todo = @ \ {f}, !.last = last]
           /\ \/ last = old.found[f] /\ \A e \in Entries : entry'[e].key = entry[e].key
              \/ /\ ~Live(last) /\ entry'[last].key = f
                 /\ \A e \in Entries : e # last => entry'[e] = entry[e]
    <2>1. PICK f \in old.todo :
             IF old.found[f] # 0
             THEN /\ \/ entry' = entry
                     \/ \E score : entry' = [entry EXCEPT ![old.found[f]].score = score]
                  /\ specialist' = [old EXCEPT !.at = "link", !.todo = @ \ {f}, !.last = old.found[f]]
             ELSE /\ \E e \in Entries : ~Live(e)
                  /\ \E score : entry' = [entry EXCEPT ![Fresh] = [NoEntry EXCEPT !.key = f, !.score = score]]
                  /\ specialist' = [old EXCEPT !.at = "link", !.todo = @ \ {f}, !.last = Fresh]
      BY <1>1 DEF WriteEntry
    <2>2. old.found[f] \in 0 .. MaxEntries
      BY DEF Specialist
    <2>3. CASE old.found[f] # 0
      <3>1. PICK known \in Entries : known = old.found[f]
        BY <2>2, <2>3, MemoryAssumption DEF Entries
      <3>2. \A e \in Entries : entry'[e].key = entry[e].key
        <4>1. PICK was \in Entry : was = entry[known]
          BY <1>3
        <4>2. CASE entry' = entry
          BY <4>2
        <4>3. ASSUME NEW score, entry' = [entry EXCEPT ![known].score = score]
              PROVE  \A e \in Entries : entry'[e].key = entry[e].key
          <5>1. [was EXCEPT !.score = score].key = was.key
            BY DEF Entry
          <5> QED
            BY <1>3, <4>1, <4>3, <5>1
        <4> QED
          BY <2>1, <2>3, <3>1, <4>2, <4>3
      <3> QED
        BY <2>1, <2>3, <3>1, <3>2
    <2>4. CASE old.found[f] = 0
      <3>1. PICK new \in Entries : new = Fresh /\ ~Live(new)
        BY <2>1, <2>4 DEF Fresh
      <3>2. PICK score : entry' = [entry EXCEPT ![new] = [NoEntry EXCEPT !.key = f, !.score = score]]
        BY <2>1, <2>4, <3>1
      <3>3. entry'[new].key = f /\ \A e \in Entries : e # new => entry'[e] = entry[e]
        BY <1>3, <3>2 DEF NoEntry
      <3> QED
        BY <2>1, <2>4, <3>1, <3>3
    <2> QED
      BY <2>3, <2>4
  <1>5. old.todo \subseteq Facts /\ "none" \notin Facts
    BY MemoryAssumption DEF Specialist
  <1>6. /\ specialist'.at = "link" /\ specialist'.todo = old.todo \ {f} /\ specialist'.last = last
        /\ specialist'.found = old.found /\ specialist'.message = m
    BY <1>1, <1>2, <1>4 DEF Specialist
  <1>7. \A e \in Entries : entry[e].key \in Facts => entry'[e].key = entry[e].key
    BY <1>4, <1>5 DEF Live
  <1>8. \A n \in Messages, g \in Facts : LinkedTo(g, n) => LinkedTo(g, n)'
    BY <1>3, <1>7 DEF LinkedTo
  <1>9. \A n \in Messages : said[n].facts \subseteq Facts
    BY <1>3 DEF Content
  <1>10. JobKinds' /\ ErasedIsGone' /\ WorkedOn'
    BY <1>1, <1>2, <1>3, <1>6 DEF LinksInv, JobKinds, ErasedIsGone, WorkedOn
  <1>11. CompletedIsRemembered'
    <2>1. \A n \in Messages : job[n] = "completed" => \A g \in said[n].facts : LinkedTo(g, n)
      BY DEF LinksInv, CompletedIsRemembered, LinkedTo
    <2>2. \A n \in Messages : job[n] = "completed" => \A g \in said[n].facts : LinkedTo(g, n)'
      BY <1>8, <1>9, <2>1
    <2> QED
      BY <1>3, <2>2 DEF CompletedIsRemembered, LinkedTo
  <1>12. AtFacts' => AtFacts
    BY <1>1, <1>2, <1>3, <1>6 DEF AtFacts
  <1>13. FoundIsThere'
    <2> SUFFICES ASSUME AtFacts, NEW g \in old.todo \ {f}, old.found[g] # 0
                 PROVE  entry'[old.found[g]].key = g
      BY <1>6, <1>12 DEF FoundIsThere
    <2>1. entry[old.found[g]].key = g
      BY <1>1 DEF LinksInv, FoundIsThere
    <2>2. old.found[g] \in Entries
      BY <1>5, MemoryAssumption DEF Specialist, Entries
    <2> QED
      BY <1>5, <1>7, <2>1, <2>2
  <1>14. WritesAll'
    <2>1. ASSUME AtFacts PROVE entry'[last].key = f
      <3>1. last = old.found[f] => entry[last].key = f
        BY <1>1, <2>1, MemoryAssumption DEF LinksInv, FoundIsThere, Entries
      <3> QED
        BY <1>4, <1>7, <3>1
    <2>2. ASSUME AtFacts, NEW g \in said[m].facts
          PROVE  g \in old.todo \/ LinkedTo(g, m)
      BY <1>1, <1>2, <2>2 DEF LinksInv, WritesAll, JustWritten
    <2>3. ASSUME AtFacts, NEW g \in said[m].facts
          PROVE  g \in old.todo \ {f} \/ LinkedTo(g, m)' \/ entry'[last].key = g
      BY <1>8, <1>9, <2>1, <2>2, <2>3
    <2> QED
      BY <1>3, <1>6, <1>12, <2>3 DEF WritesAll, JustWritten
  <1> QED
    BY <1>10, <1>11, <1>13, <1>14 DEF LinksInv

\* What was just written is linked before the next fact, or the end.
LEMMA LinksLink == MemoryInv /\ LinksInv /\ LinkEntry => LinksInv'
  <1> SUFFICES ASSUME MemoryInv, LinksInv, LinkEntry PROVE LinksInv'
    OBVIOUS
  <1>1. PICK old \in Specialist : old = specialist /\ old.at = "link"
    BY DEF MemoryInv, MemoryKinds, LinkEntry
  <1>2. PICK m \in Messages : m = old.message
    BY <1>1 DEF MemoryInv, JobsAreNamed
  <1>3. UNCHANGED <<said, job, entry, openTasks, erased>> /\ said \in [Messages -> Content]
    BY DEF LinkEntry, MemoryInv, MemoryKinds
  <1>4. links' = IF Live(old.last) THEN links \cup {<<old.last, m>>} ELSE links
    BY <1>1, <1>2 DEF LinkEntry
  <1>5. PICK at \in {"caught", "write", "task"} :
           /\ specialist' = [old EXCEPT !.at = at]
           /\ at # "caught" => m \notin erased /\ Live(old.last)
           /\ at = "task" => old.todo = {}
    <2>1. CASE m \in erased \/ ~Live(old.last)
      <3>1. specialist' = [old EXCEPT !.at = "caught"]
        BY <1>1, <1>2, <2>1 DEF LinkEntry
      <3> QED
        BY <3>1
    <2>2. CASE ~(m \in erased \/ ~Live(old.last)) /\ old.todo # {}
      BY <1>1, <1>2, <2>2 DEF LinkEntry
    <2>3. CASE ~(m \in erased \/ ~Live(old.last)) /\ old.todo = {}
      BY <1>1, <1>2, <2>3 DEF LinkEntry
    <2> QED
      BY <2>1, <2>2, <2>3
  <1>6. /\ specialist'.at = at /\ specialist'.todo = old.todo /\ specialist'.found = old.found
        /\ specialist'.message = m
    BY <1>2, <1>5 DEF Specialist
  <1>7. \A n \in Messages : \A g : LinkedTo(g, n) => LinkedTo(g, n)'
    BY <1>3, <1>4 DEF LinkedTo
  <1>8. JobKinds' /\ ErasedIsGone' /\ WorkedOn'
    BY <1>1, <1>2, <1>3, <1>6 DEF LinksInv, JobKinds, ErasedIsGone, WorkedOn
  <1>9. CompletedIsRemembered'
    <2>1. \A n \in Messages : job[n] = "completed" => \A g \in said[n].facts : LinkedTo(g, n)
      BY DEF LinksInv, CompletedIsRemembered, LinkedTo
    <2>2. \A n \in Messages : job[n] = "completed" => \A g \in said[n].facts : LinkedTo(g, n)'
      BY <1>7, <2>1
    <2> QED
      BY <1>3, <2>2 DEF CompletedIsRemembered, LinkedTo
  <1>10. AtFacts' => AtFacts /\ at # "caught"
    BY <1>1, <1>2, <1>3, <1>6 DEF AtFacts
  <1>11. FoundIsThere'
    BY <1>1, <1>3, <1>6, <1>10 DEF LinksInv, FoundIsThere
  <1>12. WritesAll'
    <2>1. ASSUME AtFacts, at # "caught", NEW g \in said[m].facts
          PROVE  g \in old.todo \/ LinkedTo(g, m)'
      <3>1. g \in old.todo \/ LinkedTo(g, m) \/ (old.last \in Entries /\ entry[old.last].key = g)
        BY <1>1, <1>2, <2>1 DEF LinksInv, WritesAll, JustWritten
      <3>2. old.last \in Entries /\ entry[old.last].key = g => LinkedTo(g, m)'
        BY <1>3, <1>4, <1>5, <2>1 DEF LinkedTo
      <3> QED
        BY <1>7, <3>1, <3>2
    <2> QED
      BY <1>3, <1>5, <1>6, <1>10, <2>1 DEF WritesAll
  <1> QED
    BY <1>8, <1>9, <1>11, <1>12 DEF LinksInv

\* Every step keeps what completed jobs have left.
LEMMA LinksKept == MemoryInv /\ MemoryInv' /\ LinksInv /\ [MemoryNext]_memoryVars => LinksInv'
  <1> SUFFICES ASSUME MemoryInv, MemoryInv', LinksInv, [MemoryNext]_memoryVars PROVE LinksInv'
    OBVIOUS
  <1>1. CASE UNCHANGED memoryVars
    BY <1>1, LinksBeside DEF memoryVars, LinksInv, JobKinds
  <1>2. CASE Extract
    BY <1>2, LinksWorker, LinksLookUp, LinksWrite, LinksLink DEF Extract
  <1> QED
    BY <1>1, <1>2, LinksWorker, LinksRequests, LinksReset DEF MemoryNext

\* A memory job that reads completed has left an entry for every fact of its message, linked to it
\* (processMemoryCandidateJob), whatever is edited, said again, handed out twice or reset meanwhile.
THEOREM CompletedJobsRemember == MemorySpec => []CompletedIsRemembered
  <1>1. LinksInv => CompletedIsRemembered
    BY DEF LinksInv
  <1> QED
    BY MemoryInitial, MemoryKept, LinksInitial, LinksKept, <1>1, PTL DEF MemorySpec

-----------------------------------------------------------------------------
(* Edits, tasks and resets in order *)

\* At the beginning nothing is edited.
LEMMA OrderInitial == MemoryInit => OrderInv
  <1> SUFFICES ASSUME MemoryInit PROVE OrderInv
    OBVIOUS
  <1>1. crossed \in BOOLEAN /\ EmptyIsBlank
    BY DEF MemoryInit, EmptyIsBlank
  <1>2. OneEdit /\ EditReadFresh
    BY EmptyRecords DEF MemoryInit, OneEdit, EditReadFresh, Edits
  <1>3. FlagsKept /\ OneTask /\ NoneErased
    BY EmptyRecords DEF MemoryInit, FlagsKept, OneTask, AddsTask, NoneErased, NoEntry
  <1> QED
    BY <1>1, <1>2, <1>3 DEF OrderInv, InOrder

\* A step that is neither of an edit nor of a task, and erases nothing.
LEMMA OrderBeside ==
    ASSUME MemoryInv, OrderInv, UNCHANGED <<entry, links, openTasks, hidden, erased, crossed>>,
           \A c \in Curators : Edits(c)' => curator'[c] = curator[c],
           \/ UNCHANGED specialist
           \/ specialist'.at \in {"idle", "caught"}
           \/ /\ specialist'.at # "create" /\ specialist'.message = specialist.message
              /\ specialist.at \notin {"idle", "caught"}
           \/ specialist'.at # "create" /\ specialist'.message \notin erased
    PROVE  OrderInv'
  <1>1. EmptyIsBlank'
    BY DEF OrderInv, EmptyIsBlank, Live
  <1>2. ASSUME ~crossed PROVE InOrder'
    <2>1. InOrder
      BY <1>2 DEF OrderInv
    <2>2. \A c \in Curators : Edits(c)' => Edits(c)
      BY DEF Edits
    <2>3. \A c \in Curators : curator'[c].at \in {"edit", "add"} => curator'[c] = curator[c]
      BY DEF Edits
    <2>4. OneEdit' /\ FlagsKept'
      BY <2>1, <2>2 DEF InOrder, OneEdit, FlagsKept
    <2>5. EditReadFresh'
      BY <2>1, <2>3 DEF InOrder, EditReadFresh, Live
    <2>6. AddsTask' => AddsTask
      BY <2>3 DEF AddsTask
    <2>7. OneTask'
      BY <2>1, <2>6 DEF InOrder, OneTask
    <2>8. NoneErased'
      BY <2>1 DEF InOrder, NoneErased
    <2> QED
      BY <2>4, <2>5, <2>7, <2>8 DEF InOrder
  <1> QED
    BY <1>1, <1>2 DEF OrderInv

\* Where crossing is noted, only the kind of the history and of empty entries is left to see.
LEMMA OrderCrossed ==
    ASSUME OrderInv, crossed' = TRUE, EmptyIsBlank'
    PROVE  OrderInv'
  BY DEF OrderInv

\* Turns and retrievals begin and end.
LEMMA OrderTurns ==
    ASSUME MemoryInv, OrderInv, NEW c \in Curators,
           (\E m \in Messages : Say(c, m)) \/ Enqueue(c) \/ Recall(c)
    PROVE  OrderInv'
  <1>1. /\ UNCHANGED <<entry, links, openTasks, hidden, erased, crossed, specialist>>
        /\ \A d \in Curators : d # c => curator'[d] = curator[d]
    BY DEF Say, Enqueue, Recall, MemoryInv, MemoryKinds
  <1>2. curator'[c].at \in {"enqueue", "touch", "idle"}
    <2>1. /\ \A m \in Messages : [Away EXCEPT !.at = "enqueue", !.message = m].at = "enqueue"
          /\ \A recalled \in SUBSET Entries : [Away EXCEPT !.at = "touch", !.entries = recalled].at = "touch"
      BY DEF Away
    <2> QED
      BY <2>1, EmptyRecords DEF Say, Enqueue, Recall, MemoryInv, MemoryKinds
  <1>3. \A d \in Curators : Edits(d)' => curator'[d] = curator[d]
    BY <1>1, <1>2 DEF Edits
  <1> QED
    BY <1>1, <1>3, OrderBeside

\* An edit begins, where no other has.
LEMMA EditBegins ==
    ASSUME MemoryInv, OrderInv, NEW c \in Curators, NEW q \in Curator, curator' = [curator EXCEPT ![c] = q],
           UNCHANGED <<entry, links, openTasks, hidden, erased, specialist>>,
           crossed' \in BOOLEAN, crossed \/ (\E d \in Curators : Edits(d)) => crossed',
           q.at = "edit" => \A e \in q.entries : Live(e) /\ q.read.suppressed = entry[e].suppressed,
           q.at = "add" => openTasks = 0 /\ (specialist.at = "create" => crossed')
    PROVE  OrderInv'
  <1>1. curator'[c] = q /\ \A d \in Curators : d # c => curator'[d] = curator[d]
    BY DEF MemoryInv, MemoryKinds
  <1>2. EmptyIsBlank'
    BY DEF OrderInv, EmptyIsBlank, Live
  <1>3. ASSUME ~crossed' PROVE InOrder'
    <2>1. InOrder /\ \A d \in Curators : ~Edits(d)
      BY <1>3 DEF OrderInv
    <2>2. \A d \in Curators : d # c => ~Edits(d)'
      BY <1>1, <2>1 DEF Edits
    <2>3. OneEdit' /\ FlagsKept' /\ NoneErased'
      BY <2>1, <2>2 DEF InOrder, OneEdit, FlagsKept, NoneErased
    <2>4. EditReadFresh'
      BY <1>1, <2>2 DEF EditReadFresh, Edits, Live
    <2>5. AddsTask' => q.at = "add"
      BY <1>1, <2>2 DEF AddsTask, Edits
    <2>6. OneTask'
      BY <1>3, <2>1, <2>5 DEF InOrder, OneTask
    <2> QED
      BY <2>3, <2>4, <2>6 DEF InOrder
  <1> QED
    BY <1>2, <1>3 DEF OrderInv

\* An entry gets other flags or another score: the mark of an edit with it, and no edit between its
\* read and its write has read it.
LEMMA FlagsWritten ==
    ASSUME MemoryInv, OrderInv, UNCHANGED <<links, openTasks, erased, specialist>>,
           crossed' \in BOOLEAN, crossed => crossed',
           \A e \in Entries : entry'[e].key = entry[e].key /\ (~Live(e) => entry'[e] = entry[e]),
           \A d \in Curators : Edits(d)' => curator'[d] = curator[d],
           ~crossed' => \A e \in Entries : (entry[e].suppressed <=> e \in hidden)
                                              => (entry'[e].suppressed <=> e \in hidden'),
           ~crossed' => \A d \in Curators : curator'[d].at = "edit" =>
                            \A e \in curator[d].entries : entry'[e].suppressed = entry[e].suppressed
    PROVE  OrderInv'
  <1>1. EmptyIsBlank'
    BY DEF OrderInv, EmptyIsBlank, Live
  <1>2. ASSUME ~crossed' PROVE InOrder'
    <2>1. InOrder
      BY <1>2 DEF OrderInv
    <2>2. \A d \in Curators : Edits(d)' => Edits(d)
      BY DEF Edits
    <2>3. \A d \in Curators : curator'[d].at \in {"edit", "add"} => curator'[d] = curator[d]
      BY DEF Edits
    <2>4. OneEdit' /\ FlagsKept'
      BY <1>2, <2>1, <2>2 DEF InOrder, OneEdit, FlagsKept
    <2>5. EditReadFresh'
      <3> SUFFICES ASSUME NEW d \in Curators, curator'[d].at = "edit", NEW e \in curator'[d].entries
                   PROVE  Live(e)' /\ curator'[d].read.suppressed = entry'[e].suppressed
        BY DEF EditReadFresh
      <3>1. curator'[d] = curator[d] /\ e \in Entries
        BY <2>3 DEF MemoryInv, MemoryKinds, Curator
      <3>2. Live(e) /\ curator[d].read.suppressed = entry[e].suppressed
        BY <2>1, <3>1 DEF InOrder, EditReadFresh
      <3>3. entry'[e].suppressed = entry[e].suppressed
        BY <1>2, <3>1
      <3> QED
        BY <3>1, <3>2, <3>3 DEF Live
    <2>6. AddsTask' => AddsTask
      BY <2>3 DEF AddsTask
    <2>7. OneTask' /\ NoneErased'
      BY <2>1, <2>6 DEF InOrder, OneTask, NoneErased
    <2> QED
      BY <2>4, <2>5, <2>7 DEF InOrder
  <1> QED
    BY <1>1, <1>2 DEF OrderInv

\* An edit under way is one that has begun and neither enqueues nor marks what was recalled.
LEMMA EditingIs == MemoryInv => (Editing <=> \E c \in Curators : Edits(c))
  BY DEF Editing, Edits, MemoryInv, MemoryKinds, Curator

\* Edits of memories.
LEMMA OrderEdits ==
    ASSUME MemoryInv, OrderInv, NEW c \in Curators,
           Touch(c) \/ (\E e \in Entries : PatchMemory(c, e)) \/ FindMemory(c) \/ WriteMemory(c)
    PROVE  OrderInv'
  <1>1. crossed \in BOOLEAN /\ entry \in [Entries -> Entry] /\ curator \in [Curators -> Curator]
    BY DEF OrderInv, MemoryInv, MemoryKinds
  <1>2. CASE Touch(c)
    <2>1. /\ UNCHANGED <<links, openTasks, hidden, erased, specialist, crossed>>
          /\ curator' = [curator EXCEPT ![c] = Away]
      BY <1>2 DEF Touch
    <2>2. ASSUME NEW e \in Entries
          PROVE  /\ entry'[e].key = entry[e].key /\ (~Live(e) => entry'[e] = entry[e])
                 /\ entry'[e].suppressed = entry[e].suppressed
      <3>1. PICK old \in Entry : old = entry[e]
        BY <1>1
      <3>2. entry'[e] = old \/ (Live(e) /\ entry'[e] = [old EXCEPT !.recalled = TRUE])
        BY <1>2, <3>1 DEF Touch
      <3> QED
        BY <3>1, <3>2 DEF Entry
    <2>3. \A d \in Curators : Edits(d)' => curator'[d] = curator[d]
      BY <1>1, <2>1, EmptyRecords DEF Edits
    <2>4. \A d \in Curators : curator[d].entries \subseteq Entries
      BY <1>1 DEF Curator
    <2>5. \A d \in Curators : curator'[d].at = "edit" =>
              \A e \in curator[d].entries : entry'[e].suppressed = entry[e].suppressed
      BY <2>2, <2>4
    <2> QED
      BY <1>1, <2>1, <2>2, <2>3, <2>5, FlagsWritten
  <1>3. ASSUME NEW e \in Entries, PatchMemory(c, e) PROVE OrderInv'
    <2>1. /\ UNCHANGED <<links, openTasks, erased, specialist, curator>>
          /\ crossed' = (crossed \/ Editing) /\ Live(e)
      BY <1>3 DEF PatchMemory
    <2>2. crossed' \in BOOLEAN /\ (crossed => crossed') /\ (Editing => crossed')
      BY <1>1, <2>1, Zenon
    <2>3. PICK old \in Entry : old = entry[e]
      BY <1>1
    <2>4. \A d \in Entries : d # e => entry'[d] = entry[d] /\ (d \in hidden' <=> d \in hidden)
      BY <1>1, <1>3 DEF PatchMemory
    <2>5. entry'[e].key = entry[e].key
      BY <1>1, <1>3 DEF PatchMemory, Entry
    <2>6. (entry[e].suppressed <=> e \in hidden) => (entry'[e].suppressed <=> e \in hidden')
      <3>1. CASE entry' = [entry EXCEPT ![e].pinned = ~@] /\ UNCHANGED hidden
        <4>1. entry'[e].suppressed = entry[e].suppressed
          BY <1>1, <3>1 DEF Entry
        <4> QED
          BY <3>1, <4>1
      <3>2. CASE /\ entry' = [entry EXCEPT ![e].suppressed = ~@]
                 /\ hidden' = IF e \in hidden THEN hidden \ {e} ELSE hidden \cup {e}
        <4>1. entry'[e].suppressed = ~entry[e].suppressed
          BY <1>1, <3>2 DEF Entry
        <4> QED
          BY <3>2, <4>1
      <3> QED
        BY <1>3, <3>1, <3>2 DEF PatchMemory
    <2>7. ~crossed' => \A d \in Curators : curator'[d].at # "edit"
      BY <2>1, <2>2, EditingIs DEF Edits
    <2>8. \A d \in Entries : /\ entry'[d].key = entry[d].key /\ (~Live(d) => entry'[d] = entry[d])
                             /\ (entry[d].suppressed <=> d \in hidden) => (entry'[d].suppressed <=> d \in hidden')
      BY <2>1, <2>4, <2>5, <2>6
    <2> QED
      BY <2>1, <2>2, <2>7, <2>8, FlagsWritten
  <1>4. CASE FindMemory(c)
    <2>1. PICK e \in Entries :
             Live(e) /\ curator' = [curator EXCEPT ![c] = [Away EXCEPT !.at = "edit", !.entries = {e}, !.read = entry[e]]]
      BY <1>4 DEF FindMemory
    <2>2. PICK read \in Entry : read = entry[e]
      BY <1>1
    <2> DEFINE q == [Away EXCEPT !.at = "edit", !.entries = {e}, !.read = read]
    <2>3. q \in Curator /\ q.at = "edit" /\ q.entries = {e} /\ q.read = read
      BY EmptyRecords DEF Away, Curator
    <2>4. curator' = [curator EXCEPT ![c] = q]
      BY <2>1, <2>2
    <2>5. /\ UNCHANGED <<entry, links, openTasks, hidden, erased, specialist>>
          /\ crossed' = (crossed \/ Editing)
      BY <1>4 DEF FindMemory
    <2>6. crossed' \in BOOLEAN /\ (crossed \/ Editing => crossed')
      BY <1>1, <2>5, Zenon
    <2> HIDE DEF q
    <2> QED
      BY <2>1, <2>2, <2>3, <2>4, <2>5, <2>6, EditingIs, EditBegins, ZenonT(60)
  <1>5. CASE WriteMemory(c)
    <2>1. /\ UNCHANGED <<links, openTasks, erased, specialist, crossed>> /\ Edits(c)
          /\ curator' = [curator EXCEPT ![c] = Away] /\ curator[c].at = "edit"
      BY <1>5 DEF WriteMemory, Edits
    <2>2. PICK q \in Curator : q = curator[c]
      BY <1>1
    <2>3. PICK e \in q.entries, operation \in {"pin", "suppress", "unsuppress"} :
             /\ entry' = IF Live(e)
                         THEN [entry EXCEPT ![e].pinned = operation = "pin" \/ q.read.pinned,
                                            ![e].suppressed = IF operation = "pin" THEN q.read.suppressed
                                                              ELSE operation = "suppress"]
                         ELSE entry
             /\ hidden' = CASE operation = "pin" -> hidden
                            [] operation = "suppress" /\ Live(e) -> hidden \cup {e}
                            [] OTHER -> hidden \ {e}
      BY <1>5, <2>2 DEF WriteMemory
    <2>4. e \in Entries
      BY DEF Curator
    <2>5. PICK old \in Entry : old = entry[e]
      BY <1>1, <2>4
    <2>6. PICK pinned \in BOOLEAN, suppressed \in BOOLEAN :
             /\ suppressed = IF operation = "pin" THEN q.read.suppressed ELSE operation = "suppress"
             /\ entry' = IF Live(e) THEN [entry EXCEPT ![e].pinned = pinned, ![e].suppressed = suppressed] ELSE entry
      <3>1. q.read.pinned \in BOOLEAN /\ q.read.suppressed \in BOOLEAN
        BY DEF Curator, Entry
      <3>2. (operation = "pin" \/ q.read.pinned) \in BOOLEAN /\ (operation = "suppress") \in BOOLEAN
        BY Zenon
      <3> QED
        BY <2>3, <3>1, <3>2
    <2> DEFINE r == [old EXCEPT !.pinned = pinned, !.suppressed = suppressed]
    <2>7. r.key = old.key /\ r.suppressed = suppressed
      BY DEF Entry
    <2>8. entry' = IF Live(e) THEN [entry EXCEPT ![e] = r] ELSE entry
      BY <1>1, <2>4, <2>5, <2>6
    <2> HIDE DEF r
    <2>9. \A d \in Entries : entry'[d].key = entry[d].key /\ (~Live(d) => entry'[d] = entry[d])
                             /\ (d # e => entry'[d] = entry[d] /\ (d \in hidden' <=> d \in hidden))
      BY <1>1, <2>3, <2>4, <2>5, <2>7, <2>8
    <2>10. ASSUME ~crossed PROVE entry'[e].suppressed = suppressed /\ Live(e)
      <3>1. Live(e)
        BY <2>1, <2>2, <2>10 DEF OrderInv, InOrder, EditReadFresh
      <3> QED
        BY <1>1, <2>4, <2>7, <2>8, <3>1
    <2>11. ASSUME ~crossed, entry[e].suppressed <=> e \in hidden PROVE entry'[e].suppressed <=> e \in hidden'
      <3>1. CASE operation = "pin"
        <4>1. suppressed = entry[e].suppressed
          BY <2>1, <2>2, <2>6, <2>11, <3>1 DEF OrderInv, InOrder, EditReadFresh
        <4>2. hidden' = hidden
          BY <2>3, <3>1
        <4> QED
          BY <2>10, <2>11, <4>1, <4>2
      <3>2. CASE operation = "suppress"
        <4>1. suppressed = TRUE /\ hidden' = hidden \cup {e}
          BY <2>3, <2>6, <2>10, <2>11, <3>2
        <4> QED
          BY <2>10, <2>11, <4>1
      <3>3. CASE operation = "unsuppress"
        <4>1. suppressed = FALSE /\ hidden' = hidden \ {e}
          BY <2>3, <2>6, <3>3
        <4> QED
          BY <2>10, <2>11, <4>1
      <3> QED
        BY <3>1, <3>2, <3>3
    <2>12. \A d \in Curators : Edits(d)' => curator'[d] = curator[d]
      BY <1>1, <2>1, EmptyRecords DEF Edits
    <2>13. ~crossed => \A d \in Curators : curator'[d].at # "edit"
      BY <1>1, <2>1, EmptyRecords DEF OrderInv, InOrder, OneEdit, Edits
    <2> QED
      BY <1>1, <2>1, <2>9, <2>11, <2>12, <2>13, FlagsWritten
  <1> QED
    BY <1>2, <1>3, <1>4, <1>5

\* Edits of tasks, and resets.
LEMMA OrderTasks ==
    ASSUME MemoryInv, OrderInv, openTasks \in Nat, NEW c \in Curators,
           LookForTask(c) \/ AddTask(c) \/ CloseTask(c) \/ Reset(c) \/ FlushQueue(c) \/ Truncate(c)
    PROVE  OrderInv'
  <1>1. crossed \in BOOLEAN /\ curator \in [Curators -> Curator]
    BY DEF OrderInv, MemoryInv, MemoryKinds
  <1>2. CASE LookForTask(c) \/ Reset(c)
    <2>1. PICK at \in {"add", "flush"} : /\ curator' = [curator EXCEPT ![c] = [Away EXCEPT !.at = at]]
                                         /\ at = "add" => LookForTask(c)
      BY <1>2 DEF LookForTask, Reset
    <2> DEFINE q == [Away EXCEPT !.at = at]
    <2>2. q \in Curator /\ q.at = at
      BY EmptyRecords DEF Away, Curator
    <2> HIDE DEF q
    <2>3. UNCHANGED <<entry, links, openTasks, hidden, erased, specialist>>
      BY <1>2 DEF LookForTask, Reset
    <2>4. crossed' \in BOOLEAN /\ (crossed => crossed') /\ ((\E d \in Curators : Edits(d)) => crossed')
          /\ (LookForTask(c) => openTasks = 0 /\ (specialist.at = "create" => crossed'))
      <3>1. CASE LookForTask(c)
        <4>1. crossed' = (crossed \/ Editing \/ specialist.at = "create") /\ openTasks = 0
          BY <3>1 DEF LookForTask
        <4>2. (\E d \in Curators : Edits(d)) => Editing
          BY EditingIs
        <4> QED
          BY <1>1, <4>1, <4>2, Zenon
      <3>2. CASE Reset(c)
        <4>1. crossed' = (crossed \/ \E d \in Curators : curator[d].at # "idle")
          BY <3>2 DEF Reset
        <4>2. (\E d \in Curators : Edits(d)) => \E d \in Curators : curator[d].at # "idle"
          BY DEF Edits
        <4>3. crossed' \in BOOLEAN /\ (crossed => crossed') /\ ((\E d \in Curators : Edits(d)) => crossed')
          BY <1>1, <4>1, <4>2, Zenon
        <4>4. curator'[c].at = "flush"
          BY <1>1, <3>2, EmptyRecords DEF Reset, Away
        <4>5. LookForTask(c) => curator'[c].at = "add"
          BY <1>1 DEF LookForTask, Away
        <4> QED
          BY <4>3, <4>4, <4>5
      <3> QED
        BY <1>2, <3>1, <3>2
    <2> QED
      BY <2>1, <2>2, <2>3, <2>4, EditBegins DEF q
  <1>3. CASE AddTask(c)
    <2>1. /\ UNCHANGED <<entry, links, hidden, erased, crossed, specialist>>
          /\ openTasks' = openTasks + 1 /\ curator' = [curator EXCEPT ![c] = Away]
          /\ curator[c].at = "add"
      BY <1>3 DEF AddTask
    <2>2. curator'[c].at = "idle" /\ \A d \in Curators : d # c => curator'[d] = curator[d]
      BY <1>1, <2>1, EmptyRecords
    <2>3. EmptyIsBlank'
      BY <2>1 DEF OrderInv, EmptyIsBlank, Live
    <2>4. ASSUME ~crossed PROVE InOrder'
      <3>1. InOrder
        BY <2>4 DEF OrderInv
      <3>2. \A d \in Curators : ~Edits(d)'
        BY <2>1, <2>2, <3>1 DEF InOrder, OneEdit, Edits
      <3>3. OneEdit' /\ EditReadFresh' /\ ~AddsTask'
        BY <3>2 DEF OneEdit, EditReadFresh, AddsTask, Edits
      <3>4. openTasks = 0 /\ specialist.at # "create"
        BY <2>1, <3>1 DEF InOrder, OneTask, AddsTask
      <3>5. OneTask'
        BY <2>1, <3>3, <3>4 DEF OneTask
      <3>6. FlagsKept' /\ NoneErased'
        BY <2>1, <3>1 DEF InOrder, FlagsKept, NoneErased
      <3> QED
        BY <3>3, <3>5, <3>6 DEF InOrder
    <2> QED
      BY <1>1, <2>1, <2>3, <2>4 DEF OrderInv
  <1>4. CASE CloseTask(c)
    <2>1. /\ UNCHANGED <<entry, links, hidden, erased, crossed, specialist, curator>>
          /\ openTasks' = openTasks - 1 /\ openTasks > 0
      BY <1>4 DEF CloseTask
    <2>2. EmptyIsBlank'
      BY <2>1 DEF OrderInv, EmptyIsBlank, Live
    <2>3. ASSUME ~crossed PROVE InOrder'
      <3>1. InOrder
        BY <2>3 DEF OrderInv
      <3>2. openTasks = 1
        BY <1>1, <2>1, <3>1 DEF InOrder, OneTask
      <3>3. OneTask'
        BY <2>1, <3>1, <3>2 DEF InOrder, OneTask, AddsTask
      <3>4. OneEdit' /\ EditReadFresh' /\ FlagsKept' /\ NoneErased'
        BY <2>1, <3>1 DEF InOrder, OneEdit, EditReadFresh, Edits, Live, FlagsKept, NoneErased
      <3> QED
        BY <3>3, <3>4 DEF InOrder
    <2> QED
      BY <2>1, <2>2, <2>3 DEF OrderInv
  <1>5. CASE FlushQueue(c)
    <2>1. /\ UNCHANGED <<entry, links, hidden, erased, crossed, specialist, openTasks>>
          /\ curator' = [curator EXCEPT ![c].at = "truncate"] /\ curator[c].at = "flush"
      BY <1>5 DEF FlushQueue
    <2>2. curator'[c].at = "truncate" /\ \A d \in Curators : d # c => curator'[d] = curator[d]
      BY <1>1, <2>1 DEF Curator
    <2>3. EmptyIsBlank'
      BY <2>1 DEF OrderInv, EmptyIsBlank, Live
    <2>4. ASSUME ~crossed PROVE InOrder'
      <3>1. InOrder
        BY <2>4 DEF OrderInv
      <3>2. \A d \in Curators : Edits(d)' <=> Edits(d)
        BY <2>1, <2>2 DEF Edits
      <3>3. OneEdit' /\ EditReadFresh'
        BY <2>1, <2>2, <3>1, <3>2 DEF InOrder, OneEdit, EditReadFresh, Live
      <3>4. AddsTask' <=> AddsTask
        BY <2>1, <2>2 DEF AddsTask
      <3>5. OneTask' /\ FlagsKept' /\ NoneErased'
        BY <2>1, <3>1, <3>4 DEF InOrder, OneTask, FlagsKept, NoneErased
      <3> QED
        BY <3>3, <3>5 DEF InOrder
    <2> QED
      BY <2>1, <2>3, <2>4 DEF OrderInv
  <1>6. CASE Truncate(c)
    <2>1. /\ entry' = [e \in Entries |-> NoEntry] /\ links' = {} /\ openTasks' = 0 /\ hidden' = {}
          /\ UNCHANGED specialist /\ curator' = [curator EXCEPT ![c] = Away]
          /\ crossed' = (crossed \/ specialist.at # "idle" \/ queue # {} \/ \E d \in Curators \ {c} : curator[d].at # "idle")
      BY <1>6 DEF Truncate
    <2>2. /\ crossed' \in BOOLEAN /\ (crossed => crossed') /\ (specialist.at # "idle" => crossed')
          /\ \A d \in Curators \ {c} : curator[d].at # "idle" => crossed'
      BY <1>1, <2>1, Zenon
    <2>3. EmptyIsBlank'
      BY <2>1 DEF EmptyIsBlank
    <2>4. ASSUME ~crossed' PROVE InOrder'
      <3>1. \A d \in Curators : curator'[d].at = "idle"
        BY <1>1, <2>1, <2>2, <2>4, EmptyRecords
      <3>2. OneEdit' /\ EditReadFresh' /\ ~AddsTask'
        BY <3>1 DEF OneEdit, EditReadFresh, AddsTask, Edits
      <3>3. FlagsKept'
        BY <2>1 DEF FlagsKept, NoEntry
      <3>4. OneTask' /\ NoneErased'
        BY <2>1, <2>2, <2>4, <3>2 DEF OneTask, NoneErased
      <3> QED
        BY <3>2, <3>3, <3>4 DEF InOrder
    <2> QED
      BY <2>2, <2>3, <2>4 DEF OrderInv
  <1> QED
    BY <1>2, <1>3, <1>4, <1>5, <1>6

\* What the worker writes keeps the flags: of an entry that it found, and of one that is new.
LEMMA OrderWrites == MemoryInv /\ OrderInv /\ WriteEntry => OrderInv'
  <1> SUFFICES ASSUME MemoryInv, OrderInv, WriteEntry PROVE OrderInv'
    OBVIOUS
  <1>1. PICK old \in Specialist : old = specialist /\ old.at = "write"
    BY DEF MemoryInv, MemoryKinds, WriteEntry
  <1>2. /\ UNCHANGED <<links, openTasks, hidden, erased, crossed, curator>>
        /\ crossed \in BOOLEAN /\ entry \in [Entries -> Entry]
    BY DEF WriteEntry, OrderInv, MemoryInv, MemoryKinds
  <1>3. PICK f \in old.todo, last \in Entries :
           /\ specialist' = [old EXCEPT !.at = "link", !.todo = @ \ {f}, !.last = last]
           /\ \A e \in Entries : e # last => entry'[e] = entry[e]
           /\ \/ entry'[last] = entry[last]
              \/ /\ Live(last)
                 /\ entry'[last].key = entry[last].key /\ entry'[last].suppressed = entry[last].suppressed
              \/ ~Live(last) /\ entry'[last].key = f /\ entry'[last].suppressed = FALSE
    <2>1. PICK f \in old.todo :
             IF old.found[f] # 0
             THEN /\ \/ entry' = entry
                     \/ /\ Live(old.found[f])
                        /\ \E score : entry' = [entry EXCEPT ![old.found[f]].score = score]
                  /\ specialist' = [old EXCEPT !.at = "link", !.todo = @ \ {f}, !.last = old.found[f]]
             ELSE /\ \E e \in Entries : ~Live(e)
                  /\ \E score : entry' = [entry EXCEPT ![Fresh] = [NoEntry EXCEPT !.key = f, !.score = score]]
                  /\ specialist' = [old EXCEPT !.at = "link", !.todo = @ \ {f}, !.last = Fresh]
      BY <1>1 DEF WriteEntry
    <2>2. old.found[f] \in 0 .. MaxEntries
      BY DEF Specialist
    <2>3. CASE old.found[f] # 0
      <3>1. PICK known \in Entries : known = old.found[f]
        BY <2>2, <2>3, MemoryAssumption DEF Entries
      <3>2. PICK was \in Entry : was = entry[known]
        BY <1>2
      <3>3. ASSUME NEW score, Live(known), entry' = [entry EXCEPT ![known].score = score]
            PROVE  /\ \A e \in Entries : e # known => entry'[e] = entry[e]
                   /\ entry'[known].key = entry[known].key /\ entry'[known].suppressed = entry[known].suppressed
        <4>1. [was EXCEPT !.score = score].key = was.key /\ [was EXCEPT !.score = score].suppressed = was.suppressed
          BY DEF Entry
        <4> QED
          BY <1>2, <3>2, <3>3, <4>1
      <3>4. CASE entry' = entry
        BY <2>1, <2>3, <3>1, <3>4
      <3> QED
        BY <2>1, <2>3, <3>1, <3>3, <3>4
    <2>4. CASE old.found[f] = 0
      <3>1. PICK new \in Entries : new = Fresh /\ ~Live(new)
        BY <2>1, <2>4 DEF Fresh
      <3>2. PICK score : entry' = [entry EXCEPT ![new] = [NoEntry EXCEPT !.key = f, !.score = score]]
        BY <2>1, <2>4, <3>1
      <3>3. /\ entry'[new].key = f /\ entry'[new].suppressed = FALSE
            /\ \A e \in Entries : e # new => entry'[e] = entry[e]
        BY <1>2, <3>2 DEF NoEntry
      <3> QED
        BY <2>1, <2>4, <3>1, <3>3
    <2> QED
      BY <2>3, <2>4
  <1>4. specialist'.at = "link" /\ specialist'.message = old.message
    BY <1>3 DEF Specialist
  <1>5. f # "none"
    BY MemoryAssumption DEF Specialist
  <1>6. \A e \in Entries : Live(e) => Live(e)' /\ entry'[e].suppressed = entry[e].suppressed
    BY <1>3 DEF Live
  <1>7. EmptyIsBlank'
    BY <1>3, <1>5 DEF OrderInv, EmptyIsBlank, Live
  <1>8. ASSUME ~crossed PROVE InOrder'
    <2>1. InOrder
      BY <1>8 DEF OrderInv
    <2>2. OneEdit' /\ OneTask'
      BY <1>1, <1>2, <1>4, <2>1 DEF InOrder, OneEdit, OneTask, Edits, AddsTask
    <2>3. EditReadFresh'
      <3>1. \A c \in Curators : curator[c].entries \subseteq Entries
        BY DEF MemoryInv, MemoryKinds, Curator
      <3> QED
        BY <1>2, <1>6, <2>1, <3>1 DEF InOrder, EditReadFresh
    <2>4. FlagsKept'
      <3>1. ~Live(last) => entry[last].suppressed = FALSE
        BY DEF OrderInv, EmptyIsBlank, NoEntry
      <3> QED
        BY <1>2, <1>3, <2>1, <3>1 DEF InOrder, FlagsKept
    <2>5. NoneErased'
      BY <1>1, <1>2, <1>4, <2>1 DEF InOrder, NoneErased
    <2> QED
      BY <2>2, <2>3, <2>4, <2>5 DEF InOrder
  <1> QED
    BY <1>2, <1>7, <1>8 DEF OrderInv

\* The worker's steps.
LEMMA OrderWorker ==
    ASSUME MemoryInv, OrderInv, openTasks \in Nat, Extract \/ JobThrows \/ WorkerDies
    PROVE  OrderInv'
  <1>1. PICK old \in Specialist : old = specialist
    BY DEF MemoryInv, MemoryKinds
  <1>2. crossed \in BOOLEAN /\ entry \in [Entries -> Entry]
    BY DEF OrderInv, MemoryInv, MemoryKinds
  <1>3. CASE TakeJob \/ LookUp \/ FinishJob \/ MarkJobFailed \/ JobThrows
    <2>1. UNCHANGED <<entry, links, openTasks, hidden, erased, crossed, curator>>
      BY <1>3 DEF TakeJob, LookUp, FinishJob, MarkJobFailed, JobThrows
    <2>2. CASE TakeJob
      <3>1. PICK m \in Messages :
               specialist' = [AtRest EXCEPT !.at = IF m \in erased THEN "caught" ELSE "extract", !.message = m]
        BY <2>2 DEF TakeJob, MemoryInv, MemoryKinds
      <3>2. specialist'.at = (IF m \in erased THEN "caught" ELSE "extract") /\ specialist'.message = m
        BY <3>1 DEF AtRest
      <3> QED
        BY <2>1, <3>2, OrderBeside
    <2>3. CASE LookUp
      <3>1. specialist'.at \in {"task", "write"} /\ specialist'.message = old.message /\ old.at = "extract"
        BY <1>1, <2>3 DEF LookUp, Specialist
      <3> QED
        BY <1>1, <2>1, <3>1, OrderBeside
    <2>4. CASE FinishJob \/ MarkJobFailed \/ JobThrows
      <3>1. specialist'.at \in {"idle", "caught"}
        BY <1>1, <2>4, EmptyRecords DEF FinishJob, MarkJobFailed, JobThrows, Specialist
      <3> QED
        BY <2>1, <3>1, OrderBeside
    <2> QED
      BY <1>3, <2>2, <2>3, <2>4
  <1>4. CASE LinkEntry
    <2>1. UNCHANGED <<entry, openTasks, hidden, erased, crossed, curator>> /\ old.at = "link"
      BY <1>1, <1>4 DEF LinkEntry
    <2>2. links' = links \/ links' = links \cup {<<old.last, old.message>>}
      BY <1>1, <1>4 DEF LinkEntry
    <2>3. PICK at \in {"caught", "write", "task"} : specialist' = [old EXCEPT !.at = at]
      BY <1>1, <1>4 DEF LinkEntry
    <2>4. specialist'.at = at /\ specialist'.message = old.message
      BY <2>3 DEF Specialist
    <2>5. EmptyIsBlank'
      BY <2>1 DEF OrderInv, EmptyIsBlank, Live
    <2>6. ASSUME ~crossed PROVE InOrder'
      <3>1. InOrder
        BY <2>6 DEF OrderInv
      <3>2. OneEdit' /\ EditReadFresh' /\ FlagsKept'
        BY <2>1, <3>1 DEF InOrder, OneEdit, EditReadFresh, Edits, Live, FlagsKept
      <3>3. OneTask'
        BY <2>1, <2>4, <3>1 DEF InOrder, OneTask, AddsTask
      <3>4. NoneErased'
        BY <1>1, <2>1, <2>2, <2>4, <3>1 DEF InOrder, NoneErased
      <3> QED
        BY <3>2, <3>3, <3>4 DEF InOrder
    <2> QED
      BY <1>2, <2>1, <2>5, <2>6 DEF OrderInv
  <1>5. CASE FindOpenTask
    <2> DEFINE creates == said[specialist.message].task /\ openTasks = 0
    <2>1. UNCHANGED <<entry, links, openTasks, hidden, erased, curator>> /\ old.at = "task"
      BY <1>1, <1>5 DEF FindOpenTask
    <2>2. PICK at \in {"create", "finish"} : /\ specialist' = [old EXCEPT !.at = at]
                                             /\ at = "create" <=> creates
      BY <1>1, <1>5 DEF FindOpenTask
    <2>3. specialist'.at = at /\ specialist'.message = old.message
      BY <2>2 DEF Specialist
    <2>4. crossed' = (crossed \/ (creates /\ \E c \in Curators : curator[c].at = "add"))
      BY <1>5 DEF FindOpenTask
    <2>5. crossed' \in BOOLEAN /\ (crossed => crossed') /\ (creates /\ AddsTask => crossed')
      BY <1>2, <2>4, Zenon DEF AddsTask
    <2>6. EmptyIsBlank'
      BY <2>1 DEF OrderInv, EmptyIsBlank, Live
    <2>7. ASSUME ~crossed' PROVE InOrder'
      <3>1. InOrder
        BY <2>5, <2>7 DEF OrderInv
      <3>2. OneEdit' /\ EditReadFresh' /\ FlagsKept'
        BY <2>1, <3>1 DEF InOrder, OneEdit, EditReadFresh, Edits, Live, FlagsKept
      <3>3. AddsTask' <=> AddsTask
        BY <2>1 DEF AddsTask
      <3>4. OneTask'
        BY <2>1, <2>2, <2>3, <2>5, <2>7, <3>1, <3>3 DEF InOrder, OneTask
      <3>5. NoneErased'
        BY <1>1, <2>1, <2>3, <3>1 DEF InOrder, NoneErased
      <3> QED
        BY <3>2, <3>4, <3>5 DEF InOrder
    <2> QED
      BY <2>5, <2>6, <2>7 DEF OrderInv
  <1>6. CASE CreateTaskRow
    <2>1. UNCHANGED <<entry, links, hidden, erased, crossed, curator>> /\ old.at = "create"
      BY <1>1, <1>6 DEF CreateTaskRow
    <2>2. PICK at \in {"caught", "finish"} : /\ specialist' = [old EXCEPT !.at = at]
                                             /\ openTasks' = openTasks \/ openTasks' = openTasks + 1
      BY <1>1, <1>6 DEF CreateTaskRow
    <2>3. specialist'.at = at /\ specialist'.message = old.message
      BY <2>2 DEF Specialist
    <2>4. EmptyIsBlank'
      BY <2>1 DEF OrderInv, EmptyIsBlank, Live
    <2>5. ASSUME ~crossed PROVE InOrder'
      <3>1. InOrder
        BY <2>5 DEF OrderInv
      <3>2. OneEdit' /\ EditReadFresh' /\ FlagsKept'
        BY <2>1, <3>1 DEF InOrder, OneEdit, EditReadFresh, Edits, Live, FlagsKept
      <3>3. AddsTask' <=> AddsTask
        BY <2>1 DEF AddsTask
      <3>4. OneTask'
        BY <1>1, <2>1, <2>2, <2>3, <3>1, <3>3 DEF InOrder, OneTask
      <3>5. NoneErased'
        BY <1>1, <2>1, <2>3, <3>1 DEF InOrder, NoneErased
      <3> QED
        BY <3>2, <3>4, <3>5 DEF InOrder
    <2> QED
      BY <1>2, <2>1, <2>4, <2>5 DEF OrderInv
  <1>7. CASE WorkerDies
    <2>1. crossed' = TRUE /\ entry' = entry
      BY <1>7 DEF WorkerDies
    <2>2. EmptyIsBlank'
      BY <2>1 DEF OrderInv, EmptyIsBlank, Live
    <2> QED
      BY <2>1, <2>2 DEF OrderInv
  <1> QED
    BY <1>3, <1>4, <1>5, <1>6, <1>7, OrderWrites DEF Extract

\* Every step keeps the order.
LEMMA OrderKept == MemoryInv /\ LinksInv /\ OrderInv /\ [MemoryNext]_memoryVars => OrderInv'
  <1> SUFFICES ASSUME MemoryInv, LinksInv, OrderInv, [MemoryNext]_memoryVars PROVE OrderInv'
    OBVIOUS
  <1>1. CASE UNCHANGED memoryVars
    BY <1>1, OrderBeside DEF memoryVars
  <1>2. openTasks \in Nat
    BY DEF LinksInv, JobKinds
  <1> QED
    BY <1>1, <1>2, OrderTurns, OrderEdits, OrderTasks, OrderWorker DEF MemoryNext

\* What an operator suppressed stays so however often it is said again (executeMemoryWrite and
\* processMemoryCandidateJob), a title has one open task, and a reset (resetSecretaryState) leaves
\* nothing of what it deleted: as long as edits do not overlap, no reset meets a job and the worker
\* does not die.
THEOREM MemoryKeepsOrder == MemorySpec => []MemoryInOrder
  <1>1. OrderInv => MemoryInOrder
    BY DEF OrderInv, InOrder, FlagsKept, OneTask, NoneErased, MemoryInOrder
  <1> QED
    BY MemoryInitial, MemoryKept, LinksInitial, LinksKept, OrderInitial, OrderKept, <1>1, PTL DEF MemorySpec

-----------------------------------------------------------------------------
(* The kinds of the memory's variables *)

\* An entry that is to be linked has been written; what is linked and hidden are entries.
WrittenKinds ==
    /\ specialist.at = "link" => specialist.last \in Entries
    /\ links \subseteq Entries \X Messages /\ hidden \subseteq Entries
MemoryTally ==
    /\ stalls \in [Messages -> 0 .. 1] /\ edits \in 0 .. MaxEdits
    /\ memoryFaults \in 0 .. MaxMemoryFaults /\ lost \subseteq Messages

\* At the beginning nothing is linked, hidden or counted.
LEMMA KindsInitial == MemoryInit => WrittenKinds /\ MemoryTally
  <1> SUFFICES ASSUME MemoryInit PROVE WrittenKinds /\ MemoryTally
    OBVIOUS
  <1>1. WrittenKinds
    BY EmptyRecords DEF MemoryInit, WrittenKinds
  <1>2. stalls \in [Messages -> 0 .. 1]
    BY DEF MemoryInit
  <1>3. edits \in 0 .. MaxEdits /\ memoryFaults \in 0 .. MaxMemoryFaults
    BY MemoryAssumption DEF MemoryInit
  <1>4. lost \subseteq Messages
    BY DEF MemoryInit
  <1> QED
    BY <1>1, <1>2, <1>3, <1>4 DEF MemoryTally

\* The worker links what it has written, for a message it has.
LEMMA WrittenKindsKept == MemoryInv /\ WrittenKinds /\ [MemoryNext]_memoryVars => WrittenKinds'
  <1> SUFFICES ASSUME MemoryInv, WrittenKinds, [MemoryNext]_memoryVars PROVE WrittenKinds'
    OBVIOUS
  <1>1. PICK old \in Specialist : old = specialist
    BY DEF MemoryInv, MemoryKinds
  <1>2. CASE UNCHANGED <<specialist, links, hidden>>
    BY <1>2 DEF WrittenKinds
  <1>3. ASSUME specialist'.at # "link", UNCHANGED <<links, hidden>> PROVE WrittenKinds'
    BY <1>3 DEF WrittenKinds
  <1>4. CASE WriteEntry
    <2>1. PICK f \in old.todo : \/ /\ old.found[f] # 0
                                   /\ specialist' = [old EXCEPT !.at = "link", !.todo = @ \ {f}, !.last = old.found[f]]
                                \/ /\ \E e \in Entries : ~Live(e)
                                   /\ specialist' = [old EXCEPT !.at = "link", !.todo = @ \ {f}, !.last = Fresh]
      BY <1>1, <1>4 DEF WriteEntry
    <2>2. old.found[f] \in 0 .. MaxEntries
      BY DEF Specialist
    <2>3. CASE old.found[f] # 0 /\ specialist' = [old EXCEPT !.at = "link", !.todo = @ \ {f}, !.last = old.found[f]]
      <3>1. old.found[f] \in Entries
        BY <2>2, <2>3, MemoryAssumption DEF Entries
      <3>2. specialist'.last = old.found[f]
        BY <2>3 DEF Specialist
      <3> QED
        BY <1>4, <3>1, <3>2 DEF WriteEntry, WrittenKinds
    <2>4. CASE /\ \E e \in Entries : ~Live(e)
               /\ specialist' = [old EXCEPT !.at = "link", !.todo = @ \ {f}, !.last = Fresh]
      <3>1. Fresh \in Entries
        BY <2>4 DEF Fresh
      <3>2. specialist'.last = Fresh
        BY <2>4 DEF Specialist
      <3> QED
        BY <1>4, <3>1, <3>2 DEF WriteEntry, WrittenKinds
    <2> QED
      BY <2>1, <2>3, <2>4
  <1>5. CASE LinkEntry
    <2>1. old.at = "link" /\ old.last \in Entries /\ old.message \in Messages
      BY <1>1, <1>5 DEF LinkEntry, WrittenKinds, MemoryInv, JobsAreNamed
    <2>2. links' \in {links, links \cup {<<old.last, old.message>>}} /\ UNCHANGED hidden
      BY <1>1, <1>5 DEF LinkEntry
    <2>3. PICK at \in {"caught", "write", "task"} : specialist' = [old EXCEPT !.at = at]
      BY <1>1, <1>5 DEF LinkEntry
    <2>4. specialist'.at # "link"
      BY <2>3 DEF Specialist
    <2> QED
      BY <2>1, <2>2, <2>4 DEF WrittenKinds
  <1>6. CASE TakeJob \/ FinishJob \/ MarkJobFailed \/ WorkerDies
    <2>1. UNCHANGED <<links, hidden>>
      BY <1>6 DEF TakeJob, FinishJob, MarkJobFailed, WorkerDies
    <2>2. CASE specialist' = AtRest
      BY <1>3, <2>1, <2>2, EmptyRecords
    <2>3. CASE TakeJob
      <3>1. PICK at \in {"caught", "extract"}, m \in Messages : specialist' = [AtRest EXCEPT !.at = at, !.message = m]
        BY <2>3 DEF TakeJob, MemoryInv, MemoryKinds
      <3>2. specialist'.at # "link"
        BY <3>1, EmptyRecords DEF Specialist
      <3> QED
        BY <1>3, <2>1, <3>2
    <2> QED
      BY <1>6, <2>2, <2>3 DEF FinishJob, MarkJobFailed, WorkerDies
  <1>7. CASE FindOpenTask \/ CreateTaskRow \/ JobThrows
    <2>1. PICK at \in {"create", "finish", "caught"} : specialist' = [old EXCEPT !.at = at]
      BY <1>1, <1>7 DEF FindOpenTask, CreateTaskRow, JobThrows
    <2>2. specialist'.at # "link"
      BY <2>1 DEF Specialist
    <2>3. UNCHANGED <<links, hidden>>
      BY <1>7 DEF FindOpenTask, CreateTaskRow, JobThrows
    <2> QED
      BY <1>3, <2>2, <2>3
  <1>8. CASE LookUp
    <2>1. PICK at \in {"task", "write"} : at = IF said[specialist.message].facts = {} THEN "task" ELSE "write"
      OBVIOUS
    <2>2. specialist'.at = at
      BY <1>1, <1>8, <2>1 DEF LookUp, Specialist
    <2> QED
      BY <1>3, <1>8, <2>1, <2>2 DEF LookUp
  <1>9. ASSUME NEW c \in Curators,
               \/ \E m \in Messages : Say(c, m)
               \/ Enqueue(c) \/ Recall(c) \/ Touch(c) \/ FindMemory(c)
               \/ LookForTask(c) \/ AddTask(c) \/ CloseTask(c) \/ Reset(c) \/ FlushQueue(c)
        PROVE  UNCHANGED <<specialist, links, hidden>>
    BY <1>9 DEF Say, Enqueue, Recall, Touch, FindMemory, LookForTask, AddTask, CloseTask, Reset, FlushQueue
  <1>10. ASSUME NEW c \in Curators, (\E e \in Entries : PatchMemory(c, e)) \/ WriteMemory(c) \/ Truncate(c)
         PROVE  WrittenKinds'
    <2>1. curator[c].entries \subseteq Entries
      BY DEF MemoryInv, MemoryKinds, Curator
    <2>2. hidden' \subseteq Entries
      BY <1>10, <2>1 DEF WrittenKinds, PatchMemory, WriteMemory, Truncate
    <2>3. UNCHANGED specialist /\ links' \in {links, {}}
      BY <1>10 DEF PatchMemory, WriteMemory, Truncate
    <2> QED
      BY <2>2, <2>3 DEF WrittenKinds
  <1>11. CASE UNCHANGED memoryVars
    BY <1>2, <1>11 DEF memoryVars
  <1> QED
    BY <1>2, <1>4, <1>5, <1>6, <1>7, <1>8, <1>9, <1>10, <1>11 DEF MemoryNext, Extract

\* A job is handed out again once, and edits and faults have their bounds.
LEMMA MemoryTallied == MemoryInv /\ MemoryTally /\ [MemoryNext]_memoryVars => MemoryTally'
  <1> SUFFICES ASSUME MemoryInv, MemoryTally, [MemoryNext]_memoryVars PROVE MemoryTally'
    OBVIOUS
  <1> USE DEF MemoryTally
  <1>1. ASSUME edits < MaxEdits, edits' = edits + 1 PROVE edits' \in 0 .. MaxEdits
    BY <1>1, MemoryAssumption
  <1>2. ASSUME memoryFaults < MaxMemoryFaults, memoryFaults' = memoryFaults + 1
        PROVE  memoryFaults' \in 0 .. MaxMemoryFaults
    BY <1>2, MemoryAssumption
  <1>3. ASSUME NEW c \in Curators, UNCHANGED <<stalls, memoryFaults, lost>>, edits' = edits \/ Asks(c) PROVE MemoryTally'
    BY <1>1, <1>3 DEF Asks
  <1>4. ASSUME NEW c \in Curators,
               \/ \E m \in Messages : Say(c, m)
               \/ \E e \in Entries : PatchMemory(c, e)
               \/ Recall(c) \/ Touch(c) \/ FindMemory(c) \/ WriteMemory(c)
               \/ LookForTask(c) \/ AddTask(c) \/ CloseTask(c) \/ Reset(c) \/ FlushQueue(c) \/ Truncate(c)
        PROVE  MemoryTally'
    <2>1. CASE \/ \E m \in Messages : Say(c, m)
               \/ \E e \in Entries : PatchMemory(c, e)
               \/ Recall(c) \/ FindMemory(c) \/ LookForTask(c) \/ CloseTask(c) \/ Reset(c)
      BY <1>3, <2>1 DEF Say, PatchMemory, Recall, FindMemory, LookForTask, CloseTask, Reset
    <2>2. CASE Touch(c) \/ WriteMemory(c) \/ AddTask(c) \/ FlushQueue(c) \/ Truncate(c)
      BY <1>3, <2>2 DEF Touch, WriteMemory, AddTask, FlushQueue, Truncate
    <2> QED
      BY <1>4, <2>1, <2>2
  <1>5. ASSUME NEW c \in Curators, Enqueue(c) PROVE MemoryTally'
    <2>1. curator[c].message \in Messages
      BY <1>5 DEF Enqueue, MemoryInv, JobsAreNamed
    <2>2. lost' \subseteq Messages
      BY <1>5, <2>1 DEF Enqueue
    <2>3. memoryFaults' \in 0 .. MaxMemoryFaults
      BY <1>5, MemoryAssumption DEF Enqueue
    <2>4. UNCHANGED <<stalls, edits>>
      BY <1>5 DEF Enqueue
    <2> QED
      BY <2>2, <2>3, <2>4
  <1>6. CASE JobThrows
    BY <1>2, <1>6 DEF JobThrows
  <1>7. CASE WorkerDies
    <2>1. stalls' = stalls \/ \E m \in DOMAIN stalls : stalls' = [stalls EXCEPT ![m] = 1]
      <3> QED
        BY <1>7 DEF WorkerDies
    <2>2. stalls' \in [Messages -> 0 .. 1]
      BY <2>1
    <2> QED
      BY <1>2, <1>7, <2>2 DEF WorkerDies
  <1>8. CASE Extract
    <2>1. CASE MarkJobFailed
      <3>1. specialist.message \in Messages
        BY <2>1 DEF MarkJobFailed, MemoryInv, JobsAreNamed
      <3>2. lost' \subseteq Messages
        BY <2>1, <3>1 DEF MarkJobFailed
      <3>3. UNCHANGED <<stalls, edits, memoryFaults>>
        BY <2>1 DEF MarkJobFailed
      <3> QED
        BY <3>2, <3>3
    <2> QED
      BY <1>8, <2>1 DEF Extract, TakeJob, LookUp, WriteEntry, LinkEntry, FindOpenTask, CreateTaskRow, FinishJob
  <1>9. CASE UNCHANGED memoryVars
    BY <1>9 DEF memoryVars
  <1> QED
    BY <1>4, <1>5, <1>6, <1>7, <1>8, <1>9 DEF MemoryNext

\* So the memory's variables stay of their kinds, whatever is edited, said again or reset.
LEMMA MemoryTypes == MemoryInit /\ [][MemoryNext]_memoryVars => []MemoryTypeOK
  <1>1. MemoryInv /\ LinksInv /\ OrderInv /\ WrittenKinds /\ MemoryTally => MemoryTypeOK
    BY DEF MemoryInv, MemoryKinds, LinksInv, JobKinds, OrderInv, WrittenKinds, MemoryTally, MemoryTypeOK
  <1> QED
    BY MemoryInitial, MemoryKept, LinksInitial, LinksKept, OrderInitial, OrderKept,
       KindsInitial, WrittenKindsKept, MemoryTallied, <1>1, PTL

-----------------------------------------------------------------------------
(* The console of the jobs. *)

\* A chain knows its job when it asks for the detail, and an action its job and its verb.
Chain == [at : Stages, verb : Verbs \cup {"none"}, job : Builds \cup {Nothing}, saw : [Builds -> Standings]]
Knows(c, q) ==
    /\ q.at \in {"detail", "detailed"} => q.job \in Builds
    /\ q.at = "post" => c = "create" \/ (c \in Presses /\ q.job \in Builds /\ q.verb \in Verbs)
ChainsKnow(f) == f \in [Chains -> Chain] /\ \A c \in Chains : Knows(c, f[c])

ConsoleKinds ==
    /\ status \in [Builds -> Standings] /\ listed \in [Builds -> Standings]
    /\ chosen \in Builds \cup {Nothing} /\ view \in {"operations", "history"}
    /\ shown \in Detail \cup {NoDetail}
    /\ ChainsKnow(flow)
    /\ busyKey \in Keys \cup {NoKey}
    /\ sweep \in [does : {"cancel", "delete"}, left : SUBSET Builds] \cup {NoSweep}
ConsoleTally == turnsMade \in 0 .. MaxTurns /\ picks \in 0 .. MaxPicks /\ misses \in 0 .. MaxMisses

\* Of a set of jobs, one is the first in the order they are listed in.
LEMMA FirstIsThere == ASSUME NEW some \in SUBSET Builds, some # {} PROVE First(some) \in some
  <1> DEFINE before == {pair \in Nat \X Nat : pair[1] < pair[2]}
  <1>1. IsWellFoundedOn(before, Nat)
    BY NatLessThanWellFounded DEF OpToRel
  <1>2. some \subseteq Nat
    BY ConsoleAssumption
  <1>3. PICK b \in some : \A o \in some : ~(<<o, b>> \in before)
    <2> HIDE DEF before
    <2> QED
      BY <1>1, <1>2, WFMin
  <1>4. ASSUME NEW o \in some PROVE b <= o
    <2>1. o \in Nat /\ b \in Nat /\ ~(<<o, b>> \in before)
      BY <1>2, <1>3
    <2>2. ~(o < b)
      BY <2>1
    <2> QED
      BY <2>1, <2>2
  <1> QED
    BY <1>4 DEF First

\* Of any set of jobs the first is one of it, or none.
LEMMA FirstOrNone == ASSUME NEW some \in SUBSET Builds PROVE First(some) \in some \cup {Nothing}
  <1>1. CASE some = {}
    BY <1>1 DEF First
  <1> QED
    BY <1>1, FirstIsThere

\* What a list selects, and what a view has a place for, is a job or none.
LEMMA SelectionIs ==
    ASSUME NEW list \in [Builds -> Standings], NEW preferred \in Builds \cup {Nothing}
    PROVE  Selection(list, preferred) \in Builds \cup {Nothing}
  BY FirstOrNone DEF Selection, Operational, History

\* What a view has a place for is a job, or none.
LEMMA InViewIs == ASSUME NEW v PROVE InView(v) \in Builds \cup {Nothing}
  <1> DEFINE group == IF v = "operations" THEN Operational(listed) ELSE History(listed)
             running == {b \in group : listed[b] = "running"}
  <1>1. group \in SUBSET Builds
    BY DEF Operational, History
  <1>2. First(IF running # {} THEN running ELSE group) \in Builds \cup {Nothing}
    BY <1>1, FirstOrNone
  <1> QED
    BY <1>1, <1>2 DEF InView

\* A chain that ends asks nothing, and one that begins asks for what it was begun for.
LEMMA EndedIs == Ended \in Chain /\ Ended.at = "idle" /\ Ended.verb = "none" /\ Ended.job = Nothing
  BY DEF Ended, Chain, Stages, Standings

\* A chain that begins is at its first request, for the job it was begun for.
LEMMA AskingIs ==
    ASSUME NEW stage \in Stages, NEW b \in Builds \cup {Nothing}
    PROVE  Asking(stage, b) \in Chain /\ Asking(stage, b).at = stage /\ Asking(stage, b).job = b
  BY EndedIs DEF Asking, Ended, Chain

\* A chain goes on, knowing what it has to.
LEMMA ChainBecomes ==
    ASSUME NEW f, ChainsKnow(f), NEW c \in Chains, NEW q \in Chain, Knows(c, q)
    PROVE  ChainsKnow([f EXCEPT ![c] = q])
  BY DEF ChainsKnow

\* A chain that ends knows nothing, and has to know nothing.
LEMMA ChainEnds == ASSUME NEW f, ChainsKnow(f), NEW c \in Chains PROVE ChainsKnow([f EXCEPT ![c] = Ended])
  <1>1. Knows(c, Ended)
    BY EndedIs DEF Knows
  <1> QED
    BY <1>1, EndedIs, ChainBecomes

\* A selection is a job or none, and begins a load of its detail.
LEMMA Chosen ==
    ASSUME ConsoleKinds, NEW b \in Builds \cup {Nothing}, NEW f, ChainsKnow(f), Choose(b, f)
    PROVE  chosen' \in Builds \cup {Nothing} /\ shown' \in Detail \cup {NoDetail} /\ ChainsKnow(flow')
  <1>1. chosen' = b /\ shown' \in {shown, NoDetail}
    BY DEF Choose
  <1>2. CASE flow' = f
    BY <1>1, <1>2 DEF ConsoleKinds
  <1>3. ASSUME b # Nothing, NEW slot \in Looks, flow' = [f EXCEPT ![slot] = Asking("detail", b)]
        PROVE  ChainsKnow(flow')
    <2>1. "detail" \in Stages /\ slot \in Chains
      BY DEF Stages, Chains
    <2>2. Asking("detail", b) \in Chain /\ Knows(slot, Asking("detail", b))
      BY <1>3, <2>1, AskingIs DEF Knows
    <2> QED
      BY <1>3, <2>1, <2>2, ChainBecomes
  <1>4. ChainsKnow(flow')
    BY <1>2, <1>3 DEF Choose
  <1> QED
    BY <1>1, <1>4 DEF ConsoleKinds

\* At the beginning the page loads its list.
LEMMA ConsoleInitial == ConsoleInit => ConsoleKinds /\ ConsoleTally
  <1> SUFFICES ASSUME ConsoleInit PROVE ConsoleKinds /\ ConsoleTally
    OBVIOUS
  <1>1. ConsoleTally
    BY ConsoleAssumption DEF ConsoleInit, ConsoleTally
  <1>2. ASSUME NEW c \in Chains
        PROVE  /\ flow[c] = (IF c = "mount" THEN Asking("list", Nothing) ELSE Ended)
               /\ flow[c] \in Chain /\ Knows(c, flow[c])
    <2>1. flow[c] = IF c = "mount" THEN Asking("list", Nothing) ELSE Ended
      BY DEF ConsoleInit
    <2>2. Asking("list", Nothing) \in Chain /\ Asking("list", Nothing).at = "list"
      BY AskingIs DEF Stages
    <2> QED
      BY <2>1, <2>2, EndedIs DEF Knows
  <1>3. flow \in [Chains -> Chain]
    BY <1>2 DEF ConsoleInit
  <1>4. ChainsKnow(flow)
    BY <1>2, <1>3 DEF ChainsKnow
  <1>5. status \in [Builds -> Standings] /\ listed \in [Builds -> Standings]
    BY DEF ConsoleInit, Standings, Active
  <1> QED
    BY <1>1, <1>4, <1>5 DEF ConsoleInit, ConsoleKinds

\* Requests are answered, fail or are followed by the next one.
LEMMA AdvanceKeeps == ASSUME ConsoleKinds, NEW c \in Chains, Advance(c) PROVE ConsoleKinds'
  <1> USE DEF ConsoleKinds
  <1>1. PICK old \in Chain : old = flow[c] /\ Knows(c, old)
    BY DEF ChainsKnow
  <1>2. ASSUME NEW q \in Chain, Knows(c, q), flow' = [flow EXCEPT ![c] = q] PROVE ChainsKnow(flow')
    BY <1>2, ChainBecomes
  <1>3. ASSUME Ends(c) PROVE ChainsKnow(flow') /\ busyKey' \in Keys \cup {NoKey}
                             /\ UNCHANGED <<listed, chosen, view, sweep>>
    BY <1>3, ChainEnds DEF Ends
  <1>4. CASE Answer(c)
    <2>1. PICK at \in {"listed", "detailed"} : at = IF old.at = "list" THEN "listed" ELSE "detailed"
      OBVIOUS
    <2>2. PICK saw \in [Builds -> Standings] :
             saw = [b \in Builds |-> IF old.at = "list" \/ b = old.job THEN status[b] ELSE "absent"]
      BY DEF Standings
    <2> DEFINE q == [old EXCEPT !.at = at, !.saw = saw]
    <2>3. flow' = [flow EXCEPT ![c] = q]
      BY <1>1, <1>4, <2>1, <2>2 DEF Answer, ChainsKnow
    <2>4. q \in Chain /\ q.at = at /\ q.job = old.job
      BY <2>1 DEF Chain, Stages
    <2>5. at = "detailed" => old.job \in Builds
      BY <1>1, <1>4, <2>1 DEF Answer, Knows
    <2>6. Knows(c, q)
      BY <2>4, <2>5 DEF Knows
    <2>7. ChainsKnow(flow')
      BY <1>2, <2>3, <2>4, <2>6
    <2> QED
      BY <1>4, <2>7 DEF Answer
  <1>5. ASSUME old.at \in {"list", "listed"} PROVE AfterList(c) \in Chain /\ Knows(c, AfterList(c))
    <2>1. CASE old.job = Nothing
      BY <1>1, <2>1, EndedIs DEF AfterList, Knows
    <2>2. CASE old.job # Nothing
      <3>1. AfterList(c) = [old EXCEPT !.at = "detail"]
        BY <1>1, <2>2 DEF AfterList
      <3>2. old.job \in Builds
        BY <2>2 DEF Chain
      <3>3. AfterList(c) \in Chain /\ AfterList(c).at = "detail" /\ AfterList(c).job = old.job
        BY <3>1 DEF Chain, Stages
      <3> QED
        BY <3>2, <3>3 DEF Knows
    <2> QED
      BY <2>1, <2>2
  <1>6. CASE ListArrives(c)
    <2>1. AfterList(c) \in Chain /\ Knows(c, AfterList(c))
      BY <1>1, <1>5, <1>6 DEF ListArrives
    <2>2. ChainsKnow([flow EXCEPT ![c] = AfterList(c)])
      BY <2>1, ChainBecomes
    <2>3. old.saw \in [Builds -> Standings] /\ old.job \in Builds \cup {Nothing}
      BY DEF Chain
    <2>4. Selection(old.saw, old.job) \in Builds \cup {Nothing}
      BY <2>3, SelectionIs
    <2>5. chosen' \in Builds \cup {Nothing} /\ shown' \in Detail \cup {NoDetail} /\ ChainsKnow(flow')
      BY <1>1, <1>6, <2>2, <2>4, Chosen DEF ListArrives
    <2> QED
      BY <1>1, <1>6, <2>3, <2>5 DEF ListArrives
  <1>7. CASE ListFails(c)
    <2>1. AfterList(c) \in Chain /\ Knows(c, AfterList(c))
      BY <1>1, <1>5, <1>7 DEF ListFails
    <2>2. ChainsKnow(flow')
      BY <1>2, <1>7, <2>1 DEF ListFails
    <2> QED
      BY <1>7, <2>2 DEF ListFails
  <1>8. CASE DetailArrives(c)
    <2>1. old.job \in Builds /\ old.saw[old.job] \in Standings
      BY <1>1, <1>8 DEF DetailArrives, Knows, Chain
    <2>2. shown' \in Detail \cup {NoDetail}
      BY <1>1, <1>8, <2>1 DEF DetailArrives, Detail
    <2> QED
      BY <1>3, <1>8, <2>2 DEF DetailArrives
  <1>9. CASE DetailFails(c)
    BY <1>3, <1>9 DEF DetailFails
  <1>10. ASSUME NEW b \in Builds, NEW s \in Standings, status' = [status EXCEPT ![b] = s]
         PROVE  status' \in [Builds -> Standings]
    BY <1>10
  <1>11. ASSUME NEW verb \in Verbs, NEW was \in Standings, NEW s \in Outcomes(verb, was) PROVE s \in Standings
    BY <1>11 DEF Outcomes, DecisionOutcomes, Verbs, Standings, Active
  <1>12. CASE ActionDone(c)
    <2>1. old.job \in Builds /\ old.verb \in Verbs
      BY <1>1, <1>12, ConsoleAssumption DEF ActionDone, Knows
    <2>2. PICK s \in Outcomes(old.verb, status[old.job]) : status' = [status EXCEPT ![old.job] = s]
      BY <1>1, <1>12 DEF ActionDone
    <2>3. s \in Standings
      BY <1>11, <2>1
    <2>4. status' \in [Builds -> Standings]
      BY <1>10, <2>1, <2>2, <2>3
    <2> DEFINE q == [old EXCEPT !.at = "list"]
    <2>5. flow' = [flow EXCEPT ![c] = q]
      BY <1>1, <1>12 DEF ActionDone
    <2>6. q \in Chain /\ q.at = "list"
      BY DEF Chain, Stages
    <2>7. ChainsKnow(flow')
      BY <1>2, <2>5, <2>6 DEF Knows
    <2> QED
      BY <1>12, <2>4, <2>7 DEF ActionDone
  <1>13. CASE PostFails(c)
    BY <1>3, <1>13 DEF PostFails
  <1>14. CASE PostBreaks(c)
    <2>1. PICK b \in Builds :
             /\ c # "create" => b = old.job
             /\ \E s \in IF c = "create" THEN {"failed"} ELSE Outcomes(old.verb, status[b]) :
                   status' = [status EXCEPT ![b] = s]
      BY <1>1, <1>14 DEF PostBreaks
    <2>2. PICK s \in IF c = "create" THEN {"failed"} ELSE Outcomes(old.verb, status[b]) :
             status' = [status EXCEPT ![b] = s]
      BY <2>1
    <2>3. s \in Standings
      <3>1. CASE c = "create"
        BY <2>2, <3>1 DEF Standings
      <3>2. CASE c # "create"
        BY <1>1, <1>11, <1>14, <2>2, <3>2 DEF PostBreaks, Knows
      <3> QED
        BY <3>1, <3>2
    <2>4. status' \in [Builds -> Standings]
      BY <1>10, <2>2, <2>3
    <2> QED
      BY <1>3, <1>14, <2>4 DEF PostBreaks
  <1>15. CASE c = "create" /\ Created
    <2>1. PICK b \in Builds : /\ status' = [status EXCEPT ![b] = "running"]
                              /\ flow' = [flow EXCEPT ![c] = Asking("list", b)]
      BY <1>15 DEF Created
    <2>2. status' \in [Builds -> Standings]
      BY <1>10, <2>1 DEF Standings, Active
    <2>3. Asking("list", b) \in Chain /\ Asking("list", b).at = "list"
      BY AskingIs DEF Stages
    <2>4. ChainsKnow(flow')
      BY <1>2, <2>1, <2>3 DEF Knows
    <2> QED
      BY <1>15, <2>2, <2>4 DEF Created
  <1> QED
    BY <1>4, <1>6, <1>7, <1>8, <1>9, <1>12, <1>13, <1>14, <1>15 DEF Advance

\* The operator selects and acts on jobs the page has.
LEMMA OperatorKeeps ==
    ASSUME ConsoleKinds,
           \/ \E b \in Builds : Pick(b)
           \/ SwitchView \/ Submit \/ \E c \in Presses, verb \in Verbs : Press(c, verb)
    PROVE  ConsoleKinds'
  <1> USE DEF ConsoleKinds
  <1>1. ASSUME NEW b \in Builds, Pick(b) PROVE ConsoleKinds'
    BY <1>1, Chosen DEF Pick, Click
  <1>2. CASE SwitchView
    <2> DEFINE b == IF InView(view') = Nothing THEN chosen ELSE InView(view')
    <2>1. view' \in {"operations", "history"} /\ Choose(b, flow) /\ UNCHANGED <<status, listed, sweep, busyKey>>
      BY <1>2 DEF SwitchView, Click
    <2>2. b \in Builds \cup {Nothing}
      BY InViewIs
    <2> HIDE DEF b
    <2> QED
      BY <2>1, <2>2, Chosen
  <1>3. CASE Submit
    <2>1. Asking("post", Nothing) \in Chain /\ "create" \in Chains
      BY AskingIs DEF Stages, Chains
    <2>2. Knows("create", Asking("post", Nothing))
      BY AskingIs DEF Stages, Knows
    <2>3. ChainsKnow(flow')
      BY <1>3, <2>1, <2>2, ChainBecomes DEF Submit
    <2> QED
      BY <1>3, <2>3 DEF Submit, Click
  <1>4. ASSUME NEW c \in Presses, NEW verb \in Verbs, Press(c, verb) PROVE ConsoleKinds'
    <2>1. PICK b \in Builds : b = shown.of
      BY <1>4 DEF Press, Detail, NoDetail
    <2>2. Asking("post", b) \in Chain /\ Asking("post", b).at = "post" /\ Asking("post", b).job = b /\ c \in Chains
      BY AskingIs DEF Stages, Chains
    <2>3. PICK q \in Chain : q = [Asking("post", b) EXCEPT !.verb = verb]
      BY <2>2 DEF Chain
    <2>4. q.at = "post" /\ q.job = b /\ q.verb = verb
      BY <2>2, <2>3 DEF Chain
    <2>5. ChainsKnow(flow')
      <3>1. flow' = [flow EXCEPT ![c] = q]
        BY <1>4, <2>1, <2>3 DEF Press
      <3>2. Knows(c, q)
        BY <2>4 DEF Knows
      <3> QED
        BY <2>2, <3>1, <3>2, ChainBecomes
    <2>6. busyKey' \in Keys
      BY <1>4, <2>1 DEF Press, Keys
    <2> QED
      BY <1>4, <2>5, <2>6 DEF Press, Click
  <1> QED
    BY <1>1, <1>2, <1>3, <1>4

\* The poll, and what happens to jobs elsewhere.
LEMMA ElsewhereKeeps ==
    ASSUME ConsoleKinds,
           \/ PollJobs \/ (\E b \in Builds : JobTurns(b) \/ SweepCancels(b))
           \/ (\E kind \in Sweeps : SweepStart(kind)) \/ SweepDeletes
    PROVE  ConsoleKinds'
  <1> USE DEF ConsoleKinds
  <1>1. CASE PollJobs
    <2>1. PICK b \in Builds \cup {Nothing} : b = shown.of
      BY DEF Detail, NoDetail
    <2>2. Asking("list", b) \in Chain /\ Asking("list", b).at = "list" /\ "poll" \in Chains
      BY AskingIs DEF Stages, Chains
    <2>3. ChainsKnow(flow')
      BY <1>1, <2>1, <2>2, ChainBecomes DEF PollJobs, Knows
    <2> QED
      BY <1>1, <2>3 DEF PollJobs
  <1>2. ASSUME NEW b \in Builds, JobTurns(b) PROVE ConsoleKinds'
    <2>1. PICK s \in Standings : status' = [status EXCEPT ![b] = s]
      BY <1>2 DEF JobTurns, Standings, Active
    <2> QED
      BY <1>2, <2>1 DEF JobTurns
  <1>3. ASSUME NEW b \in Builds, SweepCancels(b) PROVE ConsoleKinds'
    <2>1. status' \in [Builds -> Standings]
      BY <1>3 DEF SweepCancels, Standings
    <2>2. sweep' \in [does : {"cancel", "delete"}, left : SUBSET Builds] \cup {NoSweep}
      BY <1>3 DEF SweepCancels, NoSweep
    <2> QED
      BY <1>3, <2>1, <2>2 DEF SweepCancels
  <1>4. ASSUME NEW kind \in Sweeps, SweepStart(kind) PROVE ConsoleKinds'
    <2>1. \A S \in Found(kind) : S \subseteq Builds
      BY DEF Found, Sweeps
    <2> QED
      BY <1>4, <2>1 DEF SweepStart
  <1>5. CASE SweepDeletes
    <2>1. status' \in [Builds -> Standings]
      BY <1>5 DEF SweepDeletes, Standings
    <2> QED
      BY <1>5, <2>1 DEF SweepDeletes
  <1> QED
    BY <1>1, <1>2, <1>3, <1>4, <1>5

\* Every step of the page keeps the kinds.
LEMMA ConsoleKept == ConsoleKinds /\ [ConsoleNext]_consoleVars => ConsoleKinds'
  <1> SUFFICES ASSUME ConsoleKinds, [ConsoleNext]_consoleVars PROVE ConsoleKinds'
    OBVIOUS
  <1>1. CASE UNCHANGED consoleVars
    BY <1>1 DEF consoleVars, ConsoleKinds
  <1> QED
    BY <1>1, AdvanceKeeps, OperatorKeeps, ElsewhereKeeps DEF ConsoleNext

\* Clicks, failures and what happens elsewhere have their bounds.
LEMMA ConsoleTallied == ConsoleTally /\ [ConsoleNext]_consoleVars => ConsoleTally'
  <1> SUFFICES ASSUME ConsoleTally, [ConsoleNext]_consoleVars PROVE ConsoleTally'
    OBVIOUS
  <1> USE DEF ConsoleTally
  <1>1. ASSUME misses < MaxMisses, misses' = misses + 1 PROVE misses' \in 0 .. MaxMisses
    BY <1>1, ConsoleAssumption
  <1>2. ASSUME turnsMade < MaxTurns, turnsMade' = turnsMade + 1 PROVE turnsMade' \in 0 .. MaxTurns
    BY <1>2, ConsoleAssumption
  <1>3. ASSUME Click PROVE ConsoleTally'
    BY <1>3, ConsoleAssumption DEF Click
  <1>4. ASSUME NEW c \in Chains, Advance(c) PROVE ConsoleTally'
    BY <1>1, <1>4 DEF Advance, Answer, ListArrives, ListFails, Ends, DetailArrives, DetailFails, ActionDone,
                      PostFails, PostBreaks, Created
  <1>5. CASE PollJobs \/ SweepDeletes \/ \E b \in Builds : SweepCancels(b)
    BY <1>5 DEF PollJobs, SweepDeletes, SweepCancels
  <1>6. CASE (\E b \in Builds : JobTurns(b)) \/ \E kind \in Sweeps : SweepStart(kind)
    BY <1>2, <1>6 DEF JobTurns, SweepStart
  <1>7. CASE (\E b \in Builds : Pick(b)) \/ SwitchView \/ Submit \/ \E c \in Presses, verb \in Verbs : Press(c, verb)
    BY <1>3, <1>7 DEF Pick, SwitchView, Submit, Press
  <1>8. CASE UNCHANGED consoleVars
    BY <1>8 DEF consoleVars
  <1> QED
    BY <1>4, <1>5, <1>6, <1>7, <1>8 DEF ConsoleNext

\* So the page's variables stay of their kinds, in whatever order answers come.
LEMMA ConsoleTypes == ConsoleInit /\ [][ConsoleNext]_consoleVars => []ConsoleTypeOK
  <1>1. ConsoleKinds /\ ConsoleTally => ConsoleTypeOK
    BY DEF ConsoleKinds, ConsoleTally, ChainsKnow, Chain, ConsoleTypeOK
  <1> QED
    BY <1>1, ConsoleInitial, ConsoleKept, ConsoleTallied, PTL

-----------------------------------------------------------------------------
(* The services side by side. *)

\* What all services do is for each of them what it does, or nothing.
LEMMA EachServes ==
    [ServicesNext]_servicesVars =>
        /\ [TelegramNext]_telegramVars /\ [HeartbeatNext]_heartbeatVars /\ [RemindersNext]_reminderVars
        /\ [MemoryNext]_memoryVars /\ [SettingsNext]_settingsVars /\ [ConsoleNext]_consoleVars
  BY DEF ServicesNext, servicesVars, ButTelegram, ButHeartbeat, ButReminders, ButMemory, ButSettings, ButConsole

\* Side by side, the services keep the kinds of all their variables.
THEOREM ServicesTyped == ServicesSpec => []TypesOK
  <1>1. ServicesInit => /\ TelegramInit /\ HeartbeatInit /\ RemindersInit /\ MemoryInit
                        /\ SettingsInit /\ ConsoleInit
    BY DEF ServicesInit
  <1>2. ServicesSpec => []TelegramTypeOK
    BY <1>1, EachServes, TelegramTypes, PTL DEF ServicesSpec
  <1>3. ServicesSpec => []HeartbeatTypeOK
    <2>1. HeartbeatInv => HeartbeatTypeOK
      BY DEF HeartbeatInv
    <2> QED
      BY <1>1, <2>1, EachServes, HeartbeatInitial, HeartbeatNextKeeps, PTL DEF ServicesSpec
  <1>4. ServicesSpec => []RemindersTypeOK
    <2>1. RemindersInv => RemindersTypeOK
      BY DEF RemindersInv
    <2> QED
      BY <1>1, <2>1, EachServes, RemindersInitial, RemindersKept, PTL DEF ServicesSpec
  <1>5. ServicesSpec => []MemoryTypeOK
    BY <1>1, EachServes, MemoryTypes, PTL DEF ServicesSpec
  <1>6. ServicesSpec => []SettingsTypeOK
    BY <1>1, EachServes, SettingsTypes, PTL DEF ServicesSpec, SettingsSpec
  <1>7. ServicesSpec => []ConsoleTypeOK
    BY <1>1, EachServes, ConsoleTypes, PTL DEF ServicesSpec
  <1> QED
    BY <1>2, <1>3, <1>4, <1>5, <1>6, <1>7, PTL DEF TypesOK

=============================================================================
