-------------------------- MODULE AgentJobsProofs --------------------------
(***************************************************************************)
(* Theorems about agent build jobs, for every set of jobs and operators,   *)
(* every bound and every combination of requests and missing probes.       *)
(*                                                                         *)
(* The handlers interleave at every operation, so an invariant of the rows *)
(* says nothing unless it also says what the operations still to be done   *)
(* may write.  The invariants below are therefore about programs: which    *)
(* operations rest on a passed verification, and what a verification       *)
(* outcome still to be written counts.                                     *)
(***************************************************************************)
EXTENDS MCJobRaces, TLAPS

\* A hand-off step in one of these has not been opened by a verification pass.
Unopened == {"absent", "pending", "cancelled"}

\* Operations that are right only once a verification pass found no blocker.
Claims(o) ==
  \/ o.op = "step" /\ o.key = Finalize /\ o.to \notin Unopened
  \/ o.op \in {"status", "begin", "job"} /\ o.to = "completed"
  \/ o.op = "dispatch" /\ o.steps[Finalize] \notin Unopened

Passing(o) == o.op = "verify" /\ o.to = "completed"

Plain == {o \in Op : ~Claims(o) /\ o.op # "verify"}

\* Each claim in a program comes after a passing outcome it will write first.
Backed(prog) ==
  \A i \in DOMAIN prog : Claims(prog[i]) => \E h \in DOMAIN prog : h < i /\ Passing(prog[h])

\* A program writes at most one verification outcome, only the worker's does, and the
\* outcome counts one attempt more than the row; only below the maximum it asks for a repair.
Counted(p, j, prog) ==
  \A i \in DOMAIN prog : prog[i].op = "verify" =>
    /\ p = Worker
    /\ prog[i].attempts = attempts[j] + 1
    /\ prog[i].to = "retrying" => prog[i].attempts < MaxAttempts
    /\ \A h \in DOMAIN prog : prog[h].op = "verify" => h = i

Sound(p, j, prog) == /\ evidence[j] # "none" \/ Backed(prog)
                     /\ Counted(p, j, prog)

ProgramsSound == \A p \in Procs, j \in Jobs : on[p] = j => Sound(p, j, todo[p])

\* The hand-off step is open only after a pass.
HandoffOpened == \A j \in Jobs : step[j][Finalize] \notin Unopened => evidence[j] # "none"

RepairsCounted == \A j \in Jobs : repairs[j] <= attempts[j] /\ repairs[j] < MaxAttempts

\* The inductive invariant.
IInv == TypeOK /\ CompletedIsVerified /\ HandoffOpened /\ RepairsCounted /\ ProgramsSound

-----------------------------------------------------------------------------
(* The operations. *)

LEMMA PlainWriteStatus == \A s \in JobStatus \ {"completed"} : WriteStatus(s) \in Plain
  BY DEF WriteStatus, Plain, Op, Claims
LEMMA PlainBegin == \A s \in JobStatus \ {"completed"} : Begin(s) \in Plain
  BY DEF Begin, Plain, Op, Claims
LEMMA PlainWriteJob == \A s \in JobStatus \ {"completed"}, k \in StepIds : WriteJob(s, k) \in Plain
  BY DEF WriteJob, Plain, Op, Claims
LEMMA PlainWriteStep ==
  \A k \in StepKeys, s \in StepStatus : k # Finalize \/ s \in Unopened => WriteStep(k, s) \in Plain
  BY DEF WriteStep, Plain, Op, Claims
LEMMA PlainWriteCurrent == \A k \in StepIds : WriteCurrent(k) \in Plain
  BY DEF WriteCurrent, Plain, Op, Claims
LEMMA PlainRequire ==
  \A k \in StepKeys, kind \in ReqKinds, n \in Nat : Require(k, kind, n) \in Plain
  BY DEF Require, Plain, Op, Claims
LEMMA PlainClear == \A k \in StepKeys, kinds \in SUBSET ReqKinds : Clear(k, kinds) \in Plain
  BY DEF Clear, Plain, Op, Claims
LEMMA PlainStepOps == \A k \in StepKeys : {Satisfy(k), RunAgent(k)} \subseteq Plain
  BY DEF Satisfy, RunAgent, Plain, Op, Claims
LEMMA PlainResolve == \A r \in Nat, s \in {"satisfied", "rejected"} : Resolve(r, s) \in Plain
  BY DEF Resolve, Plain, Op, Claims
LEMMA PlainReads == \A c \in StepIds : {ReadSteps(c), Settle(c)} \subseteq Plain
  BY DEF ReadSteps, Settle, Plain, Op, Claims
LEMMA PlainRefresh ==
  \A k \in StepKeys, rs \in SUBSET Requirement : Refresh(k, rs) \in Plain
  BY DEF Refresh, Plain, Op, Claims
LEMMA PlainBare == {CancelSteps, Enqueue, Submit, Notify, Reload, ReadJob} \subseteq Plain
  BY DEF CancelSteps, Enqueue, Submit, Notify, Reload, ReadJob, Plain, Op, Claims

LEMMA OpTyped ==
  /\ \A s \in JobStatus, k \in StepIds : WriteJob(s, k) \in Op
  /\ \A k \in StepKeys, s \in StepStatus : WriteStep(k, s) \in Op
  /\ \A s \in StepStatus, n \in Nat : WriteVerify(s, n) \in Op
  /\ \A c \in StepIds, ss \in [StepKeys -> StepStatus] : Dispatch(c, ss) \in Op
  BY DEF WriteJob, WriteStep, WriteVerify, Dispatch, Op

\* What the operations read back are the values they were made with.
LEMMA OpFields ==
  ASSUME NEW o \in Op
  PROVE  /\ o.op \in {"status", "begin", "job"} => o.to \in JobStatus
         /\ o.op \in {"job", "current", "steps", "settle", "dispatch"} => o.current \in StepIds
         /\ o.op = "step" => o.key \in StepKeys /\ o.to \in StepStatus
         /\ o.op = "verify" => o.to \in StepStatus /\ o.attempts \in Nat
         /\ o.op = "require" => o.key \in StepKeys /\ o.kind \in ReqKinds /\ o.count \in Nat
         /\ o.op = "clear" => o.key \in StepKeys /\ o.kinds \in SUBSET ReqKinds
         /\ o.op \in {"satisfy", "agent"} => o.key \in StepKeys
         /\ o.op = "resolve" => o.to \in {"satisfied", "rejected"}
         /\ o.op = "dispatch" => o.steps \in [StepKeys -> StepStatus]
         /\ o.op = "refresh" => o.key \in StepKeys /\ o.reqs \in SUBSET Requirement
  BY DEF Op

LEMMA PlainProgram == Plain \subseteq Op /\ Seq(Plain) \subseteq Seq(Op)
  BY DEF Plain

\* Programs of plain operations, as long as the handlers write them.
LEMMA PlainTuples ==
  /\ <<>> \in Seq(Plain)
  /\ \A a \in Plain : <<a>> \in Seq(Plain)
  /\ \A a, b \in Plain : <<a, b>> \in Seq(Plain)
  /\ \A a, b, c \in Plain : <<a, b, c>> \in Seq(Plain)
  /\ \A a, b, c, d \in Plain : <<a, b, c, d>> \in Seq(Plain)
  /\ \A a, b, c, d, e \in Plain : <<a, b, c, d, e>> \in Seq(Plain)
  OBVIOUS

-----------------------------------------------------------------------------
(* The programs handlers start. *)

\* The worker goes on with a program of plain operations.
GoesOnPlainly == \E prog \in Seq(Plain) : Become(Worker, prog) /\ phase' \in {phase, "mark"}

LEMMA PlainMarkFailed == MarkFailed \in Seq(Plain)
  BY PlainWriteStatus, PlainBare DEF MarkFailed, JobStatus

LEMMA PlainFail == Fail => GoesOnPlainly
  BY PlainMarkFailed DEF Fail, GoesOnPlainly

LEMMA PlainPlan == \A ready \in BOOLEAN : Plan(ready) \in Seq(Plain)
<1> SUFFICES ASSUME NEW ready \in BOOLEAN PROVE Plan(ready) \in Seq(Plain)
  OBVIOUS
<1>1. Begin(IF ready THEN "running" ELSE "waiting_for_runtime") \in Plain
  BY PlainBegin DEF JobStatus
<1>2. WriteStep(Inspect, IF ready THEN "ready" ELSE "waiting_for_runtime") \in Plain
  BY PlainWriteStep DEF StepStatus, StepKeys, Inspect, Finalize
<1>3. \A k \in StepKeys : WriteStep(k, "pending") \in Plain
  BY PlainWriteStep DEF StepStatus, Unopened
<1>4. WriteCurrent(Inspect) \in Plain /\ Reload \in Plain
  BY PlainWriteCurrent, PlainBare DEF StepIds, StepKeys, Inspect
<1>5. Require(Inspect, "runtime", IF ready THEN 0 ELSE 1) \in Plain
  BY PlainRequire DEF StepKeys, Inspect, ReqKinds, DetectedKinds
<1> QED
  BY <1>1, <1>2, <1>3, <1>4, <1>5 DEF Plan, StepKeys, Draft, Implement, Verify, Finalize

LEMMA InspectPlainly == ASSUME NEW j \in Jobs, InspectStep(j) PROVE GoesOnPlainly
<1>1. /\ WriteStep(Inspect, "completed") \in Plain /\ WriteStep(Implement, "ready") \in Plain
      /\ WriteJob("running", Implement) \in Plain /\ WriteJob("running", NoStep) \in Plain
      /\ Enqueue \in Plain
  BY PlainWriteStep, PlainWriteJob, PlainBare
  DEF StepStatus, JobStatus, StepIds, StepKeys, NoStep, Inspect, Implement, Finalize
<1> QED BY <1>1, PlainTuples, PlainFail DEF InspectStep, Proceed, GoesOnPlainly

\* Executing the implementation or the verification, up to its agent pass.
LEMMA AgentStepPlainly ==
  ASSUME NEW j \in Jobs, NEW k \in {Implement, Verify}, NEW rs,
         AwaitInference(j, k, rs) \/ AwaitRuntime(j, k) \/ AwaitApprovals(k, rs) \/ StartAgent(k, rs)
  PROVE  GoesOnPlainly
<1>1. k \in StepKeys /\ k \in StepIds /\ k # Finalize
  BY DEF StepKeys, StepIds, Implement, Verify, Finalize
<1>2. \A s \in StepStatus : WriteStep(k, s) \in Plain
  BY <1>1, PlainWriteStep
<1>3. \A s \in JobStatus \ {"completed"} : WriteJob(s, k) \in Plain
  BY <1>1, PlainWriteJob
<1>4. \A kind \in ReqKinds, n \in {0, 1} : Require(k, kind, n) \in Plain
  BY <1>1, PlainRequire
<1>5. Clear(k, DetectedKinds) \in Plain /\ RunAgent(k) \in Plain /\ Notify \in Plain
  BY <1>1, PlainClear, PlainStepOps, PlainBare DEF ReqKinds
<1>6. CASE AwaitInference(j, k, rs)
  BY <1>2, <1>3, <1>4, <1>5, <1>6, PlainTuples DEF Proceed, GoesOnPlainly, AwaitInference, StepStatus, JobStatus, ReqKinds
<1>7. CASE AwaitRuntime(j, k)
  BY <1>2, <1>3, <1>4, <1>5, <1>7, PlainTuples DEF Proceed, GoesOnPlainly, AwaitRuntime, StepStatus, JobStatus, ReqKinds, DetectedKinds
<1>8. CASE AwaitApprovals(k, rs)
  BY <1>3, <1>5, <1>8, PlainTuples DEF Proceed, GoesOnPlainly, AwaitApprovals, JobStatus
<1>9. CASE StartAgent(k, rs)
  BY <1>2, <1>3, <1>5, <1>9, PlainTuples DEF Proceed, GoesOnPlainly, StartAgent, StepStatus, JobStatus
<1> QED BY <1>6, <1>7, <1>8, <1>9

LEMMA ExecutePlainly ==
  ASSUME NEW j \in Jobs, NEW k \in StepKeys, NEW s, NEW rs, Execute(j, k, s, rs)
  PROVE  GoesOnPlainly \/ (k = Finalize /\ s \notin Unopened /\ FinalizeStep)
<1>1. CASE s \notin Runnable(k)
  BY <1>1, PlainTuples DEF Proceed, GoesOnPlainly, Execute
<1>2. CASE s \in Runnable(k)
  <2>1. CASE k = Inspect
    BY <1>2, <2>1, InspectPlainly DEF Execute, Inspect, Implement, Verify, Finalize
  <2>2. CASE k \in {Implement, Verify}
    BY <1>2, <2>2, AgentStepPlainly DEF Execute, Inspect, Implement, Verify, Finalize
  <2>3. CASE k = Finalize
    BY <1>2, <2>3 DEF Execute, Runnable, Unopened, Inspect, Implement, Verify, Finalize
  <2> QED BY <1>2, <2>1, <2>2, <2>3 DEF Execute
<1> QED BY <1>1, <1>2

LEMMA ProbePlainly == ProbeWorkspace => GoesOnPlainly
<1>1. /\ Satisfy(Inspect) \in Plain /\ WriteStep(Inspect, "ready") \in Plain
      /\ WriteJob("running", Inspect) \in Plain /\ Reload \in Plain
      /\ WriteJob("waiting_for_runtime", Inspect) \in Plain
  BY PlainStepOps, PlainWriteStep, PlainWriteJob, PlainBare
  DEF StepStatus, JobStatus, StepIds, StepKeys, Inspect, Finalize
<1> QED BY <1>1, PlainTuples DEF Proceed, GoesOnPlainly, ProbeWorkspace

-----------------------------------------------------------------------------
(* Programs. *)

LEMMA PlainSound ==
  ASSUME NEW p \in Procs, NEW j \in Jobs, NEW prog \in Seq(Plain)
  PROVE  Sound(p, j, prog)
<1>1. \A i \in DOMAIN prog : ~Claims(prog[i]) /\ prog[i].op # "verify"
  BY DEF Plain
<1> QED BY <1>1 DEF Sound, Backed, Counted

LEMMA HeadTyped == ASSUME NEW prog \in Seq(Op), prog # <<>> PROVE prog[1] \in Op
  OBVIOUS

\* Nothing comes before the first operation to back it.
LEMMA HeadClaims ==
  ASSUME NEW p \in Procs, NEW j \in Jobs, NEW prog \in Seq(Op), prog # <<>>,
         Sound(p, j, prog), Claims(prog[1])
  PROVE  evidence[j] # "none"
  BY DEF Sound, Backed

\* The rest of a sound program is sound once its first operation, which is not a
\* verification outcome, is done, also behind one more plain operation.
LEMMA RestSound ==
  ASSUME NEW p \in Procs, NEW j \in Jobs, NEW prog \in Seq(Op), prog # <<>>,
         Sound(p, j, prog), prog[1].op # "verify"
  PROVE  /\ Sound(p, j, Tail(prog))
         /\ \A o \in Plain : Sound(p, j, <<o>> \o Tail(prog))
<1>1. /\ DOMAIN Tail(prog) = 1..(Len(prog) - 1)
      /\ \A i \in DOMAIN Tail(prog) : i + 1 \in DOMAIN prog /\ Tail(prog)[i] = prog[i + 1]
  OBVIOUS
<1>2. \A i \in DOMAIN prog : Passing(prog[i]) \/ prog[i].op = "verify" => i - 1 \in DOMAIN Tail(prog)
  BY <1>1 DEF Passing
<1>3. Sound(p, j, Tail(prog))
  <2>1. ASSUME Backed(prog) PROVE Backed(Tail(prog))
    <3> SUFFICES ASSUME NEW i \in DOMAIN Tail(prog), Claims(Tail(prog)[i])
                 PROVE  \E h \in DOMAIN Tail(prog) : h < i /\ Passing(Tail(prog)[h])
      BY DEF Backed
    <3>1. PICK h \in DOMAIN prog : h < i + 1 /\ Passing(prog[h])
      BY <1>1, <2>1 DEF Backed
    <3>2. h \in Nat /\ i \in Nat /\ h - 1 \in DOMAIN Tail(prog)
      BY <1>1, <1>2, <3>1
    <3>3. h - 1 < i /\ Tail(prog)[h - 1] = prog[h]
      BY <1>1, <3>1, <3>2
    <3> QED BY <3>1, <3>2, <3>3
  <2>2. Counted(p, j, Tail(prog))
    BY <1>1 DEF Sound, Counted
  <2> QED BY <2>1, <2>2 DEF Sound
<1>4. ASSUME NEW o \in Plain PROVE Sound(p, j, <<o>> \o Tail(prog))
  <2> DEFINE new == <<o>> \o Tail(prog)
  <2>1. /\ DOMAIN new = DOMAIN prog
        /\ new[1] = o
        /\ \A i \in DOMAIN prog \ {1} : new[i] = prog[i]
    OBVIOUS
  <2>2. ~Claims(o) /\ o.op # "verify"
    BY DEF Plain
  <2>3. ASSUME Backed(prog) PROVE Backed(new)
    BY <2>1, <2>2, <2>3 DEF Backed, Passing
  <2>4. Counted(p, j, new)
    BY <2>1, <2>2 DEF Sound, Counted
  <2> QED BY <2>3, <2>4 DEF Sound
<1> QED BY <1>3, <1>4

-----------------------------------------------------------------------------
(* The worker's handlers go on with sound programs. *)

\* The worker goes on with a program that is sound for job j.
GoesOnSoundly(j) ==
  \E prog \in Seq(Op) : /\ Become(Worker, prog) /\ phase' \in {phase, "mark"}
                        /\ Sound(Worker, j, prog)

LEMMA PlainlySoundly == ASSUME NEW j \in Jobs, GoesOnPlainly PROVE GoesOnSoundly(j)
  BY PlainProgram, PlainSound DEF GoesOnPlainly, GoesOnSoundly, Procs

LEMMA FinalizeSoundly ==
  ASSUME NEW j \in Jobs, FinalizeStep, evidence[j] # "none" PROVE GoesOnSoundly(j)
<1>1. /\ WriteStep(Finalize, "completed") \in Op /\ WriteJob("completed", NoStep) \in Op
      /\ Notify \in Op
  BY OpTyped, PlainBare, PlainProgram
  DEF StepStatus, JobStatus, StepIds, StepKeys, NoStep, Finalize
<1> DEFINE prog == <<WriteStep(Finalize, "completed"), WriteJob("completed", NoStep), Notify>>
<1>2. prog \in Seq(Op)
  BY <1>1
<1>3. \A i \in DOMAIN prog : prog[i].op # "verify"
  BY DEF WriteStep, WriteJob, Notify
<1>4. Sound(Worker, j, prog)
  BY <1>3 DEF Sound, Counted
<1>5. Become(Worker, prog) /\ phase' = phase
  BY DEF FinalizeStep, Proceed
<1> QED BY <1>2, <1>4, <1>5 DEF GoesOnSoundly

\* A program with one verification outcome, at i, and its claims, if any, behind it.
LEMMA OutcomeSound ==
  ASSUME NEW j \in Jobs, NEW prog \in Seq(Op), NEW i \in DOMAIN prog,
         prog[i].op = "verify", prog[i].attempts = attempts[j] + 1,
         prog[i].to = "retrying" => prog[i].attempts < MaxAttempts,
         \A h \in DOMAIN prog \ {i} :
           prog[h] \in Plain \/ (prog[h].op = "step" /\ i < h /\ prog[i].to = "completed")
  PROVE  Sound(Worker, j, prog)
<1>1. ~Claims(prog[i])
  BY DEF Claims
<1>2. \A h \in DOMAIN prog \ {i} :
        prog[h].op # "verify" /\ (Claims(prog[h]) => i < h /\ prog[i].to = "completed")
  BY DEF Plain
<1>3. Backed(prog)
  BY <1>1, <1>2 DEF Backed, Passing
<1>4. Counted(Worker, j, prog)
  BY <1>2 DEF Counted
<1> QED BY <1>3, <1>4 DEF Sound

\* What the next operation of a process holds.
LEMMA DueHead ==
  ASSUME IInv, NEW p \in Procs, NEW j \in Jobs, NEW o, Due(p, j, o)
  PROVE  /\ todo[p] \in Seq(Op) /\ todo[p] # <<>>
         /\ todo[p][1] \in Op /\ todo[p][1].op = o
         /\ Sound(p, j, todo[p])
<1>1. todo[p] \in Seq(Op) /\ todo[p] # <<>>
  BY DEF IInv, TypeOK, Due
<1>2. todo[p][1] \in Op
  BY <1>1, HeadTyped
<1> QED BY <1>1, <1>2 DEF IInv, ProgramsSound, Due

LEMMA WorkerHead ==
  ASSUME IInv, NEW j \in Jobs, NEW o, Due(Worker, j, o)
  PROVE  /\ todo[Worker] \in Seq(Op) /\ todo[Worker] # <<>>
         /\ todo[Worker][1] \in Op /\ todo[Worker][1].op = o
         /\ Sound(Worker, j, todo[Worker])
  BY DueHead DEF Procs

LEMMA LoadSoundly ==
  ASSUME IInv, NEW j \in Jobs, LoadSteps(j) PROVE GoesOnSoundly(j)
<1>1. Due(Worker, j, "steps")
  BY DEF LoadSteps
<1>2. todo[Worker][1].current \in StepIds
  BY <1>1, WorkerHead, OpFields
<1>3. CASE Proceed(<<Dispatch(todo[Worker][1].current, step[j])>>)
  <2> DEFINE d == Dispatch(todo[Worker][1].current, step[j])
  <2>1. d \in Op /\ d.op = "dispatch" /\ d.steps = step[j]
    BY <1>2, OpTyped DEF IInv, TypeOK, Dispatch
  <2>2. Claims(d) => evidence[j] # "none"
    BY <2>1 DEF Claims, IInv, HandoffOpened
  <2>3. <<d>> \in Seq(Op) /\ Sound(Worker, j, <<d>>)
    BY <2>1, <2>2 DEF Sound, Backed, Counted
  <2> QED BY <1>3, <2>3 DEF Proceed, GoesOnSoundly
<1>4. CASE \E ready \in BOOLEAN : Proceed(Plan(ready))
  <2>1. GoesOnPlainly
    BY <1>4, PlainPlan DEF Proceed, GoesOnPlainly
  <2> QED BY <2>1, PlainlySoundly
<1> QED BY <1>3, <1>4 DEF LoadSteps

LEMMA ReloadSoundly ==
  ASSUME IInv, NEW j \in Jobs, ReloadJob(j) PROVE GoesOnSoundly(j)
<1>1. ReadSteps(current[j]) \in Plain
  BY PlainReads DEF IInv, TypeOK
<1>2. GoesOnPlainly
  BY <1>1, PlainTuples DEF ReloadJob, Proceed, GoesOnPlainly
<1> QED BY <1>2, PlainlySoundly

LEMMA ExecuteSoundly ==
  ASSUME NEW j \in Jobs, NEW k \in StepKeys, NEW s, NEW rs, Execute(j, k, s, rs),
         k = Finalize /\ s \notin Unopened => evidence[j] # "none"
  PROVE  GoesOnSoundly(j)
  BY ExecutePlainly, PlainlySoundly, FinalizeSoundly

LEMMA CurrentStepTyped ==
  ASSUME NEW ss \in [StepKeys -> StepStatus], NEW c \in StepIds
  PROVE  GetCurrentStep(ss, c) \in StepIds
<1> DEFINE open == {k \in StepKeys : ss[k] \notin {"absent", "completed", "cancelled"}}
<1>1. open # {} => \E k \in open : \A l \in open : k <= l
  BY DEF StepKeys
<1> QED BY <1>1 DEF GetCurrentStep, StepIds

LEMMA DispatchSoundly ==
  ASSUME IInv, NEW j \in Jobs, DispatchStep(j) PROVE GoesOnSoundly(j)
<1> DEFINE d  == todo[Worker][1]
           k  == GetCurrentStep(d.steps, d.current)
<1>1. Due(Worker, j, "dispatch")
  BY DEF DispatchStep
<1>2. d.op = "dispatch" /\ d.steps \in [StepKeys -> StepStatus] /\ d.current \in StepIds
  BY <1>1, WorkerHead, OpFields
<1>3. d.steps[Finalize] \notin Unopened => evidence[j] # "none"
  BY <1>1, <1>2, WorkerHead, HeadClaims DEF Claims, Procs
<1>4. k \in StepIds /\ reqs[j] \in SUBSET Requirement
  BY <1>2, CurrentStepTyped DEF IInv, TypeOK
<1>5. CASE k = NoStep /\ Proceed(<<>>)
  BY <1>5, PlainTuples, PlainlySoundly DEF Proceed, GoesOnPlainly
<1>6. CASE ProbeWorkspace
  BY <1>6, ProbePlainly, PlainlySoundly
<1>7. CASE k # NoStep /\ d.steps[k] = "running" /\ RecoverInterruptedStep(j, k)
  <2> DEFINE to == IF k = Verify THEN "retrying" ELSE "ready"
  <2>1. k \in StepKeys /\ WriteJob("queued", k) \in Plain /\ Refresh(k, reqs[j]) \in Plain
    BY <1>4, <1>7, PlainWriteJob, PlainRefresh DEF StepIds, JobStatus
  <2>2. CASE k # Finalize
    <3>1. WriteStep(k, to) \in Plain
      BY <2>1, <2>2, PlainWriteStep DEF StepStatus
    <3> QED BY <1>7, <2>1, <3>1, PlainTuples, PlainlySoundly
            DEF RecoverInterruptedStep, Proceed, GoesOnPlainly
  <2>3. CASE k = Finalize
    <3>1. evidence[j] # "none"
      BY <1>3, <1>7, <2>3 DEF Unopened
    <3> DEFINE prog == <<WriteStep(k, to), WriteJob("queued", k), Refresh(k, reqs[j])>>
    <3>2. WriteStep(k, to) \in Op
      BY <2>1, OpTyped DEF StepStatus
    <3>3. prog \in Seq(Op)
      BY <2>1, <3>2, PlainProgram
    <3>4. \A i \in DOMAIN prog : prog[i].op # "verify"
      BY DEF WriteStep, WriteJob, Refresh
    <3>5. Sound(Worker, j, prog)
      BY <3>1, <3>4 DEF Sound, Counted
    <3>6. Become(Worker, prog) /\ phase' = phase
      BY <1>7 DEF RecoverInterruptedStep, Proceed
    <3> QED BY <3>3, <3>5, <3>6 DEF GoesOnSoundly
  <2> QED BY <2>2, <2>3
<1>8. CASE k # NoStep /\ Execute(j, k, d.steps[k], reqs[j])
  <2>1. k \in StepKeys
    BY <1>4, <1>8 DEF StepIds
  <2> QED BY <1>3, <1>8, <2>1, ExecuteSoundly
<1> QED BY <1>5, <1>6, <1>7, <1>8 DEF DispatchStep

LEMMA RefreshSoundly ==
  ASSUME IInv, NEW j \in Jobs, RefreshStep(j) PROVE GoesOnSoundly(j)
<1> DEFINE d == todo[Worker][1]
<1>1. Due(Worker, j, "refresh") /\ Execute(j, d.key, step[j][d.key], d.reqs)
  BY DEF RefreshStep
<1>2. d.key \in StepKeys
  BY <1>1, WorkerHead, OpFields
<1>3. d.key = Finalize /\ step[j][d.key] \notin Unopened => evidence[j] # "none"
  BY DEF IInv, HandoffOpened
<1> QED BY <1>1, <1>2, <1>3, ExecuteSoundly

LEMMA ImplementationSoundly ==
  ASSUME IInv, NEW j \in Jobs, ImplementationPass(j) PROVE GoesOnSoundly(j)
<1>1. /\ Implement \in StepKeys /\ Verify \in StepIds /\ NoStep \in StepIds
      /\ Implement \in StepIds /\ Verify \in StepKeys
      /\ Implement # Finalize /\ Verify # Finalize
  BY DEF StepKeys, StepIds, NoStep, Implement, Verify, Finalize
<1>2. /\ Clear(Implement, ReqKinds) \in Plain /\ Notify \in Plain /\ Enqueue \in Plain
      /\ \A n \in Nat : Require(Implement, "approval", n) \in Plain
  BY <1>1, PlainClear, PlainRequire, PlainBare DEF ReqKinds
<1>3. /\ WriteStep(Implement, "waiting_for_approval") \in Plain
      /\ WriteStep(Implement, "completed") \in Plain /\ WriteStep(Verify, "ready") \in Plain
      /\ WriteJob("waiting_for_approval", Implement) \in Plain
      /\ WriteJob("running", Verify) \in Plain /\ WriteJob("running", NoStep) \in Plain
  BY <1>1, PlainWriteStep, PlainWriteJob DEF StepStatus, JobStatus
<1>4. CASE ImplementationAsks(j)
  <2>1. PICK n \in 1..MaxApprovals :
          Proceed(<<Clear(Implement, ReqKinds), Require(Implement, "approval", n),
                    WriteStep(Implement, "waiting_for_approval"),
                    WriteJob("waiting_for_approval", Implement), Notify>>)
    BY <1>4 DEF ImplementationAsks
  <2>2. n \in Nat
    BY NatAssumption
  <2> QED BY <1>2, <1>3, <2>1, <2>2, PlainTuples, PlainlySoundly DEF Proceed, GoesOnPlainly
<1>5. CASE Implemented(j)
  BY <1>2, <1>3, <1>5, PlainTuples, PlainlySoundly DEF Implemented, Proceed, GoesOnPlainly
<1>6. CASE Fail
  BY <1>6, PlainFail, PlainlySoundly
<1> QED BY <1>4, <1>5, <1>6 DEF ImplementationPass

\* The operations of a verification pass besides its outcome and the hand-off.
LEMMA VerificationOps ==
  ASSUME NEW port \in BOOLEAN, NEW n \in Nat
  PROVE  /\ Clear(Verify, ReqKinds) \in Plain /\ FailedPort(port) \in Plain
         /\ Require(Verify, "approval", n) \in Plain /\ WriteStep(Implement, "ready") \in Plain
         /\ \A s \in JobStatus \ {"completed"}, k \in StepIds : WriteJob(s, k) \in Plain
         /\ \A s \in StepStatus : WriteVerify(s, n) \in Op
         /\ Notify \in Plain /\ Enqueue \in Plain
         /\ {Verify, Implement, Finalize, NoStep} \subseteq StepIds
<1>1. Verify \in StepKeys /\ Implement \in StepKeys /\ Implement # Finalize
  BY DEF StepKeys, Verify, Implement, Finalize
<1>2. {Verify, Implement, Finalize, NoStep} \subseteq StepIds
  BY DEF StepIds, StepKeys, Verify, Implement, Finalize
<1>3. FailedPort(port) \in Plain
  BY <1>1, PlainRequire DEF FailedPort, ReqKinds, DetectedKinds
<1> QED
  BY <1>1, <1>2, <1>3, PlainClear, PlainRequire, PlainWriteStep, PlainWriteJob, PlainBare, OpTyped
  DEF ReqKinds, StepStatus

\* The outcome of a verification pass.
LEMMA Outcome ==
  ASSUME NEW s \in StepStatus, NEW n \in Nat
  PROVE  /\ WriteVerify(s, n) \in Op
         /\ WriteVerify(s, n).op = "verify"
         /\ WriteVerify(s, n).to = s
         /\ WriteVerify(s, n).attempts = n
  BY OpTyped DEF WriteVerify

LEMMA AsksSoundly ==
  ASSUME IInv, NEW j \in Jobs, NEW port \in BOOLEAN, VerificationAsks(j, port)
  PROVE  GoesOnSoundly(j)
<1> DEFINE verdict == WriteVerify("waiting_for_approval", attempts[j] + 1)
           prog(n) == <<Clear(Verify, ReqKinds), FailedPort(port), Require(Verify, "approval", n),
                        verdict, WriteJob("waiting_for_approval", Verify), Notify>>
<1>1. PICK n \in 1..MaxApprovals : Proceed(prog(n))
  BY DEF VerificationAsks
<1>2. n \in Nat /\ attempts[j] + 1 \in Nat
  BY NatAssumption DEF IInv, TypeOK
<1>3. /\ verdict \in Op /\ verdict.op = "verify" /\ verdict.to # "retrying"
      /\ verdict.attempts = attempts[j] + 1
  BY <1>2, Outcome DEF StepStatus
<1>4. WriteJob("waiting_for_approval", Verify) \in Plain
  BY <1>2, VerificationOps DEF JobStatus
<1>5. /\ prog(n) \in Seq(Op) /\ DOMAIN prog(n) = 1..6 /\ prog(n)[4] = verdict
      /\ \A h \in (1..6) \ {4} : prog(n)[h] \in Plain
  <2> HIDE DEF verdict
  <2> QED BY <1>2, <1>3, <1>4, VerificationOps, PlainProgram
<1>6. Sound(Worker, j, prog(n))
  <2> HIDE DEF verdict, prog
  <2> QED BY <1>3, <1>5, OutcomeSound
<1> QED BY <1>1, <1>5, <1>6 DEF Proceed, GoesOnSoundly

LEMMA FailsSoundly ==
  ASSUME IInv, NEW j \in Jobs, NEW port \in BOOLEAN, VerificationFails(j, port)
  PROVE  GoesOnSoundly(j)
<1> DEFINE n      == attempts[j] + 1
           again  == WriteVerify("retrying", n)
           failed == WriteVerify("failed", n)
           retry  == <<Clear(Verify, ReqKinds), FailedPort(port), again,
                       WriteStep(Implement, "ready"), WriteJob("retrying", Implement), Enqueue>>
           stop   == <<Clear(Verify, ReqKinds), FailedPort(port), failed,
                       WriteJob("blocked", Verify), Notify>>
<1>1. n \in Nat
  BY DEF IInv, TypeOK
<1>2. /\ again \in Op /\ again.op = "verify" /\ again.attempts = n
      /\ failed \in Op /\ failed.op = "verify" /\ failed.attempts = n /\ failed.to = "failed"
  BY <1>1, Outcome DEF StepStatus
<1>3. WriteJob("retrying", Implement) \in Plain /\ WriteJob("blocked", Verify) \in Plain
  BY <1>1, VerificationOps DEF JobStatus
<1>4. CASE n < MaxAttempts /\ Proceed(retry)
  <2>1. /\ retry \in Seq(Op) /\ DOMAIN retry = 1..6 /\ retry[3] = again
        /\ \A h \in (1..6) \ {3} : retry[h] \in Plain
    <3> HIDE DEF again
    <3> QED BY <1>1, <1>2, <1>3, VerificationOps, PlainProgram
  <2>2. Sound(Worker, j, retry)
    <3> HIDE DEF again, retry
    <3> QED BY <1>2, <1>4, <2>1, OutcomeSound
  <2> QED BY <1>4, <2>1, <2>2 DEF Proceed, GoesOnSoundly
<1>5. CASE Proceed(stop)
  <2>1. /\ stop \in Seq(Op) /\ DOMAIN stop = 1..5 /\ stop[3] = failed
        /\ \A h \in (1..5) \ {3} : stop[h] \in Plain
    <3> HIDE DEF failed
    <3> QED BY <1>1, <1>2, <1>3, VerificationOps, PlainProgram
  <2>2. Sound(Worker, j, stop)
    <3> HIDE DEF failed, stop
    <3> QED BY <1>2, <2>1, OutcomeSound
  <2> QED BY <1>5, <2>1, <2>2 DEF Proceed, GoesOnSoundly
<1> QED BY <1>4, <1>5 DEF VerificationFails

LEMMA PassesSoundly ==
  ASSUME IInv, NEW j \in Jobs, VerificationPasses(j) PROVE GoesOnSoundly(j)
<1> DEFINE n       == attempts[j] + 1
           verdict == WriteVerify("completed", n)
           open    == WriteStep(Finalize, "ready")
           handOn  == <<Clear(Verify, ReqKinds), verdict, open, WriteJob("running", Finalize),
                        Enqueue>>
           end     == <<Clear(Verify, ReqKinds), verdict, WriteJob("running", NoStep)>>
<1>1. n \in Nat
  BY DEF IInv, TypeOK
<1>2. /\ verdict \in Op /\ verdict.op = "verify" /\ verdict.attempts = n
      /\ verdict.to = "completed"
  BY <1>1, Outcome DEF StepStatus
<1>3. open \in Op /\ open.op = "step"
  BY OpTyped DEF WriteStep, StepKeys, StepStatus, Finalize
<1>4. /\ WriteJob("running", Finalize) \in Plain /\ WriteJob("running", NoStep) \in Plain
      /\ Clear(Verify, ReqKinds) \in Plain /\ Enqueue \in Plain
  BY <1>1, VerificationOps DEF JobStatus
<1>5. CASE Proceed(handOn)
  <2>1. /\ handOn \in Seq(Op) /\ DOMAIN handOn = 1..5
        /\ handOn[2] = verdict /\ handOn[3] = open
        /\ \A h \in (1..5) \ {2, 3} : handOn[h] \in Plain
    <3> HIDE DEF verdict, open
    <3> QED BY <1>2, <1>3, <1>4, PlainProgram
  <2>2. Sound(Worker, j, handOn)
    <3> HIDE DEF verdict, open, handOn
    <3> QED BY <1>2, <1>3, <2>1, OutcomeSound
  <2> QED BY <1>5, <2>1, <2>2 DEF Proceed, GoesOnSoundly
<1>6. CASE Proceed(end)
  <2>1. /\ end \in Seq(Op) /\ DOMAIN end = 1..3 /\ end[2] = verdict
        /\ \A h \in (1..3) \ {2} : end[h] \in Plain
    <3> HIDE DEF verdict
    <3> QED BY <1>2, <1>4, PlainProgram
  <2>2. Sound(Worker, j, end)
    <3> HIDE DEF verdict, end
    <3> QED BY <1>2, <2>1, OutcomeSound
  <2> QED BY <1>6, <2>1, <2>2 DEF Proceed, GoesOnSoundly
<1> QED BY <1>5, <1>6 DEF VerificationPasses, Proceed

LEMMA ProcessSoundly ==
  ASSUME IInv, NEW j \in Jobs, Process(Worker, j) PROVE GoesOnSoundly(j)
<1>1. CASE LoadSteps(j) \/ ReloadJob(j) \/ DispatchStep(j) \/ RefreshStep(j)
  BY <1>1, LoadSoundly, ReloadSoundly, DispatchSoundly, RefreshSoundly
<1>2. CASE ImplementationPass(j)
  BY <1>2, ImplementationSoundly
<1>3. CASE VerificationPass(j)
  BY <1>3, PassesSoundly, AsksSoundly, FailsSoundly, PlainFail, PlainlySoundly
  DEF VerificationPass
<1> QED BY <1>1, <1>2, <1>3 DEF Process

-----------------------------------------------------------------------------
(* What becomes of the programs. *)

\* A process goes on with a sound program while the others wait.
LEMMA BecomeKeeps ==
  ASSUME IInv, NEW p \in Procs, NEW j \in Jobs, on[p] = j, on' = on,
         NEW prog \in Seq(Op), Become(p, prog), Sound(p, j, prog),
         attempts' = attempts, \A i \in Jobs : evidence[i] # "none" => evidence'[i] # "none"
  PROVE  todo' \in [Procs -> Seq(Op)] /\ ProgramsSound'
<1>1. todo' = [todo EXCEPT ![p] = prog] /\ todo \in [Procs -> Seq(Op)]
  BY DEF Become, IInv, TypeOK
<1>2. ASSUME NEW q \in Procs, NEW i \in Jobs, on'[q] = i
      PROVE  Sound(q, i, todo[q])'
  <2>1. Sound(q, i, todo'[q])
    BY <1>1, <1>2 DEF IInv, ProgramsSound
  <2> QED BY <2>1 DEF Sound, Counted
<1> QED BY <1>1, <1>2 DEF ProgramsSound

LEMMA AdvanceKeeps ==
  ASSUME IInv, NEW p \in Procs, NEW j \in Jobs, NEW o, Due(p, j, o), o # "verify",
         on' = on, attempts' = attempts, evidence' = evidence, Advance(p)
  PROVE  todo' \in [Procs -> Seq(Op)] /\ ProgramsSound'
<1>1. Become(p, Tail(todo[p])) /\ on[p] = j
  BY DEF Advance, Become, Due, IInv, TypeOK
<1>2. Tail(todo[p]) \in Seq(Op) /\ Sound(p, j, Tail(todo[p]))
  BY DueHead, RestSound
<1> QED BY <1>1, <1>2, BecomeKeeps

LEMMA ReplaceKeeps ==
  ASSUME IInv, NEW p \in Procs, NEW j \in Jobs, NEW o, Due(p, j, o), o # "verify",
         on' = on, attempts' = attempts, evidence' = evidence,
         NEW x \in Plain, Become(p, <<x>> \o Tail(todo[p]))
  PROVE  todo' \in [Procs -> Seq(Op)] /\ ProgramsSound'
<1>1. /\ <<x>> \o Tail(todo[p]) \in Seq(Op) /\ Sound(p, j, <<x>> \o Tail(todo[p]))
      /\ on[p] = j
  BY DueHead, RestSound, PlainProgram DEF Due
<1> QED BY <1>1, BecomeKeeps

LEMMA StartKeeps ==
  ASSUME IInv, NEW p \in Procs, NEW j \in Jobs, NEW prog \in Seq(Plain), Start(p, j, prog),
         attempts' = attempts, evidence' = evidence
  PROVE  /\ on' \in [Procs -> Jobs \cup {NoJob}] /\ todo' \in [Procs -> Seq(Op)]
         /\ ProgramsSound'
<1>1. /\ todo' = [todo EXCEPT ![p] = prog] /\ todo \in [Procs -> Seq(Op)]
      /\ on' = [on EXCEPT ![p] = j] /\ on \in [Procs -> Jobs \cup {NoJob}]
      /\ prog \in Seq(Op)
  BY PlainProgram DEF Start, Become, IInv, TypeOK
<1>2. ASSUME NEW q \in Procs, NEW i \in Jobs, on'[q] = i
      PROVE  Sound(q, i, todo[q])'
  <2>1. Sound(q, i, todo'[q])
    <3>1. CASE q = p
      BY <1>1, <3>1, PlainSound
    <3>2. CASE q # p
      BY <1>1, <1>2, <3>2 DEF IInv, ProgramsSound
    <3> QED BY <3>1, <3>2
  <2> QED BY <2>1 DEF Sound, Counted
<1> QED BY <1>1, <1>2 DEF ProgramsSound

-----------------------------------------------------------------------------
(* The writes. *)

LEMMA StatusKeeps ==
  ASSUME IInv, NEW p \in Procs, NEW j \in Jobs, DoStatus(p, j) \/ DoBegin(p, j)
  PROVE  IInv'
<1> DEFINE to == todo[p][1].to
<1>1. PICK o \in {"status", "begin"} : Due(p, j, o)
  BY DEF DoStatus, DoBegin
<1>2. to \in JobStatus /\ (to = "completed" => evidence[j] # "none")
  BY <1>1, DueHead, OpFields, HeadClaims DEF Claims
<1>3. /\ status' = [status EXCEPT ![j] = to]
      /\ started' = started \/ started' = [started EXCEPT ![j] = TRUE]
      /\ UNCHANGED <<current, step, attempts, reqs, made, queue, procs, budget, history>>
      /\ Advance(p)
  BY DEF DoStatus, DoBegin
<1>4. todo' \in [Procs -> Seq(Op)] /\ ProgramsSound'
  BY <1>1, <1>3, AdvanceKeeps DEF procs, history
<1>5. TypeOK'
  BY <1>2, <1>3, <1>4 DEF IInv, TypeOK, procs, budget, history
<1>6. CompletedIsVerified'
  BY <1>2, <1>3 DEF IInv, TypeOK, CompletedIsVerified, history
<1>7. HandoffOpened' /\ RepairsCounted'
  BY <1>3 DEF IInv, HandoffOpened, RepairsCounted, history
<1> QED BY <1>4, <1>5, <1>6, <1>7 DEF IInv

LEMMA JobKeeps ==
  ASSUME IInv, NEW p \in Procs, NEW j \in Jobs, DoJob(p, j) PROVE IInv'
<1> DEFINE to == todo[p][1].to
           x  == WriteCurrent(todo[p][1].current)
<1>1. Due(p, j, "job")
  BY DEF DoJob
<1>2. to \in JobStatus /\ (to = "completed" => evidence[j] # "none") /\ x \in Plain
  BY <1>1, DueHead, OpFields, HeadClaims, PlainWriteCurrent DEF Claims
<1>3. /\ status' = [status EXCEPT ![j] = to]
      /\ UNCHANGED <<started, current, step, attempts, reqs, made, queue, procs, budget, history>>
      /\ Become(p, <<x>> \o Tail(todo[p]))
  BY DEF DoJob
<1>4. todo' \in [Procs -> Seq(Op)] /\ ProgramsSound'
  BY <1>1, <1>2, <1>3, ReplaceKeeps DEF procs, history
<1>5. TypeOK'
  BY <1>2, <1>3, <1>4 DEF IInv, TypeOK, procs, budget, history
<1>6. CompletedIsVerified'
  BY <1>2, <1>3 DEF IInv, TypeOK, CompletedIsVerified, history
<1>7. HandoffOpened' /\ RepairsCounted'
  BY <1>3 DEF IInv, HandoffOpened, RepairsCounted, history
<1> QED BY <1>4, <1>5, <1>6, <1>7 DEF IInv

LEMMA CurrentKeeps ==
  ASSUME IInv, NEW p \in Procs, NEW j \in Jobs, DoCurrent(p, j) PROVE IInv'
<1>1. Due(p, j, "current") /\ todo[p][1].current \in StepIds
  BY DueHead, OpFields DEF DoCurrent
<1>2. todo' \in [Procs -> Seq(Op)] /\ ProgramsSound'
  BY <1>1, AdvanceKeeps DEF DoCurrent, procs, history
<1>3. TypeOK'
  BY <1>1, <1>2 DEF DoCurrent, IInv, TypeOK, procs, budget, history
<1>4. CompletedIsVerified' /\ HandoffOpened' /\ RepairsCounted'
  BY DEF DoCurrent, IInv, CompletedIsVerified, HandoffOpened, RepairsCounted, history
<1> QED BY <1>2, <1>3, <1>4 DEF IInv

LEMMA StepKeeps ==
  ASSUME IInv, NEW p \in Procs, NEW j \in Jobs, DoStep(p, j) PROVE IInv'
<1> DEFINE w == todo[p][1]
<1>1. Due(p, j, "step") /\ w.key \in StepKeys /\ w.to \in StepStatus
  BY DueHead, OpFields DEF DoStep
<1>2. w.key = Finalize /\ w.to \notin Unopened => evidence[j] # "none"
  BY <1>1, DueHead, HeadClaims DEF Claims
<1>3. todo' \in [Procs -> Seq(Op)] /\ ProgramsSound'
  BY <1>1, AdvanceKeeps DEF DoStep, procs, history
<1>4. TypeOK'
  BY <1>1, <1>3 DEF DoStep, IInv, TypeOK, procs, budget, history
<1>5. HandoffOpened'
  BY <1>1, <1>2 DEF DoStep, IInv, TypeOK, HandoffOpened, history
<1>6. CompletedIsVerified' /\ RepairsCounted'
  BY DEF DoStep, IInv, CompletedIsVerified, RepairsCounted, history
<1> QED BY <1>3, <1>4, <1>5, <1>6 DEF IInv

\* Only the worker writes outcomes and a program has only one, so the attempt it counted
\* when it read the row is still the next one; a passing outcome backs what follows it.
LEMMA VerifyKeeps ==
  ASSUME IInv, NEW p \in Procs, NEW j \in Jobs, DoVerify(p, j) PROVE IInv'
<1> DEFINE w == todo[p][1]
<1>1. /\ Due(p, j, "verify") /\ on[p] = j /\ Advance(p)
      /\ step' = [step EXCEPT ![j][Verify] = w.to]
      /\ attempts' = [attempts EXCEPT ![j] = w.attempts]
      /\ evidence' = [evidence EXCEPT ![j] = IF w.to = "completed" THEN "passed" ELSE @]
      /\ repairs' = [repairs EXCEPT ![j] = IF w.to = "retrying" THEN @ + 1 ELSE @]
      /\ UNCHANGED <<status, started, current, reqs, made, queue, procs, budget>>
  BY DEF DoVerify, Due
<1>2. /\ todo[p] \in Seq(Op) /\ todo[p] # <<>> /\ w \in Op /\ w.op = "verify"
      /\ Sound(p, j, todo[p]) /\ 1 \in DOMAIN todo[p]
  BY <1>1, DueHead
<1>3. w.to \in StepStatus /\ w.attempts \in Nat
  BY <1>2, OpFields
<1>4. /\ p = Worker /\ w.attempts = attempts[j] + 1
      /\ w.to = "retrying" => w.attempts < MaxAttempts
      /\ \A h \in DOMAIN todo[p] : todo[p][h].op = "verify" => h = 1
  BY <1>2 DEF Sound, Counted
<1> DEFINE rest == Tail(todo[p])
<1>5. /\ rest \in Seq(Op) /\ DOMAIN rest = 1..(Len(todo[p]) - 1)
      /\ \A i \in DOMAIN rest : i + 1 \in DOMAIN todo[p] /\ rest[i] = todo[p][i + 1]
  BY <1>2
<1>6. \A i \in DOMAIN rest : rest[i].op # "verify"
  BY <1>4, <1>5
<1>7. todo' = [todo EXCEPT ![p] = rest] /\ todo \in [Procs -> Seq(Op)] /\ on' = on
  BY <1>1 DEF Advance, IInv, TypeOK, procs
<1>8. \A i \in Jobs : /\ evidence[i] # "none" => evidence'[i] # "none"
                      /\ i # j => attempts'[i] = attempts[i]
  BY <1>1 DEF IInv, TypeOK
<1>9. evidence'[j] # "none" \/ Backed(rest)
  <2>1. CASE w.to = "completed"
    BY <1>1, <2>1 DEF IInv, TypeOK
  <2>2. CASE w.to # "completed" /\ Backed(todo[p])
    <3> SUFFICES ASSUME NEW i \in DOMAIN rest, Claims(rest[i]) PROVE FALSE
      BY DEF Backed
    <3>1. PICK h \in DOMAIN todo[p] : Passing(todo[p][h])
      BY <1>5, <2>2 DEF Backed
    <3> QED BY <1>4, <2>2, <3>1 DEF Passing
  <2>3. CASE evidence[j] # "none"
    BY <1>8, <2>3
  <2> QED BY <1>2, <2>1, <2>2, <2>3 DEF Sound
<1>10. ProgramsSound'
  <2> SUFFICES ASSUME NEW q \in Procs, NEW i \in Jobs, on'[q] = i PROVE Sound(q, i, todo[q])'
    BY DEF ProgramsSound
  <2>1. CASE q = p
    <3>1. i = j /\ todo'[q] = rest
      BY <1>1, <1>7, <2>1
    <3> HIDE DEF rest
    <3> QED BY <1>6, <1>9, <3>1 DEF Sound, Counted
  <2>2. CASE q # p
    <3>1. Sound(q, i, todo[q]) /\ todo'[q] = todo[q]
      BY <1>7, <2>2 DEF IInv, ProgramsSound
    <3>2. \A h \in DOMAIN todo[q] : todo[q][h].op # "verify"
      BY <1>4, <2>2, <3>1 DEF Sound, Counted
    <3> QED BY <1>8, <3>1, <3>2 DEF Sound, Counted
  <2> QED BY <2>1, <2>2
<1>11. TypeOK'
  <2>1. step' \in [Jobs -> [StepKeys -> StepStatus]] /\ attempts' \in [Jobs -> Nat]
    BY <1>1, <1>3 DEF IInv, TypeOK
  <2>2. evidence' \in [Jobs -> {"none", "passed", "stale"}] /\ repairs' \in [Jobs -> Nat]
    BY <1>1 DEF IInv, TypeOK
  <2>3. todo' \in [Procs -> Seq(Op)]
    BY <1>5, <1>7
  <2> QED BY <1>1, <2>1, <2>2, <2>3 DEF IInv, TypeOK, procs, budget
<1>12. CompletedIsVerified' /\ HandoffOpened'
  BY <1>1, <1>8 DEF IInv, TypeOK, CompletedIsVerified, HandoffOpened, Verify, Finalize, StepKeys
<1>13. RepairsCounted'
  BY <1>1, <1>4, NatAssumption DEF IInv, TypeOK, RepairsCounted
<1> QED BY <1>10, <1>11, <1>12, <1>13 DEF IInv

\* Operations that touch neither statuses nor attempts.
LEMMA RequirementsKeep ==
  ASSUME IInv, NEW p \in Procs, NEW j \in Jobs,
         DoClear(p, j) \/ DoSatisfy(p, j) \/ DoResolve(p, j)
  PROVE  IInv'
<1>1. PICK o \in {"clear", "satisfy", "resolve"} : Due(p, j, o)
  BY DEF DoClear, DoSatisfy, DoResolve
<1>2. todo[p][1].op = "resolve" => todo[p][1].to \in {"satisfied", "rejected"}
  BY <1>1, DueHead, OpFields
<1>3. /\ UNCHANGED <<status, started, current, step, attempts, made, queue, procs, budget, history>>
      /\ Advance(p)
  BY DEF DoClear, DoSatisfy, DoResolve
<1>4. todo' \in [Procs -> Seq(Op)] /\ ProgramsSound'
  BY <1>1, <1>3, AdvanceKeeps DEF procs, history
<1>5. reqs' \in [Jobs -> SUBSET Requirement]
  <2>1. reqs \in [Jobs -> SUBSET Requirement]
    BY DEF IInv, TypeOK
  <2>2. CASE DoClear(p, j)
    BY <2>1, <2>2 DEF DoClear
  <2>3. CASE DoSatisfy(p, j)
    BY <2>1, <2>3 DEF DoSatisfy, Requirement
  <2>4. CASE DoResolve(p, j)
    BY <1>2, <2>1, <2>4 DEF DoResolve, Requirement, Due
  <2> QED BY <2>2, <2>3, <2>4
<1>6. TypeOK'
  BY <1>3, <1>4, <1>5 DEF IInv, TypeOK, procs, budget, history
<1>7. CompletedIsVerified' /\ HandoffOpened' /\ RepairsCounted'
  BY <1>3 DEF IInv, CompletedIsVerified, HandoffOpened, RepairsCounted, history
<1> QED BY <1>4, <1>6, <1>7 DEF IInv

LEMMA RequireKeeps ==
  ASSUME IInv, NEW p \in Procs, NEW j \in Jobs, DoRequire(p, j) PROVE IInv'
<1> DEFINE w == todo[p][1]
<1>1. /\ Due(p, j, "require")
      /\ UNCHANGED <<status, started, current, step, attempts, queue, procs, budget, history>>
  BY DEF DoRequire
<1>2. w.key \in StepKeys /\ w.kind \in ReqKinds /\ w.count \in Nat
  BY <1>1, DueHead, OpFields
<1>3. /\ todo' \in [Procs -> Seq(Op)] /\ ProgramsSound'
      /\ reqs' \in [Jobs -> SUBSET Requirement] /\ made' \in [Jobs -> Nat]
  <2>1. reqs \in [Jobs -> SUBSET Requirement] /\ made \in [Jobs -> Nat]
    BY DEF IInv, TypeOK
  <2>2. CASE w.count > 0
    <3> DEFINE row == [id |-> made[j] + 1, step |-> w.key, kind |-> w.kind, status |-> "pending"]
    <3>1. /\ made' = [made EXCEPT ![j] = @ + 1]
          /\ reqs' = [reqs EXCEPT ![j] = @ \cup {row}]
          /\ Become(p, <<Require(w.key, w.kind, w.count - 1)>> \o Tail(todo[p]))
      BY <2>2 DEF DoRequire
    <3>2. Require(w.key, w.kind, w.count - 1) \in Plain
      BY <1>2, <2>2, PlainRequire
    <3>3. row \in Requirement
      BY <1>2, <2>1 DEF Requirement
    <3>4. reqs' \in [Jobs -> SUBSET Requirement] /\ made' \in [Jobs -> Nat]
      BY <2>1, <3>1, <3>3
    <3> QED BY <1>1, <3>1, <3>2, <3>4, ReplaceKeeps DEF procs, history
  <2>3. CASE w.count = 0
    BY <1>1, <2>1, <2>3, AdvanceKeeps DEF DoRequire, procs, history
  <2> QED BY <1>2, <2>2, <2>3
<1>4. TypeOK'
  BY <1>1, <1>3 DEF IInv, TypeOK, procs, budget, history
<1>5. CompletedIsVerified' /\ HandoffOpened' /\ RepairsCounted'
  BY <1>1 DEF IInv, CompletedIsVerified, HandoffOpened, RepairsCounted, history
<1> QED BY <1>3, <1>4, <1>5 DEF IInv

LEMMA CancelKeeps ==
  ASSUME IInv, NEW p \in Procs, NEW j \in Jobs, DoCancelSteps(p, j) PROVE IInv'
<1>1. Due(p, j, "cancel")
  BY DEF DoCancelSteps
<1>2. todo' \in [Procs -> Seq(Op)] /\ ProgramsSound'
  BY <1>1, AdvanceKeeps DEF DoCancelSteps, procs, history
<1>3. TypeOK'
  BY <1>2 DEF DoCancelSteps, IInv, TypeOK, StepStatus, procs, budget, history
<1>4. HandoffOpened'
  BY DEF DoCancelSteps, IInv, TypeOK, HandoffOpened, Unopened, Finalize, StepKeys, history
<1>5. CompletedIsVerified' /\ RepairsCounted'
  BY DEF DoCancelSteps, IInv, CompletedIsVerified, RepairsCounted, history
<1> QED BY <1>2, <1>3, <1>4, <1>5 DEF IInv

LEMMA SequenceFacts ==
  ASSUME NEW S, NEW q \in Seq(S)
  PROVE  /\ \A x \in S : Append(q, x) \in Seq(S) /\ <<x>> \o q \in Seq(S)
         /\ q # <<>> => Tail(q) \in Seq(S) /\ q[1] \in S
  OBVIOUS

LEMMA EnqueueKeeps ==
  ASSUME IInv, NEW p \in Procs, NEW j \in Jobs, DoEnqueue(p, j) \/ DoNotify(p, j) PROVE IInv'
<1>1. PICK o \in {"enqueue", "submit", "notify"} : Due(p, j, o)
  BY DEF DoEnqueue, DoNotify
<1>2. /\ Advance(p) /\ UNCHANGED <<db, procs, budget, history>>
      /\ queue' = queue \/ queue' = Append(queue, [job |-> j, stalls |-> 0])
  BY DEF DoEnqueue, DoNotify
<1>3. todo' \in [Procs -> Seq(Op)] /\ ProgramsSound'
  BY <1>1, <1>2, AdvanceKeeps DEF db, procs, history
<1>4. queue' \in Seq([job : Jobs, stalls : {0, 1}])
  <2> DEFINE Delivery == [job : Jobs, stalls : {0, 1}]
             d == [job |-> j, stalls |-> 0]
  <2>1. d \in Delivery /\ queue \in Seq(Delivery)
    BY DEF IInv, TypeOK
  <2>2. queue' = queue \/ queue' = Append(queue, d)
    BY <1>2
  <2>3. queue' \in Seq(Delivery)
    <3> HIDE DEF Delivery, d
    <3> QED BY <2>1, <2>2, SequenceFacts
  <2> QED BY <2>3
<1>5. TypeOK'
  BY <1>2, <1>3, <1>4 DEF IInv, TypeOK, db, procs, budget, history
<1>6. CompletedIsVerified' /\ HandoffOpened' /\ RepairsCounted'
  BY <1>2 DEF IInv, CompletedIsVerified, HandoffOpened, RepairsCounted, db, history
<1> QED BY <1>3, <1>5, <1>6 DEF IInv

LEMMA ReturnKeeps ==
  ASSUME IInv, NEW p \in Procs, NEW j \in Jobs, Return(p, j) PROVE IInv'
<1>1. /\ on' = [on EXCEPT ![p] = NoJob] /\ phase' \in {phase, "idle"} /\ stalls' \in {stalls, 0}
      /\ UNCHANGED <<db, queue, todo, budget, history>>
  BY DEF Return
<1>2. TypeOK'
  BY <1>1 DEF IInv, TypeOK, db, budget, history
<1>3. ProgramsSound'
  BY <1>1, NoJobAssumption DEF IInv, TypeOK, ProgramsSound, Sound, Counted, db, history
<1>4. CompletedIsVerified' /\ HandoffOpened' /\ RepairsCounted'
  BY <1>1 DEF IInv, CompletedIsVerified, HandoffOpened, RepairsCounted, db, history
<1> QED BY <1>2, <1>3, <1>4 DEF IInv

LEMMA WriteKeeps ==
  ASSUME IInv, NEW p \in Procs, NEW j \in Jobs, Write(p, j) PROVE IInv'
  BY StatusKeeps, JobKeeps, CurrentKeeps, StepKeeps, VerifyKeeps, RequirementsKeep, RequireKeeps,
     CancelKeeps, EnqueueKeeps, ReturnKeeps DEF Write

-----------------------------------------------------------------------------
(* Requests, deliveries, handlers and failures. *)

LEMMA CreateKeeps ==
  ASSUME IInv, NEW p \in Procs, NEW j \in Jobs, Create(p, j) PROVE IInv'
<1>1. <<Submit>> \in Seq(Plain)
  BY PlainBare, PlainTuples
<1>2. /\ Start(p, j, <<Submit>>) /\ status' = [status EXCEPT ![j] = "queued"]
      /\ UNCHANGED <<started, current, step, attempts, reqs, made, queue, phase, stalls,
                     budget, history>>
  BY DEF Create
<1>3. /\ on' \in [Procs -> Jobs \cup {NoJob}] /\ todo' \in [Procs -> Seq(Op)]
      /\ ProgramsSound'
  BY <1>1, <1>2, StartKeeps DEF history
<1>4. TypeOK'
  BY <1>2, <1>3 DEF IInv, TypeOK, JobStatus, budget, history
<1>5. CompletedIsVerified' /\ HandoffOpened' /\ RepairsCounted'
  BY <1>2 DEF IInv, TypeOK, CompletedIsVerified, HandoffOpened, RepairsCounted, history
<1> QED BY <1>3, <1>4, <1>5 DEF IInv

LEMMA RequestKeeps ==
  ASSUME IInv, NEW p \in Procs, NEW j \in Jobs, NEW kind, NEW prog \in Seq(Plain),
         Request(p, j, kind, prog)
  PROVE  IInv'
<1>1. /\ Start(p, j, prog) /\ calls < MaxCalls /\ calls' = calls + 1
      /\ UNCHANGED <<db, queue, phase, stalls, faults, history>>
  BY DEF Request
<1>2. /\ on' \in [Procs -> Jobs \cup {NoJob}] /\ todo' \in [Procs -> Seq(Op)]
      /\ ProgramsSound'
  BY <1>1, StartKeeps DEF db, history
<1>3. TypeOK'
  BY <1>1, <1>2, NatAssumption DEF IInv, TypeOK, db, history
<1>4. CompletedIsVerified' /\ HandoffOpened' /\ RepairsCounted'
  BY <1>1 DEF IInv, CompletedIsVerified, HandoffOpened, RepairsCounted, db, history
<1> QED BY <1>2, <1>3, <1>4 DEF IInv

LEMMA OperateKeeps ==
  ASSUME IInv, NEW p \in Procs, NEW j \in Jobs, Operate(p, j) PROVE IInv'
<1>1. CASE Create(p, j)
  BY <1>1, CreateKeeps
<1>2. CASE Resume(p, j)
  <2>1. <<WriteJob("queued", current[j]), Enqueue>> \in Seq(Plain)
    <3>1. WriteJob("queued", current[j]) \in Plain /\ Enqueue \in Plain
      BY PlainWriteJob, PlainBare DEF JobStatus, IInv, TypeOK
    <3> QED BY <3>1, PlainTuples
  <2> QED BY <1>2, <2>1, RequestKeeps DEF Resume
<1>3. CASE Cancel(p, j)
  <2>1. <<CancelSteps, WriteJob("cancelled", NoStep)>> \in Seq(Plain)
    <3>1. CancelSteps \in Plain /\ WriteJob("cancelled", NoStep) \in Plain
      BY PlainWriteJob, PlainBare DEF JobStatus, StepIds
    <3> QED BY <3>1, PlainTuples
  <2> QED BY <1>3, <2>1, RequestKeeps DEF Cancel
<1>4. CASE Decide(p, j)
  <2>1. PICK r \in reqs[j], s \in {"satisfied", "rejected"} :
          Request(p, j, "decide", <<Resolve(r.id, s), ReadJob>>)
    BY <1>4 DEF Decide
  <2>2. r.id \in Nat
    BY DEF IInv, TypeOK, Requirement
  <2>3. <<Resolve(r.id, s), ReadJob>> \in Seq(Plain)
    BY <2>2, PlainResolve, PlainBare, PlainTuples
  <2> QED BY <2>1, <2>3, RequestKeeps
<1> QED BY <1>1, <1>2, <1>3, <1>4 DEF Operate

\* A process replaces its program by a sound one; only the evidence may become stale.
LEMMA HandlerKeeps ==
  ASSUME IInv, NEW p \in Procs, NEW j \in Jobs, on[p] = j, on' = on,
         NEW prog \in Seq(Op), Become(p, prog), Sound(p, j, prog), phase' \in {phase, "mark"},
         evidence' = evidence \/ evidence' = [evidence EXCEPT ![j] = IF @ = "passed" THEN "stale" ELSE @],
         UNCHANGED <<db, queue, stalls, budget, repairs>>
  PROVE  IInv'
<1>1. /\ evidence' \in [Jobs -> {"none", "passed", "stale"}]
      /\ \A i \in Jobs : evidence[i] # "none" => evidence'[i] # "none"
  BY DEF IInv, TypeOK
<1>2. todo' \in [Procs -> Seq(Op)] /\ ProgramsSound'
  BY <1>1, BecomeKeeps DEF db
<1>3. TypeOK'
  BY <1>1, <1>2 DEF IInv, TypeOK, db, budget
<1>4. CompletedIsVerified' /\ HandoffOpened' /\ RepairsCounted'
  BY <1>1 DEF IInv, CompletedIsVerified, HandoffOpened, RepairsCounted, db
<1> QED BY <1>2, <1>3, <1>4 DEF IInv

LEMMA DecisionKeeps ==
  ASSUME IInv, NEW p \in Procs, NEW j \in Jobs, ReReadJob(p, j) \/ SettleDecision(p, j)
  PROVE  IInv'
<1>1. /\ on[p] = j /\ on' = on /\ phase' = phase /\ evidence' = evidence
      /\ UNCHANGED <<db, queue, stalls, budget, repairs>>
  BY DEF ReReadJob, SettleDecision, Due, procs, history
<1>2. \E prog \in Seq(Plain) : Become(p, prog)
  <2>1. CASE ReReadJob(p, j)
    <3>1. Settle(current[j]) \in Plain
      BY PlainReads DEF IInv, TypeOK
    <3> QED BY <2>1, <3>1, PlainTuples DEF ReReadJob
  <2>2. CASE SettleDecision(p, j)
    <3> DEFINE c == todo[p][1].current
    <3>1. Due(p, j, "settle")
      BY <2>2 DEF SettleDecision
    <3>2. c \in StepIds
      BY <3>1, DueHead, OpFields
    <3>3. WriteJob("queued", c) \in Plain /\ Enqueue \in Plain
      BY <3>2, PlainWriteJob, PlainBare DEF JobStatus
    <3> QED BY <2>2, <3>3, PlainTuples DEF SettleDecision
  <2> QED BY <2>1, <2>2
<1>3. PICK prog \in Seq(Plain) : Become(p, prog)
  BY <1>2
<1>4. prog \in Seq(Op) /\ Sound(p, j, prog)
  BY PlainProgram, PlainSound
<1> QED BY <1>1, <1>3, <1>4, HandlerKeeps

LEMMA ProcessKeeps ==
  ASSUME IInv, NEW p \in Procs, NEW j \in Jobs, Process(p, j) PROVE IInv'
<1>1. p = Worker /\ on[p] = j /\ UNCHANGED <<db, queue, on, stalls, budget, repairs>>
  BY DEF Process, LoadSteps, ReloadJob, DispatchStep, RefreshStep, ImplementationPass,
         VerificationPass, Due, history
<1>2. evidence' = evidence \/ evidence' = [evidence EXCEPT ![j] = IF @ = "passed" THEN "stale" ELSE @]
  BY DEF Process, ImplementationPass, VerificationPass, history
<1>3. PICK prog \in Seq(Op) : /\ Become(Worker, prog) /\ phase' \in {phase, "mark"}
                              /\ Sound(Worker, j, prog)
  BY <1>1, ProcessSoundly DEF GoesOnSoundly
<1> QED BY <1>1, <1>2, <1>3, HandlerKeeps

LEMMA DeliveryKeeps ==
  ASSUME IInv, NEW p \in Procs, NEW j \in Jobs, TakeDelivery(p, j) PROVE IInv'
<1>1. /\ queue # <<>> /\ queue' = Tail(queue)
      /\ UNCHANGED <<db, budget, history>>
  BY DEF TakeDelivery
<1>2. queue \in Seq([job : Jobs, stalls : {0, 1}])
  BY DEF IInv, TypeOK
<1>3. queue' \in Seq([job : Jobs, stalls : {0, 1}]) /\ queue[1].stalls \in {0, 1}
  <2>1. queue' \in Seq([job : Jobs, stalls : {0, 1}]) /\ queue[1] \in [job : Jobs, stalls : {0, 1}]
    BY <1>1, <1>2, SequenceFacts
  <2> QED BY <2>1
<1>4. CASE UNCHANGED <<on, todo, phase, stalls>>
  <2>1. TypeOK'
    BY <1>1, <1>3, <1>4 DEF IInv, TypeOK, db, budget, history
  <2>2. ProgramsSound'
    BY <1>1, <1>4 DEF IInv, ProgramsSound, Sound, Counted, db, history
  <2>3. CompletedIsVerified' /\ HandoffOpened' /\ RepairsCounted'
    BY <1>1 DEF IInv, CompletedIsVerified, HandoffOpened, RepairsCounted, db, history
  <2> QED BY <2>1, <2>2, <2>3 DEF IInv
<1>5. CASE \E prog \in Seq(Plain) : Start(Worker, j, prog) /\ phase' = "process"
                                    /\ stalls' = queue[1].stalls
  <2>1. /\ on' \in [Procs -> Jobs \cup {NoJob}] /\ todo' \in [Procs -> Seq(Op)]
        /\ ProgramsSound'
    BY <1>1, <1>5, StartKeeps DEF Procs, db, history
  <2>2. TypeOK'
    BY <1>1, <1>3, <1>5, <2>1 DEF IInv, TypeOK, db, budget, history
  <2>3. CompletedIsVerified' /\ HandoffOpened' /\ RepairsCounted'
    BY <1>1 DEF IInv, CompletedIsVerified, HandoffOpened, RepairsCounted, db, history
  <2> QED BY <2>1, <2>2, <2>3 DEF IInv
<1>6. <<ReadSteps(current[j])>> \in Seq(Plain)
  <2>1. ReadSteps(current[j]) \in Plain
    BY PlainReads DEF IInv, TypeOK
  <2> QED BY <2>1, PlainTuples
<1> QED BY <1>4, <1>5, <1>6, PlainMarkFailed DEF TakeDelivery

LEMMA RunKeeps ==
  ASSUME IInv, NEW p \in Procs, NEW j \in Jobs, Run(p, j) PROVE IInv'
  BY WriteKeeps, DecisionKeeps, DeliveryKeeps, ProcessKeeps DEF Run

LEMMA ThrowKeeps ==
  ASSUME IInv, NEW p \in Procs, NEW j \in Jobs, OperationThrows(p, j) PROVE IInv'
<1>1. /\ on[p] = j /\ faults < MaxFaults /\ faults' = faults + 1
      /\ UNCHANGED <<db, queue, calls, history>>
  BY DEF OperationThrows
<1>2. /\ \E prog \in Seq(Plain) : Become(p, prog)
      /\ phase' \in {phase, "mark", "idle"} /\ stalls' \in {stalls, 0}
      /\ on' = on \/ on' = [on EXCEPT ![p] = NoJob]
  <2>1. CASE p = Worker /\ Fail /\ UNCHANGED <<on, stalls>>
    BY <2>1, PlainMarkFailed DEF Fail
  <2>2. CASE /\ p = Worker /\ Become(Worker, <<>>) /\ on' = [on EXCEPT ![p] = NoJob]
             /\ phase' = "idle" /\ stalls' = 0
    BY <2>2, PlainTuples
  <2>3. CASE /\ Become(p, IF todo[p][1].op = "submit" THEN <<WriteStatus("failed")>> ELSE <<>>)
             /\ UNCHANGED procs
    <3>1. WriteStatus("failed") \in Plain
      BY PlainWriteStatus DEF JobStatus
    <3> QED BY <2>3, <3>1, PlainTuples DEF procs
  <2> QED BY <2>1, <2>2, <2>3 DEF OperationThrows
<1>3. PICK prog \in Seq(Plain) : Become(p, prog)
  BY <1>2
<1>4. prog \in Seq(Op) /\ Sound(p, j, prog)
  BY PlainProgram, PlainSound
<1>5. /\ todo' = [todo EXCEPT ![p] = prog] /\ todo \in [Procs -> Seq(Op)]
      /\ on \in [Procs -> Jobs \cup {NoJob}]
  BY <1>3 DEF Become, IInv, TypeOK
<1>6. TypeOK'
  <2>1. /\ on' \in [Procs -> Jobs \cup {NoJob}] /\ phase' \in {"idle", "process", "mark"}
        /\ stalls' \in {0, 1}
    BY <1>2, <1>5 DEF IInv, TypeOK
  <2>2. todo' \in [Procs -> Seq(Op)]
    BY <1>4, <1>5
  <2>3. faults' \in 0..MaxFaults
    BY <1>1, NatAssumption DEF IInv, TypeOK
  <2> QED BY <1>1, <2>1, <2>2, <2>3 DEF IInv, TypeOK, db, history
<1>7. ProgramsSound'
  <2> SUFFICES ASSUME NEW q \in Procs, NEW i \in Jobs, on'[q] = i PROVE Sound(q, i, todo[q])'
    BY DEF ProgramsSound
  <2>1. on[q] = i
    BY <1>2, <1>5, NoJobAssumption
  <2>2. Sound(q, i, todo'[q])
    BY <1>1, <1>4, <1>5, <2>1 DEF IInv, ProgramsSound
  <2> QED BY <1>1, <2>2 DEF Sound, Counted, db, history
<1>8. CompletedIsVerified' /\ HandoffOpened' /\ RepairsCounted'
  BY <1>1 DEF IInv, CompletedIsVerified, HandoffOpened, RepairsCounted, db, history
<1> QED BY <1>6, <1>7, <1>8 DEF IInv

LEMMA CrashKeeps == ASSUME IInv, Crash PROVE IInv'
<1>1. /\ faults < MaxFaults /\ faults' = faults + 1
      /\ on' = [p \in Procs |-> NoJob] /\ todo' = [p \in Procs |-> <<>>]
      /\ phase' = "idle" /\ stalls' = 0
      /\ UNCHANGED <<db, calls, history>>
  BY DEF Crash
<1>2. queue' \in Seq([job : Jobs, stalls : {0, 1}])
  <2> DEFINE Delivery == [job : Jobs, stalls : {0, 1}]
             d == [job |-> on[Worker], stalls |-> 1]
  <2>1. queue \in Seq(Delivery)
    BY DEF IInv, TypeOK
  <2>2. queue' = queue \/ (on[Worker] # NoJob /\ queue' = <<d>> \o queue)
    BY DEF Crash
  <2>3. on[Worker] # NoJob => d \in Delivery
    BY DEF IInv, TypeOK, Procs
  <2>4. queue' \in Seq(Delivery)
    <3> HIDE DEF Delivery, d
    <3> QED BY <2>1, <2>2, <2>3, SequenceFacts
  <2> QED BY <2>4
<1>3. TypeOK'
  BY <1>1, <1>2, NatAssumption DEF IInv, TypeOK, db, history
<1>4. ProgramsSound'
  BY <1>1, NoJobAssumption DEF ProgramsSound
<1>5. CompletedIsVerified' /\ HandoffOpened' /\ RepairsCounted'
  BY <1>1 DEF IInv, CompletedIsVerified, HandoffOpened, RepairsCounted, db, history
<1> QED BY <1>3, <1>4, <1>5 DEF IInv

-----------------------------------------------------------------------------
(* The theorems. *)

LEMMA InitHolds == ASSUME Init PROVE IInv
<1>1. TypeOK
  BY NatAssumption DEF Init, TypeOK, JobStatus, StepStatus, StepIds
<1>2. CompletedIsVerified /\ HandoffOpened /\ RepairsCounted
  BY NatAssumption
  DEF Init, CompletedIsVerified, HandoffOpened, RepairsCounted, Unopened, StepKeys, Finalize
<1>3. ProgramsSound
  BY NoJobAssumption DEF Init, ProgramsSound
<1> QED BY <1>1, <1>2, <1>3 DEF IInv

LEMMA StutterKeeps == ASSUME IInv, UNCHANGED vars PROVE IInv'
  BY DEF IInv, TypeOK, CompletedIsVerified, HandoffOpened, RepairsCounted, ProgramsSound,
         Sound, Counted, vars, db, history

LEMMA NextKeeps == ASSUME IInv, [Next]_vars PROVE IInv'
<1>1. ASSUME NEW p \in Procs, NEW j \in Jobs, Operate(p, j) \/ Run(p, j) \/ OperationThrows(p, j)
      PROVE  IInv'
  BY <1>1, OperateKeeps, RunKeeps, ThrowKeeps
<1>2. CASE Crash
  BY <1>2, CrashKeeps
<1>3. CASE UNCHANGED vars
  BY <1>3, StutterKeeps
<1> QED BY <1>1, <1>2, <1>3 DEF Next

LEMMA Invariance == Spec => []IInv
  BY InitHolds, NextKeeps, PTL DEF Spec

\* Every row, delivery and program keeps its type, whatever interleaves, throws or crashes.
THEOREM TypeCorrect == Spec => []TypeOK
  BY Invariance, PTL DEF IInv

\* No job is ever reported completed without a verification pass that found no blocker, for
\* any number of jobs, operators, requests, crashes and failed operations.
THEOREM CompletionIsVerified == Spec => []CompletedIsVerified
  BY Invariance, PTL DEF IInv

\* Verification sends no job back to its implementation maxVerificationAttempts times.
THEOREM RepairsStayBounded == Spec => []RepairsBounded
<1>1. IInv => RepairsBounded
  BY DEF IInv, RepairsCounted, RepairsBounded
<1> QED BY <1>1, Invariance, PTL

-----------------------------------------------------------------------------
(* What was cancelled stays closed.                                        *)
(*                                                                         *)
(* A request or a delivery that finds the steps of a job closed by a       *)
(* cancellation starts no program that could open one: it dispatches on    *)
(* the closed steps, and no closed step is runnable. Nobody being at the   *)
(* job when it is closed, no older program is left that could.             *)

Shut(ss) == (\E k \in StepKeys : ss[k] = "cancelled") /\ \A k \in StepKeys : ss[k] \notin CancellableStep

\* An operation that opens no step, and leads to none that does.
Mild(o) == o.op \notin {"step", "verify", "refresh", "agent"} /\ (o.op = "dispatch" => Shut(o.steps))
AllMild(prog) == \A i \in DOMAIN prog : Mild(prog[i])
StaysDown(j) == Shut(step[j]) /\ \A p \in Procs : on[p] = j => AllMild(todo[p])

LEMMA MildTail == ASSUME NEW prog \in Seq(Op), prog # <<>>, AllMild(prog) PROVE Mild(prog[1]) /\ AllMild(Tail(prog))
  BY DEF AllMild

\* One process gets another program, and the steps stay shut.
LEMMA StillDown ==
  ASSUME IInv, NEW j \in Jobs, StaysDown(j), NEW p \in Procs, NEW prog, Become(p, prog), Shut(step'[j]),
         \A q \in Procs \ {p} : on'[q] = on[q], on'[p] = j => AllMild(prog)
  PROVE  StaysDown(j)'
<1>1. todo' = [todo EXCEPT ![p] = prog] /\ DOMAIN todo = Procs
  BY DEF Become, IInv, TypeOK
<1>2. ASSUME NEW q \in Procs, on'[q] = j PROVE AllMild(todo'[q])
  BY <1>1, <1>2 DEF StaysDown
<1> QED BY <1>2 DEF StaysDown, Shut, AllMild, Mild

\* What a process does for a job changes no other process, and takes it to no other job.
Confined(p, i) ==
  \/ UNCHANGED <<on, todo>>
  \/ /\ \E prog : Become(p, prog)
     /\ \/ on' = on /\ on[p] = i
        \/ on' = [on EXCEPT ![p] = i]
        \/ on' = [on EXCEPT ![p] = NoJob]

LEMMA WriteConfined == ASSUME NEW p \in Procs, NEW i \in Jobs, Write(p, i), IInv PROVE Confined(p, i)
<1>1. ASSUME NEW o, Due(p, i, o), Advance(p), UNCHANGED procs PROVE Confined(p, i)
  BY <1>1 DEF Due, Advance, Become, procs, Confined
<1>2. CASE \/ DoStatus(p, i)  \/ DoBegin(p, i) \/ DoCurrent(p, i) \/ DoStep(p, i) \/ DoVerify(p, i)
           \/ DoClear(p, i) \/ DoSatisfy(p, i)
  BY <1>1, <1>2 DEF DoStatus, DoBegin, DoCurrent, DoStep, DoVerify, DoClear, DoSatisfy
<1>3. CASE DoResolve(p, i) \/ DoCancelSteps(p, i) \/ DoEnqueue(p, i) \/ DoNotify(p, i)
  BY <1>1, <1>3 DEF DoResolve, DoCancelSteps, DoEnqueue, DoNotify
<1>4. CASE DoJob(p, i)
  BY <1>4 DEF DoJob, Due, procs, Confined
<1>5. CASE DoRequire(p, i)
  <2>1. Due(p, i, "require") /\ UNCHANGED procs /\ (Advance(p) \/ \E prog : Become(p, prog))
    BY <1>5 DEF DoRequire
  <2> QED BY <1>1, <2>1 DEF Due, procs, Confined
<1>6. CASE Return(p, i)
  <2>1. on' = [on EXCEPT ![p] = NoJob] /\ todo' = todo
    BY <1>6 DEF Return
  <2>2. Become(p, todo[p])
    BY <2>1 DEF Become, IInv, TypeOK
  <2> QED BY <2>1, <2>2 DEF Confined
<1> QED BY <1>2, <1>3, <1>4, <1>5, <1>6 DEF Write

LEMMA ActConfined ==
  ASSUME IInv, NEW p \in Procs, NEW i \in Jobs, Operate(p, i) \/ Run(p, i) \/ OperationThrows(p, i)
  PROVE  Confined(p, i)
<1>1. CASE Operate(p, i)
  BY <1>1 DEF Operate, Create, Resume, Cancel, Decide, Request, Start, Confined
<1>2. CASE ReReadJob(p, i) \/ SettleDecision(p, i)
  BY <1>2 DEF ReReadJob, SettleDecision, Due, procs, Confined
<1>3. CASE TakeDelivery(p, i)
  BY <1>3 DEF TakeDelivery, Start, Confined
<1>4. CASE Process(p, i)
  <2>1. GoesOnSoundly(i) /\ p = Worker /\ on' = on
    BY <1>4, ProcessSoundly DEF Process
  <2>2. on[Worker] = i
    BY <1>4 DEF Process, LoadSteps, ReloadJob, DispatchStep, RefreshStep, ImplementationPass,
                VerificationPass, Due
  <2> QED BY <2>1, <2>2 DEF GoesOnSoundly, Confined
<1>5. CASE OperationThrows(p, i)
  BY <1>5 DEF OperationThrows, Fail, procs, Confined
<1> QED BY <1>1, <1>2, <1>3, <1>4, <1>5, WriteConfined DEF Run

\* A process that is at another job leaves this one alone.
LEMMA OtherDown ==
  ASSUME IInv, NEW j \in Jobs, StaysDown(j), NEW p \in Procs, NEW i \in Jobs, i # j,
         Operate(p, i) \/ Run(p, i) \/ OperationThrows(p, i)
  PROVE  StaysDown(j)'
<1>1. step'[j] = step[j]
  <2>1. CASE Operate(p, i) \/ ReReadJob(p, i) \/ SettleDecision(p, i) \/ TakeDelivery(p, i)
             \/ Process(p, i) \/ OperationThrows(p, i)
    BY <2>1 DEF Operate, Create, Resume, Cancel, Decide, Request, ReReadJob, SettleDecision,
                TakeDelivery, Process, OperationThrows, db
  <2>2. CASE Write(p, i)
    <3>1. UNCHANGED step \/ DoStep(p, i) \/ DoVerify(p, i) \/ DoCancelSteps(p, i)
      BY <2>2 DEF Write, db, DoStatus, DoBegin, DoJob, DoCurrent, DoRequire, DoClear, DoSatisfy,
                  DoResolve, DoEnqueue, DoNotify, Return
    <3> QED BY <3>1 DEF DoStep, DoVerify, DoCancelSteps, IInv, TypeOK
  <2> QED BY <2>1, <2>2 DEF Run
<1>2. Confined(p, i)
  BY ActConfined
<1>3. CASE UNCHANGED <<on, todo>>
  BY <1>1, <1>3 DEF StaysDown, Shut, AllMild, Mild
<1>4. CASE ~ UNCHANGED <<on, todo>>
  <2>1. PICK prog : Become(p, prog)
    BY <1>2, <1>4 DEF Confined
  <2>2. (\A q \in Procs \ {p} : on'[q] = on[q]) /\ on'[p] # j
    BY <1>2, <1>4, NoJobAssumption DEF Confined, IInv, TypeOK
  <2>3. Shut(step'[j])
    BY <1>1 DEF StaysDown
  <2> QED BY <2>1, <2>2, <2>3, StillDown
<1> QED BY <1>3, <1>4

\* Programs of one, two or no operations that are mild.
LEMMA MildTuples ==
  /\ AllMild(<<>>)
  /\ \A x : Mild(x) => AllMild(<<x>>)
  /\ \A x, y : Mild(x) /\ Mild(y) => AllMild(<<x, y>>)
  BY DEF AllMild

LEMMA MildOps ==
  /\ \A s : Mild(WriteStatus(s))
  /\ \A s, k : Mild(WriteJob(s, k))
  /\ \A k : Mild(WriteCurrent(k)) /\ Mild(ReadSteps(k)) /\ Mild(Settle(k))
  /\ \A k, kind, n : Mild(Require(k, kind, n))
  /\ \A r, s : Mild(Resolve(r, s))
  /\ Mild(CancelSteps) /\ Mild(Enqueue) /\ Mild(Submit) /\ Mild(Notify) /\ Mild(ReadJob)
  /\ \A c, ss : Shut(ss) => Mild(Dispatch(c, ss))
  /\ AllMild(MarkFailed)
<1>1. \A s : Mild(WriteStatus(s)) /\ \A k : Mild(WriteJob(s, k))
  BY DEF Mild, WriteStatus, WriteJob
<1>2. \A k : Mild(WriteCurrent(k)) /\ Mild(ReadSteps(k)) /\ Mild(Settle(k))
  BY DEF Mild, WriteCurrent, ReadSteps, Settle
<1>3. (\A k, kind, n : Mild(Require(k, kind, n))) /\ \A r, s : Mild(Resolve(r, s))
  BY DEF Mild, Require, Resolve
<1>4. Mild(CancelSteps) /\ Mild(Enqueue) /\ Mild(Submit) /\ Mild(Notify) /\ Mild(ReadJob)
  BY DEF Mild, CancelSteps, Enqueue, Submit, Notify, ReadJob
<1>5. \A c, ss : Shut(ss) => Mild(Dispatch(c, ss))
  BY DEF Mild, Dispatch
<1>6. AllMild(MarkFailed)
  BY <1>1, <1>4, MildTuples DEF MarkFailed
<1> QED BY <1>1, <1>2, <1>3, <1>4, <1>5, <1>6

\* No step that is shut is executed.
LEMMA ShutIsIdle ==
  ASSUME NEW j \in Jobs, NEW k \in StepKeys, NEW s \in StepStatus \ CancellableStep, NEW rs, Execute(j, k, s, rs)
  PROVE  Proceed(<<>>)
<1>1. s \notin Runnable(k)
  BY DEF Runnable, CancellableStep
<1> QED BY <1>1 DEF Execute

\* A process that is at the job itself does one of its mild operations.
LEMMA WriteDown ==
  ASSUME IInv, NEW j \in Jobs, StaysDown(j), NEW p \in Procs, Write(p, j)
  PROVE  StaysDown(j)'
<1>1. on[p] = j /\ todo[p] \in Seq(Op) /\ AllMild(todo[p])
  BY DEF Write, Due, DoStatus, DoBegin, DoJob, DoCurrent, DoStep, DoVerify, DoRequire, DoClear,
         DoSatisfy, DoResolve, DoCancelSteps, DoEnqueue, DoNotify, Return, StaysDown, IInv, TypeOK
<1>2. Shut(step[j])
  BY DEF StaysDown
<1>3. ASSUME Become(p, Tail(todo[p])), todo[p] # <<>>, on' = on, Shut(step'[j]) PROVE StaysDown(j)'
  <2>1. AllMild(Tail(todo[p]))
    BY <1>1, <1>3, MildTail
  <2> QED BY <1>3, <2>1, StillDown
<1>4. ASSUME NEW x, Mild(x), Become(p, <<x>> \o Tail(todo[p])), todo[p] # <<>>, on' = on, step' = step
      PROVE  StaysDown(j)'
  <2>1. AllMild(Tail(todo[p])) /\ Tail(todo[p]) \in Seq(Op)
    BY <1>1, <1>4, MildTail
  <2>2. AllMild(<<x>> \o Tail(todo[p]))
    BY <1>4, <2>1 DEF AllMild
  <2> QED BY <1>2, <1>4, <2>2, StillDown
<1>5. Advance(p) => Become(p, Tail(todo[p]))
  BY DEF Advance, Become, IInv, TypeOK
<1>6. CASE DoStatus(p, j)  \/ DoBegin(p, j) \/ DoCurrent(p, j) \/ DoClear(p, j) \/ DoSatisfy(p, j)
  BY <1>2, <1>3, <1>5, <1>6 DEF DoStatus, DoBegin, DoCurrent, DoClear, DoSatisfy, Due, procs
<1>7. CASE DoResolve(p, j) \/ DoEnqueue(p, j) \/ DoNotify(p, j)
  BY <1>2, <1>3, <1>5, <1>7 DEF DoResolve, DoEnqueue, DoNotify, Due, procs, db
<1>8. CASE DoCancelSteps(p, j)
  <2>1. step'[j] = [k \in StepKeys |-> IF step[j][k] \in CancellableStep THEN "cancelled" ELSE step[j][k]]
    BY <1>8 DEF DoCancelSteps, IInv, TypeOK
  <2>2. Shut(step'[j])
    BY <1>2, <2>1 DEF Shut, CancellableStep
  <2> QED BY <1>3, <1>5, <1>8, <2>2 DEF DoCancelSteps, Due, procs
<1>9. CASE DoJob(p, j)
  BY <1>4, <1>9, MildOps DEF DoJob, Due, procs
<1>10. CASE DoRequire(p, j)
  <2>1. todo[p] # <<>> /\ on' = on /\ step' = step
    BY <1>10 DEF DoRequire, Due, procs
  <2>2. Advance(p) \/ \E x : Mild(x) /\ Become(p, <<x>> \o Tail(todo[p]))
    BY <1>10, MildOps DEF DoRequire
  <2> QED BY <1>2, <1>3, <1>4, <1>5, <2>1, <2>2
<1>11. CASE DoStep(p, j) \/ DoVerify(p, j)
  BY <1>1, <1>11, MildTail DEF DoStep, DoVerify, Due, Mild
<1>12. CASE Return(p, j)
  <2>1. on' = [on EXCEPT ![p] = NoJob] /\ UNCHANGED <<todo, step>>
    BY <1>12 DEF Return, db
  <2>2. \A q \in Procs : on'[q] = j => on[q] = j
    BY <2>1, NoJobAssumption DEF IInv, TypeOK
  <2>3. UNCHANGED todo /\ Shut(step'[j])
    BY <1>2, <2>1
  <2> QED BY <2>2, <2>3 DEF StaysDown, Shut, AllMild, Mild
<1> QED BY <1>6, <1>7, <1>8, <1>9, <1>10, <1>11, <1>12 DEF Write

\* A delivery is dispatched on the shut steps, and ends there.
LEMMA ProcessDown ==
  ASSUME IInv, NEW j \in Jobs, StaysDown(j), NEW p \in Procs, Process(p, j)
  PROVE  StaysDown(j)'
<1> DEFINE d == todo[Worker][1]
<1>1. p = Worker /\ on' = on /\ step' = step /\ Shut(step[j])
  BY DEF Process, StaysDown, db
<1>2. ASSUME NEW prog, Become(Worker, prog), AllMild(prog) PROVE StaysDown(j)'
  BY <1>1, <1>2, StillDown
<1>3. ASSUME NEW o, Due(Worker, j, o) PROVE Mild(d) /\ d.op = o
  BY <1>1, <1>3, WorkerHead, MildTail DEF StaysDown, Due
<1>4. CASE LoadSteps(j)
  <2>1. Proceed(<<Dispatch(d.current, step[j])>>)
    BY <1>1, <1>4 DEF LoadSteps, Present, Shut
  <2> QED BY <1>1, <1>2, <2>1, MildOps, MildTuples DEF Proceed
<1>5. CASE ReloadJob(j)
  BY <1>2, <1>5, MildOps, MildTuples DEF ReloadJob, Proceed
<1>6. CASE DispatchStep(j)
  <2> DEFINE k == GetCurrentStep(d.steps, d.current)
  <2>1. Due(Worker, j, "dispatch")
    BY <1>6 DEF DispatchStep
  <2>2. d.steps \in [StepKeys -> StepStatus] /\ Shut(d.steps) /\ k \in StepIds
    BY <1>3, <2>1, WorkerHead, OpFields, CurrentStepTyped DEF Mild
  <2>3. k # NoStep => d.steps[k] \in StepStatus \ CancellableStep
    BY <2>2 DEF Shut, StepIds
  <2>4. k # NoStep => d.steps[k] \notin {"running", "waiting_for_runtime"}
    BY <2>3 DEF CancellableStep
  <2>5. Proceed(<<>>) \/ (k # NoStep /\ Execute(j, k, d.steps[k], reqs[j]))
    BY <1>6, <2>4 DEF DispatchStep, NoStep, Inspect
  <2>6. Proceed(<<>>)
    BY <2>2, <2>3, <2>5, ShutIsIdle DEF StepIds
  <2> QED BY <1>2, <2>6, MildTuples DEF Proceed
<1>7. CASE RefreshStep(j) \/ ImplementationPass(j) \/ VerificationPass(j)
  <2>1. Due(Worker, j, "refresh") \/ Due(Worker, j, "agent")
    BY <1>7 DEF RefreshStep, ImplementationPass, VerificationPass
  <2> QED BY <1>3, <2>1 DEF Mild
<1> QED BY <1>4, <1>5, <1>6, <1>7 DEF Process

LEMMA ItselfDown ==
  ASSUME IInv, NEW j \in Jobs, StaysDown(j), NEW p \in Procs,
         Operate(p, j) \/ Run(p, j) \/ OperationThrows(p, j)
  PROVE  StaysDown(j)'
<1>1. Shut(step[j])
  BY DEF StaysDown
<1>2. ASSUME NEW prog, Become(p, prog), AllMild(prog), step' = step,
             on' = on \/ \E x : on' = [on EXCEPT ![p] = x]
      PROVE  StaysDown(j)'
  <2>1. \A q \in Procs \ {p} : on'[q] = on[q]
    BY <1>2 DEF IInv, TypeOK
  <2> QED BY <1>1, <1>2, <2>1, StillDown
<1>3. CASE Operate(p, j)
  <2>1. PICK prog : Start(p, j, prog) /\ AllMild(prog)
    BY <1>3, MildOps, MildTuples DEF Operate, Create, Resume, Cancel, Decide, Request
  <2>2. step' = step
    BY <1>3 DEF Operate, Create, Resume, Cancel, Decide, Request, db
  <2> QED BY <1>2, <2>1, <2>2 DEF Start
<1>4. CASE ReReadJob(p, j)
  BY <1>2, <1>4, MildOps, MildTuples DEF ReReadJob, procs, db
<1>5. CASE SettleDecision(p, j)
  BY <1>2, <1>5, MildOps, MildTuples DEF SettleDecision, procs, db
<1>6. CASE TakeDelivery(p, j)
  <2>1. UNCHANGED <<on, todo>> \/ \E prog : Start(p, j, prog) /\ AllMild(prog)
    BY <1>6, MildOps, MildTuples DEF TakeDelivery
  <2>2. step' = step
    BY <1>6 DEF TakeDelivery, db
  <2>3. CASE UNCHANGED <<on, todo>>
    BY <2>2, <2>3 DEF StaysDown, Shut, AllMild, Mild
  <2> QED BY <1>2, <2>1, <2>2, <2>3 DEF Start
<1>7. CASE OperationThrows(p, j)
  <2>1. \E prog : Become(p, prog) /\ AllMild(prog)
    BY <1>7, MildOps, MildTuples DEF OperationThrows, Fail
  <2>2. step' = step /\ (on' = on \/ on' = [on EXCEPT ![p] = NoJob])
    BY <1>7 DEF OperationThrows, procs, db
  <2> QED BY <1>2, <2>1, <2>2
<1> QED BY <1>3, <1>4, <1>5, <1>6, <1>7, WriteDown, ProcessDown DEF Run

\* A job closed down by its cancellation is never opened again, whatever is asked of it, throws
\* or crashes afterwards, for any number of jobs, operators and requests.
THEOREM CancelledForGood == WatchedSpec => []CancelIsFinal
<1> DEFINE AllDown == closed \subseteq Jobs /\ \A j \in closed : StaysDown(j)
<1>1. ASSUME IInv, NEW j \in Jobs, ClosedDown(j) PROVE StaysDown(j)
  BY <1>1 DEF ClosedDown, NoneOpen, StaysDown, Shut
<1>2. AllDown => CancelIsFinal
  BY DEF CancelIsFinal, NoneOpen, StaysDown, Shut
<1>3. ASSUME IInv, NEW j \in Jobs, StaysDown(j), [Next]_vars PROVE StaysDown(j)'
  <2>1. ASSUME NEW p \in Procs, NEW i \in Jobs, Operate(p, i) \/ Run(p, i) \/ OperationThrows(p, i)
        PROVE  StaysDown(j)'
    BY <1>3, <2>1, OtherDown, ItselfDown
  <2>2. CASE Crash
    BY <1>3, <2>2, NoJobAssumption DEF Crash, db, StaysDown, Shut, AllMild, Mild
  <2>3. CASE UNCHANGED vars
    BY <1>3, <2>3 DEF vars, db, StaysDown, Shut, AllMild, Mild
  <2> QED BY <1>3, <2>1, <2>2, <2>3 DEF Next
<1>4. ASSUME IInv, IInv', AllDown, [Next /\ closed' = closed \cup {j \in Jobs : ClosedDown(j)'}]_<<vars, closed>>
      PROVE  AllDown'
  <2>1. [Next]_vars
    BY <1>4
  <2>2. \A j \in closed : StaysDown(j)'
    BY <1>3, <1>4, <2>1
  <2>3. \A j \in Jobs : ClosedDown(j)' => StaysDown(j)'
    BY <1>4 DEF ClosedDown, NoneOpen, StaysDown, Shut
  <2>4. closed' \subseteq Jobs /\ \A j \in closed' : j \in closed \/ ClosedDown(j)'
    BY <1>4
  <2> QED BY <2>2, <2>3, <2>4
<1>5. [Next /\ closed' = closed \cup {j \in Jobs : ClosedDown(j)'}]_<<vars, closed>> => [Next]_vars
  OBVIOUS
<1>6. WatchedSpec => Spec
  BY <1>5, PTL DEF WatchedSpec, Spec
<1>7. closed = {} => AllDown
  OBVIOUS
<1> QED BY <1>2, <1>4, <1>6, <1>7, Invariance, PTL DEF WatchedSpec

-----------------------------------------------------------------------------
(* The promise of JobPromise, kept operation by operation. *)

Promised == [Promise!PromiseNext]_(Promise!promise)

\* What writes no status, no count and no verdict changes nothing of the promise.
LEMMA QuietStep ==
  ASSUME status' = status, attempts' = attempts, repairs' = repairs,
         \A i \in Jobs : (evidence'[i] # "none") = (evidence[i] # "none")
  PROVE  Promised
<1>1. [i \in Jobs |-> Reported(status[i])]' = [i \in Jobs |-> Reported(status[i])]
  OBVIOUS
<1>2. [i \in Jobs |-> evidence[i] # "none"]' = [i \in Jobs |-> evidence[i] # "none"]
  OBVIOUS
<1> QED BY <1>1, <1>2 DEF Promised, Promise!promise

\* Writing a status is a report.
LEMMA ReportStep ==
  ASSUME IInv, NEW j \in Jobs, NEW to \in JobStatus, to = "completed" => evidence[j] # "none",
         status' = [status EXCEPT ![j] = to], UNCHANGED <<attempts, evidence, repairs>>
  PROVE  Promised
<1>1. [i \in Jobs |-> Reported(status[i])]'
        = [[i \in Jobs |-> Reported(status[i])] EXCEPT ![j] = Reported(to)]
  BY DEF IInv, TypeOK
<1>2. Reported(to) \in {"open", "completed", "closed"}
  BY DEF Reported
<1>3. Reported(to) = "completed" => [i \in Jobs |-> evidence[i] # "none"][j]
  BY DEF Reported
<1>4. [i \in Jobs |-> evidence[i] # "none"]' = [i \in Jobs |-> evidence[i] # "none"]
  OBVIOUS
<1>5. Promise!Report(j)
  BY <1>1, <1>2, <1>3, <1>4 DEF Promise!Report
<1> QED BY <1>5 DEF Promised, Promise!PromiseNext

\* Storing the outcome of a verification pass is a verdict: the attempt it counts is still
\* the next one, and a repair it asks for is below the maximum.
LEMMA JudgeStep ==
  ASSUME IInv, NEW p \in Procs, NEW j \in Jobs, DoVerify(p, j)
  PROVE  Promised
<1> DEFINE w == todo[p][1]
<1>1. /\ Due(p, j, "verify") /\ status' = status
      /\ attempts' = [attempts EXCEPT ![j] = w.attempts]
      /\ evidence' = [evidence EXCEPT ![j] = IF w.to = "completed" THEN "passed" ELSE @]
      /\ repairs' = [repairs EXCEPT ![j] = IF w.to = "retrying" THEN @ + 1 ELSE @]
  BY DEF DoVerify
<1>2. /\ w.op = "verify" /\ Sound(p, j, todo[p]) /\ 1 \in DOMAIN todo[p]
  BY <1>1, DueHead
<1>3. /\ w.attempts = attempts[j] + 1
      /\ w.to = "retrying" => w.attempts < MaxAttempts
  BY <1>2 DEF Sound, Counted
<1>4. /\ attempts \in [Jobs -> Nat] /\ repairs \in [Jobs -> Nat]
      /\ evidence \in [Jobs -> {"none", "passed", "stale"}]
  BY DEF IInv, TypeOK
<1>5. attempts' = [attempts EXCEPT ![j] = attempts[j] + 1]
  BY <1>1, <1>3
<1>6. [i \in Jobs |-> Reported(status[i])]' = [i \in Jobs |-> Reported(status[i])]
  BY <1>1
<1> DEFINE v == [i \in Jobs |-> evidence[i] # "none"]
<1>7. CASE w.to = "completed"
  <2>1. repairs' = repairs
    BY <1>1, <1>4, <1>7
  <2>2. v' = [v EXCEPT ![j] = TRUE]
    BY <1>1, <1>4, <1>7
  <2>3. Promise!Judge(j)
    BY <1>5, <1>6, <2>1, <2>2 DEF Promise!Judge
  <2> QED BY <2>3 DEF Promised, Promise!PromiseNext
<1>8. CASE w.to = "retrying"
  <2>1. repairs' = [repairs EXCEPT ![j] = repairs[j] + 1] /\ attempts[j] + 1 < MaxAttempts
    BY <1>1, <1>3, <1>8
  <2>2. v' = v
    BY <1>1, <1>4, <1>8
  <2>3. Promise!Judge(j)
    BY <1>5, <1>6, <2>1, <2>2 DEF Promise!Judge
  <2> QED BY <2>3 DEF Promised, Promise!PromiseNext
<1>9. CASE w.to \notin {"completed", "retrying"}
  <2>1. repairs' = repairs
    BY <1>1, <1>4, <1>9
  <2>2. v' = v
    BY <1>1, <1>4, <1>9
  <2>3. Promise!Judge(j)
    BY <1>5, <1>6, <2>1, <2>2 DEF Promise!Judge
  <2> QED BY <2>3 DEF Promised, Promise!PromiseNext
<1> QED BY <1>7, <1>8, <1>9

LEMMA WriteReports ==
  ASSUME IInv, NEW p \in Procs, NEW j \in Jobs, Write(p, j)
  PROVE  Promised
<1>1. CASE DoStatus(p, j) \/ DoBegin(p, j) \/ DoJob(p, j)
  <2> DEFINE to == todo[p][1].to
  <2>1. PICK o \in {"status", "begin", "job"} : Due(p, j, o)
    BY <1>1 DEF DoStatus, DoBegin, DoJob
  <2>2. to \in JobStatus /\ (to = "completed" => evidence[j] # "none")
    BY <2>1, DueHead, OpFields, HeadClaims DEF Claims
  <2>3. status' = [status EXCEPT ![j] = to] /\ UNCHANGED <<attempts, evidence, repairs>>
    BY <1>1 DEF DoStatus, DoBegin, DoJob, history
  <2> QED BY <2>2, <2>3, ReportStep
<1>2. CASE DoVerify(p, j)
  BY <1>2, JudgeStep
<1>3. CASE ~(DoStatus(p, j) \/ DoBegin(p, j) \/ DoJob(p, j) \/ DoVerify(p, j))
  <2>1. UNCHANGED <<status, attempts, evidence, repairs>>
    BY <1>3 DEF Write, DoCurrent, DoStep, DoRequire, DoClear, DoSatisfy, DoResolve,
                DoCancelSteps, DoEnqueue, DoNotify, Return, db, history
  <2> QED BY <2>1, QuietStep
<1> QED BY <1>1, <1>2, <1>3

\* A handler that goes on writes no row; an agent pass makes evidence stale at most.
LEMMA OthersQuiet ==
  ASSUME IInv, NEW p \in Procs, NEW j \in Jobs,
         \/ Resume(p, j) \/ Cancel(p, j) \/ Decide(p, j) \/ ReReadJob(p, j)
         \/ SettleDecision(p, j) \/ TakeDelivery(p, j) \/ Process(p, j) \/ OperationThrows(p, j)
  PROVE  Promised
<1>1. UNCHANGED <<status, attempts, repairs>>
  BY DEF Resume, Cancel, Decide, Request, ReReadJob, SettleDecision, TakeDelivery, Process,
         ImplementationPass, VerificationPass, OperationThrows, db, history
<1>2. evidence' = evidence \/ evidence' = [evidence EXCEPT ![j] = IF @ = "passed" THEN "stale" ELSE @]
  BY DEF Resume, Cancel, Decide, Request, ReReadJob, SettleDecision, TakeDelivery, Process,
         ImplementationPass, VerificationPass, OperationThrows, history
<1>3. \A i \in Jobs : (evidence'[i] # "none") = (evidence[i] # "none")
  BY <1>2 DEF IInv, TypeOK
<1> QED BY <1>1, <1>3, QuietStep

LEMMA NextPromised == ASSUME IInv, [Next]_vars PROVE Promised
<1>1. ASSUME NEW p \in Procs, NEW j \in Jobs, Operate(p, j) \/ Run(p, j) \/ OperationThrows(p, j)
      PROVE  Promised
  <2>1. CASE Create(p, j)
    BY <2>1, ReportStep DEF Create, JobStatus, history
  <2> QED BY <1>1, <2>1, WriteReports, OthersQuiet DEF Operate, Run
<1>2. CASE Crash
  BY <1>2, QuietStep DEF Crash, db, history
<1>3. CASE UNCHANGED vars
  BY <1>3, QuietStep DEF vars, db, history
<1> QED BY <1>1, <1>2, <1>3 DEF Next

LEMMA InitPromised == ASSUME Init PROVE Promise!PromiseInit
  BY DEF Init, Promise!PromiseInit, Reported

\* The handlers implement JobPromise: every behaviour of the jobs, seen through what is
\* reported of them, is one the promise allows.
THEOREM PromiseKept == Spec => KeepsPromise
<1>1. Init => Promise!PromiseInit
  BY InitPromised
<1>2. IInv /\ [Next]_vars => [Promise!PromiseNext]_(Promise!promise)
  BY NextPromised DEF Promised
<1> QED BY <1>1, <1>2, Invariance, PTL DEF Spec, KeepsPromise, Promise!PromiseSpec

=============================================================================
