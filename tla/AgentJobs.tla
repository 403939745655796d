----------------------------- MODULE AgentJobs -----------------------------
(***************************************************************************)
(* Durable agent build jobs of the worker (apps/worker/src/lib/agent-jobs):*)
(* a job walks the five steps of its plan, one queue delivery per step,    *)
(* while operators create, resume and cancel it and decide the             *)
(* requirements it waits for.                                              *)
(*                                                                         *)
(* Every handler reads some rows and then awaits a series of single-row    *)
(* writes, none of them in a transaction.  A process therefore holds a     *)
(* program, the sequence of operations it still has to do; one action does *)
(* the first of them, so handlers interleave at every await, any operation *)
(* may throw, and a restart may fall between any two of them.              *)
(***************************************************************************)
EXTENDS Naturals, Sequences

CONSTANTS
  Jobs,          \* job ids
  Operators,     \* concurrent HTTP or chat requests about jobs
  Calls,         \* the requests operators make, a subset of CallKinds
  Missing,       \* what a probe may find missing or failing
  NoJob,         \* the job of a process that works on none
  MaxAttempts,   \* settings.maxVerificationAttempts
  MaxReqs,       \* bound: requirement rows ever made for a job
  MaxApprovals,  \* bound: approvals one agent pass asks for
  MaxCalls,      \* bound: requests other than creations
  MaxFaults      \* bound: crashes and failed operations

CallKinds == {"create", "resume", "cancel", "decide"}
Probes    == {"workspace", "runtime", "inference", "port", "agent", "time"}

ASSUME CallsAssumption   == Calls \subseteq CallKinds
ASSUME ProbesAssumption  == Missing \subseteq Probes
ASSUME NoJobAssumption   == NoJob \notin Jobs
ASSUME NatAssumption     == /\ MaxAttempts \in Nat \ {0}
                            /\ {MaxReqs, MaxApprovals, MaxCalls, MaxFaults} \subseteq Nat

Worker == "worker"
ASSUME WorkerAssumption  == Worker \notin Operators

Procs == Operators \cup {Worker}

(***************************************************************************)
(* The steps of a plan, numbered by their sequence column.                 *)
(***************************************************************************)
Inspect   == 1
Draft     == 2
Implement == 3
Verify    == 4
Finalize  == 5

StepKeys == 1..5
NoStep   == 0
StepIds  == StepKeys \cup {NoStep}

JobStatus  == {"none", "queued", "running", "retrying", "waiting_for_runtime",
               "waiting_for_approval", "blocked", "completed", "failed", "cancelled"}
StepStatus == {"absent", "pending", "ready", "running", "retrying", "waiting_for_runtime",
               "waiting_for_approval", "blocked", "completed", "failed", "cancelled"}

Terminal      == {"completed", "cancelled", "failed"}
CancellableStep == {"pending", "ready", "running", "retrying", "waiting_for_approval",
                    "waiting_for_runtime", "blocked"}

DetectedKinds == {"runtime", "package_manager", "service", "network", "port"}
ReqKinds      == DetectedKinds \cup {"credential", "approval"}

Requirement == [id : Nat, step : StepKeys, kind : ReqKinds,
                status : {"pending", "satisfied", "rejected"}]

VARIABLES
  \* Postgres
  status,     \* jobs.status
  started,    \* jobs.startedAt is set
  current,    \* agent_jobs.currentStepId
  step,       \* agent_job_steps.status by step key, "absent" without a row
  attempts,   \* outputJson.attemptCount of verify_result
  reqs,       \* agent_job_requirements rows
  made,       \* requirement rows ever made: the source of fresh ids
  \* Redis
  queue,      \* waiting deliveries of the BullMQ queue
  \* processes
  on,         \* the job a process works on
  todo,       \* the operations it still has to do
  phase,      \* the worker: idle, processing a delivery, or marking it failed
  stalls,     \* how often the worker's delivery was taken back from a dead worker
  \* budgets
  calls, faults,
  \* history
  evidence,   \* none, passed, or stale once the workspace changed after a pass
  repairs     \* repair passes verification asked for

db      == <<status, started, current, step, attempts, reqs, made>>
history == <<evidence, repairs>>
vars    == <<db, queue, on, todo, phase, stalls, calls, faults, history>>

(***************************************************************************)
(* The operations programs are made of.                                    *)
(***************************************************************************)
WriteStatus(s)      == [op |-> "status",  to |-> s]
Begin(s)            == [op |-> "begin",   to |-> s]
WriteJob(s, k)      == [op |-> "job",     to |-> s, current |-> k]  \* two statements
WriteCurrent(k)     == [op |-> "current", current |-> k]
WriteStep(k, s)     == [op |-> "step",    key |-> k, to |-> s]
WriteVerify(s, n)   == [op |-> "verify",  to |-> s, attempts |-> n]
Require(k, kind, n) == [op |-> "require", key |-> k, kind |-> kind, count |-> n]
Clear(k, kinds)     == [op |-> "clear",   key |-> k, kinds |-> kinds]
Satisfy(k)          == [op |-> "satisfy", key |-> k]
CancelSteps         == [op |-> "cancel"]
Resolve(r, s)       == [op |-> "resolve", id |-> r, to |-> s]
Enqueue             == [op |-> "enqueue"]
Submit              == [op |-> "submit"]   \* the enqueue of a creation, in its try block
Notify              == [op |-> "notify"]   \* trace and chat update after the last write
Reload              == [op |-> "reload"]
ReadSteps(c)        == [op |-> "steps",    current |-> c]
Dispatch(c, ss)     == [op |-> "dispatch", current |-> c, steps |-> ss]
Refresh(k, rs)      == [op |-> "refresh",  key |-> k, reqs |-> rs]
RunAgent(k)         == [op |-> "agent",    key |-> k]
ReadJob             == [op |-> "reread"]
Settle(c)           == [op |-> "settle",   current |-> c]

Op == [op : {"status", "begin"}, to : JobStatus]
      \cup [op : {"job"}, to : JobStatus, current : StepIds]
      \cup [op : {"current", "steps", "settle"}, current : StepIds]
      \cup [op : {"step"}, key : StepKeys, to : StepStatus]
      \cup [op : {"verify"}, to : StepStatus, attempts : Nat]
      \cup [op : {"require"}, key : StepKeys, kind : ReqKinds, count : Nat]
      \cup [op : {"clear"}, key : StepKeys, kinds : SUBSET ReqKinds]
      \cup [op : {"satisfy", "agent"}, key : StepKeys]
      \cup [op : {"resolve"}, id : Nat, to : {"satisfied", "rejected"}]
      \cup [op : {"dispatch"}, current : StepIds, steps : [StepKeys -> StepStatus]]
      \cup [op : {"refresh"}, key : StepKeys, reqs : SUBSET Requirement]
      \cup [op : {"cancel", "enqueue", "submit", "notify", "reload", "reread"}]

MarkFailed == <<WriteStatus("failed"), Notify>>

Init ==
  /\ status   = [j \in Jobs |-> "none"]
  /\ started  = [j \in Jobs |-> FALSE]
  /\ current  = [j \in Jobs |-> NoStep]
  /\ step     = [j \in Jobs |-> [k \in StepKeys |-> "absent"]]
  /\ attempts = [j \in Jobs |-> 0]
  /\ reqs     = [j \in Jobs |-> {}]
  /\ made     = [j \in Jobs |-> 0]
  /\ queue    = <<>>
  /\ on       = [p \in Procs |-> NoJob]
  /\ todo     = [p \in Procs |-> <<>>]
  /\ phase    = "idle"
  /\ stalls   = 0
  /\ calls    = 0
  /\ faults   = 0
  /\ evidence = [j \in Jobs |-> "none"]
  /\ repairs  = [j \in Jobs |-> 0]

(***************************************************************************)
(* Doing one operation.                                                    *)
(***************************************************************************)
\* Process p works on job j and its next operation is an o.
Due(p, j, o) == /\ on[p] = j
                /\ todo[p] # <<>>
                /\ todo[p][1].op = o

Advance(p)      == todo' = [todo EXCEPT ![p] = Tail(@)]
Become(p, prog) == todo' = [todo EXCEPT ![p] = prog]

procs  == <<on, phase, stalls>>
budget == <<calls, faults>>

DoStatus(p, j) ==
  /\ Due(p, j, "status")
  /\ status' = [status EXCEPT ![j] = todo[p][1].to]
  /\ Advance(p)
  /\ UNCHANGED <<started, current, step, attempts, reqs, made, queue, procs, budget, history>>

DoBegin(p, j) ==
  /\ Due(p, j, "begin")
  /\ status' = [status EXCEPT ![j] = todo[p][1].to]
  /\ started' = [started EXCEPT ![j] = TRUE]
  /\ Advance(p)
  /\ UNCHANGED <<current, step, attempts, reqs, made, queue, procs, budget, history>>

DoJob(p, j) ==
  /\ Due(p, j, "job")
  /\ status' = [status EXCEPT ![j] = todo[p][1].to]
  /\ Become(p, <<WriteCurrent(todo[p][1].current)>> \o Tail(todo[p]))
  /\ UNCHANGED <<started, current, step, attempts, reqs, made, queue, procs, budget, history>>

DoCurrent(p, j) ==
  /\ Due(p, j, "current")
  /\ current' = [current EXCEPT ![j] = todo[p][1].current]
  /\ Advance(p)
  /\ UNCHANGED <<status, started, step, attempts, reqs, made, queue, procs, budget, history>>

DoStep(p, j) ==
  /\ Due(p, j, "step")
  /\ step' = [step EXCEPT ![j][todo[p][1].key] = todo[p][1].to]
  /\ Advance(p)
  /\ UNCHANGED <<status, started, current, attempts, reqs, made, queue, procs, budget, history>>

\* The outcome of a verification pass, with its attempt count in outputJson.
DoVerify(p, j) ==
  /\ Due(p, j, "verify")
  /\ LET w == todo[p][1] IN
     /\ step' = [step EXCEPT ![j][Verify] = w.to]
     /\ attempts' = [attempts EXCEPT ![j] = w.attempts]
     /\ evidence' = [evidence EXCEPT ![j] = IF w.to = "completed" THEN "passed" ELSE @]
     /\ repairs' = [repairs EXCEPT ![j] = IF w.to = "retrying" THEN @ + 1 ELSE @]
  /\ Advance(p)
  /\ UNCHANGED <<status, started, current, reqs, made, queue, procs, budget>>

\* Insert one of the rows still to be inserted; with none left, go on.
DoRequire(p, j) ==
  /\ Due(p, j, "require")
  /\ LET w == todo[p][1] IN
     \/ /\ w.count > 0
        /\ made' = [made EXCEPT ![j] = @ + 1]
        /\ reqs' = [reqs EXCEPT ![j] = @ \cup {[id |-> made[j] + 1, step |-> w.key,
                                                kind |-> w.kind, status |-> "pending"]}]
        /\ Become(p, <<Require(w.key, w.kind, w.count - 1)>> \o Tail(todo[p]))
     \/ /\ w.count = 0
        /\ Advance(p)
        /\ UNCHANGED <<reqs, made>>
  /\ UNCHANGED <<status, started, current, step, attempts, queue, procs, budget, history>>

\* Delete the pending rows of a step that are of the given kinds.
DoClear(p, j) ==
  /\ Due(p, j, "clear")
  /\ reqs' = [reqs EXCEPT ![j] = {r \in @ : \/ r.step # todo[p][1].key
                                            \/ r.kind \notin todo[p][1].kinds
                                            \/ r.status # "pending"}]
  /\ Advance(p)
  /\ UNCHANGED <<status, started, current, step, attempts, made, queue, procs, budget, history>>

DoSatisfy(p, j) ==
  /\ Due(p, j, "satisfy")
  /\ reqs' = [reqs EXCEPT ![j] =
       {IF r.step = todo[p][1].key /\ r.status = "pending"
          THEN [r EXCEPT !.status = "satisfied"] ELSE r : r \in @}]
  /\ Advance(p)
  /\ UNCHANGED <<status, started, current, step, attempts, made, queue, procs, budget, history>>

DoResolve(p, j) ==
  /\ Due(p, j, "resolve")
  /\ reqs' = [reqs EXCEPT ![j] =
       {IF r.id = todo[p][1].id THEN [r EXCEPT !.status = todo[p][1].to] ELSE r : r \in @}]
  /\ Advance(p)
  /\ UNCHANGED <<status, started, current, step, attempts, made, queue, procs, budget, history>>

DoCancelSteps(p, j) ==
  /\ Due(p, j, "cancel")
  /\ step' = [step EXCEPT ![j] =
       [k \in StepKeys |-> IF @[k] \in CancellableStep THEN "cancelled" ELSE @[k]]]
  /\ Advance(p)
  /\ UNCHANGED <<status, started, current, attempts, reqs, made, queue, procs, budget, history>>

DoEnqueue(p, j) ==
  /\ Due(p, j, "enqueue") \/ Due(p, j, "submit")
  /\ queue' = Append(queue, [job |-> j, stalls |-> 0])
  /\ Advance(p)
  /\ UNCHANGED <<db, procs, budget, history>>

DoNotify(p, j) ==
  /\ Due(p, j, "notify")
  /\ Advance(p)
  /\ UNCHANGED <<db, queue, procs, budget, history>>

\* A handler returns; the worker's delivery is acknowledged or recorded as failed.
Return(p, j) ==
  /\ on[p] = j
  /\ todo[p] = <<>>
  /\ on' = [on EXCEPT ![p] = NoJob]
  /\ phase' = IF p = Worker THEN "idle" ELSE phase
  /\ stalls' = IF p = Worker THEN 0 ELSE stalls
  /\ UNCHANGED <<db, queue, todo, budget, history>>

Write(p, j) ==
  \/ DoStatus(p, j)  \/ DoBegin(p, j)   \/ DoJob(p, j) \/ DoCurrent(p, j) \/ DoStep(p, j)
  \/ DoVerify(p, j)  \/ DoRequire(p, j) \/ DoClear(p, j)       \/ DoSatisfy(p, j)
  \/ DoResolve(p, j) \/ DoCancelSteps(p, j) \/ DoEnqueue(p, j) \/ DoNotify(p, j)
  \/ Return(p, j)

(***************************************************************************)
(* Operator requests.  Each reads its rows when it starts; what it read may*)
(* be stale by the time it writes.                                         *)
(***************************************************************************)
Start(p, j, prog) ==
  /\ on[p] = NoJob
  /\ on' = [on EXCEPT ![p] = j]
  /\ Become(p, prog)

Request(p, j, kind, prog) ==
  /\ kind \in Calls
  /\ status[j] # "none"
  /\ calls < MaxCalls
  /\ calls' = calls + 1
  /\ Start(p, j, prog)
  /\ UNCHANGED <<db, queue, phase, stalls, faults, history>>

Create(p, j) ==
  /\ "create" \in Calls
  /\ status[j] = "none"
  /\ status' = [status EXCEPT ![j] = "queued"]
  /\ Start(p, j, <<Submit>>)
  /\ UNCHANGED <<started, current, step, attempts, reqs, made, queue, phase, stalls, budget, history>>

Resume(p, j) ==
  /\ status[j] \notin {"completed", "cancelled"}
  /\ Request(p, j, "resume", <<WriteJob("queued", current[j]), Enqueue>>)

Cancel(p, j) ==
  Request(p, j, "cancel", <<CancelSteps, WriteJob("cancelled", NoStep)>>)

\* The console and the chat offer the pending requirements for a decision.
Decide(p, j) ==
  \E r \in reqs[j], s \in {"satisfied", "rejected"} :
    /\ r.status = "pending"
    /\ Request(p, j, "decide", <<Resolve(r.id, s), ReadJob>>)

\* After its own write a decision reads the job row again, then the requirements.
ReReadJob(p, j) ==
  /\ Due(p, j, "reread")
  /\ Become(p, <<Settle(current[j])>>)
  /\ UNCHANGED <<db, queue, procs, budget, history>>

PendingOn(rs, k) == {r \in rs : r.step = k /\ r.status = "pending"}

SettleDecision(p, j) ==
  /\ Due(p, j, "settle")
  /\ LET c == todo[p][1].current IN
     Become(p, IF PendingOn(reqs[j], c) = {} THEN <<WriteJob("queued", c), Enqueue>>
               ELSE <<>>)
  /\ UNCHANGED <<db, queue, procs, budget, history>>

(***************************************************************************)
(* The worker takes a delivery and loads the job: the row, the steps, then *)
(* the requirements, each in a query of its own.                           *)
(***************************************************************************)
TakeDelivery(p, j) ==
  /\ p = Worker
  /\ phase = "idle"
  /\ queue # <<>>
  /\ queue[1].job = j
  /\ queue' = Tail(queue)
  /\ \/ /\ status[j] \in Terminal
        /\ UNCHANGED <<on, todo, phase, stalls>>
     \/ /\ status[j] \notin Terminal
        /\ Start(Worker, j, <<ReadSteps(current[j])>>)
        /\ phase' = "process"
        /\ stalls' = queue[1].stalls
     \/ /\ status[j] \notin Terminal
        /\ started[j] /\ "time" \in Missing     \* over maxJobRuntimeMinutes
        /\ Start(Worker, j, MarkFailed)
        /\ phase' = "process"
        /\ stalls' = queue[1].stalls
  /\ UNCHANGED <<db, budget, history>>

\* The worker goes on to prog, or fails: the catch block of processJob.
Proceed(prog) == Become(Worker, prog) /\ phase' = phase
Fail          == Become(Worker, MarkFailed) /\ phase' = "mark"

\* A probe may find w missing, while the requirement it records still has an id.
Lacking(j, w) == w \in Missing /\ made[j] < MaxReqs

Present(j, k) == step[j][k] # "absent"

Plan(ready) ==
  <<Begin(IF ready THEN "running" ELSE "waiting_for_runtime"),
    WriteStep(Inspect, IF ready THEN "ready" ELSE "waiting_for_runtime"),
    WriteStep(Draft, "pending"),
    WriteStep(Implement, "pending"),
    WriteStep(Verify, "pending"),
    WriteStep(Finalize, "pending"),
    WriteCurrent(Inspect),
    Require(Inspect, "runtime", IF ready THEN 0 ELSE 1),
    Reload>>

LoadSteps(j) ==
  /\ Due(Worker, j, "steps")
  /\ \/ /\ \E k \in StepKeys : Present(j, k)
        /\ Proceed(<<Dispatch(todo[Worker][1].current, step[j])>>)
     \/ /\ \A k \in StepKeys : ~Present(j, k)
        /\ \/ Proceed(Plan(TRUE))
           \/ Lacking(j, "workspace") /\ Proceed(Plan(FALSE))

ReloadJob(j) ==
  /\ Due(Worker, j, "reload")
  /\ Proceed(<<ReadSteps(current[j])>>)

\* The step of the current id, else the first one neither completed nor cancelled.
GetCurrentStep(ss, c) ==
  LET open == {k \in StepKeys : ss[k] \notin {"absent", "completed", "cancelled"}}
  IN  IF c # NoStep THEN c
      ELSE IF open = {} THEN NoStep
      ELSE CHOOSE k \in open : \A l \in open : k <= l

\* Mutant: a cancelled step is taken up again.
RunnableAnew(k) ==
  {"ready", "running", "cancelled"}
  \cup (IF k = Finalize THEN {} ELSE {"retrying"})
  \cup (IF k \in {Implement, Verify} THEN {"waiting_for_approval"} ELSE {})

Runnable(k) ==
  {"ready", "running"}
  \cup (IF k = Finalize THEN {} ELSE {"retrying"})
  \cup (IF k \in {Implement, Verify} THEN {"waiting_for_approval"} ELSE {})

(***************************************************************************)
(* The steps.  rs is the requirement rows as the dispatch read them.       *)
(***************************************************************************)
\* Mutant: the job gets the status of its next step.
InspectStepReady(j) ==
  Proceed(<<WriteStep(Inspect, "completed"), WriteStep(Implement, "ready"),
            WriteJob("ready", Implement), Enqueue>>)

\* Mutant: the next step is not enqueued.
InspectStepForgets(j) ==
  Proceed(<<WriteStep(Inspect, "completed"), WriteStep(Implement, "ready"),
            WriteJob("running", Implement)>>)

InspectStep(j) ==
  \/ Proceed(IF Present(j, Implement)
             THEN <<WriteStep(Inspect, "completed"), WriteStep(Implement, "ready"),
                    WriteJob("running", Implement), Enqueue>>
             ELSE <<WriteStep(Inspect, "completed"), WriteJob("running", NoStep)>>)
  \/ "workspace" \in Missing /\ Fail      \* readdir throws

\* Only the implementation records a credential requirement, unless one is pending.
AwaitInference(j, k, rs) ==
  /\ Lacking(j, "inference")
  /\ LET asked == k = Verify \/ \E r \in PendingOn(rs, k) : r.kind = "credential" IN
     Proceed(<<Require(k, "credential", IF asked THEN 0 ELSE 1), WriteStep(k, "blocked"),
               WriteJob("blocked", k), Notify>>)

AwaitRuntime(j, k) ==
  /\ Lacking(j, "runtime")
  /\ Proceed(<<Clear(k, DetectedKinds), Require(k, "runtime", 1),
               WriteStep(k, "waiting_for_runtime"), WriteJob("waiting_for_runtime", k), Notify>>)

\* Pending as the dispatch read them: the rows may be gone once the clearing is done.
AwaitApprovals(k, rs) ==
  /\ PendingOn(rs, k) # {}
  /\ Proceed(<<Clear(k, DetectedKinds), WriteJob("waiting_for_approval", k)>>)

StartAgent(k, rs) ==
  /\ PendingOn(rs, k) = {}
  /\ LET resolved == {r \in rs : r.step = k /\ r.kind = "approval" /\ r.status # "pending"}
         s == IF k = Implement /\ resolved # {} THEN "retrying" ELSE "running"
     IN  Proceed(<<Clear(k, DetectedKinds), WriteStep(k, "running"), WriteJob(s, k), RunAgent(k)>>)

FinalizeStep ==
  Proceed(<<WriteStep(Finalize, "completed"), WriteJob("completed", NoStep), Notify>>)

\* Mutant: a step that cannot run yet is tried again.
ExecuteRetries(j, k, s, rs) ==
  \/ s \notin Runnable(k) /\ Proceed(<<Enqueue>>)
  \/ /\ s \in Runnable(k)
     /\ \/ k = Inspect /\ InspectStep(j)
        \/ k \in {Implement, Verify} /\ \/ AwaitInference(j, k, rs)
                                        \/ AwaitRuntime(j, k)
                                        \/ AwaitApprovals(k, rs)
                                        \/ StartAgent(k, rs)
        \/ k = Finalize /\ FinalizeStep

Execute(j, k, s, rs) ==
  \/ s \notin Runnable(k) /\ Proceed(<<>>)
  \/ /\ s \in Runnable(k)
     /\ \/ k = Inspect /\ InspectStep(j)
        \/ k \in {Implement, Verify} /\ \/ AwaitInference(j, k, rs)
                                        \/ AwaitRuntime(j, k)
                                        \/ AwaitApprovals(k, rs)
                                        \/ StartAgent(k, rs)
        \/ k = Finalize /\ FinalizeStep

\* An inspection that waits for its workspace probes the path again.
ProbeWorkspace ==
  \/ Proceed(<<Satisfy(Inspect), WriteStep(Inspect, "ready"), WriteJob("running", Inspect),
               Reload>>)
  \/ "workspace" \in Missing /\ Proceed(<<WriteJob("waiting_for_runtime", Inspect)>>)

\* A step still running belongs to a worker that died.
RecoverInterruptedStep(j, k) ==
  Proceed(<<WriteStep(k, IF k = Verify THEN "retrying" ELSE "ready"), WriteJob("queued", k),
            Refresh(k, reqs[j])>>)

DispatchStep(j) ==
  /\ Due(Worker, j, "dispatch")
  /\ LET ss == todo[Worker][1].steps
         k  == GetCurrentStep(ss, todo[Worker][1].current)
     IN  \/ k = NoStep /\ Proceed(<<>>)
         \/ /\ k = Inspect /\ ss[k] = "waiting_for_runtime"
            /\ ProbeWorkspace
         \/ /\ k # NoStep /\ ss[k] = "running"
            /\ RecoverInterruptedStep(j, k)
         \/ /\ k # NoStep /\ ss[k] # "running" /\ ~(k = Inspect /\ ss[k] = "waiting_for_runtime")
            /\ Execute(j, k, ss[k], reqs[j])

\* After a recovery only the step is read again.
RefreshStep(j) ==
  /\ Due(Worker, j, "refresh")
  /\ LET d == todo[Worker][1] IN Execute(j, d.key, step[j][d.key], d.reqs)

(***************************************************************************)
(* The agent passes.  Only the worker changes attempt counts and inserts   *)
(* steps, so these are read here instead of from the dispatch's snapshot.  *)
(***************************************************************************)
\* syncVerificationRequirements makes a failed port check a requirement row.
FailedPort(port) == Require(Verify, "port", IF port THEN 1 ELSE 0)

ImplementationAsks(j) ==
  \E n \in 1..MaxApprovals :
    /\ made[j] + n <= MaxReqs
    /\ Proceed(<<Clear(Implement, ReqKinds), Require(Implement, "approval", n),
                 WriteStep(Implement, "waiting_for_approval"),
                 WriteJob("waiting_for_approval", Implement), Notify>>)

\* Mutant: the workspace counts as verified once an attempt was made.
ImplementedUnverified(j) ==
  LET next == IF attempts[j] > 0 THEN Finalize ELSE Verify IN
  Proceed(<<Clear(Implement, ReqKinds), WriteStep(next, "ready"),
            WriteStep(Implement, "completed"), WriteJob("running", next), Enqueue>>)

\* Mutant: the job still points at the step it has completed.
ImplementedInPlace(j) ==
  Proceed(<<Clear(Implement, ReqKinds), WriteStep(Verify, "ready"),
            WriteStep(Implement, "completed"), WriteJob("running", Implement)>>)

Implemented(j) ==
  Proceed(IF Present(j, Verify)
          THEN <<Clear(Implement, ReqKinds), WriteStep(Verify, "ready"),
                 WriteStep(Implement, "completed"), WriteJob("running", Verify), Enqueue>>
          ELSE <<Clear(Implement, ReqKinds), WriteStep(Implement, "completed"),
                 WriteJob("running", NoStep)>>)

VerificationAsks(j, port) ==
  \E n \in 1..MaxApprovals :
    /\ made[j] + n + (IF port THEN 1 ELSE 0) <= MaxReqs
    /\ Proceed(<<Clear(Verify, ReqKinds), FailedPort(port), Require(Verify, "approval", n),
                 WriteVerify("waiting_for_approval", attempts[j] + 1),
                 WriteJob("waiting_for_approval", Verify), Notify>>)

\* Mutant: the hand-off is opened before the outcome is stored.
VerificationPassesEarly(j) ==
  Proceed(<<Clear(Verify, ReqKinds), WriteStep(Finalize, "ready"), WriteJob("running", Finalize),
            Enqueue, WriteVerify("completed", attempts[j] + 1)>>)

VerificationPasses(j) ==
  Proceed(IF Present(j, Finalize)
          THEN <<Clear(Verify, ReqKinds), WriteVerify("completed", attempts[j] + 1),
                 WriteStep(Finalize, "ready"), WriteJob("running", Finalize), Enqueue>>
          ELSE <<Clear(Verify, ReqKinds), WriteVerify("completed", attempts[j] + 1),
                 WriteJob("running", NoStep)>>)

\* Mutant: verification stays running while the implementation is repaired.
VerificationFailsRunning(j, port) ==
  LET n == attempts[j] + 1 IN
  /\ n < MaxAttempts
  /\ Proceed(<<Clear(Verify, ReqKinds), FailedPort(port), WriteVerify("running", n),
               WriteStep(Implement, "ready"), WriteJob("retrying", Implement), Enqueue>>)

VerificationFails(j, port) ==
  LET n == attempts[j] + 1 IN
  \/ /\ n < MaxAttempts
     /\ Proceed(<<Clear(Verify, ReqKinds), FailedPort(port), WriteVerify("retrying", n),
                  WriteStep(Implement, "ready"), WriteJob("retrying", Implement), Enqueue>>)
  \/ /\ n >= MaxAttempts
     /\ Proceed(<<Clear(Verify, ReqKinds), FailedPort(port), WriteVerify("failed", n),
                  WriteJob("blocked", Verify), Notify>>)

ImplementationPass(j) ==
  /\ Due(Worker, j, "agent") /\ todo[Worker][1].key = Implement
  /\ ImplementationAsks(j) \/ Implemented(j) \/ ("agent" \in Missing /\ Fail)
  \* the agent edits the workspace
  /\ evidence' = [evidence EXCEPT ![j] = IF @ = "passed" THEN "stale" ELSE @]
  /\ UNCHANGED repairs

VerificationPass(j) ==
  /\ Due(Worker, j, "agent") /\ todo[Worker][1].key = Verify
  /\ \/ VerificationPasses(j)
     \/ \E port \in BOOLEAN :
          /\ port => Lacking(j, "port")
          /\ VerificationAsks(j, port) \/ VerificationFails(j, port)
     \/ "agent" \in Missing /\ Fail
  /\ UNCHANGED history

Process(p, j) ==
  /\ p = Worker
  /\ \/ /\ LoadSteps(j) \/ ReloadJob(j) \/ DispatchStep(j) \/ RefreshStep(j)
        /\ UNCHANGED history
     \/ ImplementationPass(j)
     \/ VerificationPass(j)
  /\ UNCHANGED <<db, queue, on, stalls, budget>>

(***************************************************************************)
(* Failures.                                                               *)
(***************************************************************************)
\* The next operation of p throws: the worker marks the job failed, and a creation
\* that cannot enqueue too; every other handler just ends.
OperationThrows(p, j) ==
  /\ on[p] = j
  /\ todo[p] # <<>>
  /\ faults < MaxFaults
  /\ faults' = faults + 1
  /\ \/ p = Worker /\ phase = "process" /\ Fail /\ UNCHANGED <<on, stalls>>
     \/ /\ p = Worker /\ phase = "mark"
        /\ Become(Worker, <<>>)
        /\ on' = [on EXCEPT ![p] = NoJob]
        /\ phase' = "idle"
        /\ stalls' = 0
     \/ /\ p # Worker
        /\ Become(p, IF todo[p][1].op = "submit" THEN <<WriteStatus("failed")>> ELSE <<>>)
        /\ UNCHANGED procs
  /\ UNCHANGED <<db, queue, calls, history>>

\* The worker process, which also serves the operators, dies and is restarted.  BullMQ
\* hands its delivery out again, once.
Crash ==
  /\ faults < MaxFaults
  /\ \E p \in Procs : on[p] # NoJob
  /\ faults' = faults + 1
  /\ on' = [p \in Procs |-> NoJob]
  /\ todo' = [p \in Procs |-> <<>>]
  /\ phase' = "idle"
  /\ stalls' = 0
  /\ queue' = IF on[Worker] # NoJob /\ stalls = 0
              THEN <<[job |-> on[Worker], stalls |-> 1]>> \o queue
              ELSE queue
  /\ UNCHANGED <<db, calls, history>>

Operate(p, j) ==
  /\ p \in Operators
  /\ Create(p, j) \/ Resume(p, j) \/ Cancel(p, j) \/ Decide(p, j)

\* What a process does on its own once it has started.
Run(p, j) ==
  \/ Write(p, j)
  \/ ReReadJob(p, j)
  \/ SettleDecision(p, j)
  \/ TakeDelivery(p, j)
  \/ Process(p, j)

Next ==
  \/ \E p \in Procs, j \in Jobs : Operate(p, j) \/ Run(p, j) \/ OperationThrows(p, j)
  \/ Crash

Spec == Init /\ [][Next]_vars

\* The event loop runs on: a started handler is not abandoned while the process lives,
\* and an idle worker takes the next delivery.  Nothing makes an operator ask for anything.
Fairness == \A p \in Procs : WF_vars(\E j \in Jobs : Run(p, j))

FairSpec == Spec /\ Fairness

\* The environment the handlers were written for: a request comes only while nobody
\* works on its job and no delivery waits for it, and is over before the next begins.
AtRest(j) == /\ \A p \in Procs : on[p] # j
             /\ \A i \in DOMAIN queue : queue[i].job # j

Orderly ==
  \A j \in Jobs : \A p \in Procs : on[p] # j /\ on'[p] = j =>
    IF p = Worker THEN \A q \in Operators : on[q] # j
    ELSE AtRest(j)

OrderlyNext == Next /\ Orderly

OrderlySpec == /\ Init /\ [][OrderlyNext]_vars
               /\ \A p \in Procs : WF_vars(\E j \in Jobs : Run(p, j) /\ Orderly)

(***************************************************************************)
(* Properties.                                                             *)
(***************************************************************************)
\* The values each row, delivery and program can have.
TypeOK ==
  /\ status   \in [Jobs -> JobStatus]
  /\ started  \in [Jobs -> BOOLEAN]
  /\ current  \in [Jobs -> StepIds]
  /\ step     \in [Jobs -> [StepKeys -> StepStatus]]
  /\ attempts \in [Jobs -> Nat]
  /\ reqs     \in [Jobs -> SUBSET Requirement]
  /\ made     \in [Jobs -> Nat]
  /\ queue    \in Seq([job : Jobs, stalls : {0, 1}])
  /\ on       \in [Procs -> Jobs \cup {NoJob}]
  /\ todo     \in [Procs -> Seq(Op)]
  /\ phase    \in {"idle", "process", "mark"}
  /\ stalls   \in {0, 1}
  /\ calls    \in 0..MaxCalls
  /\ faults   \in 0..MaxFaults
  /\ evidence \in [Jobs -> {"none", "passed", "stale"}]
  /\ repairs  \in [Jobs -> Nat]

\* A job is reported completed only if one of its verification passes found no blocker:
\* whatever is crashed, cancelled, resumed or decided in between, and however stale the
\* rows were that a handler worked from.  (steps.ts hands finalize_handoff on from the
\* passing branch of executeVerificationStep only.)
CompletedIsVerified ==
  \A j \in Jobs : status[j] = "completed" => evidence[j] # "none"

\* Verification sends a job back to the implementation fewer times than the setting
\* maxVerificationAttempts allows attempts, also when deliveries are duplicated or repeated
\* after a crash, so that a build that never passes does not run forever.
RepairsBounded == \A j \in Jobs : repairs[j] < MaxAttempts

\* The evidence a completed job is handed off with is newer than the last agent pass
\* that could edit its workspace.
HandoffIsFresh == \A j \in Jobs : status[j] = "completed" => evidence[j] = "passed"

\* At most one step of a job is running, so recoverInterruptedStep, which looks at the
\* current step alone, finds every step a dead worker has left behind.
OneStepRunning ==
  \A j \in Jobs : \A k, l \in StepKeys :
    step[j][k] = "running" /\ step[j][l] = "running" => k = l

Active == {"queued", "running", "retrying"}

\* A job shown as queued, running or retrying is worked on or has a delivery: nothing else
\* would ever move it again.
NoneStranded == \A j \in Jobs : status[j] \in Active => ~AtRest(j)

\* As NoneStranded, of the jobs whose current step the dispatch would execute: no enqueue
\* is missing where a handler hands a job on to its next step.
NoForgottenStep ==
  \A j \in Jobs :
    LET k == GetCurrentStep(step[j], current[j]) IN
    status[j] \in Active /\ k # NoStep => (step[j][k] \in Runnable(k) => ~AtRest(j))

\* A job at rest that is shown as active does not point at a completed step.  The dispatch
\* ignores the delivery of such a job, so no resume could get it going again.
NotWedged ==
  \A j \in Jobs : status[j] \in Active /\ AtRest(j) /\ current[j] # NoStep =>
    step[j][current[j]] # "completed"

\* Nobody works on a job of which a step was cancelled, and no step of it is open.
NoneOpen(j)   == \A k \in StepKeys : step[j][k] \notin CancellableStep
ClosedDown(j) ==
  (\A p \in Procs : on[p] # j) /\ (\E k \in StepKeys : step[j][k] = "cancelled") /\ NoneOpen(j)

\* A job at rest that waits for an approval has a pending requirement on its current step,
\* so that there is something for the operator to decide.
WaitingHasRequirement ==
  \A j \in Jobs : status[j] = "waiting_for_approval" /\ AtRest(j) =>
    PendingOn(reqs[j], current[j]) # {}

\* Whatever is asked of a job, it comes to rest: the repair loop ends and no handler
\* feeds the queue forever.
EventuallyAtRest == \A j \in Jobs : ~AtRest(j) ~> AtRest(j)

(***************************************************************************)
(* What all this amounts to for whoever asked for the job.                 *)
(***************************************************************************)
\* What a status says of the end of its job.
Reported(s) == CASE s = "completed" -> "completed"
                [] s \in {"failed", "cancelled"} -> "closed"
                [] OTHER -> "open"

Promise == INSTANCE JobPromise WITH
  outcome  <- [j \in Jobs |-> Reported(status[j])],
  verified <- [j \in Jobs |-> evidence[j] # "none"],
  rounds   <- attempts

\* The handlers keep the promise of JobPromise at every operation: completed only once
\* verified, one round counted per verdict, no repair without a round left.
KeepsPromise == Promise!PromiseSpec

=============================================================================
