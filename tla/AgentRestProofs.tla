--------------------------- MODULE AgentRestProofs ---------------------------
(***************************************************************************)
(* What the build jobs are like when they rest, as long as requests come   *)
(* to jobs at rest (OrderlySpec) and nothing has failed: for any jobs,     *)
(* operators, requests, missing probes and bounds.                         *)
(*                                                                         *)
(* A handler leaves the rows of its job in disorder at each await, so the  *)
(* invariant is about the row that its program is going to leave: there is *)
(* one, it is sane, and what the handler will read on its way is in it.    *)
(***************************************************************************)
EXTENDS AgentJobsProofs, SequenceTheorems

\* The columns of a job that decide how it goes on.
Rows == [status : JobStatus, current : StepIds, step : [StepKeys -> StepStatus],
         evidence : {"none", "passed", "stale"}]
RowOf(j) == [status |-> status[j], current |-> current[j], step |-> step[j], evidence |-> evidence[j]]

SetsStatus(o)  == o.op \in {"status", "begin", "job"}
SetsCurrent(o) == o.op \in {"job", "current"}
Sets(k, o)     == (o.op = "step" /\ o.key = k) \/ (o.op = "verify" /\ k = Verify)
Passes(o)      == o.op = "verify" /\ o.to = "completed"
Cancelled(ss)  == [k \in StepKeys |-> IF ss[k] \in CancellableStep THEN "cancelled" ELSE ss[k]]

\* Operations after which a delivery waits or the worker goes on; and those that end a program.
Serves(o) == o.op \in {"enqueue", "submit", "steps", "dispatch", "refresh", "agent", "reload"}
Ends(o)   == Serves(o) \/ o.op \in {"settle", "reread"}

\* An operation of a program that leads to the row R.
Agrees(o, R) ==
  /\ SetsStatus(o) => o.to = R.status
  /\ SetsCurrent(o) => o.current = R.current
  /\ o.op = "step" => o.to = R.step[o.key]
  /\ o.op = "verify" => o.to = R.step[Verify]
  /\ Passes(o) => R.evidence = "passed"
  /\ o.op \in {"steps", "settle", "dispatch"} => o.current = R.current
  /\ o.op = "dispatch" => o.steps = R.step
  /\ o.op \in {"refresh", "agent"} => o.key = R.current
  /\ o.op = "agent" => /\ o.key \in {Implement, Verify}
                       /\ R.status \in {"running", "retrying"} /\ R.step[o.key] = "running"

\* A program t that leads from the row r to the row R: what differs it is going to write.
Cancels(t) == \E i \in DOMAIN t : t[i].op = "cancel"
Heads(t, r, R) ==
  /\ \A i \in DOMAIN t : Agrees(t[i], R)
  /\ \A i \in DOMAIN t : Ends(t[i]) => i = Len(t)
  /\ \A i \in DOMAIN t : t[i].op = "cancel" => i = 1 /\ R.step = Cancelled(r.step)
  /\ r.status = R.status \/ \E i \in DOMAIN t : SetsStatus(t[i])
  /\ r.current = R.current \/ \E i \in DOMAIN t : SetsCurrent(t[i])
  /\ r.evidence = R.evidence \/ \E i \in DOMAIN t : Passes(t[i])
  /\ Cancels(t) \/ \A k \in StepKeys : r.step[k] = R.step[k] \/ \E i \in DOMAIN t : Sets(k, t[i])

\* A step runs only while it is current; the steps before the current one are completed, but for
\* the draft, which stays pending, and the handoff is not begun before its turn; without a current
\* step nothing can be executed; and a plan is there as a whole and cancelled as a whole.
Closed == {"absent", "completed", "cancelled", "failed"}
RunsCurrent(R) == \A k \in StepKeys : R.step[k] = "running" => R.current = k
InPlan(R) ==
  R.current # NoStep =>
    /\ R.current # Draft /\ R.step[R.current] # "completed"
    /\ \A k \in StepKeys : R.step[k] \notin {"absent", "cancelled"}
    /\ R.step[Draft] = "pending" /\ (R.current # Finalize => R.step[Finalize] = "pending")
    /\ \A k \in StepKeys \ {Draft} : k < R.current => R.step[k] = "completed"
OutOfPlan(R) ==
  R.current = NoStep =>
    \A k \in StepKeys : R.step[k] \in Closed \/ (k = Draft /\ R.step[k] = "pending")
Whole(R) ==
  /\ (\E k \in StepKeys : R.step[k] = "absent") => \A k \in StepKeys : R.step[k] = "absent"
  /\ (\E k \in StepKeys : R.step[k] = "cancelled") => \A k \in StepKeys : R.step[k] \notin CancellableStep
Verified(R) == R.current = Finalize => R.evidence = "passed"
Sane(R) == RunsCurrent(R) /\ InPlan(R) /\ OutOfPlan(R) /\ Whole(R) /\ Verified(R)

\* On the way, too, one step runs at most, and what reads completed is verified.
OneRuns(r, R) ==
  \A k, l \in StepKeys :
    (r.step[k] = "running" \/ R.step[k] = "running") /\ (r.step[l] = "running" \/ R.step[l] = "running")
      => k = l
HandedFresh(r, R) == r.status = "completed" \/ R.status = "completed" => r.evidence = "passed"

\* A job that the dispatch would go on with is in the queue, if waits, or the program serves it.
Executable(R) == LET k == GetCurrentStep(R.step, R.current)
                 IN  R.status \in Active /\ k # NoStep /\ R.step[k] \in Runnable(k)
Served(t, R, waits) == Executable(R) => waits \/ \E i \in DOMAIN t : Serves(t[i])

Leads(t, r, waits) ==
  \E R \in Rows : /\ Heads(t, r, R) /\ Sane(R) /\ OneRuns(r, R) /\ HandedFresh(r, R)
                  /\ Served(t, R, waits)

\* One process works on a job at most, and leads it, or has left it, to a sane row.
Waits(j) == \E i \in DOMAIN queue : queue[i].job = j
OneEach == \A p, q \in Procs : on[p] = on[q] /\ on[p] # NoJob => p = q
RestInv == /\ OneEach
           /\ \A j \in Jobs : (\A p \in Procs : on[p] # j) => Leads(<<>>, RowOf(j), Waits(j))
           /\ \A p \in Procs, j \in Jobs : on[p] = j => Leads(todo[p], RowOf(j), todo[p] = <<>> /\ Waits(j))

-----------------------------------------------------------------------------
(* Programs and the rows they lead to. *)

\* The row after an operation.
After(o, r) ==
  [status   |-> IF SetsStatus(o) THEN o.to ELSE r.status,
   current  |-> IF o.op = "current" THEN o.current ELSE r.current,
   step     |-> IF o.op = "cancel" THEN Cancelled(r.step)
                ELSE [k \in StepKeys |-> IF Sets(k, o) THEN o.to ELSE r.step[k]],
   evidence |-> IF Passes(o) THEN "passed" ELSE r.evidence]

\* What taking the first operation off a program leaves.
LEMMA TailFacts ==
  ASSUME NEW t \in Seq(Op), t # <<>>
  PROVE  /\ Tail(t) \in Seq(Op) /\ Len(Tail(t)) = Len(t) - 1 /\ Len(t) \in Nat /\ 1 \in DOMAIN t
         /\ t[1] \in Op
         /\ \A i \in DOMAIN Tail(t) : i + 1 \in DOMAIN t /\ Tail(t)[i] = t[i + 1] /\ i \in Nat
         /\ \A i \in DOMAIN t : i # 1 => i - 1 \in DOMAIN Tail(t) /\ Tail(t)[i - 1] = t[i]
  OBVIOUS

\* A program goes on to lead where it led, once its first operation is done.
LEMMA DoneLeads ==
  ASSUME NEW t \in Seq(Op), t # <<>>, NEW r \in Rows, NEW waits \in BOOLEAN, NEW still \in BOOLEAN,
         Leads(t, r, waits), t[1].op # "job", waits => still, Serves(t[1]) => still
  PROVE  Leads(Tail(t), After(t[1], r), still)
  <1> DEFINE o == t[1]
             s == After(o, r)
             u == Tail(t)
  <1>1. PICK R \in Rows : /\ Heads(t, r, R) /\ Sane(R) /\ OneRuns(r, R) /\ HandedFresh(r, R)
                          /\ Served(t, R, waits)
    BY DEF Leads
  <1>2. /\ u \in Seq(Op) /\ Len(u) = Len(t) - 1 /\ Len(t) \in Nat /\ 1 \in DOMAIN t /\ o \in Op
        /\ \A i \in DOMAIN u : i + 1 \in DOMAIN t /\ u[i] = t[i + 1] /\ i \in Nat
        /\ \A i \in DOMAIN t : i # 1 => i - 1 \in DOMAIN u /\ u[i - 1] = t[i]
    BY TailFacts
  <1>3. /\ s.status = R.status \/ (s.status = r.status /\ ~SetsStatus(o))
        /\ s.current = R.current \/ (s.current = r.current /\ ~SetsCurrent(o))
        /\ s.evidence = R.evidence \/ (s.evidence = r.evidence /\ ~Passes(o))
        /\ s.evidence = r.evidence \/ s.evidence = "passed"
    BY <1>1, <1>2 DEF Heads, Agrees, After, SetsStatus, SetsCurrent, Passes
  <1>4. \A k \in StepKeys : s.step[k] = R.step[k] \/ (s.step[k] = r.step[k] /\ ~Sets(k, o) /\ o.op # "cancel")
    <2>1. CASE o.op = "cancel"
      BY <1>1, <1>2, <2>1 DEF Heads, After
    <2>2. CASE o.op # "cancel"
      BY <1>1, <1>2, <2>2 DEF Heads, Agrees, After, Sets
    <2> QED
      BY <2>1, <2>2
  <1> HIDE DEF s, u, o
  <1>5. Heads(u, s, R)
    <2>1. /\ \A i \in DOMAIN u : Agrees(u[i], R)
          /\ \A i \in DOMAIN u : Ends(u[i]) => i = Len(u)
          /\ \A i \in DOMAIN u : u[i].op # "cancel"
      BY <1>1, <1>2 DEF Heads
    <2>2. /\ s.status = R.status \/ \E i \in DOMAIN u : SetsStatus(u[i])
          /\ s.current = R.current \/ \E i \in DOMAIN u : SetsCurrent(u[i])
          /\ s.evidence = R.evidence \/ \E i \in DOMAIN u : Passes(u[i])
      BY <1>1, <1>2, <1>3 DEF Heads, o
    <2>3. ASSUME NEW k \in StepKeys, s.step[k] # R.step[k] PROVE \E i \in DOMAIN u : Sets(k, u[i])
      <3>1. s.step[k] = r.step[k] /\ ~Sets(k, o) /\ ~Cancels(t)
        BY <1>1, <1>2, <1>4, <2>3 DEF Heads, Cancels, o
      <3> QED
        BY <1>1, <1>2, <2>3, <3>1 DEF Heads, o
    <2> QED
      BY <2>1, <2>2, <2>3 DEF Heads
  <1>6. OneRuns(s, R) /\ HandedFresh(s, R)
    BY <1>1, <1>3, <1>4 DEF OneRuns, HandedFresh
  <1>7. Served(u, R, still)
    BY <1>1, <1>2 DEF Served, o
  <1> QED
    BY <1>1, <1>5, <1>6, <1>7 DEF Leads, s, u, o

\* What putting another operation in the place of the first leaves.
LEMMA ReplacedFacts ==
  ASSUME NEW t \in Seq(Op), t # <<>>, NEW o \in Op
  PROVE  LET u == <<o>> \o Tail(t)
         IN  /\ u \in Seq(Op) /\ Len(u) = Len(t) /\ DOMAIN u = DOMAIN t /\ 1 \in DOMAIN t
             /\ u[1] = o /\ \A i \in DOMAIN t : i # 1 => u[i] = t[i]
             /\ t[1] \in Op
  OBVIOUS

\* updateJobState writes the job's status, and then what is current.
LEMMA JobLeads ==
  ASSUME NEW t \in Seq(Op), t # <<>>, NEW r \in Rows, NEW waits \in BOOLEAN,
         Leads(t, r, waits), t[1].op = "job"
  PROVE  Leads(<<WriteCurrent(t[1].current)>> \o Tail(t), [r EXCEPT !.status = t[1].to], waits)
  <1> DEFINE o == WriteCurrent(t[1].current)
             s == [r EXCEPT !.status = t[1].to]
             u == <<o>> \o Tail(t)
  <1>1. PICK R \in Rows : /\ Heads(t, r, R) /\ Sane(R) /\ OneRuns(r, R) /\ HandedFresh(r, R)
                          /\ Served(t, R, waits)
    BY DEF Leads
  <1>2. t[1] \in Op /\ o \in Op /\ o.op = "current" /\ o.current = t[1].current
    <2>1. t[1] \in Op
      BY TailFacts
    <2>2. t[1].current \in StepIds
      BY <2>1, OpFields
    <2> QED
      BY <2>1, <2>2, PlainWriteCurrent, PlainProgram DEF WriteCurrent
  <1>3. /\ u \in Seq(Op) /\ Len(u) = Len(t) /\ DOMAIN u = DOMAIN t /\ 1 \in DOMAIN t
        /\ u[1] = o /\ \A i \in DOMAIN t : i # 1 => u[i] = t[i]
    BY <1>2, ReplacedFacts
  <1>4. Agrees(t[1], R) /\ t[1].to = R.status /\ t[1].current = R.current
    BY <1>1, <1>3 DEF Heads, Agrees, SetsStatus, SetsCurrent
  <1>5. /\ s.status = R.status /\ s.current = r.current /\ s.step = r.step /\ s.evidence = r.evidence
    BY <1>4 DEF Rows
  <1> HIDE DEF s, u, o
  <1>6. /\ Agrees(o, R) /\ ~Ends(o) /\ o.op # "cancel" /\ ~Serves(o) /\ SetsCurrent(o)
        /\ ~Ends(t[1]) /\ ~Serves(t[1]) /\ ~Passes(t[1]) /\ \A k \in StepKeys : ~Sets(k, t[1])
    BY <1>2, <1>4 DEF Agrees, SetsStatus, SetsCurrent, Passes, Ends, Serves, Sets
  <1>7. Heads(u, s, R)
    <2>1. /\ \A i \in DOMAIN u : Agrees(u[i], R)
          /\ \A i \in DOMAIN u : Ends(u[i]) => i = Len(u)
          /\ \A i \in DOMAIN u : u[i].op = "cancel" => i = 1 /\ R.step = Cancelled(s.step)
      BY <1>1, <1>3, <1>5, <1>6 DEF Heads
    <2>2. /\ s.current = R.current \/ \E i \in DOMAIN u : SetsCurrent(u[i])
          /\ s.evidence = R.evidence \/ \E i \in DOMAIN u : Passes(u[i])
      BY <1>1, <1>3, <1>5, <1>6 DEF Heads
    <2>3. ~Cancels(t)
      BY <1>1, <1>3 DEF Heads, Cancels
    <2>4. \A k \in StepKeys : s.step[k] = R.step[k] \/ \E i \in DOMAIN u : Sets(k, u[i])
      BY <1>1, <1>3, <1>5, <1>6, <2>3 DEF Heads
    <2> QED
      BY <1>5, <2>1, <2>2, <2>4 DEF Heads
  <1>8. OneRuns(s, R) /\ HandedFresh(s, R)
    BY <1>1, <1>5 DEF OneRuns, HandedFresh
  <1>9. Served(u, R, waits)
    BY <1>1, <1>3, <1>6 DEF Served
  <1> QED
    BY <1>1, <1>7, <1>8, <1>9 DEF Leads, s, u, o

\* An operation about requirements replaces another.
LEMMA RequireLeads ==
  ASSUME NEW t \in Seq(Op), t # <<>>, NEW r \in Rows, NEW waits \in BOOLEAN, NEW o \in Op,
         Leads(t, r, waits), t[1].op = "require", o.op = "require"
  PROVE  Leads(<<o>> \o Tail(t), r, waits)
  <1> DEFINE u == <<o>> \o Tail(t)
  <1>1. PICK R \in Rows : /\ Heads(t, r, R) /\ Sane(R) /\ OneRuns(r, R) /\ HandedFresh(r, R)
                          /\ Served(t, R, waits)
    BY DEF Leads
  <1>2. /\ u \in Seq(Op) /\ Len(u) = Len(t) /\ DOMAIN u = DOMAIN t /\ 1 \in DOMAIN t
        /\ u[1] = o /\ \A i \in DOMAIN t : i # 1 => u[i] = t[i]
    BY ReplacedFacts
  <1>3. \A x \in {o, t[1]} :
          /\ Agrees(x, R) /\ ~Ends(x) /\ x.op # "cancel" /\ ~Serves(x) /\ ~SetsCurrent(x)
          /\ ~SetsStatus(x) /\ ~Passes(x) /\ \A k \in StepKeys : ~Sets(k, x)
    BY DEF Agrees, SetsStatus, SetsCurrent, Passes, Ends, Serves, Sets
  <1> HIDE DEF u
  <1>4. Heads(u, r, R)
    <2>1. /\ \A i \in DOMAIN u : Agrees(u[i], R)
          /\ \A i \in DOMAIN u : Ends(u[i]) => i = Len(u)
          /\ \A i \in DOMAIN u : u[i].op = "cancel" => i = 1 /\ R.step = Cancelled(r.step)
      BY <1>1, <1>2, <1>3 DEF Heads
    <2>2. /\ r.status = R.status \/ \E i \in DOMAIN u : SetsStatus(u[i])
          /\ r.current = R.current \/ \E i \in DOMAIN u : SetsCurrent(u[i])
          /\ r.evidence = R.evidence \/ \E i \in DOMAIN u : Passes(u[i])
      BY <1>1, <1>2, <1>3 DEF Heads
    <2>3. ~Cancels(t)
      BY <1>1, <1>2, <1>3 DEF Heads, Cancels
    <2>4. \A k \in StepKeys : r.step[k] = R.step[k] \/ \E i \in DOMAIN u : Sets(k, u[i])
      BY <1>1, <1>2, <1>3, <2>3 DEF Heads
    <2> QED
      BY <2>1, <2>2, <2>4 DEF Heads
  <1>5. Served(u, R, waits)
    BY <1>1, <1>2, <1>3 DEF Served
  <1> QED
    BY <1>1, <1>4, <1>5 DEF Leads, u

\* At an operation that ends its program, the row is as the program leaves it.
LEMMA EndsThere ==
  ASSUME NEW t \in Seq(Op), t # <<>>, NEW r \in Rows, NEW waits \in BOOLEAN, Leads(t, r, waits), Ends(t[1])
  PROVE  /\ Agrees(t[1], r) /\ Sane(r) /\ HandedFresh(r, r) /\ Tail(t) = <<>>
         /\ Serves(t[1]) \/ Served(<<>>, r, waits)
  <1>1. PICK R \in Rows : /\ Heads(t, r, R) /\ Sane(R) /\ OneRuns(r, R) /\ HandedFresh(r, R)
                          /\ Served(t, R, waits)
    BY DEF Leads
  <1>2. Len(t) = 1 /\ DOMAIN t = {1} /\ Tail(t) = <<>> /\ t[1] \in Op
    <2>1. 1 \in DOMAIN t /\ t[1] \in Op
      BY TailFacts
    <2>2. Len(t) = 1
      BY <1>1, <2>1 DEF Heads
    <2>3. Tail(t) = <<>>
      <3>1. Tail(t) \in Seq(Op) /\ Len(Tail(t)) = 0
        BY <2>2, TailFacts
      <3> QED
        BY <3>1, EmptySeq
    <2>4. DOMAIN t = {1}
      BY <2>2
    <2> QED
      BY <2>1, <2>2, <2>3, <2>4
  <1>3. ~SetsStatus(t[1]) /\ ~SetsCurrent(t[1]) /\ ~Passes(t[1]) /\ (\A k \in StepKeys : ~Sets(k, t[1])) /\ ~Cancels(t)
    BY <1>2 DEF SetsStatus, SetsCurrent, Passes, Ends, Serves, Sets, Cancels
  <1>4. r.status = R.status /\ r.current = R.current /\ r.evidence = R.evidence
        /\ \A k \in StepKeys : r.step[k] = R.step[k]
    BY <1>1, <1>2, <1>3 DEF Heads
  <1>5. r = R
    BY <1>4 DEF Rows
  <1> QED
    BY <1>1, <1>2, <1>5 DEF Heads, Served

-----------------------------------------------------------------------------
(* The programs handlers start. *)

\* From a sane row a program leads to the row R if the operations of the program say so.
LEMMA NewProgram ==
  ASSUME NEW t \in Seq(Op), NEW r \in Rows, NEW R \in Rows, NEW waits \in BOOLEAN,
         Sane(r), HandedFresh(r, r), Heads(t, r, R), Sane(R),
         R.current = r.current \/ \A k \in StepKeys : R.step[k] # "running",
         R.status = "completed" => r.evidence = "passed",
         Served(t, R, waits)
  PROVE  Leads(t, r, waits)
  <1>1. OneRuns(r, R)
    BY DEF Sane, RunsCurrent, OneRuns
  <1>2. HandedFresh(r, R)
    BY DEF HandedFresh
  <1> QED
    BY <1>1, <1>2 DEF Leads

\* An operation on the way to the row R, before the last of its program.
Honest(o, R) == o \in Op /\ Agrees(o, R) /\ ~Ends(o) /\ o.op # "cancel"

\* What the operations say of the row they lead to, and what they write of it: requirements and
\* notes say nothing of it.
LEMMA QuietOps ==
  ASSUME NEW R
  PROVE  /\ \A k \in StepKeys, kinds \in SUBSET ReqKinds : Honest(Clear(k, kinds), R)
         /\ \A k \in StepKeys, kind \in ReqKinds, n \in Nat : Honest(Require(k, kind, n), R)
         /\ \A k \in StepKeys : Honest(Satisfy(k), R)
         /\ \A id \in Nat, s \in {"satisfied", "rejected"} : Honest(Resolve(id, s), R)
         /\ Honest(Notify, R)
  <1>1. \A o \in Op : o.op \in {"require", "clear", "satisfy", "resolve", "notify"} => Honest(o, R)
    BY DEF Honest, Agrees, Ends, Serves, SetsStatus, SetsCurrent, Passes
  <1> QED
    BY <1>1, PlainClear, PlainRequire, PlainStepOps, PlainResolve, PlainBare, PlainProgram
    DEF Clear, Require, Satisfy, Resolve, Notify
\* A write of a step.
LEMMA StepOps ==
  ASSUME NEW R, NEW k \in StepKeys, NEW s \in StepStatus
  PROVE  Sets(k, WriteStep(k, s)) /\ (R.step[k] = s => Honest(WriteStep(k, s), R))
  BY OpTyped DEF WriteStep, Honest, Agrees, Ends, Serves, SetsStatus, SetsCurrent, Passes, Sets
\* A write of the job.
LEMMA JobOps ==
  ASSUME NEW R, NEW s \in JobStatus, NEW c \in StepIds
  PROVE  /\ SetsStatus(WriteJob(s, c)) /\ SetsCurrent(WriteJob(s, c))
         /\ R.status = s /\ R.current = c => Honest(WriteJob(s, c), R)
  BY OpTyped DEF WriteJob, Honest, Agrees, Ends, Serves, SetsStatus, SetsCurrent, Passes
\* The outcome of a verification.
LEMMA VerifyOps ==
  ASSUME NEW R, NEW s \in StepStatus, NEW n \in Nat
  PROVE  /\ Sets(Verify, WriteVerify(s, n)) /\ (s = "completed" => Passes(WriteVerify(s, n)))
         /\ R.step[Verify] = s /\ (s = "completed" => R.evidence = "passed")
            => Honest(WriteVerify(s, n), R)
  BY OpTyped DEF WriteVerify, Honest, Agrees, Ends, Serves, SetsStatus, SetsCurrent, Passes, Sets
\* An enqueue, and the reload after a plan.
LEMMA ServingOps ==
  \A R : \A o \in {Enqueue, Submit, Reload} : o \in Op /\ Agrees(o, R) /\ Serves(o) /\ o.op # "cancel"
  BY PlainBare, PlainProgram
  DEF Enqueue, Submit, Reload, Agrees, Serves, SetsStatus, SetsCurrent, Passes

\* The steps of a plan.
LEMMA Keys ==
  /\ StepKeys = {Inspect, Draft, Implement, Verify, Finalize} /\ StepKeys \subseteq StepIds
  /\ NoStep \in StepIds /\ NoStep \notin StepKeys
  BY DEF StepKeys, StepIds, NoStep, Inspect, Draft, Implement, Verify, Finalize

\* Reads of the job and its steps.
LEMMA ReadingOps ==
  ASSUME NEW R \in Rows
  PROVE  /\ \A o \in {ReadSteps(R.current), Settle(R.current), Dispatch(R.current, R.step), ReadJob} :
              o \in Op /\ Agrees(o, R) /\ Ends(o) /\ o.op # "cancel"
         /\ Serves(ReadSteps(R.current)) /\ Serves(Dispatch(R.current, R.step))
  <1>1. R.current \in StepIds /\ R.step \in [StepKeys -> StepStatus]
    BY DEF Rows
  <1> QED
    BY <1>1, PlainReads, PlainBare, PlainProgram, OpTyped
    DEF ReadSteps, Settle, Dispatch, ReadJob, Agrees, Ends, Serves, SetsStatus, SetsCurrent, Passes
\* The step read again.
LEMMA RefreshOps ==
  ASSUME NEW R, R.current \in StepKeys, NEW rs \in SUBSET Requirement
  PROVE  LET o == Refresh(R.current, rs) IN o \in Op /\ Agrees(o, R) /\ Serves(o) /\ o.op # "cancel"
  BY PlainRefresh, PlainProgram DEF Refresh, Agrees, Serves, SetsStatus, SetsCurrent, Passes
\* The agent's pass.
LEMMA AgentOps ==
  ASSUME NEW R, R.current \in {Implement, Verify}, R.step[R.current] = "running",
         R.status \in {"running", "retrying"}
  PROVE  LET o == RunAgent(R.current) IN o \in Op /\ Agrees(o, R) /\ Serves(o) /\ o.op # "cancel"
  <1>1. R.current \in StepKeys
    BY Keys
  <1> QED
    BY <1>1, PlainStepOps, PlainProgram DEF RunAgent, Agrees, Serves, SetsStatus, SetsCurrent, Passes

\* A program whose operations agree with the row R.
Honestly(t, R) ==
  \A i \in DOMAIN t : \/ Honest(t[i], R)
                      \/ i = Len(t) /\ t[i] \in Op /\ Agrees(t[i], R) /\ t[i].op # "cancel"

\* A program that writes nothing of the row.
LEMMA ReadLeads ==
  ASSUME NEW t \in Seq(Op), NEW r \in Rows, NEW waits \in BOOLEAN, Sane(r), HandedFresh(r, r),
         Honestly(t, r), Served(t, r, waits)
  PROVE  Leads(t, r, waits)
  <1>1. Heads(t, r, r)
    BY DEF Heads, Honestly, Honest
  <1> QED
    BY <1>1, NewProgram DEF HandedFresh

\* A program that writes the status alone.
LEMMA StatusLeads ==
  ASSUME NEW t \in Seq(Op), NEW r \in Rows, NEW waits \in BOOLEAN, Sane(r), HandedFresh(r, r),
         NEW s \in JobStatus \ {"completed"}, Honestly(t, [r EXCEPT !.status = s]),
         \E i \in DOMAIN t : SetsStatus(t[i]),
         s \in Active => \E i \in DOMAIN t : Serves(t[i])
  PROVE  Leads(t, r, waits)
  <1> DEFINE R == [r EXCEPT !.status = s]
  <1>1. R \in Rows /\ R.status = s /\ R.current = r.current /\ R.step = r.step /\ R.evidence = r.evidence
    BY DEF Rows
  <1> HIDE DEF R
  <1>2. Sane(R)
    BY <1>1 DEF Sane, RunsCurrent, InPlan, OutOfPlan, Whole, Verified
  <1>3. Honestly(t, R)
    BY DEF R
  <1>4. Heads(t, r, R)
    BY <1>1, <1>3 DEF Heads, Honestly, Honest
  <1>5. Served(t, R, waits)
    BY <1>1 DEF Served, Executable
  <1> QED
    BY <1>1, <1>2, <1>4, <1>5, NewProgram

\* The row whose current step becomes x, in a job that becomes s.
Stays(r, s, x) == [status |-> s, current |-> r.current, evidence |-> r.evidence,
                   step |-> [r.step EXCEPT ![r.current] = x]]

\* It is sane as long as x is no end of a step.
LEMMA StayRow ==
  ASSUME NEW r \in Rows, Sane(r), r.current \in StepKeys, NEW s \in JobStatus,
         NEW x \in StepStatus \ {"absent", "completed", "cancelled"}
  PROVE  LET R == Stays(r, s, x)
         IN  /\ R \in Rows /\ Sane(R) /\ R.status = s /\ R.current = r.current
             /\ R.step[r.current] = x /\ R.evidence = r.evidence
             /\ \A k \in StepKeys \ {r.current} : R.step[k] = r.step[k]
  <1> DEFINE R == Stays(r, s, x)
  <1>1. /\ R \in Rows /\ R.status = s /\ R.current = r.current /\ R.step[r.current] = x
        /\ R.evidence = r.evidence /\ \A k \in StepKeys \ {r.current} : R.step[k] = r.step[k]
    BY DEF Stays, Rows
  <1> HIDE DEF R
  <1>2. RunsCurrent(R) /\ Verified(R) /\ OutOfPlan(R)
    BY <1>1, Keys DEF Sane, RunsCurrent, Verified, OutOfPlan
  <1>3. InPlan(r) /\ r.current # NoStep /\ r.current # Draft
    BY Keys DEF Sane, InPlan
  <1>4. InPlan(R)
    BY <1>1, <1>3 DEF InPlan, StepKeys, Draft, Finalize
  <1>5. Whole(R)
    BY <1>1, <1>3 DEF InPlan, Whole
  <1> QED
    BY <1>1, <1>2, <1>4, <1>5 DEF Sane, R

\* A program that changes the status, and at most the current step.
LEMMA StayLeads ==
  ASSUME NEW t \in Seq(Op), NEW r \in Rows, NEW waits \in BOOLEAN, Sane(r), HandedFresh(r, r),
         r.current \in StepKeys, NEW s \in JobStatus \ {"completed"},
         NEW x \in StepStatus \ {"absent", "completed", "cancelled"}, Honestly(t, Stays(r, s, x)),
         \E i \in DOMAIN t : SetsStatus(t[i]),
         x = r.step[r.current] \/ \E i \in DOMAIN t : Sets(r.current, t[i]),
         s \in Active => \E i \in DOMAIN t : Serves(t[i])
  PROVE  Leads(t, r, waits)
  <1> DEFINE R == Stays(r, s, x)
  <1>1. /\ R \in Rows /\ Sane(R) /\ R.status = s /\ R.current = r.current
        /\ R.step[r.current] = x /\ R.evidence = r.evidence
        /\ \A k \in StepKeys \ {r.current} : R.step[k] = r.step[k]
    BY StayRow
  <1>2. Honestly(t, R)
    OBVIOUS
  <1> HIDE DEF R
  <1>3. Heads(t, r, R)
    BY <1>1, <1>2 DEF Heads, Honestly, Honest
  <1>4. Served(t, R, waits)
    BY <1>1 DEF Served, Executable
  <1> QED
    BY <1>1, <1>3, <1>4, NewProgram

-----------------------------------------------------------------------------
(* The programs that stay at a step. *)

\* An agent step that cannot run yet, or asks for approval, blocks or waits at its place.
LEMMA WaitLeads ==
  ASSUME NEW r \in Rows, NEW waits \in BOOLEAN, Sane(r), HandedFresh(r, r), r.current \in StepKeys,
         NEW s \in JobStatus \ {"completed"}, s \notin Active,
         NEW x \in StepStatus \ {"absent", "completed", "cancelled"},
         NEW a, \A R : Honest(a, R), NEW b, \A R : Honest(b, R)
  PROVE  /\ Leads(<<a, WriteStep(r.current, x), WriteJob(s, r.current), Notify>>, r, waits)
         /\ Leads(<<a, b, WriteStep(r.current, x), WriteJob(s, r.current), Notify>>, r, waits)
  <1> DEFINE R == Stays(r, s, x)
             c == WriteStep(r.current, x)
             d == WriteJob(s, r.current)
             t == <<a, c, d, Notify>>
             u == <<a, b, c, d, Notify>>
  <1>1. R.status = s /\ R.current = r.current /\ R.step[r.current] = x
    BY StayRow
  <1> HIDE DEF R
  <1>2. /\ Honest(a, R) /\ Honest(b, R) /\ Honest(c, R) /\ Honest(d, R) /\ Honest(Notify, R)
        /\ Sets(r.current, c) /\ SetsStatus(d)
    BY <1>1, StepOps, JobOps, QuietOps, Keys
  <1> HIDE DEF c, d
  <1>3. /\ t \in Seq(Op) /\ DOMAIN t = 1..4 /\ Len(t) = 4
        /\ t[1] = a /\ t[2] = c /\ t[3] = d /\ t[4] = Notify
    BY <1>2 DEF Honest
  <1>4. /\ u \in Seq(Op) /\ DOMAIN u = 1..5 /\ Len(u) = 5
        /\ u[1] = a /\ u[2] = b /\ u[3] = c /\ u[4] = d /\ u[5] = Notify
    BY <1>2 DEF Honest
  <1> HIDE DEF t, u
  <1>5. Honestly(t, R) /\ Honestly(u, R)
    BY <1>2, <1>3, <1>4 DEF Honestly
  <1>6. Leads(t, r, waits)
    BY <1>2, <1>3, <1>5, StayLeads DEF R
  <1>7. Leads(u, r, waits)
    BY <1>2, <1>4, <1>5, StayLeads DEF R
  <1> QED
    BY <1>6, <1>7 DEF c, d, t, u

\* A verification that asks or has run out of attempts, and waits or blocks at its place.
LEMMA VerdictLeads ==
  ASSUME NEW r \in Rows, NEW waits \in BOOLEAN, Sane(r), HandedFresh(r, r), r.current = Verify,
         NEW s \in JobStatus \ {"completed"}, s \notin Active, NEW n \in Nat,
         NEW x \in StepStatus \ {"absent", "completed", "cancelled"},
         NEW a, \A R : Honest(a, R), NEW b, \A R : Honest(b, R), NEW e, \A R : Honest(e, R)
  PROVE  /\ Leads(<<a, b, WriteVerify(x, n), WriteJob(s, Verify), Notify>>, r, waits)
         /\ Leads(<<a, b, e, WriteVerify(x, n), WriteJob(s, Verify), Notify>>, r, waits)
  <1> DEFINE R == Stays(r, s, x)
             c == WriteVerify(x, n)
             d == WriteJob(s, Verify)
             t == <<a, b, c, d, Notify>>
             u == <<a, b, e, c, d, Notify>>
  <1>1. R.status = s /\ R.current = Verify /\ R.step[Verify] = x
    BY StayRow, Keys
  <1> HIDE DEF R
  <1>2. /\ Honest(a, R) /\ Honest(b, R) /\ Honest(e, R) /\ Honest(c, R) /\ Honest(d, R) /\ Honest(Notify, R)
        /\ Sets(Verify, c) /\ SetsStatus(d)
    BY <1>1, VerifyOps, JobOps, QuietOps, Keys
  <1> HIDE DEF c, d
  <1>3. /\ t \in Seq(Op) /\ DOMAIN t = 1..5 /\ Len(t) = 5
        /\ t[1] = a /\ t[2] = b /\ t[3] = c /\ t[4] = d /\ t[5] = Notify
    BY <1>2 DEF Honest
  <1>4. /\ u \in Seq(Op) /\ DOMAIN u = 1..6 /\ Len(u) = 6
        /\ u[1] = a /\ u[2] = b /\ u[3] = e /\ u[4] = c /\ u[5] = d /\ u[6] = Notify
    BY <1>2 DEF Honest
  <1> HIDE DEF t, u
  <1>5. Honestly(t, R) /\ Honestly(u, R)
    BY <1>2, <1>3, <1>4 DEF Honestly
  <1>6. Leads(t, r, waits)
    BY <1>2, <1>3, <1>5, StayLeads, Keys DEF R
  <1>7. Leads(u, r, waits)
    BY <1>2, <1>4, <1>5, StayLeads, Keys DEF R
  <1> QED
    BY <1>6, <1>7 DEF c, d, t, u

\* A step that is begun, or made ready again, at its place, by a program that goes on.
LEMMA GoOnLeads ==
  ASSUME NEW r \in Rows, NEW waits \in BOOLEAN, Sane(r), HandedFresh(r, r), r.current \in StepKeys,
         NEW s \in JobStatus \ {"completed"}, NEW x \in StepStatus \ {"absent", "completed", "cancelled"},
         NEW a, \A R : Honest(a, R), NEW z \in Op, Serves(z), z.op # "cancel", Agrees(z, Stays(r, s, x))
  PROVE  /\ Leads(<<WriteStep(r.current, x), WriteJob(s, r.current), z>>, r, waits)
         /\ Leads(<<a, WriteStep(r.current, x), WriteJob(s, r.current), z>>, r, waits)
  <1> DEFINE R == Stays(r, s, x)
             c == WriteStep(r.current, x)
             d == WriteJob(s, r.current)
             t == <<c, d, z>>
             u == <<a, c, d, z>>
  <1>1. R.status = s /\ R.current = r.current /\ R.step[r.current] = x /\ Agrees(z, R)
    BY StayRow
  <1> HIDE DEF R
  <1>2. /\ Honest(a, R) /\ Honest(c, R) /\ Honest(d, R) /\ Sets(r.current, c) /\ SetsStatus(d)
    BY <1>1, StepOps, JobOps, Keys
  <1> HIDE DEF c, d
  <1>3. /\ t \in Seq(Op) /\ DOMAIN t = 1..3 /\ Len(t) = 3 /\ t[1] = c /\ t[2] = d /\ t[3] = z
    BY <1>2 DEF Honest
  <1>4. /\ u \in Seq(Op) /\ DOMAIN u = 1..4 /\ Len(u) = 4
        /\ u[1] = a /\ u[2] = c /\ u[3] = d /\ u[4] = z
    BY <1>2 DEF Honest
  <1> HIDE DEF t, u
  <1>5. Honestly(t, R) /\ Honestly(u, R)
    BY <1>1, <1>2, <1>3, <1>4 DEF Honestly
  <1>6. Leads(t, r, waits)
    BY <1>2, <1>3, <1>5, StayLeads DEF R
  <1>7. Leads(u, r, waits)
    BY <1>2, <1>4, <1>5, StayLeads DEF R
  <1> QED
    BY <1>6, <1>7 DEF c, d, t, u

\* A job that waits where it is, its step as it was.
LEMMA PauseLeads ==
  ASSUME NEW r \in Rows, NEW waits \in BOOLEAN, Sane(r), HandedFresh(r, r), r.current \in StepKeys,
         NEW s \in JobStatus \ {"completed"}, s \notin Active, NEW a, \A R : Honest(a, R)
  PROVE  /\ Leads(<<WriteJob(s, r.current)>>, r, waits)
         /\ Leads(<<a, WriteJob(s, r.current)>>, r, waits)
  <1> DEFINE R == [r EXCEPT !.status = s]
             d == WriteJob(s, r.current)
             t == <<d>>
             u == <<a, d>>
  <1>1. R.status = s /\ R.current = r.current
    BY DEF Rows
  <1> HIDE DEF R
  <1>2. Honest(a, R) /\ Honest(d, R) /\ SetsStatus(d)
    BY <1>1, JobOps, Keys
  <1> HIDE DEF d
  <1>3. t \in Seq(Op) /\ DOMAIN t = 1..1 /\ Len(t) = 1 /\ t[1] = d
    BY <1>2 DEF Honest
  <1>4. u \in Seq(Op) /\ DOMAIN u = 1..2 /\ Len(u) = 2 /\ u[1] = a /\ u[2] = d
    BY <1>2 DEF Honest
  <1> HIDE DEF t, u
  <1>5. Honestly(t, R) /\ Honestly(u, R)
    BY <1>2, <1>3, <1>4 DEF Honestly
  <1>6. Leads(t, r, waits)
    BY <1>2, <1>3, <1>5, StatusLeads DEF R
  <1>7. Leads(u, r, waits)
    BY <1>2, <1>4, <1>5, StatusLeads DEF R
  <1> QED
    BY <1>6, <1>7 DEF d, t, u

\* A job that is queued where it is.
LEMMA QueuedLeads ==
  ASSUME NEW r \in Rows, NEW waits \in BOOLEAN, Sane(r), HandedFresh(r, r)
  PROVE  Leads(<<WriteJob("queued", r.current), Enqueue>>, r, waits)
  <1> DEFINE R == [r EXCEPT !.status = "queued"]
             d == WriteJob("queued", r.current)
             t == <<d, Enqueue>>
  <1>1. R.status = "queued" /\ R.current = r.current /\ r.current \in StepIds
    BY DEF Rows
  <1> HIDE DEF R
  <1>2. Honest(d, R) /\ SetsStatus(d)
    BY <1>1, JobOps DEF JobStatus
  <1> HIDE DEF d
  <1>3. t \in Seq(Op) /\ DOMAIN t = 1..2 /\ Len(t) = 2 /\ t[1] = d /\ t[2] = Enqueue
    BY <1>2, ServingOps DEF Honest
  <1> HIDE DEF t
  <1>4. Honestly(t, R)
    BY <1>2, <1>3, ServingOps DEF Honestly
  <1>5. "queued" \in JobStatus \ {"completed"} /\ Serves(t[2])
    BY <1>3, ServingOps DEF JobStatus
  <1>6. Honestly(t, [r EXCEPT !.status = "queued"])
    BY <1>4 DEF R
  <1>7. Leads(t, r, waits)
    BY <1>2, <1>3, <1>5, <1>6, StatusLeads
  <1> QED
    BY <1>7 DEF d, t

\* A job that is marked failed.
LEMMA FailedLeads ==
  ASSUME NEW r \in Rows, NEW waits \in BOOLEAN, Sane(r), HandedFresh(r, r)
  PROVE  Leads(MarkFailed, r, waits)
  <1> DEFINE R == [r EXCEPT !.status = "failed"]
             d == WriteStatus("failed")
             t == <<d, Notify>>
  <1>1. R.status = "failed"
    BY DEF Rows
  <1> HIDE DEF R
  <1>2. Honest(d, R) /\ SetsStatus(d)
    BY <1>1, PlainWriteStatus, PlainProgram
    DEF WriteStatus, Honest, Agrees, Ends, Serves, SetsStatus, SetsCurrent, Passes, JobStatus
  <1> HIDE DEF d
  <1>3. t \in Seq(Op) /\ DOMAIN t = 1..2 /\ Len(t) = 2 /\ t[1] = d /\ t[2] = Notify
    BY <1>2, QuietOps DEF Honest
  <1> HIDE DEF t
  <1>4. Honestly(t, R)
    BY <1>2, <1>3, QuietOps DEF Honestly
  <1>5. "failed" \in JobStatus \ {"completed"} /\ "failed" \notin Active
    BY DEF JobStatus, Active
  <1>6. Honestly(t, [r EXCEPT !.status = "failed"])
    BY <1>4 DEF R
  <1>7. Leads(t, r, waits)
    BY <1>2, <1>3, <1>5, <1>6, StatusLeads
  <1> QED
    BY <1>7 DEF d, t, MarkFailed

\* A program that reads the job on, or has nothing more to do.
LEMMA OnlyReads ==
  ASSUME NEW r \in Rows, NEW waits \in BOOLEAN, Sane(r), HandedFresh(r, r)
  PROVE  /\ Leads(<<ReadSteps(r.current)>>, r, waits)
         /\ Leads(<<Dispatch(r.current, r.step)>>, r, waits)
         /\ Leads(<<Submit>>, r, waits)
         /\ Served(<<>>, r, waits) => /\ Leads(<<>>, r, waits) /\ Leads(<<Settle(r.current)>>, r, waits)
                                      /\ \A id \in Nat, s \in {"satisfied", "rejected"} :
                                           Leads(<<Resolve(id, s), ReadJob>>, r, waits)
  <1>1. ASSUME NEW o \in Op, Agrees(o, r), o.op # "cancel", Serves(o) \/ Served(<<>>, r, waits)
        PROVE  Leads(<<o>>, r, waits)
    <2> DEFINE t == <<o>>
    <2>1. t \in Seq(Op) /\ DOMAIN t = 1..1 /\ Len(t) = 1 /\ t[1] = o
      OBVIOUS
    <2> HIDE DEF t
    <2>2. Honestly(t, r) /\ Served(t, r, waits)
      BY <1>1, <2>1 DEF Honestly, Served
    <2>3. Leads(t, r, waits)
      BY <2>1, <2>2, ReadLeads
    <2> QED
      BY <2>3 DEF t
  <1>2. Leads(<<ReadSteps(r.current)>>, r, waits) /\ Leads(<<Dispatch(r.current, r.step)>>, r, waits)
    BY <1>1, ReadingOps
  <1>3. Leads(<<Submit>>, r, waits)
    BY <1>1, ServingOps
  <1>4. ASSUME Served(<<>>, r, waits) PROVE Leads(<<>>, r, waits) /\ Leads(<<Settle(r.current)>>, r, waits)
    <2>1. Honestly(<<>>, r) /\ <<>> \in Seq(Op)
      BY DEF Honestly
    <2> QED
      BY <1>1, <1>4, <2>1, ReadLeads, ReadingOps
  <1>5. ASSUME Served(<<>>, r, waits), NEW id \in Nat, NEW s \in {"satisfied", "rejected"}
        PROVE  Leads(<<Resolve(id, s), ReadJob>>, r, waits)
    <2> DEFINE a == Resolve(id, s)
               t == <<a, ReadJob>>
    <2>1. Honest(a, r) /\ ReadJob \in Op /\ Agrees(ReadJob, r) /\ ReadJob.op # "cancel"
      BY QuietOps, ReadingOps
    <2> HIDE DEF a
    <2>2. t \in Seq(Op) /\ DOMAIN t = 1..2 /\ Len(t) = 2 /\ t[1] = a /\ t[2] = ReadJob
      BY <2>1 DEF Honest
    <2> HIDE DEF t
    <2>3. Honestly(t, r) /\ Served(t, r, waits)
      BY <1>5, <2>1, <2>2 DEF Honestly, Served
    <2>4. Leads(t, r, waits)
      BY <2>2, <2>3, ReadLeads
    <2> QED
      BY <2>4 DEF a, t
  <1> QED
    BY <1>2, <1>3, <1>4, <1>5

-----------------------------------------------------------------------------
(* The programs that move to another step. *)

\* The inspection hands on to the implementation.
LEMMA InspectLeads ==
  ASSUME NEW r \in Rows, NEW waits \in BOOLEAN, Sane(r), HandedFresh(r, r), r.current = Inspect
  PROVE  Leads(<<WriteStep(Inspect, "completed"), WriteStep(Implement, "ready"),
                 WriteJob("running", Implement), Enqueue>>, r, waits)
  <1> DEFINE a == WriteStep(Inspect, "completed")
             b == WriteStep(Implement, "ready")
             c == WriteJob("running", Implement)
             t == <<a, b, c, Enqueue>>
             R == [status |-> "running", current |-> Implement, evidence |-> r.evidence,
                   step |-> [r.step EXCEPT ![Inspect] = "completed", ![Implement] = "ready"]]
  <1>1. /\ R \in Rows /\ R.evidence = r.evidence /\ R.status # "completed"
        /\ \A k \in StepKeys \ {Inspect, Implement} : r.step[k] = R.step[k]
    BY Keys DEF Rows, JobStatus, StepStatus
  <1>2. Sane(R) /\ \A k \in StepKeys : R.step[k] # "running"
    BY DEF Sane, RunsCurrent, InPlan, OutOfPlan, Whole, Verified, Rows, StepKeys, NoStep,
           Inspect, Draft, Implement, Verify, Finalize, CancellableStep
  <1>3. /\ Honest(a, R) /\ Sets(Inspect, a) /\ Honest(b, R) /\ Sets(Implement, b)
        /\ Honest(c, R) /\ SetsStatus(c) /\ SetsCurrent(c)
    <2>1. R.step[Inspect] = "completed" /\ R.step[Implement] = "ready"
      BY DEF Rows, StepKeys, Inspect, Implement
    <2>2. R.status = "running" /\ R.current = Implement
      OBVIOUS
    <2> HIDE DEF R
    <2> QED
      BY <2>1, <2>2, StepOps, JobOps, Keys DEF StepStatus, JobStatus
  <1> HIDE DEF a, b, c, R
  <1>4. /\ t \in Seq(Op) /\ DOMAIN t = 1..4 /\ Len(t) = 4
        /\ t[1] = a /\ t[2] = b /\ t[3] = c /\ t[4] = Enqueue
    BY <1>3, ServingOps DEF Honest
  <1> HIDE DEF t
  <1>5. Heads(t, r, R)
    BY <1>1, <1>3, <1>4, ServingOps DEF Heads, Honest
  <1>6. Served(t, R, waits)
    BY <1>4, ServingOps DEF Served
  <1>7. Leads(t, r, waits)
    BY <1>1, <1>2, <1>4, <1>5, <1>6, NewProgram
  <1> QED
    BY <1>7 DEF a, b, c, t

\* The implementation hands on to the verification.
LEMMA ImplementedLeads ==
  ASSUME NEW r \in Rows, NEW waits \in BOOLEAN, Sane(r), HandedFresh(r, r), r.current = Implement
  PROVE  Leads(<<Clear(Implement, ReqKinds), WriteStep(Verify, "ready"), WriteStep(Implement, "completed"),
                 WriteJob("running", Verify), Enqueue>>, r, waits)
  <1> DEFINE q == Clear(Implement, ReqKinds)
             a == WriteStep(Verify, "ready")
             b == WriteStep(Implement, "completed")
             c == WriteJob("running", Verify)
             t == <<q, a, b, c, Enqueue>>
             R == [status |-> "running", current |-> Verify, evidence |-> r.evidence,
                   step |-> [r.step EXCEPT ![Verify] = "ready", ![Implement] = "completed"]]
  <1>1. /\ R \in Rows /\ R.evidence = r.evidence /\ R.status # "completed"
        /\ \A k \in StepKeys \ {Implement, Verify} : r.step[k] = R.step[k]
    BY Keys DEF Rows, JobStatus, StepStatus
  <1>2. Sane(R) /\ \A k \in StepKeys : R.step[k] # "running"
    BY DEF Sane, RunsCurrent, InPlan, OutOfPlan, Whole, Verified, Rows, StepKeys, NoStep,
           Inspect, Draft, Implement, Verify, Finalize, CancellableStep
  <1>3. /\ Honest(a, R) /\ Sets(Verify, a) /\ Honest(b, R) /\ Sets(Implement, b) /\ Honest(q, R)
        /\ Honest(c, R) /\ SetsStatus(c) /\ SetsCurrent(c)
    <2>1. R.step[Verify] = "ready" /\ R.step[Implement] = "completed"
      BY DEF Rows, StepKeys, Verify, Implement
    <2>2. R.status = "running" /\ R.current = Verify
      OBVIOUS
    <2> HIDE DEF R
    <2> QED
      BY <2>1, <2>2, StepOps, JobOps, QuietOps, Keys DEF StepStatus, JobStatus
  <1> HIDE DEF q, a, b, c, R
  <1>4. /\ t \in Seq(Op) /\ DOMAIN t = 1..5 /\ Len(t) = 5
        /\ t[1] = q /\ t[2] = a /\ t[3] = b /\ t[4] = c /\ t[5] = Enqueue
    BY <1>3, ServingOps DEF Honest
  <1> HIDE DEF t
  <1>5. Heads(t, r, R)
    BY <1>1, <1>3, <1>4, ServingOps DEF Heads, Honest
  <1>6. Served(t, R, waits)
    BY <1>4, ServingOps DEF Served
  <1>7. Leads(t, r, waits)
    BY <1>1, <1>2, <1>4, <1>5, <1>6, NewProgram
  <1> QED
    BY <1>7 DEF q, a, b, c, t

\* A verification that passes hands on to the end.
LEMMA PassedLeads ==
  ASSUME NEW r \in Rows, NEW waits \in BOOLEAN, Sane(r), HandedFresh(r, r), r.current = Verify, NEW n \in Nat
  PROVE  Leads(<<Clear(Verify, ReqKinds), WriteVerify("completed", n), WriteStep(Finalize, "ready"),
                 WriteJob("running", Finalize), Enqueue>>, r, waits)
  <1> DEFINE q == Clear(Verify, ReqKinds)
             a == WriteVerify("completed", n)
             b == WriteStep(Finalize, "ready")
             c == WriteJob("running", Finalize)
             t == <<q, a, b, c, Enqueue>>
             R == [status |-> "running", current |-> Finalize, evidence |-> "passed",
                   step |-> [r.step EXCEPT ![Verify] = "completed", ![Finalize] = "ready"]]
  <1>1. /\ R \in Rows /\ R.status # "completed"
        /\ \A k \in StepKeys \ {Verify, Finalize} : r.step[k] = R.step[k]
    BY Keys DEF Rows, JobStatus, StepStatus
  <1>2. Sane(R) /\ \A k \in StepKeys : R.step[k] # "running"
    BY DEF Sane, RunsCurrent, InPlan, OutOfPlan, Whole, Verified, Rows, StepKeys, NoStep,
           Inspect, Draft, Implement, Verify, Finalize, CancellableStep
  <1>3. /\ Honest(a, R) /\ Sets(Verify, a) /\ Passes(a) /\ Honest(b, R) /\ Sets(Finalize, b) /\ Honest(q, R)
        /\ Honest(c, R) /\ SetsStatus(c) /\ SetsCurrent(c)
    <2>1. R.step[Verify] = "completed" /\ R.step[Finalize] = "ready"
      BY DEF Rows, StepKeys, Verify, Finalize
    <2>2. R.status = "running" /\ R.current = Finalize /\ R.evidence = "passed"
      OBVIOUS
    <2> HIDE DEF R
    <2> QED
      BY <2>1, <2>2, VerifyOps, StepOps, JobOps, QuietOps, Keys DEF StepStatus, JobStatus
  <1> HIDE DEF q, a, b, c, R
  <1>4. /\ t \in Seq(Op) /\ DOMAIN t = 1..5 /\ Len(t) = 5
        /\ t[1] = q /\ t[2] = a /\ t[3] = b /\ t[4] = c /\ t[5] = Enqueue
    BY <1>3, ServingOps DEF Honest
  <1> HIDE DEF t
  <1>5. Heads(t, r, R)
    BY <1>1, <1>3, <1>4, ServingOps DEF Heads, Honest
  <1>6. Served(t, R, waits)
    BY <1>4, ServingOps DEF Served
  <1>7. Leads(t, r, waits)
    BY <1>1, <1>2, <1>4, <1>5, <1>6, NewProgram
  <1> QED
    BY <1>7 DEF q, a, b, c, t

\* A verification that fails sends the job back to the implementation.
LEMMA RepairLeads ==
  ASSUME NEW r \in Rows, NEW waits \in BOOLEAN, Sane(r), HandedFresh(r, r), r.current = Verify, NEW n \in Nat,
         NEW p, \A R : Honest(p, R)
  PROVE  Leads(<<Clear(Verify, ReqKinds), p, WriteVerify("retrying", n), WriteStep(Implement, "ready"),
                 WriteJob("retrying", Implement), Enqueue>>, r, waits)
  <1> DEFINE q == Clear(Verify, ReqKinds)
             a == WriteVerify("retrying", n)
             b == WriteStep(Implement, "ready")
             c == WriteJob("retrying", Implement)
             t == <<q, p, a, b, c, Enqueue>>
             R == [status |-> "retrying", current |-> Implement, evidence |-> r.evidence,
                   step |-> [r.step EXCEPT ![Verify] = "retrying", ![Implement] = "ready"]]
  <1>1. /\ R \in Rows /\ R.status # "completed" /\ R.evidence = r.evidence
        /\ \A k \in StepKeys \ {Implement, Verify} : r.step[k] = R.step[k]
    BY Keys DEF Rows, JobStatus, StepStatus
  <1>2. Sane(R) /\ \A k \in StepKeys : R.step[k] # "running"
    BY DEF Sane, RunsCurrent, InPlan, OutOfPlan, Whole, Verified, Rows, StepKeys, NoStep,
           Inspect, Draft, Implement, Verify, Finalize, CancellableStep
  <1>3. /\ Honest(a, R) /\ Sets(Verify, a) /\ Honest(b, R) /\ Sets(Implement, b)
        /\ Honest(q, R) /\ Honest(p, R) /\ Honest(c, R) /\ SetsStatus(c) /\ SetsCurrent(c)
    <2>1. R.step[Verify] = "retrying" /\ R.step[Implement] = "ready"
      BY DEF Rows, StepKeys, Verify, Implement
    <2>2. R.status = "retrying" /\ R.current = Implement
      OBVIOUS
    <2> HIDE DEF R
    <2> QED
      BY <2>1, <2>2, VerifyOps, StepOps, JobOps, QuietOps, Keys DEF StepStatus, JobStatus
  <1> HIDE DEF q, a, b, c, R
  <1>4. /\ t \in Seq(Op) /\ DOMAIN t = 1..6 /\ Len(t) = 6
        /\ t[1] = q /\ t[2] = p /\ t[3] = a /\ t[4] = b /\ t[5] = c /\ t[6] = Enqueue
    BY <1>3, ServingOps DEF Honest
  <1> HIDE DEF t
  <1>5. Heads(t, r, R)
    BY <1>1, <1>3, <1>4, ServingOps DEF Heads, Honest
  <1>6. Served(t, R, waits)
    BY <1>4, ServingOps DEF Served
  <1>7. Leads(t, r, waits)
    BY <1>1, <1>2, <1>4, <1>5, <1>6, NewProgram
  <1> QED
    BY <1>7 DEF q, a, b, c, t

\* The last step completes the job, with the evidence it was reached with.
LEMMA FinalizeLeads ==
  ASSUME NEW r \in Rows, NEW waits \in BOOLEAN, Sane(r), HandedFresh(r, r), r.current = Finalize
  PROVE  Leads(<<WriteStep(Finalize, "completed"), WriteJob("completed", NoStep), Notify>>, r, waits)
  <1> DEFINE a == WriteStep(Finalize, "completed")
             c == WriteJob("completed", NoStep)
             t == <<a, c, Notify>>
             R == [status |-> "completed", current |-> NoStep, evidence |-> r.evidence,
                   step |-> [r.step EXCEPT ![Finalize] = "completed"]]
  <1>1. /\ R \in Rows /\ R.status = "completed" /\ R.evidence = r.evidence /\ r.evidence = "passed"
        /\ \A k \in StepKeys \ {Finalize} : r.step[k] = R.step[k]
    BY Keys DEF Rows, JobStatus, StepStatus, Sane, Verified
  <1>2. Sane(R) /\ \A k \in StepKeys : R.step[k] # "running"
    BY DEF Sane, RunsCurrent, InPlan, OutOfPlan, Whole, Verified, Rows, StepKeys, NoStep, Closed,
           Inspect, Draft, Implement, Verify, Finalize, CancellableStep
  <1>3. Honest(a, R) /\ Sets(Finalize, a) /\ Honest(c, R) /\ SetsStatus(c) /\ SetsCurrent(c)
    <2>1. R.step[Finalize] = "completed"
      BY DEF Rows, StepKeys, Finalize
    <2>2. R.status = "completed" /\ R.current = NoStep
      OBVIOUS
    <2> HIDE DEF R
    <2> QED
      BY <2>1, <2>2, StepOps, JobOps, Keys DEF StepStatus, JobStatus
  <1> HIDE DEF a, c, R
  <1>4. t \in Seq(Op) /\ DOMAIN t = 1..3 /\ Len(t) = 3 /\ t[1] = a /\ t[2] = c /\ t[3] = Notify
    BY <1>3, QuietOps DEF Honest
  <1> HIDE DEF t
  <1>5. Heads(t, r, R)
    BY <1>1, <1>3, <1>4, QuietOps DEF Heads, Honest
  <1>6. Served(t, R, waits)
    BY <1>1 DEF Served, Executable, Active
  <1>7. Leads(t, r, waits)
    BY <1>1, <1>2, <1>4, <1>5, <1>6, NewProgram
  <1> QED
    BY <1>7 DEF a, c, t

\* A cancellation closes every step that is still open.
LEMMA CancelLeads ==
  ASSUME NEW r \in Rows, NEW waits \in BOOLEAN, Sane(r), HandedFresh(r, r)
  PROVE  Leads(<<CancelSteps, WriteJob("cancelled", NoStep)>>, r, waits)
  <1> DEFINE a == CancelSteps
             c == WriteJob("cancelled", NoStep)
             t == <<a, c>>
             R == [status |-> "cancelled", current |-> NoStep, evidence |-> r.evidence,
                   step |-> Cancelled(r.step)]
  <1>1. /\ R \in Rows /\ R.status = "cancelled" /\ R.current = NoStep /\ R.evidence = r.evidence
        /\ R.step = Cancelled(r.step)
    BY Keys DEF Rows, JobStatus, StepStatus, Cancelled
  <1>2. \A k \in StepKeys : R.step[k] \in Closed /\ (R.step[k] = "absent" <=> r.step[k] = "absent")
    BY <1>1 DEF Rows, StepStatus, Cancelled, CancellableStep, Closed
  <1> HIDE DEF R
  <1>3. Sane(R) /\ \A k \in StepKeys : R.step[k] # "running"
    BY <1>1, <1>2 DEF Sane, RunsCurrent, InPlan, OutOfPlan, Whole, Verified, Closed, CancellableStep,
                      NoStep, Finalize
  <1>4. /\ a \in Op /\ Agrees(a, R) /\ ~Ends(a) /\ a.op = "cancel"
        /\ Honest(c, R) /\ SetsStatus(c) /\ SetsCurrent(c)
    BY <1>1, JobOps, Keys, PlainBare, PlainProgram
    DEF JobStatus, CancelSteps, Agrees, Ends, Serves, SetsStatus, SetsCurrent, Passes
  <1> HIDE DEF a, c
  <1>5. t \in Seq(Op) /\ DOMAIN t = 1..2 /\ Len(t) = 2 /\ t[1] = a /\ t[2] = c
    BY <1>4 DEF Honest
  <1> HIDE DEF t
  <1>6. Heads(t, r, R)
    BY <1>1, <1>4, <1>5 DEF Heads, Honest, Cancels
  <1>7. Served(t, R, waits)
    BY <1>1 DEF Served, Executable, Active
  <1>8. Leads(t, r, waits)
    BY <1>1, <1>3, <1>5, <1>6, <1>7, NewProgram
  <1> QED
    BY <1>8 DEF a, c, t

\* The plan of a job that has none.
LEMMA PlanLeads ==
  ASSUME NEW r \in Rows, NEW waits \in BOOLEAN, Sane(r), HandedFresh(r, r),
         \A k \in StepKeys : r.step[k] = "absent", NEW ready \in BOOLEAN
  PROVE  Leads(Plan(ready), r, waits)
  <1> DEFINE s == IF ready THEN "running" ELSE "waiting_for_runtime"
             x == IF ready THEN "ready" ELSE "waiting_for_runtime"
             a == Begin(s)
             b == WriteStep(Inspect, x)
             d == WriteStep(Draft, "pending")
             e == WriteStep(Implement, "pending")
             f == WriteStep(Verify, "pending")
             g == WriteStep(Finalize, "pending")
             c == WriteCurrent(Inspect)
             q == Require(Inspect, "runtime", IF ready THEN 0 ELSE 1)
             t == <<a, b, d, e, f, g, c, q, Reload>>
             R == [status |-> s, current |-> Inspect, evidence |-> r.evidence,
                   step |-> [k \in StepKeys |-> IF k = Inspect THEN x ELSE "pending"]]
  <1>1. s \in JobStatus \ {"completed"} /\ x \in {"ready", "waiting_for_runtime"} /\ x \in StepStatus
    BY DEF JobStatus, StepStatus
  <1> HIDE DEF s, x
  <1>2. /\ R \in Rows /\ R.status = s /\ R.current = Inspect /\ R.evidence = r.evidence
        /\ R.step[Inspect] = x /\ R.step[Draft] = "pending" /\ R.step[Implement] = "pending"
        /\ R.step[Verify] = "pending" /\ R.step[Finalize] = "pending"
    BY <1>1 DEF Rows, StepStatus, StepIds, StepKeys, Inspect, Draft, Implement, Verify, Finalize
  <1> HIDE DEF R
  <1>3. Sane(R) /\ \A k \in StepKeys : R.step[k] # "running"
    BY <1>1, <1>2
    DEF Sane, RunsCurrent, InPlan, OutOfPlan, Whole, Verified, StepKeys, NoStep,
           Inspect, Draft, Implement, Verify, Finalize, CancellableStep
  <1>4. /\ Honest(b, R) /\ Sets(Inspect, b) /\ Honest(d, R) /\ Sets(Draft, d) /\ Honest(e, R)
        /\ Sets(Implement, e) /\ Honest(f, R) /\ Sets(Verify, f) /\ Honest(g, R) /\ Sets(Finalize, g)
    <2>1. "pending" \in StepStatus
      BY DEF StepStatus
    <2> QED
      BY <1>1, <1>2, <2>1, StepOps, Keys
  <1>5. Honest(a, R) /\ SetsStatus(a) /\ Honest(c, R) /\ SetsCurrent(c)
    BY <1>1, <1>2, PlainBegin, PlainWriteCurrent, PlainProgram, Keys
    DEF Begin, WriteCurrent, Honest, Agrees, Ends, Serves, SetsStatus, SetsCurrent, Passes
  <1>6. Honest(q, R)
    BY QuietOps, Keys DEF ReqKinds, DetectedKinds
  <1> HIDE DEF a, b, c, d, e, f, g, q
  <1>7. /\ t \in Seq(Op) /\ DOMAIN t = 1..9 /\ Len(t) = 9 /\ t[1] = a /\ t[2] = b /\ t[3] = d
        /\ t[4] = e /\ t[5] = f /\ t[6] = g /\ t[7] = c /\ t[8] = q /\ t[9] = Reload
    BY <1>4, <1>5, <1>6, ServingOps DEF Honest
  <1> HIDE DEF t
  <1>8. Heads(t, r, R)
    <2>1. \A i \in DOMAIN t : Honest(t[i], R) \/ i = 9
      BY <1>4, <1>5, <1>6, <1>7
    <2>2. \A k \in StepKeys : \E i \in DOMAIN t : Sets(k, t[i])
      BY <1>4, <1>7, Keys
    <2>3. (\E i \in DOMAIN t : SetsStatus(t[i])) /\ \E i \in DOMAIN t : SetsCurrent(t[i])
      BY <1>5, <1>7
    <2> QED
      BY <1>2, <1>7, <2>1, <2>2, <2>3, ServingOps DEF Heads, Honest
  <1>9. Served(t, R, waits)
    BY <1>7, ServingOps DEF Served
  <1>10. R.status # "completed"
    BY <1>1, <1>2
  <1>11. t \in Seq(Op) /\ R \in Rows
    BY <1>2, <1>7
  <1>12. Leads(t, r, waits)
    BY <1>3, <1>8, <1>9, <1>10, <1>11, NewProgram
  <1> QED
    BY <1>12 DEF a, b, c, d, e, f, g, q, s, x, t, Plan

-----------------------------------------------------------------------------
(* The worker's handlers, from a sane row. *)

\* The worker goes on with a program that leads the row r to a sane one.
GoesOnFrom(r) == \E prog : Become(Worker, prog) /\ Leads(prog, r, FALSE)

\* A step that can be executed is the current one.
LEMMA RunnableIsCurrent ==
  ASSUME NEW r \in Rows, Sane(r), NEW k \in StepKeys, k = GetCurrentStep(r.step, r.current),
         r.step[k] \in Runnable(k)
  PROVE  r.current = k
  <1>1. r.step[k] \in {"ready", "running", "retrying", "waiting_for_approval"}
    BY DEF Runnable
  <1>2. r.current # NoStep
    BY <1>1 DEF Sane, OutOfPlan, Closed
  <1> QED
    BY <1>2 DEF GetCurrentStep

\* A catch block marks the job failed.
LEMMA FailOn == ASSUME NEW r \in Rows, Sane(r), HandedFresh(r, r), Fail PROVE GoesOnFrom(r)
  BY FailedLeads DEF Fail, GoesOnFrom

\* The inspection.
LEMMA InspectOn ==
  ASSUME NEW j \in Jobs, NEW r \in Rows, r.step = step[j], Sane(r), HandedFresh(r, r), r.current = Inspect,
         InspectStep(j)
  PROVE  GoesOnFrom(r)
  <1>1. Present(j, Implement)
    BY Keys DEF Present, Sane, InPlan
  <1> QED
    BY <1>1, InspectLeads, FailOn DEF InspectStep, Proceed, GoesOnFrom

\* The implementation and the verification, up to their agent pass.
LEMMA AgentStepOn ==
  ASSUME NEW j \in Jobs, NEW r \in Rows, Sane(r), HandedFresh(r, r), NEW k \in {Implement, Verify},
         r.current = k, NEW rs,
         AwaitInference(j, k, rs) \/ AwaitRuntime(j, k) \/ AwaitApprovals(k, rs) \/ StartAgent(k, rs)
  PROVE  GoesOnFrom(r)
  <1>1. k \in StepKeys /\ k \in StepIds
    BY Keys
  <1>2. \A R : /\ Honest(Clear(k, DetectedKinds), R)
               /\ \A kind \in {"credential", "runtime"}, n \in {0, 1} : Honest(Require(k, kind, n), R)
    BY <1>1, QuietOps DEF ReqKinds, DetectedKinds
  <1>3. /\ \A s \in {"blocked", "waiting_for_runtime", "waiting_for_approval"} :
             s \in JobStatus \ {"completed"} /\ s \notin Active
        /\ {"running", "retrying"} \subseteq JobStatus \ {"completed"}
        /\ {"blocked", "waiting_for_runtime", "running"} \subseteq StepStatus \ {"absent", "completed", "cancelled"}
    BY DEF JobStatus, StepStatus, Active
  <1>4. CASE AwaitInference(j, k, rs)
    <2>1. PICK n \in {0, 1} :
            Become(Worker, <<Require(k, "credential", n), WriteStep(k, "blocked"), WriteJob("blocked", k), Notify>>)
      BY <1>4 DEF AwaitInference, Proceed
    <2>2. \A R : Honest(Require(k, "credential", n), R)
      BY <1>2
    <2>3. Leads(<<Require(k, "credential", n), WriteStep(k, "blocked"), WriteJob("blocked", k), Notify>>, r, FALSE)
      BY <1>1, <1>3, <2>2, WaitLeads
    <2> QED
      BY <2>1, <2>3 DEF GoesOnFrom
  <1>5. CASE AwaitRuntime(j, k)
    <2>1. Leads(<<Clear(k, DetectedKinds), Require(k, "runtime", 1), WriteStep(k, "waiting_for_runtime"),
                  WriteJob("waiting_for_runtime", k), Notify>>, r, FALSE)
      BY <1>1, <1>2, <1>3, WaitLeads
    <2> QED
      BY <1>5, <2>1 DEF AwaitRuntime, Proceed, GoesOnFrom
  <1>6. CASE AwaitApprovals(k, rs)
    <2>1. Leads(<<Clear(k, DetectedKinds), WriteJob("waiting_for_approval", k)>>, r, FALSE)
      BY <1>1, <1>2, <1>3, PauseLeads
    <2> QED
      BY <1>6, <2>1 DEF AwaitApprovals, Proceed, GoesOnFrom
  <1>7. CASE StartAgent(k, rs)
    <2>1. PICK s \in {"running", "retrying"} :
            Become(Worker, <<Clear(k, DetectedKinds), WriteStep(k, "running"), WriteJob(s, k), RunAgent(k)>>)
      BY <1>7 DEF StartAgent, Proceed
    <2> DEFINE R == Stays(r, s, "running")
    <2>2. R.status = s /\ R.current = k /\ R.step[k] = "running"
      BY <1>1, <1>3, StayRow
    <2> HIDE DEF R
    <2>3. /\ RunAgent(k) \in Op /\ Agrees(RunAgent(k), R) /\ Serves(RunAgent(k)) /\ RunAgent(k).op # "cancel"
      BY <2>2, AgentOps
    <2>4. Leads(<<Clear(k, DetectedKinds), WriteStep(k, "running"), WriteJob(s, k), RunAgent(k)>>, r, FALSE)
      BY <1>1, <1>2, <1>3, <2>3, GoOnLeads DEF R
    <2> QED
      BY <2>1, <2>4 DEF GoesOnFrom
  <1> QED
    BY <1>4, <1>5, <1>6, <1>7

\* Executing the current step.
LEMMA ExecuteOn ==
  ASSUME NEW j \in Jobs, NEW r \in Rows, r.step = step[j], Sane(r), HandedFresh(r, r), NEW k \in StepKeys,
         k = GetCurrentStep(r.step, r.current), NEW rs, Execute(j, k, r.step[k], rs)
  PROVE  GoesOnFrom(r)
  <1>1. CASE r.step[k] \notin Runnable(k)
    <2>1. Served(<<>>, r, FALSE)
      BY <1>1 DEF Served, Executable
    <2>2. Proceed(<<>>)
      BY <1>1 DEF Execute
    <2> QED
      BY <2>1, <2>2, OnlyReads DEF Proceed, GoesOnFrom
  <1>2. CASE r.step[k] \in Runnable(k)
    <2>1. r.current = k
      BY <1>2, RunnableIsCurrent
    <2>2. CASE k = Inspect
      <3>1. InspectStep(j)
        BY <1>2, <2>2 DEF Execute, Inspect, Implement, Verify, Finalize
      <3> QED
        BY <2>1, <2>2, <3>1, InspectOn
    <2>3. CASE k \in {Implement, Verify}
      <3>1. AwaitInference(j, k, rs) \/ AwaitRuntime(j, k) \/ AwaitApprovals(k, rs) \/ StartAgent(k, rs)
        BY <1>2, <2>3 DEF Execute, Inspect, Implement, Verify, Finalize
      <3> QED
        BY <2>1, <2>3, <3>1, AgentStepOn
    <2>4. CASE k = Finalize
      <3>1. FinalizeStep
        BY <1>2, <2>4 DEF Execute, Inspect, Implement, Verify, Finalize
      <3> QED
        BY <2>1, <2>4, <3>1, FinalizeLeads DEF FinalizeStep, Proceed, GoesOnFrom
    <2>5. k # Draft
      BY <1>2, <2>1 DEF Sane, InPlan, Draft, NoStep
    <2> QED
      BY <2>2, <2>3, <2>4, <2>5, Keys
  <1> QED
    BY <1>1, <1>2

\* An inspection that waits for its workspace.
LEMMA ProbeOn ==
  ASSUME NEW r \in Rows, Sane(r), HandedFresh(r, r), r.current = Inspect, ProbeWorkspace
  PROVE  GoesOnFrom(r)
  <1>1. Inspect \in StepKeys /\ \A R : Honest(Satisfy(Inspect), R)
    BY QuietOps, Keys
  <1>2. /\ "waiting_for_runtime" \in JobStatus \ {"completed"} /\ "waiting_for_runtime" \notin Active
        /\ "running" \in JobStatus \ {"completed"} /\ "ready" \in StepStatus \ {"absent", "completed", "cancelled"}
    BY DEF JobStatus, StepStatus, Active
  <1>3. Leads(<<WriteJob("waiting_for_runtime", Inspect)>>, r, FALSE)
    BY <1>1, <1>2, PauseLeads
  <1>4. Leads(<<Satisfy(Inspect), WriteStep(Inspect, "ready"), WriteJob("running", Inspect), Reload>>, r, FALSE)
    BY <1>1, <1>2, ServingOps, GoOnLeads
  <1> QED
    BY <1>3, <1>4 DEF ProbeWorkspace, Proceed, GoesOnFrom

\* A step that a dead worker left running is made ready again.
LEMMA RecoverOn ==
  ASSUME IInv, NEW j \in Jobs, NEW r \in Rows, Sane(r), HandedFresh(r, r), NEW k \in StepKeys, r.current = k,
         RecoverInterruptedStep(j, k)
  PROVE  GoesOnFrom(r)
  <1>1. PICK x \in {"retrying", "ready"} :
          Become(Worker, <<WriteStep(k, x), WriteJob("queued", k), Refresh(k, reqs[j])>>)
    BY DEF RecoverInterruptedStep, Proceed
  <1>2. PICK rs \in SUBSET Requirement : rs = reqs[j]
    BY DEF IInv, TypeOK
  <1>3. x \in StepStatus \ {"absent", "completed", "cancelled"} /\ "queued" \in JobStatus \ {"completed"}
    BY DEF StepStatus, JobStatus
  <1> DEFINE R == Stays(r, "queued", x)
             z == Refresh(k, rs)
  <1>4. R.current = k
    BY <1>3, StayRow
  <1> HIDE DEF R
  <1>5. z \in Op /\ Agrees(z, R) /\ Serves(z) /\ z.op # "cancel"
    BY <1>4, RefreshOps
  <1> HIDE DEF z
  <1>6. \A Q : Honest(Notify, Q)
    BY QuietOps
  <1>7. Leads(<<WriteStep(k, x), WriteJob("queued", k), z>>, r, FALSE)
    BY <1>3, <1>5, <1>6, GoOnLeads DEF R
  <1> QED
    BY <1>1, <1>2, <1>7 DEF GoesOnFrom, z

-----------------------------------------------------------------------------
(* The handlers, at an operation that ends their program. *)

\* A job's columns make a row.
LEMMA RowTyped == ASSUME IInv, NEW j \in Jobs PROVE RowOf(j) \in Rows
  BY DEF IInv, TypeOK, RowOf, Rows

\* There the row is sane, and what the operation read before is still in it.
LEMMA AtEnd ==
  ASSUME IInv, RestInv, NEW p \in Procs, NEW j \in Jobs, NEW o, Due(p, j, o),
         o \in {"steps", "settle", "dispatch", "refresh", "agent", "reload", "reread"}
  PROVE  \E r \in Rows : /\ r = RowOf(j) /\ Sane(r) /\ HandedFresh(r, r) /\ Agrees(todo[p][1], r)
                         /\ o \in {"settle", "reread"} => Served(<<>>, r, FALSE)
  <1>1. PICK t \in Seq(Op) : t = todo[p]
    BY DueHead
  <1>2. t # <<>> /\ t[1] \in Op /\ t[1].op = o
    BY <1>1, DueHead
  <1>3. PICK r \in Rows : r = RowOf(j)
    BY RowTyped
  <1>4. Leads(t, r, FALSE)
    BY <1>1, <1>2, <1>3 DEF RestInv, Due
  <1>5. Ends(t[1]) /\ (o \in {"settle", "reread"} => ~Serves(t[1]))
    BY <1>2 DEF Ends, Serves
  <1>6. /\ Agrees(t[1], r) /\ Sane(r) /\ HandedFresh(r, r)
        /\ Serves(t[1]) \/ Served(<<>>, r, FALSE)
    BY <1>2, <1>4, <1>5, EndsThere
  <1> QED
    BY <1>1, <1>3, <1>5, <1>6

\* The worker has read the job and its steps.
LEMMA DispatchOn ==
  ASSUME IInv, RestInv, NEW j \in Jobs, DispatchStep(j)
  PROVE  \E r \in Rows : r = RowOf(j) /\ GoesOnFrom(r)
  <1>1. Due(Worker, j, "dispatch") /\ Worker \in Procs
    BY DEF DispatchStep, Procs
  <1>2. PICK r \in Rows : r = RowOf(j) /\ Sane(r) /\ HandedFresh(r, r) /\ Agrees(todo[Worker][1], r)
    BY <1>1, AtEnd
  <1>3. todo[Worker][1].op = "dispatch"
    BY <1>1, WorkerHead
  <1>4. todo[Worker][1].steps = r.step /\ todo[Worker][1].current = r.current /\ r.step = step[j]
    BY <1>2, <1>3 DEF Agrees, RowOf
  <1>5. PICK k \in StepIds : k = GetCurrentStep(r.step, r.current)
    BY CurrentStepTyped DEF Rows
  <1>6. \/ k = NoStep /\ Proceed(<<>>)
        \/ k = Inspect /\ r.step[k] = "waiting_for_runtime" /\ ProbeWorkspace
        \/ k # NoStep /\ r.step[k] = "running" /\ RecoverInterruptedStep(j, k)
        \/ k # NoStep /\ Execute(j, k, r.step[k], reqs[j])
    BY <1>4, <1>5 DEF DispatchStep
  <1>7. k # NoStep => k \in StepKeys
    BY DEF StepIds
  <1>8. CASE k = NoStep /\ Proceed(<<>>)
    <2>1. Served(<<>>, r, FALSE)
      BY <1>5, <1>8 DEF Served, Executable
    <2> QED
      BY <1>2, <1>8, <2>1, OnlyReads DEF Proceed, GoesOnFrom
  <1>9. CASE k = Inspect /\ r.step[k] = "waiting_for_runtime" /\ ProbeWorkspace
    <2>1. r.current = Inspect
      BY <1>2, <1>5, <1>9, Keys DEF Sane, OutOfPlan, Closed, GetCurrentStep, Inspect, Draft
    <2> QED
      BY <1>2, <1>9, <2>1, ProbeOn
  <1>10. CASE k # NoStep /\ r.step[k] = "running" /\ RecoverInterruptedStep(j, k)
    <2>1. r.current = k
      BY <1>2, <1>7, <1>10 DEF Sane, RunsCurrent
    <2> QED
      BY <1>2, <1>7, <1>10, <2>1, RecoverOn
  <1>11. CASE k # NoStep /\ Execute(j, k, r.step[k], reqs[j])
    BY <1>2, <1>4, <1>5, <1>7, <1>11, ExecuteOn
  <1> QED
    BY <1>6, <1>8, <1>9, <1>10, <1>11

\* The worker has read an interrupted step again.
LEMMA RefreshOn ==
  ASSUME IInv, RestInv, NEW j \in Jobs, RefreshStep(j)
  PROVE  \E r \in Rows : r = RowOf(j) /\ GoesOnFrom(r)
  <1>1. Due(Worker, j, "refresh") /\ Worker \in Procs
    BY DEF RefreshStep, Procs
  <1>2. PICK r \in Rows : r = RowOf(j) /\ Sane(r) /\ HandedFresh(r, r) /\ Agrees(todo[Worker][1], r)
    BY <1>1, AtEnd
  <1>3. todo[Worker][1].op = "refresh" /\ todo[Worker][1] \in Op
    BY <1>1, WorkerHead
  <1>4. todo[Worker][1].key = r.current /\ r.current \in StepKeys /\ r.step = step[j]
    BY <1>2, <1>3, OpFields DEF Agrees, RowOf
  <1>5. r.current = GetCurrentStep(r.step, r.current)
    BY <1>4, Keys DEF GetCurrentStep
  <1>6. Execute(j, r.current, r.step[r.current], todo[Worker][1].reqs)
    BY <1>4 DEF RefreshStep
  <1>7. PICK rs : rs = todo[Worker][1].reqs
    OBVIOUS
  <1>8. PICK k \in StepKeys : k = r.current
    BY <1>4
  <1>9. Execute(j, k, r.step[k], rs) /\ k = GetCurrentStep(r.step, r.current)
    BY <1>5, <1>6, <1>7, <1>8
  <1> QED
    BY <1>2, <1>4, <1>9, ExecuteOn

\* The worker reads the steps of a job, or makes its plan.
LEMMA LoadOn ==
  ASSUME IInv, RestInv, NEW j \in Jobs, LoadSteps(j) \/ ReloadJob(j)
  PROVE  \E r \in Rows : r = RowOf(j) /\ GoesOnFrom(r)
  <1>1. CASE LoadSteps(j)
    <2>1. Due(Worker, j, "steps") /\ Worker \in Procs
      BY <1>1 DEF LoadSteps, Procs
    <2>2. PICK r \in Rows : r = RowOf(j) /\ Sane(r) /\ HandedFresh(r, r) /\ Agrees(todo[Worker][1], r)
      BY <2>1, AtEnd
    <2>3. todo[Worker][1].op = "steps"
      BY <2>1, WorkerHead
    <2>4. todo[Worker][1].current = r.current /\ r.step = step[j]
      BY <2>2, <2>3 DEF Agrees, RowOf
    <2>5. \/ Proceed(<<Dispatch(r.current, r.step)>>)
          \/ /\ \A k \in StepKeys : r.step[k] = "absent"
             /\ \E ready \in BOOLEAN : Proceed(Plan(ready))
      BY <1>1, <2>4 DEF LoadSteps, Present
    <2> QED
      BY <2>2, <2>5, OnlyReads, PlanLeads DEF Proceed, GoesOnFrom
  <1>2. CASE ReloadJob(j)
    <2>1. Due(Worker, j, "reload") /\ Worker \in Procs
      BY <1>2 DEF ReloadJob, Procs
    <2>2. PICK r \in Rows : r = RowOf(j) /\ Sane(r) /\ HandedFresh(r, r)
      BY <2>1, AtEnd
    <2>3. Proceed(<<ReadSteps(r.current)>>)
      BY <1>2, <2>2 DEF ReloadJob, RowOf
    <2> QED
      BY <2>2, <2>3, OnlyReads DEF Proceed, GoesOnFrom
  <1> QED
    BY <1>1, <1>2

\* An agent pass over the workspace.
LEMMA ImplementationOn ==
  ASSUME IInv, RestInv, NEW j \in Jobs, ImplementationPass(j), UNCHANGED <<status, current, step>>
  PROVE  \E r \in Rows : r = RowOf(j)' /\ GoesOnFrom(r)
  <1>1. Due(Worker, j, "agent") /\ Worker \in Procs /\ todo[Worker][1].key = Implement
    BY DEF ImplementationPass, Procs
  <1>2. PICK q \in Rows : q = RowOf(j) /\ Sane(q) /\ HandedFresh(q, q) /\ Agrees(todo[Worker][1], q)
    BY <1>1, AtEnd
  <1>3. todo[Worker][1].op = "agent"
    BY <1>1, WorkerHead
  <1>4. q.current = Implement /\ q.status \in {"running", "retrying"} /\ q.step = step[j]
    BY <1>1, <1>2, <1>3 DEF Agrees, RowOf
  <1>5. evidence'[j] \in {"none", "passed", "stale"}
    BY DEF ImplementationPass, IInv, TypeOK
  <1>6. PICK r \in Rows : r = RowOf(j)'
    BY <1>2, <1>5 DEF Rows, RowOf
  <1>7. r.status = q.status /\ r.current = q.current /\ r.step = q.step
    BY <1>2, <1>6 DEF RowOf
  <1>8. Sane(r) /\ HandedFresh(r, r)
    BY <1>2, <1>4, <1>7
    DEF Sane, RunsCurrent, InPlan, OutOfPlan, Whole, Verified, HandedFresh, Implement, Finalize
  <1>9. Implement \in StepKeys
    BY Keys
  <1>10. CASE ImplementationAsks(j)
    <2>1. PICK n \in 1..MaxApprovals :
            Proceed(<<Clear(Implement, ReqKinds), Require(Implement, "approval", n),
                      WriteStep(Implement, "waiting_for_approval"),
                      WriteJob("waiting_for_approval", Implement), Notify>>)
      BY <1>10 DEF ImplementationAsks
    <2>2. \A R : Honest(Clear(Implement, ReqKinds), R) /\ Honest(Require(Implement, "approval", n), R)
      BY <1>9, QuietOps, NatAssumption DEF ReqKinds
    <2>3. /\ "waiting_for_approval" \in JobStatus \ {"completed"} /\ "waiting_for_approval" \notin Active
          /\ "waiting_for_approval" \in StepStatus \ {"absent", "completed", "cancelled"}
      BY DEF JobStatus, StepStatus, Active
    <2>4. Leads(<<Clear(Implement, ReqKinds), Require(Implement, "approval", n),
                  WriteStep(Implement, "waiting_for_approval"),
                  WriteJob("waiting_for_approval", Implement), Notify>>, r, FALSE)
      BY <1>4, <1>7, <1>8, <1>9, <2>2, <2>3, WaitLeads
    <2> QED
      BY <1>6, <2>1, <2>4 DEF Proceed, GoesOnFrom
  <1>11. CASE Implemented(j)
    <2>1. Present(j, Verify)
      BY <1>2, <1>4, Keys DEF Present, Sane, InPlan
    <2>2. Leads(<<Clear(Implement, ReqKinds), WriteStep(Verify, "ready"), WriteStep(Implement, "completed"),
                  WriteJob("running", Verify), Enqueue>>, r, FALSE)
      BY <1>4, <1>7, <1>8, ImplementedLeads
    <2> QED
      BY <1>6, <1>11, <2>1, <2>2 DEF Implemented, Proceed, GoesOnFrom
  <1>12. CASE Fail
    BY <1>6, <1>8, <1>12, FailOn
  <1> QED
    BY <1>10, <1>11, <1>12 DEF ImplementationPass

\* A verification pass.
LEMMA VerificationOn ==
  ASSUME IInv, RestInv, NEW j \in Jobs, VerificationPass(j)
  PROVE  \E r \in Rows : r = RowOf(j) /\ GoesOnFrom(r)
  <1>1. Due(Worker, j, "agent") /\ Worker \in Procs /\ todo[Worker][1].key = Verify
    BY DEF VerificationPass, Procs
  <1>2. PICK r \in Rows : r = RowOf(j) /\ Sane(r) /\ HandedFresh(r, r) /\ Agrees(todo[Worker][1], r)
    BY <1>1, AtEnd
  <1>3. todo[Worker][1].op = "agent"
    BY <1>1, WorkerHead
  <1>4. r.current = Verify /\ r.step = step[j]
    BY <1>1, <1>2, <1>3 DEF Agrees, RowOf
  <1>5. PICK n \in Nat : n = attempts[j] + 1
    BY DEF IInv, TypeOK
  <1>6. Verify \in StepKeys
    BY Keys
  <1>7. \A R : \A port \in BOOLEAN : Honest(Clear(Verify, ReqKinds), R) /\ Honest(FailedPort(port), R)
    BY <1>6, QuietOps DEF FailedPort, ReqKinds, DetectedKinds
  <1>8. CASE VerificationPasses(j)
    <2>1. Present(j, Finalize)
      BY <1>2, <1>4, Keys DEF Present, Sane, InPlan
    <2>2. Leads(<<Clear(Verify, ReqKinds), WriteVerify("completed", n), WriteStep(Finalize, "ready"),
                  WriteJob("running", Finalize), Enqueue>>, r, FALSE)
      BY <1>2, <1>4, PassedLeads
    <2> QED
      BY <1>2, <1>5, <1>8, <2>1, <2>2 DEF VerificationPasses, Proceed, GoesOnFrom
  <1>9. ASSUME NEW port \in BOOLEAN, VerificationAsks(j, port) PROVE GoesOnFrom(r)
    <2>1. PICK m \in 1..MaxApprovals :
            Proceed(<<Clear(Verify, ReqKinds), FailedPort(port), Require(Verify, "approval", m),
                      WriteVerify("waiting_for_approval", n), WriteJob("waiting_for_approval", Verify), Notify>>)
      BY <1>5, <1>9 DEF VerificationAsks
    <2>2. \A R : Honest(Require(Verify, "approval", m), R)
      BY <1>6, QuietOps, NatAssumption DEF ReqKinds
    <2>3. /\ "waiting_for_approval" \in JobStatus \ {"completed"} /\ "waiting_for_approval" \notin Active
          /\ "waiting_for_approval" \in StepStatus \ {"absent", "completed", "cancelled"}
      BY DEF JobStatus, StepStatus, Active
    <2>4. Leads(<<Clear(Verify, ReqKinds), FailedPort(port), Require(Verify, "approval", m),
                  WriteVerify("waiting_for_approval", n), WriteJob("waiting_for_approval", Verify), Notify>>,
                r, FALSE)
      BY <1>2, <1>4, <1>7, <2>2, <2>3, VerdictLeads
    <2> QED
      BY <2>1, <2>4 DEF Proceed, GoesOnFrom
  <1>10. ASSUME NEW port \in BOOLEAN, VerificationFails(j, port) PROVE GoesOnFrom(r)
    <2>1. /\ "blocked" \in JobStatus \ {"completed"} /\ "blocked" \notin Active
          /\ "failed" \in StepStatus \ {"absent", "completed", "cancelled"}
      BY DEF JobStatus, StepStatus, Active
    <2>2. Leads(<<Clear(Verify, ReqKinds), FailedPort(port), WriteVerify("retrying", n),
                  WriteStep(Implement, "ready"), WriteJob("retrying", Implement), Enqueue>>, r, FALSE)
      BY <1>2, <1>4, <1>7, RepairLeads
    <2>3. Leads(<<Clear(Verify, ReqKinds), FailedPort(port), WriteVerify("failed", n),
                  WriteJob("blocked", Verify), Notify>>, r, FALSE)
      BY <1>2, <1>4, <1>7, <2>1, VerdictLeads
    <2> QED
      BY <1>5, <1>10, <2>2, <2>3 DEF VerificationFails, Proceed, GoesOnFrom
  <1>11. CASE Fail
    BY <1>2, <1>11, FailOn
  <1> QED
    BY <1>2, <1>8, <1>9, <1>10, <1>11 DEF VerificationPass

-----------------------------------------------------------------------------
(* One step of one process. *)

\* A delivery that waits takes nothing away.
LEMMA WaitingHelps ==
  ASSUME NEW t, NEW r, NEW waits \in BOOLEAN, NEW still \in BOOLEAN, waits => still, Leads(t, r, waits)
  PROVE  Leads(t, r, still)
  BY DEF Leads, Served

\* The others are as they were, and the process still leads its job to a sane row.
LEMMA GoesOn ==
  ASSUME IInv, RestInv, NEW p \in Procs, NEW j \in Jobs, on[p] = j, on' = on,
         NEW prog, Become(p, prog), \A i \in Jobs \ {j} : RowOf(i)' = RowOf(i),
         \A i \in Jobs : Waits(i) => Waits(i)', Leads(prog, RowOf(j)', prog = <<>> /\ Waits(j)')
  PROVE  RestInv'
  <1>1. todo' = [todo EXCEPT ![p] = prog] /\ todo'[p] = prog /\ \A q \in Procs \ {p} : todo'[q] = todo[q]
    BY DEF Become, IInv, TypeOK
  <1>2. OneEach'
    BY DEF RestInv, OneEach
  <1>3. ASSUME NEW i \in Jobs, \A q \in Procs : on'[q] # i PROVE Leads(<<>>, RowOf(i)', Waits(i)')
    <2>1. i # j /\ Leads(<<>>, RowOf(i), Waits(i)) /\ RowOf(i)' = RowOf(i)
      BY <1>3 DEF RestInv
    <2>2. Waits(i) \in BOOLEAN /\ Waits(i)' \in BOOLEAN /\ (Waits(i) => Waits(i)')
      BY DEF Waits
    <2> QED
      BY <2>1, <2>2, WaitingHelps
  <1>4. ASSUME NEW q \in Procs, NEW i \in Jobs, on'[q] = i
        PROVE  Leads(todo'[q], RowOf(i)', todo'[q] = <<>> /\ Waits(i)')
    <2>1. CASE q = p
      BY <1>1, <1>4, <2>1
    <2>2. CASE q # p
      <3>1. i # j /\ on[q] = i /\ todo'[q] = todo[q] /\ RowOf(i)' = RowOf(i)
        BY <1>1, <1>4, <2>2, NoJobAssumption DEF RestInv, OneEach
      <3>2. Leads(todo[q], RowOf(i), todo[q] = <<>> /\ Waits(i))
        BY <3>1 DEF RestInv
      <3>3. /\ (todo[q] = <<>> /\ Waits(i)) \in BOOLEAN /\ (todo[q] = <<>> /\ Waits(i)') \in BOOLEAN
            /\ (todo[q] = <<>> /\ Waits(i)) => (todo[q] = <<>> /\ Waits(i)')
        BY DEF Waits
      <3> QED
        BY <3>1, <3>2, <3>3, WaitingHelps
    <2> QED
      BY <2>1, <2>2
  <1> QED
    BY <1>2, <1>3, <1>4 DEF RestInv

\* A process starts to work on a job that nobody works on.
LEMMA Starts ==
  ASSUME IInv, RestInv, NEW p \in Procs, NEW j \in Jobs, NEW prog, Start(p, j, prog),
         \A q \in Procs : on[q] # j, \A i \in Jobs \ {j} : RowOf(i)' = RowOf(i),
         \A i \in Jobs \ {j} : Waits(i) => Waits(i)', Leads(prog, RowOf(j)', FALSE)
  PROVE  RestInv'
  <1>1. /\ todo'[p] = prog /\ \A q \in Procs \ {p} : todo'[q] = todo[q]
        /\ on'[p] = j /\ \A q \in Procs \ {p} : on'[q] = on[q]
    BY DEF Start, Become, IInv, TypeOK
  <1>2. OneEach'
    BY <1>1 DEF RestInv, OneEach
  <1>3. ASSUME NEW i \in Jobs, \A q \in Procs : on'[q] # i PROVE Leads(<<>>, RowOf(i)', Waits(i)')
    <2>1. i # j
      BY <1>1, <1>3
    <2>2. \A q \in Procs : on[q] # i
      BY <1>1, <1>3, <2>1, NoJobAssumption DEF Start
    <2>3. Leads(<<>>, RowOf(i), Waits(i)) /\ RowOf(i)' = RowOf(i)
      BY <2>1, <2>2 DEF RestInv
    <2>4. Waits(i) \in BOOLEAN /\ Waits(i)' \in BOOLEAN /\ (Waits(i) => Waits(i)')
      BY <2>1 DEF Waits
    <2> QED
      BY <2>3, <2>4, WaitingHelps
  <1>4. ASSUME NEW q \in Procs, NEW i \in Jobs, on'[q] = i
        PROVE  Leads(todo'[q], RowOf(i)', todo'[q] = <<>> /\ Waits(i)')
    <2>1. CASE q = p
      <3>1. i = j /\ todo'[q] = prog
        BY <1>1, <1>4, <2>1
      <3>2. FALSE \in BOOLEAN /\ (prog = <<>> /\ Waits(j)') \in BOOLEAN
        BY DEF Waits
      <3> QED
        BY <3>1, <3>2, WaitingHelps
    <2>2. CASE q # p
      <3>1. on[q] = i /\ todo'[q] = todo[q]
        BY <1>1, <1>4, <2>2
      <3>2. i # j /\ RowOf(i)' = RowOf(i)
        BY <3>1
      <3>3. Leads(todo[q], RowOf(i), todo[q] = <<>> /\ Waits(i))
        BY <3>1 DEF RestInv
      <3>4. /\ (todo[q] = <<>> /\ Waits(i)) \in BOOLEAN /\ (todo[q] = <<>> /\ Waits(i)') \in BOOLEAN
            /\ (todo[q] = <<>> /\ Waits(i)) => (todo[q] = <<>> /\ Waits(i)')
        BY <3>2 DEF Waits
      <3> QED
        BY <3>1, <3>2, <3>3, <3>4, WaitingHelps
    <2> QED
      BY <2>1, <2>2
  <1> QED
    BY <1>2, <1>3, <1>4 DEF RestInv

\* A handler that returns leaves a sane row.
LEMMA ReturnRests == ASSUME IInv, RestInv, NEW p \in Procs, NEW j \in Jobs, Return(p, j) PROVE RestInv'
  <1>1. /\ on[p] = j /\ todo[p] = <<>> /\ todo' = todo
        /\ on'[p] = NoJob /\ \A q \in Procs \ {p} : on'[q] = on[q]
    BY DEF Return, IInv, TypeOK
  <1>2. \A i \in Jobs : RowOf(i)' = RowOf(i) /\ Waits(i)' = Waits(i)
    BY DEF Return, RowOf, Waits, db, history
  <1>3. OneEach'
    BY <1>1 DEF RestInv, OneEach
  <1>4. ASSUME NEW i \in Jobs, \A q \in Procs : on'[q] # i PROVE Leads(<<>>, RowOf(i), Waits(i))
    <2>1. CASE i = j
      <3>1. Leads(<<>>, RowOf(j), <<>> = <<>> /\ Waits(j))
        BY <1>1 DEF RestInv
      <3>2. (<<>> = <<>> /\ Waits(j)) = Waits(j)
        BY DEF Waits
      <3> QED
        BY <2>1, <3>1, <3>2
    <2>2. CASE i # j
      <3>1. \A q \in Procs : on[q] # i
        BY <1>1, <1>4, <2>2
      <3> QED
        BY <3>1 DEF RestInv
    <2> QED
      BY <2>1, <2>2
  <1>5. ASSUME NEW q \in Procs, NEW i \in Jobs, on'[q] = i
        PROVE  Leads(todo[q], RowOf(i), todo[q] = <<>> /\ Waits(i))
    <2>1. on[q] = i
      BY <1>1, <1>5, NoJobAssumption
    <2> QED
      BY <2>1 DEF RestInv
  <1> QED
    BY <1>1, <1>2, <1>3, <1>4, <1>5 DEF RestInv

\* An operation is done: the row is the one after it.
LEMMA DoneRests ==
  ASSUME IInv, RestInv, NEW p \in Procs, NEW j \in Jobs, NEW o, Due(p, j, o), o # "job", Advance(p), on' = on,
         RowOf(j)' = After(todo[p][1], RowOf(j)), \A i \in Jobs \ {j} : RowOf(i)' = RowOf(i),
         \A i \in Jobs : Waits(i) => Waits(i)', o \in {"enqueue", "submit"} => Waits(j)',
         o \notin {"steps", "dispatch", "refresh", "agent", "reload"}
  PROVE  RestInv'
  <1>1. PICK t \in Seq(Op) : t = todo[p]
    BY DueHead
  <1>2. t # <<>> /\ t[1] \in Op /\ t[1].op = o
    BY <1>1, DueHead
  <1>3. PICK r \in Rows : r = RowOf(j)
    BY RowTyped
  <1>4. PICK still \in BOOLEAN : still = (Tail(t) = <<>> /\ Waits(j)')
    BY DEF Waits
  <1>5. Leads(t, r, FALSE)
    BY <1>1, <1>2, <1>3 DEF RestInv, Due
  <1>6. Serves(t[1]) => still
    <2>1. Serves(t[1]) => o \in {"enqueue", "submit"} /\ Ends(t[1])
      BY <1>2 DEF Serves, Ends
    <2>2. Ends(t[1]) => Tail(t) = <<>>
      BY <1>2, <1>5, EndsThere
    <2> QED
      BY <1>4, <2>1, <2>2
  <1>7. Leads(Tail(t), After(t[1], r), still)
    BY <1>2, <1>5, <1>6, DoneLeads
  <1>8. Leads(Tail(t), RowOf(j)', Tail(t) = <<>> /\ Waits(j)')
    BY <1>1, <1>3, <1>4, <1>7
  <1>9. on[p] = j /\ Become(p, Tail(t))
    BY <1>1 DEF Due, Advance, Become, IInv, TypeOK
  <1> QED
    BY <1>8, <1>9, GoesOn

\* The writes of one column, or of none.
LEMMA ColumnRests ==
  ASSUME IInv, RestInv, NEW p \in Procs, NEW j \in Jobs,
         \/ DoStatus(p, j) \/ DoBegin(p, j) \/ DoCurrent(p, j)
         \/ DoClear(p, j) \/ DoSatisfy(p, j) \/ DoResolve(p, j) \/ DoNotify(p, j)
  PROVE  RestInv'
  <1>1. PICK o \in {"status", "begin", "current", "clear", "satisfy", "resolve", "notify"} : Due(p, j, o)
    BY DEF DoStatus, DoBegin, DoCurrent, DoClear, DoSatisfy, DoResolve, DoNotify
  <1>2. todo[p][1].op = o
    BY <1>1, DueHead
  <1>3. Advance(p) /\ on' = on /\ queue' = queue /\ step' = step /\ evidence' = evidence
    BY DEF DoStatus, DoBegin, DoCurrent, DoClear, DoSatisfy, DoResolve, DoNotify, procs, db, history
  <1>4. /\ status' = [status EXCEPT ![j] = IF o \in {"status", "begin"} THEN todo[p][1].to ELSE @]
        /\ current' = [current EXCEPT ![j] = IF o = "current" THEN todo[p][1].current ELSE @]
    BY <1>2 DEF DoStatus, DoBegin, DoCurrent, DoClear, DoSatisfy, DoResolve, DoNotify, Due, db, IInv, TypeOK
  <1>5. \A i \in Jobs \ {j} : RowOf(i)' = RowOf(i)
    BY <1>3, <1>4 DEF RowOf, IInv, TypeOK
  <1>6. step[j] = [k \in StepKeys |-> IF Sets(k, todo[p][1]) THEN todo[p][1].to ELSE step[j][k]]
    BY <1>2 DEF Sets, IInv, TypeOK
  <1>7. RowOf(j)' = After(todo[p][1], RowOf(j))
    BY <1>2, <1>3, <1>4, <1>6 DEF RowOf, After, SetsStatus, Passes, IInv, TypeOK
  <1>8. \A i \in Jobs : Waits(i)' = Waits(i)
    BY <1>3 DEF Waits
  <1> QED
    BY <1>1, <1>3, <1>5, <1>7, <1>8, DoneRests

\* The writes of steps.
LEMMA StepRests ==
  ASSUME IInv, RestInv, NEW p \in Procs, NEW j \in Jobs,
         DoStep(p, j) \/ DoVerify(p, j) \/ DoCancelSteps(p, j)
  PROVE  RestInv'
  <1>1. PICK o \in {"step", "verify", "cancel"} : Due(p, j, o)
    BY DEF DoStep, DoVerify, DoCancelSteps
  <1>2. todo[p][1].op = o /\ todo[p][1] \in Op
    BY <1>1, DueHead
  <1>3. /\ Advance(p) /\ on' = on /\ queue' = queue /\ status' = status /\ current' = current
    BY DEF DoStep, DoVerify, DoCancelSteps, procs, history
  <1>4. /\ evidence'[j] = IF Passes(todo[p][1]) THEN "passed" ELSE evidence[j]
        /\ \A i \in Jobs \ {j} : evidence'[i] = evidence[i]
    BY <1>2 DEF DoStep, DoVerify, DoCancelSteps, Due, Passes, history, IInv, TypeOK
  <1>5. /\ step'[j] = IF o = "cancel" THEN Cancelled(step[j])
                      ELSE [k \in StepKeys |-> IF Sets(k, todo[p][1]) THEN todo[p][1].to ELSE step[j][k]]
        /\ \A i \in Jobs \ {j} : step'[i] = step[i]
    <2>1. CASE DoStep(p, j)
      <3>1. o = "step" /\ todo[p][1].key \in StepKeys
        BY <1>2, <2>1, OpFields DEF DoStep, Due
      <3> QED
        BY <1>2, <2>1, <3>1 DEF DoStep, Sets, IInv, TypeOK
    <2>2. CASE DoVerify(p, j)
      <3>1. o = "verify" /\ Verify \in StepKeys
        BY <1>2, <2>2, Keys DEF DoVerify, Due
      <3> QED
        BY <1>2, <2>2, <3>1 DEF DoVerify, Sets, IInv, TypeOK
    <2>3. CASE DoCancelSteps(p, j)
      BY <1>2, <2>3 DEF DoCancelSteps, Due, Cancelled, IInv, TypeOK
    <2> QED
      BY <2>1, <2>2, <2>3
  <1>6. \A i \in Jobs \ {j} : RowOf(i)' = RowOf(i)
    BY <1>3, <1>4, <1>5 DEF RowOf
  <1>7. RowOf(j)' = After(todo[p][1], RowOf(j))
    BY <1>2, <1>3, <1>4, <1>5 DEF RowOf, After, SetsStatus
  <1>8. \A i \in Jobs : Waits(i)' = Waits(i)
    BY <1>3 DEF Waits
  <1> QED
    BY <1>1, <1>3, <1>6, <1>7, <1>8, DoneRests

\* What waits goes on to wait behind an appended delivery, which waits as well.
LEMMA AppendWaits ==
  ASSUME IInv, NEW j \in Jobs, queue' = Append(queue, [job |-> j, stalls |-> 0])
  PROVE  Waits(j)' /\ \A i \in Jobs : Waits(i) => Waits(i)'
  <1>1. /\ queue' \in Seq([job : Jobs, stalls : {0, 1}]) /\ Len(queue) \in Nat
        /\ Len(queue') = Len(queue) + 1 /\ queue'[Len(queue) + 1].job = j
        /\ \A i \in DOMAIN queue : i \in DOMAIN queue' /\ queue'[i] = queue[i]
    BY DEF IInv, TypeOK
  <1> QED
    BY <1>1 DEF Waits

\* An enqueue.
LEMMA EnqueueRests ==
  ASSUME IInv, RestInv, NEW p \in Procs, NEW j \in Jobs, DoEnqueue(p, j) PROVE RestInv'
  <1>1. PICK o \in {"enqueue", "submit"} : Due(p, j, o)
    BY DEF DoEnqueue
  <1>2. todo[p][1].op = o
    BY <1>1, DueHead
  <1>3. Advance(p) /\ on' = on /\ \A i \in Jobs : RowOf(i)' = RowOf(i)
    BY DEF DoEnqueue, RowOf, db, procs, history
  <1>4. step[j] = [k \in StepKeys |-> IF Sets(k, todo[p][1]) THEN todo[p][1].to ELSE step[j][k]]
    BY <1>2 DEF Sets, IInv, TypeOK
  <1>5. RowOf(j) = After(todo[p][1], RowOf(j))
    BY <1>2, <1>4 DEF RowOf, After, SetsStatus, Passes
  <1>6. Waits(j)' /\ \A i \in Jobs : Waits(i) => Waits(i)'
    BY AppendWaits DEF DoEnqueue
  <1> QED
    BY <1>1, <1>3, <1>5, <1>6, DoneRests

\* The job's status, with what is current still to be written.
LEMMA JobRests == ASSUME IInv, RestInv, NEW p \in Procs, NEW j \in Jobs, DoJob(p, j) PROVE RestInv'
  <1>1. Due(p, j, "job")
    BY DEF DoJob
  <1>2. PICK t \in Seq(Op) : t = todo[p]
    BY <1>1, DueHead
  <1>3. t # <<>> /\ t[1].op = "job"
    BY <1>1, <1>2, DueHead
  <1>4. PICK r \in Rows : r = RowOf(j)
    BY RowTyped
  <1>5. Leads(t, r, FALSE)
    BY <1>1, <1>2, <1>3, <1>4 DEF RestInv, Due
  <1> DEFINE prog == <<WriteCurrent(t[1].current)>> \o Tail(t)
  <1>6. Leads(prog, [r EXCEPT !.status = t[1].to], FALSE)
    BY <1>3, <1>5, JobLeads
  <1>7. /\ Become(p, prog) /\ on' = on /\ queue' = queue /\ on[p] = j
        /\ status' = [status EXCEPT ![j] = t[1].to] /\ UNCHANGED <<current, step, evidence>>
    BY <1>1, <1>2 DEF DoJob, Due, procs, history
  <1>8. RowOf(j)' = [r EXCEPT !.status = t[1].to] /\ \A i \in Jobs \ {j} : RowOf(i)' = RowOf(i)
    <2>1. [RowOf(j) EXCEPT !.status = t[1].to]
            = [status |-> t[1].to, current |-> current[j], step |-> step[j], evidence |-> evidence[j]]
      BY DEF RowOf
    <2>2. status'[j] = t[1].to /\ \A i \in Jobs \ {j} : status'[i] = status[i]
      BY <1>7 DEF IInv, TypeOK
    <2>3. RowOf(j)' = [RowOf(j) EXCEPT !.status = t[1].to]
      BY <1>7, <2>1, <2>2 DEF RowOf
    <2>4. \A i \in Jobs \ {j} : RowOf(i)' = RowOf(i)
      BY <1>7, <2>2 DEF RowOf
    <2> QED
      BY <1>4, <2>3, <2>4
  <1>9. \A i \in Jobs : Waits(i)' = Waits(i)
    BY <1>7 DEF Waits
  <1> HIDE DEF prog
  <1>10. PICK still \in BOOLEAN : still = (prog = <<>> /\ Waits(j)')
    BY DEF Waits
  <1>11. Leads(prog, RowOf(j)', prog = <<>> /\ Waits(j)')
    BY <1>6, <1>8, <1>10, WaitingHelps
  <1> QED
    BY <1>7, <1>8, <1>9, <1>11, GoesOn

\* A requirement, with the others still to be inserted.
LEMMA RequireRests == ASSUME IInv, RestInv, NEW p \in Procs, NEW j \in Jobs, DoRequire(p, j) PROVE RestInv'
  <1>1. Due(p, j, "require") /\ on' = on /\ queue' = queue /\ on[p] = j
        /\ UNCHANGED <<status, current, step, evidence>>
    BY DEF DoRequire, Due, procs, history
  <1>2. (\A i \in Jobs : RowOf(i)' = RowOf(i)) /\ \A i \in Jobs : Waits(i)' = Waits(i)
    BY <1>1 DEF RowOf, Waits
  <1>3. todo[p][1].op = "require" /\ todo[p][1] \in Op
    BY <1>1, DueHead
  <1>4. CASE Advance(p)
    <2>1. step[j] = [k \in StepKeys |-> IF Sets(k, todo[p][1]) THEN todo[p][1].to ELSE step[j][k]]
      BY <1>3 DEF Sets, IInv, TypeOK
    <2>2. RowOf(j) = After(todo[p][1], RowOf(j))
      BY <1>3, <2>1 DEF RowOf, After, SetsStatus, Passes
    <2> QED
      BY <1>1, <1>2, <1>4, <2>2, DoneRests
  <1>5. CASE /\ todo[p][1].count > 0
             /\ Become(p, <<Require(todo[p][1].key, todo[p][1].kind, todo[p][1].count - 1)>> \o Tail(todo[p]))
    <2>1. PICK t \in Seq(Op) : t = todo[p]
      BY <1>1, DueHead
    <2>2. t # <<>>
      BY <1>1, <2>1, DueHead
    <2>3. PICK r \in Rows : r = RowOf(j)
      BY RowTyped
    <2>4. Leads(t, r, FALSE)
      BY <1>1, <2>1, <2>2, <2>3 DEF RestInv
    <2> DEFINE o == Require(t[1].key, t[1].kind, t[1].count - 1)
    <2>5. o \in Op /\ o.op = "require"
      <3>1. t[1].key \in StepKeys /\ t[1].kind \in ReqKinds /\ t[1].count - 1 \in Nat
        BY <1>3, <1>5, <2>1, OpFields
      <3> QED
        BY <3>1, PlainRequire, PlainProgram DEF Require
    <2> HIDE DEF o
    <2> DEFINE prog == <<o>> \o Tail(t)
    <2>6. Leads(prog, r, FALSE)
      BY <1>3, <2>1, <2>2, <2>4, <2>5, RequireLeads
    <2>7. Become(p, prog)
      BY <1>5, <2>1 DEF o
    <2> HIDE DEF prog
    <2>8. PICK still \in BOOLEAN : still = (prog = <<>> /\ Waits(j)')
      BY DEF Waits
    <2>9. Leads(prog, RowOf(j)', prog = <<>> /\ Waits(j)')
      BY <1>2, <2>3, <2>6, <2>8, WaitingHelps
    <2> QED
      BY <1>1, <1>2, <2>7, <2>9, GoesOn
  <1> QED
    BY <1>4, <1>5 DEF DoRequire

\* Any write.
LEMMA WriteRests == ASSUME IInv, RestInv, NEW p \in Procs, NEW j \in Jobs, Write(p, j) PROVE RestInv'
  BY ColumnRests, StepRests, EnqueueRests, JobRests, RequireRests, ReturnRests DEF Write

\* The worker goes on with its job.
LEMMA ProcessRests == ASSUME IInv, RestInv, NEW p \in Procs, NEW j \in Jobs, Process(p, j) PROVE RestInv'
  <1>1. /\ p = Worker /\ UNCHANGED <<db, queue, on>>
        /\ \/ (LoadSteps(j) \/ ReloadJob(j) \/ DispatchStep(j) \/ RefreshStep(j)) /\ UNCHANGED history
           \/ ImplementationPass(j)
           \/ VerificationPass(j)
    BY DEF Process
  <1>2. on[p] = j
    BY <1>1 DEF LoadSteps, ReloadJob, DispatchStep, RefreshStep, ImplementationPass, VerificationPass, Due
  <1>3. /\ \A i \in Jobs : Waits(i)' = Waits(i)
        /\ UNCHANGED <<status, current, step>> /\ \A i \in Jobs \ {j} : evidence'[i] = evidence[i]
        /\ ~ImplementationPass(j) => evidence' = evidence
    BY <1>1 DEF Waits, db, history, ImplementationPass, VerificationPass, IInv, TypeOK
  <1>4. \A i \in Jobs \ {j} : RowOf(i)' = RowOf(i)
    BY <1>3 DEF RowOf
  <1>5. \E r \in Rows : r = RowOf(j)' /\ GoesOnFrom(r)
    <2>1. CASE ImplementationPass(j)
      BY <1>3, <2>1, ImplementationOn
    <2>2. CASE ~ImplementationPass(j)
      <3>1. RowOf(j)' = RowOf(j)
        BY <1>3, <2>2 DEF RowOf
      <3> QED
        BY <1>1, <2>2, <3>1, LoadOn, DispatchOn, RefreshOn, VerificationOn
    <2> QED
      BY <2>1, <2>2
  <1>6. PICK prog : Become(p, prog) /\ Leads(prog, RowOf(j)', FALSE)
    BY <1>1, <1>5 DEF GoesOnFrom
  <1>7. PICK still \in BOOLEAN : still = (prog = <<>> /\ Waits(j)')
    BY DEF Waits
  <1>8. PICK r : r = RowOf(j)'
    OBVIOUS
  <1>9. Leads(prog, r, still)
    BY <1>6, <1>8, WaitingHelps
  <1>10. Leads(prog, RowOf(j)', prog = <<>> /\ Waits(j)')
    BY <1>7, <1>8, <1>9
  <1> QED
    BY <1>1, <1>2, <1>3, <1>4, <1>6, <1>10, GoesOn

\* A job that nobody works on is as a handler left it.
LEMMA LeftThere ==
  ASSUME NEW r \in Rows, NEW waits \in BOOLEAN, Leads(<<>>, r, waits)
  PROVE  Sane(r) /\ HandedFresh(r, r) /\ Served(<<>>, r, waits)
  <1>1. PICK R \in Rows : /\ Heads(<<>>, r, R) /\ Sane(R) /\ OneRuns(r, R) /\ HandedFresh(r, R)
                          /\ Served(<<>>, R, waits)
    BY DEF Leads
  <1>2. r.status = R.status /\ r.current = R.current /\ r.evidence = R.evidence
        /\ \A k \in StepKeys : r.step[k] = R.step[k]
    BY <1>1 DEF Heads, Cancels
  <1>3. r = R
    BY <1>2 DEF Rows
  <1> QED
    BY <1>1, <1>3

\* So what it will do next can be read in its row.
LEMMA NobodyThere ==
  ASSUME IInv, RestInv, NEW j \in Jobs, \A q \in Procs : on[q] # j
  PROVE  \E r \in Rows : /\ r = RowOf(j) /\ Sane(r) /\ HandedFresh(r, r)
                         /\ Served(<<>>, r, Waits(j)) /\ Leads(<<>>, r, Waits(j))
  <1>1. PICK r \in Rows : r = RowOf(j)
    BY RowTyped
  <1>2. PICK waits \in BOOLEAN : waits = Waits(j)
    BY DEF Waits
  <1>3. Leads(<<>>, r, waits)
    BY <1>1, <1>2 DEF RestInv
  <1> QED
    BY <1>1, <1>2, <1>3, LeftThere

\* A decision reads its job again and settles it.
LEMMA DecisionRests ==
  ASSUME IInv, RestInv, NEW p \in Procs, NEW j \in Jobs, ReReadJob(p, j) \/ SettleDecision(p, j)
  PROVE  RestInv'
  <1>1. PICK o \in {"reread", "settle"} : Due(p, j, o)
    BY DEF ReReadJob, SettleDecision
  <1>2. PICK r \in Rows : /\ r = RowOf(j) /\ Sane(r) /\ HandedFresh(r, r) /\ Agrees(todo[p][1], r)
                          /\ Served(<<>>, r, FALSE)
    BY <1>1, AtEnd
  <1>3. on[p] = j /\ on' = on /\ (\A i \in Jobs : RowOf(i)' = RowOf(i)) /\ \A i \in Jobs : Waits(i)' = Waits(i)
    BY <1>1 DEF ReReadJob, SettleDecision, Due, RowOf, Waits, db, procs, history
  <1>4. \E prog : Become(p, prog) /\ Leads(prog, r, FALSE)
    <2>1. CASE ReReadJob(p, j)
      <3>1. Become(p, <<Settle(r.current)>>)
        BY <1>2, <2>1 DEF ReReadJob, RowOf
      <3> QED
        BY <1>2, <3>1, OnlyReads
    <2>2. CASE SettleDecision(p, j)
      <3>1. todo[p][1].op = "settle"
        BY <2>2, DueHead DEF SettleDecision
      <3>2. todo[p][1].current = r.current
        BY <1>2, <3>1 DEF Agrees
      <3>3. Become(p, <<WriteJob("queued", r.current), Enqueue>>) \/ Become(p, <<>>)
        BY <2>2, <3>2 DEF SettleDecision
      <3> QED
        BY <1>2, <3>3, OnlyReads, QueuedLeads
    <2> QED
      BY <2>1, <2>2
  <1>5. PICK prog : Become(p, prog) /\ Leads(prog, r, FALSE)
    BY <1>4
  <1>6. PICK still \in BOOLEAN : still = (prog = <<>> /\ Waits(j)')
    BY DEF Waits
  <1>7. Leads(prog, RowOf(j)', prog = <<>> /\ Waits(j)')
    BY <1>2, <1>3, <1>5, <1>6, WaitingHelps
  <1> QED
    BY <1>3, <1>5, <1>7, GoesOn

\* Taking a delivery leaves those of the other jobs.
LEMMA TailWaits ==
  ASSUME IInv, NEW j \in Jobs, queue # <<>>, queue[1].job = j, queue' = Tail(queue)
  PROVE  \A i \in Jobs \ {j} : Waits(i) => Waits(i)'
  <1> DEFINE S == [job : Jobs, stalls : {0, 1}]
  <1>1. PICK q \in Seq(S) : q = queue
    BY DEF IInv, TypeOK
  <1> HIDE DEF S
  <1>2. \A n \in DOMAIN q \ {1} : n - 1 \in DOMAIN Tail(q) /\ Tail(q)[n - 1] = q[n]
    BY <1>1
  <1>3. \A n \in DOMAIN queue \ {1} : n - 1 \in DOMAIN queue' /\ queue'[n - 1] = queue[n]
    BY <1>1, <1>2
  <1> QED
    BY <1>3 DEF Waits

\* The worker takes a delivery, or drops that of a job that is over.
LEMMA DeliveryRests ==
  ASSUME IInv, RestInv, Orderly, NEW p \in Procs, NEW j \in Jobs, TakeDelivery(p, j)
  PROVE  RestInv'
  <1>1. p = Worker /\ (\A i \in Jobs : RowOf(i)' = RowOf(i)) /\ \A i \in Jobs \ {j} : Waits(i) => Waits(i)'
    BY TailWaits DEF TakeDelivery, RowOf, db, history
  <1>2. CASE status[j] \in Terminal /\ UNCHANGED <<on, todo>>
    <2>1. ASSUME NEW i \in Jobs, NEW waits \in BOOLEAN, waits = Waits(i), Leads(<<>>, RowOf(i), waits)
          PROVE  Leads(<<>>, RowOf(i), Waits(i)')
      <3>1. PICK still \in BOOLEAN : still = Waits(i)'
        BY DEF Waits
      <3>2. CASE i # j
        BY <1>1, <2>1, <3>1, <3>2, WaitingHelps
      <3>3. CASE i = j
        <4>1. PICK r \in Rows : r = RowOf(j)
          BY RowTyped
        <4>2. Sane(r) /\ HandedFresh(r, r)
          BY <2>1, <3>3, <4>1, LeftThere
        <4>3. Served(<<>>, r, still)
          BY <1>2, <4>1 DEF Served, Executable, Active, Terminal, RowOf
        <4> QED
          BY <3>1, <3>3, <4>1, <4>2, <4>3, OnlyReads
      <3> QED
        BY <3>2, <3>3
    <2>2. ASSUME NEW i \in Jobs, \A q \in Procs : on[q] # i PROVE Leads(<<>>, RowOf(i), Waits(i)')
      <3>1. PICK waits \in BOOLEAN : waits = Waits(i)
        BY DEF Waits
      <3> QED
        BY <2>1, <2>2, <3>1 DEF RestInv
    <2>3. ASSUME NEW q \in Procs, NEW i \in Jobs, on[q] = i
          PROVE  Leads(todo[q], RowOf(i), todo[q] = <<>> /\ Waits(i)')
      <3>1. Leads(todo[q], RowOf(i), todo[q] = <<>> /\ Waits(i))
        BY <2>3 DEF RestInv
      <3>2. PICK waits \in BOOLEAN : waits = Waits(i)
        BY DEF Waits
      <3>3. PICK still \in BOOLEAN : still = Waits(i)'
        BY DEF Waits
      <3>4. CASE todo[q] = <<>>
        <4>1. (todo[q] = <<>> /\ Waits(i)) = waits /\ (todo[q] = <<>> /\ Waits(i)') = still
          BY <3>2, <3>3, <3>4
        <4> QED
          BY <2>1, <3>1, <3>2, <3>3, <3>4, <4>1
      <3>5. CASE todo[q] # <<>>
        <4>1. (todo[q] = <<>> /\ Waits(i)) = FALSE /\ (todo[q] = <<>> /\ Waits(i)') = FALSE
          BY <3>5
        <4> QED
          BY <3>1, <4>1
      <3> QED
        BY <3>4, <3>5
    <2>4. OneEach'
      BY <1>2 DEF RestInv, OneEach
    <2> QED
      BY <1>1, <1>2, <2>2, <2>3, <2>4 DEF RestInv
  <1>3. CASE Start(Worker, j, <<ReadSteps(current[j])>>) \/ Start(Worker, j, MarkFailed)
    <2>1. on[Worker] # j /\ on'[Worker] = j /\ Worker \in Procs
      BY <1>3, NoJobAssumption DEF Start, IInv, TypeOK, Procs
    <2>2. \A q \in Procs : on[q] # j
      BY <2>1 DEF Orderly, Procs
    <2>3. PICK r \in Rows : r = RowOf(j) /\ Sane(r) /\ HandedFresh(r, r)
      BY <2>2, NobodyThere
    <2>4. Leads(<<ReadSteps(r.current)>>, r, FALSE) /\ Leads(MarkFailed, r, FALSE) /\ r.current = current[j]
      BY <2>3, OnlyReads, FailedLeads DEF RowOf
    <2>5. \E prog : Start(Worker, j, prog) /\ Leads(prog, RowOf(j)', FALSE)
      BY <1>1, <1>3, <2>3, <2>4
    <2> QED
      BY <1>1, <2>1, <2>2, <2>5, Starts
  <1> QED
    BY <1>2, <1>3 DEF TakeDelivery

\* A request that comes to a job at rest.
LEMMA OperateRests ==
  ASSUME IInv, RestInv, Orderly, NEW p \in Procs, NEW j \in Jobs, Operate(p, j)
  PROVE  RestInv'
  <1>1. p \in Operators /\ p # Worker
    BY WorkerAssumption DEF Operate
  <1>2. \E prog : Start(p, j, prog)
    BY DEF Operate, Create, Resume, Cancel, Decide, Request
  <1>3. AtRest(j)
    <2>1. on[p] # j /\ on'[p] = j
      BY <1>2, NoJobAssumption DEF Start, IInv, TypeOK
    <2> QED
      BY <1>1, <2>1 DEF Orderly
  <1>4. (\A q \in Procs : on[q] # j) /\ Waits(j) = FALSE
    BY <1>3 DEF AtRest, Waits
  <1>5. PICK r \in Rows : r = RowOf(j) /\ Sane(r) /\ HandedFresh(r, r) /\ Served(<<>>, r, FALSE)
    BY <1>4, NobodyThere
  <1>6. \A i \in Jobs : Waits(i)' = Waits(i)
    BY DEF Operate, Create, Resume, Cancel, Decide, Request, Waits
  <1>7. CASE Create(p, j)
    <2>1. /\ Start(p, j, <<Submit>>) /\ UNCHANGED <<current, step, evidence>>
          /\ status'[j] = "queued" /\ \A i \in Jobs \ {j} : status'[i] = status[i]
      BY <1>7 DEF Create, history, IInv, TypeOK
    <2>2. \A i \in Jobs \ {j} : RowOf(i)' = RowOf(i)
      BY <2>1 DEF RowOf
    <2>3. PICK s \in Rows : s = RowOf(j)'
      BY <1>5, <2>1 DEF RowOf, Rows, JobStatus
    <2>4. s.status = "queued" /\ s.current = r.current /\ s.step = r.step /\ s.evidence = r.evidence
      BY <1>5, <2>1, <2>3 DEF RowOf
    <2>5. Sane(s) /\ HandedFresh(s, s)
      BY <1>5, <2>4 DEF Sane, RunsCurrent, InPlan, OutOfPlan, Whole, Verified, HandedFresh
    <2>6. Leads(<<Submit>>, RowOf(j)', FALSE)
      BY <2>3, <2>5, OnlyReads
    <2> QED
      BY <1>4, <1>6, <2>1, <2>2, <2>6, Starts
  <1>8. CASE Resume(p, j) \/ Cancel(p, j) \/ Decide(p, j)
    <2>1. \A i \in Jobs : RowOf(i)' = RowOf(i)
      BY <1>8 DEF Resume, Cancel, Decide, Request, RowOf, db, history
    <2>2. \E prog : Start(p, j, prog) /\ Leads(prog, r, FALSE)
      <3>1. CASE Resume(p, j)
        <4>1. Start(p, j, <<WriteJob("queued", r.current), Enqueue>>)
          BY <1>5, <3>1 DEF Resume, Request, RowOf
        <4> QED
          BY <1>5, <4>1, QueuedLeads
      <3>2. CASE Cancel(p, j)
        <4>1. Start(p, j, <<CancelSteps, WriteJob("cancelled", NoStep)>>)
          BY <3>2 DEF Cancel, Request
        <4> QED
          BY <1>5, <4>1, CancelLeads
      <3>3. CASE Decide(p, j)
        <4>1. PICK q \in reqs[j], s \in {"satisfied", "rejected"} : Start(p, j, <<Resolve(q.id, s), ReadJob>>)
          BY <3>3 DEF Decide, Request
        <4>2. PICK id \in Nat : id = q.id
          BY DEF IInv, TypeOK, Requirement
        <4> QED
          BY <1>5, <4>1, <4>2, OnlyReads
      <3> QED
        BY <1>8, <3>1, <3>2, <3>3
    <2> QED
      BY <1>4, <1>5, <1>6, <2>1, <2>2, Starts
  <1> QED
    BY <1>7, <1>8 DEF Operate

\* No step that is orderly and no failure disturbs the jobs.
LEMMA RestKept ==
  ASSUME IInv, faults = 0 => RestInv, [OrderlyNext]_vars
  PROVE  (faults = 0 => RestInv)'
  <1>1. CASE UNCHANGED vars
    BY <1>1 DEF vars, db, history, RestInv, OneEach, RowOf, Waits
  <1>2. CASE \E p \in Procs, j \in Jobs : OperationThrows(p, j)
    <2>1. faults' = faults + 1 /\ faults \in Nat
      BY <1>2, NatAssumption DEF OperationThrows, IInv, TypeOK
    <2> QED
      BY <2>1
  <1>3. CASE Crash
    <2>1. faults' = faults + 1 /\ faults \in Nat
      BY <1>3, NatAssumption DEF Crash, IInv, TypeOK
    <2> QED
      BY <2>1
  <1>4. ASSUME NEW p \in Procs, NEW j \in Jobs, Operate(p, j) \/ Run(p, j), Orderly
        PROVE  (faults = 0 => RestInv)'
    <2>1. faults' = faults
      BY <1>4 DEF Operate, Create, Resume, Cancel, Decide, Request, Run, Write, DoStatus, DoBegin, DoJob,
                  DoCurrent, DoStep, DoVerify, DoRequire, DoClear, DoSatisfy, DoResolve, DoCancelSteps,
                  DoEnqueue, DoNotify, Return, ReReadJob, SettleDecision, TakeDelivery, Process, budget
    <2> QED
      BY <1>4, <2>1, OperateRests, WriteRests, DecisionRests, DeliveryRests, ProcessRests DEF Run
  <1> QED
    BY <1>1, <1>2, <1>3, <1>4 DEF OrderlyNext, Next

\* There are no jobs yet.
LEMMA InitRests == ASSUME Init PROVE RestInv
  <1>1. OneEach
    BY DEF Init, OneEach
  <1>2. \A p \in Procs, j \in Jobs : on[p] # j
    BY NoJobAssumption DEF Init
  <1>3. ASSUME NEW j \in Jobs PROVE Leads(<<>>, RowOf(j), Waits(j))
    <2>1. IInv
      BY InitHolds
    <2>2. PICK r \in Rows : r = RowOf(j)
      BY <2>1, RowTyped
    <2>3. r.status = "none" /\ r.current = NoStep /\ r.step = [k \in StepKeys |-> "absent"]
      BY <2>2 DEF Init, RowOf
    <2>4. Sane(r) /\ HandedFresh(r, r)
      BY <2>3 DEF Sane, RunsCurrent, InPlan, OutOfPlan, Whole, Verified, HandedFresh, Closed,
                  CancellableStep, NoStep, Finalize
    <2>5. PICK waits \in BOOLEAN : waits = Waits(j)
      BY DEF Waits
    <2>6. Served(<<>>, r, waits)
      BY <2>3 DEF Served, Executable, Active
    <2> QED
      BY <2>2, <2>4, <2>5, <2>6, OnlyReads
  <1> QED
    BY <1>1, <1>2, <1>3 DEF RestInv

-----------------------------------------------------------------------------
(* The theorems. *)

\* In orderly use, rows, programs and deliveries fit together as long as nothing fails.
LEMMA Resting == OrderlySpec => [](IInv /\ (faults = 0 => RestInv))
  <1>1. Init => IInv /\ (faults = 0 => RestInv)
    BY InitHolds, InitRests
  <1>2. IInv /\ (faults = 0 => RestInv) /\ [OrderlyNext]_vars => (IInv /\ (faults = 0 => RestInv))'
    BY NextKeeps, RestKept DEF OrderlyNext
  <1> QED
    BY <1>1, <1>2, PTL DEF OrderlySpec

\* No enqueue is missing where a handler hands a job on: a job that rests and reads active has
\* no step the dispatch would execute.
THEOREM NothingForgotten == OrderlySpec => [](faults = 0 => NoForgottenStep)
  <1>1. ASSUME IInv, RestInv PROVE NoForgottenStep
    <2> SUFFICES ASSUME NEW j \in Jobs, AtRest(j), status[j] \in Active,
                        GetCurrentStep(step[j], current[j]) # NoStep
                 PROVE  step[j][GetCurrentStep(step[j], current[j])]
                          \notin Runnable(GetCurrentStep(step[j], current[j]))
      BY DEF NoForgottenStep
    <2>1. (\A q \in Procs : on[q] # j) /\ Waits(j) = FALSE
      BY DEF AtRest, Waits
    <2>2. PICK r \in Rows : r = RowOf(j) /\ Served(<<>>, r, FALSE)
      BY <1>1, <2>1, NobodyThere
    <2>3. ~Executable(r)
      BY <2>2 DEF Served
    <2>4. r.status = status[j] /\ r.current = current[j] /\ r.step = step[j]
      BY <2>2 DEF RowOf
    <2> QED
      BY <2>3, <2>4 DEF Executable
  <1> QED
    BY <1>1, Resting, PTL

\* What is in a job, worked on or not, is on its way to a sane row.
LEMMA OnItsWay ==
  ASSUME IInv, RestInv, NEW j \in Jobs
  PROVE  \E R \in Rows : Sane(R) /\ OneRuns(RowOf(j), R) /\ HandedFresh(RowOf(j), R)
  BY DEF RestInv, Leads

\* A job is completed with evidence that is newer than the last agent pass over its workspace.
THEOREM HandedOffFresh == OrderlySpec => [](faults = 0 => HandoffIsFresh)
  <1>1. ASSUME IInv, RestInv PROVE HandoffIsFresh
    BY <1>1, OnItsWay DEF HandoffIsFresh, HandedFresh, RowOf
  <1> QED
    BY <1>1, Resting, PTL

\* Two steps of a job never run at once, also not between the writes of a handler.
THEOREM OneRunning == OrderlySpec => [](faults = 0 => OneStepRunning)
  <1>1. ASSUME IInv, RestInv PROVE OneStepRunning
    BY <1>1, OnItsWay DEF OneStepRunning, OneRuns, RowOf
  <1> QED
    BY <1>1, Resting, PTL

\* A job that rests and reads active does not point at a step it has completed.
THEOREM NeverWedged == OrderlySpec => [](faults = 0 => NotWedged)
  <1>1. ASSUME IInv, RestInv PROVE NotWedged
    <2> SUFFICES ASSUME NEW j \in Jobs, AtRest(j), current[j] # NoStep PROVE step[j][current[j]] # "completed"
      BY DEF NotWedged
    <2>1. PICK r \in Rows : r = RowOf(j) /\ Sane(r)
      BY <1>1, NobodyThere DEF AtRest
    <2> QED
      BY <2>1 DEF Sane, InPlan, RowOf
  <1> QED
    BY <1>1, Resting, PTL

=============================================================================
