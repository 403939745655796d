------------------------- MODULE ConversationTurns -------------------------
(***************************************************************************)
(* The turns of one conversation (apps/worker/src/lib/turn-orchestrator.ts *)
(* and the handlers it asks in turn).  A message runs a tool, or answers   *)
(* the newest thing that waits for a yes or a no - a tool execution, a     *)
(* requirement of a build job, a proposal to launch one - or is plain chat.*)
(* Tool executions are decided on the console too.                         *)
(*                                                                         *)
(* A handler reads what waits for a decision, awaits the preparation of    *)
(* the turn, and acts on what it read: one action here per awaited step.   *)
(***************************************************************************)
EXTENDS Naturals, Sequences, FiniteSets

CONSTANTS
  Turns,      \* messages of the user: web chat and Telegram handle them concurrently
  Clicks,     \* requests of the console to approve or deny a tool execution
  Paths,      \* workspace paths a message may name
  Home,       \* settings.defaultWorkspacePath
  NoPath,     \* a message that names no path
  MaxFaults   \* bound: crashes and failed steps

ASSUME PathsAssumption == Home \notin Paths /\ NoPath \notin Paths \cup {Home}
ASSUME ProcsAssumption == IsFiniteSet(Turns) /\ IsFiniteSet(Clicks) /\ Turns \cap Clicks = {}
ASSUME FaultAssumption == MaxFaults \in Nat

Procs == Turns \cup Clicks
Modes == {"always_allow", "ask_first", "deny"}

\* detectToolIntent, detectConversationDecision and looksLikeAgentJobRequest
Meanings == {"tool", "approve", "deny", "help", "talk"}
Texts    == [says : Meanings, build : BOOLEAN, path : Paths \cup {NoPath}]
Plain(says) == [says |-> says, build |-> FALSE, path |-> NoPath]
\* What else a message that calls for a tool says does not matter.
Messages == {text \in Texts : text.says = "tool" => text = Plain("tool")}

Approvals == {"pending", "approved", "denied", "policy_denied", "not_required"}

VARIABLES
  execs,      \* tool_executions in the order of their creation
  intents,    \* agent_job_launch_intents, likewise
  reqs,       \* requirements of jobs of this conversation that wait for someone
  asked,      \* turns whose user message is persisted
  answered,   \* turns whose assistant message is persisted
  told,       \* executions a reply says were left blocked and not run
  proc,       \* what each handler is about to do, and what it knows
  faults,
  torn,       \* history: executions decided twice at once, or left between deed and mark
  shared,     \* history: proposals two turns had in hand at once, or left likewise
  crowded,    \* history: when proposals were last cancelled, another turn was adding its own
  broken      \* history: handlers that broke off

rows == <<execs, intents, reqs>>
chat == <<asked, answered, told>>
histories == <<torn, shared, crowded, broken>>
vars == <<rows, chat, proc, faults, histories>>

Execution == [approval : Approvals, status : {"awaiting_approval", "completed", "failed", "denied"},
              runs : Nat, grants : Nat]
Intent    == [state : {"pending", "cancelled", "launched"},
              workspace : Paths \cup {Home},    \* the column
              original : Paths \cup {Home},     \* payloadJson.workspacePath
              confirmed : Paths \cup {Home},    \* the path last named to the user
              jobs : Seq(Paths \cup {Home})]    \* workspaces of the jobs created from it

Labels == {"idle", "tools", "create", "run", "record", "trace", "approval", "prepareApproval",
           "decide", "denial", "append", "requirement", "prepareRequirement", "resolve", "launch",
           "prepareLaunch", "workspace", "decline", "createJob", "markLaunched", "supersede",
           "propose", "chat", "reply", "answer", "done"}

\* What a handler is about to do: the message, the row it picked, the workspace of the
\* proposal it read, and whether its tool worked.
Handler == [at : Labels, text : Texts, pick : Nat, seen : Paths \cup {Home}, ok : BOOLEAN]

Resting(l) == [at |-> l, text |-> Plain("talk"), pick |-> 0, seen |-> Home, ok |-> TRUE]

Init ==
  /\ execs = <<>> /\ intents = <<>>
  /\ reqs \in {<<>>, <<"pending">>}
  /\ asked = {} /\ answered = {}
  /\ told = {}
  /\ proc = [p \in Procs |-> Resting("idle")]
  /\ faults = 0
  /\ torn = {} /\ shared = {} /\ crowded = FALSE /\ broken = {}

(***************************************************************************)
(* Control.                                                                *)
(***************************************************************************)
At(p, l)         == proc[p].at = l
Goto(p, l)       == proc' = [proc EXCEPT ![p].at = l]
Finish(p)        == proc' = [proc EXCEPT ![p] = Resting("done")]
Choose(p, i, l)  == proc' = [proc EXCEPT ![p].at = l, ![p].pick = i]
Find(p, i, l)    == proc' = [proc EXCEPT ![p].at = l, ![p].pick = i,
                                         ![p].seen = intents[i].workspace]
Says(p)          == proc[p].text.says
Builds(p)        == proc[p].text.build
Pick(p)          == proc[p].pick

Busy == {p \in Procs : proc[p].at \notin {"idle", "done"}}
Newest(S) == {i \in S : \A k \in S : k <= i}

Waiting(s)      == {i \in DOMAIN s : s[i] = "pending"}
PendingExecs    == {i \in DOMAIN execs : execs[i].approval = "pending"}
PendingIntents  == {i \in DOMAIN intents : intents[i].state = "pending"}

\* Handlers that have decided an execution and not marked it, and turns with a proposal in hand.
Deciders(e) == {p \in Procs : proc[p].at \in {"run", "record", "denial"} /\ Pick(p) = e}
Holders(i)  == {p \in Procs : /\ Pick(p) = i
                              /\ proc[p].at \in {"prepareLaunch", "workspace", "decline",
                                                 "createJob", "markLaunched"}}
Proposers   == {p \in Procs : proc[p].at = "propose"}

Keep == UNCHANGED <<faults, histories>>

Arrive(p, text, pick, l) ==
  /\ At(p, "idle")
  /\ proc' = [proc EXCEPT ![p] = [Resting(l) EXCEPT !.text = text, !.pick = pick]]
  /\ UNCHANGED <<rows, chat>> /\ Keep

Send(t) == t \in Turns /\ \E text \in Messages : Arrive(t, text, 0, "tools")

\* The list the operator clicks in may be stale: the execution may be decided by now.
Click(c) ==
  /\ c \in Clicks
  /\ \E e \in DOMAIN execs, says \in {"approve", "deny"} :
       /\ execs[e].approval \notin {"policy_denied", "not_required"}
       /\ Arrive(c, Plain(says), e, "decide")

\* The user message is persisted.
Ask(t) == asked' = asked \cup {t} /\ UNCHANGED <<answered, told>>

(***************************************************************************)
(* Tools.                                                                  *)
(***************************************************************************)
RouteTool(t) ==
  /\ At(t, "tools")
  /\ \/ Says(t) = "tool" /\ Ask(t) /\ Goto(t, "create")
     \/ Says(t) # "tool" /\ Goto(t, "approval") /\ UNCHANGED chat
  /\ UNCHANGED rows /\ Keep

CreateExecution(t) ==
  /\ At(t, "create")
  /\ \E mode \in Modes :
       LET approval == CASE mode = "deny"      -> "policy_denied"
                         [] mode = "ask_first" -> "pending"
                         [] OTHER              -> "not_required"
           status   == CASE mode = "deny"      -> "denied"
                         [] mode = "ask_first" -> "awaiting_approval"
                         [] OTHER              -> "completed"
       IN /\ execs' = Append(execs, [approval |-> approval, status |-> status, runs |-> 0,
                                     grants |-> IF mode = "always_allow" THEN 1 ELSE 0])
          /\ Choose(t, Len(execs) + 1, IF mode = "always_allow" THEN "run" ELSE "answer")
  /\ UNCHANGED <<intents, reqs, chat>> /\ Keep

\* A tool works, or throws and is recorded as failed.
RunTool(p) ==
  /\ At(p, "run")
  /\ execs' = [execs EXCEPT ![Pick(p)].runs = @ + 1]
  /\ \E ok \in BOOLEAN : proc' = [proc EXCEPT ![p].at = "record", ![p].ok = ok]
  /\ UNCHANGED <<intents, reqs, chat>> /\ Keep

\* Mutant: a tool that failed is run again.
RecordRunRetries(p) ==
  /\ At(p, "record")
  /\ execs' = [execs EXCEPT ![Pick(p)].status = IF proc[p].ok THEN "completed" ELSE "failed"]
  /\ Goto(p, IF proc[p].ok THEN "trace" ELSE "run")
  /\ UNCHANGED <<intents, reqs, chat>> /\ Keep

\* Mutant: the status is written to the approval column.
RecordRunMisplaced(p) ==
  /\ At(p, "record")
  /\ execs' = [execs EXCEPT ![Pick(p)].approval = IF proc[p].ok THEN "completed" ELSE "failed"]
  /\ Goto(p, "trace")
  /\ UNCHANGED <<intents, reqs, chat>> /\ Keep

RecordRun(p) ==
  /\ At(p, "record")
  /\ execs' = [execs EXCEPT ![Pick(p)].status = IF proc[p].ok THEN "completed" ELSE "failed",
                            ![Pick(p)].approval = IF Says(p) = "tool" THEN @ ELSE "approved"]
  /\ Goto(p, "trace")
  /\ UNCHANGED <<intents, reqs, chat>> /\ Keep

TraceRun(p) ==
  /\ At(p, "trace")
  /\ Goto(p, IF Says(p) = "tool" THEN "answer" ELSE "append")
  /\ UNCHANGED <<rows, chat>> /\ Keep

\* Mutant: the execution is marked before its tool is run.
DecideMarksFirst(p) ==
  /\ At(p, "decide")
  /\ execs' = [execs EXCEPT ![Pick(p)].approval = "approved", ![Pick(p)].status = "completed",
                            ![Pick(p)].grants = @ + 1]
  /\ Goto(p, "run")
  /\ UNCHANGED <<intents, reqs, chat>> /\ Keep

\* Mutant: an execution may be decided again.
DecideAgain(p) ==
  /\ At(p, "decide")
  /\ \/ Says(p) = "deny" /\ Goto(p, "denial") /\ UNCHANGED execs
     \/ /\ Says(p) = "approve"
        /\ execs' = [execs EXCEPT ![Pick(p)].grants = @ + 1]
        /\ Goto(p, "run")
  /\ torn' = torn \cup {e \in {Pick(p)} : Deciders(e) # {}}
  /\ UNCHANGED <<intents, reqs, chat, faults, shared, crowded, broken>>

\* The decision of a tool execution: its row is read again, and must be pending still; a
\* handler that comes too late is over without a message of its own.
Decide(p) ==
  /\ At(p, "decide")
  /\ \/ /\ execs[Pick(p)].approval = "pending"
        /\ \/ Says(p) = "deny" /\ Goto(p, "denial") /\ UNCHANGED execs
           \/ /\ Says(p) = "approve"
              /\ execs' = [execs EXCEPT ![Pick(p)].grants = @ + 1]
              /\ Goto(p, "run")
        /\ torn' = torn \cup {e \in {Pick(p)} : Deciders(e) # {}}
        /\ UNCHANGED chat
     \/ /\ execs[Pick(p)].approval # "pending"
        /\ Goto(p, "done")
        /\ told' = IF p \in Turns /\ Says(p) = "deny" THEN told \cup {Pick(p)} ELSE told
        /\ UNCHANGED <<execs, asked, answered, torn>>
  /\ UNCHANGED <<intents, reqs, faults, shared, crowded, broken>>

\* Mutant: a denial is not confirmed in the conversation.
WriteDenialSilently(p) ==
  /\ At(p, "denial")
  /\ execs' = [execs EXCEPT ![Pick(p)].approval = "denied", ![Pick(p)].status = "denied"]
  /\ Finish(p)
  /\ UNCHANGED <<intents, reqs, chat>> /\ Keep

WriteDenial(p) ==
  /\ At(p, "denial")
  /\ execs' = [execs EXCEPT ![Pick(p)].approval = "denied", ![Pick(p)].status = "denied"]
  /\ Goto(p, "append")
  /\ UNCHANGED <<intents, reqs, chat>> /\ Keep

\* The newest pending execution is the one a yes or a no is about.
RouteApproval(t) ==
  /\ At(t, "approval")
  /\ IF PendingExecs # {} /\ Says(t) \in {"approve", "deny", "help"}
     THEN \E e \in Newest(PendingExecs) : Choose(t, e, "prepareApproval")
     ELSE Goto(t, "requirement")
  /\ UNCHANGED <<rows, chat>> /\ Keep

PrepareApproval(t) ==
  /\ At(t, "prepareApproval")
  /\ Ask(t)
  /\ Goto(t, IF Says(t) = "help" THEN "answer" ELSE "decide")
  /\ UNCHANGED rows /\ Keep

(***************************************************************************)
(* Requirements of build jobs.                                             *)
(***************************************************************************)
RouteRequirement(t) ==
  /\ At(t, "requirement")
  /\ IF Waiting(reqs) # {} /\ Says(t) \in {"approve", "deny", "help"}
     THEN \E r \in Newest(Waiting(reqs)) : Choose(t, r, "prepareRequirement")
     ELSE Goto(t, "launch")
  /\ UNCHANGED <<rows, chat>> /\ Keep

PrepareRequirement(t) ==
  /\ At(t, "prepareRequirement")
  /\ Ask(t)
  /\ Goto(t, IF Says(t) = "help" THEN "answer" ELSE "resolve")
  /\ UNCHANGED rows /\ Keep

\* decideAgentJobRequirement; what it does to the job is in AgentJobs.
Resolve(t) ==
  /\ At(t, "resolve")
  /\ reqs' = [reqs EXCEPT ![Pick(t)] = IF Says(t) = "approve" THEN "satisfied" ELSE "rejected"]
  /\ Goto(t, "answer")
  /\ UNCHANGED <<execs, intents, chat>> /\ Keep

(***************************************************************************)
(* Launch proposals.                                                       *)
(***************************************************************************)
RouteLaunch(t) ==
  /\ At(t, "launch")
  /\ \/ \E i \in Newest(PendingIntents) :
          /\ Find(t, i, "prepareLaunch")
          /\ shared' = IF Holders(i) = {} THEN shared ELSE shared \cup {i}
     \/ /\ PendingIntents = {}
        /\ Choose(t, 0, IF Builds(t) THEN "prepareLaunch" ELSE "chat")
        /\ UNCHANGED shared
  /\ UNCHANGED <<rows, chat, faults, torn, crowded, broken>>

\* The path a message names, else the one the proposal was made with.
Resolved(t) ==
  IF proc[t].text.path # NoPath THEN proc[t].text.path ELSE intents[Pick(t)].original

PrepareLaunch(t) ==
  /\ At(t, "prepareLaunch")
  /\ Ask(t)
  /\ Goto(t, IF Pick(t) = 0 THEN "supersede" ELSE "workspace")
  /\ UNCHANGED rows /\ Keep

\* The proposal gets the resolved path if that is another one than was read; then the
\* handler branches.  A message that is no yes, no no and no build request is answered with
\* the resolved path.
UpdateWorkspace(t) ==
  /\ At(t, "workspace")
  /\ LET next == CASE Says(t) = "deny"    -> "decline"
                   [] Says(t) = "approve" -> "createJob"
                   [] OTHER -> IF Builds(t) THEN "supersede" ELSE "answer"
     IN /\ intents' = [intents EXCEPT
                         ![Pick(t)].workspace = IF Resolved(t) # proc[t].seen THEN Resolved(t) ELSE @,
                         ![Pick(t)].confirmed = IF next = "answer" THEN Resolved(t) ELSE @]
        /\ Goto(t, next)
  /\ UNCHANGED <<execs, reqs, chat>> /\ Keep

Decline(t) ==
  /\ At(t, "decline")
  /\ intents' = [intents EXCEPT ![Pick(t)].state = "cancelled"]
  /\ Goto(t, "answer")
  /\ UNCHANGED <<execs, reqs, chat>> /\ Keep

CreateJob(t) ==
  /\ At(t, "createJob")
  /\ intents' = [intents EXCEPT ![Pick(t)].jobs = Append(@, Resolved(t))]
  /\ Goto(t, "markLaunched")
  /\ UNCHANGED <<execs, reqs, chat>> /\ Keep

\* Mutant: a launched proposal goes on waiting for a yes.
MarkLaunchedNot(t) ==
  /\ At(t, "markLaunched")
  /\ Goto(t, "answer")
  /\ UNCHANGED <<rows, chat>> /\ Keep

MarkLaunched(t) ==
  /\ At(t, "markLaunched")
  /\ intents' = [intents EXCEPT ![Pick(t)].state = "launched"]
  /\ Goto(t, "answer")
  /\ UNCHANGED <<execs, reqs, chat>> /\ Keep

\* Mutant: a new proposal leaves the pending ones alone.
SupersedeNone(t) ==
  /\ At(t, "supersede")
  /\ Goto(t, "propose")
  /\ crowded' = (Proposers # {})
  /\ UNCHANGED <<rows, chat, faults, torn, shared, broken>>

\* A new proposal cancels the pending ones first.
Supersede(t) ==
  /\ At(t, "supersede")
  /\ intents' = [i \in DOMAIN intents |->
                   IF i \in PendingIntents THEN [intents[i] EXCEPT !.state = "cancelled"]
                   ELSE intents[i]]
  /\ Goto(t, "propose")
  /\ crowded' = (Proposers # {})
  /\ UNCHANGED <<execs, reqs, chat, faults, torn, shared, broken>>

Propose(t) ==
  /\ At(t, "propose")
  /\ LET path == IF proc[t].text.path = NoPath THEN Home ELSE proc[t].text.path IN
     intents' = Append(intents, [state |-> "pending", workspace |-> path, original |-> path,
                                 confirmed |-> path, jobs |-> <<>>])
  /\ Goto(t, "answer")
  /\ UNCHANGED <<execs, reqs, chat>> /\ Keep

(***************************************************************************)
(* Chat, and the end of a turn.                                            *)
(***************************************************************************)
PrepareChat(t) ==
  /\ At(t, "chat")
  /\ Ask(t)
  /\ Goto(t, "reply")
  /\ UNCHANGED rows /\ Keep

Reply(t) ==
  /\ At(t, "reply")
  /\ Goto(t, "answer")
  /\ UNCHANGED <<rows, chat>> /\ Keep

\* The assistant message is persisted; a decision appends its message the same way.
Answer(p) ==
  /\ At(p, "answer") \/ At(p, "append")
  /\ answered' = answered \cup ({p} \cap Turns)
  /\ Finish(p)
  /\ UNCHANGED <<rows, asked, told>> /\ Keep

(***************************************************************************)
(* Failures.                                                               *)
(***************************************************************************)
\* The try block of a run; that of a decision begins before and ends after that of a tool turn.
InTry(p) ==
  /\ proc[p].ok
  /\ Says(p) # "deny"
  /\ proc[p].at \in {"record", "trace"} \cup (IF Says(p) = "approve" THEN {"run", "append"} ELSE {})

\* Handlers break off; what one of them has done and not marked, or marked and not done,
\* nobody makes good.
BreakOff(P) ==
  /\ proc' = [p \in Procs |-> IF p \in P THEN Resting("done") ELSE proc[p]]
  /\ torn' = torn \cup {Pick(p) : p \in {q \in P : At(q, "record") \/ (At(q, "run") /\ Says(q) = "tool")}}
  /\ shared' = shared \cup {Pick(p) : p \in {q \in P : At(q, "markLaunched")}}
  /\ broken' = broken \cup P

\* What throws inside the try block of a tool run makes it a failed one; what throws
\* elsewhere, or in the catch block, ends the handler.  A model stream that breaks off
\* ends its turn without an answer.
Throw(p) ==
  /\ p \in Busy
  /\ faults < MaxFaults
  /\ faults' = faults + 1
  /\ \/ /\ InTry(p)
        /\ proc' = [proc EXCEPT ![p].at = "record", ![p].ok = FALSE]
        /\ torn' = IF At(p, "run") THEN torn \cup {Pick(p)} ELSE torn
        /\ UNCHANGED <<shared, broken>>
     \/ ~InTry(p) /\ BreakOff({p})
  /\ UNCHANGED <<rows, chat, crowded>>

\* The worker process dies with all its handlers.
Crash ==
  /\ Busy # {}
  /\ faults < MaxFaults
  /\ faults' = faults + 1
  /\ BreakOff(Busy)
  /\ UNCHANGED <<rows, chat, crowded>>

ToolStep(p) ==
  \/ RouteTool(p) \/ CreateExecution(p) \/ RunTool(p) \/ RecordRun(p) \/ TraceRun(p)
  \/ Decide(p) \/ WriteDenial(p) \/ RouteApproval(p) \/ PrepareApproval(p)

LaunchStep(p) ==
  \/ RouteLaunch(p) \/ PrepareLaunch(p) \/ UpdateWorkspace(p) \/ Decline(p)
  \/ CreateJob(p) \/ MarkLaunched(p) \/ Supersede(p) \/ Propose(p)

Step(p) ==
  \/ ToolStep(p) \/ LaunchStep(p)
  \/ RouteRequirement(p) \/ PrepareRequirement(p) \/ Resolve(p)
  \/ PrepareChat(p) \/ Reply(p) \/ Answer(p)

Next == (\E p \in Procs : Send(p) \/ Click(p) \/ Step(p) \/ Throw(p)) \/ Crash

Spec == Init /\ [][Next]_vars

(***************************************************************************)
(* Properties.                                                             *)
(***************************************************************************)
HistoriesOK ==
  torn \subseteq Nat /\ shared \subseteq Nat /\ crowded \in BOOLEAN /\ broken \subseteq Procs

TablesOK ==
  /\ execs \in Seq(Execution)
  /\ intents \in Seq(Intent)
  /\ reqs \in Seq({"pending", "satisfied", "rejected"})
  /\ asked \subseteq Turns /\ answered \subseteq Turns
  /\ told \subseteq DOMAIN execs
  /\ proc \in [Procs -> Handler]

TypeOK == TablesOK /\ faults \in 0..MaxFaults /\ HistoriesOK

\* An execution shown as approved and completed was run.
ApprovedWereRun ==
  \A e \in DOMAIN execs :
    execs[e].approval = "approved" /\ execs[e].status = "completed" => execs[e].runs > 0

\* A proposal shown as launched has its build job.
LaunchedHaveJobs ==
  \A i \in DOMAIN intents : intents[i].state = "launched" => intents[i].jobs # <<>>

\* An execution that needs no approval is shown as completed before it is run: the turn that
\* has shown it so is about to run it, or broke off.
UnaskedRunNext ==
  \A e \in DOMAIN execs \ torn :
    execs[e].approval = "not_required" /\ execs[e].status = "completed" /\ execs[e].runs = 0 =>
      \E t \in Turns : At(t, "run") /\ Pick(t) = e

\* However handlers overlap and wherever they break off, what waited for a yes is marked
\* after what the mark stands for; and what needs no yes and is marked before is run, unless
\* its own handler breaks off.
MarkedWhenDone == ApprovedWereRun /\ LaunchedHaveJobs /\ UnaskedRunNext

\* Each run of a tool is backed by a yes to this very execution, or by its policy, also when
\* a turn and the console decide it at once.
RunsAreGranted == \A e \in DOMAIN execs : execs[e].runs <= execs[e].grants

\* However handlers overlap, the row of an execution that nobody is deciding tells how often
\* its tool was run: never if it waits or was denied, else once.  What makes a row lie is only
\* a second decision that finds the row pending while the first one runs the tool, or a
\* handler that breaks off between the run and the mark.
RecordsAgree ==
  \A e \in DOMAIN execs \ torn :
    Deciders(e) = {} =>
      execs[e].runs = IF execs[e].approval \in {"pending", "denied", "policy_denied"} THEN 0 ELSE 1

\* A yes is never ambiguous: at most one proposal is pending, unless the last two turns to
\* make one were at once between cancelling the old ones and adding their own.
OneProposal ==
  ~crowded => \A i, k \in PendingIntents : i = k

\* However turns overlap, a proposal that only one of them took up at a time has one build job
\* if it is marked launched and none if not, also when another turn cancels it meanwhile.
LaunchedOnce ==
  \A i \in DOMAIN intents \ shared :
    Holders(i) = {} => Len(intents[i].jobs) = IF intents[i].state = "launched" THEN 1 ELSE 0

\* The handler of a turn came to decide an execution and found it decided by somebody else.
FoundDecided(t) == Pick(t) \in DOMAIN execs /\ execs[Pick(t)].approval # "pending"

\* However handlers overlap and others break off, every user message has its answer once its
\* handler is done, unless this very handler broke off; the one exception is a turn whose
\* decision somebody else has taken meanwhile.  No answer comes before its question.
TurnsAnswered ==
  /\ answered \subseteq asked
  /\ \A t \in asked \ (answered \cup broken) : At(t, "done") => FoundDecided(t)

\* A user who is told that a tool request was left blocked and nothing was run can rely on it.
DenialIsTrue == \A e \in told : execs[e].runs = 0

\* A yes that names no path of its own launches the build in the workspace the user was
\* asked to confirm last.
LaunchedWhereConfirmed ==
  \A t \in Turns :
    At(t, "markLaunched") /\ proc[t].text.path = NoPath =>
      intents[Pick(t)].jobs[Len(intents[Pick(t)].jobs)] = intents[Pick(t)].confirmed

=============================================================================
