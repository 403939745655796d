------------------------------- MODULE AgentPass -------------------------------
(***************************************************************************)
(* What the agent does in the passes of one build job: the model's steps   *)
(* and their tool calls, the calls that wait for an approval, and the      *)
(* conversation a step keeps of its passes. The job around it, its queue   *)
(* and its other steps are AgentJobs.                                      *)
(***************************************************************************)
EXTENDS Naturals

CONSTANTS
    Modes,          \* approval modes a job may have
    MaxAgentSteps,  \* settings.maxAgentSteps
    MaxAttempts,    \* settings.maxVerificationAttempts
    MaxAsks,        \* bound: calls that ask for an approval
    MaxPassFaults   \* bound: passes that die, run out of time or fail, and resumes after them

ASSUME PassAssumption ==
    /\ Modes \subseteq {"restrictive", "default", "full_access"}
    /\ MaxAgentSteps \in Nat \ {0} /\ MaxAttempts \in Nat \ {0}
    /\ MaxAsks \in Nat /\ MaxPassFaults \in Nat

VARIABLES
    mode,       \* the job's approval mode
    network,    \* settings.allowNetworkAccess
    job,        \* the step the job is at, or how it has ended
    failed,     \* the job is marked failed
    stored,     \* outputJson.agentMessages of each step
    row,        \* the approval requirement of each call that asked
    call,       \* of each call that asked: its step, and how running it may end
    attempts,   \* attemptCount of the verification
    round,      \* verifications that found blockers; their notes have this number
    pass,       \* the pass under way
    ran,        \* history: the calls that asked and were then executed
    agreed,     \* history: the calls an operator has approved, at any time
    turnedDown, \* history: the calls the agent was told are denied
    passFaults  \* number of faults so far

histories == <<ran, agreed, turnedDown>>
passVars == <<mode, network, job, failed, stored, row, call, attempts, round, pass, histories, passFaults>>
settings == <<mode, network>>
counts == <<attempts, round>>

-----------------------------------------------------------------------------
(* Tools *)

\* By what the policies tell apart: "purge" removes a path of node_modules.
Commands == {"plain", "risky", "install", "setup", "wipe", "fatal"}
Tools == {"read", "edit", "remove", "purge", "port", "probe"} \cup Commands

\* The lists a command may match: the one of commandNeedsApproval, the one of
\* looksLikeNetworkCommand and the one of isForbiddenCommand; none contains another.
Lists == [plain |-> {}, risky |-> {"approval"}, install |-> {"network"}, setup |-> {"approval", "network"},
          wipe |-> {"forbidden"}, fatal |-> {"approval", "forbidden"}]

NeedsApproval(tool) ==
    \/ tool \in Commands \cup {"edit"} /\ mode = "restrictive"
    \/ tool \in Commands /\ mode = "default" /\ "approval" \in Lists[tool]
    \/ tool = "remove" /\ mode # "full_access"
    \/ tool = "purge"
    \/ tool = "probe" /\ ~network

\* The tools a verification is given; an implementation has all of them.
ActiveTools(step) == IF step = "verify" THEN {"read", "port", "probe"} \cup Commands ELSE Tools

\* How a call may end: without a blocker, or with one. A command that settings or policy refuse
\* is answered with an exit code of 1; a tool that throws is no blocker.
RunCommand(tool) ==
    IF "forbidden" \in Lists[tool] \/ ("network" \in Lists[tool] /\ ~network) THEN {FALSE} ELSE BOOLEAN
Probe(tool) == IF tool \in {"port", "probe"} THEN BOOLEAN ELSE {TRUE}
Ends(tool) == IF tool \in Commands THEN RunCommand(tool) ELSE Probe(tool)

\* Whether the results of calls that may end so hold no blocker.
Results(ends) == {clean \in BOOLEAN : IF clean THEN \A may \in ends : TRUE \in may
                                              ELSE \E may \in ends : FALSE \in may}

-----------------------------------------------------------------------------
(* Records *)

WorkSteps == {"implement", "verify"}
Asks == 1 .. MaxAsks
Rounds == 0 .. MaxAttempts

\* A conversation: whether there is one, the notes its prompt named, the calls that asked in it
\* and those of them that have a result.
Messages == [begun : BOOLEAN, notes : Rounds, asked : SUBSET Asks, answered : SUBSET Asks]
NoMessages == [begun |-> FALSE, notes |-> 0, asked |-> {}, answered |-> {}]

\* A pass: the decisions it was given, how many steps the model has made, whether its results hold
\* no blocker, and the requests it ended with that are not recorded yet.
Pass == [at : {"none", "answers", "model", "rows", "save"}, messages : Messages,
         approved : SUBSET Asks, denied : SUBSET Asks, steps : 0 .. MaxAgentSteps,
         clean : BOOLEAN, new : SUBSET Asks, rows : SUBSET Asks]
NoPass == [at |-> "none", messages |-> NoMessages, approved |-> {}, denied |-> {}, steps |-> 0,
           clean |-> TRUE, new |-> {}, rows |-> {}]

RowsOf(step, statuses) == {i \in Asks : row[i] \in statuses /\ call[i].step = step}

PassInit ==
    /\ mode \in Modes /\ network \in BOOLEAN
    /\ job = "implement" /\ failed = FALSE
    /\ stored = [s \in WorkSteps |-> NoMessages]
    /\ row = [i \in Asks |-> "none"]
    /\ call = [i \in Asks |-> [step |-> "none", may |-> {TRUE}]]
    /\ attempts = 0 /\ round = 0 /\ pass = NoPass
    /\ ran = {} /\ agreed = {} /\ turnedDown = {} /\ passFaults = 0

-----------------------------------------------------------------------------
(* A pass *)

\* Mutant: a decision counts as an approval whichever it was.
ApprovedAll(step) == RowsOf(step, {"satisfied", "rejected"})

\* buildApprovalResponseMessages: every decision there is on the step's calls.
Approved(step) == RowsOf(step, {"satisfied"})

Denied(step) == RowsOf(step, {"rejected"})

\* A stored conversation is continued with the decisions and without the prompt; only a
\* new one has the prompt, and with it the verifier's notes.
BeginPass ==
    /\ pass.at = "none" /\ job \in WorkSteps /\ ~failed
    /\ RowsOf(job, {"pending"}) = {}
    /\ pass' = IF stored[job].begun
               THEN [NoPass EXCEPT !.at = "answers", !.messages = stored[job],
                                   !.approved = Approved(job), !.denied = Denied(job)]
               ELSE [NoPass EXCEPT !.at = "answers",
                                   !.messages = [NoMessages EXCEPT !.begun = TRUE,
                                                    !.notes = IF job = "implement" THEN round ELSE 0]]
    /\ UNCHANGED <<settings, job, failed, stored, row, call, counts, histories, passFaults>>

\* The library runs what was approved and has no result yet, and answers what was denied. A
\* decision on a call the conversation does not know makes it throw. Whether the results of what
\* was approved are among those of the pass is the library's affair.
AnswerApprovals ==
    LET decided == pass.approved \cup pass.denied
        due == pass.approved \ pass.messages.answered
    IN  /\ pass.at = "answers"
        /\ IF decided \subseteq pass.messages.asked
           THEN /\ ran' = ran \cup due
                /\ turnedDown' = turnedDown \cup (pass.denied \ pass.messages.answered)
                /\ \E clean \in {TRUE} \cup Results({call[i].may : i \in due}) :
                      pass' = [pass EXCEPT !.at = "model", !.clean = clean,
                                           !.messages.answered = @ \cup decided]
                /\ UNCHANGED failed
           ELSE /\ failed' = TRUE /\ pass' = NoPass
                /\ UNCHANGED <<ran, turnedDown>>
        /\ UNCHANGED <<settings, job, stored, row, call, counts, agreed, passFaults>>

\* A step of the model: it ends the pass with a text, or calls tools, of which one that needs no
\* approval stands for all that do not. Calls that need an approval ask for it, as many as there
\* are, and end the pass, the others are run; so does the last step there may be.
FreeCalls(step) == {Ends(t) : t \in {t \in ActiveTools(step) : ~NeedsApproval(t)}}
AskingCalls(step) == {Ends(t) : t \in {t \in ActiveTools(step) : NeedsApproval(t)}}
Unasked == {i \in Asks : call[i].step = "none"}
NewAsks == {new \in SUBSET Unasked \ {{}} : \A i \in new, j \in Unasked : j < i => j \in new}

ModelStep ==
    /\ pass.at = "model"
    /\ \/ /\ pass' = [pass EXCEPT !.at = "rows"]
          /\ UNCHANGED call
       \/ \E free \in FreeCalls(job) : \E clean \in Results({free}) :
             LET steps == pass.steps + 1
             IN  /\ pass' = [pass EXCEPT !.steps = steps, !.clean = @ /\ clean,
                                         !.at = IF steps = MaxAgentSteps THEN "rows" ELSE @]
                 /\ UNCHANGED call
       \/ \E free \in FreeCalls(job), new \in NewAsks :
             \E asking \in [new -> AskingCalls(job)], clean \in Results({free}) :
                /\ call' = [i \in Asks |-> IF i \in new THEN [step |-> job, may |-> asking[i]] ELSE call[i]]
                /\ pass' = [pass EXCEPT !.at = "rows", !.steps = @ + 1, !.clean = @ /\ clean,
                                !.messages.asked = @ \cup new, !.new = @ \cup new, !.rows = @ \cup new]
    /\ UNCHANGED <<settings, job, failed, stored, row, counts, histories, passFaults>>

\* Each request gets a row. The step's pending rows are removed first: there are none, as a pass
\* begins without any.
RecordRequest ==
    /\ pass.at = "rows"
    /\ \/ pass.rows = {} /\ pass' = [pass EXCEPT !.at = "save"] /\ UNCHANGED row
       \/ \E i \in pass.rows :
             /\ row' = [row EXCEPT ![i] = "pending"]
             /\ pass' = [pass EXCEPT !.rows = @ \ {i}]
    /\ UNCHANGED <<settings, job, failed, stored, call, counts, histories, passFaults>>

\* Mutant: the limit of attempts is compared with the attempts before this one.
SavePassOnceMore ==
    /\ pass.at = "save"
    /\ stored' = [stored EXCEPT ![job] = pass.messages]
    /\ job' = CASE pass.new # {} -> job
                [] pass.new = {} /\ job = "implement" -> "verify"
                [] pass.new = {} /\ job = "verify" /\ pass.clean -> "verified"
                [] OTHER -> IF attempts <= MaxAttempts THEN "implement" ELSE "blocked"
    /\ attempts' = IF job = "verify" THEN attempts + 1 ELSE attempts
    /\ round' = IF job = "verify" /\ pass.new = {} /\ ~pass.clean THEN round + 1 ELSE round
    /\ pass' = NoPass
    /\ UNCHANGED <<settings, failed, row, call, histories, passFaults>>

\* What ended with requests waits for them, an attempt gone; blockers of a verification send the
\* job back, and those of a pass that ended with requests are not looked at.
SavePass ==
    /\ pass.at = "save"
    /\ stored' = [stored EXCEPT ![job] = pass.messages]
    /\ job' = CASE pass.new # {} -> job
                [] pass.new = {} /\ job = "implement" -> "verify"
                [] pass.new = {} /\ job = "verify" /\ pass.clean -> "verified"
                [] OTHER -> IF attempts + 1 < MaxAttempts THEN "implement" ELSE "blocked"
    /\ attempts' = IF job = "verify" THEN attempts + 1 ELSE attempts
    /\ round' = IF job = "verify" /\ pass.new = {} /\ ~pass.clean THEN round + 1 ELSE round
    /\ pass' = NoPass
    /\ UNCHANGED <<settings, failed, row, call, histories, passFaults>>

-----------------------------------------------------------------------------
(* What happens to it *)

\* A decision is written whatever the row says: the console and the chat offer what is pending
\* when they look, which may be decided when the answer comes. Once nothing is pending at the step
\* the job is queued again.
DecideCall(i) ==
    /\ row[i] # "none"
    /\ \E s \in {"satisfied", "rejected"} :
          /\ row' = [row EXCEPT ![i] = s]
          /\ agreed' = IF s = "satisfied" THEN agreed \cup {i} ELSE agreed
    /\ failed' = (failed /\ RowsOf(job, {"pending"}) \ {i} # {})
    /\ UNCHANGED <<settings, job, stored, call, counts, pass, ran, turnedDown, passFaults>>

\* The runtime budget is over, the provider fails, a write fails: nothing of the pass is kept.
PassThrows ==
    /\ pass.at # "none" /\ passFaults < MaxPassFaults
    /\ passFaults' = passFaults + 1
    /\ failed' = TRUE /\ pass' = NoPass
    /\ UNCHANGED <<settings, job, stored, row, call, counts, histories>>

\* The worker dies in a pass; the redelivered job begins it again.
PassDies ==
    /\ pass.at # "none" /\ passFaults < MaxPassFaults
    /\ passFaults' = passFaults + 1
    /\ pass' = NoPass
    /\ UNCHANGED <<settings, job, failed, stored, row, call, counts, histories>>

\* The operator resumes the job at the step it failed in.
ResumeJob ==
    /\ failed /\ passFaults < MaxPassFaults
    /\ passFaults' = passFaults + 1
    /\ failed' = FALSE
    /\ UNCHANGED <<settings, job, stored, row, call, counts, pass, histories>>

PassNext ==
    \/ BeginPass \/ AnswerApprovals \/ ModelStep \/ RecordRequest \/ SavePass
    \/ \E i \in Asks : DecideCall(i)
    \/ PassThrows \/ PassDies \/ ResumeJob

PassSpec == PassInit /\ [][PassNext]_passVars

-----------------------------------------------------------------------------
(* Properties *)

PassTypeOK ==
    /\ mode \in Modes /\ network \in BOOLEAN
    /\ job \in WorkSteps \cup {"verified", "blocked"} /\ failed \in BOOLEAN
    /\ stored \in [WorkSteps -> Messages]
    /\ row \in [Asks -> {"none", "pending", "satisfied", "rejected"}]
    /\ call \in [Asks -> [step : WorkSteps \cup {"none"}, may : SUBSET BOOLEAN]]
    /\ attempts \in 0 .. MaxAttempts + MaxAsks /\ round \in Rounds /\ pass \in Pass
    /\ ran \subseteq Asks /\ agreed \subseteq Asks /\ turnedDown \subseteq Asks
    /\ passFaults \in 0 .. MaxPassFaults

\* A call that needs an approval is executed only after an operator has approved this very call,
\* however often the pass was interrupted, failed and begun again from what was stored. And the
\* first answer stays: decided again and again, a call the agent was told is denied is not
\* executed by a later approval, nor is an executed one answered as denied, while no pass is lost.
ApprovedOnly ==
    /\ ran \subseteq agreed
    /\ passFaults = 0 => ran \cap turnedDown = {}

\* What the passes come to for whoever asked for the job: every verification that was stored is a
\* verdict, and the notes of one with blockers are a repair unless the job was blocked instead.
Promise == INSTANCE JobPromise WITH
    Jobs     <- {"job"},
    outcome  <- [j \in {"job"} |-> IF failed THEN "closed" ELSE "open"],
    verified <- [j \in {"job"} |-> job = "verified"],
    rounds   <- [j \in {"job"} |-> attempts],
    repairs  <- [j \in {"job"} |-> IF job = "blocked" THEN round - 1 ELSE round]

\* The passes keep the promise of JobPromise: a stored verification counts one attempt whatever
\* it ended with, and none asks for a repair without an attempt left, however the passes are
\* interrupted, resumed and decided on (executeVerificationStep).
PassKeepsPromise == Promise!PromiseSpec

\* An implementation pass that follows a verification with blockers is told of them
\* (docs/plans/agent-jobs-completion-plan.md: "verification repair loop that can route failed
\* verification back into implementation"; makeImplementationPrompt: "Verification blockers to
\* address:"). It does not hold: the stored conversation takes the prompt's place.
RepairIsTold == (job = "implement" /\ pass.at = "model") => pass.messages.notes = round
=============================================================================
