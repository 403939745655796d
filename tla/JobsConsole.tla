----------------------------- MODULE JobsConsole -----------------------------
(***************************************************************************)
(* The page that shows the agent's build jobs: the list, the job that is   *)
(* selected, the detail shown, the poll that refreshes both while the job  *)
(* shown is active, and the operator's actions. Whatever has been asked    *)
(* for arrives at its own time; no load is cancelled by a later one.       *)
(***************************************************************************)
EXTENDS Naturals

CONSTANTS
    Builds,         \* jobs, positive numbers in the order they are listed in; 0 stands for none
    Looks,          \* slots for the loads that selections begin
    Presses,        \* slots for actions under way
    MaxTurns,       \* bound: changes of jobs, and maintenance actions, not asked for on this page
    MaxPicks,       \* bound: clicks
    MaxMisses       \* bound: failed requests

ASSUME ConsoleAssumption ==
    /\ Builds \subseteq Nat \ {0}
    /\ MaxTurns \in Nat /\ MaxPicks \in Nat /\ MaxMisses \in Nat
    /\ "create" \notin Presses

VARIABLES
    status,     \* the jobs as the worker has them
    listed,     \* the jobs as the page has them
    chosen,     \* selectedJobId
    view,       \* viewMode
    shown,      \* detail: the job and its status in it, none if there is no detail
    flow,       \* what each chain of requests waits for
    busyKey,    \* actionBusyKey
    sweep,      \* the administrator's maintenance: what it does, and the jobs it has left to do it to
    turnsMade, picks, misses    \* counted against the bounds

consoleVars == <<status, listed, chosen, view, shown, flow, busyKey, sweep, turnsMade, picks, misses>>

Nothing == 0
Active == {"running", "waiting"}            \* ACTIVE_JOB_STATUSES, by their two groups
Standings == Active \cup {"failed", "closed", "absent"}
Verbs == {"resume", "cancel", "approve", "deny"}
Keys == [verb : Verbs, job : Builds]
NoKey == [verb |-> "none", job |-> Nothing]
Detail == [of : Builds, as : Standings \ {"absent"}]
NoDetail == [of |-> Nothing, as |-> "absent"]
Sweeps == {"finished", "stale", "active"}
NoSweep == [does |-> "nothing", left |-> {}]

\* A chain posts something, then reloads the list, then the detail of its job; the loads are
\* answered with what the worker has, which the page sees later.
Chains == {"mount", "poll", "create"} \cup Looks \cup Presses
Stages == {"idle", "post", "list", "listed", "detail", "detailed"}
Ended == [at |-> "idle", verb |-> "none", job |-> Nothing, saw |-> [b \in Builds |-> "absent"]]
Asking(stage, b) == [Ended EXCEPT !.at = stage, !.job = b]

ConsoleInit ==
    /\ status \in [Builds -> {"absent", "waiting"}]
    /\ listed = [b \in Builds |-> "absent"]
    /\ chosen = Nothing /\ view = "operations" /\ shown = NoDetail
    /\ flow = [c \in Chains |-> IF c = "mount" THEN Asking("list", Nothing) ELSE Ended]
    /\ busyKey = NoKey /\ sweep = NoSweep
    /\ turnsMade = 0 /\ picks = 0 /\ misses = 0

-----------------------------------------------------------------------------
(* Selecting *)

First(S) == IF S = {} THEN Nothing ELSE CHOOSE b \in S : \A o \in S : b <= o
Operational(list) == {b \in Builds : list[b] \in Active}
History(list) == {b \in Builds : list[b] \in {"failed", "closed"}}

\* loadJobs: the preferred job if it is there, else the first that is not finished, else the first.
Selection(list, preferred) ==
    IF preferred # Nothing /\ list[preferred] # "absent" THEN preferred
    ELSE IF Operational(list) # {} THEN First(Operational(list))
    ELSE First(History(list))

\* activeDetailJobId and historyDetailJobId: the one job whose detail a view has a place for. In
\* the queue those that run come first.
InView(v) ==
    LET group == IF v = "operations" THEN Operational(listed) ELSE History(listed)
        running == {b \in group : listed[b] = "running"}
    IN  IF chosen \in group THEN chosen ELSE First(IF running # {} THEN running ELSE group)

\* setSelectedJobId, with `f` for the chains: another selection loads its detail, and none clears it.
\* The loads begun before go on.
Choose(b, f) ==
    /\ chosen' = b
    /\ IF b \in {chosen, Nothing} THEN flow' = f
       ELSE \E slot \in Looks : f[slot].at = "idle" /\ flow' = [f EXCEPT ![slot] = Asking("detail", b)]
    /\ shown' = IF b = Nothing THEN NoDetail ELSE shown

-----------------------------------------------------------------------------
(* Requests *)

\* The worker answers a load.
Answer(c) ==
    /\ flow[c].at \in {"list", "detail"}
    /\ flow' = [flow EXCEPT ![c].at = IF @ = "list" THEN "listed" ELSE "detailed",
                             ![c].saw = [b \in Builds |-> IF flow[c].at = "list" \/ b = flow[c].job
                                                          THEN status[b] ELSE "absent"]]
    /\ UNCHANGED <<status, listed, chosen, view, shown, busyKey, sweep, turnsMade, picks, misses>>

\* What follows the list; the first load of the page is for no job.
AfterList(c) == IF flow[c].job = Nothing THEN Ended ELSE [flow[c] EXCEPT !.at = "detail"]

ListArrives(c) ==
    /\ flow[c].at = "listed"
    /\ listed' = flow[c].saw
    /\ Choose(Selection(flow[c].saw, flow[c].job), [flow EXCEPT ![c] = AfterList(c)])
    /\ UNCHANGED <<status, view, busyKey, sweep, turnsMade, picks, misses>>

ListFails(c) ==
    /\ flow[c].at = "list"
    /\ misses < MaxMisses /\ misses' = misses + 1
    /\ flow' = [flow EXCEPT ![c] = AfterList(c)]
    /\ UNCHANGED <<status, listed, chosen, view, shown, busyKey, sweep, turnsMade, picks>>

\* The chain ends: `finally` frees whatever action is busy by now.
Ends(c) ==
    /\ flow' = [flow EXCEPT ![c] = Ended]
    /\ busyKey' = IF c \in Presses THEN NoKey ELSE busyKey
    /\ UNCHANGED <<listed, chosen, view, sweep, turnsMade, picks>>

\* The detail is shown whatever is selected by now; a job that is gone is an error.
DetailArrives(c) ==
    /\ flow[c].at = "detailed"
    /\ shown' = LET b == flow[c].job IN
                IF flow[c].saw[b] = "absent" THEN NoDetail ELSE [of |-> b, as |-> flow[c].saw[b]]
    /\ Ends(c)
    /\ UNCHANGED <<status, misses>>

DetailFails(c) ==
    /\ flow[c].at = "detail"
    /\ misses < MaxMisses /\ misses' = misses + 1
    /\ shown' = NoDetail
    /\ Ends(c)
    /\ UNCHANGED status

\* Mutant: only a job that runs is polled for.
PollsRunning(s) == s = "running"

Polls(s) == s \in Active

\* One poll at a time, while the detail shown is of an active job.
PollJobs ==
    /\ Polls(shown.as)
    /\ flow["poll"].at = "idle"
    /\ flow' = [flow EXCEPT !["poll"] = Asking("list", shown.of)]
    /\ UNCHANGED <<status, listed, chosen, view, shown, busyKey, sweep, turnsMade, picks, misses>>

-----------------------------------------------------------------------------
(* The operator *)

Click ==
    /\ picks < MaxPicks /\ picks' = picks + 1
    /\ UNCHANGED <<status, listed, sweep, turnsMade, misses>>

\* A row of the queue or of the history.
Pick(b) ==
    /\ Click
    /\ b \in IF view = "operations" THEN Operational(listed) ELSE History(listed)
    /\ Choose(b, flow)
    /\ UNCHANGED <<view, busyKey>>

\* The other tab selects the job it has a place for.
SwitchView ==
    /\ Click
    /\ view' = IF view = "operations" THEN "history" ELSE "operations"
    /\ Choose(IF InView(view') = Nothing THEN chosen ELSE InView(view'), flow)
    /\ UNCHANGED <<busyKey>>

\* The buttons of the detail are there if it is of the job in view; only the one that is busy, or
\* that has nothing left to act on, is disabled. A requirement may be pending whatever its job does.
Press(c, verb) ==
    /\ Click
    /\ shown.of # Nothing /\ shown.of = InView(view)
    /\ verb \in {"resume", "cancel"} => shown.as # "closed"
    /\ busyKey # [verb |-> verb, job |-> shown.of]
    /\ flow[c].at = "idle"
    /\ flow' = [flow EXCEPT ![c] = [Asking("post", shown.of) EXCEPT !.verb = verb]]
    /\ busyKey' = [verb |-> verb, job |-> shown.of]
    /\ UNCHANGED <<chosen, view, shown>>

\* The form for a new job is filled in and sent.
Submit ==
    /\ Click
    /\ view = "operations" /\ flow["create"].at = "idle"
    /\ flow' = [flow EXCEPT !["create"] = Asking("post", Nothing)]
    /\ UNCHANGED <<chosen, view, shown, busyKey>>

-----------------------------------------------------------------------------
(* The worker *)

\* Either decision puts a job back in the queue, over or not, once nothing is pending for its
\* current step.
DecisionOutcomes(s) == {s, "running"}

\* What an action may make of a job; one that is gone is not found. A job that is over is not
\* resumed but answered with, and it is cancelled all the same.
Outcomes(verb, s) ==
    IF s = "absent" THEN {}
    ELSE CASE verb = "resume" -> IF s = "closed" THEN {s} ELSE {"running"}
           [] verb = "cancel" -> {"closed"}
           [] verb \in {"approve", "deny"} -> DecisionOutcomes(s)

\* The answer names the job that is loaded next.
ActionDone(c) ==
    /\ c \in Presses /\ flow[c].at = "post"
    /\ \E s \in Outcomes(flow[c].verb, status[flow[c].job]) :
          status' = [status EXCEPT ![flow[c].job] = s]
    /\ flow' = [flow EXCEPT ![c].at = "list"]
    /\ UNCHANGED <<listed, chosen, view, shown, busyKey, sweep, turnsMade, picks, misses>>

Created ==
    /\ flow["create"].at = "post"
    /\ \E b \in Builds : /\ status[b] = "absent"
                         /\ status' = [status EXCEPT ![b] = "running"]
                         /\ flow' = [flow EXCEPT !["create"] = Asking("list", b)]
    /\ UNCHANGED <<listed, chosen, view, shown, busyKey, sweep, turnsMade, picks, misses>>

\* Refused: nothing is loaded.
PostFails(c) ==
    /\ flow[c].at = "post"
    /\ Ends(c)
    /\ UNCHANGED <<status, shown, misses>>

\* Failed after the job was written; a new one that cannot be queued is kept as failed.
PostBreaks(c) ==
    /\ flow[c].at = "post"
    /\ misses < MaxMisses /\ misses' = misses + 1
    /\ \E b \in Builds :
          /\ c = "create" => status[b] = "absent"
          /\ c # "create" => b = flow[c].job
          /\ \E s \in IF c = "create" THEN {"failed"} ELSE Outcomes(flow[c].verb, status[b]) :
                status' = [status EXCEPT ![b] = s]
    /\ Ends(c)
    /\ UNCHANGED shown

\* A job goes on, or is made or acted on elsewhere. One that is over may go on as well: a pass of the
\* worker writes over a cancel, and so does a late decision.
JobTurns(b) ==
    /\ turnsMade < MaxTurns /\ turnsMade' = turnsMade + 1
    /\ \E s \in IF status[b] = "absent" THEN {"running"} ELSE Standings \ {"absent", status[b]} :
          status' = [status EXCEPT ![b] = s]
    /\ UNCHANGED <<listed, chosen, view, shown, flow, busyKey, sweep, picks, misses>>

\* The jobs a maintenance action finds. A workspace may be missing from the disk whatever its job
\* does.
Found(kind) ==
    LET jobs == {b \in Builds : status[b] # "absent"} IN
    CASE kind = "finished" -> {{b \in jobs : status[b] \in {"failed", "closed"}}}
      [] kind = "active" -> {{b \in jobs : status[b] \in Active}}
      [] kind = "stale" -> SUBSET jobs

\* The administrator asks for a maintenance action; what it found is acted on later.
SweepStart(kind) ==
    /\ turnsMade < MaxTurns /\ turnsMade' = turnsMade + 1
    /\ sweep = NoSweep
    /\ \E S \in Found(kind) : S # {} /\ sweep' =
          [does |-> IF kind = "active" THEN "cancel" ELSE "delete", left |-> S]
    /\ UNCHANGED <<status, listed, chosen, view, shown, flow, busyKey, picks, misses>>

\* After the files of their artifacts the jobs go, whatever they do by now.
SweepDeletes ==
    /\ sweep.does = "delete"
    /\ status' = [b \in Builds |-> IF b \in sweep.left THEN "absent" ELSE status[b]]
    /\ sweep' = NoSweep
    /\ UNCHANGED <<listed, chosen, view, shown, flow, busyKey, turnsMade, picks, misses>>

\* Job by job, whatever it does by now; one that is gone is passed over.
SweepCancels(b) ==
    /\ sweep.does = "cancel" /\ b \in sweep.left
    /\ status' = [status EXCEPT ![b] = IF @ = "absent" THEN @ ELSE "closed"]
    /\ sweep' = IF sweep.left = {b} THEN NoSweep ELSE [sweep EXCEPT !.left = @ \ {b}]
    /\ UNCHANGED <<listed, chosen, view, shown, flow, busyKey, turnsMade, picks, misses>>

-----------------------------------------------------------------------------
(* The page *)

Advance(c) ==
    \/ Answer(c) \/ ListArrives(c) \/ ListFails(c) \/ DetailArrives(c) \/ DetailFails(c)
    \/ ActionDone(c) \/ PostFails(c) \/ PostBreaks(c)
    \/ c = "create" /\ Created

ConsoleNext ==
    \/ \E c \in Chains : Advance(c)
    \/ PollJobs
    \/ \E b \in Builds : Pick(b) \/ JobTurns(b) \/ SweepCancels(b)
    \/ \E kind \in Sweeps : SweepStart(kind)
    \/ SweepDeletes
    \/ SwitchView \/ Submit
    \/ \E c \in Presses, verb \in Verbs : Press(c, verb)

\* Requests end, and the timer fires while the page is visible: as long as there is something to
\* advance or to poll for, the page goes on with one of them.
PageProceeds == PollJobs \/ \E c \in Chains : Advance(c)
ConsoleSpec == ConsoleInit /\ [][ConsoleNext]_consoleVars /\ WF_consoleVars(PageProceeds)

-----------------------------------------------------------------------------
(* Properties *)

\* The variables stay of their kinds.
ConsoleTypeOK ==
    /\ status \in [Builds -> Standings] /\ listed \in [Builds -> Standings]
    /\ chosen \in Builds \cup {Nothing} /\ view \in {"operations", "history"}
    /\ shown \in Detail \cup {NoDetail}
    /\ flow \in [Chains -> [at : Stages, verb : Verbs \cup {"none"}, job : Builds \cup {Nothing},
                            saw : [Builds -> Standings]]]
    /\ busyKey \in Keys \cup {NoKey}
    /\ sweep \in [does : {"cancel", "delete"}, left : SUBSET Builds] \cup {NoSweep}
    /\ turnsMade \in 0 .. MaxTurns /\ picks \in 0 .. MaxPicks /\ misses \in 0 .. MaxMisses

\* The detail shown says active of a job that has ended or is gone.
Stale == shown.as \in Active /\ status[shown.of] \notin Active

\* A job that has ended is not shown as active for good: late details, failed loads and other
\* selections included, the poll goes on until it has seen the end.
ShownCatchesUp == []<>~Stale

=============================================================================
