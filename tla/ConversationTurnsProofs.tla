---------------------- MODULE ConversationTurnsProofs ----------------------
(***************************************************************************)
(* Theorems about ConversationTurns, for any sets of messages and clicks,  *)
(* whatever handlers overlap and wherever they break off.  After the types *)
(* and the grants, each part of the conversation has an invariant of its   *)
(* own: executions (ExecInv), proposals in hand (ProposalInv), the pending *)
(* proposal (AloneInv) and answers (AnswerInv).                            *)
(***************************************************************************)
EXTENDS ConversationTurns, FiniteSetTheorems, SequenceTheorems, TLAPS

(***************************************************************************)
(* The inductive invariant.                                                *)
(***************************************************************************)
\* Labels at which a handler has picked an execution, a requirement or a proposal.
WithExec   == {"prepareApproval", "decide", "run", "record", "trace", "denial", "append"}
WithReq    == {"prepareRequirement", "resolve"}
WithIntent == {"workspace", "decline", "createJob", "markLaunched"}

\* The row a handler picked exists.
Picked(h) ==
  /\ h.at \in WithExec => h.pick \in DOMAIN execs
  /\ h.at \in WithReq => h.pick \in DOMAIN reqs
  /\ h.at \in WithIntent => h.pick \in DOMAIN intents
  /\ h.at = "prepareLaunch" => h.pick = 0 \/ h.pick \in DOMAIN intents

\* What a handler is about to mark as done, it has done.
DidIt(h) ==
  /\ h.at = "record" /\ h.ok => execs[h.pick].runs > 0
  /\ h.at = "markLaunched" => intents[h.pick].jobs # <<>>

\* A request of the console only decides an execution.
OfClicks == {"idle", "decide", "run", "record", "trace", "denial", "append", "answer", "done"}
InPlace(p, h) == p \in Turns \/ h.at \in OfClicks

HandlersSound == \A p \in Procs : Picked(proc[p]) /\ DidIt(proc[p]) /\ InPlace(p, proc[p])

\* Runs that took place and runs about to take place are granted.
Runners(e) == {p \in Procs : proc[p].at = "run" /\ proc[p].pick = e}

RunsCovered ==
  \A e \in DOMAIN execs : execs[e].runs + Cardinality(Runners(e)) <= execs[e].grants

\* What MarkedWhenDone says of marks that are made after the deed.
Marked == ApprovedWereRun /\ LaunchedHaveJobs

IInv == TablesOK /\ HandlersSound /\ Marked /\ RunsCovered

(***************************************************************************)
(* Rows and handlers that change one at a time.                            *)
(***************************************************************************)
\* What a table of executions holds.
LEMMA ExecutionRows ==
  ASSUME NEW s \in Seq(Execution)
  PROVE  /\ DOMAIN s = 1..Len(s) /\ Len(s) \in Nat
         /\ \A e \in DOMAIN s : s[e].runs \in Nat /\ s[e].grants \in Nat
<1>1. DOMAIN s = 1..Len(s) /\ Len(s) \in Nat /\ \A e \in DOMAIN s : s[e] \in Execution
  OBVIOUS
<1>2. \A x \in Execution : x.runs \in Nat /\ x.grants \in Nat
  BY DEF Execution
<1> QED
  BY <1>1, <1>2

\* What a table of proposals holds.
LEMMA IntentRows ==
  ASSUME NEW s \in Seq(Intent)
  PROVE  /\ DOMAIN s = 1..Len(s) /\ Len(s) \in Nat
         /\ \A i \in DOMAIN s : /\ s[i] \in Intent
                                /\ s[i].workspace \in Paths \cup {Home}
                                /\ s[i].original \in Paths \cup {Home}
                                /\ s[i].jobs \in Seq(Paths \cup {Home})
<1>1. DOMAIN s = 1..Len(s) /\ Len(s) \in Nat /\ \A i \in DOMAIN s : s[i] \in Intent
  OBVIOUS
<1>2. \A x \in Intent : /\ x.workspace \in Paths \cup {Home} /\ x.original \in Paths \cup {Home}
                        /\ x.jobs \in Seq(Paths \cup {Home})
  BY DEF Intent
<1> QED
  BY <1>1, <1>2

\* A row that is changed leaves the table a table of the same length.
LEMMA Updated ==
  ASSUME NEW S, NEW s \in Seq(S), NEW i \in DOMAIN s, NEW e \in S
  PROVE  /\ [s EXCEPT ![i] = e] \in Seq(S)
         /\ Len([s EXCEPT ![i] = e]) = Len(s)
         /\ DOMAIN [s EXCEPT ![i] = e] = DOMAIN s
         /\ \A k \in DOMAIN s : [s EXCEPT ![i] = e][k] = IF k = i THEN e ELSE s[k]
  BY ExceptSeq

\* The handlers are finitely many, so those that run a tool can be counted.
LEMMA RunnersFinite ==
  \A e : IsFiniteSet(Runners(e)) /\ Cardinality(Runners(e)) \in Nat
<1>1. IsFiniteSet(Procs)
  BY ProcsAssumption, FS_Union DEF Procs
<1>2. \A e : Runners(e) \subseteq Procs
  BY DEF Runners
<1> QED
  BY <1>1, <1>2, FS_Subset, FS_CardinalityType

\* As long as nobody starts to run a tool and the counts of the rows stay, runs stay covered.
LEMMA CoveredKept ==
  ASSUME IInv, TablesOK',
         DOMAIN execs' = DOMAIN execs,
         \A e \in DOMAIN execs : execs'[e].runs = execs[e].runs /\ execs'[e].grants = execs[e].grants,
         \A q \in Procs : proc'[q].at = "run" => proc[q].at = "run" /\ proc'[q].pick = proc[q].pick
  PROVE  RunsCovered'
<1> SUFFICES ASSUME NEW e \in DOMAIN execs
             PROVE  execs'[e].runs + Cardinality(Runners(e)') <= execs'[e].grants
  BY DEF RunsCovered
<1>1. Runners(e)' \subseteq Runners(e)
  BY DEF Runners
<1>2. Cardinality(Runners(e)') <= Cardinality(Runners(e)) /\ Cardinality(Runners(e)') \in Nat
  BY <1>1, RunnersFinite, FS_Subset, FS_CardinalityType
<1>3. execs[e].runs \in Nat /\ execs[e].grants \in Nat
  BY ExecutionRows DEF IInv, TablesOK
<1> QED
  BY <1>2, <1>3, RunnersFinite DEF IInv, RunsCovered

\* A handler may move on if it is sound where it goes, while rows are only added to and keep
\* the runs and the jobs they have.
LEMMA StepKeeps ==
  ASSUME IInv,
         NEW p \in Procs, NEW h \in Handler, proc' = [proc EXCEPT ![p] = h],
         TablesOK', Marked', RunsCovered',
         Picked(h)', DidIt(h)', InPlace(p, h),
         Len(execs) <= Len(execs'), Len(intents) <= Len(intents'), Len(reqs) <= Len(reqs'),
         \A e \in DOMAIN execs : execs[e].runs <= execs'[e].runs,
         \A i \in DOMAIN intents : intents[i].jobs # <<>> => intents'[i].jobs # <<>>
  PROVE  IInv'
<1>1. /\ DOMAIN execs \subseteq DOMAIN execs'
      /\ DOMAIN intents \subseteq DOMAIN intents'
      /\ DOMAIN reqs \subseteq DOMAIN reqs'
  BY DEF IInv, TablesOK
<1>2. \A e \in DOMAIN execs : execs[e].runs \in Nat /\ execs'[e].runs \in Nat
  BY <1>1, ExecutionRows DEF IInv, TablesOK
<1>3. ASSUME NEW q \in Procs PROVE Picked(proc[q])' /\ DidIt(proc[q])' /\ InPlace(q, proc[q])'
  <2>1. CASE q = p
    <3>1. proc'[q] = h
      BY <2>1 DEF IInv, TablesOK
    <3> QED
      BY <2>1, <3>1 DEF Picked, WithExec, WithReq, WithIntent, DidIt, InPlace, OfClicks
  <2>2. CASE q # p
    <3>1. proc'[q] = proc[q]
      BY <2>2 DEF IInv, TablesOK
    <3>2. Picked(proc[q]) /\ DidIt(proc[q]) /\ InPlace(q, proc[q])
      BY DEF IInv, HandlersSound
    <3>3. Picked(proc[q])'
      BY <1>1, <3>1, <3>2 DEF Picked, WithExec, WithReq, WithIntent
    <3>4. DidIt(proc[q])'
      BY <1>1, <1>2, <3>1, <3>2 DEF Picked, WithExec, WithReq, WithIntent, DidIt
    <3> QED
      BY <3>1, <3>2, <3>3, <3>4 DEF InPlace
  <2> QED
    BY <2>1, <2>2
<1> QED
  BY <1>3 DEF IInv, HandlersSound

\* A handler may move on, changing no row, to whatever it is sound to do.
LEMMA MoveKeeps ==
  ASSUME IInv, UNCHANGED rows,
         NEW p \in Procs, NEW h \in Handler, proc' = [proc EXCEPT ![p] = h],
         Picked(h), DidIt(h), InPlace(p, h), h.at # "run",
         asked' \subseteq Turns, answered' \subseteq Turns, told' \subseteq DOMAIN execs
  PROVE  IInv'
<1>1. TablesOK'
  BY DEF IInv, TablesOK, rows
<1>2. Marked'
  BY DEF IInv, Marked, ApprovedWereRun, LaunchedHaveJobs, rows
<1>3. RunsCovered'
  <2>1. \A q \in Procs : proc'[q].at = "run" => proc[q].at = "run" /\ proc'[q].pick = proc[q].pick
    BY DEF IInv, TablesOK
  <2> QED
    BY <1>1, <2>1, CoveredKept DEF IInv, rows
<1>4. Picked(h)' /\ DidIt(h)'
  BY DEF Picked, WithExec, WithReq, WithIntent, DidIt, rows
<1>5. /\ Len(execs) <= Len(execs') /\ Len(intents) <= Len(intents') /\ Len(reqs) <= Len(reqs')
      /\ \A e \in DOMAIN execs : execs[e].runs <= execs'[e].runs
      /\ \A i \in DOMAIN intents : intents[i].jobs # <<>> => intents'[i].jobs # <<>>
  BY ExecutionRows DEF IInv, TablesOK, rows
<1> QED
  BY <1>1, <1>2, <1>3, <1>4, <1>5, StepKeeps

\* What a handler knows when it goes to another label.
LEMMA Going ==
  ASSUME IInv, NEW p \in Procs
  PROVE  /\ proc[p] \in Handler
         /\ Picked(proc[p]) /\ DidIt(proc[p]) /\ InPlace(p, proc[p])
         /\ \A l \in Labels :
              /\ [proc[p] EXCEPT !.at = l] \in Handler
              /\ [proc[p] EXCEPT !.at = l].at = l
              /\ [proc[p] EXCEPT !.at = l].pick = proc[p].pick
              /\ [proc[p] EXCEPT !.at = l].ok = proc[p].ok
  BY DEF IInv, TablesOK, HandlersSound, Handler

\* A handler at rest is sound.
LEMMA RestingSound ==
  ASSUME NEW p, NEW l \in {"idle", "done"}
  PROVE  /\ Resting(l) \in Handler
         /\ Resting(l).at = l
         /\ Picked(Resting(l)) /\ DidIt(Resting(l)) /\ InPlace(p, Resting(l))
<1>1. Plain("talk") \in Texts /\ Plain("talk") = [says |-> "talk", build |-> FALSE, path |-> NoPath]
  BY DEF Plain, Texts, Meanings
<1> QED
  BY <1>1 DEF Resting, Handler, Labels, Picked, WithExec, WithReq, WithIntent, DidIt, InPlace, OfClicks

(***************************************************************************)
(* Tools.                                                                  *)
(***************************************************************************)
\* A message and a click find a handler at rest.
LEMMA ArriveKeeps ==
  ASSUME IInv, NEW p \in Procs, Send(p) \/ Click(p)
  PROVE  IInv'
<1>1. PICK text \in Texts, n \in Nat, l \in {"tools", "decide"} :
        /\ Arrive(p, text, n, l)
        /\ l = "tools" => p \in Turns
        /\ l = "decide" => n \in DOMAIN execs
  <2>1. CASE Send(p)
    BY <2>1 DEF Send, Messages
  <2>2. CASE Click(p)
    <3>1. \A says \in {"approve", "deny"} : Plain(says) \in Texts
      BY DEF Plain, Texts, Meanings
    <3>2. DOMAIN execs \subseteq Nat
      BY ExecutionRows DEF IInv, TablesOK
    <3> QED
      BY <2>2, <3>1, <3>2 DEF Click
  <2> QED
    BY <2>1, <2>2
<1> DEFINE h == [Resting(l) EXCEPT !.text = text, !.pick = n]
<1>2. h \in Handler /\ h.at = l /\ h.pick = n
  BY DEF Resting, Handler, Labels
<1>3. Picked(h) /\ DidIt(h) /\ InPlace(p, h) /\ h.at # "run"
  BY <1>1, <1>2 DEF Picked, WithExec, WithReq, WithIntent, DidIt, InPlace, OfClicks
<1>4. proc' = [proc EXCEPT ![p] = h]
  BY <1>1 DEF Arrive
<1>5. UNCHANGED rows /\ UNCHANGED chat
  BY <1>1 DEF Arrive, IInv, TablesOK
<1> HIDE DEF h
<1> QED
  BY <1>2, <1>3, <1>4, <1>5, MoveKeeps DEF chat, IInv, TablesOK

\* Each handler at a label of the turns is a turn's.
LEMMA TurnsAlone ==
  ASSUME IInv, NEW p \in Procs, proc[p].at \notin OfClicks
  PROVE  p \in Turns
  BY Going DEF InPlace

\* Where a handler may go with the row it has picked.
MayGo(p, l) ==
  /\ \/ l \notin WithExec \cup WithReq \cup WithIntent \cup {"prepareLaunch"}
     \/ l \in WithExec /\ proc[p].at \in WithExec
     \/ l \in WithReq /\ proc[p].at \in WithReq
     \/ l \in WithIntent /\ proc[p].at \in WithIntent
     \/ l \in WithIntent /\ proc[p].at = "prepareLaunch" /\ proc[p].pick # 0
  /\ l \in OfClicks \/ proc[p].at \notin OfClicks

LEMMA MovesSound ==
  ASSUME IInv, NEW p \in Procs, NEW l \in Labels, MayGo(p, l)
  PROVE  Picked([proc[p] EXCEPT !.at = l]) /\ InPlace(p, [proc[p] EXCEPT !.at = l])
<1> DEFINE h == [proc[p] EXCEPT !.at = l]
<1>1. h.at = l /\ h.pick = proc[p].pick /\ Picked(proc[p]) /\ InPlace(p, proc[p])
  BY Going
<1> HIDE DEF h
<1>2. Picked(h)
  BY <1>1 DEF MayGo, Picked, WithExec, WithReq, WithIntent
<1>3. InPlace(p, h)
  BY <1>1 DEF MayGo, InPlace
<1> QED
  BY <1>2, <1>3 DEF h

\* Handlers that only look, prepare their turn, or persist their answer.
LEMMA QuietKeeps ==
  ASSUME IInv, NEW p \in Procs, NEW l \in Labels \ {"run", "record", "markLaunched"},
         Goto(p, l), MayGo(p, l), UNCHANGED rows,
         asked' \subseteq Turns, answered' \subseteq Turns, told' \subseteq DOMAIN execs
  PROVE  IInv'
<1> DEFINE h == [proc[p] EXCEPT !.at = l]
<1>1. h \in Handler /\ h.at = l
  BY Going
<1>2. Picked(h) /\ InPlace(p, h)
  BY MovesSound
<1>3. proc' = [proc EXCEPT ![p] = h]
  BY DEF Goto
<1> HIDE DEF h
<1>5. DidIt(h) /\ h.at # "run"
  BY <1>1 DEF DidIt
<1> QED
  BY <1>1, <1>2, <1>3, <1>5, MoveKeeps

\* A user message is persisted for a turn, and assistant messages stay.
LEMMA Asking ==
  ASSUME IInv, NEW p \in Procs, Ask(p) \/ UNCHANGED chat, Ask(p) => p \in Turns
  PROVE  asked' \subseteq Turns /\ answered' \subseteq Turns /\ told' \subseteq DOMAIN execs
  BY DEF Ask, chat, IInv, TablesOK

\* Handlers that pick a row.
LEMMA ChoiceKeeps ==
  ASSUME IInv, NEW p \in Turns, NEW h \in Handler, proc' = [proc EXCEPT ![p] = h],
         h.at \notin {"run", "record", "markLaunched"}, Picked(h),
         UNCHANGED rows, UNCHANGED chat
  PROVE  IInv'
<1>1. p \in Procs
  BY DEF Procs
<1>2. DidIt(h) /\ InPlace(p, h) /\ h.at # "run"
  BY DEF DidIt, InPlace
<1>3. asked' \subseteq Turns /\ answered' \subseteq Turns /\ told' \subseteq DOMAIN execs
  BY DEF chat, IInv, TablesOK
<1> QED
  BY <1>1, <1>2, <1>3, MoveKeeps

\* Preparing a turn and generating a reply change no row.
LEMMA PreparingKeeps ==
  ASSUME IInv, NEW p \in Procs,
         \/ RouteTool(p) \/ TraceRun(p) \/ PrepareApproval(p) \/ PrepareRequirement(p)
         \/ PrepareLaunch(p) \/ PrepareChat(p) \/ Reply(p)
  PROVE  IInv'
<1>1. UNCHANGED rows /\ (Ask(p) \/ UNCHANGED chat)
  BY DEF RouteTool, TraceRun, PrepareApproval, PrepareRequirement, PrepareLaunch, PrepareChat,
         Reply, rows
<1>2. TraceRun(p) \/ proc[p].at \notin OfClicks
  BY DEF RouteTool, PrepareApproval, PrepareRequirement, PrepareLaunch, PrepareChat, Reply, At,
         OfClicks
<1>3. \E l \in Labels \ {"run", "record", "markLaunched"} : Goto(p, l) /\ MayGo(p, l)
  <2> USE DEF At, Says, Pick
  <2>1. CASE RouteTool(p)
    <3>1. MayGo(p, "create") /\ MayGo(p, "approval")
      BY <1>2, <2>1 DEF RouteTool, TraceRun, MayGo, WithExec, WithReq, WithIntent, OfClicks
    <3> QED
      BY <2>1, <3>1 DEF RouteTool, Labels
  <2>2. CASE TraceRun(p)
    <3>1. MayGo(p, "answer") /\ MayGo(p, "append")
      BY <2>2 DEF TraceRun, MayGo, WithExec, WithReq, WithIntent, OfClicks
    <3>2. Goto(p, "answer") \/ Goto(p, "append")
      BY <2>2 DEF TraceRun
    <3> QED
      BY <3>1, <3>2 DEF Labels
  <2>3. CASE PrepareApproval(p)
    <3>1. MayGo(p, "answer") /\ MayGo(p, "decide")
      BY <2>3 DEF PrepareApproval, MayGo, WithExec, WithReq, WithIntent, OfClicks
    <3>2. Goto(p, "answer") \/ Goto(p, "decide")
      BY <2>3 DEF PrepareApproval
    <3> QED
      BY <3>1, <3>2 DEF Labels
  <2>4. CASE PrepareRequirement(p)
    <3>1. MayGo(p, "answer") /\ MayGo(p, "resolve")
      BY <2>4 DEF PrepareRequirement, MayGo, WithExec, WithReq, WithIntent, OfClicks
    <3>2. Goto(p, "answer") \/ Goto(p, "resolve")
      BY <2>4 DEF PrepareRequirement
    <3> QED
      BY <3>1, <3>2 DEF Labels
  <2>5. CASE PrepareLaunch(p)
    <3>1. MayGo(p, "supersede") /\ (proc[p].pick # 0 => MayGo(p, "workspace"))
      BY <2>5 DEF PrepareLaunch, MayGo, WithExec, WithReq, WithIntent, OfClicks
    <3>2. Goto(p, "supersede") \/ (proc[p].pick # 0 /\ Goto(p, "workspace"))
      BY <2>5 DEF PrepareLaunch
    <3> QED
      BY <3>1, <3>2 DEF Labels
  <2>6. CASE PrepareChat(p) \/ Reply(p)
    <3>1. MayGo(p, "reply") /\ MayGo(p, "answer")
      BY <2>6 DEF PrepareChat, Reply, MayGo, WithExec, WithReq, WithIntent, OfClicks
    <3> QED
      BY <2>6, <3>1 DEF PrepareChat, Reply, Labels
  <2> QED
    BY <2>1, <2>2, <2>3, <2>4, <2>5, <2>6
<1>4. asked' \subseteq Turns /\ answered' \subseteq Turns /\ told' \subseteq DOMAIN execs
  <2>1. CASE TraceRun(p)
    BY <2>1 DEF TraceRun, chat, IInv, TablesOK
  <2>2. CASE ~TraceRun(p)
    BY <1>1, <1>2, <2>2, TurnsAlone, Asking
  <2> QED
    BY <2>1, <2>2
<1> QED
  BY <1>1, <1>3, <1>4, QuietKeeps

\* What a handler that picked a row is.
LEMMA Chosen ==
  ASSUME IInv, NEW p \in Procs, NEW n \in Nat, NEW l \in Labels, Choose(p, n, l)
  PROVE  \E h \in Handler : /\ h.at = l /\ h.pick = n /\ h.text = proc[p].text
                            /\ proc' = [proc EXCEPT ![p] = h]
<1> DEFINE h == [proc[p] EXCEPT !.at = l, !.pick = n]
<1>1. h \in Handler /\ h.at = l /\ h.pick = n /\ h.text = proc[p].text
  BY Going DEF Handler
<1>2. proc' = [proc EXCEPT ![p] = h]
  BY DEF Choose
<1> QED
  BY <1>1, <1>2

LEMMA Found ==
  ASSUME IInv, NEW p \in Procs, NEW n \in DOMAIN intents, NEW l \in Labels, Find(p, n, l)
  PROVE  \E h \in Handler : /\ h.at = l /\ h.pick = n /\ h.text = proc[p].text
                            /\ proc' = [proc EXCEPT ![p] = h]
<1> DEFINE h == [proc[p] EXCEPT !.at = l, !.pick = n, !.seen = intents[n].workspace]
<1>1. intents[n].workspace \in Paths \cup {Home} /\ n \in Nat
  BY IntentRows DEF IInv, TablesOK
<1>2. h \in Handler /\ h.at = l /\ h.pick = n /\ h.text = proc[p].text
  BY <1>1, Going DEF Handler
<1>3. proc' = [proc EXCEPT ![p] = h]
  BY DEF Find
<1> QED
  BY <1>2, <1>3

\* Looking for what waits picks a row that exists.
LEMMA RoutingKeeps ==
  ASSUME IInv, NEW p \in Procs, RouteApproval(p) \/ RouteRequirement(p) \/ RouteLaunch(p)
  PROVE  IInv'
<1>1. UNCHANGED rows /\ UNCHANGED chat
  BY DEF RouteApproval, RouteRequirement, RouteLaunch, rows, chat
<1>2. proc[p].at \notin OfClicks /\ p \in Turns
  BY TurnsAlone DEF RouteApproval, RouteRequirement, RouteLaunch, At, OfClicks
<1>3. asked' \subseteq Turns /\ answered' \subseteq Turns /\ told' \subseteq DOMAIN execs
  BY <1>1 DEF chat, IInv, TablesOK
<1>4. ASSUME NEW l \in {"requirement", "launch", "chat"}, Goto(p, l)
      PROVE  IInv'
  <2>1. MayGo(p, l) /\ l \in Labels \ {"run", "record", "markLaunched"}
    BY <1>2 DEF MayGo, WithExec, WithReq, WithIntent, OfClicks, Labels
  <2> QED
    BY <1>1, <1>3, <1>4, <2>1, QuietKeeps
<1>5. ASSUME NEW n \in Nat, NEW l \in {"prepareApproval", "prepareRequirement", "prepareLaunch", "chat"},
             Choose(p, n, l),
             l = "prepareApproval" => n \in DOMAIN execs,
             l = "prepareRequirement" => n \in DOMAIN reqs,
             l = "prepareLaunch" => n = 0
      PROVE  IInv'
  <2>1. l \in Labels
    BY DEF Labels
  <2>2. PICK h \in Handler : h.at = l /\ h.pick = n /\ proc' = [proc EXCEPT ![p] = h]
    BY <1>5, <2>1, Chosen
  <2>3. Picked(h) /\ h.at \notin {"run", "record", "markLaunched"}
    BY <1>5, <2>2 DEF Picked, WithExec, WithReq, WithIntent
  <2> QED
    BY <1>1, <1>2, <2>2, <2>3, ChoiceKeeps
<1>6. CASE RouteApproval(p)
  <2>1. Newest(PendingExecs) \subseteq DOMAIN execs /\ DOMAIN execs \subseteq Nat
    BY ExecutionRows DEF Newest, PendingExecs, IInv, TablesOK
  <2>2. \/ \E e \in Newest(PendingExecs) : Choose(p, e, "prepareApproval")
        \/ Goto(p, "requirement")
    BY <1>6 DEF RouteApproval
  <2> QED
    BY <1>4, <1>5, <2>1, <2>2
<1>7. CASE RouteRequirement(p)
  <2>1. Newest(Waiting(reqs)) \subseteq DOMAIN reqs /\ DOMAIN reqs \subseteq Nat
    BY DEF Newest, Waiting, IInv, TablesOK
  <2>2. \/ \E r \in Newest(Waiting(reqs)) : Choose(p, r, "prepareRequirement")
        \/ Goto(p, "launch")
    BY <1>7 DEF RouteRequirement
  <2> QED
    BY <1>4, <1>5, <2>1, <2>2
<1>8. CASE RouteLaunch(p)
  <2>1. ASSUME NEW i \in Newest(PendingIntents), Find(p, i, "prepareLaunch")
        PROVE  IInv'
    <3>1. i \in DOMAIN intents /\ "prepareLaunch" \in Labels
      BY DEF Newest, PendingIntents, Labels
    <3>2. PICK h \in Handler : h.at = "prepareLaunch" /\ h.pick = i /\ proc' = [proc EXCEPT ![p] = h]
      BY <2>1, <3>1, Found
    <3>3. Picked(h) /\ h.at \notin {"run", "record", "markLaunched"}
      BY <3>1, <3>2 DEF Picked, WithExec, WithReq, WithIntent
    <3> QED
      BY <1>1, <1>2, <3>2, <3>3, ChoiceKeeps
  <2>2. \/ \E i \in Newest(PendingIntents) : Find(p, i, "prepareLaunch")
        \/ Choose(p, 0, "prepareLaunch") \/ Choose(p, 0, "chat")
    BY <1>8 DEF RouteLaunch
  <2> QED
    BY <1>5, <2>1, <2>2
<1> QED
  BY <1>6, <1>7, <1>8

\* A handler that ends leaves the rows as they are.
LEMMA EndKeeps ==
  ASSUME IInv, NEW p \in Procs, Finish(p), UNCHANGED rows,
         asked' \subseteq Turns, answered' \subseteq Turns, told' \subseteq DOMAIN execs
  PROVE  IInv'
<1>1. /\ Resting("done") \in Handler /\ Resting("done").at = "done"
      /\ Picked(Resting("done")) /\ DidIt(Resting("done")) /\ InPlace(p, Resting("done"))
  BY RestingSound
<1> QED
  BY <1>1, MoveKeeps DEF Finish

LEMMA AnswerKeeps ==
  ASSUME IInv, NEW p \in Procs, Answer(p)
  PROVE  IInv'
<1>1. asked' \subseteq Turns /\ answered' \subseteq Turns /\ told' \subseteq DOMAIN execs
  BY DEF Answer, IInv, TablesOK
<1> QED
  BY <1>1, EndKeeps DEF Answer, rows

(***************************************************************************)
(* Writes to executions.                                                   *)
(***************************************************************************)
\* A handler may write the execution it picked, if the row it writes does not claim a run
\* that did not take place, and what it does next is sound.
LEMMA WriteKeeps ==
  ASSUME IInv, NEW p \in Procs, proc[p].at \in WithExec,
         NEW h \in Handler, proc' = [proc EXCEPT ![p] = h],
         h.pick = proc[p].pick, h.at \in WithExec \cap OfClicks,
         NEW row \in Execution, execs' = [execs EXCEPT ![proc[p].pick] = row],
         execs[proc[p].pick].runs <= row.runs,
         row.approval = "approved" /\ row.status = "completed" => row.runs > 0,
         h.at = "record" => row.runs > 0,
         RunsCovered', UNCHANGED <<intents, reqs, chat>>
  PROVE  IInv'
<1>1. proc[p].pick \in DOMAIN execs /\ execs \in Seq(Execution)
  BY Going DEF Picked, IInv, TablesOK
<1>2. /\ execs' \in Seq(Execution) /\ Len(execs') = Len(execs) /\ DOMAIN execs' = DOMAIN execs
      /\ \A e \in DOMAIN execs : execs'[e] = IF e = proc[p].pick THEN row ELSE execs[e]
  BY <1>1, Updated
<1>3. TablesOK'
  BY <1>2 DEF IInv, TablesOK, chat
<1>4. Marked'
  BY <1>2 DEF IInv, Marked, ApprovedWereRun, LaunchedHaveJobs
<1>5. Picked(h)' /\ DidIt(h)' /\ InPlace(p, h)
  BY <1>1, <1>2 DEF Picked, DidIt, InPlace, WithExec, WithReq, WithIntent
<1>6. \A e \in DOMAIN execs : execs[e].runs <= execs'[e].runs
  BY <1>1, <1>2, ExecutionRows
<1>7. /\ Len(execs) <= Len(execs') /\ Len(intents) <= Len(intents') /\ Len(reqs) <= Len(reqs')
      /\ \A i \in DOMAIN intents : intents[i].jobs # <<>> => intents'[i].jobs # <<>>
  BY <1>1, <1>2, ExecutionRows, IntentRows DEF IInv, TablesOK
<1> QED
  BY <1>3, <1>4, <1>5, <1>6, <1>7, StepKeeps

\* The result of a run, or a denial, is written.
LEMMA MarkingKeeps ==
  ASSUME IInv, NEW p \in Procs, RecordRun(p) \/ WriteDenial(p)
  PROVE  IInv'
<1> DEFINE old == execs[proc[p].pick]
           row == IF RecordRun(p)
                  THEN [old EXCEPT !.status = IF proc[p].ok THEN "completed" ELSE "failed",
                                   !.approval = IF Says(p) = "tool" THEN @ ELSE "approved"]
                  ELSE [old EXCEPT !.approval = "denied", !.status = "denied"]
           l == IF RecordRun(p) THEN "trace" ELSE "append"
           h == [proc[p] EXCEPT !.at = l]
<1>1. proc[p].at \in {"record", "denial"} /\ (RecordRun(p) <=> proc[p].at = "record")
  BY DEF RecordRun, WriteDenial, At
<1>2. proc[p].pick \in DOMAIN execs /\ old \in Execution
  BY <1>1, Going DEF Picked, WithExec, IInv, TablesOK
<1>3. /\ row \in Execution /\ row.runs = old.runs /\ row.grants = old.grants
      /\ old.runs \in Nat
      /\ row.approval = "approved" /\ row.status = "completed" => RecordRun(p) /\ proc[p].ok
  BY <1>2 DEF Execution, Approvals
<1>4. h \in Handler /\ h.at = l /\ h.pick = proc[p].pick /\ l \in {"trace", "append"}
  <2>1. l \in {"trace", "append"} /\ l \in Labels
    BY DEF Labels
  <2> HIDE DEF l
  <2> QED
    BY <2>1, Going
<1>5. proc' = [proc EXCEPT ![p] = h]
  BY <1>1 DEF RecordRun, WriteDenial, Goto, At
<1>6. execs' = [execs EXCEPT ![proc[p].pick] = row]
  BY <1>1, <1>2 DEF RecordRun, WriteDenial, Pick, At
<1>7. UNCHANGED <<intents, reqs, chat>>
  BY DEF RecordRun, WriteDenial
<1>8. RecordRun(p) /\ proc[p].ok => old.runs > 0
  BY <1>1, Going DEF DidIt
<1> HIDE DEF row, h, l
<1>9. RunsCovered'
  <2>1. /\ execs' \in Seq(Execution) /\ DOMAIN execs' = DOMAIN execs
        /\ \A e \in DOMAIN execs : execs'[e] = IF e = proc[p].pick THEN row ELSE execs[e]
    BY <1>2, <1>3, <1>6, Updated DEF IInv, TablesOK
  <2>2. TablesOK'
    BY <1>4, <1>5, <1>7, <2>1 DEF IInv, TablesOK, chat
  <2>3. \A q \in Procs : proc'[q].at = "run" => proc[q].at = "run" /\ proc'[q].pick = proc[q].pick
    BY <1>4, <1>5 DEF IInv, TablesOK
  <2> QED
    BY <1>3, <2>1, <2>2, <2>3, CoveredKept
<1>10. proc[p].at \in WithExec /\ h.at \in WithExec \cap OfClicks /\ h.at # "record"
  BY <1>1, <1>4 DEF WithExec, OfClicks
<1>11. /\ execs[proc[p].pick].runs <= row.runs
       /\ row.approval = "approved" /\ row.status = "completed" => row.runs > 0
  BY <1>3, <1>8
<1> HIDE DEF old
<1> QED
  BY <1>3, <1>4, <1>5, <1>6, <1>7, <1>9, <1>10, <1>11, WriteKeeps

\* A yes is one more grant of the row.
LEMMA Granted ==
  ASSUME NEW old \in Execution
  PROVE  /\ [old EXCEPT !.grants = @ + 1] \in Execution
         /\ [old EXCEPT !.grants = @ + 1].runs = old.runs
         /\ [old EXCEPT !.grants = @ + 1].grants = old.grants + 1
         /\ [old EXCEPT !.grants = @ + 1].approval = old.approval
         /\ old.runs \in Nat /\ old.grants \in Nat
  BY DEF Execution

\* A handler that starts to run a tool has been granted the run.
LEMMA DecideKeeps ==
  ASSUME IInv, NEW p \in Procs, Decide(p)
  PROVE  IInv'
<1> DEFINE i == proc[p].pick
           row == [execs[i] EXCEPT !.grants = @ + 1]
           h == [proc[p] EXCEPT !.at = "run"]
<1>1. /\ proc[p].at = "decide" /\ i \in DOMAIN execs /\ execs[i] \in Execution
      /\ execs \in Seq(Execution)
  BY Going DEF Decide, At, Picked, WithExec, IInv, TablesOK
<1>2. CASE Goto(p, "denial") /\ UNCHANGED execs
  <2>1. UNCHANGED rows /\ UNCHANGED chat
    <3>1. Goto(p, "denial") => ~Goto(p, "done")
      BY <1>1 DEF Goto, IInv, TablesOK, Handler
    <3> QED
      BY <1>2, <3>1 DEF Decide, rows, chat
  <2>2. MayGo(p, "denial") /\ "denial" \in Labels \ {"run", "record", "markLaunched"}
    BY <1>1 DEF MayGo, WithExec, OfClicks, Labels
  <2>3. asked' \subseteq Turns /\ answered' \subseteq Turns /\ told' \subseteq DOMAIN execs
    BY <2>1 DEF chat, IInv, TablesOK
  <2> QED
    BY <1>2, <2>1, <2>2, <2>3, QuietKeeps
<1>3. CASE Goto(p, "done")
  <2>1. ~Goto(p, "denial") /\ ~Goto(p, "run")
    BY <1>1, <1>3 DEF Goto, IInv, TablesOK, Handler
  <2>2. /\ UNCHANGED rows
        /\ told' \in {told, told \cup {i}} /\ UNCHANGED <<asked, answered>>
    BY <2>1 DEF Decide, rows, Pick
  <2>3. asked' \subseteq Turns /\ answered' \subseteq Turns /\ told' \subseteq DOMAIN execs
    BY <1>1, <2>2 DEF IInv, TablesOK
  <2>4. PICK g \in Handler : g.at = "done" /\ proc' = [proc EXCEPT ![p] = g]
    BY <1>3, Going DEF Goto, Labels
  <2>5. Picked(g) /\ DidIt(g) /\ InPlace(p, g)
    BY <2>4 DEF Picked, WithExec, WithReq, WithIntent, DidIt, InPlace, OfClicks
  <2> QED
    BY <2>2, <2>3, <2>4, <2>5, MoveKeeps
<1>4. CASE Goto(p, "run")
  <2>1. ~Goto(p, "denial") /\ ~Goto(p, "done")
    <3>1. proc'[p].at = "run"
      BY <1>4 DEF Goto, IInv, TablesOK, Handler
    <3>2. Goto(p, "denial") => proc'[p].at = "denial"
      BY DEF Goto, IInv, TablesOK, Handler
    <3>3. Goto(p, "done") => proc'[p].at = "done"
      BY DEF Goto, IInv, TablesOK, Handler
    <3> QED
      BY <3>1, <3>2, <3>3
  <2>2. /\ execs' = [execs EXCEPT ![i] = row] /\ proc' = [proc EXCEPT ![p] = h]
        /\ execs[i].approval = "pending"
        /\ UNCHANGED <<intents, reqs, chat>>
    BY <1>4, <2>1 DEF Decide, Goto, Pick
  <2>3. /\ row \in Execution /\ row.runs = execs[i].runs /\ row.grants = execs[i].grants + 1
        /\ row.approval = "pending" /\ execs[i].runs \in Nat /\ execs[i].grants \in Nat
    BY <1>1, <2>2, Granted
  <2>4. h \in Handler /\ h.at = "run" /\ h.pick = i
    BY Going DEF Labels
  <2> HIDE DEF row, h
  <2>5. /\ DOMAIN execs' = DOMAIN execs
        /\ \A e \in DOMAIN execs : execs'[e] = IF e = i THEN row ELSE execs[e]
    BY <1>1, <2>2, <2>3, Updated
  <2>6. RunsCovered'
    <3> SUFFICES ASSUME NEW e \in DOMAIN execs
                 PROVE  execs'[e].runs + Cardinality(Runners(e)') <= execs'[e].grants
      BY <2>5 DEF RunsCovered
    <3>1. execs[e].runs + Cardinality(Runners(e)) <= execs[e].grants
      BY DEF IInv, RunsCovered
    <3>2. IsFiniteSet(Runners(e)) /\ Cardinality(Runners(e)) \in Nat
      BY RunnersFinite
    <3>3. CASE e = i
      <4>1. Runners(e)' = Runners(e) \cup {p} /\ p \notin Runners(e)
        BY <1>1, <2>2, <2>4, <3>3 DEF Runners, IInv, TablesOK
      <4>2. Cardinality(Runners(e)') = Cardinality(Runners(e)) + 1
        BY <3>2, <4>1, FS_AddElement
      <4> QED
        BY <2>3, <2>5, <3>1, <3>2, <3>3, <4>2
    <3>4. CASE e # i
      <4>1. Runners(e)' = Runners(e)
        BY <1>1, <2>2, <2>4, <3>4 DEF Runners, IInv, TablesOK
      <4> QED
        BY <2>5, <3>1, <3>4, <4>1
    <3> QED
      BY <3>3, <3>4
  <2>7. proc[p].at \in WithExec /\ h.at \in WithExec \cap OfClicks /\ h.at # "record"
    BY <1>1, <2>4 DEF WithExec, OfClicks
  <2>8. execs[i].runs <= row.runs /\ row.approval # "approved"
    BY <2>3
  <2> QED
    BY <2>2, <2>3, <2>4, <2>6, <2>7, <2>8, WriteKeeps
<1> QED
  BY <1>2, <1>3, <1>4 DEF Decide

\* A run that took place is a run more of the row.
LEMMA Ran ==
  ASSUME NEW old \in Execution
  PROVE  /\ [old EXCEPT !.runs = @ + 1] \in Execution
         /\ [old EXCEPT !.runs = @ + 1].runs = old.runs + 1
         /\ [old EXCEPT !.runs = @ + 1].grants = old.grants
         /\ old.runs \in Nat /\ old.grants \in Nat
  BY DEF Execution

\* A run that takes place is one fewer about to.
LEMMA RunKeeps ==
  ASSUME IInv, NEW p \in Procs, RunTool(p)
  PROVE  IInv'
<1> DEFINE i == proc[p].pick
           row == [execs[i] EXCEPT !.runs = @ + 1]
<1>1. /\ proc[p].at = "run" /\ i \in DOMAIN execs /\ execs[i] \in Execution
      /\ execs \in Seq(Execution)
  BY Going DEF RunTool, At, Picked, WithExec, IInv, TablesOK
<1>2. PICK ok \in BOOLEAN : proc' = [proc EXCEPT ![p].at = "record", ![p].ok = ok]
  BY DEF RunTool
<1> DEFINE h == [proc[p] EXCEPT !.at = "record", !.ok = ok]
<1>3. h \in Handler /\ h.at = "record" /\ h.pick = i
  <2>1. proc[p] \in Handler /\ "record" \in Labels
    BY Going DEF Labels
  <2> QED
    BY <2>1 DEF Handler
<1>4. proc' = [proc EXCEPT ![p] = h]
  BY <1>2
<1>5. execs' = [execs EXCEPT ![i] = row] /\ UNCHANGED <<intents, reqs, chat>>
  BY DEF RunTool, Pick
<1>6. /\ row \in Execution /\ row.runs = execs[i].runs + 1 /\ row.grants = execs[i].grants
      /\ execs[i].runs \in Nat /\ execs[i].grants \in Nat
  BY <1>1, Ran
<1> HIDE DEF row, h
<1>7. /\ DOMAIN execs' = DOMAIN execs
      /\ \A e \in DOMAIN execs : execs'[e] = IF e = i THEN row ELSE execs[e]
  BY <1>1, <1>5, <1>6, Updated
<1>8. RunsCovered'
  <2> SUFFICES ASSUME NEW e \in DOMAIN execs
               PROVE  execs'[e].runs + Cardinality(Runners(e)') <= execs'[e].grants
    BY <1>7 DEF RunsCovered
  <2>1. execs[e].runs + Cardinality(Runners(e)) <= execs[e].grants
    BY DEF IInv, RunsCovered
  <2>2. IsFiniteSet(Runners(e)) /\ Cardinality(Runners(e)) \in Nat
    BY RunnersFinite
  <2>3. CASE e = i
    <3>1. Runners(e)' = Runners(e) \ {p} /\ p \in Runners(e)
      BY <1>1, <1>3, <1>4, <2>3 DEF Runners, IInv, TablesOK
    <3>2. Cardinality(Runners(e)') = Cardinality(Runners(e)) - 1
      BY <2>2, <3>1, FS_RemoveElement
    <3> QED
      BY <1>6, <1>7, <2>1, <2>2, <2>3, <3>2
  <2>4. CASE e # i
    <3>1. Runners(e)' = Runners(e)
      BY <1>1, <1>3, <1>4, <2>4 DEF Runners, IInv, TablesOK
    <3> QED
      BY <1>7, <2>1, <2>4, <3>1
  <2> QED
    BY <2>3, <2>4
<1>9. proc[p].at \in WithExec /\ h.at \in WithExec \cap OfClicks
  BY <1>1, <1>3 DEF WithExec, OfClicks
<1>10. execs[i].runs <= row.runs /\ row.runs > 0
  BY <1>6
<1> QED
  BY <1>3, <1>4, <1>5, <1>6, <1>8, <1>9, <1>10, WriteKeeps

\* A row that is added stands after the others.
LEMMA Added ==
  ASSUME NEW S, NEW s \in Seq(S), NEW e \in S
  PROVE  /\ Append(s, e) \in Seq(S) /\ Len(Append(s, e)) = Len(s) + 1 /\ Len(s) \in Nat
         /\ DOMAIN s = 1..Len(s) /\ DOMAIN Append(s, e) = 1..(Len(s) + 1)
         /\ \A k \in DOMAIN s : Append(s, e)[k] = s[k]
         /\ Append(s, e)[Len(s) + 1] = e
  BY AppendProperties

\* A new execution runs its tool at once only if its policy grants that.
LEMMA CreateKeeps ==
  ASSUME IInv, NEW p \in Procs, CreateExecution(p)
  PROVE  IInv'
<1> DEFINE new == Len(execs) + 1
<1>1. execs \in Seq(Execution) /\ intents \in Seq(Intent) /\ proc[p].at = "create" /\ p \in Turns
  BY TurnsAlone DEF CreateExecution, At, OfClicks, IInv, TablesOK
<1>2. PICK row \in Execution, l \in {"run", "answer"} :
        /\ execs' = Append(execs, row) /\ Choose(p, new, l)
        /\ row.approval # "approved" /\ row.runs = 0 /\ row.grants \in {0, 1}
        /\ l = "run" => row.grants = 1
  <2> DEFINE approval(m) == CASE m = "deny"      -> "policy_denied"
                              [] m = "ask_first" -> "pending"
                              [] OTHER           -> "not_required"
             status(m)   == CASE m = "deny"      -> "denied"
                              [] m = "ask_first" -> "awaiting_approval"
                              [] OTHER           -> "completed"
             added(m)    == [approval |-> approval(m), status |-> status(m), runs |-> 0,
                             grants |-> IF m = "always_allow" THEN 1 ELSE 0]
  <2>1. PICK m \in Modes : /\ execs' = Append(execs, added(m))
                           /\ Choose(p, new, IF m = "always_allow" THEN "run" ELSE "answer")
    BY DEF CreateExecution
  <2>2. added(m) \in Execution /\ added(m).approval # "approved"
    BY <2>1 DEF Modes, Execution, Approvals
  <2> QED
    BY <2>1, <2>2
<1>3. /\ execs' \in Seq(Execution) /\ Len(execs') = new /\ DOMAIN execs' = 1..new
      /\ DOMAIN execs = 1..Len(execs) /\ Len(execs) \in Nat
      /\ \A e \in DOMAIN execs : execs'[e] = execs[e]
      /\ execs'[new] = row
  BY <1>1, <1>2, Added
<1>4. UNCHANGED <<intents, reqs, chat>>
  BY DEF CreateExecution
<1>5. new \in Nat /\ l \in Labels
  BY <1>3 DEF Labels
<1>6. PICK h \in Handler : h.at = l /\ h.pick = new /\ proc' = [proc EXCEPT ![p] = h]
  BY <1>2, <1>5, Chosen
<1>7. TablesOK'
  BY <1>3, <1>4, <1>6 DEF IInv, TablesOK, chat
<1>8. Marked'
  BY <1>2, <1>3, <1>4 DEF IInv, Marked, ApprovedWereRun, LaunchedHaveJobs
<1>9. RunsCovered'
  <2> SUFFICES ASSUME NEW e \in 1..new
               PROVE  execs'[e].runs + Cardinality(Runners(e)') <= execs'[e].grants
    BY <1>3 DEF RunsCovered
  <2>1. CASE e = new
    <3>1. Runners(e)' \subseteq IF l = "run" THEN {p} ELSE {}
      <4> SUFFICES ASSUME NEW q \in Runners(e)', q # p \/ l # "run" PROVE FALSE
        OBVIOUS
      <4>1. q \in Procs /\ proc'[q].at = "run" /\ proc'[q].pick = new
        BY <2>1 DEF Runners
      <4>2. q # p
        BY <1>6, <4>1 DEF IInv, TablesOK
      <4>3. proc[q].at = "run" /\ proc[q].pick = new
        BY <1>6, <4>1, <4>2 DEF IInv, TablesOK
      <4>4. proc[q].pick \in DOMAIN execs
        BY <4>1, <4>3, Going DEF Picked, WithExec
      <4> QED
        BY <1>3, <4>3, <4>4
    <3>2. Cardinality(Runners(e)') <= IF l = "run" THEN 1 ELSE 0
      <4>1. CASE l = "run"
        <5>1. IsFiniteSet({p}) /\ Cardinality({p}) = 1 /\ Runners(e)' \subseteq {p}
          BY <3>1, <4>1, FS_Singleton
        <5> QED
          BY <4>1, <5>1, FS_Subset
      <4>2. CASE l # "run"
        <5>1. Runners(e)' = {}
          BY <3>1, <4>2
        <5>2. Cardinality(Runners(e)') = 0
          BY <5>1, FS_EmptySet
        <5> QED
          BY <4>2, <5>2
      <4> QED
        BY <4>1, <4>2
    <3>3. Cardinality(Runners(e)') \in Nat
      BY <3>1, FS_Subset, FS_Singleton, FS_EmptySet, FS_CardinalityType
    <3> QED
      BY <1>2, <1>3, <2>1, <3>2, <3>3
  <2>2. CASE e # new
    <3>1. e \in DOMAIN execs
      BY <1>3, <2>2
    <3>2. Runners(e)' \subseteq Runners(e)
      BY <1>6, <2>2 DEF Runners, IInv, TablesOK
    <3>3. Cardinality(Runners(e)') <= Cardinality(Runners(e)) /\ Cardinality(Runners(e)') \in Nat
      BY <3>2, RunnersFinite, FS_Subset, FS_CardinalityType
    <3>4. execs[e].runs + Cardinality(Runners(e)) <= execs[e].grants
      BY <3>1 DEF IInv, RunsCovered
    <3>5. execs'[e] = execs[e] /\ execs[e].runs \in Nat /\ execs[e].grants \in Nat
      BY <1>1, <1>3, <3>1, ExecutionRows
    <3> QED
      BY <3>3, <3>4, <3>5, RunnersFinite
  <2> QED
    BY <2>1, <2>2
<1>10. Picked(h)' /\ DidIt(h)' /\ InPlace(p, h)
  BY <1>1, <1>3, <1>6 DEF Picked, DidIt, InPlace, WithExec, WithReq, WithIntent
<1>11. /\ Len(execs) <= Len(execs') /\ Len(intents) <= Len(intents') /\ Len(reqs) <= Len(reqs')
       /\ \A e \in DOMAIN execs : execs[e].runs <= execs'[e].runs
       /\ \A k \in DOMAIN intents : intents[k].jobs # <<>> => intents'[k].jobs # <<>>
  BY <1>1, <1>3, <1>4, ExecutionRows DEF IInv, TablesOK
<1> QED
  BY <1>6, <1>7, <1>8, <1>9, <1>10, <1>11, StepKeeps

(***************************************************************************)
(* Writes to proposals and requirements.                                   *)
(***************************************************************************)
\* A turn may write proposals, if no job is lost and none is claimed that was not created.
LEMMA ProposalsKeep ==
  ASSUME IInv, NEW p \in Turns, NEW h \in Handler, proc' = [proc EXCEPT ![p] = h],
         h.at \notin {"run", "record"}, Picked(h)',
         h.at = "markLaunched" => intents'[h.pick].jobs # <<>>,
         intents' \in Seq(Intent), Len(intents) <= Len(intents'),
         \A k \in DOMAIN intents : intents[k].jobs # <<>> => intents'[k].jobs # <<>>,
         \A k \in DOMAIN intents' : intents'[k].state = "launched" => intents'[k].jobs # <<>>,
         UNCHANGED <<execs, reqs, chat>>
  PROVE  IInv'
<1>1. p \in Procs
  BY DEF Procs
<1>2. TablesOK'
  BY <1>1 DEF IInv, TablesOK, chat
<1>3. Marked'
  BY DEF IInv, Marked, ApprovedWereRun, LaunchedHaveJobs
<1>4. RunsCovered'
  <2>1. \A q \in Procs : proc'[q].at = "run" => proc[q].at = "run" /\ proc'[q].pick = proc[q].pick
    BY DEF IInv, TablesOK
  <2> QED
    BY <1>2, <2>1, CoveredKept
<1>5. DidIt(h)' /\ InPlace(p, h)
  BY DEF DidIt, InPlace
<1>6. /\ Len(execs) <= Len(execs') /\ Len(reqs) <= Len(reqs')
      /\ \A e \in DOMAIN execs : execs[e].runs <= execs'[e].runs
  BY ExecutionRows DEF IInv, TablesOK
<1> QED
  BY <1>1, <1>2, <1>3, <1>4, <1>5, <1>6, StepKeeps

\* A turn may write the proposal it picked.
LEMMA ProposalKeeps ==
  ASSUME IInv, NEW p \in Procs, proc[p].at \in WithIntent,
         NEW l \in Labels \ {"run", "record"}, Goto(p, l), MayGo(p, l),
         NEW row \in Intent, intents' = [intents EXCEPT ![proc[p].pick] = row],
         intents[proc[p].pick].jobs # <<>> \/ row.state = "launched" \/ l = "markLaunched"
           => row.jobs # <<>>,
         UNCHANGED <<execs, reqs, chat>>
  PROVE  IInv'
<1>1. p \in Turns
  BY TurnsAlone DEF WithIntent, OfClicks
<1>2. PICK h \in Handler : h = [proc[p] EXCEPT !.at = l]
  BY Going
<1>3. proc' = [proc EXCEPT ![p] = h] /\ h.at = l /\ h.pick = proc[p].pick /\ Picked(h)
  BY <1>2, Going, MovesSound DEF Goto
<1>4. proc[p].pick \in DOMAIN intents /\ intents \in Seq(Intent)
  BY Going DEF Picked, IInv, TablesOK
<1>5. /\ intents' \in Seq(Intent) /\ Len(intents') = Len(intents) /\ DOMAIN intents' = DOMAIN intents
      /\ \A k \in DOMAIN intents : intents'[k] = IF k = proc[p].pick THEN row ELSE intents[k]
  BY <1>4, Updated
<1>6. Picked(h)'
  BY <1>3, <1>5 DEF Picked
<1>7. Len(intents) <= Len(intents')
  BY <1>4, <1>5, IntentRows
<1>8. /\ \A k \in DOMAIN intents : intents[k].jobs # <<>> => intents'[k].jobs # <<>>
      /\ \A k \in DOMAIN intents' : intents'[k].state = "launched" => intents'[k].jobs # <<>>
      /\ h.at = "markLaunched" => intents'[h.pick].jobs # <<>>
  BY <1>3, <1>4, <1>5 DEF IInv, Marked, ApprovedWereRun, LaunchedHaveJobs
<1> QED
  BY <1>1, <1>3, <1>5, <1>6, <1>7, <1>8, ProposalsKeep

\* The fields of a proposal that its turns write.
LEMMA ProposalMoved ==
  ASSUME NEW old \in Intent, NEW w \in Paths \cup {Home}, NEW c \in Paths \cup {Home}
  PROVE  /\ [old EXCEPT !.workspace = w, !.confirmed = c] \in Intent
         /\ [old EXCEPT !.workspace = w, !.confirmed = c].jobs = old.jobs
         /\ [old EXCEPT !.workspace = w, !.confirmed = c].state = old.state
  BY DEF Intent

LEMMA ProposalMarked ==
  ASSUME NEW old \in Intent, NEW state \in {"cancelled", "launched"}
  PROVE  /\ [old EXCEPT !.state = state] \in Intent
         /\ [old EXCEPT !.state = state].jobs = old.jobs
         /\ [old EXCEPT !.state = state].state = state
  BY DEF Intent

LEMMA ProposalUsed ==
  ASSUME NEW old \in Intent, NEW w \in Paths \cup {Home}
  PROVE  /\ [old EXCEPT !.jobs = Append(@, w)] \in Intent
         /\ [old EXCEPT !.jobs = Append(@, w)].jobs # <<>>
<1>1. old.jobs \in Seq(Paths \cup {Home})
  BY DEF Intent
<1>2. Append(old.jobs, w) \in Seq(Paths \cup {Home}) /\ Append(old.jobs, w) # <<>>
  BY <1>1, AppendProperties
<1> QED
  BY <1>2 DEF Intent

\* The path a turn resolves is a path of the message or of the proposal.
LEMMA ResolvedPath ==
  ASSUME IInv, NEW p \in Procs, proc[p].at \in WithIntent
  PROVE  /\ Resolved(p) \in Paths \cup {Home}
         /\ proc[p].pick \in DOMAIN intents /\ intents[proc[p].pick] \in Intent
         /\ intents[proc[p].pick].workspace \in Paths \cup {Home}
         /\ intents[proc[p].pick].confirmed \in Paths \cup {Home}
<1>1. proc[p].pick \in DOMAIN intents /\ intents[proc[p].pick] \in Intent
  BY Going DEF Picked, IInv, TablesOK
<1>2. proc[p].text.path \in Paths \cup {NoPath}
  BY Going DEF Handler, Texts
<1>3. \A x \in Intent : /\ x.workspace \in Paths \cup {Home} /\ x.original \in Paths \cup {Home}
                        /\ x.confirmed \in Paths \cup {Home}
  BY DEF Intent
<1> QED
  BY <1>1, <1>2, <1>3 DEF Resolved, Pick

\* A turn writes the path it resolved, its decision, its build job or what became of it.
LEMMA LaunchKeeps ==
  ASSUME IInv, NEW p \in Procs,
         UpdateWorkspace(p) \/ Decline(p) \/ CreateJob(p) \/ MarkLaunched(p)
  PROVE  IInv'
<1>1. proc[p].at \in WithIntent
  BY DEF UpdateWorkspace, Decline, CreateJob, MarkLaunched, At, WithIntent
<1>2. PICK old \in Intent :
        /\ old = intents[proc[p].pick] /\ proc[p].pick \in DOMAIN intents
        /\ Resolved(p) \in Paths \cup {Home}
        /\ old.workspace \in Paths \cup {Home} /\ old.confirmed \in Paths \cup {Home}
  BY <1>1, ResolvedPath
<1>3. old.state = "launched" => old.jobs # <<>>
  BY <1>2 DEF IInv, Marked, ApprovedWereRun, LaunchedHaveJobs
<1>4. UNCHANGED <<execs, reqs, chat>>
  BY DEF UpdateWorkspace, Decline, CreateJob, MarkLaunched
<1>5. \A l \in {"decline", "createJob", "supersede", "answer", "markLaunched"} :
        l \in Labels \ {"run", "record"} /\ MayGo(p, l)
  BY <1>1 DEF Labels, MayGo, WithExec, WithReq, WithIntent, OfClicks
<1>6. CASE UpdateWorkspace(p)
  <2>1. PICK l \in {"decline", "createJob", "supersede", "answer"},
             w \in Paths \cup {Home}, c \in Paths \cup {Home} :
          /\ intents' = [intents EXCEPT ![proc[p].pick].workspace = w, ![proc[p].pick].confirmed = c]
          /\ Goto(p, l)
    BY <1>2, <1>6 DEF UpdateWorkspace, Pick
  <2> DEFINE row == [old EXCEPT !.workspace = w, !.confirmed = c]
  <2>2. row \in Intent /\ row.jobs = old.jobs /\ row.state = old.state
    BY ProposalMoved
  <2>3. intents' = [intents EXCEPT ![proc[p].pick] = row]
    BY <1>2, <2>1 DEF IInv, TablesOK
  <2> HIDE DEF row
  <2>4. intents[proc[p].pick].jobs # <<>> \/ row.state = "launched" \/ l = "markLaunched"
          => row.jobs # <<>>
    BY <1>2, <1>3, <2>2
  <2>5. l \in Labels \ {"run", "record"} /\ MayGo(p, l) /\ Goto(p, l)
    BY <1>5, <2>1
  <2> QED
    BY <1>1, <1>4, <2>2, <2>3, <2>4, <2>5, ProposalKeeps
<1>7. ASSUME NEW state \in {"cancelled", "launched"}, Goto(p, "answer"),
             state = "launched" => old.jobs # <<>>,
             intents' = [intents EXCEPT ![proc[p].pick].state = state]
      PROVE  IInv'
  <2> DEFINE row == [old EXCEPT !.state = state]
  <2>1. row \in Intent /\ row.jobs = old.jobs /\ row.state = state
    BY ProposalMarked
  <2>2. intents' = [intents EXCEPT ![proc[p].pick] = row]
    BY <1>2, <1>7
  <2> HIDE DEF row
  <2>3. intents[proc[p].pick].jobs # <<>> \/ row.state = "launched" => row.jobs # <<>>
    BY <1>2, <1>7, <2>1
  <2>4. "answer" \in Labels \ {"run", "record"} /\ MayGo(p, "answer") /\ Goto(p, "answer")
    BY <1>5, <1>7
  <2> QED
    BY <1>1, <1>4, <2>1, <2>2, <2>3, <2>4, ProposalKeeps
<1>8. CASE Decline(p)
  BY <1>7, <1>8 DEF Decline, Pick
<1>9. CASE MarkLaunched(p)
  <2>1. old.jobs # <<>>
    BY <1>2, <1>9, Going DEF MarkLaunched, At, DidIt
  <2> QED
    BY <1>7, <1>9, <2>1 DEF MarkLaunched, Pick
<1>10. CASE CreateJob(p)
  <2> DEFINE row == [old EXCEPT !.jobs = Append(@, Resolved(p))]
  <2>1. row \in Intent /\ row.jobs # <<>>
    BY <1>2, ProposalUsed
  <2>2. intents' = [intents EXCEPT ![proc[p].pick] = row] /\ Goto(p, "markLaunched")
    BY <1>2, <1>10 DEF CreateJob, Pick
  <2> HIDE DEF row
  <2> QED
    BY <1>1, <1>2, <1>4, <1>5, <2>1, <2>2, ProposalKeeps
<1> QED
  BY <1>6, <1>8, <1>9, <1>10

\* A new proposal cancels the pending ones and is added after them.
LEMMA ProposingKeeps ==
  ASSUME IInv, NEW p \in Procs, Supersede(p) \/ Propose(p)
  PROVE  IInv'
<1> DEFINE l == IF Supersede(p) THEN "propose" ELSE "answer"
<1>1. proc[p].at \notin OfClicks /\ intents \in Seq(Intent)
  BY DEF Supersede, Propose, At, OfClicks, IInv, TablesOK
<1>2. p \in Turns
  BY <1>1, TurnsAlone
<1>3. Goto(p, l) /\ UNCHANGED <<execs, reqs, chat>>
  BY DEF Supersede, Propose
<1>4. l \in {"propose", "answer"} /\ l \in Labels
  BY DEF Labels
<1> HIDE DEF l
<1>5. PICK h \in Handler : h.at = l /\ proc' = [proc EXCEPT ![p] = h]
  BY <1>3, <1>4, Going DEF Goto
<1>6. Picked(h)' /\ h.at \notin {"run", "record", "markLaunched"}
  BY <1>4, <1>5 DEF Picked, WithExec, WithReq, WithIntent
<1>7. /\ intents' \in Seq(Intent) /\ Len(intents) <= Len(intents')
      /\ \A k \in DOMAIN intents : intents[k].jobs # <<>> => intents'[k].jobs # <<>>
      /\ \A k \in DOMAIN intents' : intents'[k].state = "launched" => intents'[k].jobs # <<>>
  <2>1. DOMAIN intents = 1..Len(intents) /\ Len(intents) \in Nat
        /\ \A k \in DOMAIN intents : intents[k] \in Intent
    BY <1>1
  <2>2. CASE Supersede(p)
    <3>1. ASSUME NEW k \in DOMAIN intents
          PROVE  /\ intents'[k] \in Intent /\ intents'[k].jobs = intents[k].jobs
                 /\ intents'[k].state \in {intents[k].state, "cancelled"}
      <4>1. PICK x \in Intent : x = intents[k]
        BY <2>1
      <4>2. /\ [x EXCEPT !.state = "cancelled"] \in Intent
            /\ [x EXCEPT !.state = "cancelled"].jobs = x.jobs
            /\ [x EXCEPT !.state = "cancelled"].state = "cancelled"
        BY ProposalMarked
      <4>3. intents'[k] = x \/ intents'[k] = [x EXCEPT !.state = "cancelled"]
        BY <2>2, <4>1 DEF Supersede
      <4> QED
        BY <4>1, <4>2, <4>3
    <3>2. DOMAIN intents' = 1..Len(intents) /\ intents' \in [1..Len(intents) -> Intent]
      BY <2>1, <2>2, <3>1 DEF Supersede
    <3>3. intents' \in Seq(Intent) /\ Len(intents') = Len(intents)
      BY <2>1, <3>2
    <3> QED
      BY <2>1, <3>1, <3>2, <3>3 DEF IInv, Marked, ApprovedWereRun, LaunchedHaveJobs
  <2>3. CASE Propose(p)
    <3>1. PICK path \in Paths \cup {Home} :
            intents' = Append(intents, [state |-> "pending", workspace |-> path, original |-> path,
                                        confirmed |-> path, jobs |-> <<>>])
      <4>1. proc[p].text.path \in Paths \cup {NoPath}
        BY Going DEF Handler, Texts
      <4> QED
        BY <2>3, <4>1 DEF Propose
    <3> DEFINE row == [state |-> "pending", workspace |-> path, original |-> path,
                       confirmed |-> path, jobs |-> <<>>]
    <3>2. row \in Intent /\ row.state = "pending"
      BY DEF Intent
    <3>3. intents' = Append(intents, row)
      BY <3>1
    <3> HIDE DEF row
    <3>4. /\ intents' \in Seq(Intent) /\ Len(intents') = Len(intents) + 1
          /\ DOMAIN intents' = 1..(Len(intents) + 1)
          /\ \A k \in DOMAIN intents : intents'[k] = intents[k]
          /\ intents'[Len(intents) + 1] = row
      BY <1>1, <3>2, <3>3, Added
    <3> QED
      BY <2>1, <3>2, <3>4 DEF IInv, Marked, ApprovedWereRun, LaunchedHaveJobs
  <2> QED
    BY <2>2, <2>3
<1> QED
  BY <1>2, <1>3, <1>5, <1>6, <1>7, ProposalsKeep

\* The answer to a requirement is written to its row.
LEMMA ResolveKeeps ==
  ASSUME IInv, NEW p \in Procs, Resolve(p)
  PROVE  IInv'
<1>1. proc[p].at = "resolve" /\ p \in Turns /\ proc[p].pick \in DOMAIN reqs
  BY Going, TurnsAlone DEF Resolve, At, OfClicks, Picked, WithReq
<1>2. reqs \in Seq({"pending", "satisfied", "rejected"})
  BY DEF IInv, TablesOK
<1>3. PICK answer \in {"satisfied", "rejected"} : reqs' = [reqs EXCEPT ![proc[p].pick] = answer]
  BY DEF Resolve, Pick
<1>4. /\ reqs' \in Seq({"pending", "satisfied", "rejected"}) /\ Len(reqs') = Len(reqs)
      /\ DOMAIN reqs' = DOMAIN reqs
  BY <1>1, <1>2, <1>3, Updated
<1>5. "answer" \in Labels /\ Goto(p, "answer") /\ UNCHANGED <<execs, intents, chat>>
  BY DEF Resolve, Labels
<1>6. PICK h \in Handler : h.at = "answer" /\ proc' = [proc EXCEPT ![p] = h]
  BY <1>5, Going DEF Goto
<1>7. Picked(h)' /\ DidIt(h)' /\ InPlace(p, h)
  BY <1>6 DEF Picked, WithExec, WithReq, WithIntent, DidIt, InPlace, OfClicks
<1>8. TablesOK'
  BY <1>4, <1>5, <1>6 DEF IInv, TablesOK, chat
<1>9. Marked'
  BY <1>5 DEF IInv, Marked, ApprovedWereRun, LaunchedHaveJobs
<1>10. RunsCovered'
  <2>1. \A q \in Procs : proc'[q].at = "run" => proc[q].at = "run" /\ proc'[q].pick = proc[q].pick
    BY <1>6 DEF IInv, TablesOK
  <2> QED
    BY <1>5, <1>8, <2>1, CoveredKept
<1>11. /\ Len(execs) <= Len(execs') /\ Len(intents) <= Len(intents') /\ Len(reqs) <= Len(reqs')
       /\ \A e \in DOMAIN execs : execs[e].runs <= execs'[e].runs
       /\ \A k \in DOMAIN intents : intents[k].jobs # <<>> => intents'[k].jobs # <<>>
  BY <1>2, <1>4, <1>5, ExecutionRows DEF IInv, TablesOK
<1> QED
  BY <1>6, <1>7, <1>8, <1>9, <1>10, <1>11, StepKeeps

(***************************************************************************)
(* Failures.                                                               *)
(***************************************************************************)
\* A handler that throws records a failed run, which claims nothing, or ends.
LEMMA ThrowKeeps ==
  ASSUME IInv, NEW p \in Procs, Throw(p)
  PROVE  IInv'
<1>1. UNCHANGED rows /\ UNCHANGED chat
  BY DEF Throw, IInv, TablesOK
<1>2. asked' \subseteq Turns /\ answered' \subseteq Turns /\ told' \subseteq DOMAIN execs
  BY <1>1 DEF chat, IInv, TablesOK
<1>3. CASE InTry(p)
  <2> DEFINE h == [proc[p] EXCEPT !.at = "record", !.ok = FALSE]
  <2>1. proc[p] \in Handler /\ Picked(proc[p]) /\ InPlace(p, proc[p]) /\ "record" \in Labels
    BY Going DEF Labels
  <2>2. h \in Handler /\ h.at = "record" /\ h.pick = proc[p].pick /\ h.ok = FALSE
    BY <2>1 DEF Handler
  <2>3. proc[p].at \in {"record", "trace", "run", "append"}
    BY <1>3 DEF InTry
  <2>4. proc' = [proc EXCEPT ![p] = h]
    BY <1>3 DEF Throw
  <2> HIDE DEF h
  <2>5. Picked(h) /\ DidIt(h) /\ InPlace(p, h) /\ h.at # "run"
    BY <2>1, <2>2, <2>3 DEF Picked, WithExec, WithReq, WithIntent, DidIt, InPlace, OfClicks
  <2> QED
    BY <1>1, <1>2, <2>2, <2>4, <2>5, MoveKeeps
<1>4. CASE ~InTry(p)
  <2>1. Finish(p)
    <3>1. proc' = [q \in Procs |-> IF q \in {p} THEN Resting("done") ELSE proc[q]]
      BY <1>4 DEF Throw, BreakOff
    <3> QED
      BY <3>1 DEF Finish, IInv, TablesOK
  <2> QED
    BY <1>1, <1>2, <2>1, EndKeeps
<1> QED
  BY <1>3, <1>4

\* When the process dies nothing runs any more, and the rows stay.
LEMMA CrashKeeps ==
  ASSUME IInv, Crash
  PROVE  IInv'
<1>1. UNCHANGED rows /\ UNCHANGED chat
  BY DEF Crash, IInv, TablesOK
<1>2. ASSUME NEW q \in Procs
      PROVE  /\ proc'[q] \in Handler
             /\ proc'[q] = Resting("done") \/ proc'[q] = proc[q]
  BY Going, RestingSound DEF Crash, BreakOff
<1>3. TablesOK'
  <2>1. proc' \in [Procs -> Handler]
    BY <1>2 DEF Crash, BreakOff
  <2> QED
    BY <1>1, <2>1 DEF IInv, TablesOK, rows, chat
<1>4. Resting("done").at = "done"
  BY RestingSound
<1>5. HandlersSound'
  <2>1. ASSUME NEW q \in Procs
        PROVE  Picked(proc[q])' /\ DidIt(proc[q])' /\ InPlace(q, proc[q])'
    <3>1. CASE proc'[q] = Resting("done")
      BY <1>4, <3>1 DEF Picked, WithExec, WithReq, WithIntent, DidIt, InPlace, OfClicks
    <3>2. CASE proc'[q] = proc[q]
      BY <1>1, <3>2, Going DEF rows, Picked, DidIt, InPlace
    <3> QED
      BY <1>2, <3>1, <3>2
  <2> QED
    BY <2>1 DEF HandlersSound
<1>6. Marked'
  BY <1>1 DEF IInv, Marked, ApprovedWereRun, LaunchedHaveJobs, rows
<1>7. RunsCovered'
  <2>1. \A q \in Procs : proc'[q].at = "run" => proc[q].at = "run" /\ proc'[q].pick = proc[q].pick
    BY <1>2, <1>4
  <2> QED
    BY <1>1, <1>3, <2>1, CoveredKept DEF rows
<1> QED
  BY <1>3, <1>5, <1>6, <1>7 DEF IInv

(***************************************************************************)
(* The theorems.                                                           *)
(***************************************************************************)
LEMMA InitKeeps == Init => IInv
<1> SUFFICES ASSUME Init PROVE IInv
  OBVIOUS
<1>1. \A p \in Procs : /\ proc[p] = Resting("idle") /\ proc[p] \in Handler /\ proc[p].at = "idle"
                       /\ Picked(proc[p]) /\ DidIt(proc[p]) /\ InPlace(p, proc[p])
  BY RestingSound DEF Init
<1>2. TablesOK
  <2>1. proc \in [Procs -> Handler]
    BY <1>1 DEF Init
  <2>2. execs \in Seq(Execution) /\ intents \in Seq(Intent)
    BY DEF Init
  <2>3. <<"pending">> \in Seq({"pending", "satisfied", "rejected"})
    OBVIOUS
  <2>4. reqs \in Seq({"pending", "satisfied", "rejected"})
    <3>1. reqs = <<>> \/ reqs = <<"pending">>
      BY DEF Init
    <3>2. CASE reqs = <<>>
      BY <3>2, EmptySeq
    <3>3. CASE reqs = <<"pending">>
      BY <2>3, <3>3, Zenon
    <3> QED
      BY <3>1, <3>2, <3>3
  <2>5. asked \subseteq Turns /\ answered \subseteq Turns /\ told \subseteq DOMAIN execs
    BY DEF Init
  <2> QED
    BY <2>1, <2>2, <2>4, <2>5 DEF TablesOK
<1>3. Marked /\ RunsCovered
  BY DEF Init, Marked, ApprovedWereRun, LaunchedHaveJobs, RunsCovered
<1> QED
  BY <1>1, <1>2, <1>3 DEF IInv, HandlersSound

LEMMA NextKeeps == IInv /\ [Next]_vars => IInv'
<1> SUFFICES ASSUME IInv, [Next]_vars PROVE IInv'
  OBVIOUS
<1>1. CASE Crash
  BY <1>1, CrashKeeps
<1>2. CASE UNCHANGED vars
  <2>1. UNCHANGED <<execs, intents, reqs, asked, answered, told, proc, faults, torn, shared, crowded, broken>>
    BY <1>2 DEF vars, rows, chat, histories
  <2> QED
    BY <2>1 DEF IInv, TablesOK, HandlersSound, Picked, DidIt, InPlace, Marked, ApprovedWereRun, LaunchedHaveJobs, RunsCovered, Runners
<1>3. ASSUME NEW p \in Procs, Send(p) \/ Click(p) \/ Step(p) \/ Throw(p)
      PROVE  IInv'
  <2>1. CASE Send(p) \/ Click(p)
    BY <2>1, ArriveKeeps
  <2>2. CASE Throw(p)
    BY <2>2, ThrowKeeps
  <2>3. CASE ToolStep(p)
    BY <2>3, PreparingKeeps, RoutingKeeps, CreateKeeps, RunKeeps, MarkingKeeps, DecideKeeps
       DEF ToolStep
  <2>4. CASE LaunchStep(p)
    BY <2>4, RoutingKeeps, PreparingKeeps, LaunchKeeps, ProposingKeeps DEF LaunchStep
  <2> QED
    BY <1>3, <2>1, <2>2, <2>3, <2>4, RoutingKeeps, PreparingKeeps, ResolveKeeps, AnswerKeeps
       DEF Step
<1> QED
  BY <1>1, <1>2, <1>3 DEF Next

LEMMA Inductive == Spec => []IInv
<1> QED
  BY InitKeeps, NextKeeps, PTL DEF Spec

\* Faults are counted, and the histories are about rows and handlers.
LEMMA Counted ==
  ASSUME IInv, faults \in 0..MaxFaults, HistoriesOK, [Next]_vars
  PROVE  faults' \in 0..MaxFaults /\ HistoriesOK'
<1>1. \A p \in Procs : Pick(p) \in Nat
  BY DEF IInv, TablesOK, Handler, Pick
<1>2. DOMAIN intents \subseteq Nat
  BY IntentRows DEF IInv, TablesOK
<1>3. CASE UNCHANGED <<faults, histories>>
  BY <1>3 DEF histories, HistoriesOK
<1>4. ASSUME NEW p \in Procs, Decide(p) \/ RouteLaunch(p) \/ Supersede(p)
      PROVE  faults' \in 0..MaxFaults /\ HistoriesOK'
  <2>1. CASE Decide(p)
    BY <1>1, <2>1 DEF Decide, HistoriesOK
  <2>2. CASE RouteLaunch(p)
    BY <1>2, <2>2 DEF RouteLaunch, Newest, PendingIntents, HistoriesOK
  <2>3. CASE Supersede(p)
    BY <2>3 DEF Supersede, HistoriesOK
  <2> QED
    BY <1>4, <2>1, <2>2, <2>3
<1>5. ASSUME NEW p \in Procs, Throw(p)
      PROVE  faults' \in 0..MaxFaults /\ HistoriesOK'
  <2>1. faults' \in 0..MaxFaults
    BY <1>5, FaultAssumption DEF Throw
  <2>2. HistoriesOK'
    BY <1>1, <1>5 DEF Throw, BreakOff, HistoriesOK
  <2> QED
    BY <2>1, <2>2
<1>6. CASE Crash
  <2>1. faults' \in 0..MaxFaults
    BY <1>6, FaultAssumption DEF Crash
  <2>2. HistoriesOK'
    BY <1>1, <1>6 DEF Crash, BreakOff, Busy, HistoriesOK
  <2> QED
    BY <2>1, <2>2
<1>7. ASSUME NEW p \in Procs, Send(p) \/ Click(p) \/ Step(p)
      PROVE  faults' \in 0..MaxFaults /\ HistoriesOK'
  <2>1. Keep \/ Decide(p) \/ RouteLaunch(p) \/ Supersede(p)
    BY <1>7 DEF Send, Click, Arrive, Step, ToolStep, LaunchStep, RouteTool, CreateExecution, RunTool,
                RecordRun, TraceRun, WriteDenial, RouteApproval, PrepareApproval, RouteRequirement,
                PrepareRequirement, Resolve, PrepareLaunch, UpdateWorkspace, Decline, CreateJob,
                MarkLaunched, Propose, PrepareChat, Reply, Answer
  <2> QED
    BY <1>3, <1>4, <2>1 DEF Keep
<1>8. CASE UNCHANGED vars
  BY <1>3, <1>8 DEF vars
<1> QED
  BY <1>5, <1>6, <1>7, <1>8 DEF Next

\* The tables of executions, proposals and requirements hold what the schema of the code
\* says, and every handler is at a step of its turn, whatever overlaps and fails.
THEOREM TurnsTypeCorrect == Spec => []TypeOK
<1>1. Init => IInv /\ TypeOK
  <2> SUFFICES ASSUME Init PROVE IInv /\ TypeOK
    OBVIOUS
  <2>1. faults = 0 /\ torn = {} /\ shared = {} /\ crowded = FALSE /\ broken = {}
    BY DEF Init
  <2>2. faults \in 0..MaxFaults
    BY <2>1, FaultAssumption
  <2>3. HistoriesOK
    BY <2>1, Zenon DEF HistoriesOK
  <2> QED
    BY <2>2, <2>3, InitKeeps DEF IInv, TypeOK
<1>2. IInv /\ TypeOK /\ [Next]_vars => IInv' /\ TypeOK'
  BY NextKeeps, Counted DEF IInv, TypeOK
<1> QED
  BY <1>1, <1>2, PTL DEF Spec

\* No tool runs more often than it was granted: one run for each approval that found its row
\* pending, or one for a policy that always allows it.
THEOREM RunsStayGranted == Spec => []RunsAreGranted
<1>1. IInv => RunsAreGranted
  <2> SUFFICES ASSUME IInv, NEW e \in DOMAIN execs
               PROVE  execs[e].runs <= execs[e].grants
    BY DEF RunsAreGranted
  <2>1. execs[e].runs + Cardinality(Runners(e)) <= execs[e].grants
    BY DEF IInv, RunsCovered
  <2>2. execs[e].runs \in Nat /\ execs[e].grants \in Nat
    BY ExecutionRows DEF IInv, TablesOK
  <2> QED
    BY <2>1, <2>2, RunnersFinite
<1> QED
  BY <1>1, Inductive, PTL

(***************************************************************************)
(* Executions, however handlers overlap.                                   *)
(***************************************************************************)
\* What a handler that goes on is.
LEMMA Gone ==
  ASSUME IInv, NEW p \in Procs, NEW l \in Labels, Goto(p, l)
  PROVE  \E h \in Handler : /\ h.at = l /\ h.pick = proc[p].pick /\ h.text = proc[p].text
                            /\ proc' = [proc EXCEPT ![p] = h]
<1> DEFINE h == [proc[p] EXCEPT !.at = l]
<1>1. h \in Handler /\ h.at = l /\ h.pick = proc[p].pick /\ h.text = proc[p].text
  BY DEF IInv, TablesOK, Handler
<1>2. proc' = [proc EXCEPT ![p] = h]
  BY DEF Goto
<1> QED
  BY <1>1, <1>2

\* The row of an execution tells how often its tool was run.
Agrees(e) ==
  execs[e].runs = IF execs[e].approval \in {"pending", "denied", "policy_denied"} THEN 0 ELSE 1

\* A handler has an execution in hand from its decision on, until nothing it throws can make
\* it write the row again.
AtWork == {"run", "record", "denial", "trace", "append"}
Works(h, e) == h.pick = e /\ h.at \in AtWork /\ (h.at = "append" => h.text.says # "deny")

\* What the row says of its run meanwhile.
Shows(h, e) ==
  /\ execs[e].runs = IF h.at \in {"run", "denial"} THEN 0 ELSE 1
  /\ execs[e].approval = CASE h.text.says = "tool" -> "not_required"
                           [] h.text.says # "tool" /\ h.at \in {"trace", "append"} -> "approved"
                           [] OTHER -> "pending"

RowTrue(e) ==
  e \notin torn =>
    /\ \A p, q \in Procs : Works(proc[p], e) /\ Works(proc[q], e) => p = q
    /\ \A p \in Procs : Works(proc[p], e) => Shows(proc[p], e)
    /\ (\A p \in Procs : ~Works(proc[p], e)) => Agrees(e)

\* Denials are for a no, only turns ask for a tool, and new executions are for such a turn.
Speaks(p, h) ==
  /\ h.at = "denial" => h.text.says = "deny"
  /\ h.text.says = "tool" => p \in Turns
  /\ h.at = "create" => h.text.says = "tool"

ExecInv == (\A e \in DOMAIN execs : RowTrue(e)) /\ \A p \in Procs : Speaks(p, proc[p])

\* A step that neither writes an execution nor takes it in hand or lets it go.
LEMMA RowStays ==
  ASSUME IInv, NEW e, RowTrue(e), NEW p \in Procs, NEW h, proc' = [proc EXCEPT ![p] = h],
         execs'[e] = execs[e], torn \subseteq torn', ~Works(proc[p], e), ~Works(h, e)
  PROVE  RowTrue(e)'
<1>1. proc'[p] = h /\ \A q \in Procs : q # p => proc'[q] = proc[q]
  BY DEF IInv, TablesOK
<1>2. \A q \in Procs : Works(proc[q], e)' <=> Works(proc[q], e)
  BY <1>1 DEF Works
<1>3. \A q \in Procs : Works(proc[q], e) => proc'[q] = proc[q]
  BY <1>1
<1>4. \A q \in Procs : Works(proc[q], e) => (Shows(proc[q], e)' <=> Shows(proc[q], e))
  BY <1>3 DEF Shows
<1>5. Agrees(e)' <=> Agrees(e)
  BY DEF Agrees
<1> QED
  BY <1>2, <1>4, <1>5 DEF RowTrue

\* A step of the only handler that has the execution in hand, or that takes it.
LEMMA RowMoves ==
  ASSUME IInv, NEW e, NEW p \in Procs, NEW h, proc' = [proc EXCEPT ![p] = h],
         e \notin torn' =>
           /\ \A q \in Procs : q # p => ~Works(proc[q], e)
           /\ Works(h, e) => Shows(h, e)'
           /\ ~Works(h, e) => Agrees(e)'
  PROVE  RowTrue(e)'
<1>1. proc'[p] = h /\ \A q \in Procs : q # p => proc'[q] = proc[q]
  BY DEF IInv, TablesOK
<1> SUFFICES ASSUME e \notin torn'
             PROVE  /\ \A q, r \in Procs : Works(proc[q], e)' /\ Works(proc[r], e)' => q = r
                    /\ \A q \in Procs : Works(proc[q], e)' => Shows(proc[q], e)'
                    /\ (\A q \in Procs : ~Works(proc[q], e)') => Agrees(e)'
  BY DEF RowTrue
<1>2. \A q \in Procs : Works(proc[q], e)' => q = p
  BY <1>1 DEF Works
<1>3. (Works(proc[p], e)' <=> Works(h, e)) /\ (Works(proc[p], e)' => Shows(proc[p], e)')
  BY <1>1 DEF Works, Shows
<1> QED
  BY <1>2, <1>3

\* Who has an execution in hand has it alone.
LEMMA HasAlone ==
  ASSUME NEW e, RowTrue(e), e \notin torn, NEW p \in Procs, Works(proc[p], e)
  PROVE  Shows(proc[p], e) /\ \A q \in Procs : q # p => ~Works(proc[q], e)
  BY DEF RowTrue

\* What all handlers say, when one of them moves.
LEMMA Spoken ==
  ASSUME IInv, \A q \in Procs : Speaks(q, proc[q]), NEW p \in Procs, NEW h,
         proc' = [proc EXCEPT ![p] = h], Speaks(p, h)
  PROVE  \A q \in Procs : Speaks(q, proc[q])'
<1>1. proc'[p] = h /\ \A q \in Procs : q # p => proc'[q] = proc[q]
  BY DEF IInv, TablesOK
<1>2. ASSUME NEW q \in Procs PROVE Speaks(q, proc[q])'
  <2>1. CASE q = p
    BY <1>1, <2>1 DEF Speaks
  <2>2. CASE q # p
    BY <1>1, <2>2 DEF Speaks
  <2> QED
    BY <2>1, <2>2
<1> QED
  BY <1>2

\* Steps that have to do with no execution in hand: they may take another label, or pick
\* another row, or end.
Leaves(p) ==
  /\ UNCHANGED <<execs, torn>>
  /\ proc[p].at \notin AtWork
  /\ \E h \in Handler : proc' = [proc EXCEPT ![p] = h] /\ h.at \notin AtWork /\ Speaks(p, h)

LEMMA LeavesRows ==
  ASSUME IInv, ExecInv, NEW p \in Procs, Leaves(p)
  PROVE  ExecInv'
<1>1. PICK h \in Handler : proc' = [proc EXCEPT ![p] = h] /\ h.at \notin AtWork /\ Speaks(p, h)
  BY DEF Leaves
<1>2. UNCHANGED <<execs, torn>> /\ proc[p].at \notin AtWork
  BY DEF Leaves
<1>3. ASSUME NEW e \in DOMAIN execs' PROVE RowTrue(e)'
  <2>1. ~Works(proc[p], e) /\ ~Works(h, e) /\ e \in DOMAIN execs /\ RowTrue(e)
    BY <1>1, <1>2 DEF Works, ExecInv
  <2> QED
    BY <1>1, <1>2, <2>1, RowStays
<1>4. ASSUME NEW q \in Procs PROVE Speaks(q, proc[q])'
  BY <1>1, Spoken DEF ExecInv
<1> QED
  BY <1>3, <1>4 DEF ExecInv

\* A handler that goes from one label to another, neither of which is about an execution.
LEMMA GoingLeaves ==
  ASSUME IInv, ExecInv, NEW p \in Procs, UNCHANGED <<execs, torn>>, proc[p].at \notin AtWork,
         NEW l \in Labels \ AtWork, l = "create" => Says(p) = "tool",
         Goto(p, l) \/ (\E n \in Nat : Choose(p, n, l)) \/ (\E i \in DOMAIN intents : Find(p, i, l))
  PROVE  Leaves(p)
<1>1. \E h \in Handler : h.at = l /\ h.text = proc[p].text /\ proc' = [proc EXCEPT ![p] = h]
  BY Gone, Chosen, Found
<1>2. proc[p].text.says = "tool" => p \in Turns
  BY DEF ExecInv, Speaks
<1>3. PICK h \in Handler : h.at = l /\ h.text = proc[p].text /\ proc' = [proc EXCEPT ![p] = h]
  BY <1>1
<1>4. h.at \notin AtWork /\ Speaks(p, h)
  BY <1>2, <1>3 DEF Says, Speaks, AtWork
<1> QED
  BY <1>3, <1>4 DEF Leaves

\* The turn's way from handler to handler, proposals and chat.
LEMMA OthersLeave ==
  ASSUME IInv, ExecInv, NEW p \in Procs,
         \/ RouteTool(p) \/ RouteApproval(p) \/ PrepareApproval(p) \/ RouteRequirement(p)
         \/ PrepareRequirement(p) \/ Resolve(p) \/ LaunchStep(p) \/ PrepareChat(p) \/ Reply(p)
  PROVE  Leaves(p)
<1>1. UNCHANGED <<execs, torn>> /\ proc[p].at \notin AtWork
  BY DEF RouteTool, RouteApproval, PrepareApproval, RouteRequirement, PrepareRequirement, Resolve,
         LaunchStep, RouteLaunch, PrepareLaunch, UpdateWorkspace, Decline, CreateJob, MarkLaunched,
         Supersede, Propose, PrepareChat, Reply, At, AtWork, Keep, histories, rows
<1>2. ASSUME NEW l \in {"create", "approval", "requirement", "prepareApproval", "answer", "decide", "launch",
                        "prepareRequirement", "resolve", "prepareLaunch", "chat", "supersede", "workspace",
                        "decline", "createJob", "markLaunched", "propose", "reply"},
             l = "create" => Says(p) = "tool",
             Goto(p, l) \/ (\E n \in Nat : Choose(p, n, l)) \/ (\E i \in DOMAIN intents : Find(p, i, l))
      PROVE  Leaves(p)
  <2>1. l \in Labels \ AtWork
    BY DEF Labels, AtWork
  <2> QED
    BY <1>1, <1>2, <2>1, GoingLeaves
<1>3. CASE RouteTool(p) \/ PrepareApproval(p) \/ PrepareRequirement(p) \/ Resolve(p) \/ PrepareChat(p) \/ Reply(p)
  BY <1>2, <1>3 DEF RouteTool, PrepareApproval, PrepareRequirement, Resolve, PrepareChat, Reply
<1>4. CASE RouteApproval(p) \/ RouteRequirement(p)
  <2>1. PendingExecs \subseteq Nat /\ Waiting(reqs) \subseteq Nat
    BY ExecutionRows DEF PendingExecs, Waiting, IInv, TablesOK
  <2> QED
    BY <1>2, <1>4, <2>1 DEF RouteApproval, RouteRequirement, Newest
<1>5. CASE RouteLaunch(p)
  BY <1>2, <1>5 DEF RouteLaunch, Newest, PendingIntents
<1>6. CASE PrepareLaunch(p) \/ Decline(p) \/ CreateJob(p) \/ MarkLaunched(p) \/ Supersede(p) \/ Propose(p)
  BY <1>2, <1>6 DEF PrepareLaunch, Decline, CreateJob, MarkLaunched, Supersede, Propose
<1>7. CASE UpdateWorkspace(p)
  BY <1>2, <1>7 DEF UpdateWorkspace
<1> QED
  BY <1>3, <1>4, <1>5, <1>6, <1>7 DEF LaunchStep

\* A message or a click takes up nothing yet.
LEMMA ArrivalIs ==
  ASSUME IInv, NEW p \in Procs, Send(p) \/ Click(p)
  PROVE  /\ proc[p].at = "idle" /\ UNCHANGED <<rows, chat, histories>>
         /\ \E h \in Handler : /\ proc' = [proc EXCEPT ![p] = h] /\ h.at \in {"tools", "decide"}
                               /\ h.at = "tools" => p \in Turns
                               /\ h.at = "decide" => p \in Clicks
                               /\ h.text.says = "tool" => p \in Turns
<1>1. PICK text \in Texts, n \in Nat, l \in {"tools", "decide"} :
        /\ Arrive(p, text, n, l) /\ (text.says = "tool" => p \in Turns)
        /\ l = "tools" => p \in Turns
        /\ l = "decide" => p \in Clicks
  <2>1. CASE Send(p)
    BY <2>1 DEF Send, Messages
  <2>2. CASE Click(p)
    <3>1. \A says \in {"approve", "deny"} : Plain(says) \in Texts /\ Plain(says).says # "tool"
      BY DEF Plain, Texts, Meanings
    <3>2. DOMAIN execs \subseteq Nat
      BY ExecutionRows DEF IInv, TablesOK
    <3> QED
      BY <2>2, <3>1, <3>2 DEF Click
  <2> QED
    BY <2>1, <2>2
<1> DEFINE h == [Resting(l) EXCEPT !.text = text, !.pick = n]
<1>2. h \in Handler /\ h.at = l /\ h.text = text
  BY DEF Resting, Handler, Labels
<1>3. proc' = [proc EXCEPT ![p] = h] /\ proc[p].at = "idle" /\ UNCHANGED <<rows, chat, histories>>
  BY <1>1 DEF Arrive, At, Keep
<1> HIDE DEF h
<1> QED
  BY <1>1, <1>2, <1>3

LEMMA ArrivalLeaves ==
  ASSUME IInv, NEW p \in Procs, Send(p) \/ Click(p)
  PROVE  Leaves(p)
<1>1. UNCHANGED <<execs, torn>>
  BY ArrivalIs DEF rows, histories
<1> QED
  BY <1>1, ArrivalIs DEF Leaves, AtWork, Speaks

\* What the row a handler works on becomes.
LEMMA RowWritten ==
  ASSUME IInv, NEW e \in DOMAIN execs, NEW row \in Execution, execs' = [execs EXCEPT ![e] = row]
  PROVE  /\ DOMAIN execs' = DOMAIN execs /\ execs'[e] = row
         /\ \A k \in DOMAIN execs : k # e => execs'[k] = execs[k]
  BY Updated DEF IInv, TablesOK

\* Steps of a handler that works on an execution, or begins to, touch no other.
LEMMA WorkKeeps ==
  ASSUME IInv, ExecInv, NEW p \in Procs, NEW h, proc' = [proc EXCEPT ![p] = h], Speaks(p, h),
         NEW e \in DOMAIN execs, e = proc[p].pick, h.at = "done" \/ h.pick = e,
         DOMAIN execs' = DOMAIN execs, torn \subseteq torn',
         \A k \in DOMAIN execs : k # e => execs'[k] = execs[k],
         RowTrue(e)'
  PROVE  ExecInv'
<1>1. ASSUME NEW k \in DOMAIN execs' PROVE RowTrue(k)'
  <2>1. CASE k = e
    BY <2>1
  <2>2. CASE k # e
    <3>1. ~Works(proc[p], k) /\ ~Works(h, k) /\ RowTrue(k) /\ execs'[k] = execs[k]
      BY <2>2 DEF Works, AtWork, ExecInv
    <3> QED
      BY <3>1, RowStays
  <2> QED
    BY <2>1, <2>2
<1> QED
  BY <1>1, Spoken DEF ExecInv

\* A handler that works on an execution goes on with it, or lets it go.
LEMMA WorkerMoves ==
  ASSUME IInv, ExecInv, NEW p \in Procs, NEW h, proc' = [proc EXCEPT ![p] = h], Speaks(p, h),
         NEW e, e = proc[p].pick, Works(proc[p], e), h.at = "done" \/ h.pick = e,
         DOMAIN execs' = DOMAIN execs, torn \subseteq torn',
         \A k \in DOMAIN execs : k # e => execs'[k] = execs[k],
         e \notin torn' /\ Shows(proc[p], e) => IF Works(h, e) THEN Shows(h, e)' ELSE Agrees(e)'
  PROVE  ExecInv'
<1>1. e \in DOMAIN execs
  BY Going DEF Works, AtWork, Picked, WithExec
<1>2. RowTrue(e)
  BY <1>1 DEF ExecInv
<1>3. e \notin torn' =>
        /\ \A q \in Procs : q # p => ~Works(proc[q], e)
        /\ Works(h, e) => Shows(h, e)'
        /\ ~Works(h, e) => Agrees(e)'
  BY <1>2, HasAlone
<1>4. RowTrue(e)'
  BY <1>3, RowMoves
<1> QED
  BY <1>1, <1>4, WorkKeeps

\* The tool is run.
LEMMA RunIsShown ==
  ASSUME IInv, ExecInv, NEW p \in Procs, RunTool(p)
  PROVE  ExecInv'
<1>0. PICK e : e = proc[p].pick
  OBVIOUS
<1> DEFINE row == [execs[e] EXCEPT !.runs = @ + 1]
<1>1. /\ proc[p].at = "run" /\ e \in DOMAIN execs /\ execs[e] \in Execution
      /\ execs \in Seq(Execution) /\ Works(proc[p], e) /\ torn' = torn
  BY <1>0, Going DEF RunTool, At, Picked, WithExec, IInv, TablesOK, Works, AtWork, Keep, histories
<1>2. PICK ok \in BOOLEAN : proc' = [proc EXCEPT ![p].at = "record", ![p].ok = ok]
  BY DEF RunTool
<1>3. PICK h \in Handler : /\ h.at = "record" /\ h.pick = e /\ h.text = proc[p].text
                           /\ proc' = [proc EXCEPT ![p] = h]
  <2> DEFINE g == [proc[p] EXCEPT !.at = "record", !.ok = ok]
  <2>1. proc[p] \in Handler /\ "record" \in Labels
    BY Going DEF Labels
  <2>2. g \in Handler /\ g.at = "record" /\ g.pick = e /\ g.text = proc[p].text
    BY <1>0, <2>1 DEF Handler
  <2>3. proc' = [proc EXCEPT ![p] = g]
    BY <1>2
  <2> QED
    BY <2>2, <2>3
<1>5. execs' = [execs EXCEPT ![e] = row]
  BY <1>0 DEF RunTool, Pick
<1>6. /\ row \in Execution /\ row.runs = execs[e].runs + 1 /\ row.approval = execs[e].approval
      /\ execs[e].runs \in Nat
  BY <1>1, Ran DEF Execution
<1>7. /\ DOMAIN execs' = DOMAIN execs /\ execs'[e] = row
      /\ \A k \in DOMAIN execs : k # e => execs'[k] = execs[k]
  <2> HIDE DEF row
  <2> QED
    BY <1>1, <1>5, <1>6, RowWritten
<1>8. execs'[e].runs = execs[e].runs + 1 /\ execs'[e].approval = execs[e].approval
  BY <1>6, <1>7
<1> HIDE DEF row
<1>9. Speaks(p, h)
  BY <1>3 DEF ExecInv, Speaks
<1>10. Works(h, e) /\ (Shows(proc[p], e) => Shows(h, e)')
  BY <1>1, <1>3, <1>6, <1>8 DEF Works, AtWork, Shows
<1> QED
  BY <1>0, <1>1, <1>3, <1>7, <1>9, <1>10, WorkerMoves

\* The result of a run, or a denial, is written.
LEMMA MarkIsShown ==
  ASSUME IInv, ExecInv, NEW p \in Procs, RecordRun(p) \/ WriteDenial(p)
  PROVE  ExecInv'
<1>0. PICK e : e = proc[p].pick
  OBVIOUS
<1>1. PICK l \in Labels : /\ l = (IF proc[p].at = "record" THEN "trace" ELSE "append") /\ Goto(p, l)
                          /\ proc[p].at \in {"record", "denial"} /\ (RecordRun(p) <=> proc[p].at = "record")
                          /\ torn' = torn
  BY DEF RecordRun, WriteDenial, At, Keep, histories, Labels
<1>2. e \in DOMAIN execs /\ execs[e] \in Execution /\ Works(proc[p], e)
  BY <1>0, <1>1, Going DEF Picked, WithExec, IInv, TablesOK, Works, AtWork
<1>3. PICK old \in Execution : old = execs[e]
  BY <1>2
<1>4. PICK row \in Execution :
        /\ execs' = [execs EXCEPT ![e] = row] /\ row.runs = old.runs
        /\ row.approval = IF proc[p].at = "denial" THEN "denied"
                          ELSE IF Says(p) = "tool" THEN old.approval ELSE "approved"
  <2>1. CASE RecordRun(p)
    <3> DEFINE row == [old EXCEPT !.status = IF proc[p].ok THEN "completed" ELSE "failed",
                                  !.approval = IF Says(p) = "tool" THEN @ ELSE "approved"]
    <3>1. row \in Execution /\ row.runs = old.runs
          /\ row.approval = IF Says(p) = "tool" THEN old.approval ELSE "approved"
      BY DEF Execution, Approvals
    <3>2. execs' = [execs EXCEPT ![e] = row]
      BY <1>0, <1>2, <1>3, <2>1 DEF RecordRun, Pick
    <3> QED
      BY <1>1, <2>1, <3>1, <3>2
  <2>2. CASE WriteDenial(p)
    <3> DEFINE row == [old EXCEPT !.approval = "denied", !.status = "denied"]
    <3>1. row \in Execution /\ row.runs = old.runs /\ row.approval = "denied"
      BY DEF Execution, Approvals
    <3>2. execs' = [execs EXCEPT ![e] = row]
      BY <1>0, <1>2, <1>3, <2>2 DEF WriteDenial, Pick
    <3>3. proc[p].at = "denial"
      BY <2>2 DEF WriteDenial, At
    <3> QED
      BY <3>1, <3>2, <3>3
  <2> QED
    BY <2>1, <2>2
<1>5. PICK h \in Handler : /\ h.at = l /\ h.pick = e /\ h.text = proc[p].text
                           /\ proc' = [proc EXCEPT ![p] = h]
  BY <1>0, <1>1, Gone
<1>6. /\ DOMAIN execs' = DOMAIN execs /\ execs'[e] = row
      /\ \A k \in DOMAIN execs : k # e => execs'[k] = execs[k]
  BY <1>2, <1>4, RowWritten
<1>7. Speaks(p, proc[p]) /\ Speaks(p, h)
  BY <1>1, <1>5 DEF ExecInv, Speaks
<1>8. Shows(proc[p], e) => IF Works(h, e) THEN Shows(h, e)' ELSE Agrees(e)'
  <2>1. CASE proc[p].at = "record"
    BY <1>1, <1>3, <1>4, <1>5, <1>6, <2>1 DEF Works, AtWork, Shows, Says
  <2>2. CASE proc[p].at = "denial"
    BY <1>1, <1>3, <1>4, <1>5, <1>6, <1>7, <2>2 DEF Works, AtWork, Shows, Agrees, Speaks
  <2> QED
    BY <1>1, <2>1, <2>2
<1> QED
  BY <1>0, <1>1, <1>2, <1>5, <1>6, <1>7, <1>8, WorkerMoves

\* A run that has its result goes on to the message about it.
LEMMA TraceIsShown ==
  ASSUME IInv, ExecInv, NEW p \in Procs, TraceRun(p)
  PROVE  ExecInv'
<1>0. PICK e : e = proc[p].pick
  OBVIOUS
<1>1. /\ proc[p].at = "trace" /\ UNCHANGED <<execs, torn>> /\ Works(proc[p], e)
  BY <1>0 DEF TraceRun, At, rows, Keep, histories, Works, AtWork
<1>2. PICK l \in Labels : Goto(p, l) /\ l = (IF Says(p) = "tool" THEN "answer" ELSE "append")
  BY DEF TraceRun, Labels
<1>3. PICK h \in Handler : /\ h.at = l /\ h.pick = e /\ h.text = proc[p].text
                           /\ proc' = [proc EXCEPT ![p] = h]
  BY <1>0, <1>2, Gone
<1>4. Speaks(p, h)
  BY <1>2, <1>3 DEF ExecInv, Speaks
<1>5. Shows(proc[p], e) => IF Works(h, e) THEN Shows(h, e)' ELSE Agrees(e)'
  BY <1>1, <1>2, <1>3 DEF Works, AtWork, Shows, Agrees, Says
<1> QED
  BY <1>0, <1>1, <1>3, <1>4, <1>5, WorkerMoves

\* The message about a decision, or the answer of a turn, is the last step.
LEMMA AnswerIsShown ==
  ASSUME IInv, ExecInv, NEW p \in Procs, Answer(p)
  PROVE  ExecInv'
<1>0. PICK e : e = proc[p].pick
  OBVIOUS
<1>1. proc[p].at \in {"answer", "append"} /\ UNCHANGED <<execs, torn>> /\ Finish(p)
  BY DEF Answer, At, rows, Keep, histories
<1>2. PICK h \in Handler : h = Resting("done") /\ h.at = "done" /\ Speaks(p, h)
  BY RestingSound DEF Speaks, Resting, Plain
<1>3. proc' = [proc EXCEPT ![p] = h]
  BY <1>1, <1>2 DEF Finish
<1>4. CASE Works(proc[p], e)
  <2>1. Shows(proc[p], e) => ~Works(h, e) /\ Agrees(e)'
    BY <1>1, <1>2, <1>4 DEF Works, AtWork, Shows, Agrees
  <2> QED
    BY <1>0, <1>1, <1>2, <1>3, <1>4, <2>1, WorkerMoves
<1>5. CASE ~Works(proc[p], e)
  <2>1. ASSUME NEW k \in DOMAIN execs' PROVE RowTrue(k)'
    <3>1. ~Works(proc[p], k) /\ ~Works(h, k) /\ RowTrue(k)
      BY <1>0, <1>1, <1>2, <1>5 DEF Works, AtWork, ExecInv
    <3> QED
      BY <1>1, <1>3, <3>1, RowStays
  <2> QED
    BY <1>2, <1>3, <2>1, Spoken DEF ExecInv
<1> QED
  BY <1>4, <1>5

\* A decision takes an execution in hand that waits; nobody else has it, or it is torn.
LEMMA DecisionIsShown ==
  ASSUME IInv, ExecInv, NEW p \in Procs, Decide(p)
  PROVE  ExecInv'
<1>0. PICK e : e = proc[p].pick
  OBVIOUS
<1>1. /\ proc[p].at = "decide" /\ e \in DOMAIN execs /\ execs[e] \in Execution
      /\ ~Works(proc[p], e) /\ RowTrue(e)
  BY <1>0, Going DEF Decide, At, Picked, WithExec, IInv, TablesOK, Works, AtWork, ExecInv
<1>2. PICK old \in Execution : old = execs[e]
  BY <1>1
<1>3. CASE old.approval # "pending"
  <2>1. UNCHANGED <<execs, torn>> /\ Goto(p, "done") /\ "done" \in Labels \ AtWork
    BY <1>0, <1>2, <1>3 DEF Decide, Pick, Labels, AtWork
  <2>2. Leaves(p)
    BY <1>1, <2>1, GoingLeaves DEF AtWork
  <2> QED
    BY <2>2, LeavesRows
<1>4. CASE old.approval = "pending"
  <2>1. torn' = torn \cup {k \in {e} : Deciders(k) # {}}
    BY <1>0, <1>2, <1>4 DEF Decide, Pick
  <2>2. ASSUME e \notin torn', NEW q \in Procs, q # p PROVE ~Works(proc[q], e)
    <3>1. e \notin torn /\ Deciders(e) = {}
      BY <2>1, <2>2
    <3>2. proc[q].at \in {"run", "record", "denial"} => proc[q].pick # e
      BY <3>1 DEF Deciders, Pick
    <3>3. Works(proc[q], e) => proc[q].at \in {"trace", "append"} /\ Shows(proc[q], e)
      BY <1>1, <3>1, <3>2 DEF Works, AtWork, RowTrue
    <3> QED
      BY <1>2, <1>4, <3>3 DEF Shows
  <2>3. e \notin torn' => execs[e].runs = 0
    <3>1. e \notin torn' => e \notin torn /\ \A q \in Procs : ~Works(proc[q], e)
      BY <1>1, <2>1, <2>2
    <3> QED
      BY <1>1, <1>2, <1>4, <3>1 DEF RowTrue, Agrees
  <2>4. PICK l \in {"denial", "run"} : /\ Goto(p, l) /\ (l = "denial" <=> Says(p) = "deny")
                                       /\ Says(p) \in {"deny", "approve"}
                                       /\ l = "denial" => UNCHANGED execs
                                       /\ l = "run" => execs' = [execs EXCEPT ![e].grants = @ + 1]
    BY <1>0, <1>2, <1>4 DEF Decide, Pick
  <2>5. PICK h \in Handler : /\ h.at = l /\ h.pick = e /\ h.text = proc[p].text
                             /\ proc' = [proc EXCEPT ![p] = h]
    <3>1. l \in Labels
      BY DEF Labels
    <3> QED
      BY <1>0, <2>4, <3>1, Gone
  <2>6. /\ DOMAIN execs' = DOMAIN execs /\ execs'[e].runs = execs[e].runs
        /\ execs'[e].approval = "pending" /\ \A k \in DOMAIN execs : k # e => execs'[k] = execs[k]
    <3>1. CASE l = "denial"
      BY <1>2, <1>4, <2>4, <3>1
    <3>2. CASE l = "run"
      <4>1. PICK row \in Execution : /\ row = [old EXCEPT !.grants = @ + 1] /\ row.runs = old.runs
                                     /\ row.approval = old.approval
        BY Granted
      <4>2. execs' = [execs EXCEPT ![e] = row]
        BY <1>2, <2>4, <3>2, <4>1
      <4> QED
        BY <1>1, <1>2, <1>4, <4>1, <4>2, RowWritten
    <3> QED
      BY <3>1, <3>2
  <2>7. Speaks(p, h) /\ (e \notin torn' => Shows(h, e)')
    BY <2>3, <2>4, <2>5, <2>6 DEF ExecInv, Speaks, Shows, Says
  <2>8. Works(h, e)
    BY <2>4, <2>5 DEF Works, AtWork
  <2>9. RowTrue(e)'
    BY <2>2, <2>5, <2>7, <2>8, RowMoves
  <2> QED
    BY <1>0, <1>1, <2>1, <2>5, <2>6, <2>7, <2>9, WorkKeeps
<1> QED
  BY <1>3, <1>4

\* What breaks off spoils an execution, or leaves one whose row tells the truth.
LEMMA BrokenRows ==
  ASSUME IInv, ExecInv, NEW P \in SUBSET Procs, BreakOff(P), UNCHANGED execs
  PROVE  ExecInv'
<1>1. /\ \A p \in Procs : proc'[p] = IF p \in P THEN Resting("done") ELSE proc[p]
      /\ torn \subseteq torn'
      /\ \A p \in P : proc[p].at = "record" \/ (proc[p].at = "run" /\ Says(p) = "tool") => proc[p].pick \in torn'
  BY DEF BreakOff, At, Pick
<1>2. Resting("done").at = "done" /\ Resting("done").text.says = "talk"
  BY DEF Resting, Plain
<1>3. ASSUME NEW p \in Procs PROVE Speaks(p, proc[p])'
  BY <1>1, <1>2 DEF ExecInv, Speaks
<1>4. ASSUME NEW e \in DOMAIN execs', e \notin torn'
      PROVE  /\ \A p, q \in Procs : Works(proc[p], e)' /\ Works(proc[q], e)' => p = q
             /\ \A p \in Procs : Works(proc[p], e)' => Shows(proc[p], e)'
             /\ (\A p \in Procs : ~Works(proc[p], e)') => Agrees(e)'
  <2>1. RowTrue(e) /\ e \notin torn /\ execs' = execs
    BY <1>1, <1>4 DEF ExecInv
  <2>2. \A p \in Procs : Works(proc[p], e)' => p \notin P /\ proc'[p] = proc[p] /\ Works(proc[p], e)
    BY <1>1, <1>2 DEF Works, AtWork
  <2>3. \A p \in Procs : Works(proc[p], e)' => Shows(proc[p], e)'
    BY <2>1, <2>2 DEF RowTrue, Shows
  <2>4. \A p \in Procs : Works(proc[p], e) /\ p \notin P => Works(proc[p], e)'
    BY <1>1 DEF Works
  <2>5. ASSUME \A p \in Procs : ~Works(proc[p], e)' PROVE Agrees(e)'
    <3>1. CASE \A p \in Procs : ~Works(proc[p], e)
      BY <2>1, <3>1 DEF RowTrue, Agrees
    <3>2. ASSUME NEW p \in Procs, Works(proc[p], e) PROVE Agrees(e)'
      <4>1. p \in P /\ proc[p].pick = e
        BY <2>4, <2>5, <3>2 DEF Works
      <4>2. proc[p].at # "record" /\ ~(proc[p].at = "run" /\ Says(p) = "tool")
        BY <1>1, <1>4, <4>1
      <4>3. Shows(proc[p], e) /\ proc[p].at \in {"run", "denial", "trace", "append"}
        BY <2>1, <3>2, <4>2 DEF RowTrue, Works, AtWork
      <4>4. proc[p].at = "denial" => proc[p].text.says = "deny"
        BY DEF ExecInv, Speaks
      <4> QED
        BY <2>1, <4>2, <4>3, <4>4 DEF Shows, Agrees, Says
    <3> QED
      BY <3>1, <3>2
  <2> QED
    BY <2>1, <2>2, <2>3, <2>5 DEF RowTrue
<1>5. \A e \in DOMAIN execs' : RowTrue(e)'
  BY <1>4 DEF RowTrue
<1> QED
  BY <1>3, <1>5 DEF ExecInv

\* What throws inside the try block of a run is recorded as its failure: the row tells of a run
\* that took place, unless it was yet to begin.
LEMMA CaughtRows ==
  ASSUME IInv, ExecInv, NEW p \in Procs, Throw(p), InTry(p)
  PROVE  ExecInv'
<1>0. PICK e : e = proc[p].pick
  OBVIOUS
<1>1. /\ proc[p].at \in {"record", "trace", "run", "append"} /\ proc[p].text.says # "deny"
      /\ proc[p].at \in {"run", "append"} => proc[p].text.says = "approve"
  BY DEF InTry, Says
<1>2. UNCHANGED execs /\ torn' = (IF proc[p].at = "run" THEN torn \cup {e} ELSE torn)
  BY <1>0 DEF Throw, rows, At, Pick
<1>3. PICK h \in Handler : /\ h.at = "record" /\ h.pick = e /\ h.text = proc[p].text
                           /\ proc' = [proc EXCEPT ![p] = h]
  <2> DEFINE g == [proc[p] EXCEPT !.at = "record", !.ok = FALSE]
  <2>1. proc[p] \in Handler /\ "record" \in Labels
    BY Going DEF Labels
  <2>2. g \in Handler /\ g.at = "record" /\ g.pick = e /\ g.text = proc[p].text
    BY <1>0, <2>1 DEF Handler
  <2>3. proc' = [proc EXCEPT ![p] = g]
    BY DEF Throw
  <2> QED
    BY <2>2, <2>3
<1>4. Works(proc[p], e) /\ Works(h, e) /\ Speaks(p, h)
  BY <1>0, <1>1, <1>3 DEF Works, AtWork, ExecInv, Speaks
<1>5. e \notin torn' /\ Shows(proc[p], e) => Shows(h, e)'
  BY <1>1, <1>2, <1>3 DEF Shows
<1> QED
  BY <1>0, <1>2, <1>3, <1>4, <1>5, WorkerMoves

\* A new execution is nobody's but that of the turn that made it.
LEMMA NewRowIsShown ==
  ASSUME IInv, ExecInv, NEW p \in Procs, CreateExecution(p)
  PROVE  ExecInv'
<1>0. PICK new : new = Len(execs) + 1
  OBVIOUS
<1>1. /\ execs \in Seq(Execution) /\ proc[p].at = "create" /\ UNCHANGED torn /\ p \in Turns
      /\ \A e : ~Works(proc[p], e)
  BY TurnsAlone DEF CreateExecution, At, OfClicks, IInv, TablesOK, Keep, histories, Works, AtWork
<1>2. PICK row \in Execution, l \in {"run", "answer"} :
        /\ execs' = Append(execs, row) /\ Choose(p, new, l) /\ row.runs = 0
        /\ \/ row.approval = "not_required" /\ l = "run"
           \/ row.approval \in {"policy_denied", "pending"} /\ l = "answer"
  <2> DEFINE approval(m) == CASE m = "deny"      -> "policy_denied"
                              [] m = "ask_first" -> "pending"
                              [] OTHER           -> "not_required"
             status(m)   == CASE m = "deny"      -> "denied"
                              [] m = "ask_first" -> "awaiting_approval"
                              [] OTHER           -> "completed"
             row(m) == [approval |-> approval(m), status |-> status(m), runs |-> 0,
                        grants |-> IF m = "always_allow" THEN 1 ELSE 0]
             l(m) == IF m = "always_allow" THEN "run" ELSE "answer"
  <2>1. PICK m \in Modes : execs' = Append(execs, row(m)) /\ Choose(p, new, l(m))
    BY <1>0 DEF CreateExecution
  <2>2. /\ approval(m) \in Approvals
        /\ status(m) \in {"awaiting_approval", "completed", "failed", "denied"}
        /\ \/ approval(m) = "not_required" /\ l(m) = "run"
           \/ approval(m) \in {"policy_denied", "pending"} /\ l(m) = "answer"
    BY DEF Modes, Approvals
  <2> HIDE DEF approval, status
  <2>3. row(m) \in Execution /\ row(m).runs = 0 /\ row(m).approval = approval(m)
    BY <2>2 DEF Execution
  <2> QED
    BY <2>1, <2>2, <2>3
<1>3. /\ DOMAIN execs = 1..Len(execs) /\ DOMAIN execs' = 1..(Len(execs) + 1) /\ Len(execs) \in Nat
      /\ execs'[new] = row /\ \A e \in DOMAIN execs : execs'[e] = execs[e]
  BY <1>0, <1>1, <1>2, Added
<1>4. PICK h \in Handler : h.at = l /\ h.pick = new /\ h.text = proc[p].text /\ proc' = [proc EXCEPT ![p] = h]
  <2>1. new \in Nat /\ l \in Labels
    BY <1>0, <1>3 DEF Labels
  <2> QED
    BY <1>2, <2>1, Chosen
<1>5. h.text.says = "tool" /\ Speaks(p, h)
  BY <1>1, <1>2, <1>4 DEF ExecInv, Speaks
<1>6. ASSUME NEW e \in DOMAIN execs' PROVE RowTrue(e)'
  <2>1. CASE e \in DOMAIN execs
    <3>1. e # new
      BY <1>0, <1>3, <2>1
    <3>2. ~Works(h, e) /\ RowTrue(e) /\ execs'[e] = execs[e]
      BY <1>3, <1>4, <2>1, <3>1 DEF Works, ExecInv
    <3> QED
      BY <1>1, <1>4, <3>2, RowStays
  <2>2. CASE e = new
    <3>1. \A q \in Procs : ~Works(proc[q], e)
      <4>1. \A q \in Procs : proc[q].at \in WithExec => proc[q].pick \in DOMAIN execs
        BY Going DEF Picked
      <4> QED
        BY <1>0, <1>3, <2>2, <4>1 DEF Works, AtWork, WithExec
    <3>2. Works(h, e) => Shows(h, e)'
      BY <1>2, <1>3, <1>4, <1>5, <2>2 DEF Works, AtWork, Shows
    <3>3. ~Works(h, e) => Agrees(e)'
      BY <1>2, <1>3, <1>4, <2>2 DEF Works, AtWork, Agrees
    <3> QED
      BY <1>4, <3>1, <3>2, <3>3, RowMoves
  <2> QED
    BY <1>0, <1>3, <2>1, <2>2
<1> QED
  BY <1>4, <1>5, <1>6, Spoken DEF ExecInv

LEMMA ExecsAtFirst == Init => ExecInv
<1>1. Resting("idle").at = "idle" /\ Resting("idle").text.says = "talk"
  BY DEF Resting, Plain
<1> QED
  BY <1>1 DEF Init, ExecInv, Speaks

LEMMA ExecsKept == IInv /\ ExecInv /\ [Next]_vars => ExecInv'
<1> SUFFICES ASSUME IInv, ExecInv, [Next]_vars PROVE ExecInv'
  OBVIOUS
<1>1. CASE UNCHANGED vars
  <2>1. UNCHANGED <<execs, proc, torn>>
    BY <1>1 DEF vars, rows, histories
  <2> QED
    BY <2>1 DEF ExecInv, RowTrue, Works, Shows, Agrees, Speaks
<1>2. CASE Crash
  <2>1. BreakOff(Busy) /\ UNCHANGED execs /\ Busy \in SUBSET Procs
    BY <1>2 DEF Crash, rows, Busy
  <2> QED
    BY <2>1, BrokenRows
<1>3. ASSUME NEW p \in Procs, Throw(p) PROVE ExecInv'
  <2>1. CASE InTry(p)
    BY <1>3, <2>1, CaughtRows
  <2>2. CASE ~InTry(p)
    <3>1. BreakOff({p}) /\ UNCHANGED execs /\ {p} \in SUBSET Procs
      BY <1>3, <2>2 DEF Throw, rows
    <3> QED
      BY <3>1, BrokenRows
  <2> QED
    BY <2>1, <2>2
<1>4. ASSUME NEW p \in Procs, Send(p) \/ Click(p) PROVE ExecInv'
  BY <1>4, ArrivalLeaves, LeavesRows
<1>5. ASSUME NEW p \in Procs, Step(p) PROVE ExecInv'
  BY <1>5, OthersLeave, LeavesRows, NewRowIsShown, RunIsShown, MarkIsShown, TraceIsShown,
     DecisionIsShown, AnswerIsShown DEF Step, ToolStep
<1> QED
  BY <1>1, <1>2, <1>3, <1>4, <1>5 DEF Next

LEMMA ExecsInductive == Spec => [](IInv /\ ExecInv)
<1> QED
  BY InitKeeps, NextKeeps, ExecsAtFirst, ExecsKept, PTL DEF Spec

\* However handlers overlap, the row of an execution nobody is deciding tells how often its tool
\* was run (runToolExecution and decideToolExecution), unless it was decided twice at once or its
\* handler broke off between the run and the mark.
THEOREM RowsTellRuns == Spec => []RecordsAgree
<1>1. IInv /\ ExecInv => RecordsAgree
  <2> SUFFICES ASSUME IInv, ExecInv, NEW e \in DOMAIN execs \ torn, Deciders(e) = {} PROVE Agrees(e)
    BY DEF RecordsAgree, Agrees
  <2>1. RowTrue(e)
    BY DEF ExecInv
  <2>2. ASSUME NEW p \in Procs, Works(proc[p], e) PROVE Agrees(e)
    <3>1. proc[p].at \in {"trace", "append"}
      BY <2>2 DEF Works, AtWork, Deciders, Pick
    <3> QED
      BY <2>1, <2>2, <3>1 DEF RowTrue, Shows, Agrees
  <2> QED
    BY <2>1, <2>2 DEF RowTrue
<1> QED
  BY <1>1, ExecsInductive, PTL

\* Whatever overlaps and breaks off, an execution shown as approved and completed was run and a
\* proposal shown as launched has its job (decideToolExecution and maybeHandleAgentJobLaunchTurn
\* mark the rows after the work); one that needs no approval is shown as completed before its tool
\* is run (runToolExecution), and its turn runs it next unless it breaks off.
THEOREM MarksAreTrue == Spec => []MarkedWhenDone
<1>1. IInv /\ ExecInv => UnaskedRunNext
  <2> SUFFICES ASSUME IInv, ExecInv, NEW e \in DOMAIN execs \ torn,
                      execs[e].approval = "not_required", execs[e].runs = 0
               PROVE  \E t \in Turns : At(t, "run") /\ Pick(t) = e
    BY DEF UnaskedRunNext
  <2>1. RowTrue(e) /\ ~Agrees(e)
    BY DEF ExecInv, Agrees
  <2>2. PICK p \in Procs : Works(proc[p], e) /\ Shows(proc[p], e)
    BY <2>1 DEF RowTrue
  <2>3. proc[p].at \in {"run", "denial"} /\ proc[p].text.says = "tool" /\ proc[p].pick = e
    BY <2>2 DEF Shows, Works
  <2>4. p \in Turns /\ proc[p].at = "run"
    BY <2>3 DEF ExecInv, Speaks
  <2> QED
    BY <2>3, <2>4 DEF At, Pick
<1>2. IInv /\ ExecInv => MarkedWhenDone
  BY <1>1 DEF IInv, Marked, MarkedWhenDone
<1> QED
  BY <1>2, ExecsInductive, PTL

(***************************************************************************)
(* Proposals, however turns overlap.                                       *)
(***************************************************************************)
\* A turn has a proposal in hand from the moment it found it until it has marked it.
InHand == {"prepareLaunch", "workspace", "decline", "createJob", "markLaunched"}
Holds(h, i) == h.pick = i /\ h.at \in InHand

Launched(i) == Len(intents[i].jobs) = IF intents[i].state = "launched" THEN 1 ELSE 0

\* What the proposal in hand has got so far.
Handled(h, i) ==
  /\ intents[i].state # "launched"
  /\ Len(intents[i].jobs) = IF h.at = "markLaunched" THEN 1 ELSE 0

ProposalTrue(i) ==
  i \notin shared =>
    /\ \A p, q \in Procs : Holds(proc[p], i) /\ Holds(proc[q], i) => p = q
    /\ \A p \in Procs : Holds(proc[p], i) => Handled(proc[p], i)
    /\ (\A p \in Procs : ~Holds(proc[p], i)) => Launched(i)

ProposalInv == \A i \in DOMAIN intents : ProposalTrue(i)

\* What a step that only cancels, or does nothing, leaves of a proposal.
Spared(i) ==
  /\ intents'[i].jobs = intents[i].jobs
  /\ intents'[i].state = "launched" <=> intents[i].state = "launched"

\* A step of a handler that has this proposal not in hand, and does not take it.
LEMMA ProposalStays ==
  ASSUME IInv, NEW i, ProposalTrue(i), NEW p \in Procs, NEW h, proc' = [proc EXCEPT ![p] = h],
         Spared(i), shared \subseteq shared', ~Holds(proc[p], i), ~Holds(h, i)
  PROVE  ProposalTrue(i)'
<1>1. proc'[p] = h /\ \A q \in Procs : q # p => proc'[q] = proc[q]
  BY DEF IInv, TablesOK
<1>2. \A q \in Procs : Holds(proc[q], i)' <=> Holds(proc[q], i)
  BY <1>1 DEF Holds
<1>3. \A q \in Procs : Holds(proc[q], i) => proc'[q] = proc[q]
  BY <1>1
<1>4. \A q \in Procs : Holds(proc[q], i) => (Handled(proc[q], i)' <=> Handled(proc[q], i))
  BY <1>3 DEF Handled, Spared
<1>5. Launched(i)' <=> Launched(i)
  BY DEF Launched, Spared
<1> QED
  BY <1>2, <1>4, <1>5 DEF ProposalTrue

\* A step of the only turn that has the proposal in hand, or that takes it.
LEMMA ProposalMoves ==
  ASSUME IInv, NEW i, NEW p \in Procs, NEW h, proc' = [proc EXCEPT ![p] = h],
         i \notin shared' =>
           /\ \A q \in Procs : q # p => ~Holds(proc[q], i)
           /\ Holds(h, i) => Handled(h, i)'
           /\ ~Holds(h, i) => Launched(i)'
  PROVE  ProposalTrue(i)'
<1>1. proc'[p] = h /\ \A q \in Procs : q # p => proc'[q] = proc[q]
  BY DEF IInv, TablesOK
<1> SUFFICES ASSUME i \notin shared'
             PROVE  /\ \A q, r \in Procs : Holds(proc[q], i)' /\ Holds(proc[r], i)' => q = r
                    /\ \A q \in Procs : Holds(proc[q], i)' => Handled(proc[q], i)'
                    /\ (\A q \in Procs : ~Holds(proc[q], i)') => Launched(i)'
  BY DEF ProposalTrue
<1>2. \A q \in Procs : Holds(proc[q], i)' => q = p
  BY <1>1 DEF Holds
<1>3. (Holds(proc[p], i)' <=> Holds(h, i)) /\ (Holds(proc[p], i)' => Handled(proc[p], i)')
  BY <1>1 DEF Holds, Handled
<1> QED
  BY <1>2, <1>3

\* A turn that has a proposal in hand, and is done with it or goes on.
LEMMA HolderMoves ==
  ASSUME IInv, ProposalInv, NEW p \in Procs, NEW h, proc' = [proc EXCEPT ![p] = h],
         NEW i, i = proc[p].pick, h.at \in InHand => h.pick = i,
         DOMAIN intents' = DOMAIN intents, shared \subseteq shared',
         \A k \in DOMAIN intents : k # i => Spared(k),
         i \in DOMAIN intents =>
           \/ Spared(i) /\ ~Holds(proc[p], i) /\ ~Holds(h, i)
           \/ /\ Holds(proc[p], i)
              /\ Handled(proc[p], i) => IF Holds(h, i) THEN Handled(h, i)' ELSE Launched(i)'
  PROVE  ProposalInv'
<1>1. ASSUME NEW k \in DOMAIN intents', k # i PROVE ProposalTrue(k)'
  <2>1. ~Holds(proc[p], k) /\ ~Holds(h, k) /\ ProposalTrue(k) /\ Spared(k)
    BY <1>1 DEF Holds, InHand, ProposalInv
  <2> QED
    BY <2>1, ProposalStays
<1>2. ASSUME i \in DOMAIN intents' PROVE ProposalTrue(i)'
  <2>1. ProposalTrue(i)
    BY <1>2 DEF ProposalInv
  <2>2. CASE Spared(i) /\ ~Holds(proc[p], i) /\ ~Holds(h, i)
    BY <2>1, <2>2, ProposalStays
  <2>3. CASE /\ Holds(proc[p], i)
             /\ Handled(proc[p], i) => IF Holds(h, i) THEN Handled(h, i)' ELSE Launched(i)'
    <3>1. i \notin shared' => Handled(proc[p], i) /\ \A q \in Procs : q # p => ~Holds(proc[q], i)
      BY <2>1, <2>3 DEF ProposalTrue
    <3>2. i \notin shared' =>
            /\ \A q \in Procs : q # p => ~Holds(proc[q], i)
            /\ Holds(h, i) => Handled(h, i)'
            /\ ~Holds(h, i) => Launched(i)'
      BY <2>3, <3>1
    <3> QED
      BY <3>2, ProposalMoves
  <2> QED
    BY <1>2, <2>2, <2>3
<1> QED
  BY <1>1, <1>2 DEF ProposalInv

\* Steps about executions, requirements and chat have no proposal in hand and take none.
OtherStep(p) ==
  \/ Send(p) \/ Click(p) \/ ToolStep(p) \/ RouteRequirement(p) \/ PrepareRequirement(p)
  \/ Resolve(p) \/ PrepareChat(p) \/ Reply(p) \/ Answer(p)

LEMMA OtherBusiness ==
  ASSUME IInv, NEW p \in Procs, OtherStep(p) \/ (Throw(p) /\ InTry(p))
  PROVE  /\ UNCHANGED <<intents, shared, crowded>> /\ proc[p].at \notin InHand \cup {"propose"}
         /\ \E h \in Handler : /\ proc' = [proc EXCEPT ![p] = h]
                               /\ h.at \notin InHand \cup {"propose"}
<1>1. UNCHANGED <<intents, shared, crowded>> /\ proc[p].at \notin InHand \cup {"propose"}
  BY DEF OtherStep, Send, Click, Arrive, ToolStep, RouteTool, CreateExecution, RunTool, RecordRun,
         TraceRun, Decide, WriteDenial, RouteApproval, PrepareApproval, RouteRequirement,
         PrepareRequirement, Resolve, PrepareChat, Reply, Answer, Throw, InTry, At, Keep, histories,
         rows, InHand
<1> SUFFICES \E h \in Handler : proc' = [proc EXCEPT ![p] = h] /\ h.at \notin InHand \cup {"propose"}
  BY <1>1
<1>2. ASSUME NEW l \in Labels \ (InHand \cup {"propose"}), Goto(p, l) \/ \E n \in Nat : Choose(p, n, l)
      PROVE  \E h \in Handler : proc' = [proc EXCEPT ![p] = h] /\ h.at \notin InHand \cup {"propose"}
  BY <1>2, Gone, Chosen
<1>3. {"create", "approval", "requirement", "prepareApproval", "answer", "decide", "launch", "append",
       "prepareRequirement", "resolve", "chat", "reply", "run", "record", "trace", "denial", "done"}
        \subseteq Labels \ (InHand \cup {"propose"})
  BY DEF Labels, InHand
<1>4. CASE Send(p) \/ Click(p)
  BY <1>4, ArrivalIs DEF InHand
<1>5. CASE RouteTool(p) \/ PrepareApproval(p) \/ PrepareRequirement(p) \/ Resolve(p) \/ PrepareChat(p) \/ Reply(p)
  BY <1>2, <1>3, <1>5 DEF RouteTool, PrepareApproval, PrepareRequirement, Resolve, PrepareChat, Reply
<1>6. CASE RouteApproval(p) \/ RouteRequirement(p)
  <2>1. PendingExecs \subseteq Nat /\ Waiting(reqs) \subseteq Nat
    BY ExecutionRows DEF PendingExecs, Waiting, IInv, TablesOK
  <2> QED
    BY <1>2, <1>3, <1>6, <2>1 DEF RouteApproval, RouteRequirement, Newest
<1>7. CASE CreateExecution(p)
  <2>1. PICK mode \in Modes : Choose(p, Len(execs) + 1, IF mode = "always_allow" THEN "run" ELSE "answer")
    BY <1>7 DEF CreateExecution
  <2>2. Len(execs) + 1 \in Nat
    BY DEF IInv, TablesOK
  <2> QED
    BY <1>2, <1>3, <2>1, <2>2
<1>8. CASE TraceRun(p) \/ Decide(p) \/ WriteDenial(p) \/ RecordRun(p)
  BY <1>2, <1>3, <1>8 DEF TraceRun, Decide, WriteDenial, RecordRun
<1>9. CASE RunTool(p) \/ (Throw(p) /\ InTry(p))
  <2>1. PICK ok \in BOOLEAN : proc' = [proc EXCEPT ![p].at = "record", ![p].ok = ok]
    BY <1>9 DEF RunTool, Throw
  <2>2. proc[p] \in Handler /\ "record" \in Labels
    BY Going DEF Labels
  <2> DEFINE h == [proc[p] EXCEPT !.at = "record", !.ok = ok]
  <2>3. h \in Handler /\ h.at = "record"
    BY <2>2 DEF Handler
  <2>4. proc' = [proc EXCEPT ![p] = h]
    BY <2>1
  <2> QED
    BY <2>3, <2>4 DEF InHand
<1>10. CASE Answer(p)
  <2>1. Resting("done") \in Handler /\ Resting("done").at = "done"
    BY RestingSound
  <2> QED
    BY <1>10, <2>1 DEF Answer, Finish, InHand
<1> QED
  BY <1>1, <1>4, <1>5, <1>6, <1>7, <1>8, <1>9, <1>10 DEF OtherStep, ToolStep

\* What a turn writes of the proposal it has in hand, and where it goes.
Writes(p, old, row, l) ==
  \/ /\ proc[p].at = "workspace" /\ l \in {"decline", "createJob", "supersede", "answer"}
     /\ row.jobs = old.jobs /\ row.state = old.state
  \/ /\ proc[p].at = "decline" /\ l = "answer"
     /\ row.jobs = old.jobs /\ row.state = "cancelled"
  \/ /\ proc[p].at = "createJob" /\ l = "markLaunched"
     /\ Len(row.jobs) = Len(old.jobs) + 1 /\ row.state = old.state
  \/ /\ proc[p].at = "markLaunched" /\ l = "answer"
     /\ row.jobs = old.jobs /\ row.state = "launched"

LEMMA LaunchWrites ==
  ASSUME IInv, NEW p \in Procs,
         UpdateWorkspace(p) \/ Decline(p) \/ CreateJob(p) \/ MarkLaunched(p)
  PROVE  /\ proc[p].pick \in DOMAIN intents
         /\ \E row \in Intent, l \in Labels :
              /\ intents' = [intents EXCEPT ![proc[p].pick] = row] /\ Goto(p, l)
              /\ Writes(p, intents[proc[p].pick], row, l)
<1>1. PICK k : k = proc[p].pick
  OBVIOUS
<1>2. proc[p].at \in WithIntent
  BY DEF UpdateWorkspace, Decline, CreateJob, MarkLaunched, At, WithIntent
<1>3. PICK old \in Intent :
        /\ old = intents[k] /\ k \in DOMAIN intents /\ intents \in Seq(Intent)
        /\ Resolved(p) \in Paths \cup {Home}
        /\ old.workspace \in Paths \cup {Home} /\ old.confirmed \in Paths \cup {Home}
        /\ old.jobs \in Seq(Paths \cup {Home})
  BY <1>1, <1>2, ResolvedPath, IntentRows DEF IInv, TablesOK
<1>4. {"decline", "createJob", "supersede", "answer", "markLaunched"} \subseteq Labels
  BY DEF Labels
<1>5. CASE UpdateWorkspace(p)
  <2>1. PICK l \in {"decline", "createJob", "supersede", "answer"},
             w \in Paths \cup {Home}, c \in Paths \cup {Home} :
          /\ intents' = [intents EXCEPT ![k].workspace = w, ![k].confirmed = c]
          /\ Goto(p, l) /\ proc[p].at = "workspace"
    BY <1>1, <1>3, <1>5 DEF UpdateWorkspace, Pick, At
  <2>2. PICK row \in Intent : /\ row = [old EXCEPT !.workspace = w, !.confirmed = c]
                              /\ row.jobs = old.jobs /\ row.state = old.state
    <3>1. /\ [old EXCEPT !.workspace = w, !.confirmed = c] \in Intent
          /\ [old EXCEPT !.workspace = w, !.confirmed = c].jobs = old.jobs
          /\ [old EXCEPT !.workspace = w, !.confirmed = c].state = old.state
      BY ProposalMoved
    <3> QED
      BY <3>1
  <2>3. intents' = [intents EXCEPT ![k] = row]
    BY <1>3, <2>1, <2>2
  <2> QED
    BY <1>1, <1>3, <1>4, <2>1, <2>2, <2>3 DEF Writes
<1>6. CASE Decline(p) \/ MarkLaunched(p)
  <2>1. PICK state \in {"cancelled", "launched"} :
          /\ intents' = [intents EXCEPT ![k].state = state] /\ Goto(p, "answer")
          /\ proc[p].at = (IF state = "cancelled" THEN "decline" ELSE "markLaunched")
    BY <1>1, <1>6 DEF Decline, MarkLaunched, Pick, At
  <2>2. PICK row \in Intent : /\ row = [old EXCEPT !.state = state]
                              /\ row.jobs = old.jobs /\ row.state = state
    BY ProposalMarked
  <2>3. intents' = [intents EXCEPT ![k] = row]
    BY <1>3, <2>1, <2>2
  <2>4. Writes(p, old, row, "answer")
    BY <2>1, <2>2 DEF Writes
  <2> QED
    BY <1>1, <1>3, <1>4, <2>1, <2>3, <2>4
<1>7. CASE CreateJob(p)
  <2>0. Append(old.jobs, Resolved(p)) \in Seq(Paths \cup {Home})
        /\ Len(Append(old.jobs, Resolved(p))) = Len(old.jobs) + 1
    BY <1>3, AppendProperties
  <2>1. PICK jobs \in Seq(Paths \cup {Home}) :
          jobs = Append(old.jobs, Resolved(p)) /\ Len(jobs) = Len(old.jobs) + 1
    BY <2>0
  <2>2. PICK row \in Intent : row = [old EXCEPT !.jobs = jobs] /\ row.jobs = jobs /\ row.state = old.state
    <3>1. /\ [old EXCEPT !.jobs = jobs] \in Intent /\ [old EXCEPT !.jobs = jobs].jobs = jobs
          /\ [old EXCEPT !.jobs = jobs].state = old.state
      BY DEF Intent
    <3> QED
      BY <3>1
  <2>3. intents' = [intents EXCEPT ![k] = row] /\ Goto(p, "markLaunched") /\ proc[p].at = "createJob"
    BY <1>1, <1>3, <1>7, <2>1, <2>2 DEF CreateJob, Pick, At
  <2>4. Writes(p, old, row, "markLaunched")
    BY <2>1, <2>2, <2>3 DEF Writes
  <2> QED
    BY <1>1, <1>3, <1>4, <2>3, <2>4
<1> QED
  BY <1>5, <1>6, <1>7

\* A turn finds the newest pending proposal; if another turn has it in hand, both have.
LEMMA ProposalFound ==
  ASSUME IInv, ProposalInv, NEW p \in Procs, RouteLaunch(p)
  PROVE  ProposalInv'
<1>1. UNCHANGED intents /\ proc[p].at = "launch" /\ shared \subseteq shared'
  BY DEF RouteLaunch, rows, At
<1>2. DOMAIN intents \subseteq Nat \ {0}
  BY IntentRows DEF IInv, TablesOK
<1>3. \A k \in DOMAIN intents : Spared(k) /\ ~Holds(proc[p], k) /\ ProposalTrue(k)
  BY <1>1 DEF Spared, Holds, InHand, ProposalInv
<1>4. CASE PendingIntents = {}
  <2>1. PICK l \in {"prepareLaunch", "chat"} : Choose(p, 0, l)
    BY <1>4 DEF RouteLaunch, Newest
  <2>2. l \in Labels
    BY DEF Labels
  <2>3. PICK h \in Handler : h.pick = 0 /\ proc' = [proc EXCEPT ![p] = h]
    BY <2>1, <2>2, Chosen
  <2>4. \A k \in DOMAIN intents : ~Holds(h, k)
    BY <1>2, <2>3 DEF Holds
  <2>5. ASSUME NEW k \in DOMAIN intents PROVE ProposalTrue(k)'
    BY <1>1, <1>3, <2>3, <2>4, ProposalStays
  <2> QED
    BY <1>1, <2>5 DEF ProposalInv
<1>5. CASE PendingIntents # {}
  <2>1. PICK i \in PendingIntents : /\ Find(p, i, "prepareLaunch")
                                    /\ shared' = IF Holders(i) = {} THEN shared ELSE shared \cup {i}
    BY <1>5 DEF RouteLaunch, Newest
  <2>2. i \in DOMAIN intents /\ "prepareLaunch" \in Labels
    BY DEF PendingIntents, Labels
  <2>3. PICK h \in Handler : /\ h.at = "prepareLaunch" /\ h.pick = i
                             /\ proc' = [proc EXCEPT ![p] = h]
    BY <2>1, <2>2, Found
  <2>4. ASSUME NEW k \in DOMAIN intents, k # i PROVE ProposalTrue(k)'
    <3>1. ~Holds(h, k)
      BY <2>3, <2>4 DEF Holds
    <3> QED
      BY <1>1, <1>3, <2>3, <3>1, ProposalStays
  <2>5. ASSUME i \notin shared'
        PROVE  /\ \A q \in Procs : q # p => ~Holds(proc[q], i)
               /\ Handled(h, i)'
    <3>1. i \notin shared /\ Holders(i) = {}
      BY <2>1, <2>5
    <3>2. \A q \in Procs : ~Holds(proc[q], i)
      BY <3>1 DEF Holders, Holds, InHand, Pick
    <3>3. Launched(i) /\ intents[i].state = "pending"
      BY <1>3, <2>1, <2>2, <3>1, <3>2 DEF ProposalTrue, PendingIntents
    <3>4. Handled(h, i)'
      BY <1>1, <2>3, <3>3 DEF Handled, Launched
    <3> QED
      BY <3>2, <3>4
  <2>6. Holds(h, i)
    BY <2>3 DEF Holds, InHand
  <2>7. ProposalTrue(i)'
    BY <2>3, <2>5, <2>6, ProposalMoves
  <2> QED
    BY <1>1, <2>4, <2>7 DEF ProposalInv
<1> QED
  BY <1>4, <1>5

\* The turn that has a proposal in hand writes what it does to it.
LEMMA ProposalHandled ==
  ASSUME IInv, ProposalInv, NEW p \in Procs,
         PrepareLaunch(p) \/ UpdateWorkspace(p) \/ Decline(p) \/ CreateJob(p) \/ MarkLaunched(p)
  PROVE  ProposalInv'
<1>1. PICK k : k = proc[p].pick
  OBVIOUS
<1>2. UNCHANGED shared
  BY DEF PrepareLaunch, UpdateWorkspace, Decline, CreateJob, MarkLaunched, Keep, histories
<1>3. 0 \notin DOMAIN intents
  BY IntentRows DEF IInv, TablesOK
<1>4. CASE PrepareLaunch(p)
  <2>1. PICK l \in {"supersede", "workspace"} :
          Goto(p, l) /\ (k # 0 => l = "workspace") /\ proc[p].at = "prepareLaunch" /\ UNCHANGED intents
    BY <1>1, <1>4 DEF PrepareLaunch, Pick, At, rows
  <2>2. l \in Labels
    BY DEF Labels
  <2>3. PICK h \in Handler : h.at = l /\ h.pick = k /\ proc' = [proc EXCEPT ![p] = h]
    BY <1>1, <2>1, <2>2, Gone
  <2>4. \A i \in DOMAIN intents : Spared(i)
    BY <2>1 DEF Spared
  <2>5. k \in DOMAIN intents =>
          /\ Holds(proc[p], k) /\ Holds(h, k)
          /\ Handled(proc[p], k) => Handled(h, k)'
    BY <1>1, <1>3, <2>1, <2>3 DEF Holds, InHand, Handled
  <2> QED
    BY <1>1, <1>2, <2>1, <2>3, <2>4, <2>5, HolderMoves
<1>5. CASE UpdateWorkspace(p) \/ Decline(p) \/ CreateJob(p) \/ MarkLaunched(p)
  <2>1. PICK row \in Intent, l \in Labels :
          /\ intents' = [intents EXCEPT ![k] = row] /\ Goto(p, l) /\ k \in DOMAIN intents
          /\ Writes(p, intents[k], row, l)
    BY <1>1, <1>5, LaunchWrites
  <2>2. PICK h \in Handler : h.at = l /\ h.pick = k /\ proc' = [proc EXCEPT ![p] = h]
    BY <1>1, <2>1, Gone
  <2>3. /\ DOMAIN intents' = DOMAIN intents /\ intents'[k] = row
        /\ \A i \in DOMAIN intents : i # k => intents'[i] = intents[i]
    BY <2>1, Updated DEF IInv, TablesOK
  <2>4. \A i \in DOMAIN intents : i # k => Spared(i)
    BY <2>3 DEF Spared
  <2>5. Holds(proc[p], k) /\ (Holds(h, k) <=> l \in {"decline", "createJob", "markLaunched"})
    BY <1>1, <2>1, <2>2 DEF Writes, Holds, InHand
  <2>6. Handled(proc[p], k) /\ Holds(h, k) => Handled(h, k)'
    BY <2>1, <2>2, <2>3, <2>5 DEF Writes, Handled
  <2>7. Handled(proc[p], k) /\ ~Holds(h, k) => Launched(k)'
    BY <2>1, <2>2, <2>3, <2>5 DEF Writes, Handled, Launched
  <2>8. \/ Spared(k) /\ ~Holds(proc[p], k) /\ ~Holds(h, k)
        \/ /\ Holds(proc[p], k)
           /\ Handled(proc[p], k) => IF Holds(h, k) THEN Handled(h, k)' ELSE Launched(k)'
    BY <2>5, <2>6, <2>7
  <2> QED
    BY <1>1, <1>2, <2>2, <2>3, <2>4, <2>8, HolderMoves
<1> QED
  BY <1>4, <1>5

\* What the cancelling of the pending proposals writes.
LEMMA Superseded ==
  ASSUME IInv, NEW p \in Procs, Supersede(p)
  PROVE  /\ DOMAIN intents' = DOMAIN intents
         /\ \A i \in DOMAIN intents :
              /\ intents'[i].jobs = intents[i].jobs
              /\ intents'[i].state = IF intents[i].state = "pending" THEN "cancelled" ELSE intents[i].state
         /\ proc[p].at = "supersede" /\ UNCHANGED shared
         /\ \E h \in Handler : h.at = "propose" /\ proc' = [proc EXCEPT ![p] = h]
<1>1. DOMAIN intents' = DOMAIN intents
  BY DEF Supersede
<1>2. ASSUME NEW i \in DOMAIN intents
      PROVE  /\ intents'[i].jobs = intents[i].jobs
             /\ intents'[i].state = IF intents[i].state = "pending" THEN "cancelled" ELSE intents[i].state
  <2>1. PICK x \in Intent : x = intents[i]
    BY DEF IInv, TablesOK
  <2>2. /\ [x EXCEPT !.state = "cancelled"].jobs = x.jobs
        /\ [x EXCEPT !.state = "cancelled"].state = "cancelled"
    BY ProposalMarked
  <2>3. intents'[i] = IF x.state = "pending" THEN [x EXCEPT !.state = "cancelled"] ELSE x
    BY <2>1 DEF Supersede, PendingIntents
  <2> QED
    BY <2>1, <2>2, <2>3
<1>3. "propose" \in Labels
  BY DEF Labels
<1>4. \E h \in Handler : h.at = "propose" /\ proc' = [proc EXCEPT ![p] = h]
  BY <1>3, Gone DEF Supersede
<1> QED
  BY <1>1, <1>2, <1>4 DEF Supersede, At

\* What a turn adds.
LEMMA Proposed ==
  ASSUME IInv, NEW p \in Procs, Propose(p)
  PROVE  \E new \in Nat :
           /\ new \notin DOMAIN intents /\ DOMAIN intents' = DOMAIN intents \cup {new}
           /\ \A i \in DOMAIN intents : intents'[i] = intents[i]
           /\ intents'[new].state = "pending" /\ intents'[new].jobs = <<>>
           /\ new # 0 /\ proc[p].at = "propose" /\ UNCHANGED <<shared, crowded>>
           /\ \E h \in Handler : h.at = "answer" /\ proc' = [proc EXCEPT ![p] = h]
<1>1. PICK row \in Intent : /\ row.state = "pending" /\ row.jobs = <<>>
                            /\ intents' = Append(intents, row)
  <2>1. proc[p].text.path \in Paths \cup {NoPath}
    BY Going DEF Handler, Texts
  <2>2. PICK path \in Paths \cup {Home} :
          intents' = Append(intents, [state |-> "pending", workspace |-> path, original |-> path,
                                      confirmed |-> path, jobs |-> <<>>])
    BY <2>1 DEF Propose
  <2> DEFINE made == [state |-> "pending", workspace |-> path, original |-> path,
                      confirmed |-> path, jobs |-> <<>>]
  <2>3. made \in Intent /\ made.state = "pending" /\ made.jobs = <<>>
    BY DEF Intent
  <2> QED
    BY <2>2, <2>3
<1>2. /\ DOMAIN intents = 1..Len(intents) /\ DOMAIN intents' = 1..(Len(intents) + 1) /\ Len(intents) \in Nat
      /\ \A i \in DOMAIN intents : intents'[i] = intents[i]
      /\ intents'[Len(intents) + 1] = row
  BY <1>1, Added DEF IInv, TablesOK
<1>3. PICK new \in Nat : new = Len(intents) + 1
  BY <1>2
<1>4. new \notin DOMAIN intents /\ DOMAIN intents' = DOMAIN intents \cup {new} /\ new # 0
  BY <1>2, <1>3
<1>5. "answer" \in Labels
  BY DEF Labels
<1>6. \E h \in Handler : h.at = "answer" /\ proc' = [proc EXCEPT ![p] = h]
  BY <1>5, Gone DEF Propose
<1>7. proc[p].at = "propose" /\ UNCHANGED <<shared, crowded>>
  BY DEF Propose, At, Keep, histories
<1> QED
  BY <1>1, <1>2, <1>3, <1>4, <1>6, <1>7

LEMMA ProposalAdded ==
  ASSUME IInv, ProposalInv, NEW p \in Procs, Supersede(p) \/ Propose(p)
  PROVE  ProposalInv'
<1>1. CASE Supersede(p)
  <2>1. PICK h \in Handler : h.at = "propose" /\ proc' = [proc EXCEPT ![p] = h]
    BY <1>1, Superseded
  <2>2. ASSUME NEW i \in DOMAIN intents PROVE ProposalTrue(i)'
    <3>1. Spared(i) /\ ~Holds(proc[p], i) /\ ~Holds(h, i) /\ ProposalTrue(i) /\ UNCHANGED shared
      BY <1>1, <2>1, Superseded DEF Spared, Holds, InHand, ProposalInv
    <3> QED
      BY <2>1, <3>1, ProposalStays
  <2> QED
    BY <1>1, <2>2, Superseded DEF ProposalInv
<1>2. CASE Propose(p)
  <2>1. PICK new \in Nat :
           /\ new \notin DOMAIN intents /\ DOMAIN intents' = DOMAIN intents \cup {new}
           /\ \A i \in DOMAIN intents : intents'[i] = intents[i]
           /\ intents'[new].state = "pending" /\ intents'[new].jobs = <<>>
           /\ new # 0 /\ proc[p].at = "propose" /\ UNCHANGED <<shared, crowded>>
           /\ \E h \in Handler : h.at = "answer" /\ proc' = [proc EXCEPT ![p] = h]
    BY <1>2, Proposed
  <2>2. PICK h \in Handler : h.at = "answer" /\ proc' = [proc EXCEPT ![p] = h]
    BY <2>1
  <2>3. ASSUME NEW i \in DOMAIN intents PROVE ProposalTrue(i)'
    <3>1. Spared(i) /\ ~Holds(proc[p], i) /\ ~Holds(h, i) /\ ProposalTrue(i)
      BY <2>1, <2>2 DEF Spared, Holds, InHand, ProposalInv
    <3> QED
      BY <2>1, <2>2, <3>1, ProposalStays
  <2>4. \A q \in Procs : ~Holds(proc[q], new)
    BY <2>1, Going DEF Holds, InHand, Picked, WithIntent
  <2>5. Launched(new)' /\ ~Holds(h, new)
    BY <2>1, <2>2 DEF Launched, Holds, InHand
  <2>6. ProposalTrue(new)'
    BY <2>2, <2>4, <2>5, ProposalMoves
  <2> QED
    BY <2>1, <2>3, <2>6 DEF ProposalInv
<1> QED
  BY <1>1, <1>2

\* Handlers that break off leave the proposals in hand as they are: launched and not marked is
\* what a history records, and the others have no job yet.
LEMMA BrokenProposals ==
  ASSUME IInv, ProposalInv, NEW P \in SUBSET Procs, BreakOff(P), UNCHANGED intents
  PROVE  ProposalInv'
<1>1. /\ \A p \in Procs : proc'[p] = IF p \in P THEN Resting("done") ELSE proc[p]
      /\ shared \subseteq shared'
      /\ \A p \in P : proc[p].at = "markLaunched" => proc[p].pick \in shared'
  BY DEF BreakOff, At, Pick
<1>2. Resting("done").at = "done"
  BY DEF Resting
<1>3. ASSUME NEW i \in DOMAIN intents', i \notin shared'
      PROVE  /\ \A p, q \in Procs : Holds(proc[p], i)' /\ Holds(proc[q], i)' => p = q
             /\ \A p \in Procs : Holds(proc[p], i)' => Handled(proc[p], i)'
             /\ (\A p \in Procs : ~Holds(proc[p], i)') => Launched(i)'
  <2>1. ProposalTrue(i) /\ i \notin shared /\ intents' = intents
    BY <1>1, <1>3 DEF ProposalInv
  <2>2. \A p \in Procs : Holds(proc[p], i)' => p \notin P /\ proc'[p] = proc[p] /\ Holds(proc[p], i)
    BY <1>1, <1>2 DEF Holds, InHand
  <2>3. \A p \in Procs : Holds(proc[p], i)' => Handled(proc[p], i)'
    BY <2>1, <2>2 DEF ProposalTrue, Handled
  <2>4. \A p \in Procs : Holds(proc[p], i) /\ p \notin P => Holds(proc[p], i)'
    BY <1>1 DEF Holds
  <2>5. ASSUME \A p \in Procs : ~Holds(proc[p], i)' PROVE Launched(i)'
    <3>1. CASE \A p \in Procs : ~Holds(proc[p], i)
      BY <2>1, <3>1 DEF ProposalTrue, Launched
    <3>2. ASSUME NEW p \in Procs, Holds(proc[p], i) PROVE Launched(i)'
      <4>1. p \in P /\ proc[p].pick = i
        BY <2>4, <2>5, <3>2 DEF Holds
      <4>2. proc[p].at # "markLaunched" /\ Handled(proc[p], i)
        BY <1>1, <1>3, <2>1, <3>2, <4>1 DEF ProposalTrue
      <4> QED
        BY <2>1, <4>2 DEF Handled, Launched
    <3> QED
      BY <3>1, <3>2
  <2> QED
    BY <2>1, <2>2, <2>3, <2>5 DEF ProposalTrue
<1> QED
  BY <1>3 DEF ProposalInv, ProposalTrue

LEMMA ProposalsAtFirst == Init => ProposalInv
  BY DEF Init, ProposalInv

LEMMA ProposalsKept == IInv /\ ProposalInv /\ [Next]_vars => ProposalInv'
<1> SUFFICES ASSUME IInv, ProposalInv, [Next]_vars PROVE ProposalInv'
  OBVIOUS
<1>1. CASE UNCHANGED vars
  <2>1. UNCHANGED <<intents, proc, shared>>
    BY <1>1 DEF vars, rows, histories
  <2> QED
    BY <2>1 DEF ProposalInv, ProposalTrue, Holds, Handled, Launched
<1>2. CASE Crash
  <2>1. BreakOff(Busy) /\ UNCHANGED intents /\ Busy \in SUBSET Procs
    BY <1>2 DEF Crash, rows, Busy
  <2> QED
    BY <2>1, BrokenProposals
<1>3. ASSUME NEW p \in Procs, Throw(p), ~InTry(p) PROVE ProposalInv'
  <2>1. BreakOff({p}) /\ UNCHANGED intents /\ {p} \in SUBSET Procs
    BY <1>3 DEF Throw, rows
  <2> QED
    BY <2>1, BrokenProposals
<1>4. ASSUME NEW p \in Procs, OtherStep(p) \/ (Throw(p) /\ InTry(p)) PROVE ProposalInv'
  <2>1. PICK h \in Handler : proc' = [proc EXCEPT ![p] = h] /\ h.at \notin InHand
    BY <1>4, OtherBusiness
  <2>2. UNCHANGED <<intents, shared>> /\ proc[p].at \notin InHand
    BY <1>4, OtherBusiness
  <2>3. ASSUME NEW i \in DOMAIN intents PROVE ProposalTrue(i)'
    <3>1. Spared(i) /\ ~Holds(proc[p], i) /\ ~Holds(h, i) /\ ProposalTrue(i)
      BY <2>1, <2>2 DEF Spared, Holds, ProposalInv
    <3> QED
      BY <2>1, <2>2, <3>1, ProposalStays
  <2> QED
    BY <2>2, <2>3 DEF ProposalInv
<1>5. ASSUME NEW p \in Procs, LaunchStep(p) PROVE ProposalInv'
  BY <1>5, ProposalFound, ProposalHandled, ProposalAdded DEF LaunchStep
<1> QED
  BY <1>1, <1>2, <1>3, <1>4, <1>5 DEF Next, Step, OtherStep

\* However turns overlap, a proposal that one turn at a time took up has one build job when it is
\* marked launched and none otherwise (maybeHandleAgentJobLaunchTurn), unless its turn broke off
\* between the job and the mark.
THEOREM OneLaunch == Spec => []LaunchedOnce
<1>1. ProposalInv => LaunchedOnce
  <2> SUFFICES ASSUME ProposalInv, NEW i \in DOMAIN intents \ shared, Holders(i) = {} PROVE Launched(i)
    BY DEF LaunchedOnce, Launched
  <2>1. \A p \in Procs : ~Holds(proc[p], i)
    BY DEF Holders, Holds, InHand, Pick
  <2> QED
    BY <2>1 DEF ProposalInv, ProposalTrue
<1> QED
  BY <1>1, InitKeeps, NextKeeps, ProposalsAtFirst, ProposalsKept, PTL DEF Spec

(***************************************************************************)
(* One pending proposal.                                                   *)
(***************************************************************************)
\* A turn that is about to add its proposal is the only one, and has cancelled the pending ones.
AloneInv ==
  ~crowded =>
    /\ \A p, q \in Proposers : p = q
    /\ Proposers # {} => PendingIntents = {}
    /\ \A i, k \in PendingIntents : i = k

\* Nothing but Supersede and Propose adds to what waits or to who is adding.
LEMMA FewerWait ==
  ASSUME AloneInv, UNCHANGED crowded, Proposers' \subseteq Proposers,
         PendingIntents' \subseteq PendingIntents
  PROVE  AloneInv'
  BY DEF AloneInv

LEMMA FewerPropose ==
  ASSUME IInv, NEW p \in Procs, NEW h, proc' = [proc EXCEPT ![p] = h], h.at # "propose"
  PROVE  Proposers' \subseteq Proposers \ {p}
  BY DEF IInv, TablesOK, Proposers

LEMMA AddsAlone ==
  ASSUME IInv, AloneInv, NEW p \in Procs, Supersede(p) \/ Propose(p)
  PROVE  AloneInv'
<1>1. CASE Supersede(p)
  <2>1. PICK h \in Handler : h.at = "propose" /\ proc' = [proc EXCEPT ![p] = h]
    BY <1>1, Superseded
  <2>2. PendingIntents' = {}
    BY <1>1, Superseded DEF PendingIntents
  <2>3. Proposers' \subseteq Proposers \cup {p}
    BY <2>1 DEF IInv, TablesOK, Proposers
  <2>4. crowded' = (Proposers # {})
    BY <1>1 DEF Supersede
  <2> QED
    BY <2>2, <2>3, <2>4 DEF AloneInv
<1>2. CASE Propose(p)
  <2>1. PICK new \in Nat :
           /\ new \notin DOMAIN intents /\ DOMAIN intents' = DOMAIN intents \cup {new}
           /\ \A i \in DOMAIN intents : intents'[i] = intents[i]
           /\ proc[p].at = "propose" /\ UNCHANGED crowded
           /\ \E h \in Handler : h.at = "answer" /\ proc' = [proc EXCEPT ![p] = h]
    BY <1>2, Proposed
  <2>2. PendingIntents' \subseteq PendingIntents \cup {new}
    BY <2>1 DEF PendingIntents
  <2>3. p \in Proposers /\ Proposers' \subseteq Proposers \ {p}
    BY <2>1, FewerPropose DEF Proposers
  <2> QED
    BY <2>1, <2>2, <2>3 DEF AloneInv
<1> QED
  BY <1>1, <1>2

LEMMA AloneKept == IInv /\ AloneInv /\ [Next]_vars => AloneInv'
<1> SUFFICES ASSUME IInv, AloneInv, [Next]_vars PROVE AloneInv'
  OBVIOUS
<1>1. CASE UNCHANGED vars
  <2>1. UNCHANGED <<intents, proc, crowded>>
    BY <1>1 DEF vars, rows, histories
  <2> QED
    BY <2>1 DEF AloneInv, Proposers, PendingIntents
<1>2. ASSUME NEW P \in SUBSET Procs, BreakOff(P), UNCHANGED <<intents, crowded>> PROVE AloneInv'
  <2>1. \A p \in Procs : proc'[p] = IF p \in P THEN Resting("done") ELSE proc[p]
    BY <1>2 DEF BreakOff
  <2>2. Proposers' \subseteq Proposers
    BY <2>1 DEF Proposers, Resting
  <2>3. PendingIntents' = PendingIntents
    BY <1>2 DEF PendingIntents
  <2> QED
    BY <1>2, <2>2, <2>3, FewerWait
<1>3. CASE Crash
  <2>1. BreakOff(Busy) /\ UNCHANGED <<intents, crowded>> /\ Busy \in SUBSET Procs
    BY <1>3 DEF Crash, rows, Busy
  <2> QED
    BY <1>2, <2>1
<1>4. ASSUME NEW p \in Procs, Throw(p), ~InTry(p) PROVE AloneInv'
  <2>1. BreakOff({p}) /\ UNCHANGED <<intents, crowded>> /\ {p} \in SUBSET Procs
    BY <1>4 DEF Throw, rows
  <2> QED
    BY <1>2, <2>1
<1>5. ASSUME NEW p \in Procs, OtherStep(p) \/ (Throw(p) /\ InTry(p)) PROVE AloneInv'
  <2>1. PICK h \in Handler : proc' = [proc EXCEPT ![p] = h] /\ h.at # "propose"
    BY <1>5, OtherBusiness
  <2>2. UNCHANGED <<intents, crowded>>
    BY <1>5, OtherBusiness
  <2>3. PendingIntents' = PendingIntents
    BY <2>2 DEF PendingIntents
  <2> QED
    BY <2>1, <2>2, <2>3, FewerPropose, FewerWait
<1>6. ASSUME NEW p \in Procs, RouteLaunch(p) \/ PrepareLaunch(p) PROVE AloneInv'
  <2>1. UNCHANGED <<intents, crowded>>
    BY <1>6 DEF RouteLaunch, PrepareLaunch, rows, Keep, histories
  <2>2. {"prepareLaunch", "chat", "supersede", "workspace"} \subseteq Labels \ {"propose"}
    BY DEF Labels
  <2>3. \E l \in Labels \ {"propose"} :
          Goto(p, l) \/ (\E n \in Nat : Choose(p, n, l)) \/ (\E i \in DOMAIN intents : Find(p, i, l))
    BY <1>6, <2>2 DEF RouteLaunch, PrepareLaunch, Newest, PendingIntents
  <2>4. \E h \in Handler : proc' = [proc EXCEPT ![p] = h] /\ h.at # "propose"
    BY <2>3, Gone, Chosen, Found
  <2>5. PendingIntents' = PendingIntents
    BY <2>1 DEF PendingIntents
  <2> QED
    BY <2>1, <2>4, <2>5, FewerPropose, FewerWait
<1>7. ASSUME NEW p \in Procs, UpdateWorkspace(p) \/ Decline(p) \/ CreateJob(p) \/ MarkLaunched(p)
      PROVE  AloneInv'
  <2>1. PICK row \in Intent, l \in Labels :
          /\ intents' = [intents EXCEPT ![proc[p].pick] = row] /\ Goto(p, l)
          /\ proc[p].pick \in DOMAIN intents
          /\ Writes(p, intents[proc[p].pick], row, l)
    BY <1>7, LaunchWrites
  <2>2. l # "propose" /\ (row.state = "pending" => intents[proc[p].pick].state = "pending")
    BY <2>1 DEF Writes
  <2>3. \E h \in Handler : proc' = [proc EXCEPT ![p] = h] /\ h.at # "propose"
    BY <2>1, <2>2, Gone
  <2>4. UNCHANGED crowded
    BY <1>7 DEF UpdateWorkspace, Decline, CreateJob, MarkLaunched, Keep, histories
  <2>5. PendingIntents' \subseteq PendingIntents
    <3>1. DOMAIN intents' = DOMAIN intents
          /\ \A i \in DOMAIN intents : intents'[i] = IF i = proc[p].pick THEN row ELSE intents[i]
      BY <2>1, Updated DEF IInv, TablesOK
    <3> QED
      BY <2>2, <3>1 DEF PendingIntents
  <2> QED
    BY <2>3, <2>4, <2>5, FewerPropose, FewerWait
<1> QED
  BY <1>1, <1>3, <1>4, <1>5, <1>6, <1>7, AddsAlone DEF Next, Step, OtherStep, LaunchStep

\* A yes is about one proposal (createAgentJobLaunchIntent cancels the pending ones first), unless
\* the last two turns that made one were both between the cancelling and the adding.
THEOREM YesIsUnambiguous == Spec => []OneProposal
<1>1. Init => AloneInv
  BY DEF Init, AloneInv, Proposers, PendingIntents, Resting
<1>2. AloneInv => OneProposal
  BY DEF AloneInv, OneProposal
<1> QED
  BY <1>1, <1>2, InitKeeps, NextKeeps, AloneKept, PTL DEF Spec

(***************************************************************************)
(* Every message has its answer.                                           *)
(***************************************************************************)
\* A turn persists its message when it leaves these labels, and owes an answer from then on.
Before == {"idle", "tools", "approval", "prepareApproval", "requirement", "prepareRequirement",
           "launch", "prepareLaunch", "chat"}

Decided(h) == h.pick \in DOMAIN execs /\ execs[h.pick].approval # "pending"

Owes(t, h) ==
  /\ h.at \in Before => t \notin asked
  /\ h.at \notin Before \cup {"done"} => t \in asked
  /\ h.at = "done" => t \notin asked \ (answered \cup broken) \/ Decided(h)

AnswerInv == answered \subseteq asked /\ \A t \in Turns : Owes(t, proc[t])

\* What was decided stays decided.
DecisionsStay ==
  \A e \in DOMAIN execs :
    e \in DOMAIN execs' /\ (execs[e].approval # "pending" => execs'[e].approval # "pending")

\* A handler goes on: the other turns owe what they owed.
LEMMA OthersOwe ==
  ASSUME IInv, AnswerInv, NEW p \in Procs, NEW h, proc' = [proc EXCEPT ![p] = h], DecisionsStay,
         asked \subseteq asked', asked' \subseteq asked \cup ({p} \cap Turns),
         answered \subseteq answered', answered' \subseteq asked', broken \subseteq broken',
         p \in Turns => Owes(p, h)'
  PROVE  AnswerInv'
<1>1. proc'[p] = h /\ \A q \in Procs : q # p => proc'[q] = proc[q]
  BY DEF IInv, TablesOK
<1>2. ASSUME NEW t \in Turns PROVE Owes(t, proc[t])'
  <2>1. CASE t = p
    BY <1>1, <2>1 DEF Owes, Decided
  <2>2. CASE t # p
    <3>1. proc'[t] = proc[t] /\ (t \in asked' <=> t \in asked) /\ Owes(t, proc[t])
      BY <1>1, <2>2 DEF Procs, AnswerInv
    <3> QED
      BY <3>1 DEF Owes, Decided, DecisionsStay
  <2> QED
    BY <2>1, <2>2
<1> QED
  BY <1>2 DEF AnswerInv

LEMMA NewRow ==
  ASSUME NEW p \in Procs, CreateExecution(p)
  PROVE  \E row \in Execution : execs' = Append(execs, row)
<1> DEFINE approval(m) == CASE m = "deny"      -> "policy_denied"
                            [] m = "ask_first" -> "pending"
                            [] OTHER           -> "not_required"
           status(m)   == CASE m = "deny"      -> "denied"
                            [] m = "ask_first" -> "awaiting_approval"
                            [] OTHER           -> "completed"
           row(m) == [approval |-> approval(m), status |-> status(m), runs |-> 0,
                      grants |-> IF m = "always_allow" THEN 1 ELSE 0]
<1>1. PICK m \in Modes : execs' = Append(execs, row(m))
  BY DEF CreateExecution
<1>2. row(m) \in Execution
  BY DEF Modes, Execution, Approvals
<1> QED
  BY <1>1, <1>2

\* The decision of an execution is never taken back: rows are added, marked approved or denied.
LEMMA DecisionsKept ==
  ASSUME IInv, [Next]_vars
  PROVE  DecisionsStay
<1>1. CASE UNCHANGED execs
  BY <1>1 DEF DecisionsStay
<1>2. ASSUME NEW p \in Procs, CreateExecution(p) PROVE DecisionsStay
  <2>1. PICK row \in Execution : execs' = Append(execs, row)
    BY <1>2, NewRow
  <2>2. DOMAIN execs \subseteq DOMAIN execs' /\ \A e \in DOMAIN execs : execs'[e] = execs[e]
    BY <2>1, Added DEF IInv, TablesOK
  <2> QED
    BY <2>2 DEF DecisionsStay
<1>3. ASSUME NEW p \in Procs, RunTool(p) \/ RecordRun(p) \/ Decide(p) \/ WriteDenial(p)
      PROVE  DecisionsStay
  <2>1. DOMAIN execs' = DOMAIN execs
    BY <1>3 DEF RunTool, RecordRun, Decide, WriteDenial
  <2>2. ASSUME NEW e \in DOMAIN execs, execs[e].approval # "pending"
        PROVE  execs'[e].approval # "pending"
    <3>1. PICK row \in Execution : row = execs[e]
      BY DEF IInv, TablesOK
    <3> QED
      BY <1>3, <2>2, <3>1 DEF RunTool, RecordRun, Decide, WriteDenial, Execution
  <2> QED
    BY <2>1, <2>2 DEF DecisionsStay
<1>4. CASE Crash \/ \E p \in Procs : Throw(p) \/ Send(p) \/ Click(p)
  BY <1>1, <1>4 DEF Crash, Throw, Send, Click, Arrive, rows
<1>5. ASSUME NEW p \in Procs, LaunchStep(p) PROVE DecisionsStay
  BY <1>1, <1>5 DEF LaunchStep, RouteLaunch, PrepareLaunch, UpdateWorkspace, Decline, CreateJob,
                    MarkLaunched, Supersede, Propose, rows
<1>6. ASSUME NEW p \in Procs,
             \/ RouteTool(p) \/ TraceRun(p) \/ RouteApproval(p) \/ PrepareApproval(p)
             \/ RouteRequirement(p) \/ PrepareRequirement(p) \/ Resolve(p)
             \/ PrepareChat(p) \/ Reply(p) \/ Answer(p)
      PROVE  DecisionsStay
  BY <1>1, <1>6 DEF RouteTool, TraceRun, RouteApproval, PrepareApproval, RouteRequirement,
                    PrepareRequirement, Resolve, PrepareChat, Reply, Answer, rows
<1>7. CASE UNCHANGED vars
  BY <1>1, <1>7 DEF vars, rows
<1> QED
  BY <1>2, <1>3, <1>4, <1>5, <1>6, <1>7 DEF Next, Step, ToolStep

\* A turn that looks on, or that takes its message up.
LEMMA LooksOn ==
  ASSUME IInv, AnswerInv, DecisionsStay, NEW p \in Procs, UNCHANGED <<answered, broken>>,
         NEW l \in Labels \ {"done"},
         Goto(p, l) \/ (\E n \in Nat : Choose(p, n, l)) \/ (\E i \in DOMAIN intents : Find(p, i, l)),
         \/ UNCHANGED asked /\ proc[p].at \notin {"done", "idle"} /\ (l \in Before <=> proc[p].at \in Before)
         \/ asked' = asked \cup {p} /\ p \in Turns /\ l \notin Before
  PROVE  AnswerInv'
<1>1. PICK h \in Handler : h.at = l /\ proc' = [proc EXCEPT ![p] = h]
  BY Gone, Chosen, Found
<1>2. /\ asked \subseteq asked' /\ asked' \subseteq asked \cup ({p} \cap Turns)
      /\ answered \subseteq answered' /\ answered' \subseteq asked' /\ broken \subseteq broken'
  BY DEF AnswerInv
<1>3. p \in Turns => Owes(p, h)'
  <2> SUFFICES ASSUME p \in Turns PROVE Owes(p, h)'
    OBVIOUS
  <2>1. Owes(p, proc[p])
    BY DEF AnswerInv
  <2>2. CASE UNCHANGED asked /\ proc[p].at \notin {"done", "idle"} /\ (l \in Before <=> proc[p].at \in Before)
    BY <1>1, <2>1, <2>2 DEF Owes
  <2>3. CASE asked' = asked \cup {p} /\ l \notin Before
    BY <1>1, <2>3 DEF Owes
  <2> QED
    BY <2>2, <2>3
<1> QED
  BY <1>1, <1>2, <1>3, OthersOwe

LEMMA RoutesOwe ==
  ASSUME IInv, AnswerInv, DecisionsStay, NEW p \in Procs,
         \/ RouteTool(p) \/ RouteApproval(p) \/ PrepareApproval(p) \/ RouteRequirement(p)
         \/ PrepareRequirement(p) \/ RouteLaunch(p) \/ PrepareLaunch(p) \/ PrepareChat(p)
  PROVE  AnswerInv'
<1>1. p \in Turns /\ proc[p].at \in Before \ {"idle"} /\ UNCHANGED <<answered, broken>>
  BY TurnsAlone DEF RouteTool, RouteApproval, PrepareApproval, RouteRequirement, PrepareRequirement,
     RouteLaunch, PrepareLaunch, PrepareChat, At, Before, OfClicks, Ask, chat, Keep, histories
<1>2. \A l \in {"approval", "prepareApproval", "requirement", "prepareRequirement", "launch",
                "prepareLaunch", "chat"} : l \in Labels \ {"done"} /\ l \in Before
  BY DEF Labels, Before
<1>3. \A l \in {"create", "answer", "decide", "resolve", "supersede", "workspace", "reply"} :
        l \in Labels \ {"done"} /\ l \notin Before
  BY DEF Labels, Before
<1>4. CASE /\ PrepareApproval(p) \/ PrepareRequirement(p) \/ PrepareLaunch(p) \/ PrepareChat(p)
              \/ (RouteTool(p) /\ Says(p) = "tool")
  <2>1. PICK l \in {"create", "answer", "decide", "resolve", "supersede", "workspace", "reply"} :
          Goto(p, l) /\ asked' = asked \cup {p}
    BY <1>4 DEF PrepareApproval, PrepareRequirement, PrepareLaunch, PrepareChat, RouteTool, Ask
  <2> QED
    BY <1>1, <1>3, <2>1, LooksOn
<1>5. CASE \/ RouteApproval(p) \/ RouteRequirement(p) \/ RouteLaunch(p)
           \/ (RouteTool(p) /\ Says(p) # "tool")
  <2>1. UNCHANGED asked
    BY <1>5 DEF RouteApproval, RouteRequirement, RouteLaunch, RouteTool, chat
  <2>2. PendingExecs \subseteq Nat /\ Waiting(reqs) \subseteq Nat
    BY ExecutionRows DEF PendingExecs, Waiting, IInv, TablesOK
  <2>3. PICK l \in {"approval", "prepareApproval", "requirement", "prepareRequirement", "launch",
                    "prepareLaunch", "chat"} :
          Goto(p, l) \/ (\E n \in Nat : Choose(p, n, l)) \/ (\E i \in DOMAIN intents : Find(p, i, l))
    BY <1>5, <2>2 DEF RouteApproval, RouteRequirement, RouteLaunch, RouteTool, Newest, PendingIntents
  <2>4. proc[p].at \notin {"done", "idle"} /\ (l \in Before <=> proc[p].at \in Before) /\ l \in Labels \ {"done"}
    BY <1>1, <1>2, <2>3 DEF Before
  <2> QED
    BY <1>1, <2>1, <2>3, <2>4, LooksOn
<1> QED
  BY <1>4, <1>5

\* Work on what was asked for.
LEMMA WorksOwe ==
  ASSUME IInv, AnswerInv, DecisionsStay, NEW p \in Procs,
         \/ CreateExecution(p) \/ RecordRun(p) \/ TraceRun(p) \/ WriteDenial(p)
         \/ Resolve(p) \/ Supersede(p) \/ Propose(p) \/ Reply(p)
         \/ UpdateWorkspace(p) \/ Decline(p) \/ CreateJob(p) \/ MarkLaunched(p)
         \/ (Decide(p) /\ execs[Pick(p)].approval = "pending")
  PROVE  AnswerInv'
<1>1. /\ UNCHANGED <<asked, answered, broken>>
      /\ proc[p].at \in {"create", "record", "trace", "denial", "resolve", "supersede", "propose",
                         "reply", "workspace", "decline", "createJob", "markLaunched", "decide"}
  BY DEF CreateExecution, RecordRun, TraceRun, WriteDenial, Resolve, Supersede, Propose, Reply,
         UpdateWorkspace, Decline, CreateJob, MarkLaunched, Decide, At, chat, Keep, histories
<1>2. \A l \in {"run", "answer", "trace", "append", "denial", "propose", "decline", "createJob",
                "supersede", "markLaunched"} : l \in Labels \ {"done"} /\ l \notin Before
  BY DEF Labels, Before
<1>3. Len(execs) + 1 \in Nat
  BY DEF IInv, TablesOK
<1>4. \E l \in {"run", "answer", "trace", "append", "denial", "propose", "decline", "createJob",
                "supersede", "markLaunched"} : Goto(p, l) \/ \E n \in Nat : Choose(p, n, l)
  <2>1. CASE CreateExecution(p)
    <3>1. PICK mode \in Modes : Choose(p, Len(execs) + 1, IF mode = "always_allow" THEN "run" ELSE "answer")
      BY <2>1 DEF CreateExecution
    <3>2. \E l \in {"run", "answer"} : Choose(p, Len(execs) + 1, l)
      BY <3>1
    <3> QED
      BY <1>3, <3>2
  <2>2. CASE UpdateWorkspace(p)
    BY <2>2 DEF UpdateWorkspace
  <2>3. CASE \/ RecordRun(p) \/ TraceRun(p) \/ WriteDenial(p) \/ Resolve(p) \/ Supersede(p)
             \/ Propose(p) \/ Reply(p) \/ Decline(p) \/ CreateJob(p) \/ MarkLaunched(p)
    BY <2>3 DEF RecordRun, TraceRun, WriteDenial, Resolve, Supersede, Propose, Reply, Decline,
                CreateJob, MarkLaunched
  <2>4. CASE Decide(p) /\ execs[Pick(p)].approval = "pending"
    BY <2>4 DEF Decide
  <2> QED
    BY <2>1, <2>2, <2>3, <2>4
<1>5. proc[p].at \notin Before \cup {"done", "idle"}
  BY <1>1 DEF Before
<1> QED
  BY <1>1, <1>2, <1>4, <1>5, LooksOn

\* The steps that take other parts of the handler, or end it.
LEMMA EndsOwe ==
  ASSUME IInv, AnswerInv, DecisionsStay, NEW p \in Procs,
         \/ Send(p) \/ Click(p) \/ RunTool(p) \/ (Throw(p) /\ InTry(p)) \/ Answer(p)
         \/ (Decide(p) /\ execs[Pick(p)].approval # "pending")
  PROVE  AnswerInv'
<1>0. p \in Turns => Owes(p, proc[p])
  BY DEF AnswerInv
<1>1. CASE Send(p) \/ Click(p)
  <2>1. PICK h \in Handler : /\ proc' = [proc EXCEPT ![p] = h] /\ h.at \in {"tools", "decide"}
                             /\ h.at = "decide" => p \in Clicks
    BY <1>1, ArrivalIs
  <2>2. proc[p].at = "idle" /\ UNCHANGED <<asked, answered, broken>>
    BY <1>1, ArrivalIs DEF chat, histories
  <2>3. p \in Turns => h.at = "tools"
    BY <2>1, ProcsAssumption
  <2>4. p \in Turns => Owes(p, h)'
    BY <1>0, <2>1, <2>2, <2>3 DEF Owes, Before
  <2> QED
    BY <2>1, <2>2, <2>4, OthersOwe DEF AnswerInv
<1>2. CASE RunTool(p) \/ (Throw(p) /\ InTry(p))
  <2>1. PICK ok \in BOOLEAN : proc' = [proc EXCEPT ![p].at = "record", ![p].ok = ok]
    BY <1>2 DEF RunTool, Throw
  <2>2. proc[p] \in Handler /\ "record" \in Labels
    BY Going DEF Labels
  <2> DEFINE g == [proc[p] EXCEPT !.at = "record", !.ok = ok]
  <2>3. g \in Handler /\ g.at = "record"
    BY <2>2 DEF Handler
  <2>4. proc' = [proc EXCEPT ![p] = g]
    BY <2>1
  <2>5. PICK h \in Handler : h.at = "record" /\ proc' = [proc EXCEPT ![p] = h]
    BY <2>3, <2>4
  <2>6. proc[p].at \in {"run", "record", "trace", "append"} /\ UNCHANGED <<asked, answered, broken>>
    BY <1>2 DEF RunTool, Throw, InTry, At, chat, Keep, histories
  <2>7. p \in Turns => Owes(p, h)'
    BY <1>0, <2>5, <2>6 DEF Owes, Before
  <2> QED
    BY <2>5, <2>6, <2>7, OthersOwe DEF AnswerInv
<1>3. CASE Answer(p)
  <2>1. Resting("done") \in Handler /\ Resting("done").at = "done"
    BY RestingSound
  <2>2. PICK h \in Handler : h.at = "done" /\ proc' = [proc EXCEPT ![p] = h]
    BY <1>3, <2>1 DEF Answer, Finish
  <2>3. /\ proc[p].at \in {"answer", "append"} /\ UNCHANGED <<asked, broken>>
        /\ answered' = answered \cup ({p} \cap Turns)
    BY <1>3 DEF Answer, At, Keep, histories
  <2>4. p \in Turns => p \in asked
    BY <1>0, <2>3 DEF Owes, Before
  <2>5. p \in Turns => Owes(p, h)'
    BY <2>2, <2>3 DEF Owes, Before
  <2> QED
    BY <2>2, <2>3, <2>4, <2>5, OthersOwe DEF AnswerInv
<1>4. CASE Decide(p) /\ execs[Pick(p)].approval # "pending"
  <2>1. proc[p].at = "decide" /\ Goto(p, "done") /\ UNCHANGED <<execs, asked, answered, broken>>
    BY <1>4 DEF Decide, At
  <2>2. "done" \in Labels /\ proc[p].pick \in DOMAIN execs
    BY <2>1, Going DEF Labels, Picked, WithExec
  <2>3. PICK h \in Handler : h.at = "done" /\ h.pick = proc[p].pick /\ proc' = [proc EXCEPT ![p] = h]
    BY <2>1, <2>2, Gone
  <2>4. Decided(h)'
    BY <1>4, <2>1, <2>2, <2>3 DEF Decided, Pick
  <2>5. Owes(p, h)'
    BY <2>3, <2>4 DEF Owes, Before
  <2> QED
    BY <2>1, <2>3, <2>5, OthersOwe DEF AnswerInv
<1> QED
  BY <1>1, <1>2, <1>3, <1>4

LEMMA BrokenOwe ==
  ASSUME IInv, AnswerInv, NEW P \in SUBSET Procs, BreakOff(P), UNCHANGED <<execs, asked, answered>>
  PROVE  AnswerInv'
<1>1. /\ \A p \in Procs : proc'[p] = IF p \in P THEN Resting("done") ELSE proc[p]
      /\ broken' = broken \cup P
  BY DEF BreakOff
<1>2. Resting("done").at = "done"
  BY DEF Resting
<1>3. ASSUME NEW t \in Turns PROVE Owes(t, proc[t])'
  <2>1. CASE t \in P
    BY <1>1, <1>2, <2>1 DEF Owes, Before, Procs
  <2>2. CASE t \notin P
    BY <1>1, <2>2 DEF Owes, Decided, Procs, AnswerInv
  <2> QED
    BY <2>1, <2>2
<1> QED
  BY <1>3 DEF AnswerInv

LEMMA AnswersKept == IInv /\ AnswerInv /\ [Next]_vars => AnswerInv'
<1> SUFFICES ASSUME IInv, AnswerInv, [Next]_vars PROVE AnswerInv'
  OBVIOUS
<1>1. DecisionsStay
  BY DecisionsKept
<1>2. CASE UNCHANGED vars
  <2>1. UNCHANGED <<execs, asked, answered, proc, broken>>
    BY <1>2 DEF vars, rows, chat, histories
  <2> QED
    BY <2>1 DEF AnswerInv, Owes, Decided
<1>3. CASE Crash
  <2>1. BreakOff(Busy) /\ UNCHANGED <<execs, asked, answered>> /\ Busy \in SUBSET Procs
    BY <1>3 DEF Crash, rows, chat, Busy
  <2> QED
    BY <2>1, BrokenOwe
<1>4. ASSUME NEW p \in Procs, Throw(p), ~InTry(p) PROVE AnswerInv'
  <2>1. BreakOff({p}) /\ UNCHANGED <<execs, asked, answered>> /\ {p} \in SUBSET Procs
    BY <1>4 DEF Throw, rows, chat
  <2> QED
    BY <2>1, BrokenOwe
<1>5. ASSUME NEW p \in Procs, Step(p) PROVE AnswerInv'
  BY <1>1, <1>5, RoutesOwe, WorksOwe, EndsOwe DEF Step, ToolStep, LaunchStep
<1>6. ASSUME NEW p \in Procs, Send(p) \/ Click(p) \/ (Throw(p) /\ InTry(p)) PROVE AnswerInv'
  BY <1>1, <1>6, EndsOwe
<1> QED
  BY <1>2, <1>3, <1>4, <1>5, <1>6 DEF Next

\* Whatever overlaps and breaks off, a user message whose turn is over has its answer, unless this
\* turn broke off - as a model stream may in maybeHandleChatTurn - or came to decide an execution
\* that somebody else had decided; and no answer comes before its question.
THEOREM EachMessageAnswered == Spec => []TurnsAnswered
<1>1. Init => AnswerInv
  <2>1. Resting("idle").at = "idle" /\ "idle" \in Before
    BY DEF Resting, Before
  <2> QED
    BY <2>1 DEF Init, AnswerInv, Owes, Procs
<1>2. IInv /\ AnswerInv => TurnsAnswered
  <2> SUFFICES ASSUME IInv, AnswerInv, NEW t \in asked \ (answered \cup broken), At(t, "done")
               PROVE  FoundDecided(t)
    BY DEF AnswerInv, TurnsAnswered
  <2>1. Owes(t, proc[t])
    BY DEF AnswerInv, IInv, TablesOK
  <2> QED
    BY <2>1 DEF Owes, Decided, FoundDecided, At, Pick
<1> QED
  BY <1>1, <1>2, InitKeeps, NextKeeps, AnswersKept, PTL DEF Spec

=============================================================================
