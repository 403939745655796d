------------------------------ MODULE DeskShell ------------------------------
(***************************************************************************)
(* The desk, the page the operator talks to the secretary on: which        *)
(* conversation is selected, whose messages the pane is seeded with, the   *)
(* replies that stream in, and the approvals offered. Every request is     *)
(* answered at its own time; a reply goes on although its pane is gone.    *)
(***************************************************************************)
EXTENDS Naturals

CONSTANTS
    Conversations,  \* positive numbers; 0 stands for none
    MaxReplies,     \* bound: messages sent
    MaxClicks       \* bound: conversations opened or begun

ASSUME DeskAssumption ==
    /\ Conversations \subseteq Nat \ {0} /\ MaxReplies \in Nat /\ MaxClicks \in Nat

VARIABLES
    existing,   \* conversations the worker has
    pending,    \* those with a tool execution that waits for approval
    selected,   \* conversationId
    loaded,     \* hasLoadedHistory: the conversation whose history was last loaded
    seed,       \* whose history the pane was made with, 0 for the greeting
    refreshing, \* the pane says that it is refreshing
    history,    \* loads of a history under way; one that is no longer live was cancelled
    reply,      \* the messages sent, each with what has come of it
    approvals,  \* the conversation whose approval the pane offers
    asked,      \* loads of pending approvals under way
    busy,       \* approvalBusyId
    deciding,   \* what each decision is about to do
    clicks      \* number of conversations opened or begun so far

deskVars == <<existing, pending, selected, loaded, seed, refreshing, history, reply,
              approvals, asked, busy, deciding, clicks>>
paneVars == <<selected, loaded, seed, refreshing, history>>
offer == <<approvals, asked, busy, deciding>>

MaybeConversation == Conversations \cup {0}
Load == [of : Conversations, live : BOOLEAN]

\* The model's own answers tell their conversation when they end, the others at once.
Reply == [at : {"none", "sent", "told", "over"}, of : MaybeConversation,
          kind : {"model", "other"}, here : BOOLEAN]
NoReply == [at |-> "none", of |-> 0, kind |-> "other", here |-> FALSE]
UnderWay(r) == reply[r].at \in {"sent", "told"}

DeskInit ==
    /\ existing \in SUBSET Conversations /\ pending \in SUBSET existing
    /\ selected = 0 /\ loaded = 0 /\ seed = 0 /\ refreshing = FALSE /\ history = {}
    /\ reply = [r \in 1 .. MaxReplies |-> NoReply]
    /\ approvals = 0 /\ asked = {} /\ busy = 0
    /\ deciding = [c \in Conversations |-> "idle"]
    /\ clicks = 0

-----------------------------------------------------------------------------
(* The selected conversation and its history *)

\* setConversationId, with hasLoadedHistory at `mark`. The effect runs when the id changes: it
\* cancels the load there was and begins one, unless this history is the one loaded last.
Select(c, mark) ==
    LET begins == c # selected /\ c # 0 /\ c # mark
    IN  /\ selected' = c /\ loaded' = mark
        /\ history' = IF c = selected THEN history
                      ELSE {[h EXCEPT !.live = FALSE] : h \in history}
                           \cup (IF begins THEN {[of |-> c, live |-> TRUE]} ELSE {})
        /\ refreshing' = (refreshing \/ begins)

\* A new seed makes a new pane; replies of the old one go on unseen.
NewPane(of) ==
    /\ seed' = of
    /\ reply' = [r \in 1 .. MaxReplies |-> [reply[r] EXCEPT !.here = FALSE]]

StartFresh ==
    /\ clicks < MaxClicks /\ clicks' = clicks + 1
    /\ Select(0, 0) /\ NewPane(0)
    /\ approvals' = 0
    /\ UNCHANGED <<existing, pending, asked, busy, deciding>>

Open(c) ==
    /\ clicks < MaxClicks /\ clicks' = clicks + 1
    /\ c \in existing
    /\ Select(c, 0)
    /\ approvals' = 0
    /\ UNCHANGED <<existing, pending, seed, reply, asked, busy, deciding>>

\* Mutant: a load that was cancelled shows what it got.
HistoryArrivesAnyway(h) ==
    /\ history' = history \ {h}
    /\ refreshing' = FALSE
    /\ \/ NewPane(h.of) /\ loaded' = h.of /\ asked' = asked \cup {h.of}
       \/ NewPane(0) /\ UNCHANGED <<loaded, asked>>
    /\ UNCHANGED <<existing, pending, selected, approvals, busy, deciding, clicks>>

\* A history without messages shows the greeting; a failure too, and marks nothing as loaded.
HistoryArrives(h) ==
    /\ history' = history \ {h}
    /\ IF h.live
       THEN /\ refreshing' = FALSE
            /\ \/ \E of \in {h.of, 0} : NewPane(of) /\ loaded' = h.of /\ asked' = asked \cup {h.of}
               \/ NewPane(0) /\ UNCHANGED <<loaded, asked>>
       ELSE UNCHANGED <<refreshing, seed, reply, loaded, asked>>
    /\ UNCHANGED <<existing, pending, selected, approvals, busy, deciding, clicks>>

-----------------------------------------------------------------------------
(* Messages and replies *)

\* The pane sends one message at a time, to the conversation selected by now; without one the
\* worker makes a new one.
Send(r) ==
    /\ reply[r].at = "none" /\ \A q \in 1 .. r - 1 : reply[q].at # "none"
    /\ \A q \in 1 .. MaxReplies : reply[q].here => ~UnderWay(q)
    /\ \E of \in IF selected # 0 THEN {selected} ELSE Conversations \ existing, kind \in {"model", "other"} :
          /\ reply' = [reply EXCEPT ![r] = [at |-> "sent", of |-> of, kind |-> kind, here |-> TRUE]]
          /\ existing' = existing \cup {of}
    /\ UNCHANGED <<pending, paneVars, offer, clicks>>

\* The data-runtime-context part that precedes the text of what is not the model's.
Told(r) ==
    /\ reply[r].at = "sent" /\ reply[r].kind = "other"
    /\ reply' = [reply EXCEPT ![r].at = "told"]
    /\ pending' \in {pending, pending \cup {reply[r].of}}
    /\ Select(reply[r].of, loaded)
    /\ UNCHANGED <<existing, seed, offer, clicks>>

\* onFinish: only a reply of the model has the metadata that the approvals are asked with.
Settle(r) ==
    /\ \/ reply[r].kind = "model" /\ reply[r].at = "sent"
          /\ Select(reply[r].of, loaded)
          /\ asked' = asked \cup {reply[r].of}
       \/ reply[r].at = "told" /\ UNCHANGED <<selected, loaded, history, refreshing, asked>>
    /\ reply' = [reply EXCEPT ![r].at = "over"]
    /\ UNCHANGED <<existing, pending, seed, approvals, busy, deciding, clicks>>

\* The request fails, or the operator stops it before the worker has told anything.
Breaks(r) ==
    /\ UnderWay(r)
    /\ reply' = [reply EXCEPT ![r].at = "over"]
    /\ UNCHANGED <<existing, pending, paneVars, offer, clicks>>

-----------------------------------------------------------------------------
(* Approvals *)

\* Whatever is selected by now; a failed load offers nothing.
ApprovalsArrive(c) ==
    /\ c \in asked
    /\ asked' = asked \ {c}
    /\ approvals' \in {0} \cup ({c} \cap pending)
    /\ UNCHANGED <<existing, pending, paneVars, reply, busy, deciding, clicks>>

\* Approve or deny: the buttons are disabled while this execution is the busy one.
Decide(c) ==
    /\ c = approvals /\ c # 0 /\ busy # c
    /\ busy' = c
    /\ deciding' = [deciding EXCEPT ![c] = "post"]
    /\ UNCHANGED <<existing, pending, paneVars, reply, approvals, asked, clicks>>

\* Done by the worker; or refused, because somebody has decided it already, and then it is over.
Post(c) ==
    /\ deciding[c] = "post"
    /\ \/ pending' = pending \ {c} /\ deciding' = [deciding EXCEPT ![c] = "reload"] /\ UNCHANGED busy
       \/ deciding' = [deciding EXCEPT ![c] = "idle"] /\ busy' = 0 /\ UNCHANGED pending
    /\ UNCHANGED <<existing, paneVars, reply, approvals, asked, clicks>>

\* The decision's conversation is selected, wherever the operator is by now.
Decided(c) ==
    /\ deciding[c] = "reload"
    /\ approvals' \in {0} \cup ({c} \cap pending)
    /\ Select(c, loaded)
    /\ busy' = 0
    /\ deciding' = [deciding EXCEPT ![c] = "idle"]
    /\ UNCHANGED <<existing, pending, seed, reply, asked, clicks>>

DeskNext ==
    \/ StartFresh
    \/ \E c \in Conversations : Open(c) \/ ApprovalsArrive(c) \/ Decide(c) \/ Post(c) \/ Decided(c)
    \/ \E h \in history : HistoryArrives(h)
    \/ \E r \in 1 .. MaxReplies : Send(r) \/ Told(r) \/ Settle(r) \/ Breaks(r)

DeskSpec == DeskInit /\ [][DeskNext]_deskVars

-----------------------------------------------------------------------------
(* Properties *)

DeskTypeOK ==
    /\ existing \subseteq Conversations /\ pending \subseteq existing
    /\ {selected, loaded, seed, approvals, busy} \subseteq MaybeConversation
    /\ refreshing \in BOOLEAN /\ history \subseteq Load
    /\ reply \in [1 .. MaxReplies -> Reply]
    /\ asked \subseteq Conversations
    /\ deciding \in [Conversations -> {"idle", "post", "reload"}]
    /\ clicks \in 0 .. MaxClicks

\* When no history is being loaded, the history in the pane is that of the selected conversation
\* (or there is none, the greeting), however clicks, replies of earlier panes and decisions that
\* end late have moved the selection, and in whatever order the histories were answered.
HistoryFits == (\A h \in history : ~h.live) => seed \in {0, selected}
=============================================================================
