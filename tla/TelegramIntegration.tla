------------------------- MODULE TelegramIntegration -------------------------
(***************************************************************************)
(* The Telegram channel: the polling loop and the webhook that hand        *)
(* updates to one handler, the row of `integrations` that holds the        *)
(* settings and the poll cursor, and the requests that write the same row. *)
(* A name at the end of `at` is the await a process is about to make.      *)
(***************************************************************************)
EXTENDS Integers, FiniteSets

CONSTANTS
    Operators,          \* requests of the settings page that may be open at once
    Deliveries,         \* webhook calls Telegram may have open at once
    MaxUpdates,         \* bound: updates people send
    BatchLimit,         \* the limit the loop gives getUpdates
    MaxRequests,        \* bound: requests of operators
    MaxTelegramFaults   \* bound: crashes and calls that throw

ASSUME TelegramAssumption ==
    /\ MaxUpdates \in Nat /\ BatchLimit \in Nat \ {0}
    /\ MaxRequests \in Nat /\ MaxTelegramFaults \in Nat
    /\ "poll" \notin Deliveries

VARIABLES
    row,        \* the integrations row
    kinds,      \* what each update sent so far carries
    pending,    \* the updates Telegram still keeps for us
    hook,       \* a webhook is set at Telegram
    poller,     \* the polling loop
    work,       \* the update handler, run by the loop or by a webhook call
    request,    \* what each operator's request is about to do
    asked,      \* number of requests made
    faults,     \* number of faults so far
    fates,      \* history: how the handlings of each update ended
    turns,      \* history: the turns persisted for each update
    disturbed   \* history: a fault, a rewound cursor, or requests that overlap

telegramVars == <<row, kinds, pending, hook, poller, work, request, asked, faults,
                  fates, turns, disturbed>>

-----------------------------------------------------------------------------
(* Records *)

Updates == 1 .. MaxUpdates
Sent == {u \in Updates : kinds[u] # "none"}
Handlers == {"poll"} \cup Deliveries

\* The stored settings that steer the loop. Cursor 0 stands for null: ids start at 1, and
\* an offset of 1 confirms as little as no offset.
Modes == {"webhook", "polling"}
Settings == [mode : Modes, cursor : 0 .. MaxUpdates]
DefaultSettings == [mode |-> "webhook", cursor |-> 0]
TelegramRow == [enabled : BOOLEAN, settings : Settings, health : {"ok", "degraded", "disabled"}]
DefaultRow == [enabled |-> FALSE, settings |-> DefaultSettings, health |-> "disabled"]

\* What an update carries: text, something to find text in (a voice note), or no message.
Kinds == {"text", "voice", "other"}
Fates == {"ignored", "answered", "acknowledged", "failed"}
RequestKinds == {"settings", "presence", "sync", "status"}

Poller == [at : {"wait", "clear", "ask", "batch"}, stored : Settings, cleared : BOOLEAN,
           batch : SUBSET Updates, next : 0 .. MaxUpdates]
Work == [at : {"idle", "receive", "understand", "turn", "reply", "voice"}, update : Updates \cup {0}]
Request == [at : {"idle", "act", "record", "reread", "check"}, kind : RequestKinds,
            enabled : BOOLEAN, settings : Settings, enable : BOOLEAN, mode : Modes]

Idle == [at |-> "idle", update |-> 0]
NoRequest == [at |-> "idle", kind |-> "status", enabled |-> FALSE, settings |-> DefaultSettings,
              enable |-> FALSE, mode |-> "webhook"]
\* A restarted worker starts its loop with nothing cleared.
FreshPoller ==
    [at |-> "wait", stored |-> DefaultSettings, cleared |-> FALSE, batch |-> {}, next |-> 0]

Waiting == [FreshPoller EXCEPT !.cleared = poller.cleared]

Larger(a, b) == IF a >= b THEN a ELSE b

\* The first `limit` of the updates, as getUpdates returns them.
FirstOf(updates, limit) ==
    {u \in updates : Cardinality({v \in updates : v < u}) < limit}

\* A write of settings that sets the poll cursor back hands out updates again.
SaveSettings(settings) ==
    /\ row' = [row EXCEPT !.settings = settings]
    /\ disturbed' = (disturbed \/ settings.cursor < row.settings.cursor)

TelegramInit ==
    /\ row = DefaultRow
    /\ kinds = [u \in Updates |-> "none"]
    /\ pending = {}
    /\ hook = FALSE
    /\ poller = FreshPoller
    /\ work = [h \in Handlers |-> Idle]
    /\ request = [o \in Operators |-> NoRequest]
    /\ asked = 0 /\ faults = 0
    /\ fates = [u \in Updates |-> {}]
    /\ turns = [u \in Updates |-> 0]
    /\ disturbed = FALSE

-----------------------------------------------------------------------------
(* The polling loop: startTelegramPolling *)

\* The tick reads the row. Disabled or not polling, it forgets that it cleared the webhook.
PollTick ==
    /\ poller.at = "wait"
    /\ poller' = IF row.enabled /\ row.settings.mode = "polling"
                 THEN [poller EXCEPT !.at = "clear", !.stored = row.settings]
                 ELSE FreshPoller
    /\ UNCHANGED <<row, kinds, pending, hook, work, request, asked, faults, fates, turns, disturbed>>

\* deleteWebhook, once for as long as the loop finds polling enabled.
PollClear ==
    /\ poller.at = "clear"
    /\ poller' = [poller EXCEPT !.at = "ask", !.cleared = TRUE]
    /\ hook' = (hook /\ poller.cleared)
    /\ disturbed' = (disturbed \/ (hook /\ ~hook' /\ \E d \in Deliveries : work[d].at # "idle"))
    /\ UNCHANGED <<row, kinds, pending, work, request, asked, faults, fates, turns>>

\* Mutant: the offset sent is one too high, and confirms an update nobody has seen.
PollAskTooHigh ==
    /\ poller.at = "ask"
    /\ IF hook
       THEN /\ poller' = Waiting
            /\ UNCHANGED pending
       ELSE /\ pending' = {u \in pending : u > poller.stored.cursor + 1}
            /\ poller' = [poller EXCEPT !.at = "batch", !.next = poller.stored.cursor,
                                        !.batch = FirstOf(pending', BatchLimit)]
    /\ UNCHANGED <<row, kinds, hook, work, request, asked, faults, fates, turns, disturbed>>

\* getUpdates confirms what is below the offset. With a webhook set it is refused, and the
\* tick ends in the catch.
PollAsk ==
    /\ poller.at = "ask"
    /\ IF hook
       THEN /\ poller' = Waiting
            /\ UNCHANGED pending
       ELSE /\ pending' = {u \in pending : u > poller.stored.cursor}
            /\ poller' = [poller EXCEPT !.at = "batch", !.next = poller.stored.cursor,
                                        !.batch = FirstOf(pending', BatchLimit)]
    /\ UNCHANGED <<row, kinds, hook, work, request, asked, faults, fates, turns, disturbed>>

\* The next update of the batch, in ascending order.
PollTake ==
    /\ poller.at = "batch" /\ work["poll"].at = "idle"
    /\ \E u \in poller.batch :
          /\ \A v \in poller.batch : u <= v
          /\ poller' = [poller EXCEPT !.next = Larger(@, u)]
          /\ work' = [work EXCEPT !["poll"] = [at |-> "receive", update |-> u]]
    /\ UNCHANGED <<row, kinds, pending, hook, request, asked, faults, fates, turns, disturbed>>

\* Mutant: the cursor is not saved after the batch.
PollSaveForgets ==
    /\ poller.at = "batch" /\ poller.batch = {} /\ work["poll"].at = "idle"
    /\ poller' = Waiting
    /\ UNCHANGED <<row, kinds, pending, hook, work, request, asked, faults, fates, turns, disturbed>>

\* Mutant: after a batch with updates the loop's flag `running` is not reset.
PollSaveHangs ==
    /\ poller.at = "batch" /\ poller.batch = {} /\ work["poll"].at = "idle"
    /\ IF poller.next # poller.stored.cursor
       THEN /\ SaveSettings([poller.stored EXCEPT !.cursor = poller.next])
            /\ UNCHANGED poller
       ELSE /\ poller' = Waiting
            /\ UNCHANGED <<row, disturbed>>
    /\ UNCHANGED <<kinds, pending, hook, work, request, asked, faults, fates, turns>>

\* After the batch the cursor is saved, with the settings as read before the long poll.
PollSave ==
    /\ poller.at = "batch" /\ poller.batch = {} /\ work["poll"].at = "idle"
    /\ IF poller.next # poller.stored.cursor
       THEN SaveSettings([poller.stored EXCEPT !.cursor = poller.next])
       ELSE UNCHANGED <<row, disturbed>>
    /\ poller' = Waiting
    /\ UNCHANGED <<kinds, pending, hook, work, request, asked, faults, fates, turns>>

-----------------------------------------------------------------------------
(* The update handler: handleTelegramWebhookUpdate *)

\* Telegram calls the webhook with an update it keeps.
Deliver(d) ==
    /\ hook /\ work[d].at = "idle"
    /\ \E u \in pending :
          /\ \A h \in Deliveries : work[h].update # u
          /\ work' = [work EXCEPT ![d] = [at |-> "receive", update |-> u]]
    /\ UNCHANGED <<row, kinds, pending, hook, poller, request, asked, faults, fates, turns, disturbed>>

\* Handler h is done with its update. The loop goes on to the next one whatever the outcome;
\* Telegram forgets an update whose webhook call succeeded.
Finish(h, fate) ==
    LET u == work[h].update
    IN  /\ work' = [work EXCEPT ![h] = Idle]
        /\ fates' = [fates EXCEPT ![u] = @ \cup {fate}]
        /\ IF h = "poll"
           THEN /\ poller' = [poller EXCEPT !.batch = @ \ {u}]
                /\ UNCHANGED pending
           ELSE /\ pending' = IF fate = "failed" THEN pending ELSE pending \ {u}
                /\ UNCHANGED poller

Step(h, from, to) ==
    /\ work[h].at = from
    /\ work' = [work EXCEPT ![h].at = to]
    /\ UNCHANGED <<pending, poller, fates>>

\* The row decides whether updates are taken at all; one without a message is not supported.
Receive(h) ==
    /\ work[h].at = "receive"
    /\ IF row.enabled /\ kinds[work[h].update] # "other"
       THEN Step(h, "receive", "understand")
       ELSE Finish(h, "ignored")
    /\ UNCHANGED <<row, kinds, hook, request, asked, faults, turns, disturbed>>

\* A voice note is stored and transcribed. Without a service for that, or without any text in
\* it, the sender is told so and the update is done.
Understand(h) ==
    /\ work[h].at = "understand"
    /\ \/ Step(h, "understand", "turn")
       \/ kinds[work[h].update] = "voice" /\ Finish(h, "acknowledged")
    /\ UNCHANGED <<row, kinds, hook, request, asked, faults, turns, disturbed>>

\* processRuntimeTurn persists a turn for the text; nothing looks for an earlier turn of the
\* same update.
Turn(h) ==
    /\ Step(h, "turn", "reply")
    /\ turns' = [turns EXCEPT ![work[h].update] = @ + 1]
    /\ UNCHANGED <<row, kinds, hook, request, asked, faults, disturbed>>

\* The reply is sent and its Telegram id attached to the message.
Reply(h) ==
    /\ work[h].at = "reply"
    /\ IF kinds[work[h].update] = "voice"
       THEN Step(h, "reply", "voice")
       ELSE Finish(h, "answered")
    /\ UNCHANGED <<row, kinds, hook, request, asked, faults, turns, disturbed>>

\* A spoken reply is added to the answer to a voice note. Its failures are caught.
ReplyByVoice(h) ==
    /\ work[h].at = "voice"
    /\ Finish(h, "answered")
    /\ UNCHANGED <<row, kinds, hook, request, asked, faults, turns, disturbed>>

Handle(h) == Receive(h) \/ Understand(h) \/ Turn(h) \/ Reply(h) \/ ReplyByVoice(h)

\* A call of the handler throws: the loop drops the update, the route answers 500 and
\* Telegram keeps it.
HandlerThrows(h) ==
    /\ work[h].at \in {"receive", "understand", "turn", "reply"}
    /\ faults < MaxTelegramFaults
    /\ faults' = faults + 1 /\ disturbed' = TRUE
    /\ Finish(h, "failed")
    /\ UNCHANGED <<row, kinds, hook, request, asked, turns>>

-----------------------------------------------------------------------------
(* Requests of the settings page *)

NoneOpen == \A o \in Operators : request[o].at = "idle"

\* A request reads the row first. The status request goes on to check it.
Ask(o) ==
    /\ request[o].at = "idle" /\ asked < MaxRequests
    /\ asked' = asked + 1
    /\ \E kind \in RequestKinds, enable \in BOOLEAN, mode \in Modes :
          /\ kind # "settings" => ~enable /\ mode = "webhook"
          /\ request' = [request EXCEPT ![o] =
                [at |-> IF kind = "status" THEN "check" ELSE "act", kind |-> kind,
                 enabled |-> row.enabled, settings |-> row.settings,
                 enable |-> enable, mode |-> mode]]
    /\ disturbed' = (disturbed \/ ~NoneOpen)
    /\ UNCHANGED <<row, kinds, pending, hook, poller, work, faults, fates, turns>>

\* The patch is merged into the row as it was read, its cursor and presence included.
UpdateSettings(o) ==
    LET r == request[o]
        settings == [r.settings EXCEPT !.mode = r.mode]
    IN  /\ r.at = "act" /\ r.kind = "settings"
        /\ row' = [row EXCEPT !.enabled = r.enable, !.settings = settings]
        /\ disturbed' = (disturbed \/ settings.cursor < row.settings.cursor)
        /\ request' = [request EXCEPT ![o].at = "reread"]
        /\ UNCHANGED <<kinds, pending, hook, poller, work, asked, faults, fates, turns>>

\* touchTelegramWebPresence: the whole configuration again, with the time of the visit, which
\* is left out here.
TouchPresence(o) ==
    LET r == request[o]
    IN  /\ r.at = "act" /\ r.kind = "presence"
        /\ SaveSettings(r.settings)
        /\ request' = [request EXCEPT ![o] = NoRequest]
        /\ UNCHANGED <<kinds, pending, hook, poller, work, asked, faults, fates, turns>>

\* A transport changes while Telegram still keeps updates that were handled, or hands one out.
Unsettled == (\E u \in pending : fates[u] # {}) \/ (\E h \in Handlers : work[h].at # "idle")
             \/ poller.at # "wait"

\* syncTelegramWebhook calls Telegram as the row it read says ...
SyncWebhook(o) ==
    LET r == request[o]
        hooked == r.enabled /\ r.settings.mode = "webhook"
    IN  /\ r.at = "act" /\ r.kind = "sync"
        /\ hook' = hooked
        /\ disturbed' = (disturbed \/ (hooked # hook /\ Unsettled))
        /\ request' = [request EXCEPT ![o].at = "record"]
        /\ UNCHANGED <<row, kinds, pending, poller, work, asked, faults, fates, turns>>

\* ... and then records that it did.
RecordSync(o) ==
    /\ request[o].at = "record"
    /\ row' = [row EXCEPT !.health = IF request[o].enabled THEN "ok" ELSE "disabled"]
    /\ request' = [request EXCEPT ![o] = NoRequest]
    /\ UNCHANGED <<kinds, pending, hook, poller, work, asked, faults, fates, turns, disturbed>>

\* An update of the settings answers with the status, for which the row is read again.
Reread(o) ==
    /\ request[o].at = "reread"
    /\ request' = [request EXCEPT ![o].at = "check", ![o].enabled = row.enabled,
                                       ![o].settings = row.settings]
    /\ UNCHANGED <<row, kinds, pending, hook, poller, work, asked, faults, fates, turns, disturbed>>

\* The health of the row that request r read. `reached` is whether the API check worked.
HealthOf(r, reached) ==
    CASE ~r.enabled -> "disabled"
      [] r.enabled /\ reached /\ (r.settings.mode = "polling" \/ hook) -> "ok"
      [] OTHER -> "degraded"

\* refreshTelegramHealth writes the health it computed from that row.
CheckHealth(o) ==
    /\ request[o].at = "check"
    /\ \E reached \in BOOLEAN : row' = [row EXCEPT !.health = HealthOf(request[o], reached)]
    /\ request' = [request EXCEPT ![o] = NoRequest]
    /\ UNCHANGED <<kinds, pending, hook, poller, work, asked, faults, fates, turns, disturbed>>

Serve(o) == UpdateSettings(o) \/ TouchPresence(o) \/ SyncWebhook(o) \/ RecordSync(o)
            \/ Reread(o) \/ CheckHealth(o)

\* A request or a tick of the loop throws, at any of its awaits.
RequestThrows(o) ==
    /\ request[o].at # "idle" /\ faults < MaxTelegramFaults
    /\ faults' = faults + 1 /\ disturbed' = TRUE
    /\ request' = [request EXCEPT ![o] = NoRequest]
    /\ UNCHANGED <<row, kinds, pending, hook, poller, work, asked, fates, turns>>

PollThrows ==
    /\ poller.at # "wait" /\ work["poll"].at = "idle" /\ faults < MaxTelegramFaults
    /\ poller.at = "batch" => poller.batch = {}
    /\ faults' = faults + 1 /\ disturbed' = TRUE
    /\ poller' = Waiting
    /\ UNCHANGED <<row, kinds, pending, hook, work, request, asked, fates, turns>>

\* The worker is restarted: the loop, the handlers and the requests are gone.
Restart ==
    /\ faults < MaxTelegramFaults
    /\ faults' = faults + 1 /\ disturbed' = TRUE
    /\ poller' = FreshPoller
    /\ work' = [h \in Handlers |-> Idle]
    /\ request' = [o \in Operators |-> NoRequest]
    /\ UNCHANGED <<row, kinds, pending, hook, asked, fates, turns>>

\* Somebody writes to the bot.
Write ==
    /\ \E u \in Updates, kind \in Kinds :
          /\ kinds[u] = "none" /\ \A v \in Updates : v < u => kinds[v] # "none"
          /\ kinds' = [kinds EXCEPT ![u] = kind]
          /\ pending' = pending \cup {u}
    /\ UNCHANGED <<row, hook, poller, work, request, asked, faults, fates, turns, disturbed>>

Poll == PollTick \/ PollClear \/ PollAsk \/ PollTake \/ PollSave

TelegramNext ==
    \/ Poll \/ PollThrows \/ Restart \/ Write
    \/ \E d \in Deliveries : Deliver(d)
    \/ \E h \in Handlers : Handle(h) \/ HandlerThrows(h)
    \/ \E o \in Operators : Ask(o) \/ Serve(o) \/ RequestThrows(o)

\* The event loop keeps the loop and the handler going; nobody has to write or to ask.
PollProceeds == Poll \/ Handle("poll")

TelegramSpec == TelegramInit /\ [][TelegramNext]_telegramVars /\ WF_telegramVars(PollProceeds)

-----------------------------------------------------------------------------
(* Properties *)

\* Every field is of its kind.
TelegramTypeOK ==
    /\ row \in TelegramRow
    /\ kinds \in [Updates -> Kinds \cup {"none"}]
    /\ pending \subseteq Updates
    /\ hook \in BOOLEAN
    /\ poller \in Poller
    /\ work \in [Handlers -> Work]
    /\ request \in [Operators -> Request]
    /\ asked \in 0 .. MaxRequests /\ faults \in 0 .. MaxTelegramFaults
    /\ fates \in [Updates -> SUBSET Fates]
    /\ turns \in [Updates -> Nat]
    /\ disturbed \in BOOLEAN

\* Telegram forgets no update that nobody took up: the cursor the loop confirms, and that
\* settings and presence requests write back from older reads, never covers one whose
\* handling has not ended (in a turn, an acknowledgement, a failure or on purpose).
NothingForgotten == \A u \in Sent : u \in pending \/ fates[u] # {}

\* An update makes one turn, unless a call failed, the worker was restarted, the cursor was
\* set back by a stale write, or the transport changed with updates under way. The handler
\* itself keeps no record of what it has seen, so the cursor alone prevents a second turn.
OneTurnEach == ~disturbed => \A u \in Updates : turns[u] <= 1

\* Once polling stays enabled and no webhook stands in the way, the loop catches up with what
\* was sent, time and again, however many calls failed before.
PollingCatchesUp ==
    <>[](row.enabled /\ row.settings.mode = "polling" /\ ~hook) => []<>(\A u \in Sent : fates[u] # {})

=============================================================================
