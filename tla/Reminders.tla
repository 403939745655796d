------------------------------ MODULE Reminders ------------------------------
(***************************************************************************)
(* Tasks with reminders, and the channels messages go out on: requests     *)
(* that deliver the reminders that are due, important updates that go to   *)
(* each enabled channel, and test messages. A message is sent, the channel *)
(* row told, and the task marked, in this order and without a transaction. *)
(***************************************************************************)
EXTENDS Integers, FiniteSets

CONSTANTS
    Tasks,          \* task ids
    Dispatchers,    \* requests to deliver due reminders that may be open at once
    Editors,        \* task updates that may be under way at once
    MaxDue,         \* the limit of the query for due tasks
    MaxSends,       \* bound: requests, and messages of one task
    MaxSendFaults,  \* bound: sends and writes that throw, and restarts
    Outbound,       \* discord, slack, email and sms, which differ in their credentials only
    Configured      \* the channels the environment has credentials for

Channels == {"telegram"} \cup Outbound

ASSUME RemindersAssumption ==
    /\ MaxDue \in Nat \ {0} /\ MaxSends \in Nat /\ MaxSendFaults \in Nat
    /\ Configured \subseteq Channels
    /\ Dispatchers \cap {"notice", "test"} = {}
    /\ Outbound \cap {"telegram", "other", "none"} = {}
    /\ Tasks \cap Channels = {}

VARIABLES
    task,       \* rows of tasks
    edit,       \* what each update of a task is about to write
    enabled,    \* the column of each channel's row of integrations
    health,     \* healthStatus of each outbound channel's row
    sender,     \* what each process that sends is about to do
    made,       \* number of requests made
    sendFaults, \* number of faults so far
    mail,       \* history: reminders that went out, per task
    refused,    \* history: tasks whose reminder Telegram was not given, without an error
    muddled     \* history: dispatches overlapped, or a write or the worker failed

reminderVars == <<task, edit, enabled, health, sender, made, sendFaults, mail, refused, muddled>>

-----------------------------------------------------------------------------
(* Records *)

\* A task and its reminder: "other" is a channel name nothing supports.
Task == [status : {"none", "open", "done"}, channel : Channels \cup {"other", "none"},
         due : {"none", "later", "due"}, delivered : BOOLEAN, error : BOOLEAN]
NoTask == [status |-> "none", channel |-> "none", due |-> "none", delivered |-> FALSE, error |-> FALSE]

\* A process: what it has still to send (tasks, or channels of an update), what it is at,
\* and whether the message went out.
Senders == Dispatchers \cup {"notice", "test"}
Items == Tasks \cup Channels
Sender == [at : {"idle", "next", "send", "status", "mark", "trace", "note"},
           todo : SUBSET Items, item : Items \cup {"none"}, ok : BOOLEAN]
Unemployed == [at |-> "idle", todo |-> {}, item |-> "none", ok |-> FALSE]

\* An update of a task: the fields it writes, from the row it read and the request.
Edit == [at : {"idle", "write"}, task : Tasks \cup {"none"}, status : {"none", "open", "done"},
         due : {"none", "later", "due"}]
NoEdit == [at |-> "idle", task |-> "none", status |-> "none", due |-> "none"]

RemindersInit ==
    /\ task = [t \in Tasks |-> NoTask]
    /\ edit = [e \in Editors |-> NoEdit]
    /\ enabled = [c \in Channels |-> FALSE]
    /\ health = [c \in Outbound |-> "not_configured"]
    /\ sender = [p \in Senders |-> Unemployed]
    /\ made = 0 /\ sendFaults = 0
    /\ mail = [t \in Tasks |-> 0]
    /\ refused = {}
    /\ muddled = FALSE

ChannelOf(item) == IF item \in Tasks THEN task[item].channel ELSE item

-----------------------------------------------------------------------------
(* Tasks: the task_create and task_update tools, and time *)

CreateTask(t) ==
    /\ task[t].status = "none"
    /\ \E channel \in Channels \cup {"other"} :
          task' = [task EXCEPT ![t] = [NoTask EXCEPT !.status = "open", !.channel = channel, !.due = "later"]]
    /\ UNCHANGED <<edit, enabled, health, sender, made, sendFaults, mail, refused, muddled>>

\* task_update finds the task: it is done, or has a new time for its reminder ...
FindTask(e) ==
    /\ edit[e].at = "idle" /\ made < MaxSends
    /\ made' = made + 1
    /\ \E t \in Tasks :
          /\ task[t].status # "none"
          /\ edit' \in {[edit EXCEPT ![e] = [at |-> "write", task |-> t, status |-> "done", due |-> task[t].due]],
                        [edit EXCEPT ![e] = [at |-> "write", task |-> t, status |-> task[t].status, due |-> "later"]]}
    /\ UNCHANGED <<task, enabled, health, sender, sendFaults, mail, refused, muddled>>

\* ... and writes both. What was delivered stays delivered.
UpdateTask(e) ==
    /\ edit[e].at = "write"
    /\ task' = [task EXCEPT ![edit[e].task].status = edit[e].status, ![edit[e].task].due = edit[e].due]
    /\ edit' = [edit EXCEPT ![e] = NoEdit]
    /\ UNCHANGED <<enabled, health, sender, made, sendFaults, mail, refused, muddled>>

TimePasses(t) ==
    /\ task[t].due = "later"
    /\ task' = [task EXCEPT ![t].due = "due"]
    /\ UNCHANGED <<edit, enabled, health, sender, made, sendFaults, mail, refused, muddled>>

-----------------------------------------------------------------------------
(* Requests that send *)

Starts(p, todo) ==
    /\ sender[p].at = "idle" /\ made < MaxSends
    /\ made' = made + 1
    /\ sender' = [sender EXCEPT ![p] = [Unemployed EXCEPT !.at = "next", !.todo = todo]]
    /\ UNCHANGED <<task, edit, enabled, health, sendFaults, mail, refused>>

\* Mutant: the query does not leave out what was delivered.
DueTasksAgain(channels) ==
    {t \in Tasks : task[t].status = "open" /\ task[t].due = "due" /\ task[t].channel \in channels}

DueTasks(channels) ==
    {t \in Tasks : /\ task[t].status = "open" /\ task[t].due = "due" /\ ~task[t].delivered
                   /\ task[t].channel \in channels}

\* One query finds the due tasks, for Telegram only or for every channel; the rest works from
\* what it returned.
Dispatch(d) ==
    /\ \E channels \in {{"telegram"}, Channels \cup {"other"}}, todo \in SUBSET Tasks :
          /\ todo \subseteq DueTasks(channels)
          /\ Cardinality(todo) <= MaxDue
          /\ Cardinality(todo) = MaxDue \/ todo = DueTasks(channels)
          /\ Starts(d, todo)
    /\ muddled' = (muddled \/ \E p \in Dispatchers : sender[p].at # "idle")

\* An important update of the heartbeat or of a job, for each outbound channel that is enabled.
Announce ==
    /\ Starts("notice", {c \in Outbound : enabled[c]})
    /\ UNCHANGED muddled

\* A test message does not ask whether the channel is enabled.
SendTest ==
    /\ \E c \in Channels : Starts("test", {c})
    /\ UNCHANGED muddled

\* The next item. A task whose channel nothing supports gets its error at once.
TakeItem(p) ==
    /\ sender[p].at = "next" /\ sender[p].todo # {}
    /\ \E item \in sender[p].todo :
          IF ChannelOf(item) = "other"
          THEN /\ task' = [task EXCEPT ![item].error = TRUE]
               /\ sender' = [sender EXCEPT ![p].todo = @ \ {item}]
          ELSE /\ sender' = [sender EXCEPT ![p].at = "send", ![p].item = item]
               /\ UNCHANGED task
    /\ UNCHANGED <<edit, enabled, health, made, sendFaults, mail, refused, muddled>>

Finished(p) ==
    /\ sender[p].at = "next" /\ sender[p].todo = {}
    /\ sender' = [sender EXCEPT ![p] = Unemployed]
    /\ UNCHANGED <<task, edit, enabled, health, made, sendFaults, mail, refused, muddled>>

GoesOut(item) == IF item \in Tasks THEN mail' = [mail EXCEPT ![item] = @ + 1] ELSE UNCHANGED mail

\* Telegram: a channel that is disabled, or has no token or chat, is an error for a test
\* message only.
SendByTelegram(p) ==
    LET item == sender[p].item
        goOn == sender' = [sender EXCEPT ![p].at = "mark", ![p].ok = TRUE]
    IN  /\ sender[p].at = "send" /\ ChannelOf(item) = "telegram"
        /\ \/ /\ enabled["telegram"] \/ item \notin Tasks
              /\ "telegram" \in Configured
              /\ GoesOut(item) /\ goOn
              /\ UNCHANGED refused
           \/ /\ item \in Tasks /\ (enabled["telegram"] => "telegram" \notin Configured)
              /\ refused' = refused \cup {item} /\ goOn
              /\ UNCHANGED mail
           \/ /\ item \notin Tasks /\ "telegram" \notin Configured
              /\ sender' = [sender EXCEPT ![p].at = "note"]
              /\ UNCHANGED <<mail, refused>>
        /\ UNCHANGED <<task, edit, enabled, health, made, sendFaults, muddled>>

\* An outbound channel: the credentials and the recipient are checked before anything is
\* sent, and then the row is told how the send went.
SendOutbound(p) ==
    LET item == sender[p].item
    IN  /\ sender[p].at = "send" /\ ChannelOf(item) \in Outbound
        /\ IF ChannelOf(item) \in Configured
           THEN /\ GoesOut(item)
                /\ sender' = [sender EXCEPT ![p].at = "status", ![p].ok = TRUE]
           ELSE /\ sender' = [sender EXCEPT ![p].at = "note", ![p].ok = FALSE]
                /\ UNCHANGED mail
        /\ UNCHANGED <<task, edit, enabled, health, made, sendFaults, refused, muddled>>

\* The service fails: no message.
SendThrows(p) ==
    /\ sender[p].at = "send" /\ sendFaults < MaxSendFaults
    /\ sendFaults' = sendFaults + 1
    /\ sender' = [sender EXCEPT ![p].at = IF ChannelOf(sender[p].item) \in Outbound THEN "status" ELSE "note",
                                ![p].ok = FALSE]
    /\ UNCHANGED <<task, edit, enabled, health, made, mail, refused, muddled>>

\* Mutant: a failed send is recorded under a name the column does not have.
RecordStatusFailed(p) ==
    /\ sender[p].at = "status"
    /\ health' = [health EXCEPT ![ChannelOf(sender[p].item)] = IF sender[p].ok THEN "ok" ELSE "failed"]
    /\ sender' = [sender EXCEPT ![p].at = IF sender[p].ok THEN "mark" ELSE "note"]
    /\ UNCHANGED <<task, edit, enabled, made, sendFaults, mail, refused, muddled>>

\* handleSendResult: the row's health after the send.
RecordStatus(p) ==
    /\ sender[p].at = "status"
    /\ health' = [health EXCEPT ![ChannelOf(sender[p].item)] = IF sender[p].ok THEN "ok" ELSE "degraded"]
    /\ sender' = [sender EXCEPT ![p].at = IF sender[p].ok THEN "mark" ELSE "note"]
    /\ UNCHANGED <<task, edit, enabled, made, sendFaults, mail, refused, muddled>>

\* A write of "ok" that throws is caught like a failed send, though the message is out.
StatusThrows(p) ==
    /\ sender[p].at = "status" /\ sender[p].ok /\ sendFaults < MaxSendFaults
    /\ sendFaults' = sendFaults + 1
    /\ muddled' = TRUE
    /\ sender' = [sender EXCEPT ![p].ok = FALSE]
    /\ UNCHANGED <<task, edit, enabled, health, made, mail, refused>>

\* The item of p is done; on to the next.
GoOn(p) == sender' = [sender EXCEPT ![p] = [at |-> "next", todo |-> @.todo \ {@.item}, item |-> "none", ok |-> FALSE]]

\* The reminder is marked. For an update or a test the item is done.
MarkDelivered(p) ==
    LET item == sender[p].item
    IN  /\ sender[p].at = "mark"
        /\ IF item \in Tasks
           THEN /\ task' = [task EXCEPT ![item].delivered = TRUE, ![item].error = FALSE]
                /\ sender' = [sender EXCEPT ![p].at = "trace"]
           ELSE GoOn(p) /\ UNCHANGED task
        /\ UNCHANGED <<edit, enabled, health, made, sendFaults, mail, refused, muddled>>

TraceDelivery(p) ==
    /\ sender[p].at = "trace"
    /\ GoOn(p)
    /\ UNCHANGED <<task, edit, enabled, health, made, sendFaults, mail, refused, muddled>>

\* Marking or tracing throws: the catch notes an error, of a reminder that is out.
MarkThrows(p) ==
    /\ sender[p].at \in {"mark", "trace"} /\ sendFaults < MaxSendFaults
    /\ sendFaults' = sendFaults + 1
    /\ muddled' = TRUE
    /\ sender' = [sender EXCEPT ![p].at = "note"]
    /\ UNCHANGED <<task, edit, enabled, health, made, mail, refused>>

\* The catch of a reminder writes the error to the task, that of an update only lists it.
\* Either goes on to the next item; a test message answers with the error.
NoteError(p) ==
    LET item == sender[p].item
    IN  /\ sender[p].at = "note"
        /\ task' = IF item \in Tasks THEN [task EXCEPT ![item].error = TRUE] ELSE task
        /\ GoOn(p)
        /\ UNCHANGED <<edit, enabled, health, made, sendFaults, mail, refused, muddled>>

\* A throw that no catch of the loop covers, or a restart, ends a process with its work undone.
Abandon(p) ==
    /\ sender[p].at # "idle" /\ sendFaults < MaxSendFaults
    /\ sendFaults' = sendFaults + 1
    /\ muddled' = TRUE
    /\ sender' = [sender EXCEPT ![p] = Unemployed]
    /\ UNCHANGED <<task, edit, enabled, health, made, mail, refused>>

\* Settings of a channel. The console always sends `enabled`.
SetEnabled(c) ==
    /\ made < MaxSends /\ made' = made + 1
    /\ enabled' = [enabled EXCEPT ![c] = ~@]
    /\ UNCHANGED <<task, edit, health, sender, sendFaults, mail, refused, muddled>>

SendStep(p) == TakeItem(p) \/ Finished(p) \/ SendByTelegram(p) \/ SendOutbound(p) \/ RecordStatus(p)
               \/ MarkDelivered(p) \/ TraceDelivery(p) \/ NoteError(p)

RemindersNext ==
    \/ \E t \in Tasks : CreateTask(t) \/ TimePasses(t)
    \/ \E e \in Editors : FindTask(e) \/ UpdateTask(e)
    \/ \E d \in Dispatchers : Dispatch(d)
    \/ Announce \/ SendTest
    \/ \E p \in Senders : SendStep(p) \/ SendThrows(p) \/ StatusThrows(p) \/ MarkThrows(p) \/ Abandon(p)
    \/ \E c \in Channels : SetEnabled(c)

RemindersSpec == RemindersInit /\ [][RemindersNext]_reminderVars

-----------------------------------------------------------------------------
(* Properties *)

\* Every field is of its kind.
RemindersTypeOK ==
    /\ task \in [Tasks -> Task]
    /\ edit \in [Editors -> Edit]
    /\ enabled \in [Channels -> BOOLEAN]
    /\ health \in [Outbound -> {"ok", "degraded", "not_configured"}]
    /\ sender \in [Senders -> Sender]
    /\ made \in 0 .. MaxSends /\ sendFaults \in 0 .. MaxSendFaults
    /\ mail \in [Tasks -> Nat]
    /\ refused \subseteq Tasks
    /\ muddled \in BOOLEAN

\* A task says delivered only of a reminder that went out, or that Telegram was not to be
\* given. Dispatches that do not overlap, with nothing failing, remind once and leave no error
\* on what they delivered, whatever is edited or sent meanwhile.
RemindersHonest ==
    \A t \in Tasks :
        /\ task[t].delivered => mail[t] > 0 \/ t \in refused
        /\ ~muddled => mail[t] <= 1 /\ ~(task[t].delivered /\ task[t].error)

\* What task_update answers, "I updated ... and set its reminder to ...": a reminder that is
\* set for later on an open task is still to come.
ReminderAhead ==
    \A t \in Tasks : task[t].status = "open" /\ task[t].due = "later" => ~task[t].delivered

=============================================================================
