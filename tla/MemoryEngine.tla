----------------------------- MODULE MemoryEngine -----------------------------
(***************************************************************************)
(* What the secretary remembers: the job that follows a turn and extracts  *)
(* memories and a task from its message, the queue that runs such jobs one *)
(* at a time and once more after a crash, the edits and retrievals of      *)
(* memories, and the reset that empties the tables under all of them.      *)
(***************************************************************************)
EXTENDS Integers, FiniteSets

CONSTANTS
    Messages,       \* messages people write, each with one memory job
    Facts,          \* canonical keys the extractors find
    MaxEntries,     \* bound: ids of memory entries
    Curators,       \* edits of memories and tasks that may be under way at once
    RecallLimit,    \* how many memories a turn is given
    MaxEdits,       \* bound: edits, retrievals and resets
    MaxMemoryFaults \* bound: throws (the catch may throw after), deaths of the worker

ASSUME MemoryAssumption ==
    /\ IsFiniteSet(Messages) /\ IsFiniteSet(Facts)
    /\ MaxEntries \in Nat /\ RecallLimit \in Nat
    /\ MaxEdits \in Nat /\ MaxMemoryFaults \in Nat
    /\ 0 \notin Facts /\ "none" \notin Facts /\ "none" \notin Messages

VARIABLES
    said,           \* the messages written, and what the extractors find in each
    job,            \* status of each message's row of jobs
    queue,          \* jobs waiting in the queue
    stalls,         \* how often a job's worker died
    entry,          \* rows of memory_entries
    links,          \* rows of memory_links, from entries to messages
    openTasks,      \* number of open tasks with the one title the messages name
    specialist,     \* the queue's worker
    curator,        \* what each edit, retrieval or reset is about to do
    edits,          \* number of edits so far
    memoryFaults,   \* number of faults so far
    lost,           \* history: messages whose job the catch could not mark failed
    erased,         \* history: messages a reset has deleted
    hidden,         \* history: entries an edit suppressed last
    crossed         \* history: edits overlapped, a reset met a job, or the worker failed

memoryVars == <<said, job, queue, stalls, entry, links, openTasks, specialist, curator,
                edits, memoryFaults, lost, erased, hidden, crossed>>

-----------------------------------------------------------------------------
(* Records *)

\* What the extractors find: facts, a "remind me to", and how important ("remember").
Content == [facts : SUBSET Facts, task : BOOLEAN, score : 1 .. 2]
Silence == [facts |-> {}, task |-> FALSE, score |-> 1]

Entries == 1 .. MaxEntries
Entry == [key : Facts \cup {"none"}, score : 0 .. 2, pinned : BOOLEAN, suppressed : BOOLEAN,
          recalled : BOOLEAN]
NoEntry == [key |-> "none", score |-> 0, pinned |-> FALSE, suppressed |-> FALSE, recalled |-> FALSE]
Live(e) == entry[e].key # "none"

JobStatus == {"none", "queued", "processing", "completed", "failed"}

\* The worker at a job: the facts still to be written, the entries it found before it began to
\* write (0 for none) with their scores, and the entry it wrote last.
Specialist == [at : {"idle", "extract", "write", "link", "task", "create", "finish", "caught"},
               message : Messages \cup {"none"}, todo : SUBSET Facts,
               found : [Facts -> 0 .. MaxEntries], scores : [Facts -> 0 .. 2], last : 0 .. MaxEntries]
AtRest == [at |-> "idle", message |-> "none", todo |-> {}, found |-> [f \in Facts |-> 0],
           scores |-> [f \in Facts |-> 0], last |-> 0]

\* An edit holds the entry it read; a retrieval the entries it selected.
Curator == [at : {"idle", "enqueue", "edit", "touch", "add", "flush", "truncate"},
            message : Messages \cup {"none"}, entries : SUBSET Entries, read : Entry]
Away == [at |-> "idle", message |-> "none", entries |-> {}, read |-> NoEntry]

MemoryInit ==
    /\ said = [m \in Messages |-> Silence]
    /\ job = [m \in Messages |-> "none"]
    /\ queue = {} /\ stalls = [m \in Messages |-> 0]
    /\ entry = [e \in Entries |-> NoEntry]
    /\ links = {} /\ openTasks = 0
    /\ specialist = AtRest
    /\ curator = [c \in Curators |-> Away]
    /\ edits = 0 /\ memoryFaults = 0
    /\ lost = {} /\ erased = {} /\ hidden = {} /\ crossed = FALSE

\* Another edit has read and not yet written.
Editing == \E c \in Curators : curator[c].at \notin {"idle", "enqueue", "touch"}

-----------------------------------------------------------------------------
(* Turns: enqueueTurnMemoryFollowup, retrieveRelevantMemories *)

Asks(c) == curator[c].at = "idle" /\ edits < MaxEdits /\ edits' = edits + 1

\* A turn is persisted with its message, and the row of its memory job.
Say(c, m) ==
    /\ Asks(c) /\ job[m] = "none" /\ m \notin erased
    /\ \E content \in Content : content # Silence /\ said' = [said EXCEPT ![m] = content]
    /\ job' = [job EXCEPT ![m] = "queued"]
    /\ curator' = [curator EXCEPT ![c] = [Away EXCEPT !.at = "enqueue", !.message = m]]
    /\ UNCHANGED <<queue, stalls, entry, links, openTasks, specialist, memoryFaults, lost, erased, hidden, crossed>>

\* The job is enqueued, and marked failed when the queue refuses - unless that throws, too.
Enqueue(c) ==
    LET m == curator[c].message
    IN  /\ curator[c].at = "enqueue"
        /\ \/ queue' = queue \cup {m} /\ UNCHANGED <<job, memoryFaults, lost>>
           \/ /\ memoryFaults < MaxMemoryFaults /\ memoryFaults' = memoryFaults + 1
              /\ job' = IF m \in erased THEN job ELSE [job EXCEPT ![m] = "failed"]
              /\ UNCHANGED <<queue, lost>>
           \/ /\ memoryFaults < MaxMemoryFaults /\ memoryFaults' = memoryFaults + 1
              /\ lost' = lost \cup {m}
              /\ UNCHANGED <<queue, job>>
        /\ curator' = [curator EXCEPT ![c] = Away]
        /\ UNCHANGED <<said, stalls, entry, links, openTasks, specialist, edits, erased, hidden, crossed>>

\* Entries that have a fact of the query and are not suppressed, the best ones up to the limit:
\* pinned before the others, those recalled a moment ago last.
Rank(e) == (IF entry[e].pinned THEN 10 ELSE 0) + 2 * entry[e].score - (IF entry[e].recalled THEN 3 ELSE 0)

Recall(c) ==
    /\ Asks(c)
    /\ \E query \in SUBSET Facts, chosen \in SUBSET Entries :
          LET matching == {e \in Entries : Live(e) /\ ~entry[e].suppressed /\ entry[e].key \in query}
          IN  /\ chosen \subseteq matching
              /\ Cardinality(chosen) <= RecallLimit
              /\ Cardinality(chosen) = RecallLimit \/ chosen = matching
              /\ \A e \in chosen, f \in matching \ chosen : Rank(e) >= Rank(f)
              /\ chosen # {}
              /\ curator' = [curator EXCEPT ![c] = [Away EXCEPT !.at = "touch", !.entries = chosen]]
    /\ UNCHANGED <<said, job, queue, stalls, entry, links, openTasks, specialist, memoryFaults, lost, erased, hidden, crossed>>

\* What was selected is marked as recalled.
Touch(c) ==
    /\ curator[c].at = "touch"
    /\ entry' = [e \in Entries |-> IF e \in curator[c].entries /\ Live(e)
                                   THEN [entry[e] EXCEPT !.recalled = TRUE] ELSE entry[e]]
    /\ curator' = [curator EXCEPT ![c] = Away]
    /\ UNCHANGED <<said, job, queue, stalls, links, openTasks, specialist, edits, memoryFaults, lost, erased, hidden, crossed>>

-----------------------------------------------------------------------------
(* Edits: updateMemory, executeMemoryWrite, the task tools *)

\* The console writes the fields of the patch and no others.
PatchMemory(c, e) ==
    /\ Asks(c) /\ Live(e)
    /\ \/ /\ entry' = [entry EXCEPT ![e].pinned = ~@]
          /\ UNCHANGED hidden
       \/ /\ entry' = [entry EXCEPT ![e].suppressed = ~@]
          /\ hidden' = IF e \in hidden THEN hidden \ {e} ELSE hidden \cup {e}
    /\ crossed' = (crossed \/ Editing)
    /\ UNCHANGED <<said, job, queue, stalls, links, openTasks, specialist, curator, memoryFaults, lost, erased>>

\* The memory_write tool finds the entry ...
FindMemory(c) ==
    /\ Asks(c)
    /\ \E e \in Entries :
          /\ Live(e)
          /\ curator' = [curator EXCEPT ![c] = [Away EXCEPT !.at = "edit", !.entries = {e}, !.read = entry[e]]]
    /\ crossed' = (crossed \/ Editing)
    /\ UNCHANGED <<said, job, queue, stalls, entry, links, openTasks, specialist, memoryFaults, lost, erased, hidden>>

\* ... and writes both flags, the one it does not change as it was read.
WriteMemory(c) ==
    /\ curator[c].at = "edit"
    /\ \E e \in curator[c].entries, operation \in {"pin", "suppress", "unsuppress"} :
          LET pinned == operation = "pin" \/ curator[c].read.pinned
              suppressed == IF operation = "pin" THEN curator[c].read.suppressed ELSE operation = "suppress"
          IN  /\ entry' = IF Live(e) THEN [entry EXCEPT ![e].pinned = pinned, ![e].suppressed = suppressed]
                          ELSE entry
              /\ hidden' = CASE operation = "pin" -> hidden
                             [] operation = "suppress" /\ Live(e) -> hidden \cup {e}
                             [] OTHER -> hidden \ {e}
    /\ curator' = [curator EXCEPT ![c] = Away]
    /\ UNCHANGED <<said, job, queue, stalls, links, openTasks, specialist, edits, memoryFaults, lost, erased, crossed>>

\* task_create looks for an open task of the title, then inserts one.
LookForTask(c) ==
    /\ Asks(c) /\ openTasks = 0
    /\ curator' = [curator EXCEPT ![c] = [Away EXCEPT !.at = "add"]]
    /\ crossed' = (crossed \/ Editing \/ specialist.at = "create")
    /\ UNCHANGED <<said, job, queue, stalls, entry, links, openTasks, specialist, memoryFaults, lost, erased, hidden>>

AddTask(c) ==
    /\ curator[c].at = "add"
    /\ openTasks' = openTasks + 1
    /\ curator' = [curator EXCEPT ![c] = Away]
    /\ UNCHANGED <<said, job, queue, stalls, entry, links, specialist, edits, memoryFaults, lost, erased, hidden, crossed>>

CloseTask(c) ==
    /\ Asks(c) /\ openTasks > 0
    /\ openTasks' = openTasks - 1
    /\ UNCHANGED <<said, job, queue, stalls, entry, links, specialist, curator, memoryFaults, lost, erased, hidden, crossed>>

-----------------------------------------------------------------------------
(* The worker of the queue: processMemoryCandidateJob *)

\* The worker takes a job and marks its row, if it is still there.
TakeJob ==
    /\ specialist.at = "idle"
    /\ \E m \in queue :
          /\ queue' = queue \ {m}
          /\ job' = IF m \in erased THEN job ELSE [job EXCEPT ![m] = "processing"]
          /\ specialist' = [AtRest EXCEPT !.at = IF m \in erased THEN "caught" ELSE "extract", !.message = m]
    /\ UNCHANGED <<said, stalls, entry, links, openTasks, curator, edits, memoryFaults, lost, erased, hidden, crossed>>

\* The extractors and the model find the facts; one query finds the entries that have them.
Known(f) == \E e \in Entries : entry[e].key = f
EntryOf(f) == CHOOSE e \in Entries : entry[e].key = f

\* Mutant: suppressed entries are not found, like in a retrieval.
LookUpUnsuppressed ==
    /\ specialist.at = "extract"
    /\ LET facts == said[specialist.message].facts
           known == {f \in facts : Known(f) /\ ~entry[EntryOf(f)].suppressed}
       IN  specialist' = [specialist EXCEPT
             !.at = IF facts = {} THEN "task" ELSE "write",
             !.todo = facts,
             !.found = [f \in Facts |-> IF f \in known THEN EntryOf(f) ELSE 0],
             !.scores = [f \in Facts |-> IF f \in known THEN entry[EntryOf(f)].score ELSE 0]]
    /\ UNCHANGED <<said, job, queue, stalls, entry, links, openTasks, curator, edits, memoryFaults, lost, erased, hidden, crossed>>

LookUp ==
    /\ specialist.at = "extract"
    /\ LET facts == said[specialist.message].facts
       IN  specialist' = [specialist EXCEPT
             !.at = IF facts = {} THEN "task" ELSE "write",
             !.todo = facts,
             !.found = [f \in Facts |-> IF f \in facts /\ Known(f) THEN EntryOf(f) ELSE 0],
             !.scores = [f \in Facts |-> IF f \in facts /\ Known(f) THEN entry[EntryOf(f)].score ELSE 0]]
    /\ UNCHANGED <<said, job, queue, stalls, entry, links, openTasks, curator, edits, memoryFaults, lost, erased, hidden, crossed>>

Fresh == CHOOSE e \in Entries : ~Live(e)
HigherOf(a, b) == IF a >= b THEN a ELSE b

\* Mutant: a fact that is said again is no longer suppressed.
WriteEntryRevives ==
    /\ specialist.at = "write"
    /\ \E f \in specialist.todo :
          LET known == specialist.found[f]
              score == said[specialist.message].score
              e == IF known = 0 THEN Fresh ELSE known
          IN  /\ known = 0 => \E free \in Entries : ~Live(free)
              /\ entry' = IF known = 0 \/ Live(e)
                          THEN [entry EXCEPT ![e] = [NoEntry EXCEPT !.key = f, !.pinned = entry[e].pinned,
                                                        !.score = HigherOf(specialist.scores[f], score)]]
                          ELSE entry
              /\ specialist' = [specialist EXCEPT !.at = "link", !.todo = @ \ {f}, !.last = e]
    /\ UNCHANGED <<said, job, queue, stalls, links, openTasks, curator, edits, memoryFaults, lost, erased, hidden, crossed>>

\* A fact is written over the entry that was found, or into a new one. Its flags stay.
WriteEntry ==
    /\ specialist.at = "write"
    /\ \E f \in specialist.todo :
          LET known == specialist.found[f]
              score == said[specialist.message].score
          IN  IF known # 0
              THEN /\ entry' = IF Live(known)
                               THEN [entry EXCEPT ![known].score = HigherOf(specialist.scores[f], score)]
                               ELSE entry
                   /\ specialist' = [specialist EXCEPT !.at = "link", !.todo = @ \ {f}, !.last = known]
              ELSE /\ \E e \in Entries : ~Live(e)
                   /\ entry' = [entry EXCEPT ![Fresh] = [NoEntry EXCEPT !.key = f, !.score = score]]
                   /\ specialist' = [specialist EXCEPT !.at = "link", !.todo = @ \ {f}, !.last = Fresh]
    /\ UNCHANGED <<said, job, queue, stalls, links, openTasks, curator, edits, memoryFaults, lost, erased, hidden, crossed>>

\* Mutant: only a new entry is linked to the message.
LinkEntryIfNew ==
    LET m == specialist.message
        isNew == \A f \in Facts : specialist.found[f] # specialist.last
    IN  /\ specialist.at = "link"
        /\ links' = IF Live(specialist.last) /\ isNew THEN links \cup {<<specialist.last, m>>} ELSE links
        /\ specialist' = [specialist EXCEPT !.at = IF m \in erased \/ ~Live(specialist.last) THEN "caught"
                                                   ELSE IF specialist.todo # {} THEN "write" ELSE "task"]
        /\ UNCHANGED <<said, job, queue, stalls, entry, openTasks, curator, edits, memoryFaults, lost, erased, hidden, crossed>>

\* The entry is linked to the message, once, and a trace names the job: both need the rows
\* they refer to.
LinkEntry ==
    LET m == specialist.message
    IN  /\ specialist.at = "link"
        /\ links' = IF Live(specialist.last) THEN links \cup {<<specialist.last, m>>} ELSE links
        /\ specialist' = [specialist EXCEPT !.at = IF m \in erased \/ ~Live(specialist.last) THEN "caught"
                                                   ELSE IF specialist.todo # {} THEN "write" ELSE "task"]
        /\ UNCHANGED <<said, job, queue, stalls, entry, openTasks, curator, edits, memoryFaults, lost, erased, hidden, crossed>>

\* "Remind me to": an open task of that title is reused.
FindOpenTask ==
    LET creates == said[specialist.message].task /\ openTasks = 0
    IN  /\ specialist.at = "task"
        /\ specialist' = [specialist EXCEPT !.at = IF creates THEN "create" ELSE "finish"]
        /\ crossed' = (crossed \/ (creates /\ \E c \in Curators : curator[c].at = "add"))
        /\ UNCHANGED <<said, job, queue, stalls, entry, links, openTasks, curator, edits, memoryFaults, lost, erased, hidden>>

\* The task refers to the conversation, which has to be there.
CreateTaskRow ==
    /\ specialist.at = "create"
    /\ IF specialist.message \in erased
       THEN /\ specialist' = [specialist EXCEPT !.at = "caught"]
            /\ UNCHANGED openTasks
       ELSE /\ specialist' = [specialist EXCEPT !.at = "finish"]
            /\ openTasks' = openTasks + 1
    /\ UNCHANGED <<said, job, queue, stalls, entry, links, curator, edits, memoryFaults, lost, erased, hidden, crossed>>

SetJob(status) ==
    job' = IF specialist.message \in erased THEN job ELSE [job EXCEPT ![specialist.message] = status]

FinishJob ==
    /\ specialist.at = "finish"
    /\ SetJob("completed")
    /\ specialist' = AtRest
    /\ UNCHANGED <<said, queue, stalls, entry, links, openTasks, curator, edits, memoryFaults, lost, erased, hidden, crossed>>

\* A call of the job throws ...
JobThrows ==
    /\ specialist.at \notin {"idle", "caught"} /\ memoryFaults < MaxMemoryFaults
    /\ memoryFaults' = memoryFaults + 1
    /\ specialist' = [specialist EXCEPT !.at = "caught"]
    /\ UNCHANGED <<said, job, queue, stalls, entry, links, openTasks, curator, edits, lost, erased, hidden, crossed>>

\* Mutant: the catch leaves the row of the job as it is.
MarkJobFailedNot ==
    /\ specialist.at = "caught"
    /\ specialist' = AtRest
    /\ UNCHANGED <<said, job, queue, stalls, entry, links, openTasks, curator, edits, memoryFaults, lost, erased, hidden, crossed>>

\* ... and the catch marks it failed, unless that throws, too. The queue does not try it again.
MarkJobFailed ==
    /\ specialist.at = "caught"
    /\ \/ SetJob("failed") /\ UNCHANGED lost
       \/ lost' = lost \cup {specialist.message} /\ UNCHANGED job
    /\ specialist' = AtRest
    /\ UNCHANGED <<said, queue, stalls, entry, links, openTasks, curator, edits, memoryFaults, erased, hidden, crossed>>

\* The worker dies, and requests with it. The queue hands a job out again once.
WorkerDies ==
    /\ memoryFaults < MaxMemoryFaults
    /\ memoryFaults' = memoryFaults + 1 /\ crossed' = TRUE
    /\ LET m == specialist.message
       IN  IF m # "none" /\ stalls[m] = 0
           THEN queue' = queue \cup {m} /\ stalls' = [stalls EXCEPT ![m] = 1]
           ELSE UNCHANGED <<queue, stalls>>
    /\ specialist' = AtRest
    /\ curator' = [c \in Curators |-> Away]
    /\ UNCHANGED <<said, job, entry, links, openTasks, edits, lost, erased, hidden>>

-----------------------------------------------------------------------------
(* resetSecretaryState *)

Reset(c) ==
    /\ Asks(c)
    /\ curator' = [curator EXCEPT ![c] = [Away EXCEPT !.at = "flush"]]
    /\ crossed' = (crossed \/ \E d \in Curators : curator[d].at # "idle")
    /\ UNCHANGED <<said, job, queue, stalls, entry, links, openTasks, specialist, memoryFaults, lost, erased, hidden>>

\* The waiting jobs of the queue go, not the one the worker has.
FlushQueue(c) ==
    /\ curator[c].at = "flush"
    /\ queue' = {}
    /\ curator' = [curator EXCEPT ![c].at = "truncate"]
    /\ UNCHANGED <<said, job, stalls, entry, links, openTasks, specialist, edits, memoryFaults, lost, erased, hidden, crossed>>

\* One statement empties every table.
Truncate(c) ==
    /\ curator[c].at = "truncate"
    /\ entry' = [e \in Entries |-> NoEntry]
    /\ links' = {} /\ openTasks' = 0
    /\ erased' = erased \cup {m \in Messages : job[m] # "none"}
    /\ job' = [m \in Messages |-> "none"]
    /\ hidden' = {}
    /\ crossed' = (crossed \/ specialist.at # "idle" \/ queue # {} \/ \E d \in Curators \ {c} : curator[d].at # "idle")
    /\ curator' = [curator EXCEPT ![c] = Away]
    /\ UNCHANGED <<said, queue, stalls, specialist, edits, memoryFaults, lost>>

Extract == TakeJob \/ LookUp \/ WriteEntry \/ LinkEntry \/ FindOpenTask \/ CreateTaskRow \/ FinishJob \/ MarkJobFailed

MemoryNext ==
    \/ \E c \in Curators :
          \/ \E m \in Messages : Say(c, m)
          \/ \E e \in Entries : PatchMemory(c, e)
          \/ Enqueue(c) \/ Recall(c) \/ Touch(c) \/ FindMemory(c) \/ WriteMemory(c)
          \/ LookForTask(c) \/ AddTask(c) \/ CloseTask(c)
          \/ Reset(c) \/ FlushQueue(c) \/ Truncate(c)
    \/ Extract \/ JobThrows \/ WorkerDies

\* The worker works off its queue, and a request that has begun goes on.
Continue(c) == Enqueue(c) \/ FlushQueue(c) \/ Truncate(c)

MemorySpec ==
    /\ MemoryInit /\ [][MemoryNext]_memoryVars
    /\ WF_memoryVars(Extract)
    /\ \A c \in Curators : WF_memoryVars(Continue(c))

-----------------------------------------------------------------------------
(* Properties *)

\* Every field is of its kind.
MemoryTypeOK ==
    /\ said \in [Messages -> Content]
    /\ job \in [Messages -> JobStatus]
    /\ queue \subseteq Messages
    /\ stalls \in [Messages -> 0 .. 1]
    /\ entry \in [Entries -> Entry]
    /\ links \subseteq Entries \X Messages
    /\ openTasks \in Nat
    /\ specialist \in Specialist
    /\ curator \in [Curators -> Curator]
    /\ edits \in 0 .. MaxEdits /\ memoryFaults \in 0 .. MaxMemoryFaults
    /\ lost \subseteq Messages /\ erased \subseteq Messages /\ hidden \subseteq Entries /\ crossed \in BOOLEAN

\* A fact has one entry, however often it is said, though nothing in the database keeps keys
\* unique: across crashes, redeliveries, edits and resets.
OneEntryPerFact ==
    \A e, f \in Entries : Live(e) /\ entry[e].key = entry[f].key => e = f

\* A job that reads completed has left an entry for every fact of its message, linked to it.
CompletedIsRemembered ==
    \A m \in Messages : job[m] = "completed" =>
        \A f \in said[m].facts : \E e \in Entries : entry[e].key = f /\ <<e, m>> \in links

\* Unless edits overlap, a reset meets a job under way, or the worker dies: an entry is
\* suppressed exactly when the last edit of it said so, whatever is said again meanwhile;
\* one task of a title is open; and a reset leaves no memory of what it deleted.
MemoryInOrder ==
    ~crossed => /\ \A e \in Entries : entry[e].suppressed <=> e \in hidden
                /\ openTasks <= 1
                /\ \A link \in links : link[2] \notin erased

\* Without a death of the worker or a reset under way, each job ends: time and again (there are
\* MaxEdits messages at most) none is left queued or processing, but one that broke off twice,
\* the second time when the catch was about to mark it.
JobsEnd ==
    [](~crossed) => []<>(\A m \in Messages \ lost : job[m] \notin {"queued", "processing"})

=============================================================================
