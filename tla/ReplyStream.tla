----------------------------- MODULE ReplyStream -----------------------------
(***************************************************************************)
(* The model's reply to a turn: streamed to the browser through a guard    *)
(* that holds back the first words and replaces a reply that quotes the    *)
(* persona's notes, or asked for as a whole with one retry; and what of it *)
(* is stored when it has ended.                                            *)
(***************************************************************************)
EXTENDS Naturals, Sequences, FiniteSets

CONSTANTS
    HeldDeltas,     \* deltas the guard holds back: 240 characters
    ScannedDeltas,  \* deltas the guard looks back on: 4000 characters
    MaxDeltas,      \* bound: deltas of a reply
    MaxSections     \* bound: sections of a reply

ASSUME ReplyAssumption ==
    /\ HeldDeltas \in Nat \ {0} /\ ScannedDeltas \in Nat /\ HeldDeltas <= ScannedDeltas
    /\ MaxDeltas \in Nat /\ MaxSections \in Nat

VARIABLES
    way,        \* whether the reply is streamed or asked for as a whole
    resolved,   \* is there a model to ask
    progress,   \* how far the reply is
    attempt,    \* whole: the attempt under way
    open,       \* emittedTextStartId and emittedReasoningStartId: the sections open
    scanned,    \* scannedText
    held,       \* bufferedDeltas
    holding,    \* bufferMode
    guard,      \* guardState, and whether the mode was told with the end of the reply
    sent,       \* the parts the browser has been sent
    made,       \* deltas and sections so far
    storedReply \* the assistant's message in the conversation

replyVars == <<way, resolved, progress, attempt, open, scanned, held, holding, guard, sent, made, storedReply>>

Sections == {"text", "reasoning"}
\* What a delta says: two of the signals of the notes, a list, or anything else; or the reply
\* that needs no model.
Words == {"plain", "heading", "rule", "list"}
Fallback == "fallback"
StartOf(k) == [is |-> "start", of |-> k, says |-> "nothing"]
EndOf(k) == [is |-> "end", of |-> k, says |-> "nothing"]
Delta(k, w) == [is |-> "delta", of |-> k, says |-> w]
Sign(what) == [is |-> what, of |-> "reply", says |-> "nothing"]
StreamParts == [is : {"start", "end", "delta", "error", "finish-step", "finish"},
          of : Sections \cup {"reply"}, says : Words \cup {Fallback, "nothing"}]
ReplyModes == {"model", "fallback"}
NothingStored == [mode |-> "none", says |-> {}]

\* looksLikePromptLeakage: two signals, or one among lists or headings.
Leaking(found) ==
    \/ {"heading", "rule"} \subseteq found
    \/ "list" \in found /\ found \cap {"heading", "rule"} # {}

Leaks(words) == Leaking({words[i] : i \in DOMAIN words})

LastWords(words, n) ==
    SubSeq(words, IF Len(words) > n THEN Len(words) - n + 1 ELSE 1, Len(words))

ReplyInit ==
    /\ way \in {"stream", "whole"} /\ resolved \in BOOLEAN
    /\ progress = "prepared" /\ attempt = 1
    /\ open = {} /\ scanned = <<>> /\ held = <<>> /\ holding = TRUE
    /\ guard = [mode |-> "model", leak |-> FALSE, told |-> "none"]
    /\ sent = <<>> /\ made = [deltas |-> 0, sections |-> 0]
    /\ storedReply = NothingStored

-----------------------------------------------------------------------------
(* Streamed *)

PlanStream ==
    /\ way = "stream" /\ progress = "prepared" /\ resolved
    /\ progress' = "streaming"
    /\ UNCHANGED <<way, resolved, attempt, open, scanned, held, holding, guard, sent, made, storedReply>>

FallbackParts == <<StartOf("text"), Delta("text", Fallback), EndOf("text")>>

\* No model, or one that cannot be asked: the reply is written without, its mode told before it.
PlanFallback ==
    /\ way = "stream" /\ progress = "prepared"
    /\ guard' = [guard EXCEPT !.mode = "fallback", !.told = "fallback"]
    /\ sent' = FallbackParts
    /\ progress' = "over"
    /\ UNCHANGED <<way, resolved, attempt, open, scanned, held, holding, made, storedReply>>

\* What the model's stream has left to say reaches nobody once the guard has cut it off.
Streams == progress \in {"streaming", "broken", "finishing"} /\ ~guard.leak

\* flushBuffered, then the part itself: a buffer that is empty stays one.
PassAfterHeld(part) ==
    /\ sent' = Append(sent \o held, part)
    /\ holding' = (holding /\ held = <<>>)
    /\ held' = <<>>

\* A part that does not wait for what is held.
SendNow(part) == sent' = Append(sent, part) /\ UNCHANGED <<held, holding>>

\* Mutant: the end of a section does not flush what is held.
PassEnd(part) == SendNow(part)

SectionStarts(k) ==
    /\ Streams /\ progress = "streaming" /\ k \notin open
    /\ made.sections < MaxSections /\ made' = [made EXCEPT !.sections = @ + 1]
    /\ open' = open \cup {k}
    /\ SendNow(StartOf(k))
    /\ UNCHANGED <<way, resolved, progress, attempt, scanned, guard, storedReply>>

CloseSection(part) == PassAfterHeld(part)

SectionEnds(k) ==
    /\ Streams /\ progress = "streaming" /\ k \in open
    /\ open' = open \ {k}
    /\ CloseSection(EndOf(k))
    /\ UNCHANGED <<way, resolved, progress, attempt, scanned, guard, made, storedReply>>

\* emitGuardedFallback: the reply that needs no model goes into the text that is open, or one of its
\* own, and ends the reply; what is held is dropped.
GuardedFallback ==
    /\ guard' = [mode |-> "fallback", leak |-> TRUE, told |-> "fallback"]
    /\ sent' = sent \o (IF "reasoning" \in open THEN <<EndOf("reasoning")>> ELSE <<>>)
                    \o (IF "text" \in open THEN <<>> ELSE <<StartOf("text")>>)
                    \o <<Delta("text", Fallback), EndOf("text"), Sign("finish-step"), Sign("finish")>>
    /\ open' = open \ {"reasoning"}
    /\ UNCHANGED <<held, holding>>

DeltaArrives(k, w) ==
    /\ Streams /\ progress = "streaming" /\ k \in open
    /\ made.deltas < MaxDeltas /\ made' = [made EXCEPT !.deltas = @ + 1]
    /\ scanned' = LastWords(Append(scanned, w), ScannedDeltas)
    /\ \/ Leaks(scanned') /\ GuardedFallback
       \/ /\ ~Leaks(scanned')
          /\ UNCHANGED <<open, guard>>
          /\ IF ~holding THEN SendNow(Delta(k, w))
             ELSE IF Len(scanned') >= HeldDeltas
             THEN sent' = Append(sent \o held, Delta(k, w)) /\ held' = <<>> /\ holding' = FALSE
             ELSE held' = Append(held, Delta(k, w)) /\ UNCHANGED <<sent, holding>>
    /\ UNCHANGED <<way, resolved, progress, attempt, storedReply>>

\* The provider breaks off: the error passes what is held.
ProviderBreaks ==
    /\ Streams /\ progress = "streaming"
    /\ SendNow(Sign("error"))
    /\ progress' = "broken"
    /\ UNCHANGED <<way, resolved, attempt, open, scanned, guard, made, storedReply>>

StepFinishes ==
    /\ Streams /\ (progress = "broken" \/ (progress = "streaming" /\ open = {}))
    /\ PassAfterHeld(Sign("finish-step"))
    /\ progress' = "finishing"
    /\ UNCHANGED <<way, resolved, attempt, open, scanned, guard, made, storedReply>>

\* The end tells the browser the mode.
ReplyFinishes ==
    /\ Streams /\ progress = "finishing"
    /\ PassAfterHeld(Sign("finish"))
    /\ guard' = [guard EXCEPT !.told = guard.mode]
    /\ progress' = "over"
    /\ UNCHANGED <<way, resolved, attempt, open, scanned, made, storedReply>>

\* The stream closes: flush, unless it was cut off.
StreamCloses ==
    /\ progress = "broken" \/ (progress = "streaming" /\ guard.leak)
    /\ sent' = IF guard.leak THEN sent ELSE sent \o held
    /\ progress' = "over"
    /\ UNCHANGED <<way, resolved, attempt, open, scanned, held, holding, guard, made, storedReply>>

-----------------------------------------------------------------------------
(* As a whole *)

\* An attempt gives a text. The second is asked for if the first is empty or quotes the notes.
Draft(words) ==
    /\ way = "whole" /\ progress = "prepared" /\ resolved
    /\ words # <<>> /\ ~Leaks(words)
    /\ progress' = "over"
    /\ sent' = [i \in DOMAIN words |-> Delta("text", words[i])]
    /\ UNCHANGED <<way, resolved, attempt, open, scanned, held, holding, guard, made, storedReply>>

DraftAgain(words) ==
    /\ way = "whole" /\ progress = "prepared" /\ resolved
    /\ words = <<>> \/ Leaks(words)
    /\ attempt = 1 /\ attempt' = 2
    /\ UNCHANGED <<way, resolved, progress, open, scanned, held, holding, guard, sent, made, storedReply>>

\* No model, two attempts in vain, or a model that throws, which is not asked again.
NoDraft ==
    /\ way = "whole" /\ progress = "prepared"
    /\ progress' = "over" /\ sent' = <<Delta("text", Fallback)>>
    /\ guard' = [guard EXCEPT !.mode = "fallback"]
    /\ UNCHANGED <<way, resolved, attempt, open, scanned, held, holding, made, storedReply>>

-----------------------------------------------------------------------------
(* Stored *)

\* extractText, by what it says.
TextOf(parts) ==
    {parts[i].says : i \in {n \in DOMAIN parts : parts[n].is = "delta" /\ parts[n].of = "text"}}

\* What was replied as text, if there is any, with the guard's mode; the transaction may fail.
StoreReply ==
    /\ progress = "over" /\ progress' = "done"
    /\ storedReply' \in {NothingStored,
                         IF TextOf(sent) = {} THEN NothingStored
                         ELSE [mode |-> guard.mode, says |-> TextOf(sent)]}
    /\ UNCHANGED <<way, resolved, attempt, open, scanned, held, holding, guard, sent, made>>

Drafts == UNION {[1 .. n -> Words] : n \in 0 .. 2}

ReplyNext ==
    \/ PlanStream \/ PlanFallback
    \/ \E k \in Sections : SectionStarts(k) \/ SectionEnds(k) \/ \E w \in Words : DeltaArrives(k, w)
    \/ ProviderBreaks \/ StepFinishes \/ ReplyFinishes \/ StreamCloses
    \/ \E words \in Drafts : Draft(words) \/ DraftAgain(words)
    \/ NoDraft \/ StoreReply

ReplySpec == ReplyInit /\ [][ReplyNext]_replyVars

-----------------------------------------------------------------------------
(* Properties *)

\* The variables stay of their kinds.
ReplyTypeOK ==
    /\ way \in {"stream", "whole"} /\ resolved \in BOOLEAN /\ attempt \in 1 .. 2
    /\ progress \in {"prepared", "streaming", "broken", "finishing", "over", "done"}
    /\ open \subseteq Sections /\ holding \in BOOLEAN
    /\ scanned \in Seq(Words) /\ Len(scanned) <= ScannedDeltas
    /\ held \in Seq(StreamParts) /\ sent \in Seq(StreamParts)
    /\ guard \in [mode : ReplyModes, leak : BOOLEAN, told : ReplyModes \cup {"none"}]
    /\ made \in [deltas : 0 .. MaxDeltas, sections : 0 .. MaxSections]
    /\ storedReply \in [mode : ReplyModes \cup {"none"}, says : SUBSET (Words \cup {Fallback})]

\* Before position i of what is sent a section of kind k has been started and not ended.
OpenAt(parts, k, i) ==
    \E j \in 1 .. i - 1 : parts[j] = StartOf(k) /\ \A m \in j + 1 .. i - 1 : parts[m] # EndOf(k)

\* What the browser can make a message of: deltas and ends belong to a section that is open, a
\* section is started once, and nothing follows the end.
InSections(parts) ==
    \A i \in DOMAIN parts :
        /\ parts[i].is \in {"delta", "end"} => OpenAt(parts, parts[i].of, i)
        /\ parts[i].is = "start" => ~OpenAt(parts, parts[i].of, i)
        /\ parts[i].is = "finish" => i = Len(parts)

\* The deltas of the model from position i to k; as many as the guard looks back on do not look
\* like the notes, wherever they begin.
Said(parts, i, k) == {n \in i .. k : parts[n].is = "delta" /\ parts[n].says # Fallback}
KeepsNotes(parts) ==
    \A i, k \in DOMAIN parts :
        Cardinality(Said(parts, i, k)) <= ScannedDeltas => ~Leaking({parts[n].says : n \in Said(parts, i, k)})

\* However the guard's buffer, the provider's sections, an error and the end of the stream follow
\* each other: what is streamed can be read as a message, what the model said of it never looks
\* like the notes within what the guard looks back on, and what is stored is told and marked as
\* a fallback if and only if it has the reply that needs no model.
ReplyHolds ==
    /\ way = "stream" => InSections(sent)
    /\ KeepsNotes(sent)
    /\ storedReply.mode # "none" =>
          /\ storedReply.mode = "fallback" <=> Fallback \in storedReply.says
          /\ guard.told \in {"none", storedReply.mode}

=============================================================================
