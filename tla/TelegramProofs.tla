---------------------------- MODULE TelegramProofs ----------------------------
(***************************************************************************)
(* That Telegram forgets no update of which nothing has come: the cursors  *)
(* that the loop, the settings page and the presence requests hold, read   *)
(* at different times and written back in any order, cover only updates    *)
(* whose handling has ended. And that an update makes one turn as long as  *)
(* nothing disturbs the channel. For any numbers of updates, webhook       *)
(* calls, requests and faults, and any limit of a batch.                   *)
(***************************************************************************)
EXTENDS TelegramIntegration, FiniteSetTheorems, TLAPS

TelegramKinds ==
    /\ row \in TelegramRow
    /\ kinds \in [Updates -> Kinds \cup {"none"}]
    /\ pending \subseteq Updates
    /\ poller \in Poller
    /\ work \in [Handlers -> Work]
    /\ request \in [Operators -> Request]
    /\ fates \in [Updates -> SUBSET Fates]

\* Ids are given in order, and Telegram keeps what was sent.
SentInOrder ==
    /\ \A u, v \in Updates : kinds[u] # "none" /\ v < u => kinds[v] # "none"
    /\ \A u \in pending : kinds[u] # "none"

\* The handling of all updates up to a cursor has ended.
Covered(cursor) == \A u \in Updates : u <= cursor => fates[u] # {}

\* Every cursor that may still be confirmed or written back.
CursorsCovered ==
    /\ Covered(row.settings.cursor) /\ Covered(poller.stored.cursor)
    /\ \A o \in Operators : Covered(request[o].settings.cursor)

\* What the loop will save covers the batch it works off, and nothing else that is open.
BatchCovers ==
    poller.at = "batch" =>
        \A u \in Updates : u <= poller.next \/ (\E b \in poller.batch : u <= b)
                               => fates[u] # {} \/ u \in poller.batch

TelegramInv == TelegramKinds /\ SentInOrder /\ NothingForgotten /\ CursorsCovered /\ BatchCovers

\* Of a set of updates, the first ones hold whatever comes before one of them.
LEMMA FirstOfIsClosed ==
    ASSUME NEW S \in SUBSET Updates, NEW limit \in Nat, NEW u \in S, NEW b \in FirstOf(S, limit), u <= b
    PROVE  u \in FirstOf(S, limit)
  <1> DEFINE Below(x) == {v \in S : v < x}
  <1>1. b \in S /\ Cardinality(Below(b)) < limit
    BY DEF FirstOf
  <1>2. IsFiniteSet(Updates)
    BY FS_Interval, TelegramAssumption DEF Updates
  <1>3. Below(b) \subseteq Updates /\ Below(u) \subseteq Below(b)
    <2>1. u \in Int /\ b \in Int /\ \A v \in S : v \in Int
      BY <1>1 DEF Updates
    <2>2. \A v \in S : v < u => v < b
      BY <2>1
    <2> QED
      BY <2>2
  <1>4. IsFiniteSet(Below(b))
    BY <1>2, <1>3, FS_Subset
  <1>5. IsFiniteSet(Below(u)) /\ Cardinality(Below(u)) <= Cardinality(Below(b))
    BY <1>3, <1>4, FS_Subset
  <1>6. Cardinality(Below(u)) \in Nat /\ Cardinality(Below(b)) \in Nat
    BY <1>4, <1>5, FS_CardinalityType
  <1>7. Cardinality(Below(u)) < limit
    BY <1>1, <1>5, <1>6
  <1> QED
    BY <1>7 DEF FirstOf

\* Nothing is covered at the beginning, and nothing needs to be.
LEMMA TelegramInitial == TelegramInit => TelegramInv
  <1> SUFFICES ASSUME TelegramInit PROVE TelegramInv
    OBVIOUS
  <1> USE TelegramAssumption
  <1>1. DefaultSettings \in Settings /\ DefaultSettings.cursor = 0
    BY DEF DefaultSettings, Settings, Modes
  <1>2. row \in TelegramRow /\ row.settings = DefaultSettings
    BY <1>1 DEF TelegramInit, DefaultRow, TelegramRow
  <1>3. poller \in Poller /\ poller.stored = DefaultSettings /\ poller.at = "wait"
    BY <1>1 DEF TelegramInit, FreshPoller, Poller
  <1>4. request \in [Operators -> Request] /\ \A o \in Operators : request[o].settings = DefaultSettings
    BY <1>1 DEF TelegramInit, NoRequest, Request, RequestKinds, Modes
  <1>5. work \in [Handlers -> Work]
    BY DEF TelegramInit, Idle, Work
  <1>6. kinds \in [Updates -> Kinds \cup {"none"}] /\ fates \in [Updates -> SUBSET Fates] /\ pending = {}
        /\ \A u \in Updates : kinds[u] = "none"
    BY DEF TelegramInit
  <1>7. TelegramKinds
    BY <1>2, <1>3, <1>4, <1>5, <1>6 DEF TelegramKinds
  <1>8. SentInOrder /\ NothingForgotten
    BY <1>6 DEF SentInOrder, NothingForgotten, Sent
  <1>9. Covered(0)
    BY DEF Covered, Updates
  <1>10. CursorsCovered /\ BatchCovers
    BY <1>1, <1>2, <1>3, <1>4, <1>9 DEF CursorsCovered, BatchCovers
  <1> QED
    BY <1>7, <1>8, <1>10 DEF TelegramInv

\* A step of the loop that changes no row and no fate.
LEMMA PollerMoves ==
    ASSUME TelegramInv, UNCHANGED <<row, kinds, pending, request, fates>>, work' \in [Handlers -> Work],
           poller' \in Poller, Covered(poller'.stored.cursor), BatchCovers'
    PROVE  TelegramInv'
  <1>1. TelegramKinds'
    BY DEF TelegramInv, TelegramKinds
  <1>2. SentInOrder' /\ NothingForgotten'
    BY DEF TelegramInv, SentInOrder, NothingForgotten, Sent
  <1>3. CursorsCovered'
    BY DEF TelegramInv, CursorsCovered, Covered
  <1> QED
    BY <1>1, <1>2, <1>3 DEF TelegramInv

\* A step that changes the row or what a request has read.
LEMMA RequestMoves ==
    ASSUME TelegramInv, UNCHANGED <<kinds, pending, poller, work, fates>>,
           row' \in TelegramRow, Covered(row'.settings.cursor),
           request' \in [Operators -> Request],
           \A o \in Operators : Covered(request'[o].settings.cursor)
    PROVE  TelegramInv'
  <1>1. TelegramKinds'
    BY DEF TelegramInv, TelegramKinds
  <1>2. SentInOrder' /\ NothingForgotten'
    BY DEF TelegramInv, SentInOrder, NothingForgotten, Sent
  <1>3. CursorsCovered' /\ BatchCovers'
    BY DEF TelegramInv, CursorsCovered, Covered, BatchCovers
  <1> QED
    BY <1>1, <1>2, <1>3 DEF TelegramInv

\* A loop that waits or starts anew holds no cursor.
LEMMA WaitingIsPoller ==
    ASSUME poller \in Poller
    PROVE  /\ FreshPoller \in Poller /\ FreshPoller.at = "wait" /\ Covered(FreshPoller.stored.cursor)
           /\ Waiting \in Poller /\ Waiting.at = "wait" /\ Covered(Waiting.stored.cursor)
  <1>1. DefaultSettings \in Settings /\ DefaultSettings.cursor = 0
    BY TelegramAssumption DEF DefaultSettings, Settings, Modes
  <1>2. FreshPoller \in Poller /\ FreshPoller.at = "wait" /\ FreshPoller.stored = DefaultSettings
    BY <1>1, TelegramAssumption DEF FreshPoller, Poller
  <1>3. PICK cleared \in BOOLEAN : cleared = poller.cleared
    BY DEF Poller
  <1>4. Waiting = [FreshPoller EXCEPT !.cleared = cleared]
    BY <1>3 DEF Waiting
  <1>5. Waiting \in Poller /\ Waiting.at = "wait" /\ Waiting.stored = DefaultSettings
    BY <1>2, <1>4 DEF Poller
  <1>6. Covered(0)
    BY DEF Covered, Updates
  <1> QED
    BY <1>1, <1>2, <1>5, <1>6

\* The loop forgets what it held.
LEMMA PollerWaits ==
    ASSUME TelegramInv, UNCHANGED <<row, kinds, pending, request, fates>>, work' \in [Handlers -> Work],
           poller' \in {Waiting, FreshPoller}
    PROVE  TelegramInv'
  <1>1. poller \in Poller
    BY DEF TelegramInv, TelegramKinds
  <1>2. poller' \in Poller /\ poller'.at = "wait" /\ Covered(poller'.stored.cursor)
    BY <1>1, WaitingIsPoller
  <1>3. BatchCovers'
    BY <1>2 DEF BatchCovers
  <1> QED
    BY <1>2, <1>3, PollerMoves

\* What getUpdates confirms was covered; of what it returns, nothing before the last is left out.
LEMMA AskKeeps == TelegramInv /\ PollAsk => TelegramInv'
  <1> SUFFICES ASSUME TelegramInv, PollAsk PROVE TelegramInv'
    OBVIOUS
  <1>1. UNCHANGED <<row, kinds, request, fates, work>>
    BY DEF PollAsk
  <1>2. PICK old \in Poller : old = poller
    BY DEF TelegramInv, TelegramKinds
  <1>3. CASE hook
    <2>1. poller' = Waiting /\ pending' = pending
      BY <1>3 DEF PollAsk
    <2> QED
      BY <1>1, <2>1, PollerWaits DEF TelegramInv, TelegramKinds
  <1>4. CASE ~hook
    <2> DEFINE cursor == old.stored.cursor
               batch == FirstOf(pending', BatchLimit)
    <2>1. pending' = {u \in pending : u > cursor}
          /\ poller' = [old EXCEPT !.at = "batch", !.next = cursor, !.batch = batch]
      BY <1>2, <1>4 DEF PollAsk
    <2>2. cursor \in 0 .. MaxUpdates
      BY DEF Poller, Settings
    <2>3. pending' \in SUBSET Updates /\ batch \in SUBSET Updates /\ batch \subseteq pending'
      BY <2>1 DEF TelegramInv, TelegramKinds, FirstOf
    <2>4. PICK next \in 0 .. MaxUpdates, taken \in SUBSET Updates : next = cursor /\ taken = batch
      BY <2>2, <2>3
    <2>5. poller' = [old EXCEPT !.at = "batch", !.next = next, !.batch = taken]
      BY <2>1, <2>4
    <2>6. poller' \in Poller /\ poller'.at = "batch" /\ poller'.next = cursor /\ poller'.batch = batch
          /\ poller'.stored = old.stored
      <3> HIDE DEF cursor, batch
      <3> QED
        BY <2>4, <2>5 DEF Poller
    <2>7. Covered(cursor)
      BY <1>2 DEF TelegramInv, CursorsCovered
    <2>8. TelegramKinds'
      BY <1>1, <2>3, <2>6 DEF TelegramInv, TelegramKinds
    <2>9. SentInOrder'
      BY <1>1, <2>1 DEF TelegramInv, SentInOrder
    <2>10. NothingForgotten'
      <3> SUFFICES ASSUME NEW u \in Sent' PROVE u \in pending' \/ fates'[u] # {}
        BY DEF NothingForgotten
      <3>1. u \in Sent /\ u \in Updates /\ u \in Int /\ cursor \in Int
        BY <1>1, <2>2 DEF Sent, Updates
      <3>2. CASE u <= cursor
        BY <1>1, <2>7, <3>1, <3>2 DEF Covered
      <3>3. CASE u > cursor
        BY <1>1, <2>1, <3>1, <3>3 DEF TelegramInv, NothingForgotten
      <3> QED
        BY <3>1, <3>2, <3>3
    <2>11. CursorsCovered'
      BY <1>1, <1>2, <2>6 DEF TelegramInv, CursorsCovered, Covered
    <2>12. BatchCovers'
      <3> SUFFICES ASSUME NEW u \in Updates, u <= cursor \/ \E b \in batch : u <= b
                   PROVE  fates[u] # {} \/ u \in batch
        BY <1>1, <2>6 DEF BatchCovers
      <3>1. CASE u <= cursor
        BY <2>7, <3>1 DEF Covered
      <3>2. CASE ~(u <= cursor)
        <4>1. PICK b \in batch : u <= b
          BY <3>2
        <4>2. b \in pending /\ b \in Updates /\ kinds[b] # "none"
          BY <2>1, <2>3 DEF TelegramInv, SentInOrder, Updates
        <4>3. u < b \/ u = b
          BY <4>1, <4>2 DEF Updates
        <4>4. u \in Sent
          BY <4>2, <4>3 DEF TelegramInv, SentInOrder, Sent
        <4>5. CASE fates[u] = {}
          <5>1. u \in pending
            BY <4>4, <4>5 DEF TelegramInv, NothingForgotten
          <5>2. u \in pending'
            BY <2>1, <2>2, <3>2, <5>1 DEF Updates
          <5> QED
            BY <2>3, <4>1, <5>2, FirstOfIsClosed, TelegramAssumption
        <4> QED
          BY <4>5
      <3> QED
        BY <3>1, <3>2
    <2> QED
      BY <2>8, <2>9, <2>10, <2>11, <2>12 DEF TelegramInv
  <1> QED
    BY <1>3, <1>4

\* The next update of the batch is one that the loop will have covered.
LEMMA TakeKeeps == TelegramInv /\ PollTake => TelegramInv'
  <1> SUFFICES ASSUME TelegramInv, PollTake PROVE TelegramInv'
    OBVIOUS
  <1>1. UNCHANGED <<row, kinds, pending, request, fates>>
    BY DEF PollTake
  <1>2. PICK old \in Poller : old = poller
    BY DEF TelegramInv, TelegramKinds
  <1>3. PICK u \in old.batch : poller' = [old EXCEPT !.next = Larger(@, u)]
                               /\ work' = [work EXCEPT !["poll"] = [at |-> "receive", update |-> u]]
    BY <1>2 DEF PollTake
  <1>4. u \in Updates /\ old.next \in 0 .. MaxUpdates
    BY DEF Poller
  <1>5. PICK next \in 0 .. MaxUpdates : next = Larger(old.next, u) /\ (next = old.next \/ next = u)
    BY <1>4 DEF Larger, Updates
  <1>6. poller' = [old EXCEPT !.next = next]
    BY <1>3, <1>5
  <1>7. poller' \in Poller /\ poller'.at = old.at /\ poller'.next = next /\ poller'.batch = old.batch
        /\ poller'.stored = old.stored
    BY <1>6 DEF Poller
  <1>8. work' \in [Handlers -> Work]
    BY <1>3, <1>4 DEF TelegramInv, TelegramKinds, Work
  <1>9. Covered(poller'.stored.cursor)
    BY <1>2, <1>7 DEF TelegramInv, CursorsCovered
  <1>10. BatchCovers'
    BY <1>1, <1>2, <1>5, <1>7 DEF TelegramInv, BatchCovers
  <1> QED
    BY <1>1, <1>7, <1>8, <1>9, <1>10, PollerMoves

\* A batch worked off is covered, and so is the cursor after it.
LEMMA PollSaveKeeps == TelegramInv /\ PollSave => TelegramInv'
  <1> SUFFICES ASSUME TelegramInv, PollSave PROVE TelegramInv'
    OBVIOUS
  <1>1. UNCHANGED <<kinds, pending, work, request, fates>> /\ poller' = Waiting
    BY DEF PollSave
  <1>2. PICK old \in Poller : old = poller
    BY DEF TelegramInv, TelegramKinds
  <1>3. Covered(old.next)
    BY <1>2 DEF PollSave, TelegramInv, BatchCovers, Covered
  <1>4. row' \in TelegramRow /\ Covered(row'.settings.cursor)
    <2>1. PICK was \in TelegramRow : was = row
      BY DEF TelegramInv, TelegramKinds
    <2>2. CASE row' = row
      BY <2>1, <2>2 DEF TelegramInv, CursorsCovered
    <2>3. CASE SaveSettings([poller.stored EXCEPT !.cursor = poller.next])
      <3>1. PICK read \in Settings, next \in 0 .. MaxUpdates : read = old.stored /\ next = old.next
        BY DEF Poller
      <3>2. [read EXCEPT !.cursor = next] \in Settings
        BY DEF Settings
      <3>3. PICK saves \in Settings : saves = [read EXCEPT !.cursor = next]
        BY <3>2
      <3>4. saves.cursor = next
        BY <3>3 DEF Settings
      <3>5. row' = [was EXCEPT !.settings = saves]
        BY <1>2, <2>1, <2>3, <3>1, <3>3 DEF SaveSettings
      <3>6. row' \in TelegramRow /\ row'.settings = saves
        BY <3>5 DEF TelegramRow
      <3> QED
        BY <1>3, <3>1, <3>4, <3>6
    <2> QED
      BY <2>2, <2>3 DEF PollSave
  <1>5. poller' \in Poller /\ poller'.at = "wait" /\ Covered(poller'.stored.cursor)
    BY <1>1, WaitingIsPoller DEF TelegramInv, TelegramKinds
  <1>6. TelegramKinds'
    BY <1>1, <1>4, <1>5 DEF TelegramInv, TelegramKinds
  <1>7. SentInOrder' /\ NothingForgotten'
    BY <1>1 DEF TelegramInv, SentInOrder, NothingForgotten, Sent
  <1>8. CursorsCovered' /\ BatchCovers'
    BY <1>1, <1>4, <1>5 DEF TelegramInv, CursorsCovered, Covered, BatchCovers
  <1> QED
    BY <1>6, <1>7, <1>8 DEF TelegramInv

\* The loop reads the row, clears the webhook, asks for updates and takes up the next one.
LEMMA PollKeeps == TelegramInv /\ Poll => TelegramInv'
  <1> SUFFICES ASSUME TelegramInv, Poll PROVE TelegramInv'
    OBVIOUS
  <1>1. PICK old \in Poller : old = poller
    BY DEF TelegramInv, TelegramKinds
  <1>2. Covered(old.stored.cursor) /\ row \in TelegramRow /\ work \in [Handlers -> Work]
    BY <1>1 DEF TelegramInv, TelegramKinds, CursorsCovered
  <1>3. CASE PollTick
    <2>1. UNCHANGED <<row, kinds, pending, request, fates, work>>
      BY <1>3 DEF PollTick
    <2>2. CASE poller' = FreshPoller
      BY <1>2, <2>1, <2>2, PollerWaits
    <2>3. CASE poller' = [poller EXCEPT !.at = "clear", !.stored = row.settings]
      <3>1. PICK read \in Settings : read = row.settings
        BY <1>2 DEF TelegramRow
      <3>2. poller' = [old EXCEPT !.at = "clear", !.stored = read]
        BY <1>1, <2>3, <3>1
      <3>3. poller' \in Poller /\ poller'.at = "clear" /\ poller'.stored = read
        BY <3>2 DEF Poller
      <3>4. Covered(poller'.stored.cursor)
        BY <3>1, <3>3 DEF TelegramInv, CursorsCovered
      <3> QED
        BY <1>2, <2>1, <3>3, <3>4, PollerMoves DEF BatchCovers
    <2> QED
      BY <1>3, <2>2, <2>3 DEF PollTick
  <1>4. CASE PollClear
    <2>1. UNCHANGED <<row, kinds, pending, request, fates, work>>
          /\ poller' = [old EXCEPT !.at = "ask", !.cleared = TRUE]
      BY <1>1, <1>4 DEF PollClear
    <2>2. poller' \in Poller /\ poller'.at = "ask" /\ poller'.stored = old.stored
      BY <2>1 DEF Poller
    <2> QED
      BY <1>2, <2>1, <2>2, PollerMoves DEF BatchCovers
  <1>5. CASE PollAsk
    BY <1>5, AskKeeps
  <1>6. CASE PollTake
    BY <1>6, TakeKeeps
  <1>7. CASE PollSave
    BY <1>7, PollSaveKeeps
  <1> QED
    BY <1>3, <1>4, <1>5, <1>6, <1>7 DEF Poll

\* A handler that goes on changes no row and no fate.
LEMMA GoesOn ==
    ASSUME TelegramInv, work' \in [Handlers -> Work],
           UNCHANGED <<row, kinds, pending, poller, request, fates>>
    PROVE  TelegramInv'
  <1>1. poller' \in Poller /\ Covered(poller'.stored.cursor)
    BY DEF TelegramInv, TelegramKinds, CursorsCovered
  <1>2. BatchCovers'
    BY DEF TelegramInv, BatchCovers
  <1> QED
    BY <1>1, <1>2, PollerMoves

\* A handler's update has a fate before the loop or Telegram drops it.
LEMMA FinishKeeps ==
    ASSUME TelegramInv, NEW h \in Handlers, NEW fate \in Fates, Finish(h, fate),
           UNCHANGED <<row, kinds, request>>
    PROVE  TelegramInv'
  <1> DEFINE u == work[h].update
  <1>1. u \in Updates \cup {0}
    BY DEF TelegramInv, TelegramKinds, Work
  <1>2. work' \in [Handlers -> Work]
    BY DEF Finish, TelegramInv, TelegramKinds, Work, Idle
  <1>3. fates' = [fates EXCEPT ![u] = @ \cup {fate}] /\ fates' \in [Updates -> SUBSET Fates]
        /\ \A v \in Updates : fates'[v] # {} <=> fates[v] # {} \/ v = u
    BY DEF Finish, TelegramInv, TelegramKinds
  <1>4. PICK old \in Poller : old = poller
    BY DEF TelegramInv, TelegramKinds
  <1>5. poller' \in Poller /\ poller'.at = old.at /\ poller'.next = old.next /\ poller'.stored = old.stored
        /\ poller'.batch \subseteq old.batch /\ old.batch \ {u} \subseteq poller'.batch
    <2>1. CASE h = "poll"
      <3>1. PICK batch \in SUBSET Updates : batch = old.batch \ {u}
        BY DEF Poller
      <3>2. poller' = [old EXCEPT !.batch = batch]
        BY <1>4, <2>1, <3>1 DEF Finish
      <3>3. poller' \in Poller /\ poller'.at = old.at /\ poller'.next = old.next
            /\ poller'.stored = old.stored /\ poller'.batch = batch
        BY <3>2 DEF Poller
      <3> QED
        BY <3>1, <3>3
    <2>2. CASE h # "poll"
      BY <1>4, <2>2 DEF Finish
    <2> QED
      BY <2>1, <2>2
  <1>6. pending' \subseteq pending /\ pending \ {u} \subseteq pending'
    BY DEF Finish
  <1>7. TelegramKinds'
    BY <1>2, <1>3, <1>5, <1>6 DEF TelegramInv, TelegramKinds
  <1>8. SentInOrder'
    BY <1>6 DEF TelegramInv, SentInOrder
  <1>9. NothingForgotten'
    BY <1>3, <1>6 DEF TelegramInv, NothingForgotten, Sent
  <1>10. CursorsCovered'
    BY <1>3, <1>4, <1>5 DEF TelegramInv, CursorsCovered, Covered
  <1>11. BatchCovers'
    BY <1>3, <1>4, <1>5 DEF TelegramInv, BatchCovers
  <1> QED
    BY <1>7, <1>8, <1>9, <1>10, <1>11 DEF TelegramInv

\* The handler, in the loop or in a webhook call.
LEMMA HandlerKeeps ==
    ASSUME TelegramInv, NEW h \in Handlers, Handle(h) \/ HandlerThrows(h) PROVE TelegramInv'
  <1>1. UNCHANGED <<row, kinds, request>>
    BY DEF Handle, HandlerThrows, Receive, Understand, Turn, Reply, ReplyByVoice
  <1>2. ASSUME NEW from \in {"receive", "understand", "turn", "reply"},
               NEW to \in {"understand", "turn", "reply", "voice"}, Step(h, from, to)
        PROVE  TelegramInv'
    <2>1. UNCHANGED <<pending, poller, fates>> /\ work' = [work EXCEPT ![h].at = to]
      BY <1>2 DEF Step
    <2>2. PICK old \in Work : old = work[h]
      BY DEF TelegramInv, TelegramKinds
    <2>3. work' = [work EXCEPT ![h] = [old EXCEPT !.at = to]] /\ [old EXCEPT !.at = to] \in Work
      BY <2>1, <2>2 DEF Work
    <2>4. work' \in [Handlers -> Work]
      BY <2>3 DEF TelegramInv, TelegramKinds
    <2> QED
      BY <1>1, <2>1, <2>4, GoesOn
  <1>3. ASSUME NEW fate \in Fates, Finish(h, fate) PROVE TelegramInv'
    BY <1>1, <1>3, FinishKeeps
  <1>4. CASE Receive(h) \/ HandlerThrows(h)
    BY <1>2, <1>3, <1>4 DEF Receive, HandlerThrows, Fates
  <1>5. CASE Understand(h) \/ Turn(h)
    BY <1>2, <1>3, <1>5 DEF Understand, Turn, Fates
  <1>6. CASE Reply(h) \/ ReplyByVoice(h)
    BY <1>2, <1>3, <1>6 DEF Reply, ReplyByVoice, Fates
  <1> QED
    BY <1>4, <1>5, <1>6 DEF Handle

\* Requests hold the cursor of the row as they read it, and may write it back at any later time.
LEMMA RequestKeeps ==
    ASSUME TelegramInv, NEW o \in Operators, Ask(o) \/ Serve(o) \/ RequestThrows(o) PROVE TelegramInv'
  <1>1. UNCHANGED <<kinds, pending, poller, work, fates>>
    BY DEF Ask, Serve, RequestThrows, UpdateSettings, TouchPresence, SyncWebhook, RecordSync, Reread, CheckHealth
  <1>2. PICK was \in TelegramRow : was = row
    BY DEF TelegramInv, TelegramKinds
  <1>3. PICK r \in Request : r = request[o]
    BY DEF TelegramInv, TelegramKinds
  <1>4. Covered(was.settings.cursor) /\ Covered(r.settings.cursor)
    BY <1>2, <1>3 DEF TelegramInv, CursorsCovered
  <1>5. NoRequest \in Request /\ Covered(NoRequest.settings.cursor)
    BY TelegramAssumption
       DEF NoRequest, Request, RequestKinds, DefaultSettings, Settings, Modes, Covered, Updates
  <1>6. ASSUME NEW q \in Request, Covered(q.settings.cursor), request' = [request EXCEPT ![o] = q],
               row' \in TelegramRow, Covered(row'.settings.cursor)
        PROVE  TelegramInv'
    <2>1. request' \in [Operators -> Request] /\ \A p \in Operators : Covered(request'[p].settings.cursor)
      BY <1>6 DEF TelegramInv, TelegramKinds, CursorsCovered
    <2> QED
      BY <1>1, <1>6, <2>1, RequestMoves
  <1>7. CASE Ask(o)
    <2>1. PICK kind \in RequestKinds, enable \in BOOLEAN, mode \in Modes :
             request' = [request EXCEPT ![o] =
                [at |-> IF kind = "status" THEN "check" ELSE "act", kind |-> kind,
                 enabled |-> row.enabled, settings |-> row.settings,
                 enable |-> enable, mode |-> mode]]
      BY <1>7 DEF Ask
    <2> DEFINE q == [at |-> IF kind = "status" THEN "check" ELSE "act", kind |-> kind,
                     enabled |-> was.enabled, settings |-> was.settings, enable |-> enable, mode |-> mode]
    <2>2. q \in Request /\ q.settings = was.settings
      BY DEF Request, TelegramRow
    <2>3. row' = was /\ request' = [request EXCEPT ![o] = q]
      BY <1>2, <1>7, <2>1 DEF Ask
    <2> HIDE DEF q
    <2> QED
      BY <1>4, <1>6, <2>2, <2>3
  <1>8. CASE UpdateSettings(o)
    <2>1. [r EXCEPT !.at = "reread"] \in Request /\ [r EXCEPT !.at = "reread"].settings = r.settings
      BY DEF Request
    <2>2. PICK held \in Settings, mode \in Modes, enable \in BOOLEAN :
             held = r.settings /\ mode = r.mode /\ enable = r.enable
      BY DEF Request
    <2>3. [held EXCEPT !.mode = mode] \in Settings
      BY DEF Settings
    <2>4. PICK saves \in Settings : saves = [held EXCEPT !.mode = mode]
      BY <2>3
    <2>5. saves.cursor = held.cursor
      BY <2>4 DEF Settings
    <2>6. row' = [was EXCEPT !.enabled = enable, !.settings = saves]
          /\ request' = [request EXCEPT ![o] = [r EXCEPT !.at = "reread"]]
      BY <1>2, <1>3, <1>8, <2>2, <2>4 DEF UpdateSettings
    <2>7. row' \in TelegramRow /\ row'.settings = saves
      BY <2>6 DEF TelegramRow
    <2> QED
      BY <1>4, <1>6, <2>1, <2>2, <2>5, <2>6, <2>7
  <1>9. CASE TouchPresence(o)
    <2>1. PICK held \in Settings : held = r.settings
      BY DEF Request
    <2>2. row' = [was EXCEPT !.settings = held] /\ request' = [request EXCEPT ![o] = NoRequest]
      BY <1>2, <1>3, <1>9, <2>1 DEF TouchPresence, SaveSettings
    <2>3. row' \in TelegramRow /\ row'.settings = held
      BY <2>2 DEF TelegramRow
    <2> QED
      BY <1>4, <1>5, <1>6, <2>1, <2>2, <2>3
  <1>10. CASE SyncWebhook(o)
    <2>1. [r EXCEPT !.at = "record"] \in Request /\ [r EXCEPT !.at = "record"].settings = r.settings
      BY DEF Request
    <2>2. row' = was /\ request' = [request EXCEPT ![o] = [r EXCEPT !.at = "record"]]
      BY <1>2, <1>3, <1>10 DEF SyncWebhook
    <2> QED
      BY <1>4, <1>6, <2>1, <2>2
  <1>11. CASE RecordSync(o) \/ CheckHealth(o)
    <2>1. PICK health \in {"ok", "degraded", "disabled"} : row' = [was EXCEPT !.health = health]
      BY <1>2, <1>11 DEF RecordSync, CheckHealth, HealthOf
    <2>2. row' \in TelegramRow /\ row'.settings = was.settings
      BY <2>1 DEF TelegramRow
    <2>3. request' = [request EXCEPT ![o] = NoRequest]
      BY <1>11 DEF RecordSync, CheckHealth
    <2> QED
      BY <1>4, <1>5, <1>6, <2>2, <2>3
  <1>12. CASE Reread(o)
    <2>1. PICK read \in Settings, on \in BOOLEAN : read = was.settings /\ on = was.enabled
      BY DEF TelegramRow
    <2> DEFINE q == [r EXCEPT !.at = "check", !.enabled = on, !.settings = read]
    <2>2. q \in Request /\ q.settings = read
      BY DEF Request
    <2>3. row' = was /\ request' = [request EXCEPT ![o] = q]
      BY <1>2, <1>3, <1>12, <2>1 DEF Reread
    <2> HIDE DEF q
    <2> QED
      BY <1>4, <1>6, <2>1, <2>2, <2>3
  <1>13. CASE RequestThrows(o)
    <2>1. row' = was /\ request' = [request EXCEPT ![o] = NoRequest]
      BY <1>2, <1>13 DEF RequestThrows
    <2> QED
      BY <1>4, <1>5, <1>6, <2>1
  <1> QED
    BY <1>7, <1>8, <1>9, <1>10, <1>11, <1>12, <1>13 DEF Serve

\* Every step of the channel keeps the invariant.
LEMMA TelegramKept == TelegramInv /\ [TelegramNext]_telegramVars => TelegramInv'
  <1> SUFFICES ASSUME TelegramInv, [TelegramNext]_telegramVars PROVE TelegramInv'
    OBVIOUS
  <1>1. work \in [Handlers -> Work]
    BY DEF TelegramInv, TelegramKinds
  <1>2. CASE PollThrows
    BY <1>1, <1>2, PollerWaits DEF PollThrows
  <1>3. CASE Restart
    <2>1. poller' = FreshPoller /\ UNCHANGED <<row, kinds, pending, fates>>
      BY <1>3 DEF Restart
    <2>2. work' \in [Handlers -> Work]
      BY <1>3 DEF Restart, Idle, Work
    <2>3. poller' \in Poller /\ poller'.at = "wait" /\ Covered(poller'.stored.cursor)
      BY <2>1, WaitingIsPoller DEF TelegramInv, TelegramKinds
    <2>4. request' \in [Operators -> Request] /\ \A o \in Operators : Covered(request'[o].settings.cursor)
      BY <1>3, TelegramAssumption
         DEF Restart, NoRequest, Request, RequestKinds, DefaultSettings, Settings, Modes, Covered, Updates
    <2>5. TelegramKinds'
      BY <2>1, <2>2, <2>3, <2>4 DEF TelegramInv, TelegramKinds
    <2>6. SentInOrder' /\ NothingForgotten'
      BY <2>1 DEF TelegramInv, SentInOrder, NothingForgotten, Sent
    <2>7. CursorsCovered' /\ BatchCovers'
      BY <2>1, <2>3, <2>4 DEF TelegramInv, CursorsCovered, Covered, BatchCovers
    <2> QED
      BY <2>5, <2>6, <2>7 DEF TelegramInv
  <1>4. CASE Write
    <2>1. UNCHANGED <<row, poller, work, request, fates>>
      BY <1>4 DEF Write
    <2>2. PICK u \in Updates, kind \in Kinds :
             /\ kinds[u] = "none" /\ \A v \in Updates : v < u => kinds[v] # "none"
             /\ kinds' = [kinds EXCEPT ![u] = kind]
             /\ pending' = pending \cup {u}
      BY <1>4 DEF Write
    <2>3. kinds' \in [Updates -> Kinds \cup {"none"}] /\ pending' \subseteq Updates
      BY <2>2 DEF TelegramInv, TelegramKinds
    <2>4. \A v \in Updates : kinds'[v] # "none" <=> kinds[v] # "none" \/ v = u
      BY <2>2 DEF TelegramInv, TelegramKinds, Kinds
    <2>5. TelegramKinds'
      BY <2>1, <2>3 DEF TelegramInv, TelegramKinds
    <2>6. SentInOrder'
      BY <2>2, <2>3, <2>4 DEF TelegramInv, TelegramKinds, SentInOrder
    <2>7. NothingForgotten'
      BY <2>1, <2>2, <2>4 DEF TelegramInv, NothingForgotten, Sent
    <2>8. CursorsCovered' /\ BatchCovers'
      BY <2>1 DEF TelegramInv, CursorsCovered, Covered, BatchCovers
    <2> QED
      BY <2>5, <2>6, <2>7, <2>8 DEF TelegramInv
  <1>5. ASSUME NEW d \in Deliveries, Deliver(d) PROVE TelegramInv'
    <2>1. UNCHANGED <<row, kinds, pending, poller, request, fates>>
      BY <1>5 DEF Deliver
    <2>2. PICK u \in pending : work' = [work EXCEPT ![d] = [at |-> "receive", update |-> u]]
      BY <1>5 DEF Deliver
    <2>3. [at |-> "receive", update |-> u] \in Work
      BY DEF Work, TelegramInv, TelegramKinds
    <2>4. work' \in [Handlers -> Work]
      BY <1>1, <2>2, <2>3
    <2> QED
      BY <2>1, <2>4, GoesOn
  <1>6. CASE UNCHANGED telegramVars
    BY <1>1, <1>6, GoesOn DEF telegramVars
  <1> QED
    BY <1>2, <1>3, <1>4, <1>5, <1>6, PollKeeps, HandlerKeeps, RequestKeeps DEF TelegramNext

\* Every update sent to the bot is still kept by Telegram or its handling has ended, in a turn, an
\* acknowledgement, a failure or on purpose (startTelegramPolling and the requests that write the
\* same row), whoever overlaps and however often the worker is restarted.
THEOREM NoUpdateForgotten == TelegramSpec => []NothingForgotten
  <1>1. TelegramInv => NothingForgotten
    BY DEF TelegramInv
  <1> QED
    BY TelegramInitial, TelegramKept, <1>1, PTL DEF TelegramSpec

-----------------------------------------------------------------------------
(* One turn for each update *)

Busy(h) == work[h].at # "idle"

\* An update is in one pair of hands at most, and only before its handling has ended.
HandedOnce ==
    /\ \A u \in Updates : kinds[u] = "none" => fates[u] = {} /\ turns[u] = 0
    /\ \A h \in Handlers : Busy(h) =>
          work[h].update \in Updates /\ fates[work[h].update] = {} /\ kinds[work[h].update] # "none"
    /\ \A h, g \in Handlers : Busy(h) /\ Busy(g) /\ h # g => work[h].update # work[g].update

\* An update that made a turn is done, or at its reply.
TurnsCounted ==
    \A u \in Updates :
        \/ turns[u] = 0
        \/ /\ turns[u] = 1
           /\ fates[u] # {} \/ \E h \in Handlers : work[h].update = u /\ work[h].at \in {"reply", "voice"}

\* Either Telegram calls the webhook, and keeps nothing that was handled, or the loop takes
\* updates from its batch.
OneTransport ==
    /\ hook => poller.at # "batch" /\ \A u \in pending : fates[u] = {}
    /\ ~hook => \A d \in Deliveries : ~Busy(d)
    /\ Busy("poll") => poller.at = "batch" /\ work["poll"].update \in poller.batch
                       /\ work["poll"].update <= poller.next

\* Nobody holds a cursor ahead of the row's, and what Telegram keeps though it was handled lies
\* below the one that the loop confirms next.
CursorKept ==
    /\ poller.at # "wait" => poller.stored.cursor = row.settings.cursor
    /\ \A o \in Operators : request[o].settings.cursor <= row.settings.cursor
    /\ poller.at # "batch" => \A u \in pending : fates[u] # {} => u <= row.settings.cursor
    /\ poller.at = "batch" => /\ \A u \in poller.batch : fates[u] = {} /\ kinds[u] # "none"
                              /\ \A u \in pending : fates[u] # {} => u <= poller.next

Orderly == HandedOnce /\ TurnsCounted /\ OneTransport /\ CursorKept
TurnsInv == turns \in [Updates -> Nat] /\ (~disturbed => Orderly)

\* The loop moves on without a batch.
LEMMA NoBatchKeeps ==
    ASSUME TelegramInv, Orderly, UNCHANGED <<row, kinds, pending, work, request, fates, turns>>,
           poller.at # "batch", poller'.at # "batch",
           poller'.at # "wait" => poller'.stored.cursor = row.settings.cursor,
           hook' => hook, ~hook' => \A d \in Deliveries : ~Busy(d)
    PROVE  Orderly'
  <1>1. HandedOnce' /\ TurnsCounted'
    BY DEF Orderly, HandedOnce, TurnsCounted, Busy
  <1>2. OneTransport'
    BY DEF Orderly, OneTransport, Busy
  <1>3. CursorKept'
    BY DEF Orderly, CursorKept
  <1> QED
    BY <1>1, <1>2, <1>3 DEF Orderly

\* The tick and the call that clears the webhook.
LEMMA TickKeepsTurns ==
    ASSUME TelegramInv, Orderly, PollTick \/ PollClear, ~disturbed' PROVE Orderly'
  <1>1. PICK old \in Poller : old = poller
    BY DEF TelegramInv, TelegramKinds
  <1>2. UNCHANGED <<row, kinds, pending, work, request, fates, turns>>
    BY DEF PollTick, PollClear
  <1>3. CASE PollTick
    <2>1. poller.at = "wait" /\ hook' = hook
      BY <1>3 DEF PollTick
    <2>2. poller'.at # "batch" /\ (poller'.at # "wait" => poller'.stored.cursor = row.settings.cursor)
      <3>1. CASE poller' = FreshPoller
        BY <3>1 DEF FreshPoller
      <3>2. CASE poller' = [poller EXCEPT !.at = "clear", !.stored = row.settings]
        BY <1>1, <3>2 DEF Poller
      <3> QED
        BY <1>3, <3>1, <3>2 DEF PollTick
    <2> QED
      BY <1>2, <2>1, <2>2, NoBatchKeeps DEF Orderly, OneTransport
  <1>4. CASE PollClear
    <2>1. poller.at = "clear" /\ poller'.at = "ask" /\ poller'.stored = old.stored
      BY <1>1, <1>4 DEF PollClear, Poller
    <2>2. (hook' => hook) /\ (~hook' => \A d \in Deliveries : ~Busy(d))
      BY <1>4 DEF PollClear, Orderly, OneTransport, Busy
    <2>3. poller'.stored.cursor = row.settings.cursor
      BY <1>1, <2>1 DEF Orderly, CursorKept
    <2> QED
      BY <1>2, <2>1, <2>2, <2>3, NoBatchKeeps
  <1> QED
    BY <1>3, <1>4

\* What getUpdates returns lies above the cursor, where nothing was handled.
LEMMA AskKeepsTurns ==
    ASSUME TelegramInv, Orderly, PollAsk PROVE Orderly'
  <1>1. PICK old \in Poller : old = poller
    BY DEF TelegramInv, TelegramKinds
  <1>2. UNCHANGED <<row, kinds, work, request, fates, turns, hook>> /\ poller.at = "ask"
    BY DEF PollAsk
  <1>3. CASE hook
    <2>1. pending' = pending /\ poller'.at = "wait"
      BY <1>3 DEF PollAsk, Waiting, FreshPoller
    <2> QED
      BY <1>2, <1>3, <2>1, NoBatchKeeps
  <1>4. CASE ~hook
    <2> DEFINE cursor == old.stored.cursor
    <2>1. /\ pending' = {u \in pending : u > cursor}
          /\ poller'.at = "batch" /\ poller'.next = cursor /\ poller'.stored = old.stored
          /\ poller'.batch = FirstOf(pending', BatchLimit)
      BY <1>1, <1>4 DEF PollAsk, Poller
    <2>2. cursor = row.settings.cursor
      BY <1>1, <1>2 DEF Orderly, CursorKept
    <2>3. poller'.batch \subseteq pending' /\ pending' \subseteq Updates
      BY <2>1 DEF FirstOf, TelegramInv, TelegramKinds
    <2>4. \A u \in pending' : u \in pending /\ fates[u] = {} /\ kinds[u] # "none"
      <3>1. SUFFICES ASSUME NEW u \in pending' PROVE u \in pending /\ fates[u] = {} /\ kinds[u] # "none"
        OBVIOUS
      <3>2. u \in pending /\ u > cursor /\ u \in Int /\ cursor \in Int
        BY <2>1, <2>3 DEF Updates, Poller, Settings
      <3>3. ~(u <= row.settings.cursor)
        BY <2>2, <3>2
      <3> QED
        BY <1>2, <3>2, <3>3 DEF Orderly, CursorKept, TelegramInv, SentInOrder
    <2>5. HandedOnce' /\ TurnsCounted'
      BY <1>2 DEF Orderly, HandedOnce, TurnsCounted, Busy
    <2>6. OneTransport'
      BY <1>2, <1>4 DEF Orderly, OneTransport, Busy
    <2>7. CursorKept'
      BY <1>1, <1>2, <2>1, <2>2, <2>3, <2>4 DEF Orderly, CursorKept
    <2> QED
      BY <2>5, <2>6, <2>7 DEF Orderly
  <1> QED
    BY <1>3, <1>4

\* The loop takes up an update that nobody works on: the webhook is not set.
LEMMA TakeKeepsTurns ==
    ASSUME TelegramInv, Orderly, PollTake PROVE Orderly'
  <1>1. PICK old \in Poller : old = poller
    BY DEF TelegramInv, TelegramKinds
  <1>2. UNCHANGED <<row, kinds, pending, hook, request, fates, turns>> /\ poller.at = "batch"
        /\ ~Busy("poll") /\ ~hook
    BY DEF PollTake, Orderly, OneTransport, Busy
  <1>3. PICK u \in old.batch : poller' = [old EXCEPT !.next = Larger(@, u)]
                               /\ work' = [work EXCEPT !["poll"] = [at |-> "receive", update |-> u]]
    BY <1>1 DEF PollTake
  <1>4. u \in Updates /\ fates[u] = {} /\ kinds[u] # "none" /\ old.next \in 0 .. MaxUpdates
    BY <1>1, <1>2 DEF Orderly, CursorKept, Poller
  <1>5. /\ poller'.at = "batch" /\ poller'.batch = old.batch /\ poller'.stored = old.stored
        /\ u <= poller'.next /\ old.next <= poller'.next
        /\ poller'.next \in {u, old.next}
    <2>1. poller'.next = Larger(old.next, u) /\ poller'.at = "batch" /\ poller'.batch = old.batch
          /\ poller'.stored = old.stored
      BY <1>1, <1>2, <1>3 DEF Poller
    <2> QED
      BY <1>4, <2>1 DEF Larger, Updates
  <1>6. /\ work'["poll"] = [at |-> "receive", update |-> u]
        /\ \A d \in Deliveries : work'[d] = work[d] /\ ~Busy(d)
    BY <1>2, <1>3, TelegramAssumption DEF TelegramInv, TelegramKinds, Handlers, Orderly, OneTransport
  <1>7. HandedOnce'
    BY <1>2, <1>4, <1>6 DEF Orderly, HandedOnce, Busy, Handlers
  <1>8. TurnsCounted'
    BY <1>2, <1>6 DEF Orderly, TurnsCounted, Busy, Handlers
  <1>9. OneTransport'
    BY <1>2, <1>3, <1>5, <1>6 DEF Orderly, OneTransport, Busy
  <1>10. CursorKept'
    <2>1. \A v \in pending : fates[v] # {} => v <= poller'.next
      <3> SUFFICES ASSUME NEW v \in pending, fates[v] # {} PROVE v <= poller'.next
        OBVIOUS
      <3>1. v <= old.next /\ v \in Updates
        BY <1>1, <1>2 DEF Orderly, CursorKept, TelegramInv, TelegramKinds
      <3> QED
        BY <1>4, <1>5, <3>1 DEF Updates
    <2> QED
      BY <1>1, <1>2, <1>5, <2>1 DEF Orderly, CursorKept
  <1> QED
    BY <1>7, <1>8, <1>9, <1>10 DEF Orderly

\* The cursor that the loop saves is the row's own from now on.
LEMMA SaveKeepsTurns ==
    ASSUME TelegramInv, Orderly, PollSave, ~disturbed' PROVE Orderly'
  <1>1. PICK old \in Poller, was \in TelegramRow : old = poller /\ was = row
    BY DEF TelegramInv, TelegramKinds
  <1>2. UNCHANGED <<kinds, pending, hook, work, request, fates, turns>> /\ poller.at = "batch"
        /\ ~Busy("poll") /\ poller'.at = "wait"
    BY DEF PollSave, Busy, Waiting, FreshPoller
  <1>3. row'.settings.cursor = old.next /\ was.settings.cursor <= old.next
    <2>1. old.stored.cursor = was.settings.cursor /\ old.next \in Int /\ was.settings.cursor \in Int
          /\ old.stored.cursor \in Int
      BY <1>1, <1>2 DEF Orderly, CursorKept, Poller, TelegramRow, Settings
    <2>2. CASE old.next = old.stored.cursor
      BY <1>1, <2>1, <2>2 DEF PollSave
    <2>3. CASE old.next # old.stored.cursor
      <3>1. PICK saves : saves = [old.stored EXCEPT !.cursor = old.next]
        OBVIOUS
      <3>2. saves.cursor = old.next
        BY <3>1 DEF Poller, Settings
      <3>3. row' = [was EXCEPT !.settings = saves] /\ ~(saves.cursor < was.settings.cursor)
        BY <1>1, <2>3, <3>1 DEF PollSave, SaveSettings
      <3>4. row'.settings = saves
        BY <3>3 DEF TelegramRow
      <3> QED
        BY <2>1, <3>2, <3>3, <3>4
    <2> QED
      BY <2>2, <2>3
  <1>4. HandedOnce' /\ TurnsCounted'
    BY <1>2 DEF Orderly, HandedOnce, TurnsCounted, Busy
  <1>5. OneTransport'
    BY <1>2 DEF Orderly, OneTransport, Busy
  <1>6. CursorKept'
    <2>1. \A o \in Operators : request[o].settings.cursor <= old.next
      <3> SUFFICES ASSUME NEW o \in Operators PROVE request[o].settings.cursor <= old.next
        OBVIOUS
      <3>1. request[o].settings.cursor <= was.settings.cursor /\ request[o].settings.cursor \in Int
        BY <1>1 DEF Orderly, CursorKept, TelegramInv, TelegramKinds, Request, Settings
      <3>2. old.next \in Int /\ was.settings.cursor \in Int
        BY DEF Poller, TelegramRow, Settings
      <3> QED
        BY <1>3, <3>1, <3>2
    <2> QED
      BY <1>1, <1>2, <1>3, <2>1 DEF Orderly, CursorKept
  <1> QED
    BY <1>4, <1>5, <1>6 DEF Orderly

\* Telegram calls the webhook with an update nobody has handled or handles: the loop is idle.
LEMMA DeliverKeepsTurns ==
    ASSUME TelegramInv, Orderly, NEW d \in Deliveries, Deliver(d) PROVE Orderly'
  <1>1. UNCHANGED <<row, kinds, pending, hook, poller, request, fates, turns>> /\ hook
        /\ work[d].at = "idle" /\ ~Busy("poll")
    BY DEF Deliver, Orderly, OneTransport
  <1>2. PICK u \in pending : /\ \A h \in Deliveries : work[h].update # u
                             /\ work' = [work EXCEPT ![d] = [at |-> "receive", update |-> u]]
    BY DEF Deliver
  <1>3. u \in Updates /\ fates[u] = {} /\ kinds[u] # "none"
    BY <1>1 DEF Orderly, OneTransport, TelegramInv, TelegramKinds, SentInOrder
  <1>4. d # "poll" /\ d \in Handlers
    BY TelegramAssumption DEF Handlers
  <1>5. work'[d] = [at |-> "receive", update |-> u] /\ \A h \in Handlers \ {d} : work'[h] = work[h]
    BY <1>2, <1>4 DEF TelegramInv, TelegramKinds
  <1>6. HandedOnce'
    <2>1. \A h \in Handlers \ {d} : Busy(h) => work[h].update # u
      BY <1>1, <1>2 DEF Handlers
    <2> QED
      BY <1>1, <1>3, <1>5, <2>1 DEF Orderly, HandedOnce, Busy
  <1>7. TurnsCounted'
    <2> SUFFICES ASSUME NEW v \in Updates, turns[v] # 0
                 PROVE  turns[v] = 1 /\ (fates[v] # {} \/ \E h \in Handlers : work'[h].update = v /\ work'[h].at \in {"reply", "voice"})
      BY <1>1 DEF TurnsCounted
    <2>1. turns[v] = 1
      BY DEF Orderly, TurnsCounted
    <2> SUFFICES ASSUME fates[v] = {} PROVE \E h \in Handlers : work'[h].update = v /\ work'[h].at \in {"reply", "voice"}
      BY <2>1
    <2>2. PICK h \in Handlers : work[h].update = v /\ work[h].at \in {"reply", "voice"}
      BY DEF Orderly, TurnsCounted
    <2>3. h # d
      BY <1>1, <2>2
    <2> QED
      BY <1>5, <2>1, <2>2, <2>3
  <1>8. OneTransport'
    BY <1>1, <1>4, <1>5 DEF Orderly, OneTransport, Busy, Handlers
  <1>9. CursorKept'
    BY <1>1 DEF Orderly, CursorKept
  <1> QED
    BY <1>6, <1>7, <1>8, <1>9 DEF Orderly

\* A handler that goes on keeps its update; a turn is the first one of its update.
LEMMA StepKeepsTurns ==
    ASSUME TelegramInv, Orderly, NEW h \in Handlers, NEW from \in {"receive", "understand", "turn", "reply"},
           NEW to \in {"understand", "turn", "reply", "voice"}, Step(h, from, to),
           from = "reply" => to = "voice", UNCHANGED <<row, kinds, hook, request>>,
           turns \in [Updates -> Nat],
           \/ UNCHANGED turns
           \/ from = "turn" /\ to = "reply" /\ turns' = [turns EXCEPT ![work[h].update] = @ + 1]
    PROVE  Orderly'
  <1>1. UNCHANGED <<pending, poller, fates>> /\ work[h].at = from /\ from # "idle" /\ to # "idle"
    BY DEF Step
  <1>2. work'[h].at = to /\ work'[h].update = work[h].update /\ \A g \in Handlers \ {h} : work'[g] = work[g]
    BY DEF Step, TelegramInv, TelegramKinds, Work
  <1>3. \A g \in Handlers : (Busy(g)' <=> Busy(g)) /\ work'[g].update = work[g].update
    BY <1>1, <1>2 DEF Busy
  <1> DEFINE u == work[h].update
  <1>4. u \in Updates /\ fates[u] = {} /\ kinds[u] # "none"
    BY <1>1 DEF Orderly, HandedOnce, Busy
  <1>5. HandedOnce'
    BY <1>1, <1>3, <1>4 DEF Orderly, HandedOnce
  <1>6. TurnsCounted'
    <2>1. CASE UNCHANGED turns
      <3>1. \A g \in Handlers : work[g].at \in {"reply", "voice"} => work'[g].at \in {"reply", "voice"}
        BY <1>1, <1>2
      <3> QED
        BY <1>1, <1>3, <2>1, <3>1 DEF Orderly, TurnsCounted
    <2>2. CASE from = "turn" /\ to = "reply" /\ turns' = [turns EXCEPT ![u] = @ + 1]
      <3>1. \A g \in Handlers : work[g].update = u /\ Busy(g) => g = h
        BY <1>1 DEF Orderly, HandedOnce, Busy
      <3>2. turns[u] = 0
        BY <1>1, <1>4, <2>2, <3>1 DEF Orderly, TurnsCounted, Busy
      <3>3. turns'[u] = 1 /\ \A v \in Updates \ {u} : turns'[v] = turns[v]
        BY <1>4, <2>2, <3>2
      <3>4. work'[h].update = u /\ work'[h].at \in {"reply", "voice"}
        BY <1>2, <2>2
      <3>5. \A v \in Updates \ {u}, g \in Handlers : work[g].update = v => work'[g] = work[g]
        BY <1>2
      <3>6. ASSUME NEW v \in Updates \ {u}, turns[v] # 0
            PROVE  turns'[v] = 1 /\ (fates'[v] # {} \/ \E g \in Handlers : work'[g].update = v /\ work'[g].at \in {"reply", "voice"})
        BY <1>1, <3>3, <3>5, <3>6 DEF Orderly, TurnsCounted
      <3> QED
        BY <3>3, <3>4, <3>6 DEF TurnsCounted
    <2> QED
      BY <2>1, <2>2
  <1>7. OneTransport'
    BY <1>1, <1>3 DEF Orderly, OneTransport, Handlers
  <1>8. CursorKept'
    BY <1>1 DEF Orderly, CursorKept
  <1> QED
    BY <1>5, <1>6, <1>7, <1>8 DEF Orderly

\* An update that is done leaves the batch, or Telegram: it is not handed out again.
LEMMA FinishKeepsTurns ==
    ASSUME TelegramInv, Orderly, NEW h \in Handlers, NEW fate \in Fates \ {"failed"}, Finish(h, fate),
           Busy(h), UNCHANGED <<row, kinds, hook, request, turns>>
    PROVE  Orderly'
  <1> DEFINE u == work[h].update
  <1>1. u \in Updates /\ fates[u] = {} /\ kinds[u] # "none"
    BY DEF Orderly, HandedOnce
  <1>2. fates'[u] # {} /\ \A v \in Updates \ {u} : fates'[v] = fates[v]
    BY <1>1 DEF Finish, TelegramInv, TelegramKinds
  <1>3. work'[h] = Idle /\ ~Busy(h)' /\ \A g \in Handlers \ {h} : work'[g] = work[g] /\ (Busy(g)' <=> Busy(g))
    BY DEF Finish, TelegramInv, TelegramKinds, Busy, Idle
  <1>4. \A g \in Handlers \ {h} : Busy(g) => work[g].update # u
    BY DEF Orderly, HandedOnce
  <1>5. HandedOnce'
    BY <1>1, <1>2, <1>3, <1>4 DEF Orderly, HandedOnce
  <1>6. TurnsCounted'
    <2> SUFFICES ASSUME NEW v \in Updates, turns[v] # 0
                 PROVE  turns[v] = 1 /\ (fates'[v] # {} \/ \E g \in Handlers : work'[g].update = v /\ work'[g].at \in {"reply", "voice"})
      BY DEF TurnsCounted
    <2>1. turns[v] = 1
      BY DEF Orderly, TurnsCounted
    <2>2. CASE v = u
      BY <1>2, <2>1, <2>2
    <2>3. CASE v # u
      <3>1. \A g \in Handlers : work[g].update = v => g # h
        BY <2>3
      <3> QED
        BY <1>2, <1>3, <2>1, <2>3, <3>1 DEF Orderly, TurnsCounted
    <2> QED
      BY <2>2, <2>3
  <1>7. PICK old \in Poller : old = poller
    BY DEF TelegramInv, TelegramKinds
  <1>8. CASE h = "poll"
    <2>1. pending' = pending /\ poller' = [old EXCEPT !.batch = @ \ {u}]
      BY <1>7, <1>8 DEF Finish
    <2>2. poller'.batch = old.batch \ {u} /\ poller'.at = old.at /\ poller'.next = old.next
          /\ poller'.stored = old.stored
      BY <2>1 DEF Poller
    <2>3. old.at = "batch" /\ u <= old.next /\ ~hook
      BY <1>7, <1>8 DEF Orderly, OneTransport
    <2>4. OneTransport'
      BY <1>3, <1>8, <2>3, TelegramAssumption DEF Orderly, OneTransport, Handlers
    <2>5. CursorKept'
      BY <1>2, <1>7, <2>1, <2>2, <2>3 DEF Orderly, CursorKept, Poller, TelegramInv, TelegramKinds
    <2> QED
      BY <1>5, <1>6, <2>4, <2>5 DEF Orderly
  <1>9. CASE h # "poll"
    <2>1. poller' = poller /\ pending' = pending \ {u} /\ h \in Deliveries
      BY <1>9 DEF Finish, Handlers
    <2>2. hook /\ poller.at # "batch" /\ ~Busy("poll")
      BY <2>1 DEF Orderly, OneTransport
    <2>3. OneTransport'
      BY <1>2, <1>3, <1>9, <2>1, <2>2 DEF Orderly, OneTransport, Handlers, TelegramInv, TelegramKinds
    <2>4. CursorKept'
      BY <1>2, <2>1, <2>2 DEF Orderly, CursorKept, TelegramInv, TelegramKinds
    <2> QED
      BY <1>5, <1>6, <2>3, <2>4 DEF Orderly
  <1> QED
    BY <1>8, <1>9

\* The handler, whoever called it.
LEMMA HandleKeepsTurns ==
    ASSUME TelegramInv, Orderly, turns \in [Updates -> Nat], NEW h \in Handlers, Handle(h) PROVE Orderly'
  <1>1. UNCHANGED <<row, kinds, hook, request>>
    BY DEF Handle, Receive, Understand, Turn, Reply, ReplyByVoice
  <1>2. ASSUME NEW from \in {"receive", "understand", "reply"}, NEW to \in {"understand", "turn", "voice"},
               Step(h, from, to), from = "reply" => to = "voice", UNCHANGED turns
        PROVE  Orderly'
    BY <1>1, <1>2, StepKeepsTurns
  <1>3. ASSUME NEW fate \in Fates \ {"failed"}, Finish(h, fate), work[h].at # "idle", UNCHANGED turns
        PROVE  Orderly'
    BY <1>1, <1>3, FinishKeepsTurns DEF Busy
  <1>4. CASE Receive(h)
    BY <1>2, <1>3, <1>4 DEF Receive, Fates
  <1>5. CASE Understand(h)
    BY <1>2, <1>3, <1>5 DEF Understand, Fates
  <1>6. CASE Turn(h)
    BY <1>1, <1>6, StepKeepsTurns DEF Turn
  <1>7. CASE Reply(h)
    BY <1>2, <1>3, <1>7 DEF Reply, Fates
  <1>8. CASE ReplyByVoice(h)
    BY <1>3, <1>8 DEF ReplyByVoice, Fates
  <1> QED
    BY <1>4, <1>5, <1>6, <1>7, <1>8 DEF Handle

\* Requests write back the cursor they read, which is the row's own if that does not set it back.
LEMMA RequestKeepsTurns ==
    ASSUME TelegramInv, Orderly, NEW o \in Operators, Ask(o) \/ Serve(o), ~disturbed' PROVE Orderly'
  <1>1. PICK was \in TelegramRow, r \in Request : was = row /\ r = request[o]
    BY DEF TelegramInv, TelegramKinds
  <1>2. UNCHANGED <<kinds, pending, poller, work, fates, turns>>
    BY DEF Ask, Serve, UpdateSettings, TouchPresence, SyncWebhook, RecordSync, Reread, CheckHealth
  <1> DEFINE cursor == was.settings.cursor
  <1>3. r.settings.cursor <= cursor /\ r.settings.cursor \in Int /\ cursor \in Int /\ 0 <= cursor
    BY <1>1 DEF Orderly, CursorKept, Request, TelegramRow, Settings
  <1>4. row'.settings.cursor = cursor
    <2>1. CASE UpdateSettings(o)
      <3>1. PICK saves : saves = [r.settings EXCEPT !.mode = r.mode]
        OBVIOUS
      <3>2. saves.cursor = r.settings.cursor
        BY <3>1 DEF Request, Settings
      <3>3. row' = [was EXCEPT !.enabled = r.enable, !.settings = saves] /\ ~(saves.cursor < cursor)
        BY <1>1, <2>1, <3>1 DEF UpdateSettings
      <3>4. row'.settings = saves
        BY <3>3 DEF TelegramRow
      <3> QED
        BY <1>3, <3>2, <3>3, <3>4
    <2>2. CASE TouchPresence(o)
      <3>1. row' = [was EXCEPT !.settings = r.settings] /\ ~(r.settings.cursor < cursor)
        BY <1>1, <2>2 DEF TouchPresence, SaveSettings
      <3>2. row'.settings = r.settings
        BY <3>1 DEF TelegramRow
      <3> QED
        BY <1>3, <3>1, <3>2
    <2>3. CASE RecordSync(o) \/ CheckHealth(o)
      <3>1. PICK health : row' = [was EXCEPT !.health = health]
        BY <1>1, <2>3 DEF RecordSync, CheckHealth
      <3> QED
        BY <3>1 DEF TelegramRow
    <2>4. CASE Ask(o) \/ SyncWebhook(o) \/ Reread(o)
      BY <1>1, <2>4 DEF Ask, SyncWebhook, Reread
    <2> QED
      BY <2>1, <2>2, <2>3, <2>4 DEF Serve
  <1>5. \A p \in Operators : request'[p].settings.cursor <= cursor
    <2>1. ASSUME NEW q, q.settings.cursor <= cursor, request' = [request EXCEPT ![o] = q]
          PROVE  \A p \in Operators : request'[p].settings.cursor <= cursor
      BY <1>1, <2>1 DEF Orderly, CursorKept, TelegramInv, TelegramKinds
    <2>2. CASE Ask(o)
      <3>1. PICK kind \in RequestKinds, enable \in BOOLEAN, mode \in Modes :
               request' = [request EXCEPT ![o] =
                  [at |-> IF kind = "status" THEN "check" ELSE "act", kind |-> kind,
                   enabled |-> row.enabled, settings |-> row.settings,
                   enable |-> enable, mode |-> mode]]
        BY <2>2 DEF Ask
      <3>2. PICK q : q = [at |-> IF kind = "status" THEN "check" ELSE "act", kind |-> kind,
                          enabled |-> row.enabled, settings |-> row.settings,
                          enable |-> enable, mode |-> mode]
        OBVIOUS
      <3>3. q.settings = was.settings /\ request' = [request EXCEPT ![o] = q]
        BY <1>1, <3>1, <3>2
      <3>4. q.settings.cursor <= cursor
        BY <1>3, <3>3
      <3> QED
        BY <2>1, <3>3, <3>4
    <2>3. CASE UpdateSettings(o)
      <3>1. request' = [request EXCEPT ![o] = [r EXCEPT !.at = "reread"]]
            /\ [r EXCEPT !.at = "reread"].settings = r.settings
        BY <1>1, <2>3 DEF UpdateSettings, Request
      <3> QED
        BY <1>3, <2>1, <3>1
    <2>4. CASE SyncWebhook(o)
      <3>1. request' = [request EXCEPT ![o] = [r EXCEPT !.at = "record"]]
            /\ [r EXCEPT !.at = "record"].settings = r.settings
        BY <1>1, <2>4 DEF SyncWebhook, Request
      <3> QED
        BY <1>3, <2>1, <3>1
    <2>5. CASE Reread(o)
      <3>1. PICK q : q = [r EXCEPT !.at = "check", !.enabled = was.enabled, !.settings = was.settings]
        OBVIOUS
      <3>2. request' = [request EXCEPT ![o] = q]
        BY <1>1, <2>5, <3>1 DEF Reread
      <3>3. q.settings = was.settings
        BY <3>1 DEF Request
      <3>4. q.settings.cursor <= cursor
        BY <1>3, <3>3
      <3> QED
        BY <2>1, <3>2, <3>4
    <2>6. CASE TouchPresence(o) \/ RecordSync(o) \/ CheckHealth(o)
      <3>1. request' = [request EXCEPT ![o] = NoRequest] /\ NoRequest.settings.cursor = 0
        BY <2>6 DEF TouchPresence, RecordSync, CheckHealth, NoRequest, DefaultSettings
      <3> QED
        BY <1>3, <2>1, <3>1
    <2> QED
      BY <2>2, <2>3, <2>4, <2>5, <2>6 DEF Serve
  <1>6. hook' = hook \/ ~Unsettled
    <2>1. CASE SyncWebhook(o)
      BY <2>1, Zenon DEF SyncWebhook
    <2>2. CASE ~SyncWebhook(o)
      BY <2>2 DEF Ask, Serve, UpdateSettings, TouchPresence, RecordSync, Reread, CheckHealth
    <2> QED
      BY <2>1, <2>2
  <1>7. HandedOnce' /\ TurnsCounted'
    BY <1>2 DEF Orderly, HandedOnce, TurnsCounted, Busy
  <1>8. OneTransport'
    <2>1. CASE hook' = hook
      BY <1>2, <2>1 DEF Orderly, OneTransport, Busy
    <2>2. CASE ~Unsettled
      BY <1>2, <2>2 DEF OneTransport, Busy, Unsettled, Handlers
    <2> QED
      BY <1>6, <2>1, <2>2
  <1>9. CursorKept'
    BY <1>1, <1>2, <1>4, <1>5 DEF Orderly, CursorKept
  <1> QED
    BY <1>7, <1>8, <1>9 DEF Orderly

\* A new update is in nobody's hands.
LEMMA WriteKeepsTurns == TelegramInv /\ Orderly /\ Write => Orderly'
  <1> SUFFICES ASSUME TelegramInv, Orderly, Write PROVE Orderly'
    OBVIOUS
  <1>1. UNCHANGED <<row, hook, poller, work, request, fates, turns>>
    BY DEF Write
  <1>2. PICK u \in Updates, kind \in Kinds :
           kinds[u] = "none" /\ kinds' = [kinds EXCEPT ![u] = kind] /\ pending' = pending \cup {u}
    BY DEF Write
  <1>3. kinds'[u] # "none" /\ \A v \in Updates \ {u} : kinds'[v] = kinds[v]
    BY <1>2 DEF TelegramInv, TelegramKinds, Kinds
  <1>4. fates[u] = {}
    BY <1>2 DEF Orderly, HandedOnce
  <1>5. HandedOnce' /\ TurnsCounted'
    BY <1>1, <1>3 DEF Orderly, HandedOnce, TurnsCounted, Busy
  <1>6. OneTransport' /\ CursorKept'
    BY <1>1, <1>2, <1>3, <1>4 DEF Orderly, OneTransport, CursorKept, Busy, TelegramInv, TelegramKinds, Poller
  <1> QED
    BY <1>5, <1>6 DEF Orderly

\* No step undoes the order of an undisturbed channel.
LEMMA TurnsKept == TelegramInv /\ TurnsInv /\ [TelegramNext]_telegramVars => TurnsInv'
  <1> SUFFICES ASSUME TelegramInv, TurnsInv, [TelegramNext]_telegramVars PROVE TurnsInv'
    OBVIOUS
  <1>1. turns' \in [Updates -> Nat]
    <2>1. ASSUME NEW h \in Handlers, Turn(h) PROVE turns' \in [Updates -> Nat]
      <3>1. turns' = [turns EXCEPT ![work[h].update] = @ + 1] /\ turns \in [Updates -> Nat]
        BY <2>1 DEF Turn, TurnsInv
      <3>2. CASE work[h].update \in Updates
        BY <3>1, <3>2
      <3>3. CASE work[h].update \notin Updates
        BY <3>1, <3>3
      <3> QED
        BY <3>2, <3>3
    <2>2. CASE \E h \in Handlers : Handle(h)
      BY <2>1, <2>2 DEF TurnsInv, Handle, Receive, Understand, Reply, ReplyByVoice
    <2>3. CASE ~\E h \in Handlers : Handle(h)
      BY <2>3 DEF TurnsInv, TelegramNext, Poll, PollTick, PollClear, PollAsk, PollTake, PollSave, PollThrows,
                  Restart, Write, Deliver, HandlerThrows, Ask, Serve, UpdateSettings, TouchPresence,
                  SyncWebhook, RecordSync, Reread, CheckHealth, RequestThrows, telegramVars
    <2> QED
      BY <2>2, <2>3
  <1>2. ASSUME ~disturbed' PROVE Orderly'
    <2>1. CASE UNCHANGED telegramVars
      BY <1>2, <2>1 DEF telegramVars, TurnsInv, Orderly, HandedOnce, TurnsCounted, OneTransport, CursorKept, Busy
    <2>2. CASE Poll
      BY <1>2, <2>2, TickKeepsTurns, AskKeepsTurns, TakeKeepsTurns, SaveKeepsTurns
         DEF Poll, PollTick, PollClear, PollAsk, PollTake, PollSave, SaveSettings, TurnsInv
    <2>3. CASE Write \/ \E d \in Deliveries : Deliver(d)
      BY <1>2, <2>3, WriteKeepsTurns, DeliverKeepsTurns DEF Write, Deliver, TurnsInv
    <2>4. CASE \E h \in Handlers : Handle(h)
      BY <1>2, <2>4, HandleKeepsTurns DEF Handle, Receive, Understand, Turn, Reply, ReplyByVoice, TurnsInv
    <2>5. CASE \E o \in Operators : Ask(o) \/ Serve(o)
      <3>1. PICK o \in Operators : Ask(o) \/ Serve(o)
        BY <2>5
      <3>2. ~disturbed
        BY <1>2, <3>1
           DEF Ask, Serve, UpdateSettings, TouchPresence, SaveSettings, SyncWebhook, RecordSync, Reread, CheckHealth
      <3> QED
        BY <1>2, <3>1, <3>2, RequestKeepsTurns DEF TurnsInv
    <2>6. CASE PollThrows \/ Restart \/ (\E h \in Handlers : HandlerThrows(h)) \/ \E o \in Operators : RequestThrows(o)
      BY <1>2, <2>6 DEF PollThrows, Restart, HandlerThrows, RequestThrows
    <2> QED
      BY <2>1, <2>2, <2>3, <2>4, <2>5, <2>6 DEF TelegramNext
  <1> QED
    BY <1>1, <1>2 DEF TurnsInv

\* Nothing is handed out at the beginning.
LEMMA TurnsInitial == TelegramInit => TurnsInv
  <1> SUFFICES ASSUME TelegramInit PROVE TurnsInv
    OBVIOUS
  <1>1. turns \in [Updates -> Nat] /\ pending = {} /\ hook = FALSE /\ \A h \in Handlers : ~Busy(h)
    BY DEF TelegramInit, Idle, Busy
  <1>2. HandedOnce /\ TurnsCounted
    BY <1>1 DEF TelegramInit, HandedOnce, TurnsCounted
  <1>3. OneTransport
    BY <1>1 DEF OneTransport, Handlers
  <1>4. CursorKept
    BY <1>1 DEF TelegramInit, CursorKept, FreshPoller, NoRequest, DefaultRow, DefaultSettings
  <1> QED
    BY <1>1, <1>2, <1>3, <1>4 DEF TurnsInv, Orderly

\* An update makes one turn at most while no call fails, the worker is not restarted, no stale
\* write sets the cursor back and the transport changes only when nothing is under way
\* (handleTelegramWebhookUpdate keeps no record of the updates it has seen).
THEOREM OneTurnForEach == TelegramSpec => []OneTurnEach
  <1>1. TurnsInv => OneTurnEach
    <2> SUFFICES ASSUME TurnsInv, ~disturbed, NEW u \in Updates PROVE turns[u] <= 1
      BY DEF OneTurnEach
    <2> QED
      BY DEF TurnsInv, Orderly, TurnsCounted
  <1> QED
    BY TelegramInitial, TelegramKept, TurnsInitial, TurnsKept, <1>1, PTL DEF TelegramSpec

-----------------------------------------------------------------------------
(* The kinds of all variables *)

\* Requests and faults, counted while there is room for them.
TelegramTally ==
    /\ hook \in BOOLEAN /\ disturbed \in BOOLEAN
    /\ asked \in 0 .. MaxRequests /\ faults \in 0 .. MaxTelegramFaults

\* The row and the webhook are written by requests, the loop and its restarts.
LEMMA TallyKept == TelegramTally /\ [TelegramNext]_telegramVars => TelegramTally'
  <1> SUFFICES ASSUME TelegramTally, [TelegramNext]_telegramVars PROVE TelegramTally'
    OBVIOUS
  <1> USE DEF TelegramTally
  <1>1. CASE Poll
    BY <1>1 DEF Poll, PollTick, PollClear, PollAsk, PollTake, PollSave, SaveSettings
  <1>2. ASSUME faults < MaxTelegramFaults, faults' = faults + 1 PROVE faults' \in 0 .. MaxTelegramFaults
    BY <1>2, TelegramAssumption
  <1>3. CASE PollThrows \/ Restart
    BY <1>2, <1>3 DEF PollThrows, Restart
  <1>4. CASE Write \/ \E d \in Deliveries : Deliver(d)
    BY <1>4 DEF Write, Deliver
  <1>5. ASSUME NEW h \in Handlers, Handle(h) PROVE TelegramTally'
    BY <1>5 DEF Handle, Receive, Understand, Turn, Reply, ReplyByVoice
  <1>6. ASSUME NEW h \in Handlers, HandlerThrows(h) PROVE TelegramTally'
    BY <1>2, <1>6 DEF HandlerThrows
  <1>7. ASSUME NEW o \in Operators, Ask(o) PROVE TelegramTally'
    <2>1. asked' \in 0 .. MaxRequests
      BY <1>7, TelegramAssumption DEF Ask
    <2> QED
      BY <1>7, <2>1 DEF Ask
  <1>8. ASSUME NEW o \in Operators, Serve(o) PROVE TelegramTally'
    BY <1>8 DEF Serve, UpdateSettings, TouchPresence, SyncWebhook, RecordSync, Reread, CheckHealth, SaveSettings
  <1>9. ASSUME NEW o \in Operators, RequestThrows(o) PROVE TelegramTally'
    BY <1>2, <1>9 DEF RequestThrows
  <1>10. CASE UNCHANGED telegramVars
    BY <1>10 DEF telegramVars
  <1> QED
    BY <1>1, <1>3, <1>4, <1>5, <1>6, <1>7, <1>8, <1>9, <1>10 DEF TelegramNext

\* The row, the loop, the handlers and the requests keep the kinds of all their fields.
LEMMA TelegramTypes == TelegramInit /\ [][TelegramNext]_telegramVars => []TelegramTypeOK
  <1>1. TelegramInit => TelegramTally
    <2> SUFFICES ASSUME TelegramInit PROVE TelegramTally
      OBVIOUS
    <2>1. asked \in 0 .. MaxRequests /\ faults \in 0 .. MaxTelegramFaults
      BY TelegramAssumption DEF TelegramInit
    <2> QED
      BY <2>1 DEF TelegramInit, TelegramTally
  <1>2. TelegramInv /\ TurnsInv /\ TelegramTally => TelegramTypeOK
    BY DEF TelegramInv, TelegramKinds, TurnsInv, TelegramTally, TelegramTypeOK
  <1> QED
    BY <1>1, <1>2, TelegramInitial, TelegramKept, TurnsInitial, TurnsKept, TallyKept, PTL

=============================================================================
