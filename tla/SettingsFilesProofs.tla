-------------------------- MODULE SettingsFilesProofs --------------------------
(***************************************************************************)
(* That updates of the settings of agent jobs that overlap lose nothing,   *)
(* and that the two files of inference agree, for any numbers of requests, *)
(* attempts at the lock and deaths of the worker.                          *)
(***************************************************************************)
EXTENDS SettingsFiles, TLAPS

-----------------------------------------------------------------------------
(* Settings of agent jobs *)

JobsKinds ==
    /\ jobsFile \in JobsFile /\ lastSaved \in JobSettings
    /\ user \in [Users -> User] /\ saves \in Values /\ spoilt \in BOOLEAN

\* A saver past the lock has it, and a loader never waits for it.
Held == {"load", "default", "defaulting", "store", "storing", "unlock"}
LockHeld == \A s \in Savers : user[s].at \in Held => lock = s
LoadersRead == \A r \in Loaders : user[r].at \in {"idle", "load", "default", "defaulting"}

\* Who writes is alone past its read.
Before == {"idle", "lock", "load"}
WritesAlone ==
    \A u \in Users : Writing(u) => jobsFile.kind = "torn" /\ \A v \in Users \ {u} : user[v].at \in Before

\* What is in the file, and what was read from it, is what was saved last.
FileIsLast ==
    /\ jobsFile.kind \in {"legacy", "whole"} => jobsFile.value = lastSaved
    /\ jobsFile.kind = "absent" => lastSaved = JobDefaults
ReadIsLast ==
    \A u \in Users : user[u].at \in {"default", "defaulting", "store", "storing"} => user[u].settings = lastSaved

Unspoilt == ~spoilt => WritesAlone /\ FileIsLast /\ ReadIsLast

JobsInv == JobsKinds /\ LockHeld /\ LoadersRead /\ Unspoilt

\* Nobody at all is someone who waits for nothing.
LEMMA NoUserIsUser == NoUser \in User /\ NoUser.at = "idle" /\ 0 \in Values
  <1>1. 0 \in Values
    BY SettingsAssumption DEF Values
  <1>2. JobDefaults \in JobSettings /\ 0 \in 0 .. MaxLockTries
    BY <1>1, SettingsAssumption DEF JobDefaults, JobSettings
  <1> QED
    BY <1>1, <1>2 DEF NoUser, User, Fields

\* Before the first request.
LEMMA JobsInitial == SettingsInit => JobsInv
  <1> SUFFICES ASSUME SettingsInit PROVE JobsInv
    OBVIOUS
  <1>1. JobDefaults \in JobSettings
    BY NoUserIsUser DEF JobDefaults, JobSettings
  <1>2. \A u \in Users : user[u] = NoUser
    BY DEF SettingsInit
  <1>3. jobsFile \in JobsFile /\ jobsFile.kind \in {"absent", "legacy"} /\ jobsFile.value = JobDefaults
    BY <1>1 DEF SettingsInit, JobsFile
  <1>4. user \in [Users -> User] /\ saves \in Values /\ spoilt \in BOOLEAN /\ lastSaved \in JobSettings
    BY <1>1, NoUserIsUser DEF SettingsInit
  <1>5. LockHeld /\ LoadersRead /\ WritesAlone /\ ReadIsLast
    BY <1>2, NoUserIsUser DEF LockHeld, LoadersRead, WritesAlone, ReadIsLast, Held, Writing, Users
  <1>6. FileIsLast
    BY <1>3 DEF FileIsLast, SettingsInit
  <1> QED
    BY <1>3, <1>4, <1>5, <1>6 DEF JobsInv, JobsKinds, Unspoilt

\* A step of u that leaves the lock to whoever else has it.
LEMMA UserSteps ==
    ASSUME JobsInv, NEW u \in Users, NEW q \in User, user' = [user EXCEPT ![u] = q],
           jobsFile' \in JobsFile, lastSaved' \in JobSettings, saves' \in Values, spoilt' \in BOOLEAN,
           u \in Savers /\ q.at \in Held => lock' = u,
           \A s \in Savers \ {u} : lock = s => lock' = s,
           u \in Loaders => q.at \in {"idle", "load", "default", "defaulting"}
    PROVE  JobsKinds' /\ LockHeld' /\ LoadersRead'
  <1>1. user \in [Users -> User] /\ Savers \subseteq Users /\ Loaders \subseteq Users
    BY DEF JobsInv, JobsKinds, Users
  <1>2. user'[u] = q /\ \A v \in Users \ {u} : user'[v] = user[v]
    BY <1>1
  <1>3. JobsKinds'
    BY <1>1 DEF JobsKinds
  <1>4. LockHeld'
    BY <1>1, <1>2 DEF JobsInv, LockHeld
  <1>5. LoadersRead'
    BY <1>1, <1>2 DEF JobsInv, LoadersRead
  <1> QED
    BY <1>3, <1>4, <1>5

\* A step of u that writes nothing.
LEMMA FilesStay ==
    ASSUME JobsInv, NEW u \in Users, NEW q \in User, user' = [user EXCEPT ![u] = q],
           UNCHANGED <<jobsFile, lastSaved>>,
           q.at \notin {"defaulting", "storing"},
           ~spoilt' => /\ ~spoilt
                       /\ q.at \in {"default", "store"} => q.settings = lastSaved
                       /\ q.at \in Before \/ jobsFile.kind # "torn"
    PROVE  Unspoilt'
  <1> SUFFICES ASSUME ~spoilt' PROVE WritesAlone' /\ FileIsLast' /\ ReadIsLast'
    BY DEF Unspoilt
  <1>1. WritesAlone /\ FileIsLast /\ ReadIsLast
    BY DEF JobsInv, Unspoilt
  <1>2. user'[u] = q /\ \A v \in Users \ {u} : user'[v] = user[v]
    BY DEF JobsInv, JobsKinds
  <1>3. WritesAlone'
    BY <1>1, <1>2 DEF WritesAlone, Writing
  <1>4. FileIsLast'
    BY <1>1 DEF FileIsLast
  <1>5. ReadIsLast'
    BY <1>1, <1>2 DEF ReadIsLast
  <1> QED
    BY <1>3, <1>4, <1>5

\* Updates, loads, and the lock.
LEMMA LockKeeps ==
    ASSUME JobsInv, NEW u \in Users, Save(u) \/ Load(u) \/ TryLock(u) \/ Unlock(u)
    PROVE  JobsInv'
  <1>1. PICK old \in User : old = user[u]
    BY DEF JobsInv, JobsKinds
  <1>2. user \in [Users -> User] /\ jobsFile \in JobsFile /\ lastSaved \in JobSettings
        /\ saves \in Values /\ spoilt \in BOOLEAN
    BY DEF JobsInv, JobsKinds
  <1>3. ASSUME NEW q \in User, user' = [user EXCEPT ![u] = q], UNCHANGED <<jobsFile, lastSaved, spoilt>>,
               saves' \in Values, q.at \in Before, u \in Savers /\ q.at = "load" => lock' = u,
               \A s \in Savers \ {u} : lock = s => lock' = s, u \in Loaders => q.at \in {"idle", "load"}
        PROVE  JobsInv'
    <2>1. JobsKinds' /\ LockHeld' /\ LoadersRead'
      BY <1>2, <1>3, UserSteps DEF Held, Before
    <2>2. Unspoilt'
      BY <1>3, FilesStay DEF Before
    <2> QED
      BY <2>1, <2>2 DEF JobsInv
  <1>4. CASE Save(u)
    <2>1. PICK value \in Values : value = saves'
      <3>1. Called
        BY <1>4 DEF Save
      <3>2. saves' \in Values
        BY <1>2, <3>1, SettingsAssumption DEF Called, Values
      <3> QED
        BY <3>2
    <2>2. PICK field \in Fields :
             user' = [user EXCEPT ![u] = [NoUser EXCEPT !.at = "lock", !.field = field, !.value = value]]
      BY <1>4, <2>1 DEF Save
    <2> DEFINE q == [NoUser EXCEPT !.at = "lock", !.field = field, !.value = value]
    <2>3. q \in User /\ q.at = "lock"
      BY NoUserIsUser DEF User
    <2>4. u \notin Loaders /\ UNCHANGED <<jobsFile, lastSaved, spoilt, lock>>
      BY <1>4, SettingsAssumption DEF Save
    <2>5. user' = [user EXCEPT ![u] = q] /\ saves' \in Values
      BY <2>1, <2>2
    <2> HIDE DEF q
    <2> QED
      BY <1>3, <2>3, <2>4, <2>5 DEF Before
  <1>5. CASE Load(u)
    <2> DEFINE q == [old EXCEPT !.at = "load"]
    <2>1. q \in User /\ q.at = "load"
      BY DEF User
    <2>2. u \notin Savers /\ UNCHANGED <<jobsFile, lastSaved, spoilt, lock>> /\ saves' \in Values
      BY <1>2, <1>5, SettingsAssumption DEF Load, Called, Values
    <2>3. user' = [user EXCEPT ![u] = q]
      BY <1>1, <1>2, <1>5 DEF Load, Steps
    <2> HIDE DEF q
    <2> QED
      BY <1>3, <2>1, <2>2, <2>3 DEF Before
  <1>6. CASE TryLock(u)
    <2>1. UNCHANGED <<jobsFile, lastSaved, spoilt, saves>> /\ u \notin Loaders
      <3>1. old.at = "lock"
        BY <1>1, <1>6 DEF TryLock
      <3> QED
        BY <1>1, <1>6, <3>1 DEF TryLock, JobsInv, LoadersRead
    <2>2. CASE lock = "none"
      <3> DEFINE q == [old EXCEPT !.at = "load"]
      <3>1. q \in User /\ q.at = "load"
        BY DEF User
      <3>2. user' = [user EXCEPT ![u] = q] /\ lock' = u
        BY <1>1, <1>2, <1>6, <2>2 DEF TryLock, Steps
      <3>3. \A s \in Savers : lock # s
        BY <2>2, SettingsAssumption
      <3> HIDE DEF q
      <3> QED
        BY <1>2, <1>3, <2>1, <3>1, <3>2, <3>3 DEF Before
    <2>3. CASE lock # "none"
      <3>1. PICK q \in User : user' = [user EXCEPT ![u] = q] /\ q.at \in {"idle", "lock"}
        <4>1. CASE old.tries + 1 < MaxLockTries
          <5>1. PICK tries \in 0 .. MaxLockTries : tries = old.tries + 1
            BY <4>1, SettingsAssumption DEF User
          <5> DEFINE q == [old EXCEPT !.tries = tries]
          <5>2. q \in User /\ q.at = "lock"
            BY <1>1, <1>6 DEF User, TryLock
          <5>3. user' = [user EXCEPT ![u].tries = @ + 1]
            BY <1>1, <1>6, <2>3, <4>1 DEF TryLock
          <5>4. user' = [user EXCEPT ![u] = q]
            BY <1>1, <1>2, <5>1, <5>3
          <5> HIDE DEF q
          <5> QED
            BY <5>2, <5>4
        <4>2. CASE ~(old.tries + 1 < MaxLockTries)
          BY <1>1, <1>2, <1>6, <2>3, <4>2, NoUserIsUser DEF TryLock
        <4> QED
          BY <4>1, <4>2
      <3>2. lock' = lock
        BY <1>6, <2>3 DEF TryLock
      <3> QED
        BY <1>2, <1>3, <2>1, <3>1, <3>2 DEF Before
    <2> QED
      BY <2>2, <2>3
  <1>7. CASE Unlock(u)
    <2>1. UNCHANGED <<jobsFile, lastSaved, spoilt, saves>> /\ old.at = "unlock" /\ lock' = "none"
          /\ user' = [user EXCEPT ![u] = NoUser]
      BY <1>1, <1>7 DEF Unlock
    <2>2. u \in Savers
      BY <1>1, <2>1 DEF JobsInv, LoadersRead, Users
    <2>3. lock = u
      BY <1>1, <2>1, <2>2 DEF JobsInv, LockHeld, Held
    <2> QED
      BY <1>2, <1>3, <2>1, <2>3, NoUserIsUser DEF Before
  <1> QED
    BY <1>4, <1>5, <1>6, <1>7

\* A read finds what was saved last, or half a file.
LEMMA ReadKeeps ==
    ASSUME JobsInv, NEW u \in Users, ReadJobs(u)
    PROVE  JobsInv'
  <1>1. PICK old \in User : old = user[u]
    BY DEF JobsInv, JobsKinds
  <1>2. user \in [Users -> User] /\ jobsFile \in JobsFile /\ lastSaved \in JobSettings
        /\ saves \in Values /\ spoilt \in BOOLEAN /\ JobDefaults \in JobSettings
    BY NoUserIsUser DEF JobsInv, JobsKinds, JobDefaults, JobSettings
  <1>3. PICK settings \in JobSettings, at \in {"default", "store", "idle"} :
           /\ settings = IF jobsFile.kind \in {"legacy", "whole"} THEN jobsFile.value ELSE JobDefaults
           /\ at = IF jobsFile.kind # "whole" THEN "default" ELSE IF u \in Savers THEN "store" ELSE "idle"
    BY <1>2 DEF JobsFile
  <1> DEFINE q == [old EXCEPT !.settings = settings, !.at = at]
  <1>4. q \in User /\ q.at = at /\ q.settings = settings
    BY DEF User
  <1>5. user' = [user EXCEPT ![u] = q]
    BY <1>1, <1>2, <1>3 DEF ReadJobs
  <1>6. UNCHANGED <<jobsFile, lock, lastSaved, saves>> /\ spoilt' = (spoilt \/ jobsFile.kind = "torn")
        /\ old.at = "load"
    BY <1>1 DEF ReadJobs
  <1>7. u \in Savers => lock = u
    BY <1>1, <1>6 DEF JobsInv, LockHeld, Held
  <1>8. u \in Loaders => at \in {"idle", "default"}
    BY <1>3, SettingsAssumption
  <1>9. spoilt' \in BOOLEAN /\ (~spoilt' => ~spoilt /\ jobsFile.kind # "torn")
    BY <1>6
  <1> HIDE DEF q
  <1>10. JobsKinds' /\ LockHeld' /\ LoadersRead'
    BY <1>2, <1>4, <1>5, <1>6, <1>7, <1>8, <1>9, UserSteps
  <1>11. ~spoilt' => settings = lastSaved
    <2> SUFFICES ASSUME ~spoilt' PROVE settings = lastSaved
      OBVIOUS
    <2>1. FileIsLast /\ jobsFile.kind \in {"absent", "legacy", "whole"}
      BY <1>2, <1>9 DEF JobsInv, Unspoilt, JobsFile
    <2> QED
      BY <1>3, <2>1 DEF FileIsLast
  <1>12. Unspoilt'
    BY <1>3, <1>4, <1>5, <1>6, <1>9, <1>11, FilesStay
  <1> QED
    BY <1>10, <1>12 DEF JobsInv

\* A write that begins meets nobody who writes or has read, unless that is recorded.
LEMMA BeginKeeps ==
    ASSUME JobsInv, NEW u \in Users, BeginWrite(u)
    PROVE  JobsInv'
  <1>1. PICK old \in User : old = user[u]
    BY DEF JobsInv, JobsKinds
  <1>2. user \in [Users -> User] /\ jobsFile \in JobsFile /\ lastSaved \in JobSettings
        /\ saves \in Values /\ spoilt \in BOOLEAN
    BY DEF JobsInv, JobsKinds
  <1>3. PICK at \in {"defaulting", "storing"} :
           at = IF old.at = "default" THEN "defaulting" ELSE "storing"
    OBVIOUS
  <1> DEFINE q == [old EXCEPT !.at = at]
  <1>4. q \in User /\ q.at = at /\ q.settings = old.settings
    BY DEF User
  <1>5. user' = [user EXCEPT ![u] = q] /\ old.at \in {"default", "store"}
    BY <1>1, <1>2, <1>3 DEF BeginWrite, Steps
  <1>6. UNCHANGED <<lock, lastSaved, saves>> /\ spoilt' = (spoilt \/ Meets(u))
    BY DEF BeginWrite
  <1>7. jobsFile' \in JobsFile /\ jobsFile'.kind = "torn"
    BY <1>2 DEF BeginWrite, JobsFile
  <1>8. spoilt' \in BOOLEAN /\ (~spoilt' => ~spoilt /\ ~Meets(u))
    <2>1. Meets(u) \in BOOLEAN
      BY DEF Meets
    <2> QED
      BY <1>2, <1>6, <2>1
  <1>9. u \in Savers => lock = u
    BY <1>1, <1>5 DEF JobsInv, LockHeld, Held
  <1>10. u \in Loaders => at = "defaulting"
    BY <1>1, <1>3, <1>5 DEF JobsInv, LoadersRead
  <1> HIDE DEF q
  <1>11. JobsKinds' /\ LockHeld' /\ LoadersRead'
    BY <1>2, <1>4, <1>5, <1>6, <1>7, <1>8, <1>9, <1>10, UserSteps
  <1>12. ASSUME ~spoilt' PROVE WritesAlone' /\ FileIsLast' /\ ReadIsLast'
    <2>1. user'[u] = q /\ \A v \in Users \ {u} : user'[v] = user[v]
      BY <1>2, <1>5
    <2>2. \A v \in Users \ {u} : user[v].at \in Before
      <3> SUFFICES ASSUME NEW v \in Users \ {u}, user[v].at \notin Before PROVE FALSE
        OBVIOUS
      <3>1. u \in Savers /\ v \in Savers
        BY <1>8, <1>12 DEF Meets, Before, Users
      <3>2. user[v].at \in Held
        <4>1. user[v] \in User
          BY <1>2
        <4> QED
          BY <4>1 DEF User, Held, Before
      <3> QED
        BY <1>9, <3>1, <3>2 DEF JobsInv, LockHeld
    <2>3. WritesAlone'
      BY <1>7, <2>1, <2>2 DEF WritesAlone, Writing, Before
    <2>4. FileIsLast'
      BY <1>7 DEF FileIsLast
    <2>5. ReadIsLast'
      BY <1>1, <1>4, <1>5, <1>6, <1>8, <1>12, <2>1 DEF JobsInv, Unspoilt, ReadIsLast
    <2> QED
      BY <2>3, <2>4, <2>5
  <1> QED
    BY <1>11, <1>12 DEF JobsInv, Unspoilt

\* A write that ends leaves what is now saved last: what was read, with the change.
LEMMA EndKeeps ==
    ASSUME JobsInv, NEW u \in Users, EndWrite(u)
    PROVE  JobsInv'
  <1>1. PICK old \in User : old = user[u]
    BY DEF JobsInv, JobsKinds
  <1>2. user \in [Users -> User] /\ jobsFile \in JobsFile /\ lastSaved \in JobSettings
        /\ saves \in Values /\ spoilt \in BOOLEAN
    BY DEF JobsInv, JobsKinds
  <1>3. old.at \in {"defaulting", "storing"} /\ UNCHANGED <<lock, spoilt, saves>>
    BY <1>1 DEF EndWrite, Writing
  <1>4. PICK at \in {"unlock", "store", "idle"} :
           at = CASE old.at = "storing" -> "unlock" [] old.at # "storing" /\ u \in Savers -> "store" [] OTHER -> "idle"
    OBVIOUS
  <1>5. Patched(u, old.settings) \in JobSettings /\ Patched(u, lastSaved) \in JobSettings
    BY <1>1, <1>2 DEF Patched, JobSettings, User
  <1>6. PICK value \in JobSettings : value = IF old.at = "storing" THEN Patched(u, old.settings) ELSE old.settings
    BY <1>5 DEF User
  <1>7. lastSaved' = IF old.at = "storing" THEN Patched(u, lastSaved) ELSE lastSaved
    BY <1>1 DEF EndWrite
  <1>8. PICK kind \in {"whole", "torn"} :
           /\ jobsFile' = [kind |-> kind, value |-> value]
           /\ kind = "torn" => \E v \in Users \ {u} : Writing(v)
    BY <1>1, <1>6 DEF EndWrite
  <1> DEFINE q == [old EXCEPT !.at = at]
  <1>9. q \in User /\ q.at = at /\ q.settings = old.settings
    BY DEF User
  <1>10. user' = [user EXCEPT ![u] = q]
    BY <1>1, <1>2, <1>4 DEF EndWrite, Steps
  <1>11. u \in Savers => lock = u
    BY <1>1, <1>3 DEF JobsInv, LockHeld, Held
  <1>12. u \in Loaders => at = "idle"
    <2>1. u \in Loaders => u \notin Savers /\ old.at # "storing"
      BY <1>1, SettingsAssumption DEF JobsInv, LoadersRead
    <2> QED
      BY <1>4, <2>1
  <1>13. jobsFile' \in JobsFile /\ lastSaved' \in JobSettings
    BY <1>2, <1>5, <1>7, <1>8 DEF JobsFile
  <1> HIDE DEF q
  <1>14. JobsKinds' /\ LockHeld' /\ LoadersRead'
    BY <1>2, <1>3, <1>9, <1>10, <1>11, <1>12, <1>13, UserSteps
  <1>15. ASSUME ~spoilt' PROVE WritesAlone' /\ FileIsLast' /\ ReadIsLast'
    <2>1. user'[u] = q /\ \A v \in Users \ {u} : user'[v] = user[v]
      BY <1>2, <1>10
    <2>2. WritesAlone /\ FileIsLast /\ ReadIsLast
      BY <1>3, <1>15 DEF JobsInv, Unspoilt
    <2>3. \A v \in Users \ {u} : user[v].at \in Before
      BY <1>1, <1>3, <2>2 DEF WritesAlone, Writing
    <2>4. old.settings = lastSaved
      BY <1>1, <1>3, <2>2 DEF ReadIsLast
    <2>5. jobsFile'.kind = "whole" /\ jobsFile'.value = lastSaved'
      BY <1>6, <1>7, <1>8, <2>3, <2>4 DEF Writing, Before
    <2>6. WritesAlone'
      BY <1>4, <1>9, <2>1, <2>3 DEF WritesAlone, Writing, Before
    <2>7. FileIsLast'
      BY <2>5 DEF FileIsLast
    <2>8. ReadIsLast'
      <3>1. at = "store" => old.settings = lastSaved'
        BY <1>4, <1>7, <2>4
      <3> QED
        BY <1>4, <1>9, <2>1, <2>3, <3>1 DEF ReadIsLast, Before
    <2> QED
      BY <2>6, <2>7, <2>8
  <1> QED
    BY <1>14, <1>15 DEF JobsInv, Unspoilt

\* Every step keeps the invariant.
LEMMA JobsKept == JobsInv /\ [SettingsNext]_settingsVars => JobsInv'
  <1> SUFFICES ASSUME JobsInv, [SettingsNext]_settingsVars PROVE JobsInv'
    OBVIOUS
  <1>1. user \in [Users -> User] /\ jobsFile \in JobsFile /\ lastSaved \in JobSettings
        /\ saves \in Values /\ spoilt \in BOOLEAN
    BY DEF JobsInv, JobsKinds
  <1>2. ASSUME UNCHANGED jobsVars, saves' \in Values PROVE JobsInv'
    BY <1>1, <1>2 DEF JobsInv, JobsKinds, LockHeld, LoadersRead, Unspoilt, WritesAlone, Writing, FileIsLast,
                      ReadIsLast, jobsVars
  <1>3. ASSUME NEW l \in InferenceUsers,
               Link(l) \/ ReadConf(l) \/ ReadKeys(l) \/ BeginConf(l) \/ EndConf(l) \/ BeginKeys(l) \/ EndKeys(l)
        PROVE  JobsInv'
    <2>1. UNCHANGED jobsVars
      BY <1>3 DEF Link, ReadConf, ReadKeys, BeginConf, EndConf, BeginKeys, EndKeys
    <2>2. saves' \in Values
      <3>1. saves' = saves \/ Called
        BY <1>3 DEF Link, ReadConf, ReadKeys, BeginConf, EndConf, BeginKeys, EndKeys
      <3> QED
        BY <1>1, <3>1, SettingsAssumption DEF Called, Values
    <2> QED
      BY <1>2, <2>1, <2>2
  <1>4. CASE Die
    <2>1. user' = [u \in Users |-> NoUser] /\ spoilt' = TRUE /\ UNCHANGED <<jobsFile, lastSaved, saves>>
      BY <1>4 DEF Die
    <2> QED
      BY <1>1, <2>1, NoUserIsUser
         DEF JobsInv, JobsKinds, LockHeld, LoadersRead, Unspoilt, Held, Users
  <1>5. CASE DeleteFiles
    <2>1. UNCHANGED <<lock, user>> /\ jobsFile' = [kind |-> "absent", value |-> JobDefaults]
          /\ lastSaved' = JobDefaults
          /\ spoilt' = (spoilt \/ \E u \in Users : user[u].at \notin {"idle", "lock"})
      BY <1>5 DEF DeleteFiles
    <2>2. saves' \in Values /\ JobDefaults \in JobSettings
      BY <1>1, <1>5, NoUserIsUser, SettingsAssumption DEF DeleteFiles, Called, Values, JobDefaults, JobSettings
    <2>3. spoilt' \in BOOLEAN
      BY <1>1, <2>1
    <2>4. jobsFile' \in JobsFile /\ jobsFile'.kind = "absent"
      BY <2>1, <2>2 DEF JobsFile
    <2>5. ASSUME ~spoilt' PROVE WritesAlone' /\ FileIsLast' /\ ReadIsLast'
      <3>1. \A u \in Users : user'[u].at \in {"idle", "lock"}
        BY <2>1, <2>5
      <3> QED
        BY <2>1, <2>4, <3>1 DEF WritesAlone, Writing, FileIsLast, ReadIsLast
    <2> QED
      BY <1>1, <2>1, <2>2, <2>3, <2>4, <2>5 DEF JobsInv, JobsKinds, LockHeld, LoadersRead, Unspoilt
  <1>6. CASE UNCHANGED settingsVars
    BY <1>1, <1>2, <1>6 DEF settingsVars, jobsVars
  <1> QED
    BY <1>3, <1>4, <1>5, <1>6, LockKeeps, ReadKeeps, BeginKeeps, EndKeeps DEF SettingsNext

\* Updates of different fields that overlap lose nothing (updateAgentJobSettings under
\* withSettingsLock), as long as nobody wrote without the lock where another did and no worker
\* died: for any numbers of savers, loaders and attempts.
THEOREM LockedUpdatesLast == SettingsSpec => []NoUpdateLost
  <1>1. JobsInv => NoUpdateLost
    BY DEF JobsInv, Unspoilt, FileIsLast, NoUpdateLost
  <1> QED
    BY JobsInitial, JobsKept, <1>1, PTL DEF SettingsSpec

-----------------------------------------------------------------------------
(* Settings of inference *)

LinkKinds ==
    /\ conf \in File /\ keys \in File /\ linker \in [InferenceUsers -> Linker]
    /\ lastLinked \in [host : Values, key : Values] /\ saves \in Values /\ tangledUp \in BOOLEAN
    /\ overtaken \subseteq Speakers

\* A turn only reads.
SpeakersRead == \A l \in Speakers : linker[l].at \in {"idle", "conf", "keys"} /\ linker[l].new = {}

\* A turn that no save has met is under way while no saver is.
Unmet == \A s \in Speakers \ overtaken : linker[s].at # "idle" => \A l \in Linkers : linker[l].at = "idle"

\* One saver at a time.
OneLinks == \A l, m \in Linkers : linker[l].at # "idle" /\ linker[m].at # "idle" => l = m

\* What a request that has read a host or a key will leave of it.
HostToBe(l) == IF "host" \in linker[l].new THEN linker[l].number ELSE lastLinked.host
KeyToBe(l) == IF "key" \in linker[l].new THEN linker[l].number ELSE lastLinked.key
LinkersHold ==
    \A l \in InferenceUsers \ overtaken :
        /\ linker[l].at \in {"keys", "saveConf", "savingConf", "saveKeys", "savingKeys"}
               => linker[l].host = HostToBe(l)
        /\ linker[l].at \in {"saveConf", "savingConf", "saveKeys", "savingKeys"}
               => linker[l].key = KeyToBe(l)

\* A file has what was saved last, unless the request that saves more has begun to write it.
ConfFits ==
    /\ \A l \in InferenceUsers : linker[l].at \in {"saveKeys", "savingKeys"} => ValueOf(conf) = linker[l].host
    /\ \/ ValueOf(conf) = lastLinked.host
       \/ \E l \in InferenceUsers : linker[l].at \in {"savingConf", "saveKeys", "savingKeys"}
KeysFit == ValueOf(keys) = lastLinked.key \/ \E l \in InferenceUsers : linker[l].at = "savingKeys"

PairsFit == <<lastLinked.host, lastLinked.key>> \in savedPairs /\ usedPairs \subseteq savedPairs

Untangled == ~tangledUp => OneLinks /\ LinkersHold /\ ConfFits /\ KeysFit /\ PairsFit

LinkInv == LinkKinds /\ SpeakersRead /\ Unmet /\ Untangled

LEMMA NoLinkerIsLinker == NoLinker \in Linker /\ NoLinker.at = "idle" /\ NoLinker.new = {} /\ 0 \in Values
  <1>1. 0 \in Values
    BY SettingsAssumption DEF Values
  <1> QED
    BY <1>1 DEF NoLinker, Linker

\* Before the first request.
LEMMA LinkInitial == SettingsInit => LinkInv
  <1> SUFFICES ASSUME SettingsInit PROVE LinkInv
    OBVIOUS
  <1>1. NoFile \in File /\ ValueOf(NoFile) = 0
    BY NoLinkerIsLinker DEF NoFile, File, ValueOf
  <1>2. \A l \in InferenceUsers : linker[l] = NoLinker
    BY DEF SettingsInit
  <1>3. LinkKinds
    BY <1>1, NoLinkerIsLinker DEF SettingsInit, LinkKinds
  <1>4. SpeakersRead /\ Unmet
    BY <1>2, NoLinkerIsLinker DEF SpeakersRead, Unmet, InferenceUsers
  <1>5. OneLinks /\ LinkersHold
    BY <1>2, NoLinkerIsLinker DEF OneLinks, LinkersHold, InferenceUsers
  <1>6. ConfFits /\ KeysFit
    BY <1>1, <1>2, NoLinkerIsLinker DEF SettingsInit, ConfFits, KeysFit
  <1>7. PairsFit
    BY DEF SettingsInit, PairsFit
  <1> QED
    BY <1>3, <1>4, <1>5, <1>6, <1>7 DEF LinkInv, Untangled

\* A saver that is under way is the only one, as long as none have overlapped; what the files have
\* then follows from how far it is.
LEMMA Alone ==
    ASSUME LinkInv, ~tangledUp, NEW l \in Linkers, linker[l].at # "idle"
    PROVE  /\ \A m \in Linkers \ {l} : linker[m].at = "idle"
           /\ linker[l].at \in {"saveKeys", "savingKeys"} => ValueOf(conf) = linker[l].host
           /\ ValueOf(conf) = lastLinked.host \/ linker[l].at \in {"savingConf", "saveKeys", "savingKeys"}
           /\ ValueOf(keys) = lastLinked.key \/ linker[l].at = "savingKeys"
           /\ linker[l].at \in {"keys", "saveConf", "savingConf", "saveKeys", "savingKeys"} => linker[l].host = HostToBe(l)
           /\ linker[l].at \in {"saveConf", "savingConf", "saveKeys", "savingKeys"} => linker[l].key = KeyToBe(l)
           /\ PairsFit
  <1>1. OneLinks /\ LinkersHold /\ ConfFits /\ KeysFit /\ PairsFit
    BY DEF LinkInv, Untangled
  <1>2. \A m \in Linkers \ {l} : linker[m].at = "idle"
    BY <1>1 DEF OneLinks
  <1>3. \A m \in InferenceUsers \ {l} : linker[m].at \in {"idle", "conf", "keys"}
    BY <1>2 DEF LinkInv, SpeakersRead, InferenceUsers
  <1>4. l \in InferenceUsers \ overtaken
    BY SettingsAssumption DEF LinkInv, LinkKinds, InferenceUsers
  <1>5. /\ linker[l].at \in {"saveKeys", "savingKeys"} => ValueOf(conf) = linker[l].host
        /\ ValueOf(conf) = lastLinked.host \/ linker[l].at \in {"savingConf", "saveKeys", "savingKeys"}
    BY <1>1, <1>3, <1>4 DEF ConfFits
  <1>6. ValueOf(keys) = lastLinked.key \/ linker[l].at = "savingKeys"
    BY <1>1, <1>3, <1>4 DEF KeysFit
  <1> QED
    BY <1>1, <1>2, <1>4, <1>5, <1>6 DEF LinkersHold

\* While no saver is under way, the files have what was saved last.
LEMMA FilesRest ==
    ASSUME LinkInv, ~tangledUp, \A l \in Linkers : linker[l].at = "idle"
    PROVE  ValueOf(conf) = lastLinked.host /\ ValueOf(keys) = lastLinked.key
  <1>1. \A l \in InferenceUsers : linker[l].at \in {"idle", "conf", "keys"}
    BY DEF LinkInv, SpeakersRead, InferenceUsers
  <1> QED
    BY <1>1 DEF LinkInv, Untangled, ConfFits, KeysFit

\* A step of the saver l, if it is the only one and has met the turns that are under way.
LEMMA SaverSteps ==
    ASSUME LinkInv, NEW l \in Linkers, NEW q \in Linker, linker' = [linker EXCEPT ![l] = q],
           conf' \in File, keys' \in File, lastLinked' \in [host : Values, key : Values],
           saves' \in Values, tangledUp' \in BOOLEAN, overtaken' \subseteq Speakers,
           \A s \in Speakers \ overtaken' : linker[s].at = "idle",
           ~tangledUp' =>
               /\ \A m \in Linkers \ {l} : linker[m].at = "idle"
               /\ q.at \in {"keys", "saveConf", "savingConf", "saveKeys", "savingKeys"}
                      => q.host = IF "host" \in q.new THEN q.number ELSE lastLinked'.host
               /\ q.at \in {"saveConf", "savingConf", "saveKeys", "savingKeys"}
                      => q.key = IF "key" \in q.new THEN q.number ELSE lastLinked'.key
               /\ q.at \in {"saveKeys", "savingKeys"} => ValueOf(conf') = q.host
               /\ ValueOf(conf') = lastLinked'.host \/ q.at \in {"savingConf", "saveKeys", "savingKeys"}
               /\ ValueOf(keys') = lastLinked'.key \/ q.at = "savingKeys"
               /\ PairsFit'
    PROVE  LinkInv'
  <1>1. /\ linker \in [InferenceUsers -> Linker] /\ l \in InferenceUsers
        /\ \A s \in Speakers : s \in InferenceUsers /\ s # l
        /\ \A m \in InferenceUsers : m \in Linkers \/ m \in Speakers
    BY SettingsAssumption DEF LinkInv, LinkKinds, InferenceUsers
  <1>2. linker'[l] = q /\ \A m \in InferenceUsers \ {l} : linker'[m] = linker[m]
    BY <1>1
  <1>3. LinkKinds'
    BY <1>1 DEF LinkKinds
  <1>4. SpeakersRead' /\ Unmet'
    BY <1>1, <1>2 DEF LinkInv, SpeakersRead, Unmet
  <1>5. ASSUME ~tangledUp' PROVE OneLinks' /\ LinkersHold' /\ ConfFits' /\ KeysFit' /\ PairsFit'
    <2>1. \A m \in Linkers \ {l} : linker'[m].at = "idle"
      BY <1>2, <1>5 DEF InferenceUsers
    <2>2. \A m \in InferenceUsers \ {l} : linker'[m].at \in {"idle", "conf", "keys"}
                                          /\ (m \notin overtaken' => linker'[m].at = "idle")
      BY <1>1, <1>2, <2>1 DEF LinkInv, SpeakersRead
    <2>3. OneLinks'
      BY <2>1 DEF OneLinks
    <2>4. LinkersHold'
      BY <1>2, <1>5, <2>2 DEF LinkersHold, HostToBe, KeyToBe
    <2>5. ConfFits'
      BY <1>1, <1>2, <1>5, <2>2 DEF ConfFits, ValueOf
    <2>6. KeysFit'
      BY <1>1, <1>2, <1>5 DEF KeysFit, ValueOf
    <2> QED
      BY <1>5, <2>3, <2>4, <2>5, <2>6
  <1> QED
    BY <1>3, <1>4, <1>5 DEF LinkInv, Untangled

\* A step of the turn l, which only reads, and notes whether a save has met it.
LEMMA SpeakerSteps ==
    ASSUME LinkInv, NEW l \in Speakers, NEW q \in Linker, linker' = [linker EXCEPT ![l] = q],
           q.at \in {"idle", "conf", "keys"}, q.new = {}, saves' \in Values,
           UNCHANGED <<conf, keys, lastLinked, savedPairs, tangledUp>>,
           overtaken' \subseteq Speakers, \A s \in Speakers \ {l} : s \in overtaken' <=> s \in overtaken,
           q.at # "idle" /\ l \notin overtaken' => \A m \in Linkers : linker[m].at = "idle",
           ~tangledUp /\ q.at = "keys" /\ l \notin overtaken' => q.host = lastLinked.host,
           ~tangledUp => usedPairs' \subseteq savedPairs
    PROVE  LinkInv'
  <1>1. /\ linker \in [InferenceUsers -> Linker] /\ l \in InferenceUsers
        /\ \A m \in Linkers : m \in InferenceUsers /\ m # l /\ m \notin overtaken /\ m \notin overtaken'
        /\ \A m \in InferenceUsers : m \in Linkers \/ m \in Speakers
    BY SettingsAssumption DEF LinkInv, LinkKinds, InferenceUsers
  <1>2. linker'[l] = q /\ \A m \in InferenceUsers \ {l} : linker'[m] = linker[m]
    BY <1>1
  <1>3. LinkKinds'
    BY <1>1 DEF LinkInv, LinkKinds
  <1>4. SpeakersRead'
    BY <1>1, <1>2 DEF LinkInv, SpeakersRead, InferenceUsers
  <1>5. Unmet'
    BY <1>1, <1>2 DEF LinkInv, Unmet, InferenceUsers
  <1>6. ASSUME ~tangledUp' PROVE OneLinks' /\ LinkersHold' /\ ConfFits' /\ KeysFit' /\ PairsFit'
    <2>1. OneLinks /\ LinkersHold /\ ConfFits /\ KeysFit /\ PairsFit /\ ~tangledUp
      BY <1>6 DEF LinkInv, Untangled
    <2>2. OneLinks'
      BY <1>1, <1>2, <2>1 DEF OneLinks
    <2>3. LinkersHold'
      <3>1. ASSUME NEW m \in InferenceUsers \ overtaken', m # l
            PROVE  m \in InferenceUsers \ overtaken /\ linker'[m] = linker[m]
        BY <1>1, <1>2, <3>1
      <3> QED
        BY <1>2, <2>1, <3>1 DEF LinkersHold, HostToBe, KeyToBe
    <2>4. linker[l].at \in {"idle", "conf", "keys"}
      BY DEF LinkInv, SpeakersRead
    <2>5. ConfFits' /\ KeysFit'
      BY <1>2, <2>1, <2>4 DEF ConfFits, KeysFit, ValueOf
    <2>6. PairsFit'
      BY <2>1 DEF PairsFit
    <2> QED
      BY <2>2, <2>3, <2>5, <2>6
  <1> QED
    BY <1>3, <1>4, <1>5, <1>6 DEF LinkInv, Untangled

\* A request begins, alone or not.
LEMMA LinkBegins ==
    ASSUME LinkInv, NEW l \in InferenceUsers, Link(l)
    PROVE  LinkInv'
  <1>1. conf \in File /\ keys \in File /\ lastLinked \in [host : Values, key : Values] /\ saves \in Values
        /\ tangledUp \in BOOLEAN /\ overtaken \subseteq Speakers
    BY DEF LinkInv, LinkKinds
  <1>2. PICK number \in Values : number = saves'
    <2>1. Called
      BY DEF Link
    <2>2. saves' \in Values
      BY <1>1, <2>1, SettingsAssumption DEF Called, Values
    <2> QED
      BY <2>2
  <1>3. PICK new \in SUBSET {"host", "key"} :
           /\ new = {} <=> l \in Speakers
           /\ linker' = [linker EXCEPT ![l] = [NoLinker EXCEPT !.at = "conf", !.new = new, !.number = number]]
    BY <1>2 DEF Link
  <1> DEFINE q == [NoLinker EXCEPT !.at = "conf", !.new = new, !.number = number]
  <1>4. q \in Linker /\ q.at = "conf" /\ q.new = new
    BY NoLinkerIsLinker DEF Linker
  <1>5. UNCHANGED <<conf, keys, lastLinked, usedPairs, savedPairs>>
    BY DEF Link
  <1>6. linker' = [linker EXCEPT ![l] = q] /\ saves' \in Values
    BY <1>2, <1>3
  <1> HIDE DEF q
  <1>7. CASE l \in Linkers
    <2>1. l \notin Speakers /\ overtaken' = overtaken \cup Speaking /\ tangledUp' = (tangledUp \/ Saving)
      BY <1>7, SettingsAssumption DEF Link
    <2>2. tangledUp' \in BOOLEAN /\ overtaken' \subseteq Speakers
      BY <1>1, <2>1 DEF Saving, Speaking
    <2>3. \A s \in Speakers \ overtaken' : linker[s].at = "idle"
      BY <2>1 DEF Speaking
    <2>4. ASSUME ~tangledUp'
          PROVE  /\ \A m \in Linkers : linker[m].at = "idle"
                 /\ ValueOf(conf') = lastLinked'.host /\ ValueOf(keys') = lastLinked'.key /\ PairsFit'
      <3>1. (\A m \in Linkers : linker[m].at = "idle") /\ PairsFit /\ ~tangledUp
        BY <2>1, <2>4 DEF Saving, LinkInv, Untangled
      <3>2. ValueOf(conf) = lastLinked.host /\ ValueOf(keys) = lastLinked.key
        BY <3>1, FilesRest
      <3> QED
        BY <1>5, <3>1, <3>2 DEF PairsFit, ValueOf
    <2>5. conf' \in File /\ keys' \in File /\ lastLinked' \in [host : Values, key : Values]
      BY <1>1, <1>5
    <2> QED
      BY <1>4, <1>6, <1>7, <2>2, <2>3, <2>4, <2>5, SaverSteps
  <1>8. CASE l \in Speakers
    <2>1. /\ l \notin Linkers /\ q.new = {} /\ UNCHANGED tangledUp
          /\ overtaken' = IF Saving THEN overtaken \cup {l} ELSE overtaken \ {l}
      BY <1>1, <1>3, <1>4, <1>8, SettingsAssumption DEF Link
    <2>2. overtaken' \subseteq Speakers /\ \A s \in Speakers \ {l} : s \in overtaken' <=> s \in overtaken
      BY <1>1, <1>8, <2>1
    <2>3. l \notin overtaken' => \A m \in Linkers : linker[m].at = "idle"
      BY <2>1 DEF Saving
    <2>4. ~tangledUp => usedPairs' \subseteq savedPairs
      BY <1>5 DEF LinkInv, Untangled, PairsFit
    <2> QED
      BY <1>4, <1>5, <1>6, <1>8, <2>1, <2>2, <2>3, <2>4, SpeakerSteps
  <1> QED
    BY <1>7, <1>8 DEF InferenceUsers

\* A turn reads the host, and then the key, and uses them.
LEMMA SpeakerReads ==
    ASSUME LinkInv, NEW l \in Speakers, ReadConf(l) \/ ReadKeys(l)
    PROVE  LinkInv'
  <1>1. /\ saves \in Values /\ linker \in [InferenceUsers -> Linker] /\ l \in InferenceUsers
        /\ conf \in File /\ keys \in File /\ overtaken \subseteq Speakers
    BY DEF LinkInv, LinkKinds, InferenceUsers
  <1>2. PICK old \in Linker : old = linker[l]
    BY <1>1
  <1>3. UNCHANGED <<conf, keys, lastLinked, savedPairs, overtaken, tangledUp, saves>> /\ old.at \in {"conf", "keys"}
    BY <1>2 DEF ReadConf, ReadKeys
  <1>4. old.new = {}
    BY <1>2 DEF LinkInv, SpeakersRead
  <1>5. l \notin overtaken => \A m \in Linkers : linker[m].at = "idle"
    BY <1>2, <1>3 DEF LinkInv, Unmet
  <1>6. ~tangledUp /\ l \notin overtaken =>
          /\ ValueOf(conf) = lastLinked.host /\ ValueOf(keys) = lastLinked.key
          /\ old.at = "keys" => old.host = lastLinked.host
    <2> SUFFICES ASSUME ~tangledUp, l \notin overtaken
                 PROVE  /\ ValueOf(conf) = lastLinked.host /\ ValueOf(keys) = lastLinked.key
                        /\ old.at = "keys" => old.host = lastLinked.host
      OBVIOUS
    <2>1. LinkersHold
      BY DEF LinkInv, Untangled
    <2>2. old.at = "keys" => old.host = lastLinked.host
      BY <1>1, <1>2, <1>4, <2>1 DEF LinkersHold, HostToBe
    <2> QED
      BY <1>5, <2>2, FilesRest
  <1>7. ~tangledUp => PairsFit
    BY DEF LinkInv, Untangled
  <1>8. CASE ReadConf(l)
    <2>1. PICK host \in Values : host = ValueOf(conf)
      BY <1>1, NoLinkerIsLinker DEF ValueOf, File
    <2> DEFINE q == [old EXCEPT !.at = "keys", !.host = host]
    <2>2. q \in Linker /\ q.at = "keys" /\ q.host = host /\ q.new = old.new
      BY DEF Linker
    <2>3. linker' = [linker EXCEPT ![l] = q] /\ usedPairs' = usedPairs
      BY <1>1, <1>2, <1>4, <1>8, <2>1 DEF ReadConf
    <2> HIDE DEF q
    <2>4. ~tangledUp => usedPairs' \subseteq savedPairs
      BY <1>7, <2>3 DEF PairsFit
    <2> QED
      BY <1>1, <1>3, <1>4, <1>5, <1>6, <2>1, <2>2, <2>3, <2>4, SpeakerSteps
  <1>9. CASE ReadKeys(l)
    <2>1. /\ linker' = [linker EXCEPT ![l] = NoLinker] /\ old.at = "keys"
          /\ usedPairs' = IF l \in overtaken THEN usedPairs ELSE usedPairs \cup {<<old.host, ValueOf(keys)>>}
      BY <1>2, <1>9 DEF ReadKeys
    <2>2. ~tangledUp => usedPairs' \subseteq savedPairs
      BY <1>6, <1>7, <2>1 DEF PairsFit
    <2> QED
      BY <1>1, <1>3, <2>1, <2>2, NoLinkerIsLinker, SpeakerSteps
  <1> QED
    BY <1>8, <1>9

\* What a saver that is under way keeps of the turns, and of who else saves.
LEMMA SaverUnderWay ==
    ASSUME LinkInv, NEW l \in Linkers, linker[l].at # "idle"
    PROVE  (\A s \in Speakers \ overtaken : linker[s].at = "idle") /\ l \notin Speakers /\ l \in InferenceUsers
  BY SettingsAssumption DEF LinkInv, Unmet, InferenceUsers

\* A saver reads the host, and then the key.
LEMMA SaverReads ==
    ASSUME LinkInv, NEW l \in Linkers, ReadConf(l) \/ ReadKeys(l)
    PROVE  LinkInv'
  <1>1. /\ conf \in File /\ keys \in File /\ lastLinked \in [host : Values, key : Values]
        /\ saves \in Values /\ linker \in [InferenceUsers -> Linker] /\ tangledUp \in BOOLEAN
        /\ overtaken \subseteq Speakers /\ l \in InferenceUsers
    BY DEF LinkInv, LinkKinds, InferenceUsers
  <1>2. PICK old \in Linker : old = linker[l]
    BY <1>1
  <1>3. UNCHANGED <<conf, keys, lastLinked, savedPairs, overtaken, tangledUp, saves>> /\ old.at \in {"conf", "keys"}
    BY <1>2 DEF ReadConf, ReadKeys
  <1>4. ValueOf(conf) \in Values /\ ValueOf(keys) \in Values
    BY <1>1, NoLinkerIsLinker DEF ValueOf, File
  <1>5. (\A s \in Speakers \ overtaken : linker[s].at = "idle") /\ l \notin Speakers
    BY <1>2, <1>3, SaverUnderWay
  <1>6. ~tangledUp => /\ \A m \in Linkers \ {l} : linker[m].at = "idle"
                      /\ ValueOf(conf) = lastLinked.host /\ ValueOf(keys) = lastLinked.key /\ PairsFit
                      /\ old.at = "keys" => old.host = IF "host" \in old.new THEN old.number ELSE lastLinked.host
    BY <1>2, <1>3, Alone DEF HostToBe
  <1>7. ASSUME NEW q \in Linker, linker' = [linker EXCEPT ![l] = q], usedPairs' = usedPairs,
               q.at \in {"keys", "saveConf"},
               ~tangledUp =>
                   /\ q.host = IF "host" \in q.new THEN q.number ELSE lastLinked.host
                   /\ q.at = "saveConf" => q.key = IF "key" \in q.new THEN q.number ELSE lastLinked.key
        PROVE  LinkInv'
    <2>1. ValueOf(conf') = ValueOf(conf) /\ ValueOf(keys') = ValueOf(keys)
      BY <1>3
    <2>2. ~tangledUp => PairsFit'
      BY <1>3, <1>6, <1>7 DEF PairsFit
    <2> QED
      BY <1>1, <1>3, <1>5, <1>6, <1>7, <2>1, <2>2, SaverSteps
  <1>8. CASE ReadConf(l)
    <2>1. PICK host \in Values : host = IF "host" \in old.new THEN old.number ELSE ValueOf(conf)
      BY <1>4 DEF Linker
    <2> DEFINE q == [old EXCEPT !.at = "keys", !.host = host]
    <2>2. q \in Linker /\ q.at = "keys" /\ q.host = host /\ q.new = old.new /\ q.number = old.number
      BY DEF Linker
    <2>3. linker' = [linker EXCEPT ![l] = q] /\ usedPairs' = usedPairs
      BY <1>1, <1>2, <1>8, <2>1 DEF ReadConf
    <2> HIDE DEF q
    <2> QED
      BY <1>6, <1>7, <2>1, <2>2, <2>3
  <1>9. CASE ReadKeys(l)
    <2>1. PICK key \in Values : key = IF "key" \in old.new THEN old.number ELSE ValueOf(keys)
      BY <1>4 DEF Linker
    <2> DEFINE q == [old EXCEPT !.at = "saveConf", !.key = key]
    <2>2. q \in Linker /\ q.at = "saveConf" /\ q.key = key /\ q.host = old.host /\ q.new = old.new
          /\ q.number = old.number
      BY DEF Linker
    <2>3. linker' = [linker EXCEPT ![l] = q] /\ usedPairs' = usedPairs /\ old.at = "keys"
      BY <1>1, <1>2, <1>5, <1>9, <2>1 DEF ReadKeys
    <2> HIDE DEF q
    <2> QED
      BY <1>6, <1>7, <2>1, <2>2, <2>3
  <1> QED
    BY <1>8, <1>9

\* A request writes the host, and then the key.
LEMMA LinkWrites ==
    ASSUME LinkInv, NEW l \in InferenceUsers, BeginConf(l) \/ EndConf(l) \/ BeginKeys(l) \/ EndKeys(l)
    PROVE  LinkInv'
  <1>1. /\ conf \in File /\ keys \in File /\ lastLinked \in [host : Values, key : Values]
        /\ saves \in Values /\ linker \in [InferenceUsers -> Linker] /\ tangledUp \in BOOLEAN
        /\ overtaken \subseteq Speakers
    BY DEF LinkInv, LinkKinds
  <1>2. PICK old \in Linker : old = linker[l]
    BY <1>1
  <1>3. UNCHANGED <<usedPairs, overtaken, tangledUp, saves>> /\ old.at \in {"saveConf", "savingConf", "saveKeys", "savingKeys"}
    BY <1>2 DEF BeginConf, EndConf, BeginKeys, EndKeys
  <1>4. l \in Linkers /\ \A s \in Speakers \ overtaken : linker[s].at = "idle"
    <2>1. l \notin Speakers
      BY <1>2, <1>3 DEF LinkInv, SpeakersRead
    <2>2. l \in Linkers
      BY <2>1 DEF InferenceUsers
    <2> QED
      BY <1>2, <1>3, <2>2, SaverUnderWay
  <1>5. ~tangledUp => /\ \A m \in Linkers \ {l} : linker[m].at = "idle"
                      /\ old.host = IF "host" \in old.new THEN old.number ELSE lastLinked.host
                      /\ old.key = IF "key" \in old.new THEN old.number ELSE lastLinked.key
                      /\ old.at = "savingKeys" \/ ValueOf(keys) = lastLinked.key
                      /\ old.at \in {"saveKeys", "savingKeys"}
                             => ValueOf(conf) = old.host
                      /\ PairsFit
    BY <1>2, <1>3, <1>4, Alone DEF HostToBe, KeyToBe
  <1>6. ASSUME NEW at \in {"savingConf", "saveKeys", "savingKeys"}, linker' = [linker EXCEPT ![l].at = at],
               UNCHANGED <<lastLinked, savedPairs>>, conf' \in File, keys' \in File,
               ~tangledUp => /\ at \in {"saveKeys", "savingKeys"} => ValueOf(conf') = old.host
                             /\ ValueOf(keys') = lastLinked.key \/ at = "savingKeys"
        PROVE  LinkInv'
    <2> DEFINE q == [old EXCEPT !.at = at]
    <2>1. q \in Linker /\ q.at = at /\ q.host = old.host /\ q.key = old.key /\ q.new = old.new
          /\ q.number = old.number
      BY DEF Linker
    <2>2. linker' = [linker EXCEPT ![l] = q]
      BY <1>1, <1>2, <1>6
    <2> HIDE DEF q
    <2>3. ~tangledUp => PairsFit'
      BY <1>3, <1>5, <1>6 DEF PairsFit
    <2>4. ~tangledUp' =>
               /\ \A m \in Linkers \ {l} : linker[m].at = "idle"
               /\ q.at \in {"keys", "saveConf", "savingConf", "saveKeys", "savingKeys"}
                      => q.host = IF "host" \in q.new THEN q.number ELSE lastLinked'.host
               /\ q.at \in {"saveConf", "savingConf", "saveKeys", "savingKeys"}
                      => q.key = IF "key" \in q.new THEN q.number ELSE lastLinked'.key
               /\ q.at \in {"saveKeys", "savingKeys"} => ValueOf(conf') = q.host
               /\ ValueOf(conf') = lastLinked'.host \/ q.at \in {"savingConf", "saveKeys", "savingKeys"}
               /\ ValueOf(keys') = lastLinked'.key \/ q.at = "savingKeys"
               /\ PairsFit'
      BY <1>3, <1>5, <1>6, <2>1, <2>3
    <2>5. lastLinked' \in [host : Values, key : Values] /\ saves' \in Values /\ tangledUp' \in BOOLEAN
          /\ overtaken' \subseteq Speakers /\ \A s \in Speakers \ overtaken' : linker[s].at = "idle"
      BY <1>1, <1>3, <1>4, <1>6
    <2> QED
      BY <1>4, <1>6, <2>1, <2>2, <2>4, <2>5, SaverSteps
  <1>7. CASE BeginConf(l)
    <2>1. old.at = "saveConf" /\ UNCHANGED <<keys, lastLinked, savedPairs>>
          /\ linker' = [linker EXCEPT ![l].at = "savingConf"]
      BY <1>2, <1>7 DEF BeginConf
    <2>2. conf' \in File
      BY <1>1, <1>7 DEF BeginConf, File
    <2>3. ValueOf(keys') = ValueOf(keys)
      BY <2>1
    <2> QED
      BY <1>1, <1>5, <1>6, <2>1, <2>2, <2>3
  <1>8. CASE EndConf(l)
    <2>1. old.at = "savingConf" /\ UNCHANGED <<keys, lastLinked, savedPairs>>
          /\ linker' = [linker EXCEPT ![l].at = "saveKeys"]
          /\ conf' = [kind |-> "whole", value |-> old.host]
      BY <1>2, <1>8 DEF EndConf
    <2>2. conf' \in File /\ ValueOf(conf') = old.host
      BY <2>1 DEF File, Linker, ValueOf
    <2>3. ValueOf(keys') = ValueOf(keys)
      BY <2>1
    <2> QED
      BY <1>1, <1>5, <1>6, <2>1, <2>2, <2>3
  <1>9. CASE BeginKeys(l)
    <2>1. old.at = "saveKeys" /\ UNCHANGED <<conf, lastLinked, savedPairs>>
          /\ linker' = [linker EXCEPT ![l].at = "savingKeys"]
      BY <1>2, <1>9 DEF BeginKeys
    <2>2. keys' \in File
      BY <1>1, <1>9 DEF BeginKeys, File
    <2>3. ValueOf(conf') = ValueOf(conf)
      BY <2>1
    <2> QED
      BY <1>1, <1>5, <1>6, <2>1, <2>2, <2>3
  <1>10. CASE EndKeys(l)
    <2> DEFINE host == IF "host" \in old.new THEN old.number ELSE lastLinked.host
               key == IF "key" \in old.new THEN old.number ELSE lastLinked.key
    <2>1. host \in Values /\ key \in Values
      BY <1>1 DEF Linker
    <2>2. /\ old.at = "savingKeys" /\ UNCHANGED conf
          /\ keys' = [kind |-> "whole", value |-> old.key]
          /\ lastLinked' = [host |-> host, key |-> key]
          /\ savedPairs' = savedPairs \cup {<<host, key>>}
          /\ linker' = [linker EXCEPT ![l] = NoLinker]
      BY <1>2, <1>10 DEF EndKeys
    <2>3. keys' \in File /\ ValueOf(keys') = old.key
      BY <2>2 DEF File, Linker, ValueOf
    <2>4. ValueOf(conf') = ValueOf(conf)
      BY <2>2
    <2>5. lastLinked' \in [host : Values, key : Values] /\ lastLinked'.host = host /\ lastLinked'.key = key
      BY <2>1, <2>2
    <2>6. ~tangledUp => PairsFit'
      BY <1>3, <1>5, <2>2, <2>5 DEF PairsFit
    <2>7. ~tangledUp => ValueOf(conf) = host /\ old.key = key
      BY <1>5, <2>2
    <2> HIDE DEF host, key
    <2> QED
      BY <1>1, <1>3, <1>4, <1>5, <2>2, <2>3, <2>4, <2>5, <2>6, <2>7, NoLinkerIsLinker, SaverSteps
  <1> QED
    BY <1>7, <1>8, <1>9, <1>10

\* Every step keeps the invariant.
LEMMA LinkKept == LinkInv /\ [SettingsNext]_settingsVars => LinkInv'
  <1> SUFFICES ASSUME LinkInv, [SettingsNext]_settingsVars PROVE LinkInv'
    OBVIOUS
  <1>1. /\ conf \in File /\ keys \in File /\ lastLinked \in [host : Values, key : Values]
        /\ saves \in Values /\ linker \in [InferenceUsers -> Linker] /\ tangledUp \in BOOLEAN
        /\ overtaken \subseteq Speakers
    BY DEF LinkInv, LinkKinds
  <1>2. ASSUME UNCHANGED inferenceVars, saves' \in Values PROVE LinkInv'
    BY <1>1, <1>2 DEF LinkInv, LinkKinds, SpeakersRead, Unmet, Untangled, OneLinks, LinkersHold, HostToBe, KeyToBe,
                      ConfFits, KeysFit, PairsFit, ValueOf, inferenceVars
  <1>3. ASSUME NEW u \in Users,
               Save(u) \/ Load(u) \/ TryLock(u) \/ ReadJobs(u) \/ BeginWrite(u) \/ EndWrite(u) \/ Unlock(u)
        PROVE  LinkInv'
    <2>1. UNCHANGED inferenceVars
      BY <1>3 DEF Save, Load, TryLock, ReadJobs, BeginWrite, EndWrite, Unlock
    <2>2. saves' = saves \/ Called
      BY <1>3 DEF Save, Load, TryLock, ReadJobs, BeginWrite, EndWrite, Unlock
    <2>3. saves' \in Values
      BY <1>1, <2>2, SettingsAssumption DEF Called, Values
    <2> QED
      BY <1>2, <2>1, <2>3
  <1>4. CASE Die
    <2>1. linker' = [l \in InferenceUsers |-> NoLinker] /\ tangledUp' = (tangledUp \/ Saving)
          /\ UNCHANGED <<conf, keys, lastLinked, saves, usedPairs, savedPairs, overtaken>>
      BY <1>4 DEF Die
    <2>2. \A l \in InferenceUsers : linker'[l] = NoLinker
      BY <2>1
    <2>3. LinkKinds' /\ SpeakersRead' /\ Unmet'
      BY <1>1, <2>1, <2>2, NoLinkerIsLinker DEF LinkKinds, SpeakersRead, Unmet, Saving, InferenceUsers
    <2>4. ASSUME ~tangledUp' PROVE OneLinks' /\ LinkersHold' /\ ConfFits' /\ KeysFit' /\ PairsFit'
      <3>1. ~tangledUp /\ \A l \in Linkers : linker[l].at = "idle"
        BY <2>1, <2>4 DEF Saving
      <3>2. ValueOf(conf) = lastLinked.host /\ ValueOf(keys) = lastLinked.key /\ PairsFit
        BY <3>1, FilesRest DEF LinkInv, Untangled
      <3>3. OneLinks' /\ LinkersHold'
        BY <2>2, NoLinkerIsLinker DEF OneLinks, LinkersHold, InferenceUsers
      <3>4. ConfFits' /\ KeysFit' /\ PairsFit'
        BY <2>1, <2>2, <3>2, NoLinkerIsLinker DEF ConfFits, KeysFit, PairsFit, ValueOf
      <3> QED
        BY <3>3, <3>4
    <2> QED
      BY <2>3, <2>4 DEF LinkInv, Untangled
  <1>5. CASE DeleteFiles
    <2>1. /\ UNCHANGED <<linker, usedPairs>> /\ conf' = NoFile /\ keys' = NoFile
          /\ lastLinked' = [host |-> 0, key |-> 0] /\ savedPairs' = savedPairs \cup {<<0, 0>>}
          /\ tangledUp' = (tangledUp \/ Saving) /\ overtaken' = overtaken \cup Speaking
      BY <1>5 DEF DeleteFiles
    <2>2. saves' \in Values /\ tangledUp' \in BOOLEAN /\ overtaken' \subseteq Speakers
      BY <1>1, <1>5, <2>1, SettingsAssumption DEF DeleteFiles, Called, Values, Saving, Speaking
    <2>3. NoFile \in File /\ ValueOf(NoFile) = 0 /\ [host |-> 0, key |-> 0] \in [host : Values, key : Values]
      BY NoLinkerIsLinker DEF NoFile, File, ValueOf
    <2>4. LinkKinds' /\ SpeakersRead' /\ Unmet'
      BY <1>1, <2>1, <2>2, <2>3 DEF LinkInv, LinkKinds, SpeakersRead, Unmet, Speaking
    <2>5. ASSUME ~tangledUp' PROVE OneLinks' /\ LinkersHold' /\ ConfFits' /\ KeysFit' /\ PairsFit'
      <3>0. ~tangledUp /\ \A l \in Linkers : linker[l].at = "idle"
        BY <1>1, <2>1, <2>5 DEF Saving
      <3>1. /\ \A l \in InferenceUsers \ overtaken' : linker[l].at = "idle"
            /\ \A l \in InferenceUsers : linker[l].at \in {"idle", "conf", "keys"}
            /\ ~tangledUp
        BY <2>1, <3>0 DEF Speaking, InferenceUsers, LinkInv, SpeakersRead
      <3>2. OneLinks' /\ LinkersHold'
        BY <2>1, <3>0, <3>1 DEF OneLinks, LinkersHold
      <3>3. ValueOf(conf') = 0 /\ ValueOf(keys') = 0 /\ lastLinked'.host = 0 /\ lastLinked'.key = 0
        BY <2>1, <2>3
      <3>4. ConfFits' /\ KeysFit'
        BY <2>1, <3>1, <3>3 DEF ConfFits, KeysFit, ValueOf
      <3>5. PairsFit'
        BY <2>1, <3>1, <3>3 DEF LinkInv, Untangled, PairsFit
      <3> QED
        BY <3>2, <3>4, <3>5
    <2> QED
      BY <2>4, <2>5 DEF LinkInv, Untangled
  <1>6. CASE UNCHANGED settingsVars
    BY <1>1, <1>2, <1>6 DEF settingsVars, inferenceVars
  <1> QED
    BY <1>3, <1>4, <1>5, <1>6, LinkBegins, SpeakerReads, SaverReads, LinkWrites DEF SettingsNext, InferenceUsers

\* Whatever turns read them meanwhile and wherever the worker dies between saves, the endpoint and
\* the key on disk are those that were saved, as long as no two savers overlap and none is cut short
\* or meets a reset; and a turn that no save meets sends no key to an endpoint it was not saved with
\* (updateInferenceSettings, getInferenceRuntimeConfig).
THEOREM KeysGoHome == SettingsSpec => []KeyFitsHost
  <1>1. LinkInv => KeyFitsHost
    <2> SUFFICES ASSUME LinkInv, ~tangledUp
                 PROVE  /\ usedPairs \subseteq savedPairs
                        /\ ~Saving => ValueOf(conf) = lastLinked.host /\ ValueOf(keys) = lastLinked.key
      BY DEF KeyFitsHost
    <2>1. PairsFit
      BY DEF LinkInv, Untangled
    <2> QED
      BY <2>1, FilesRest DEF PairsFit, Saving
  <1> QED
    BY LinkInitial, LinkKept, <1>1, PTL DEF SettingsSpec

-----------------------------------------------------------------------------
(* The kinds of all variables *)

\* The lock is nobody's or a saver's; what went wrong is counted while there is room for it.
LockIsKnown == lock \in Savers \cup {"none"}
SettingsTally ==
    /\ saves \in 0 .. MaxSaves /\ fileFaults \in 0 .. MaxFileFaults
    /\ tangledUp \in BOOLEAN
PairsSaved ==
    /\ usedPairs \subseteq Values \X Values /\ savedPairs \subseteq Values \X Values

\* Only savers take the lock.
LEMMA LockKept == JobsInv /\ LockIsKnown /\ [SettingsNext]_settingsVars => LockIsKnown'
  <1> SUFFICES ASSUME JobsInv, LockIsKnown, [SettingsNext]_settingsVars PROVE LockIsKnown'
    OBVIOUS
  <1>1. ASSUME NEW u \in Users, TryLock(u) PROVE LockIsKnown'
    <2>1. u \in Savers
      BY <1>1 DEF TryLock, JobsInv, LoadersRead, Users
    <2> QED
      BY <1>1, <2>1 DEF TryLock, LockIsKnown
  <1>2. ASSUME NEW u \in Users, Save(u) \/ Load(u) \/ ReadJobs(u) \/ BeginWrite(u) \/ EndWrite(u) PROVE lock' = lock
    BY <1>2 DEF Save, Load, ReadJobs, BeginWrite, EndWrite
  <1>3. ASSUME NEW u \in Users, Unlock(u) PROVE lock' = "none"
    BY <1>3 DEF Unlock
  <1>4. ASSUME NEW l \in InferenceUsers,
               Link(l) \/ ReadConf(l) \/ ReadKeys(l) \/ BeginConf(l) \/ EndConf(l) \/ BeginKeys(l) \/ EndKeys(l)
        PROVE  lock' = lock
    BY <1>4 DEF Link, ReadConf, ReadKeys, BeginConf, EndConf, BeginKeys, EndKeys, jobsVars
  <1>5. CASE Die \/ DeleteFiles \/ UNCHANGED settingsVars
    BY <1>5 DEF Die, DeleteFiles, settingsVars, LockIsKnown
  <1> QED
    BY <1>1, <1>2, <1>3, <1>4, <1>5 DEF SettingsNext, LockIsKnown

\* Saves and faults have their bounds.
LEMMA SettingsTallied == SettingsTally /\ [SettingsNext]_settingsVars => SettingsTally'
  <1> SUFFICES ASSUME SettingsTally, [SettingsNext]_settingsVars PROVE SettingsTally'
    OBVIOUS
  <1> USE DEF SettingsTally
  <1>1. ASSUME Called PROVE saves' \in 0 .. MaxSaves
    BY <1>1, SettingsAssumption DEF Called
  <1>2. ASSUME NEW u \in Users, Save(u) \/ Load(u) PROVE SettingsTally'
    BY <1>1, <1>2 DEF Save, Load, inferenceVars
  <1>3. ASSUME NEW u \in Users, TryLock(u) \/ ReadJobs(u) \/ BeginWrite(u) \/ EndWrite(u) \/ Unlock(u) PROVE SettingsTally'
    BY <1>3 DEF TryLock, ReadJobs, BeginWrite, EndWrite, Unlock, inferenceVars
  <1>4. ASSUME NEW l \in InferenceUsers, Link(l) PROVE SettingsTally'
    BY <1>1, <1>4 DEF Link
  <1>5. ASSUME NEW l \in InferenceUsers,
               ReadConf(l) \/ ReadKeys(l) \/ BeginConf(l) \/ EndConf(l) \/ BeginKeys(l) \/ EndKeys(l)
        PROVE  SettingsTally'
    BY <1>5 DEF ReadConf, ReadKeys, BeginConf, EndConf, BeginKeys, EndKeys
  <1>6. CASE Die
    <2>1. fileFaults' \in 0 .. MaxFileFaults
      BY <1>6, SettingsAssumption DEF Die
    <2> QED
      BY <1>6, <2>1 DEF Die
  <1>7. CASE DeleteFiles
    BY <1>1, <1>7 DEF DeleteFiles
  <1>8. CASE UNCHANGED settingsVars
    BY <1>8 DEF settingsVars
  <1> QED
    BY <1>2, <1>3, <1>4, <1>5, <1>6, <1>7, <1>8 DEF SettingsNext

\* What a turn used, and what was saved, are pairs of what requests saved.
LEMMA PairsKept == LinkInv /\ PairsSaved /\ [SettingsNext]_settingsVars => PairsSaved'
  <1> SUFFICES ASSUME LinkInv, PairsSaved, [SettingsNext]_settingsVars PROVE PairsSaved'
    OBVIOUS
  <1>1. ASSUME NEW u \in Users,
               Save(u) \/ Load(u) \/ TryLock(u) \/ ReadJobs(u) \/ BeginWrite(u) \/ EndWrite(u) \/ Unlock(u)
        PROVE  PairsSaved'
    BY <1>1 DEF Save, Load, TryLock, ReadJobs, BeginWrite, EndWrite, Unlock, inferenceVars, PairsSaved
  <1>2. ASSUME NEW l \in InferenceUsers, Link(l) \/ ReadConf(l) \/ BeginConf(l) \/ EndConf(l) \/ BeginKeys(l)
        PROVE  PairsSaved'
    BY <1>2 DEF Link, ReadConf, BeginConf, EndConf, BeginKeys, PairsSaved
  <1>3. ASSUME NEW l \in InferenceUsers, ReadKeys(l) PROVE PairsSaved'
    <2>1. linker[l].host \in Values
      BY DEF LinkInv, LinkKinds, Linker
    <2>2. ValueOf(keys) \in Values
      BY NoLinkerIsLinker DEF LinkInv, LinkKinds, File, ValueOf
    <2>3. usedPairs' \subseteq usedPairs \cup {<<linker[l].host, ValueOf(keys)>>} /\ savedPairs' = savedPairs
      BY <1>3 DEF ReadKeys
    <2> QED
      BY <2>1, <2>2, <2>3 DEF PairsSaved
  <1>4. ASSUME NEW l \in InferenceUsers, EndKeys(l) PROVE PairsSaved'
    <2>1. PICK host \in Values, key \in Values : savedPairs' = savedPairs \cup {<<host, key>>}
      <3>1. linker[l].number \in Values /\ lastLinked.host \in Values /\ lastLinked.key \in Values
        BY DEF LinkInv, LinkKinds, Linker
      <3> QED
        BY <1>4, <3>1 DEF EndKeys
    <2>2. usedPairs' = usedPairs
      BY <1>4 DEF EndKeys
    <2> QED
      BY <2>1, <2>2 DEF PairsSaved
  <1>5. CASE Die \/ DeleteFiles \/ UNCHANGED settingsVars
    BY <1>5, NoLinkerIsLinker DEF Die, DeleteFiles, settingsVars, PairsSaved
  <1> QED
    BY <1>1, <1>2, <1>3, <1>4, <1>5 DEF SettingsNext

\* The files, the lock and the requests keep the kinds of all their fields.
LEMMA SettingsTypes == SettingsSpec => []SettingsTypeOK
  <1>1. SettingsInit => LockIsKnown /\ SettingsTally /\ PairsSaved
    <2> SUFFICES ASSUME SettingsInit PROVE LockIsKnown /\ SettingsTally /\ PairsSaved
      OBVIOUS
    <2>1. saves \in 0 .. MaxSaves /\ fileFaults \in 0 .. MaxFileFaults
      BY SettingsAssumption DEF SettingsInit
    <2>2. PairsSaved
      BY NoLinkerIsLinker DEF SettingsInit, PairsSaved
    <2> QED
      BY <2>1, <2>2 DEF SettingsInit, LockIsKnown, SettingsTally
  <1>2. JobsInv /\ LinkInv /\ LockIsKnown /\ SettingsTally /\ PairsSaved => SettingsTypeOK
    BY DEF JobsInv, JobsKinds, LinkInv, LinkKinds, LockIsKnown, SettingsTally, PairsSaved, SettingsTypeOK
  <1> QED
    BY <1>1, <1>2, JobsInitial, JobsKept, LinkInitial, LinkKept, LockKept, SettingsTallied, PairsKept, PTL
       DEF SettingsSpec

=============================================================================
