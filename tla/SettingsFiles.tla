----------------------------- MODULE SettingsFiles -----------------------------
(***************************************************************************)
(* Settings kept in files: those of agent jobs, which updates change under *)
(* a lock file while readers take no lock and may write defaults, and      *)
(* those of the inference provider, two files (settings and keys) that are *)
(* read one after the other and written one after the other without one.  *)
(* A file is written in place: until the write ends, it does not parse.    *)
(***************************************************************************)
EXTENDS Integers, FiniteSets

CONSTANTS
    Savers,         \* requests that save settings of agent jobs, that may be open at once
    Loaders,        \* requests and jobs that load them
    Linkers,        \* requests that save settings of inference
    Speakers,       \* turns that resolve the provider they will call
    MaxLockTries,   \* attempts at the lock file (50 in the code)
    MaxSaves,       \* bound: requests
    MaxFileFaults   \* bound: deaths of the worker

ASSUME SettingsAssumption ==
    /\ MaxLockTries \in Nat \ {0} /\ MaxSaves \in Nat /\ MaxFileFaults \in Nat
    /\ Savers \cap Loaders = {} /\ Linkers \cap Speakers = {}
    /\ "none" \notin Savers

VARIABLES
    jobsFile,   \* runtime/config/agent-jobs.json
    lock,       \* who made the lock file that is there, or "none"
    user,       \* what each saver and loader is about to do
    conf,       \* runtime/config/inference-provider.json
    keys,       \* runtime/secrets/inference-provider.json
    linker,     \* what each linker and speaker is about to do
    saves,      \* number of requests so far
    fileFaults, \* number of faults so far
    lastSaved,  \* history: the fields of agent jobs that updates saved last
    lastLinked, \* history: the host and the key that updates saved last
    usedPairs,  \* history: the pairs of host and key that turns have used no save or reset met
    savedPairs, \* history: the pairs of host and key that were saved
    spoilt,     \* history: somebody without the lock wrote where others did, or a worker died
    overtaken,  \* history: turns whose reading of the two files a save or a reset meets
    tangledUp   \* history: savers of inference overlapped, or one was cut short or met a reset

settingsVars == <<jobsFile, lock, user, conf, keys, linker, saves, fileFaults, lastSaved, lastLinked,
                  usedPairs, savedPairs, spoilt, overtaken, tangledUp>>
jobsVars == <<jobsFile, lock, user, lastSaved, spoilt>>
inferenceVars == <<conf, keys, linker, lastLinked, usedPairs, savedPairs, overtaken, tangledUp>>

-----------------------------------------------------------------------------
(* Files. A value is the number of the request that saved it, 0 the default. *)

Values == 0 .. MaxSaves
Fields == {"roots", "limits"}

\* Settings of agent jobs: "legacy" is a file from before `_initialized`, with no roots.
JobSettings == [Fields -> Values]
JobDefaults == [f \in Fields |-> 0]
JobsFile == [kind : {"absent", "torn", "legacy", "whole"}, value : JobSettings]
File == [kind : {"absent", "torn", "whole"}, value : Values]
NoFile == [kind |-> "absent", value |-> 0]

Users == Savers \cup Loaders
User == [at : {"idle", "lock", "load", "default", "defaulting", "store", "storing", "unlock"},
         tries : 0 .. MaxLockTries, field : Fields, value : Values, settings : JobSettings]
NoUser == [at |-> "idle", tries |-> 0, field |-> "roots", value |-> 0, settings |-> JobDefaults]

\* A linker saves a host, a key or both; `host` and `key` are what it read, then what it writes.
InferenceUsers == Linkers \cup Speakers
Linker == [at : {"idle", "conf", "keys", "saveConf", "savingConf", "saveKeys", "savingKeys"},
           new : SUBSET {"host", "key"}, number : Values, host : Values, key : Values]
NoLinker == [at |-> "idle", new |-> {}, number |-> 0, host |-> 0, key |-> 0]

SettingsInit ==
    /\ jobsFile \in {[kind |-> kind, value |-> JobDefaults] : kind \in {"absent", "legacy"}}
    /\ lock = "none"
    /\ user = [u \in Users |-> NoUser]
    /\ conf = NoFile /\ keys = NoFile
    /\ linker = [l \in InferenceUsers |-> NoLinker]
    /\ saves = 0 /\ fileFaults = 0
    /\ lastSaved = JobDefaults
    /\ lastLinked = [host |-> 0, key |-> 0]
    /\ usedPairs = {} /\ savedPairs = {<<0, 0>>}
    /\ spoilt = FALSE /\ overtaken = {} /\ tangledUp = FALSE

Called == saves < MaxSaves /\ saves' = saves + 1

-----------------------------------------------------------------------------
(* Settings of agent jobs *)

Steps(u, at) == user' = [user EXCEPT ![u].at = at]

\* An update of one field, or a load.
Save(u) ==
    /\ u \in Savers /\ user[u].at = "idle" /\ Called
    /\ \E field \in Fields :
          user' = [user EXCEPT ![u] = [NoUser EXCEPT !.at = "lock", !.field = field, !.value = saves']]
    /\ UNCHANGED <<jobsFile, lock, lastSaved, spoilt, fileFaults>> /\ UNCHANGED inferenceVars

Load(u) ==
    /\ u \in Loaders /\ user[u].at = "idle" /\ Called
    /\ Steps(u, "load")
    /\ UNCHANGED <<jobsFile, lock, lastSaved, spoilt, fileFaults>> /\ UNCHANGED inferenceVars

\* Mutant: the lock file is opened without O_EXCL.
TryLockShared(u) ==
    /\ user[u].at = "lock"
    /\ lock' = u
    /\ Steps(u, "load")
    /\ UNCHANGED <<jobsFile, lastSaved, spoilt, saves, fileFaults>> /\ UNCHANGED inferenceVars

\* withSettingsLock: the lock file is created exclusively. Another one is waited for, a number
\* of times; nothing ever removes it but its owner.
TryLock(u) ==
    /\ user[u].at = "lock"
    /\ IF lock = "none"
       THEN lock' = u /\ Steps(u, "load")
       ELSE /\ user' = IF user[u].tries + 1 < MaxLockTries THEN [user EXCEPT ![u].tries = @ + 1]
                       ELSE [user EXCEPT ![u] = NoUser]
            /\ UNCHANGED lock
    /\ UNCHANGED <<jobsFile, lastSaved, spoilt, saves, fileFaults>> /\ UNCHANGED inferenceVars

\* parseSettings of what the patch puts over the settings that were read.
Patched(u, settings) == [settings EXCEPT ![user[u].field] = user[u].value]

\* loadAgentJobSettings: whatever does not parse is replaced by the defaults, an old file by
\* one with the flag. A saver goes on with its patch.
ReadJobs(u) ==
    /\ user[u].at = "load"
    /\ LET readable == jobsFile.kind \in {"legacy", "whole"}
           settings == IF readable THEN jobsFile.value ELSE JobDefaults
       IN  user' = [user EXCEPT ![u].settings = settings,
                                ![u].at = IF jobsFile.kind # "whole" THEN "default"
                                         ELSE IF u \in Savers THEN "store" ELSE "idle"]
    /\ spoilt' = (spoilt \/ jobsFile.kind = "torn")
    /\ UNCHANGED <<jobsFile, lock, lastSaved, saves, fileFaults>> /\ UNCHANGED inferenceVars

Writing(u) == user[u].at \in {"defaulting", "storing"}

\* A write of u meets one of somebody who holds no lock, or is one itself.
Meets(u) ==
    \E v \in Users \ {u} : /\ u \in Loaders \/ v \in Loaders
                           /\ user[v].at \notin {"idle", "lock", "load"}

\* A write begins, of defaults or of an update, and ends. The end of one of two writes leaves
\* its own text or a mixture.
BeginWrite(u) ==
    /\ user[u].at \in {"default", "store"}
    /\ jobsFile' = [jobsFile EXCEPT !.kind = "torn"]
    /\ Steps(u, IF user[u].at = "default" THEN "defaulting" ELSE "storing")
    /\ spoilt' = (spoilt \/ Meets(u))
    /\ UNCHANGED <<lock, lastSaved, saves, fileFaults>> /\ UNCHANGED inferenceVars

EndWrite(u) ==
    /\ Writing(u)
    /\ LET stored == user[u].at = "storing"
           value == IF stored THEN Patched(u, user[u].settings) ELSE user[u].settings
           mixed == \E v \in Users \ {u} : Writing(v)
       IN  /\ \E kind \in {"whole"} \cup (IF mixed THEN {"torn"} ELSE {}) :
                 jobsFile' = [kind |-> kind, value |-> value]
           /\ lastSaved' = IF stored THEN Patched(u, lastSaved) ELSE lastSaved
           /\ Steps(u, CASE stored -> "unlock" [] ~stored /\ u \in Savers -> "store" [] OTHER -> "idle")
    /\ UNCHANGED <<lock, spoilt, saves, fileFaults>> /\ UNCHANGED inferenceVars

\* The lock file is removed, also when the update threw.
Unlock(u) ==
    /\ user[u].at = "unlock"
    /\ lock' = "none"
    /\ user' = [user EXCEPT ![u] = NoUser]
    /\ UNCHANGED <<jobsFile, lastSaved, spoilt, saves, fileFaults>> /\ UNCHANGED inferenceVars

-----------------------------------------------------------------------------
(* Settings of inference *)

Saving == \E l \in Linkers : linker[l].at # "idle"
Speaking == {s \in Speakers : linker[s].at # "idle"}

\* An update of the provider's endpoint, its key or both, or a turn.
Link(l) ==
    /\ linker[l].at = "idle" /\ Called
    /\ \E new \in SUBSET {"host", "key"} :
          /\ new = {} <=> l \in Speakers
          /\ linker' = [linker EXCEPT ![l] = [NoLinker EXCEPT !.at = "conf", !.new = new, !.number = saves']]
    /\ overtaken' = CASE l \in Linkers -> overtaken \cup Speaking
                      [] l \in Speakers /\ Saving -> overtaken \cup {l}
                      [] OTHER -> overtaken \ {l}
    /\ tangledUp' = (tangledUp \/ (l \in Linkers /\ Saving))
    /\ UNCHANGED <<conf, keys, lastLinked, usedPairs, savedPairs, fileFaults>> /\ UNCHANGED jobsVars

\* readJsonFile: what does not parse counts as not there.
ValueOf(file) == IF file.kind = "whole" THEN file.value ELSE 0

ReadConf(l) ==
    /\ linker[l].at = "conf"
    /\ linker' = [linker EXCEPT ![l].at = "keys",
                     ![l].host = IF "host" \in linker[l].new THEN linker[l].number ELSE ValueOf(conf)]
    /\ UNCHANGED <<conf, keys, lastLinked, usedPairs, savedPairs, overtaken, tangledUp, saves, fileFaults>> /\ UNCHANGED jobsVars

\* Mutant: an update without a new key drops the one that is stored.
ReadKeysNot(l) ==
    /\ linker[l].at = "keys"
    /\ IF l \in Speakers
       THEN /\ usedPairs' = IF l \in overtaken THEN usedPairs
                            ELSE usedPairs \cup {<<linker[l].host, ValueOf(keys)>>}
            /\ linker' = [linker EXCEPT ![l] = NoLinker]
       ELSE /\ linker' = [linker EXCEPT ![l].at = "saveConf",
                     ![l].key = IF "key" \in linker[l].new THEN linker[l].number ELSE 0]
            /\ UNCHANGED usedPairs
    /\ UNCHANGED <<conf, keys, lastLinked, savedPairs, overtaken, tangledUp, saves, fileFaults>> /\ UNCHANGED jobsVars

\* A turn calls the endpoint it read first with the key it reads now.
ReadKeys(l) ==
    /\ linker[l].at = "keys"
    /\ IF l \in Speakers
       THEN /\ usedPairs' = IF l \in overtaken THEN usedPairs
                            ELSE usedPairs \cup {<<linker[l].host, ValueOf(keys)>>}
            /\ linker' = [linker EXCEPT ![l] = NoLinker]
       ELSE /\ linker' = [linker EXCEPT ![l].at = "saveConf",
                     ![l].key = IF "key" \in linker[l].new THEN linker[l].number ELSE ValueOf(keys)]
            /\ UNCHANGED usedPairs
    /\ UNCHANGED <<conf, keys, lastLinked, savedPairs, overtaken, tangledUp, saves, fileFaults>> /\ UNCHANGED jobsVars

\* Both files are written, in this order.
BeginConf(l) ==
    /\ linker[l].at = "saveConf"
    /\ conf' = [conf EXCEPT !.kind = "torn"]
    /\ linker' = [linker EXCEPT ![l].at = "savingConf"]
    /\ UNCHANGED <<keys, lastLinked, usedPairs, savedPairs, overtaken, tangledUp, saves, fileFaults>> /\ UNCHANGED jobsVars

EndConf(l) ==
    /\ linker[l].at = "savingConf"
    /\ conf' = [kind |-> "whole", value |-> linker[l].host]
    /\ linker' = [linker EXCEPT ![l].at = "saveKeys"]
    /\ UNCHANGED <<keys, lastLinked, usedPairs, savedPairs, overtaken, tangledUp, saves, fileFaults>> /\ UNCHANGED jobsVars

BeginKeys(l) ==
    /\ linker[l].at = "saveKeys"
    /\ keys' = [keys EXCEPT !.kind = "torn"]
    /\ linker' = [linker EXCEPT ![l].at = "savingKeys"]
    /\ UNCHANGED <<conf, lastLinked, usedPairs, savedPairs, overtaken, tangledUp, saves, fileFaults>> /\ UNCHANGED jobsVars

EndKeys(l) ==
    /\ linker[l].at = "savingKeys"
    /\ keys' = [kind |-> "whole", value |-> linker[l].key]
    /\ LET now == [host |-> IF "host" \in linker[l].new THEN linker[l].number ELSE lastLinked.host,
                   key |-> IF "key" \in linker[l].new THEN linker[l].number ELSE lastLinked.key]
       IN  lastLinked' = now /\ savedPairs' = savedPairs \cup {<<now.host, now.key>>}
    /\ linker' = [linker EXCEPT ![l] = NoLinker]
    /\ UNCHANGED <<conf, usedPairs, overtaken, tangledUp, saves, fileFaults>> /\ UNCHANGED jobsVars

-----------------------------------------------------------------------------
(* Restarts and resets *)

\* The worker dies: requests are gone, the files and the lock file stay as they are.
Die ==
    /\ fileFaults < MaxFileFaults
    /\ fileFaults' = fileFaults + 1
    /\ user' = [u \in Users |-> NoUser]
    /\ linker' = [l \in InferenceUsers |-> NoLinker]
    /\ spoilt' = TRUE /\ tangledUp' = (tangledUp \/ Saving)
    /\ UNCHANGED <<jobsFile, lock, conf, keys, saves, lastSaved, lastLinked, usedPairs, savedPairs, overtaken>>

\* resetSecretaryFileBackings deletes the three files, the lock file not.
DeleteFiles ==
    /\ Called
    /\ jobsFile' = [kind |-> "absent", value |-> JobDefaults]
    /\ conf' = NoFile /\ keys' = NoFile
    /\ lastSaved' = JobDefaults /\ lastLinked' = [host |-> 0, key |-> 0]
    /\ savedPairs' = savedPairs \cup {<<0, 0>>}
    /\ spoilt' = (spoilt \/ \E u \in Users : user[u].at \notin {"idle", "lock"})
    /\ overtaken' = overtaken \cup Speaking
    /\ tangledUp' = (tangledUp \/ Saving)
    /\ UNCHANGED <<lock, user, linker, fileFaults, usedPairs>>

SettingsNext ==
    \/ \E u \in Users : Save(u) \/ Load(u) \/ TryLock(u) \/ ReadJobs(u) \/ BeginWrite(u) \/ EndWrite(u) \/ Unlock(u)
    \/ \E l \in InferenceUsers : Link(l) \/ ReadConf(l) \/ ReadKeys(l) \/ BeginConf(l) \/ EndConf(l)
                                 \/ BeginKeys(l) \/ EndKeys(l)
    \/ Die \/ DeleteFiles

SettingsSpec == SettingsInit /\ [][SettingsNext]_settingsVars

-----------------------------------------------------------------------------
(* Properties *)

\* Every field is of its kind.
SettingsTypeOK ==
    /\ jobsFile \in JobsFile
    /\ lock \in Savers \cup {"none"}
    /\ user \in [Users -> User]
    /\ conf \in File /\ keys \in File
    /\ linker \in [InferenceUsers -> Linker]
    /\ saves \in 0 .. MaxSaves /\ fileFaults \in 0 .. MaxFileFaults
    /\ lastSaved \in JobSettings
    /\ lastLinked \in [host : Values, key : Values]
    /\ usedPairs \subseteq Values \X Values /\ savedPairs \subseteq Values \X Values
    /\ overtaken \subseteq Speakers
    /\ spoilt \in BOOLEAN /\ tangledUp \in BOOLEAN

\* Savers of different fields that overlap lose nothing: when none is under way, the file (if
\* there is one) holds what each field was saved as last. It takes the lock, from before the
\* read until after the write, and nobody writing without it or reading half a file.
NoUpdateLost ==
    ~spoilt /\ (\A u \in Users : user[u].at \in {"idle", "lock", "load"}) /\ jobsFile.kind = "whole"
        => jobsFile.value = lastSaved

\* As long as no two savers overlap and none is cut short or meets a reset: the two files of
\* inference agree with what was saved whenever no saver is under way, whatever turns read them
\* meanwhile and wherever the worker died; and a turn that no save and no reset meets sends to an
\* endpoint the key that was saved with it, also when turns overlap each other.
KeyFitsHost ==
    ~tangledUp => /\ usedPairs \subseteq savedPairs
                  /\ ~Saving => ValueOf(conf) = lastLinked.host /\ ValueOf(keys) = lastLinked.key

=============================================================================
