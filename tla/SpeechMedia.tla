------------------------------ MODULE SpeechMedia ------------------------------
(***************************************************************************)
(* Recordings and voice samples: a file on disk, an artifact row that      *)
(* names it, and for a sample the voice profile that points to it. Uploads *)
(* write them in this order; a listing forgets samples whose file is gone, *)
(* the operator's clean-up removes rows whose file is gone, and a reset    *)
(* removes all rows and then all files.                                    *)
(***************************************************************************)
EXTENDS Integers

CONSTANTS
    Uploaders,  \* those who record or upload, one request each at a time
    Owners,     \* voice profiles that may have a sample
    MaxMedia,   \* bound: files ever written, numbered in their order
    MaxLosses,  \* bound: files lost, workers that died
    MaxCleans   \* bound: listings, clean-ups and resets

ASSUME SpeechMediaAssumption == MaxMedia \in Nat \ {0} /\ MaxLosses \in Nat /\ MaxCleans \in Nat

VARIABLES
    onDisk,     \* the files there are
    artifact,   \* status of the artifact row of each file, "none" when there is no row
    sample,     \* the file each profile points to, 0 for none
    upload,     \* what each uploader's request is about to do
    cleaner,    \* the listing, clean-up or reset under way
    written,    \* number of files ever written
    losses,     \* number of faults so far
    cleans,     \* number of listings, clean-ups and resets so far
    wronged     \* history: recordings a clean-up removed although their file was there

mediaVars == <<onDisk, artifact, sample, upload, cleaner, written, losses, cleans, wronged>>

-----------------------------------------------------------------------------
(* Records *)

Media == 1 .. MaxMedia
MaybeMedia == 0 .. MaxMedia
Statuses == {"none", "stored", "transcribed", "linked"}

Upload == [at : {"idle", "file", "row", "hear", "link", "sampleFile", "sampleRow", "attach", "edit"},
           key : MaybeMedia, owner : Owners]
Cleaner == [at : {"idle", "listing", "artifacts", "samples", "delete", "forget", "purge"},
            artifacts : SUBSET Media, samples : [Owners -> MaybeMedia],
            gone : SUBSET Media, broken : SUBSET Owners]
NoCleaner == [at |-> "idle", artifacts |-> {}, samples |-> [o \in Owners |-> 0], gone |-> {}, broken |-> {}]

Rows == {k \in Media : artifact[k] # "none"}

MediaInit ==
    /\ onDisk = {} /\ artifact = [k \in Media |-> "none"] /\ sample = [o \in Owners |-> 0]
    /\ upload \in [Uploaders -> {[at |-> "idle", key |-> 0, owner |-> o] : o \in Owners}]
    /\ cleaner = NoCleaner
    /\ written = 0 /\ losses = 0 /\ cleans = 0 /\ wronged = {}

mediaTally == <<losses, cleans, wronged>>
Proceed(u, step) == upload' = [upload EXCEPT ![u].at = step]
End(u) == upload' = [upload EXCEPT ![u].at = "idle", ![u].key = 0]

-----------------------------------------------------------------------------
(* Uploads *)

\* A spoken turn; a sample for a profile; a change of a profile, which has read the profile.
StartUpload(u) ==
    /\ upload[u].at = "idle"
    /\ \/ written < MaxMedia /\ Proceed(u, "file")
       \/ written < MaxMedia /\ Proceed(u, "sampleFile")
       \/ upload' = [upload EXCEPT ![u].at = "edit", ![u].key = sample[upload[u].owner]]
    /\ UNCHANGED <<onDisk, artifact, sample, cleaner, written, mediaTally>>

WriteFile(u) ==
    /\ upload[u].at \in {"file", "sampleFile"} /\ written < MaxMedia
    /\ written' = written + 1
    /\ onDisk' = onDisk \cup {written'}
    /\ upload' = [upload EXCEPT ![u].at = IF @ = "file" THEN "row" ELSE "sampleRow", ![u].key = written']
    /\ UNCHANGED <<artifact, sample, cleaner, mediaTally>>

CreateArtifact(u) ==
    /\ upload[u].at \in {"row", "sampleRow"}
    /\ artifact' = [artifact EXCEPT ![upload[u].key] = "stored"]
    /\ Proceed(u, IF upload[u].at = "row" THEN "hear" ELSE "attach")
    /\ UNCHANGED <<onDisk, sample, cleaner, written, mediaTally>>

\* An update writes the row if it is still there.
Mark(u, status) ==
    artifact' = IF upload[u].key \in Rows THEN [artifact EXCEPT ![upload[u].key] = status] ELSE artifact

\* Transcription fails when there is no service or no file; the row stays as it is.
Transcribe(u) ==
    /\ upload[u].at = "hear"
    /\ \/ upload[u].key \in onDisk /\ Mark(u, "transcribed") /\ Proceed(u, "link")
       \/ End(u) /\ UNCHANGED artifact
    /\ UNCHANGED <<onDisk, sample, cleaner, written, mediaTally>>

\* The turn has been processed, or it has failed.
LinkToTurn(u) ==
    /\ upload[u].at = "link"
    /\ Mark(u, "linked") \/ UNCHANGED artifact
    /\ End(u)
    /\ UNCHANGED <<onDisk, sample, cleaner, written, mediaTally>>

AttachSample(u) ==
    /\ upload[u].at = "attach"
    /\ sample' = [sample EXCEPT ![upload[u].owner] = upload[u].key]
    /\ End(u)
    /\ UNCHANGED <<onDisk, artifact, cleaner, written, mediaTally>>

\* A change of a profile writes back the sample it has read, or clears it.
WriteProfileBack(u) ==
    /\ upload[u].at = "edit"
    /\ \E key \in {upload[u].key, 0} : sample' = [sample EXCEPT ![upload[u].owner] = key]
    /\ End(u)
    /\ UNCHANGED <<onDisk, artifact, cleaner, written, mediaTally>>

-----------------------------------------------------------------------------
(* Listing, clean-up, reset *)

StartCleaner ==
    /\ cleaner.at = "idle" /\ cleans < MaxCleans
    /\ cleans' = cleans + 1
    /\ \/ cleaner' = [NoCleaner EXCEPT !.at = "listing", !.samples = sample]
       \/ cleaner' = [NoCleaner EXCEPT !.at = "artifacts", !.artifacts = Rows]
       \/ cleaner' = [NoCleaner EXCEPT !.at = "purge"]
    /\ artifact' = IF cleaner'.at = "purge" THEN [k \in Media |-> "none"] ELSE artifact
    /\ sample' = IF cleaner'.at = "purge" THEN [o \in Owners |-> 0] ELSE sample
    /\ UNCHANGED <<onDisk, upload, written, losses, wronged>>

\* The records that were read are looked up on disk one after the other.
CheckArtifact ==
    /\ cleaner.at = "artifacts"
    /\ \E k \in cleaner.artifacts :
          cleaner' = [cleaner EXCEPT !.artifacts = @ \ {k}, !.gone = IF k \in onDisk THEN @ ELSE @ \cup {k}]
    /\ UNCHANGED <<onDisk, artifact, sample, upload, written, mediaTally>>

ReadSamples ==
    /\ cleaner.at = "artifacts" /\ cleaner.artifacts = {}
    /\ cleaner' = [cleaner EXCEPT !.at = "samples", !.samples = sample]
    /\ UNCHANGED <<onDisk, artifact, sample, upload, written, mediaTally>>

CheckSample ==
    /\ cleaner.at \in {"samples", "listing"}
    /\ \E o \in Owners :
          /\ cleaner.samples[o] # 0
          /\ cleaner' = [cleaner EXCEPT !.samples[o] = 0,
                                        !.broken = IF cleaner.samples[o] \in onDisk THEN @ ELSE @ \cup {o}]
    /\ UNCHANGED <<onDisk, artifact, sample, upload, written, mediaTally>>

\* A listing forgets the samples it missed; a clean-up goes on to delete.
SamplesChecked ==
    /\ cleaner.at \in {"samples", "listing"} /\ \A o \in Owners : cleaner.samples[o] = 0
    /\ cleaner' = [cleaner EXCEPT !.at = IF @ = "listing" THEN "forget" ELSE "delete"]
    /\ UNCHANGED <<onDisk, artifact, sample, upload, written, mediaTally>>

\* Mutant: the clean-up deletes by status: whatever was never transcribed.
DeleteUnheard ==
    LET unheard == {k \in Media : artifact[k] = "stored"}
    IN  /\ cleaner.at = "delete"
        /\ artifact' = [k \in Media |-> IF k \in unheard THEN "none" ELSE artifact[k]]
        /\ wronged' = wronged \cup (unheard \cap onDisk)
        /\ cleaner' = [cleaner EXCEPT !.at = "forget"]
        /\ UNCHANGED <<onDisk, sample, upload, written, losses, cleans>>

DeleteArtifacts ==
    /\ cleaner.at = "delete"
    /\ artifact' = [k \in Media |-> IF k \in cleaner.gone THEN "none" ELSE artifact[k]]
    /\ wronged' = wronged \cup (cleaner.gone \cap Rows \cap onDisk)
    /\ cleaner' = [cleaner EXCEPT !.at = "forget"]
    /\ UNCHANGED <<onDisk, sample, upload, written, losses, cleans>>

\* By the profile, whatever sample it points to by now.
ForgetSamples ==
    /\ cleaner.at = "forget"
    /\ sample' = [o \in Owners |-> IF o \in cleaner.broken THEN 0 ELSE sample[o]]
    /\ cleaner' = NoCleaner
    /\ UNCHANGED <<onDisk, artifact, upload, written, mediaTally>>

\* A reset, its rows gone, removes the directories.
PurgeFiles ==
    /\ cleaner.at = "purge"
    /\ onDisk' = {}
    /\ cleaner' = NoCleaner
    /\ UNCHANGED <<artifact, sample, upload, written, mediaTally>>

-----------------------------------------------------------------------------
(* What happens to them *)

FileLost(k) ==
    /\ k \in onDisk /\ losses < MaxLosses
    /\ losses' = losses + 1
    /\ onDisk' = onDisk \ {k}
    /\ UNCHANGED <<artifact, sample, upload, cleaner, written, cleans, wronged>>

SpeechWorkerDies ==
    /\ losses < MaxLosses
    /\ losses' = losses + 1
    /\ upload' = [u \in Uploaders |-> [upload[u] EXCEPT !.at = "idle", !.key = 0]]
    /\ cleaner' = NoCleaner
    /\ UNCHANGED <<onDisk, artifact, sample, written, cleans, wronged>>

MediaNext ==
    \/ \E u \in Uploaders :
          \/ StartUpload(u) \/ WriteFile(u) \/ CreateArtifact(u) \/ Transcribe(u) \/ LinkToTurn(u)
          \/ AttachSample(u) \/ WriteProfileBack(u)
    \/ StartCleaner \/ CheckArtifact \/ ReadSamples \/ CheckSample \/ SamplesChecked
    \/ DeleteArtifacts \/ ForgetSamples \/ PurgeFiles
    \/ \E k \in Media : FileLost(k)
    \/ SpeechWorkerDies

MediaSpec == MediaInit /\ [][MediaNext]_mediaVars

-----------------------------------------------------------------------------
(* Properties *)

MediaTypeOK ==
    /\ onDisk \subseteq Media /\ artifact \in [Media -> Statuses] /\ sample \in [Owners -> MaybeMedia]
    /\ upload \in [Uploaders -> Upload] /\ cleaner \in Cleaner
    /\ written \in MaybeMedia /\ losses \in 0 .. MaxLosses /\ cleans \in 0 .. MaxCleans
    /\ wronged \subseteq Media

\* A clean-up of stale media, which reads the rows first and looks for their files one after the
\* other while recordings go on, never removes a recording whose file is there: a file is
\* written before its row.
RecordingsKept == wronged = {}
=============================================================================
