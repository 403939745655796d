-------------------------------- MODULE Persona --------------------------------
(***************************************************************************)
(* Who the secretary is: the persona's row, its soul in a file that the    *)
(* operator may edit too, and the voice profiles, of which one is meant to *)
(* be active. Every request about the persona first repairs what does not  *)
(* agree; each is a sequence of statements between which others run.       *)
(***************************************************************************)
EXTENDS Integers, FiniteSets

CONSTANTS
    Callers,        \* those whose requests the worker serves at a time
    Profiles,       \* ids of voice profiles, given in the order of the numbers
    MaxSouls,       \* bound: texts of the soul; 1 is the default text
    MaxRaces,       \* bound: requests, edits and crashes among which some may overlap
    MaxVisits       \* bound: all requests, edits of the soul's file and crashes

ASSUME PersonaAssumption ==
    /\ Profiles \subseteq Nat \ {0} /\ Profiles # {} /\ IsFiniteSet(Profiles)
    /\ MaxSouls \in Nat \ {0} /\ MaxRaces \in Nat /\ MaxVisits \in Nat /\ MaxRaces <= MaxVisits

VARIABLES
    persona,    \* the default persona's row
    soulFile,   \* the text of the soul's file; 0 when there is none
    voices,     \* the rows of voice_profiles
    exported,   \* a settings snapshot the operator has exported
    ask,        \* the requests under way
    asks,       \* number of requests, edits and crashes so far
    texts,      \* number of texts that exist
    settled     \* history: the last thing that happened was the end of a request about the
                \* persona that no other overlapped

personaVars == <<persona, soulFile, voices, exported, ask, asks, texts, settled>>

-----------------------------------------------------------------------------
(* Records *)

Genders == {"female", "male"}
MaybeSoul == 0 .. MaxSouls
MaybeProfile == Profiles \cup {0}

PersonaRow == [here : BOOLEAN, soul : MaybeSoul, gender : Genders, voice : MaybeProfile]
NoPersona == [here |-> FALSE, soul |-> 1, gender |-> "female", voice |-> 0]

\* The built-in profiles are told by their names, one for each gender; the others are the
\* operator's own.
Voice == [is : {"absent", "own"} \cup Genders, active : BOOLEAN]
NoVoice == [is |-> "absent", active |-> FALSE]
Exists(p) == p # 0 /\ voices[p].is # "absent"
Active == {p \in Profiles : voices[p].active}
FreshIds == {p \in Profiles : ~Exists(p) /\ \A q \in Profiles : q < p => Exists(q)}

Snapshot == [taken : BOOLEAN, persona : PersonaRow, voices : [Profiles -> Voice]]
NoSnapshot == [taken |-> FALSE, persona |-> NoPersona, voices |-> [p \in Profiles |-> NoVoice]]

\* What an update asks for: a text of the soul (0: the one there is), a gender, a profile (0: the
\* one there is). What a create or a patch of a profile asks for: a profile, and its activity.
\* `then` is what follows an activation, `again` that the closing repair of an update is under way.
Kinds == {"read", "update", "import", "export", "reset", "create", "patch", "list"}
Places == {"idle", "rows", "soul", "soulRow", "voice", "find", "insert", "off", "on", "normalise",
          "default", "listed", "choose", "write", "save", "restore", "truncate",
          "profileRead", "profileOff", "profileWrite"}
Ask == [kind : Kinds, at : Places, then : Places, again : BOOLEAN, alone : BOOLEAN,
        soul : MaybeSoul, gender : Genders, want : MaybeProfile, active : {"keep", "yes", "no"},
        seen : PersonaRow, was : BOOLEAN, text : MaybeSoul, sex : Genders, target : MaybeProfile]
NoAsk == [kind |-> "read", at |-> "idle", then |-> "idle", again |-> FALSE, alone |-> TRUE,
          soul |-> 0, gender |-> "female", want |-> 0, active |-> "keep",
          seen |-> NoPersona, was |-> FALSE, text |-> 1, sex |-> "female", target |-> 0]

PersonaInit ==
    /\ persona = NoPersona /\ soulFile = 0
    /\ voices = [p \in Profiles |-> NoVoice]
    /\ exported = NoSnapshot
    /\ ask = [c \in Callers |-> NoAsk]
    /\ asks = 0 /\ texts = 1 /\ settled = FALSE

counted == <<asks, texts>>
GoOn(c, step) == ask' = [ask EXCEPT ![c].at = step]
AboutPersona == {"read", "update", "import", "export", "reset"}
Answer(c) ==
    /\ ask' = [ask EXCEPT ![c] = NoAsk]
    /\ settled' = (ask[c].alone /\ ask[c].kind \in AboutPersona)

\* The bounds leave room for one more thing to happen.
Room == asks < MaxRaces \/ (asks < MaxVisits /\ \A c \in Callers : ask[c].at = "idle")

-----------------------------------------------------------------------------
(* Requests *)

FirstRead(kind) ==
    CASE kind = "import" -> "restore" [] kind = "reset" -> "truncate" [] kind = "list" -> "default"
      [] kind = "create" -> "profileOff" [] kind = "patch" -> "profileRead" [] OTHER -> "rows"

PlainAsk(kind) == [NoAsk EXCEPT !.kind = kind, !.at = FirstRead(kind)]
UpdateAsk(soul, gender, want) ==
    [NoAsk EXCEPT !.kind = "update", !.at = "rows", !.soul = soul, !.gender = gender, !.want = want]
CreateAsk(active) == [NoAsk EXCEPT !.kind = "create", !.at = "profileOff", !.active = active]
PatchAsk(want, active) ==
    [NoAsk EXCEPT !.kind = "patch", !.at = "profileRead", !.want = want, !.active = active]

Requests ==
    {PlainAsk(kind) : kind \in {"read", "export", "reset", "list"} \cup (IF exported.taken THEN {"import"} ELSE {})}
    \cup {UpdateAsk(soul, gender, want) : soul \in (IF texts < MaxSouls THEN {0, texts + 1} ELSE {0}),
                                          gender \in Genders, want \in MaybeProfile}
    \cup {CreateAsk(active) : active \in {"yes", "no"}}
    \cup {PatchAsk(want, active) : want \in {p \in Profiles : Exists(p)}, active \in {"keep", "yes", "no"}}

\* A request that finds another under way overlaps it, and the other way round.
Begin(c) ==
    /\ ask[c].at = "idle" /\ Room
    /\ asks' = asks + 1
    /\ \E r \in Requests :
          LET others == {d \in Callers : ask[d].at # "idle"}
          IN  /\ ask' = [d \in Callers |-> IF d = c THEN [r EXCEPT !.alone = others = {}]
                                           ELSE [ask[d] EXCEPT !.alone = d \notin others]]
              /\ texts' = IF r.soul > texts THEN r.soul ELSE texts
    /\ settled' = FALSE
    /\ UNCHANGED <<persona, soulFile, voices, exported>>

-----------------------------------------------------------------------------
(* ensureDefaultPersonaRecord *)

EnsureRows(c) ==
    /\ ask[c].at = "rows"
    /\ persona' = [persona EXCEPT !.here = TRUE]
    /\ ask' = [ask EXCEPT ![c].at = "soul", ![c].seen = persona']
    /\ UNCHANGED <<soulFile, voices, exported, counted, settled>>

\* A file that is missing or empty is made from the row.
LoadSoul(c) ==
    /\ ask[c].at = "soul"
    /\ soulFile' = IF soulFile = 0 THEN ask[c].seen.soul ELSE soulFile
    /\ ask' = [ask EXCEPT ![c].at = "soulRow", ![c].text = soulFile']
    /\ UNCHANGED <<persona, voices, exported, counted, settled>>

\* The row follows the file. A row that a reset has removed is neither written nor read again.
FollowSoul(c) ==
    LET stale == ask[c].text # ask[c].seen.soul /\ persona.here
    IN  /\ ask[c].at = "soulRow"
        /\ persona' = IF stale THEN [persona EXCEPT !.soul = ask[c].text] ELSE persona
        /\ ask' = [ask EXCEPT ![c].at = "voice", ![c].seen = IF stale THEN persona' ELSE @]
        /\ UNCHANGED <<soulFile, voices, exported, counted, settled>>

\* The row's voice if there is such a profile, else the built-in one of its gender.
PickVoice(c) ==
    LET seen == ask[c].seen
    IN  /\ ask[c].at = "voice"
        /\ ask' = IF Exists(seen.voice)
                  THEN [ask EXCEPT ![c].at = "off", ![c].target = seen.voice, ![c].then = "normalise"]
                  ELSE [ask EXCEPT ![c].at = "find", ![c].sex = seen.gender, ![c].then = "normalise"]
        /\ UNCHANGED <<persona, soulFile, voices, exported, counted, settled>>

\* ensureGenderVoiceProfile looks first and inserts then.
FindBuiltIn(c) ==
    /\ ask[c].at = "find"
    /\ \/ \E p \in Profiles : voices[p].is = ask[c].sex
                              /\ ask' = [ask EXCEPT ![c].at = "off", ![c].target = p]
       \/ (\A p \in Profiles : voices[p].is # ask[c].sex) /\ GoOn(c, "insert")
    /\ UNCHANGED <<persona, soulFile, voices, exported, counted, settled>>

InsertBuiltIn(c) ==
    /\ ask[c].at = "insert"
    /\ \E p \in FreshIds :
          /\ voices' = [voices EXCEPT ![p] = [NoVoice EXCEPT !.is = ask[c].sex]]
          /\ ask' = [ask EXCEPT ![c].at = "off", ![c].target = p]
    /\ UNCHANGED <<persona, soulFile, exported, counted, settled>>

\* activateVoiceProfile: all off, then one on.
AllOff == [p \in Profiles |-> [voices[p] EXCEPT !.active = FALSE]]

\* Mutant: the statement that switches the others off is missing.
DeactivateNone(c) ==
    /\ ask[c].at = "off"
    /\ GoOn(c, "on")
    /\ UNCHANGED <<persona, soulFile, voices, exported, counted, settled>>

Deactivate(c) ==
    /\ ask[c].at = "off"
    /\ voices' = AllOff
    /\ GoOn(c, "on")
    /\ UNCHANGED <<persona, soulFile, exported, counted, settled>>

Activate(c) ==
    /\ ask[c].at = "on"
    /\ voices' = IF Exists(ask[c].target) THEN [voices EXCEPT ![ask[c].target].active = TRUE] ELSE voices
    /\ GoOn(c, ask[c].then)
    /\ UNCHANGED <<persona, soulFile, exported, counted, settled>>

\* A row with another voice gets this one, and with it the gender that was read.
Normalise(c) ==
    LET differs == ask[c].seen.voice # ask[c].target /\ persona.here
    IN  /\ ask[c].at = "normalise"
        /\ persona' = IF differs THEN [persona EXCEPT !.voice = ask[c].target, !.gender = ask[c].seen.gender]
                      ELSE persona
        /\ ask' = [ask EXCEPT ![c].seen = IF differs THEN persona' ELSE @,
              ![c].at = IF ask[c].kind = "update" /\ ~ask[c].again THEN "choose" ELSE "default"]
        /\ UNCHANGED <<soulFile, voices, exported, counted, settled>>

\* ensureDefaultVoiceProfile: some profile is active when profiles are listed.
EnsureDefaultVoice(c) ==
    /\ ask[c].at = "default"
    /\ ask' = IF Active # {} THEN [ask EXCEPT ![c].at = "listed"]
              ELSE [ask EXCEPT ![c].at = "find", ![c].sex = "female", ![c].then = "listed"]
    /\ UNCHANGED <<persona, soulFile, voices, exported, counted, settled>>

\* Export lists the profiles while the repair runs, so its copy may show any of them active.
Listed(c) ==
    /\ ask[c].at = "listed"
    /\ IF ask[c].kind = "export"
       THEN \E on \in SUBSET {p \in Profiles : Exists(p)} :
               exported' = [taken |-> TRUE, persona |-> ask[c].seen,
                            voices |-> [p \in Profiles |-> [voices[p] EXCEPT !.active = p \in on]]]
       ELSE UNCHANGED exported
    /\ IF ask[c].kind = "import"
       THEN /\ ask' = [ask EXCEPT ![c].at = "save", ![c].text = ask[c].seen.soul]
            /\ UNCHANGED settled
       ELSE Answer(c)
    /\ UNCHANGED <<persona, soulFile, voices, counted>>

-----------------------------------------------------------------------------
(* updatePersonaSettings *)

\* A built-in voice changes with the gender; a voice that does not exist gives way to the built-in.
ChooseVoice(c) ==
    LET r == ask[c]
        voice == IF r.want # 0 THEN r.want ELSE r.seen.voice
        switches == r.gender # r.seen.gender /\ voice = r.seen.voice /\ voices[voice].is \in Genders
    IN  /\ r.at = "choose"
        /\ ask' = IF Exists(voice) /\ ~switches
                  THEN [ask EXCEPT ![c].at = "off", ![c].target = voice, ![c].then = "write"]
                  ELSE [ask EXCEPT ![c].at = "find", ![c].sex = r.gender, ![c].then = "write"]
        /\ UNCHANGED <<persona, soulFile, voices, exported, counted, settled>>

WritePersona(c) ==
    LET r == ask[c]
        soul == IF r.soul # 0 THEN r.soul ELSE r.seen.soul
    IN  /\ r.at = "write"
        /\ persona' = IF persona.here
                      THEN [here |-> TRUE, soul |-> soul, gender |-> r.gender, voice |-> r.target]
                      ELSE persona
        /\ ask' = [ask EXCEPT ![c].at = "save", ![c].text = soul, ![c].again = TRUE]
        /\ UNCHANGED <<soulFile, voices, exported, counted, settled>>

\* saveSecretarySoul: an update and a reset go on with a repair, an import ends here.
SaveSoul(c) ==
    /\ ask[c].at = "save"
    /\ soulFile' = ask[c].text
    /\ IF ask[c].kind = "import" THEN Answer(c) ELSE GoOn(c, "rows") /\ UNCHANGED settled
    /\ UNCHANGED <<persona, voices, exported, counted>>

-----------------------------------------------------------------------------
(* importSettingsSnapshot, resetSecretaryState *)

\* One transaction, refused when the persona's voice is in neither the snapshot nor the table.
Restore(c) ==
    LET merged == [p \in Profiles |-> IF exported.voices[p].is # "absent" THEN exported.voices[p]
                                      ELSE voices[p]]
        voice == exported.persona.voice
    IN  /\ ask[c].at = "restore"
        /\ IF voice # 0 /\ merged[voice].is = "absent"
           THEN /\ ask' = [ask EXCEPT ![c] = NoAsk]
                /\ UNCHANGED <<persona, voices>>
           ELSE /\ persona' = exported.persona /\ voices' = merged
                /\ GoOn(c, "rows")
        /\ UNCHANGED <<soulFile, exported, counted, settled>>

\* All rows go; the default text is saved next.
Truncate(c) ==
    /\ ask[c].at = "truncate"
    /\ persona' = NoPersona
    /\ voices' = [p \in Profiles |-> NoVoice]
    /\ GoOn(c, "save")
    /\ UNCHANGED <<soulFile, exported, counted, settled>>

-----------------------------------------------------------------------------
(* createVoiceProfile, updateVoiceProfile *)

ReadProfile(c) ==
    /\ ask[c].at = "profileRead"
    /\ IF Exists(ask[c].want)
       THEN ask' = [ask EXCEPT ![c].at = "profileOff", ![c].was = voices[ask[c].want].active]
       ELSE ask' = [ask EXCEPT ![c] = NoAsk]
    /\ UNCHANGED <<persona, soulFile, voices, exported, counted, settled>>

DeactivateForProfile(c) ==
    /\ ask[c].at = "profileOff"
    /\ voices' = IF ask[c].active = "yes" THEN AllOff ELSE voices
    /\ GoOn(c, "profileWrite")
    /\ UNCHANGED <<persona, soulFile, exported, counted, settled>>

\* A patch that says nothing of the activity writes back the one it has read.
WriteProfile(c) ==
    LET active == CASE ask[c].active = "yes" -> TRUE [] ask[c].active = "no" -> FALSE [] OTHER -> ask[c].was
    IN  /\ ask[c].at = "profileWrite"
        /\ IF ask[c].kind = "create"
           THEN \E p \in FreshIds : voices' = [voices EXCEPT ![p] = [is |-> "own", active |-> active]]
           ELSE voices' = IF Exists(ask[c].want) THEN [voices EXCEPT ![ask[c].want].active = active] ELSE voices
        /\ Answer(c)
        /\ UNCHANGED <<persona, soulFile, exported, counted>>

-----------------------------------------------------------------------------
(* What happens to them *)

\* The operator edits or removes the soul's file, under the requests there are.
EditSoulFile ==
    /\ Room
    /\ asks' = asks + 1
    /\ \/ soulFile' = 0 /\ UNCHANGED texts
       \/ texts < MaxSouls /\ texts' = texts + 1 /\ soulFile' = texts'
    /\ ask' = [c \in Callers |-> [ask[c] EXCEPT !.alone = ask[c].at = "idle"]]
    /\ settled' = FALSE
    /\ UNCHANGED <<persona, voices, exported>>

WorkerDies ==
    /\ Room
    /\ asks' = asks + 1
    /\ ask' = [c \in Callers |-> NoAsk]
    /\ settled' = FALSE
    /\ UNCHANGED <<persona, soulFile, voices, exported, texts>>

PersonaStep(c) ==
    \/ EnsureRows(c) \/ LoadSoul(c) \/ FollowSoul(c) \/ PickVoice(c) \/ FindBuiltIn(c) \/ InsertBuiltIn(c)
    \/ Deactivate(c) \/ Activate(c) \/ Normalise(c) \/ EnsureDefaultVoice(c) \/ Listed(c)
    \/ ChooseVoice(c) \/ WritePersona(c) \/ SaveSoul(c) \/ Restore(c) \/ Truncate(c)
    \/ ReadProfile(c) \/ DeactivateForProfile(c) \/ WriteProfile(c)

PersonaNext ==
    \/ \E c \in Callers : Begin(c) \/ PersonaStep(c)
    \/ EditSoulFile \/ WorkerDies

PersonaSpec == PersonaInit /\ [][PersonaNext]_personaVars

-----------------------------------------------------------------------------
(* Properties *)

PersonaTypeOK ==
    /\ persona \in PersonaRow /\ soulFile \in MaybeSoul
    /\ voices \in [Profiles -> Voice]
    /\ exported \in Snapshot
    /\ ask \in [Callers -> Ask]
    /\ asks \in 0 .. MaxVisits /\ texts \in MaybeSoul /\ settled \in BOOLEAN

\* Whatever races and crashes left behind - two active profiles or none, a row and a file with
\* different souls, a voice that is gone - one request about the persona that nothing overlaps
\* puts in order: the row and the file have one soul, and the persona's voice exists and is the
\* only active one.
PersonaHeals ==
    settled => /\ persona.here /\ persona.soul = soulFile
               /\ Exists(persona.voice) /\ Active = {persona.voice}
=============================================================================
