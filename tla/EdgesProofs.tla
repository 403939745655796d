---------------------------- MODULE EdgesProofs -----------------------------
(***************************************************************************)
(* That the edges of the system keep what they were given: one request     *)
(* restores whatever was lost of a persona, a clean-up of stale media      *)
(* removes no recording whose file is there, the desk shows the history of *)
(* the conversation it has selected, a form of the settings keeps its      *)
(* draft, a reply is a whole message in the model's own words and is       *)
(* stored as what it was, and an agent executes no call that asked for an  *)
(* approval unless an operator approved this very call. That the agent's   *)
(* passes keep the promise of a build job, and all variables of these      *)
(* parts their kinds. For any values, uploads, losses, conversations,      *)
(* clicks, loads, sections, words, calls, limits and faults.               *)
(***************************************************************************)
EXTENDS MCEdges, LauncherProofs, FiniteSetTheorems, SequenceTheorems

-----------------------------------------------------------------------------
(* The persona. *)

PersonaKinds ==
    /\ persona \in PersonaRow /\ soulFile \in MaybeSoul
    /\ voices \in [Profiles -> Voice]
    /\ exported \in Snapshot
    /\ ask \in [Callers -> Ask]
    /\ texts \in MaybeSoul /\ settled \in BOOLEAN

\* A request that is alone is the only one under way; none is when something is settled.
AloneIsAlone ==
    /\ \A c \in Callers : ask[c].at # "idle" /\ ask[c].alone => \A d \in Callers \ {c} : ask[d].at = "idle"
    /\ settled => \A c \in Callers : ask[c].at = "idle"

Voicing == {"find", "insert", "off", "on"}

\* Which requests are at which places.
Routed(r) ==
    /\ r.at \in {"choose", "write"} => r.kind = "update"
    /\ r.at \in Voicing /\ r.then = "write" => r.kind = "update"
    /\ r.at \in Voicing => r.then \in {"normalise", "write", "listed"}
    /\ r.at = "truncate" => r.kind = "reset"
    /\ r.at \in {"profileRead", "profileOff", "profileWrite"} => r.kind \notin AboutPersona

\* The row and the file have one soul, and the row's voice is there and the only one active.
Healed ==
    /\ persona.here /\ persona.soul = soulFile
    /\ Exists(persona.voice) /\ Active = {persona.voice}

\* What a request about the persona that nothing overlaps has repaired so far.
HasRow(r) == persona.here /\ r.seen = persona
Repaired(r) ==
    /\ r.at \in {"soul", "soulRow", "voice"} => HasRow(r)
    /\ r.at = "soulRow" => soulFile = r.text
    /\ r.at = "voice" => persona.soul = soulFile
    /\ r.at \in Voicing => r.then # "listed"
    /\ r.at \in Voicing /\ r.then = "normalise" => HasRow(r) /\ persona.soul = soulFile
    /\ r.at \in {"off", "on"} /\ r.then = "normalise" => Exists(r.target)
    /\ r.at = "on" => Active = {}
    /\ r.at = "normalise" => /\ HasRow(r) /\ persona.soul = soulFile
                             /\ Exists(r.target) /\ Active = {r.target}
    /\ r.at \in {"default", "listed"} => HasRow(r) /\ Healed
    /\ r.at = "save" /\ r.kind = "import" => Healed /\ r.text = soulFile

RepairsGoOn ==
    \A c \in Callers : /\ Routed(ask[c])
                       /\ ask[c].alone /\ ask[c].kind \in AboutPersona => Repaired(ask[c])

PersonaInv == PersonaKinds /\ AloneIsAlone /\ RepairsGoOn /\ PersonaHeals

\* The values things start from are of their kinds.
LEMMA PersonaValues ==
    /\ NoPersona \in PersonaRow /\ NoVoice \in Voice /\ NoVoice.is = "absent"
    /\ [p \in Profiles |-> NoVoice] \in [Profiles -> Voice]
    /\ NoAsk \in Ask /\ NoAsk.at = "idle" /\ NoAsk.kind = "read" /\ NoSnapshot \in Snapshot
    /\ 0 \in MaybeProfile /\ 0 \in MaybeSoul /\ 1 \in MaybeSoul
  <1>1. 0 \in MaybeProfile /\ 0 \in MaybeSoul /\ 1 \in MaybeSoul
    BY PersonaAssumption DEF MaybeProfile, MaybeSoul
  <1>2. NoPersona \in PersonaRow
    BY <1>1 DEF NoPersona, PersonaRow, Genders
  <1>3. NoVoice \in Voice /\ NoVoice.is = "absent"
    BY DEF NoVoice, Voice
  <1>4. [p \in Profiles |-> NoVoice] \in [Profiles -> Voice]
    BY <1>3
  <1>5. NoAsk \in Ask /\ NoAsk.at = "idle" /\ NoAsk.kind = "read"
    BY <1>1, <1>2 DEF NoAsk, Ask, Kinds, Places, Genders
  <1>6. NoSnapshot \in Snapshot
    BY <1>2, <1>4 DEF NoSnapshot, Snapshot
  <1> QED
    BY <1>1, <1>2, <1>3, <1>4, <1>5, <1>6

\* Nobody has asked for anything at the beginning.
LEMMA PersonaInitial == PersonaInit => PersonaInv
  <1> SUFFICES ASSUME PersonaInit PROVE PersonaInv
    OBVIOUS
  <1>1. PersonaKinds
    BY PersonaValues DEF PersonaInit, PersonaKinds
  <1>2. \A c \in Callers : ask[c] = NoAsk
    BY DEF PersonaInit
  <1>3. Routed(NoAsk) /\ Repaired(NoAsk)
    BY PersonaValues DEF Routed, Repaired, Voicing
  <1> QED
    BY <1>1, <1>2, <1>3, PersonaValues DEF PersonaInit, PersonaInv, AloneIsAlone, RepairsGoOn, PersonaHeals

\* A step of a request: only that request has to be looked at, since one that is alone is the only one.
LEMMA StepHeals ==
    ASSUME PersonaInv, NEW c \in Callers, ask[c].at # "idle",
           NEW q \in Ask, ask' = [ask EXCEPT ![c] = q],
           q.at = "idle" \/ q.alone = ask[c].alone, UNCHANGED <<settled, texts, exported>>,
           persona' \in PersonaRow, soulFile' \in MaybeSoul, voices' \in [Profiles -> Voice],
           Routed(q), q.alone /\ q.kind \in AboutPersona => Repaired(q)'
    PROVE  PersonaInv'
  <1> USE DEF PersonaInv
  <1>1. PersonaKinds'
    BY DEF PersonaKinds
  <1>2. ask'[c] = q /\ \A d \in Callers \ {c} : ask'[d] = ask[d]
    BY DEF PersonaKinds
  <1>3. settled' = FALSE
    BY DEF AloneIsAlone, PersonaKinds
  <1>4. \A d \in Callers \ {c} : ask[d].at # "idle" => ~ask[d].alone
    BY DEF AloneIsAlone
  <1>5. AloneIsAlone'
    <2>1. ask'[c].at # "idle" /\ ask'[c].alone => \A d \in Callers \ {c} : ask'[d].at = "idle"
      BY <1>2 DEF AloneIsAlone
    <2>2. \A d \in Callers \ {c} : ~(ask'[d].at # "idle" /\ ask'[d].alone)
      BY <1>2, <1>4
    <2> QED
      BY <1>3, <2>1, <2>2 DEF AloneIsAlone
  <1>6. ASSUME NEW d \in Callers \ {c} PROVE Routed(ask[d])' /\ (ask[d].alone /\ ask[d].kind \in AboutPersona => Repaired(ask[d]))'
    <2>1. ask'[d] = ask[d]
      BY <1>2
    <2>2. Routed(ask[d])
      BY DEF RepairsGoOn
    <2>3. Routed(ask[d])'
      BY <2>1, <2>2 DEF Routed
    <2>4. CASE ask[d].at = "idle"
      BY <2>1, <2>3, <2>4 DEF Repaired, Voicing
    <2>5. CASE ask[d].at # "idle"
      BY <2>1, <2>3, <2>5, <1>4
    <2> QED
      BY <2>4, <2>5
  <1>7. RepairsGoOn'
    <2>1. Routed(ask'[c])
      BY <1>2
    <2>2. ask'[c].alone /\ ask'[c].kind \in AboutPersona => Repaired(ask[c])'
      BY <1>2
    <2> QED
      BY <1>6, <2>1, <2>2 DEF RepairsGoOn
  <1> QED
    BY <1>1, <1>3, <1>5, <1>7 DEF PersonaHeals

\* The end of a request that is about the persona and was alone leaves it healed.
LEMMA AnswerHeals ==
    ASSUME PersonaInv, NEW c \in Callers, ask[c].at # "idle", Answer(c),
           UNCHANGED texts, exported' \in Snapshot,
           persona' \in PersonaRow, soulFile' \in MaybeSoul, voices' \in [Profiles -> Voice],
           ask[c].alone /\ ask[c].kind \in AboutPersona => Healed'
    PROVE  PersonaInv'
  <1> USE DEF PersonaInv
  <1>1. settled' \in BOOLEAN
    BY DEF Answer
  <1>2. PersonaKinds'
    BY <1>1, PersonaValues DEF PersonaKinds, Answer
  <1>3. ask'[c] = NoAsk /\ \A d \in Callers \ {c} : ask'[d] = ask[d]
    BY DEF PersonaKinds, Answer
  <1>4. \A d \in Callers \ {c} : ask[d].at # "idle" => ~ask[d].alone
    BY DEF AloneIsAlone
  <1>5. settled' => ask[c].alone /\ ask[c].kind \in AboutPersona
    BY DEF Answer
  <1>6. AloneIsAlone'
    BY <1>3, <1>4, <1>5, PersonaValues DEF AloneIsAlone
  <1>7. ASSUME NEW d \in Callers PROVE Routed(ask[d])' /\ (ask[d].alone /\ ask[d].kind \in AboutPersona => Repaired(ask[d]))'
    <2>1. CASE ask'[d].at = "idle"
      BY <2>1 DEF Repaired, Routed, Voicing
    <2>2. CASE ask'[d].at # "idle"
      <3>1. d # c /\ ask'[d] = ask[d] /\ ~ask[d].alone /\ Routed(ask[d])
        BY <2>2, <1>3, <1>4, PersonaValues DEF RepairsGoOn
      <3> QED
        BY <3>1 DEF Routed
    <2> QED
      BY <2>1, <2>2
  <1>8. RepairsGoOn'
    BY <1>7 DEF RepairsGoOn
  <1>9. PersonaHeals'
    BY <1>5 DEF PersonaHeals, Healed
  <1> QED
    BY <1>2, <1>6, <1>8, <1>9

\* What switching the profiles off and one of them on does to which are there and active.
LEMMA OffAndOn ==
    ASSUME voices \in [Profiles -> Voice]
    PROVE  /\ voices' = AllOff => /\ voices' \in [Profiles -> Voice] /\ Active' = {}
                                  /\ \A p \in MaybeProfile : Exists(p)' <=> Exists(p)
           /\ \A t \in Profiles : voices' = [voices EXCEPT ![t].active = TRUE] =>
                   /\ voices' \in [Profiles -> Voice] /\ Active' = Active \cup {t}
                   /\ \A p \in MaybeProfile : Exists(p)' <=> Exists(p)
  <1>1. ASSUME voices' = AllOff
        PROVE  /\ voices' \in [Profiles -> Voice] /\ Active' = {}
               /\ \A p \in MaybeProfile : Exists(p)' <=> Exists(p)
    <2>1. voices' \in [Profiles -> Voice] /\ \A p \in Profiles : voices'[p].is = voices[p].is /\ voices'[p].active = FALSE
      BY <1>1 DEF AllOff, Voice
    <2> QED
      BY <2>1 DEF Active, Exists, MaybeProfile
  <1>2. ASSUME NEW t \in Profiles, voices' = [voices EXCEPT ![t].active = TRUE]
        PROVE  /\ voices' \in [Profiles -> Voice] /\ Active' = Active \cup {t}
               /\ \A p \in MaybeProfile : Exists(p)' <=> Exists(p)
    <2>1. /\ voices' \in [Profiles -> Voice] /\ voices'[t].active = TRUE /\ voices'[t].is = voices[t].is
          /\ \A p \in Profiles \ {t} : voices'[p] = voices[p]
      BY <1>2 DEF Voice
    <2>2. Active' = Active \cup {t}
      BY <2>1 DEF Active
    <2> QED
      BY <2>1, <2>2 DEF Exists, MaybeProfile
  <1> QED
    BY <1>1, <1>2

\* ensureDefaultPersonaRecord, up to the choice of a voice.
LEMMA RowHeals ==
    ASSUME PersonaInv, NEW c \in Callers, EnsureRows(c) \/ LoadSoul(c) \/ FollowSoul(c) \/ PickVoice(c)
    PROVE  PersonaInv'
  <1> USE DEF PersonaInv, Places
  <1>1. ask[c] \in Ask /\ Routed(ask[c]) /\ (ask[c].alone /\ ask[c].kind \in AboutPersona => Repaired(ask[c]))
    BY DEF PersonaKinds, RepairsGoOn
  <1>2. CASE EnsureRows(c)
    <2>1. persona' \in PersonaRow /\ persona'.here
      BY <1>2 DEF EnsureRows, PersonaKinds, PersonaRow
    <2>2. PICK q : q = [ask[c] EXCEPT !.at = "soul", !.seen = persona']
      OBVIOUS
    <2>3. q \in Ask /\ q.kind = ask[c].kind /\ q.alone = ask[c].alone /\ q.at = "soul" /\ q.seen = persona'
      BY <1>1, <2>1, <2>2 DEF Ask
    <2>4. ask' = [ask EXCEPT ![c] = q]
      BY <1>2, <2>2 DEF EnsureRows, PersonaKinds
    <2>5. Routed(q) /\ Repaired(q)'
      BY <2>1, <2>3 DEF Routed, Repaired, Voicing, HasRow
    <2> QED
      BY <1>2, <2>1, <2>3, <2>4, <2>5, StepHeals DEF EnsureRows, PersonaKinds, counted
  <1>3. CASE LoadSoul(c)
    <2>1. soulFile' \in MaybeSoul /\ persona' = persona /\ ask[c].at = "soul"
      BY <1>1, <1>3 DEF LoadSoul, PersonaKinds, Ask, PersonaRow
    <2>2. PICK q : q = [ask[c] EXCEPT !.at = "soulRow", !.text = soulFile']
      OBVIOUS
    <2>3. q \in Ask /\ q.kind = ask[c].kind /\ q.alone = ask[c].alone /\ q.at = "soulRow" /\ q.text = soulFile' /\ q.seen = ask[c].seen
      BY <1>1, <2>1, <2>2 DEF Ask
    <2>4. ask' = [ask EXCEPT ![c] = q]
      BY <1>3, <2>2 DEF LoadSoul, PersonaKinds
    <2>5. Routed(q)
      BY <2>3 DEF Routed, Voicing
    <2>6. Repaired(ask[c]) => Repaired(q)'
      BY <2>1, <2>3 DEF Repaired, Voicing, HasRow
    <2> QED
      BY <1>1, <1>3, <2>1, <2>3, <2>4, <2>5, <2>6, StepHeals DEF LoadSoul, PersonaKinds, counted
  <1>4. CASE FollowSoul(c)
    <2>1. PICK s : s = IF ask[c].text # ask[c].seen.soul /\ persona.here THEN persona' ELSE ask[c].seen
      OBVIOUS
    <2>2. persona' \in PersonaRow /\ s \in PersonaRow /\ persona'.here = persona.here
      BY <1>1, <1>4, <2>1 DEF FollowSoul, PersonaKinds, PersonaRow, Ask
    <2>3. PICK q : q = [ask[c] EXCEPT !.at = "voice", !.seen = s]
      OBVIOUS
    <2>4. q \in Ask /\ q.kind = ask[c].kind /\ q.alone = ask[c].alone /\ q.at = "voice" /\ q.seen = s
      BY <1>1, <2>2, <2>3 DEF Ask
    <2>5. ask' = [ask EXCEPT ![c] = q]
      BY <1>4, <2>1, <2>3 DEF FollowSoul, PersonaKinds
    <2>6. Routed(q)
      BY <2>4 DEF Routed, Voicing
    <2>7. Repaired(ask[c]) => HasRow(q)' /\ persona'.soul = soulFile'
      BY <1>4, <2>1, <2>2, <2>4 DEF FollowSoul, Repaired, HasRow, PersonaKinds, PersonaRow
    <2>8. Repaired(ask[c]) => Repaired(q)'
      BY <2>4, <2>7 DEF Repaired, Voicing
    <2> QED
      BY <1>1, <1>4, <2>2, <2>4, <2>5, <2>6, <2>8, StepHeals DEF FollowSoul, PersonaKinds, counted
  <1>5. CASE PickVoice(c)
    <2>1. ask[c].seen \in PersonaRow
      BY <1>1 DEF Ask
    <2>2. PICK q : /\ q = IF Exists(ask[c].seen.voice)
                          THEN [ask[c] EXCEPT !.at = "off", !.target = ask[c].seen.voice, !.then = "normalise"]
                          ELSE [ask[c] EXCEPT !.at = "find", !.sex = ask[c].seen.gender, !.then = "normalise"]
      OBVIOUS
    <2>3. /\ q \in Ask /\ q.kind = ask[c].kind /\ q.alone = ask[c].alone /\ q.at \in {"off", "find"}
          /\ q.then = "normalise" /\ q.seen = ask[c].seen /\ (q.at = "off" => Exists(q.target))
      BY <1>1, <2>1, <2>2 DEF Ask, PersonaRow
    <2>4. ask' = [ask EXCEPT ![c] = q]
      BY <1>5, <2>2 DEF PickVoice, PersonaKinds
    <2>5. Routed(q)
      BY <2>3 DEF Routed, Voicing
    <2>6. UNCHANGED <<persona, soulFile, voices>> /\ ask[c].at = "voice"
      BY <1>5 DEF PickVoice
    <2>7. Repaired(ask[c]) => Repaired(q)'
      BY <2>3, <2>6 DEF Repaired, Voicing, HasRow, Exists, Active
    <2> QED
      BY <1>1, <1>5, <2>3, <2>4, <2>5, <2>6, <2>7, StepHeals DEF PickVoice, PersonaKinds, counted
  <1> QED
    BY <1>2, <1>3, <1>4, <1>5

\* A built-in profile is found or made.
LEMMA BuiltInHeals ==
    ASSUME PersonaInv, NEW c \in Callers, FindBuiltIn(c) \/ InsertBuiltIn(c) PROVE PersonaInv'
  <1> USE DEF PersonaInv, Places
  <1>1. ask[c] \in Ask /\ Routed(ask[c]) /\ (ask[c].alone /\ ask[c].kind \in AboutPersona => Repaired(ask[c]))
    BY DEF PersonaKinds, RepairsGoOn
  <1>2. \A p \in Profiles : p \in MaybeProfile /\ p # 0
    BY PersonaAssumption DEF MaybeProfile
  <1>3. ask[c].sex \in Genders /\ "absent" \notin Genders
    BY <1>1 DEF Ask, Genders
  <1>4. CASE FindBuiltIn(c)
    <2>1. UNCHANGED <<persona, soulFile, voices>> /\ ask[c].at = "find"
      BY <1>4 DEF FindBuiltIn
    <2>2. ASSUME NEW p \in Profiles, voices[p].is = ask[c].sex, ask' = [ask EXCEPT ![c].at = "off", ![c].target = p]
          PROVE  PersonaInv'
      <3>1. PICK q : q = [ask[c] EXCEPT !.at = "off", !.target = p]
        OBVIOUS
      <3>2. /\ q \in Ask /\ q.kind = ask[c].kind /\ q.alone = ask[c].alone /\ q.at = "off"
            /\ q.then = ask[c].then /\ q.seen = ask[c].seen /\ q.target = p
        BY <1>1, <1>2, <3>1 DEF Ask
      <3>3. Exists(p)
        BY <1>2, <1>3, <2>2 DEF Exists
      <3>4. ask' = [ask EXCEPT ![c] = q]
        BY <2>2, <3>1 DEF PersonaKinds
      <3>5. Routed(q)
        BY <1>1, <2>1, <3>2 DEF Routed, Voicing
      <3>6. Repaired(ask[c]) => Repaired(q)'
        BY <2>1, <3>2, <3>3 DEF Repaired, Voicing, HasRow, Exists
      <3> QED
        BY <1>1, <1>4, <2>1, <3>2, <3>4, <3>5, <3>6, StepHeals DEF FindBuiltIn, PersonaKinds, counted
    <2>3. ASSUME GoOn(c, "insert") PROVE PersonaInv'
      <3>1. PICK q : q = [ask[c] EXCEPT !.at = "insert"]
        OBVIOUS
      <3>2. /\ q \in Ask /\ q.kind = ask[c].kind /\ q.alone = ask[c].alone /\ q.at = "insert"
            /\ q.then = ask[c].then /\ q.seen = ask[c].seen
        BY <1>1, <3>1 DEF Ask
      <3>3. ask' = [ask EXCEPT ![c] = q]
        BY <2>3, <3>1 DEF PersonaKinds, GoOn
      <3>4. Routed(q)
        BY <1>1, <2>1, <3>2 DEF Routed, Voicing
      <3>5. Repaired(ask[c]) => Repaired(q)'
        BY <2>1, <3>2 DEF Repaired, Voicing, HasRow
      <3> QED
        BY <1>1, <1>4, <2>1, <3>2, <3>3, <3>4, <3>5, StepHeals DEF FindBuiltIn, PersonaKinds, counted
    <2> QED
      BY <1>4, <2>2, <2>3 DEF FindBuiltIn
  <1>5. CASE InsertBuiltIn(c)
    <2>1. UNCHANGED <<persona, soulFile>> /\ ask[c].at = "insert"
      BY <1>5 DEF InsertBuiltIn
    <2>2. PICK p \in FreshIds : /\ voices' = [voices EXCEPT ![p] = [NoVoice EXCEPT !.is = ask[c].sex]]
                               /\ ask' = [ask EXCEPT ![c].at = "off", ![c].target = p]
      BY <1>5 DEF InsertBuiltIn
    <2>3. p \in Profiles
      BY DEF FreshIds
    <2>4. voices' \in [Profiles -> Voice] /\ Exists(p)'
      BY <1>2, <1>3, <2>2, <2>3 DEF Exists, PersonaKinds, NoVoice, Voice
    <2>5. PICK q : q = [ask[c] EXCEPT !.at = "off", !.target = p]
      OBVIOUS
    <2>6. /\ q \in Ask /\ q.kind = ask[c].kind /\ q.alone = ask[c].alone /\ q.at = "off"
          /\ q.then = ask[c].then /\ q.seen = ask[c].seen /\ q.target = p
      BY <1>1, <1>2, <2>3, <2>5 DEF Ask
    <2>7. ask' = [ask EXCEPT ![c] = q]
      BY <2>2, <2>5 DEF PersonaKinds
    <2>8. Routed(q)
      BY <1>1, <2>1, <2>6 DEF Routed, Voicing
    <2>9. Repaired(ask[c]) => Repaired(q)'
      BY <2>1, <2>4, <2>6 DEF Repaired, Voicing, HasRow
    <2> QED
      BY <1>1, <1>5, <2>1, <2>4, <2>6, <2>7, <2>8, <2>9, StepHeals DEF InsertBuiltIn, PersonaKinds, counted
  <1> QED
    BY <1>4, <1>5

\* activateVoiceProfile.
LEMMA ActivationHeals ==
    ASSUME PersonaInv, NEW c \in Callers, Deactivate(c) \/ Activate(c) PROVE PersonaInv'
  <1> USE DEF PersonaInv, Places
  <1>1. ask[c] \in Ask /\ Routed(ask[c]) /\ (ask[c].alone /\ ask[c].kind \in AboutPersona => Repaired(ask[c]))
    BY DEF PersonaKinds, RepairsGoOn
  <1>2. ask[c].target \in MaybeProfile /\ ask[c].then \in Places
    BY <1>1 DEF Ask
  <1>3. CASE Deactivate(c)
    <2>1. UNCHANGED <<persona, soulFile>> /\ ask[c].at = "off" /\ voices' = AllOff
      BY <1>3 DEF Deactivate
    <2>2. PICK t \in MaybeProfile : t = ask[c].target
      BY <1>2
    <2>0. voices' \in [Profiles -> Voice] /\ Active' = {} /\ (Exists(t)' <=> Exists(t))
      BY <2>1, OffAndOn DEF PersonaKinds
    <2>3. PICK q : q = [ask[c] EXCEPT !.at = "on"]
      OBVIOUS
    <2>4. /\ q \in Ask /\ q.kind = ask[c].kind /\ q.alone = ask[c].alone /\ q.at = "on"
          /\ q.then = ask[c].then /\ q.seen = ask[c].seen /\ q.target = t
      BY <1>1, <2>2, <2>3 DEF Ask
    <2>5. ask' = [ask EXCEPT ![c] = q]
      BY <1>3, <2>3 DEF PersonaKinds, Deactivate, GoOn
    <2>6. Routed(q)
      BY <1>1, <2>1, <2>4 DEF Routed, Voicing
    <2>7. Repaired(ask[c]) => Repaired(q)'
      BY <2>0, <2>1, <2>2, <2>4 DEF Repaired, Voicing, HasRow
    <2> QED
      BY <1>1, <1>3, <2>0, <2>1, <2>4, <2>5, <2>6, <2>7, StepHeals DEF Deactivate, PersonaKinds, counted
  <1>4. CASE Activate(c)
    <2>1. UNCHANGED <<persona, soulFile>> /\ ask[c].at = "on"
      BY <1>4 DEF Activate
    <2>2. PICK t : t = ask[c].target
      OBVIOUS
    <2>3. voices' \in [Profiles -> Voice] /\ (Exists(t) => Active' = Active \cup {t} /\ Exists(t)')
      <3>1. CASE Exists(t)
        <4>1. t \in Profiles /\ t \in MaybeProfile
          BY <1>2, <2>2, <3>1 DEF Exists, MaybeProfile
        <4>2. voices' = [voices EXCEPT ![t].active = TRUE]
          BY <1>4, <2>2, <3>1 DEF Activate
        <4> QED
          BY <3>1, <4>1, <4>2, OffAndOn DEF PersonaKinds
      <3>2. CASE ~Exists(t)
        BY <1>4, <2>2, <3>2 DEF Activate, PersonaKinds
      <3> QED
        BY <3>1, <3>2
    <2>4. PICK q : q = [ask[c] EXCEPT !.at = ask[c].then]
      OBVIOUS
    <2>5. /\ q \in Ask /\ q.kind = ask[c].kind /\ q.alone = ask[c].alone /\ q.at = ask[c].then
          /\ q.then = ask[c].then /\ q.seen = ask[c].seen /\ q.target = t
      BY <1>1, <1>2, <2>2, <2>4 DEF Ask
    <2>6. ask' = [ask EXCEPT ![c] = q]
      BY <1>4, <2>4 DEF PersonaKinds, Activate, GoOn
    <2>7. q.at \in {"normalise", "write", "listed"} /\ (q.at = "write" => q.kind = "update")
      BY <1>1, <2>1, <2>5 DEF Routed, Voicing
    <2>8. Routed(q)
      BY <2>7 DEF Routed, Voicing
    <2>9. Repaired(ask[c]) => Repaired(q)'
      BY <2>1, <2>2, <2>3, <2>5, <2>7 DEF Repaired, Voicing, HasRow
    <2> QED
      BY <1>1, <1>4, <2>1, <2>3, <2>5, <2>6, <2>8, <2>9, StepHeals DEF Activate, PersonaKinds, counted
  <1> QED
    BY <1>3, <1>4

\* The row gets the voice that was activated, and the persona is healed.
LEMMA NormaliseHeals ==
    ASSUME PersonaInv, NEW c \in Callers, Normalise(c) PROVE PersonaInv'
  <1> USE DEF PersonaInv, Places
  <1>1. ask[c] \in Ask /\ Routed(ask[c]) /\ (ask[c].alone /\ ask[c].kind \in AboutPersona => Repaired(ask[c]))
    BY DEF PersonaKinds, RepairsGoOn
  <1>2. UNCHANGED <<soulFile, voices>> /\ ask[c].at = "normalise"
    BY DEF Normalise
  <1>3. PICK s : s = IF ask[c].seen.voice # ask[c].target /\ persona.here THEN persona' ELSE ask[c].seen
    OBVIOUS
  <1>4. persona' \in PersonaRow /\ s \in PersonaRow /\ persona'.here = persona.here /\ persona'.soul = persona.soul
    BY <1>1, <1>3 DEF Normalise, PersonaKinds, PersonaRow, Ask
  <1>5. PICK q : q = [ask[c] EXCEPT !.seen = s,
                        !.at = IF ask[c].kind = "update" /\ ~ask[c].again THEN "choose" ELSE "default"]
    OBVIOUS
  <1>6. /\ q \in Ask /\ q.kind = ask[c].kind /\ q.alone = ask[c].alone /\ q.seen = s
        /\ q.at = "default" \/ (q.at = "choose" /\ q.kind = "update")
    BY <1>1, <1>4, <1>5 DEF Ask
  <1>7. ask' = [ask EXCEPT ![c] = q]
    BY <1>3, <1>5 DEF Normalise, PersonaKinds
  <1>8. Routed(q)
    BY <1>6 DEF Routed, Voicing
  <1>9. Repaired(ask[c]) => Repaired(q)'
    <2> SUFFICES ASSUME Repaired(ask[c]) PROVE Repaired(q)'
      OBVIOUS
    <2>1. persona.here /\ ask[c].seen = persona /\ persona.soul = soulFile
      BY <1>2 DEF Repaired, HasRow
    <2>2. Exists(ask[c].target) /\ Active = {ask[c].target}
      BY <1>2 DEF Repaired
    <2>3. s = persona' /\ persona'.voice = ask[c].target
      BY <1>3, <2>1 DEF Normalise, PersonaKinds, PersonaRow
    <2>4. Healed' /\ HasRow(q)'
      BY <1>2, <1>4, <1>6, <2>1, <2>2, <2>3 DEF Healed, HasRow, Exists, Active
    <2> QED
      BY <1>6, <2>4 DEF Repaired, Voicing
  <1> QED
    BY <1>1, <1>2, <1>4, <1>6, <1>7, <1>8, <1>9, StepHeals, ZenonT(60) DEF Normalise, PersonaKinds, counted

\* The profiles are listed, and export, import and reads go their ways.
LEMMA ListingHeals ==
    ASSUME PersonaInv, NEW c \in Callers, EnsureDefaultVoice(c) \/ Listed(c) PROVE PersonaInv'
  <1> USE DEF PersonaInv, Places
  <1>1. ask[c] \in Ask /\ Routed(ask[c]) /\ (ask[c].alone /\ ask[c].kind \in AboutPersona => Repaired(ask[c]))
    BY DEF PersonaKinds, RepairsGoOn
  <1>2. UNCHANGED <<persona, soulFile, voices>>
    BY DEF EnsureDefaultVoice, Listed
  <1>3. Healed' <=> Healed
    BY <1>2 DEF Healed, Exists, Active
  <1>4. CASE EnsureDefaultVoice(c)
    <2>1. ask[c].at = "default"
      BY <1>4 DEF EnsureDefaultVoice
    <2>2. PICK q : q = IF Active # {} THEN [ask[c] EXCEPT !.at = "listed"]
                       ELSE [ask[c] EXCEPT !.at = "find", !.sex = "female", !.then = "listed"]
      OBVIOUS
    <2>3. /\ q \in Ask /\ q.kind = ask[c].kind /\ q.alone = ask[c].alone /\ q.seen = ask[c].seen
          /\ q.at = "listed" \/ (q.at = "find" /\ q.then = "listed" /\ Active = {})
      BY <1>1, <2>2, ZenonT(60) DEF Ask, Genders
    <2>4. ask' = [ask EXCEPT ![c] = q]
      BY <1>4, <2>2 DEF EnsureDefaultVoice, PersonaKinds
    <2>5. Routed(q)
      BY <2>3 DEF Routed, Voicing
    <2>6. Repaired(ask[c]) => HasRow(ask[c]) /\ Healed /\ Active # {}
      BY <2>1 DEF Repaired, Healed
    <2>7. Repaired(ask[c]) => Repaired(q)'
      BY <1>2, <1>3, <2>3, <2>6 DEF Repaired, Voicing, HasRow
    <2> QED
      BY <1>1, <1>2, <1>4, <2>1, <2>3, <2>4, <2>5, <2>7, StepHeals DEF EnsureDefaultVoice, PersonaKinds, counted
  <1>5. CASE Listed(c)
    <2>1. ask[c].at = "listed" /\ UNCHANGED texts
      BY <1>5 DEF Listed, counted
    <2>2. Repaired(ask[c]) => HasRow(ask[c]) /\ Healed
      BY <2>1 DEF Repaired
    <2>3. exported' \in Snapshot
      <3>1. CASE ask[c].kind = "export"
        <4>1. PICK on \in SUBSET {p \in Profiles : Exists(p)} :
                  exported' = [taken |-> TRUE, persona |-> ask[c].seen,
                               voices |-> [p \in Profiles |-> [voices[p] EXCEPT !.active = p \in on]]]
          BY <1>5, <3>1 DEF Listed
        <4>2. [p \in Profiles |-> [voices[p] EXCEPT !.active = p \in on]] \in [Profiles -> Voice]
          <5>1. ASSUME NEW p \in Profiles PROVE [voices[p] EXCEPT !.active = p \in on] \in Voice
            <6>1. ASSUME NEW b \in BOOLEAN PROVE [voices[p] EXCEPT !.active = b] \in Voice
              BY DEF PersonaKinds, Voice
            <6>2. (p \in on) \in BOOLEAN
              OBVIOUS
            <6> QED
              BY <6>1, <6>2
          <5> QED
            BY <5>1
        <4>3. ask[c].seen \in PersonaRow
          BY <1>1 DEF Ask
        <4> QED
          BY <4>1, <4>2, <4>3 DEF Snapshot
      <3> QED
        BY <1>5, <3>1 DEF Listed, PersonaKinds
    <2>4. CASE ask[c].kind = "import"
      <3>1. ask' = [ask EXCEPT ![c].at = "save", ![c].text = ask[c].seen.soul] /\ UNCHANGED <<settled, exported>>
        BY <1>5, <2>4 DEF Listed
      <3>2. PICK q : q = [ask[c] EXCEPT !.at = "save", !.text = ask[c].seen.soul]
        OBVIOUS
      <3>3. /\ q \in Ask /\ q.kind = ask[c].kind /\ q.alone = ask[c].alone
            /\ q.at = "save" /\ q.text = ask[c].seen.soul
        BY <1>1, <3>2 DEF Ask, PersonaRow
      <3>4. ask' = [ask EXCEPT ![c] = q]
        BY <3>1, <3>2 DEF PersonaKinds
      <3>5. Routed(q)
        BY <3>3 DEF Routed, Voicing
      <3>6. Repaired(ask[c]) => Repaired(q)'
        BY <1>2, <1>3, <2>2, <3>3 DEF Repaired, Voicing, HasRow, Healed
      <3> QED
        BY <1>1, <1>2, <2>1, <3>1, <3>3, <3>4, <3>5, <3>6, StepHeals DEF PersonaKinds
    <2>5. CASE ask[c].kind # "import"
      <3>1. Answer(c)
        BY <1>5, <2>5 DEF Listed
      <3>2. ask[c].alone /\ ask[c].kind \in AboutPersona => Healed'
        BY <1>1, <1>3, <2>2
      <3> QED
        BY <1>2, <2>1, <2>3, <3>1, <3>2, AnswerHeals DEF PersonaKinds
    <2> QED
      BY <2>4, <2>5
  <1> QED
    BY <1>4, <1>5

\* updatePersonaSettings.
LEMMA UpdateHeals ==
    ASSUME PersonaInv, NEW c \in Callers, ChooseVoice(c) \/ WritePersona(c) PROVE PersonaInv'
  <1> USE DEF PersonaInv, Places
  <1>1. ask[c] \in Ask /\ Routed(ask[c]) /\ (ask[c].alone /\ ask[c].kind \in AboutPersona => Repaired(ask[c]))
    BY DEF PersonaKinds, RepairsGoOn
  <1>2. CASE ChooseVoice(c)
    <2>1. UNCHANGED <<persona, soulFile, voices>> /\ ask[c].at = "choose" /\ ask[c].kind = "update"
      BY <1>1, <1>2 DEF ChooseVoice, Routed
    <2>2. PICK v : v = IF ask[c].want # 0 THEN ask[c].want ELSE ask[c].seen.voice
      OBVIOUS
    <2>3. v \in MaybeProfile /\ ask[c].gender \in Genders
      BY <1>1, <2>2 DEF Ask, PersonaRow
    <2>4. PICK q : /\ q \in {[ask[c] EXCEPT !.at = "off", !.target = v, !.then = "write"],
                             [ask[c] EXCEPT !.at = "find", !.sex = ask[c].gender, !.then = "write"]}
                   /\ ask' = [ask EXCEPT ![c] = q]
      <3>1. \/ ask' = [ask EXCEPT ![c].at = "off", ![c].target = v, ![c].then = "write"]
            \/ ask' = [ask EXCEPT ![c].at = "find", ![c].sex = ask[c].gender, ![c].then = "write"]
        BY <1>2, <2>2 DEF ChooseVoice
      <3> QED
        BY <3>1 DEF PersonaKinds
    <2>5. /\ q \in Ask /\ q.kind = "update" /\ q.alone = ask[c].alone /\ q.at \in {"off", "find"}
          /\ q.then = "write"
      BY <1>1, <2>1, <2>3, <2>4 DEF Ask
    <2>6. Routed(q) /\ Repaired(q)'
      BY <2>5 DEF Routed, Repaired, Voicing
    <2> QED
      BY <1>2, <2>1, <2>4, <2>5, <2>6, StepHeals, ZenonT(60) DEF ChooseVoice, PersonaKinds, counted
  <1>3. CASE WritePersona(c)
    <2>1. UNCHANGED <<soulFile, voices, exported, texts, settled>> /\ ask[c].at = "write" /\ ask[c].kind = "update"
      BY <1>1, <1>3 DEF WritePersona, Routed, counted
    <2>2. PICK soul : soul = IF ask[c].soul # 0 THEN ask[c].soul ELSE ask[c].seen.soul
      OBVIOUS
    <2>3. soul \in MaybeSoul /\ ask[c].gender \in Genders /\ ask[c].target \in MaybeProfile
      BY <1>1, <2>2 DEF Ask, PersonaRow
    <2>4. persona' \in PersonaRow
      BY <1>3, <2>2, <2>3 DEF WritePersona, PersonaKinds, PersonaRow
    <2>5. PICK q : q = [ask[c] EXCEPT !.at = "save", !.text = soul, !.again = TRUE]
      OBVIOUS
    <2>6. q \in Ask /\ q.kind = "update" /\ q.alone = ask[c].alone /\ q.at = "save"
      BY <1>1, <2>1, <2>3, <2>5 DEF Ask
    <2>7. ask' = [ask EXCEPT ![c] = q]
      BY <1>3, <2>2, <2>5 DEF WritePersona, PersonaKinds
    <2>8. Routed(q) /\ Repaired(q)'
      BY <2>6 DEF Routed, Repaired, Voicing
    <2> QED
      BY <2>1, <2>4, <2>6, <2>7, <2>8, StepHeals DEF PersonaKinds
  <1> QED
    BY <1>2, <1>3

\* saveSecretarySoul: an import ends with the text its row has, the others begin a repair.
LEMMA SaveHeals ==
    ASSUME PersonaInv, NEW c \in Callers, SaveSoul(c) PROVE PersonaInv'
  <1> USE DEF PersonaInv, Places
  <1>1. ask[c] \in Ask /\ Routed(ask[c]) /\ (ask[c].alone /\ ask[c].kind \in AboutPersona => Repaired(ask[c]))
    BY DEF PersonaKinds, RepairsGoOn
  <1>2. /\ ask[c].at = "save" /\ soulFile' = ask[c].text /\ soulFile' \in MaybeSoul
        /\ UNCHANGED <<persona, voices, exported, texts>>
    BY <1>1 DEF SaveSoul, Ask, counted
  <1>3. CASE ask[c].kind = "import"
    <2>1. Answer(c)
      BY <1>3 DEF SaveSoul
    <2>2. Repaired(ask[c]) => Healed'
      BY <1>2, <1>3 DEF Repaired, Healed, Exists, Active
    <2> QED
      BY <1>1, <1>2, <2>1, <2>2, AnswerHeals DEF PersonaKinds
  <1>4. CASE ask[c].kind # "import"
    <2>1. PICK q : q = [ask[c] EXCEPT !.at = "rows"]
      OBVIOUS
    <2>2. q \in Ask /\ q.alone = ask[c].alone /\ q.at = "rows"
      BY <1>1, <2>1 DEF Ask
    <2>3. ask' = [ask EXCEPT ![c] = q] /\ UNCHANGED settled
      BY <1>4, <2>1 DEF SaveSoul, GoOn, PersonaKinds
    <2>4. Routed(q) /\ Repaired(q)'
      BY <2>2 DEF Routed, Repaired, Voicing
    <2> QED
      BY <1>2, <2>2, <2>3, <2>4, StepHeals DEF PersonaKinds
  <1> QED
    BY <1>3, <1>4

\* Rows are restored from a snapshot, or removed.
LEMMA RestoreHeals ==
    ASSUME PersonaInv, NEW c \in Callers, Restore(c) \/ Truncate(c) PROVE PersonaInv'
  <1> USE DEF PersonaInv, Places
  <1>1. ask[c] \in Ask /\ Routed(ask[c]) /\ (ask[c].alone /\ ask[c].kind \in AboutPersona => Repaired(ask[c]))
    BY DEF PersonaKinds, RepairsGoOn
  <1>2. CASE Restore(c)
    <2>1. ask[c].at = "restore" /\ UNCHANGED <<soulFile, exported, texts, settled>>
      BY <1>2 DEF Restore, counted
    <2>2. PICK merged : merged = [p \in Profiles |-> IF exported.voices[p].is # "absent" THEN exported.voices[p]
                                                    ELSE voices[p]]
      OBVIOUS
    <2>3. merged \in [Profiles -> Voice] /\ exported.persona \in PersonaRow
      BY <2>2 DEF PersonaKinds, Snapshot
    <2>4. PICK q : /\ q \in {NoAsk, [ask[c] EXCEPT !.at = "rows"]}
                   /\ ask' = [ask EXCEPT ![c] = q]
      BY <1>2 DEF Restore, GoOn, PersonaKinds
    <2>5. /\ q \in Ask /\ (q.at = "idle" \/ (q.at = "rows" /\ q.alone = ask[c].alone))
      BY <1>1, <2>4, PersonaValues DEF Ask
    <2>6. Routed(q) /\ Repaired(q)'
      BY <2>5 DEF Routed, Repaired, Voicing
    <2>7. persona' \in PersonaRow /\ voices' \in [Profiles -> Voice]
      BY <1>2, <2>2, <2>3 DEF Restore, PersonaKinds
    <2> QED
      BY <2>1, <2>4, <2>5, <2>6, <2>7, StepHeals DEF PersonaKinds
  <1>3. CASE Truncate(c)
    <2>1. /\ ask[c].at = "truncate" /\ ask[c].kind = "reset"
          /\ UNCHANGED <<soulFile, exported, texts, settled>>
      BY <1>1, <1>3 DEF Truncate, counted, Routed
    <2>2. PICK q : q = [ask[c] EXCEPT !.at = "save"]
      OBVIOUS
    <2>3. q \in Ask /\ q.kind = "reset" /\ q.alone = ask[c].alone /\ q.at = "save"
      BY <1>1, <2>1, <2>2 DEF Ask
    <2>4. ask' = [ask EXCEPT ![c] = q]
      BY <1>3, <2>2 DEF Truncate, GoOn, PersonaKinds
    <2>5. Routed(q) /\ Repaired(q)'
      BY <2>3 DEF Routed, Repaired, Voicing
    <2>6. persona' \in PersonaRow /\ voices' \in [Profiles -> Voice]
      BY <1>3, PersonaValues DEF Truncate
    <2> QED
      BY <2>1, <2>3, <2>4, <2>5, <2>6, StepHeals DEF PersonaKinds
  <1> QED
    BY <1>2, <1>3

\* Creating and patching profiles is not about the persona.
LEMMA ProfileHeals ==
    ASSUME PersonaInv, NEW c \in Callers, ReadProfile(c) \/ DeactivateForProfile(c) \/ WriteProfile(c)
    PROVE  PersonaInv'
  <1> USE DEF PersonaInv, Places
  <1>1. ask[c] \in Ask /\ Routed(ask[c]) /\ (ask[c].alone /\ ask[c].kind \in AboutPersona => Repaired(ask[c]))
    BY DEF PersonaKinds, RepairsGoOn
  <1>2. /\ ask[c].at \in {"profileRead", "profileOff", "profileWrite"} /\ ask[c].kind \notin AboutPersona
        /\ UNCHANGED <<persona, soulFile, exported, texts>>
    BY <1>1 DEF ReadProfile, DeactivateForProfile, WriteProfile, Routed, counted
  <1>3. ASSUME NEW q \in Ask, ask' = [ask EXCEPT ![c] = q],
               q.at = "idle" \/ (/\ q.at \in {"profileOff", "profileWrite"} /\ q.alone = ask[c].alone
                                /\ q.kind = ask[c].kind),
               UNCHANGED settled, voices' \in [Profiles -> Voice]
        PROVE  PersonaInv'
    <2>1. Routed(q) /\ Repaired(q)'
      BY <1>2, <1>3 DEF Routed, Repaired, Voicing
    <2> QED
      BY <1>2, <1>3, <2>1, StepHeals DEF PersonaKinds
  <1>4. CASE ReadProfile(c)
    <2>1. UNCHANGED <<voices, settled>>
      BY <1>4 DEF ReadProfile
    <2>2. CASE Exists(ask[c].want)
      <3>1. PICK q : q = [ask[c] EXCEPT !.at = "profileOff", !.was = voices[ask[c].want].active]
        OBVIOUS
      <3>2. voices[ask[c].want].active \in BOOLEAN
        BY <1>1, <2>2 DEF Exists, Ask, MaybeProfile, PersonaKinds, Voice
      <3>3. q \in Ask /\ q.at = "profileOff" /\ q.alone = ask[c].alone /\ q.kind = ask[c].kind
        BY <1>1, <3>1, <3>2 DEF Ask
      <3>4. ask' = [ask EXCEPT ![c] = q]
        BY <1>4, <2>2, <3>1 DEF ReadProfile, PersonaKinds
      <3> QED
        BY <1>3, <2>1, <3>3, <3>4 DEF PersonaKinds
    <2>3. CASE ~Exists(ask[c].want)
      <3>1. ask' = [ask EXCEPT ![c] = NoAsk]
        BY <1>4, <2>3 DEF ReadProfile
      <3> QED
        BY <1>3, <2>1, <3>1, PersonaValues DEF PersonaKinds
    <2> QED
      BY <2>2, <2>3
  <1>5. CASE DeactivateForProfile(c)
    <2>1. voices' \in [Profiles -> Voice] /\ UNCHANGED settled
      BY <1>5, OffAndOn DEF DeactivateForProfile, PersonaKinds
    <2>2. PICK q : q = [ask[c] EXCEPT !.at = "profileWrite"]
      OBVIOUS
    <2>3. q \in Ask /\ q.at = "profileWrite" /\ q.alone = ask[c].alone /\ q.kind = ask[c].kind
      BY <1>1, <2>2 DEF Ask
    <2>4. ask' = [ask EXCEPT ![c] = q]
      BY <1>5, <2>2 DEF DeactivateForProfile, GoOn, PersonaKinds
    <2> QED
      BY <1>3, <2>1, <2>3, <2>4
  <1>6. CASE WriteProfile(c)
    <2>1. PICK active : active = CASE ask[c].active = "yes" -> TRUE [] ask[c].active = "no" -> FALSE [] OTHER -> ask[c].was
      OBVIOUS
    <2>2. active \in BOOLEAN
      BY <1>1, <2>1 DEF Ask
    <2>3. voices' \in [Profiles -> Voice]
      <3>1. CASE ask[c].kind = "create"
        <4>1. PICK p \in FreshIds : voices' = [voices EXCEPT ![p] = [is |-> "own", active |-> active]]
          BY <1>6, <2>1, <3>1 DEF WriteProfile
        <4>2. [is |-> "own", active |-> active] \in Voice
          BY <2>2 DEF Voice
        <4> QED
          BY <4>1, <4>2 DEF PersonaKinds
      <3>2. CASE ask[c].kind # "create"
        <4>1. voices' = IF Exists(ask[c].want) THEN [voices EXCEPT ![ask[c].want].active = active] ELSE voices
          BY <1>6, <2>1, <3>2 DEF WriteProfile
        <4> QED
          BY <2>2, <4>1 DEF PersonaKinds, Voice
      <3> QED
        BY <3>1, <3>2
    <2>4. Answer(c)
      BY <1>6 DEF WriteProfile
    <2> QED
      BY <1>2, <2>3, <2>4, AnswerHeals DEF PersonaKinds
  <1> QED
    BY <1>4, <1>5, <1>6

\* What a request begins with.
LEMMA RequestsFit ==
    ASSUME PersonaInv, NEW r \in Requests
    PROVE  /\ r \in Ask /\ r.at # "idle" /\ Routed(r) /\ (texts < MaxSouls \/ r.soul = 0)
           /\ r.soul \in {0, texts + 1}
           /\ r.kind \in AboutPersona => r.at \in {"rows", "restore", "truncate"}
  <1> USE DEF Places
  <1>1. texts \in Nat /\ texts <= MaxSouls
    BY PersonaAssumption DEF PersonaInv, PersonaKinds, MaybeSoul
  <1>2. ASSUME NEW kind \in {"read", "export", "reset", "list", "import"}, r = PlainAsk(kind)
        PROVE  /\ r \in Ask /\ r.kind = kind /\ r.soul = 0
               /\ (kind = "import" /\ r.at = "restore") \/ (kind = "reset" /\ r.at = "truncate")
                  \/ (kind = "list" /\ r.at = "default") \/ (kind \in {"read", "export"} /\ r.at = "rows")
    <2>1. /\ FirstRead("import") = "restore" /\ FirstRead("reset") = "truncate"
          /\ FirstRead("list") = "default" /\ FirstRead("read") = "rows" /\ FirstRead("export") = "rows"
      BY DEF FirstRead
    <2> QED
      BY <1>2, <2>1, PersonaValues, ZenonT(60) DEF PlainAsk, NoAsk, Ask, Kinds
  <1>3. ASSUME NEW soul \in (IF texts < MaxSouls THEN {0, texts + 1} ELSE {0}), NEW gender \in Genders,
               NEW want \in MaybeProfile, r = UpdateAsk(soul, gender, want)
        PROVE  r \in Ask /\ r.kind = "update" /\ r.at = "rows" /\ r.soul = soul
    <2>1. soul \in MaybeSoul
      BY <1>1, PersonaAssumption DEF MaybeSoul
    <2> QED
      BY <1>3, <2>1, PersonaValues DEF UpdateAsk, NoAsk, Ask, Kinds
  <1>4. ASSUME NEW active \in {"keep", "yes", "no"}, r = CreateAsk(active)
        PROVE  r \in Ask /\ r.kind = "create" /\ r.at = "profileOff" /\ r.soul = 0
    BY <1>4, PersonaValues DEF CreateAsk, NoAsk, Ask, Kinds
  <1>5. ASSUME NEW want \in Profiles, NEW active \in {"keep", "yes", "no"}, r = PatchAsk(want, active)
        PROVE  r \in Ask /\ r.kind = "patch" /\ r.at = "profileRead" /\ r.soul = 0
    BY <1>5, PersonaValues DEF PatchAsk, NoAsk, Ask, Kinds, MaybeProfile
  <1>6. \/ \E kind \in {"read", "export", "reset", "list", "import"} : r = PlainAsk(kind)
        \/ \E soul \in (IF texts < MaxSouls THEN {0, texts + 1} ELSE {0}), gender \in Genders, want \in MaybeProfile :
              r = UpdateAsk(soul, gender, want)
        \/ \E active \in {"keep", "yes", "no"} : r = CreateAsk(active)
        \/ \E want \in Profiles, active \in {"keep", "yes", "no"} : r = PatchAsk(want, active)
    BY DEF Requests
  <1>7. CASE \E kind \in {"read", "export", "reset", "list", "import"} : r = PlainAsk(kind)
    BY <1>2, <1>7 DEF Routed, Voicing, AboutPersona
  <1>8. CASE \E soul \in (IF texts < MaxSouls THEN {0, texts + 1} ELSE {0}), gender \in Genders, want \in MaybeProfile :
               r = UpdateAsk(soul, gender, want)
    BY <1>3, <1>8 DEF Routed, Voicing, AboutPersona
  <1>9. CASE \E active \in {"keep", "yes", "no"} : r = CreateAsk(active)
    BY <1>4, <1>9 DEF Routed, Voicing, AboutPersona
  <1>10. CASE \E want \in Profiles, active \in {"keep", "yes", "no"} : r = PatchAsk(want, active)
    BY <1>5, <1>10 DEF Routed, Voicing, AboutPersona
  <1> QED
    BY <1>6, <1>7, <1>8, <1>9, <1>10

\* A request that finds another under way is not alone, and neither is that one any more.
LEMMA BeginHeals == ASSUME PersonaInv, NEW c \in Callers, Begin(c) PROVE PersonaInv'
  <1> USE DEF PersonaInv
  <1>1. PICK r \in Requests :
            LET others == {d \in Callers : ask[d].at # "idle"}
            IN  /\ ask' = [d \in Callers |-> IF d = c THEN [r EXCEPT !.alone = others = {}]
                                             ELSE [ask[d] EXCEPT !.alone = d \notin others]]
                /\ texts' = IF r.soul > texts THEN r.soul ELSE texts
    BY DEF Begin
  <1>2. /\ r \in Ask /\ r.at # "idle" /\ Routed(r) /\ (texts < MaxSouls \/ r.soul = 0) /\ r.soul \in {0, texts + 1}
        /\ r.kind \in AboutPersona => r.at \in {"rows", "restore", "truncate"}
    BY RequestsFit
  <1>3. /\ UNCHANGED <<persona, soulFile, voices, exported>> /\ settled' = FALSE /\ ask[c].at = "idle"
    BY DEF Begin
  <1>4. /\ ask'[c] \in Ask /\ ask'[c].at = r.at /\ ask'[c].kind = r.kind /\ ask'[c].then = r.then
        /\ ask'[c].alone <=> \A d \in Callers : ask[d].at = "idle"
    BY <1>1, <1>2 DEF Ask
  <1>5. ASSUME NEW d \in Callers \ {c}
        PROVE  /\ ask'[d] \in Ask /\ ask'[d].at = ask[d].at /\ ask'[d].kind = ask[d].kind
               /\ ask'[d].then = ask[d].then /\ (ask'[d].alone <=> ask[d].at = "idle")
    BY <1>1 DEF Ask, PersonaKinds
  <1>6. texts' \in MaybeSoul
    BY <1>1, <1>2, PersonaAssumption DEF PersonaKinds, MaybeSoul
  <1>7. ask' \in [Callers -> Ask]
    <2>1. \A d \in Callers : ask'[d] \in Ask
      BY <1>4, <1>5
    <2> QED
      BY <1>1, <2>1
  <1>8. PersonaKinds'
    BY <1>3, <1>6, <1>7 DEF PersonaKinds
  <1>9. AloneIsAlone'
    BY <1>3, <1>4, <1>5 DEF AloneIsAlone
  <1>10. RepairsGoOn'
    <2>1. Routed(ask'[c])
      BY <1>2, <1>4 DEF Routed
    <2>2. ask'[c].kind \in AboutPersona => Repaired(ask[c])'
      BY <1>2, <1>4 DEF Repaired, Voicing
    <2>3. ASSUME NEW d \in Callers \ {c} PROVE Routed(ask[d])' /\ (ask[d].alone => Repaired(ask[d]))'
      <3>1. Routed(ask[d])
        BY DEF RepairsGoOn
      <3>2. Routed(ask'[d])
        BY <1>5, <3>1 DEF Routed
      <3>3. CASE ask[d].at = "idle"
        BY <1>5, <3>2, <3>3 DEF Repaired, Voicing
      <3>4. CASE ask[d].at # "idle"
        BY <1>5, <3>2, <3>4
      <3> QED
        BY <3>3, <3>4
    <2> QED
      BY <2>1, <2>2, <2>3 DEF RepairsGoOn
  <1> QED
    BY <1>3, <1>8, <1>9, <1>10 DEF PersonaHeals

\* The soul's file changes under the requests there are, or they all end.
LEMMA OutsideHeals == ASSUME PersonaInv, EditSoulFile \/ WorkerDies PROVE PersonaInv'
  <1> USE DEF PersonaInv
  <1>1. CASE EditSoulFile
    <2>1. soulFile' \in MaybeSoul /\ texts' \in MaybeSoul
      BY <1>1, PersonaAssumption DEF EditSoulFile, PersonaKinds, MaybeSoul
    <2>2. /\ UNCHANGED <<persona, voices, exported>> /\ settled' = FALSE
          /\ ask' = [c \in Callers |-> [ask[c] EXCEPT !.alone = ask[c].at = "idle"]]
      BY <1>1 DEF EditSoulFile
    <2>3. ASSUME NEW d \in Callers
          PROVE  /\ ask'[d] \in Ask /\ ask'[d].at = ask[d].at /\ ask'[d].kind = ask[d].kind
                 /\ ask'[d].then = ask[d].then /\ (ask'[d].alone <=> ask[d].at = "idle")
      BY <2>2 DEF Ask, PersonaKinds
    <2>4. PersonaKinds'
      <3>1. ask' \in [Callers -> Ask]
        BY <2>2, <2>3
      <3> QED
        BY <2>1, <2>2, <3>1 DEF PersonaKinds
    <2>5. AloneIsAlone'
      BY <2>2, <2>3 DEF AloneIsAlone
    <2>6. ASSUME NEW d \in Callers PROVE Routed(ask[d])' /\ (ask[d].alone => Repaired(ask[d]))'
      <3>1. Routed(ask[d])
        BY DEF RepairsGoOn
      <3>2. Routed(ask'[d])
        BY <2>3, <3>1 DEF Routed
      <3>3. CASE ask[d].at = "idle"
        BY <2>3, <3>2, <3>3 DEF Repaired, Voicing
      <3>4. CASE ask[d].at # "idle"
        BY <2>3, <3>2, <3>4
      <3> QED
        BY <3>3, <3>4
    <2>7. RepairsGoOn'
      BY <2>6 DEF RepairsGoOn
    <2> QED
      BY <2>2, <2>4, <2>5, <2>7 DEF PersonaHeals
  <1>2. CASE WorkerDies
    <2>1. /\ UNCHANGED <<persona, soulFile, voices, exported, texts>> /\ settled' = FALSE
          /\ ask' = [c \in Callers |-> NoAsk]
      BY <1>2 DEF WorkerDies
    <2>2. PersonaKinds' /\ AloneIsAlone'
      BY <2>1, PersonaValues DEF PersonaKinds, AloneIsAlone
    <2>3. \A c \in Callers : ask'[c] = NoAsk
      BY <2>1
    <2>4. Routed(NoAsk) /\ Repaired(NoAsk)'
      BY PersonaValues DEF Routed, Repaired, Voicing
    <2>5. RepairsGoOn'
      BY <2>3, <2>4 DEF RepairsGoOn
    <2> QED
      BY <2>1, <2>2, <2>5 DEF PersonaHeals
  <1> QED
    BY <1>1, <1>2

\* Every step of every request keeps it.
LEMMA PersonaKept == PersonaInv /\ [PersonaNext]_personaVars => PersonaInv'
  <1> SUFFICES ASSUME PersonaInv, [PersonaNext]_personaVars PROVE PersonaInv'
    OBVIOUS
  <1>1. ASSUME NEW c \in Callers, Begin(c) \/ PersonaStep(c) PROVE PersonaInv'
    BY <1>1, BeginHeals, RowHeals, BuiltInHeals, ActivationHeals, NormaliseHeals, ListingHeals, UpdateHeals,
       SaveHeals, RestoreHeals, ProfileHeals DEF PersonaStep
  <1>2. CASE UNCHANGED personaVars
    <2>1. UNCHANGED <<persona, soulFile, voices, exported, ask, texts, settled>>
      BY <1>2 DEF personaVars
    <2>2. PersonaKinds' /\ AloneIsAlone' /\ PersonaHeals'
      BY <2>1 DEF PersonaInv, PersonaKinds, AloneIsAlone, PersonaHeals, Exists, Active
    <2>3. RepairsGoOn'
      BY <2>1 DEF PersonaInv, RepairsGoOn, Routed, Repaired, HasRow, Healed, Exists, Active
    <2> QED
      BY <2>2, <2>3 DEF PersonaInv
  <1> QED
    BY <1>1, <1>2, OutsideHeals DEF PersonaNext

\* One request about the persona that nothing overlaps puts its row, its soul's file and the
\* active voice in order, whatever races and crashes left behind (admin-runtime-core.ts
\* ensureDefaultPersonaRecord).
THEOREM OneRequestHeals == PersonaSpec => []PersonaHeals
  <1>1. PersonaInit => PersonaInv
    BY PersonaInitial
  <1>2. PersonaInv /\ [PersonaNext]_personaVars => PersonaInv'
    BY PersonaKept
  <1>3. PersonaInv => PersonaHeals
    BY DEF PersonaInv
  <1> QED
    BY <1>1, <1>2, <1>3, PTL DEF PersonaSpec

-----------------------------------------------------------------------------
(* Speech: stale media. *)

MediaKinds ==
    /\ artifact \in [Media -> Statuses]
    /\ sample \in [Owners -> MaybeMedia]
    /\ upload \in [Uploaders -> Upload]
    /\ cleaner \in Cleaner
    /\ written \in MaybeMedia

\* Rows are of files that have been written, and so are the keys that uploads hold.
WrittenFirst ==
    /\ \A k \in Rows : k <= written
    /\ \A u \in Uploaders : upload[u].at \in {"row", "sampleRow", "hear", "link", "attach"} => upload[u].key <= written

\* What a clean-up looks for was written before, and a file it has missed does not come back.
GoneForGood ==
    /\ \A k \in cleaner.artifacts \cup cleaner.gone : k <= written
    /\ cleaner.gone \cap onDisk = {}

MediaInv == MediaKinds /\ WrittenFirst /\ GoneForGood /\ RecordingsKept

\* No clean-up has nothing to look for.
LEMMA NoCleanerIsCleaner ==
    /\ NoCleaner \in Cleaner /\ NoCleaner.artifacts = {} /\ NoCleaner.gone = {}
  BY SpeechMediaAssumption DEF NoCleaner, Cleaner, MaybeMedia

\* There are no files at the beginning.
LEMMA MediaInitial == MediaInit => MediaInv
  <1> SUFFICES ASSUME MediaInit PROVE MediaInv
    OBVIOUS
  <1>1. upload \in [Uploaders -> Upload] /\ \A u \in Uploaders : upload[u].at = "idle"
    BY SpeechMediaAssumption DEF MediaInit, Upload, MaybeMedia
  <1>2. MediaKinds
    BY <1>1, NoCleanerIsCleaner, SpeechMediaAssumption DEF MediaInit, MediaKinds, Statuses, MaybeMedia
  <1>3. WrittenFirst
    BY <1>1 DEF MediaInit, WrittenFirst, Rows
  <1>4. GoneForGood /\ RecordingsKept
    BY NoCleanerIsCleaner DEF MediaInit, GoneForGood, RecordingsKept
  <1> QED
    BY <1>2, <1>3, <1>4 DEF MediaInv

\* A step of an upload that writes no file.
LEMMA Uploading ==
    ASSUME MediaInv, UNCHANGED <<onDisk, cleaner, written, wronged>>,
           artifact' \in [Media -> Statuses], \A k \in Rows' : k <= written,
           sample' \in [Owners -> MaybeMedia],
           NEW u \in Uploaders, NEW q \in Upload, upload' = [upload EXCEPT ![u] = q],
           q.at \in {"row", "sampleRow", "hear", "link", "attach"} => q.key <= written
    PROVE  MediaInv'
  <1>1. MediaKinds' /\ WrittenFirst'
    BY DEF MediaInv, MediaKinds, WrittenFirst
  <1>2. GoneForGood' /\ RecordingsKept'
    BY DEF MediaInv, GoneForGood, RecordingsKept
  <1> QED
    BY <1>1, <1>2 DEF MediaInv

\* A step of a clean-up that leaves the rows alone or empties some, and removes files or none.
LEMMA Cleaning ==
    ASSUME MediaInv, UNCHANGED <<upload, written, wronged>>, onDisk' \subseteq onDisk,
           artifact' \in [Media -> Statuses], Rows' \subseteq Rows, sample' \in [Owners -> MaybeMedia],
           cleaner' \in Cleaner, \A k \in cleaner'.artifacts \cup cleaner'.gone : k <= written,
           cleaner'.gone \cap onDisk = {}
    PROVE  MediaInv'
  <1>1. MediaKinds' /\ WrittenFirst'
    BY DEF MediaInv, MediaKinds, WrittenFirst
  <1>2. GoneForGood' /\ RecordingsKept'
    BY DEF MediaInv, GoneForGood, RecordingsKept
  <1> QED
    BY <1>1, <1>2 DEF MediaInv

\* The steps of uploads.
LEMMA UploadKeeps ==
    ASSUME MediaInv, NEW u \in Uploaders,
           \/ StartUpload(u) \/ WriteFile(u) \/ CreateArtifact(u) \/ Transcribe(u) \/ LinkToTurn(u)
           \/ AttachSample(u) \/ WriteProfileBack(u)
    PROVE  MediaInv'
  <1> DEFINE Late == {"row", "sampleRow", "hear", "link", "attach"}
  <1>1. PICK old \in Upload : old = upload[u]
    BY DEF MediaInv, MediaKinds
  <1>2. artifact \in [Media -> Statuses] /\ (\A k \in Rows : k <= written) /\ written \in MaybeMedia
        /\ upload \in [Uploaders -> Upload] /\ (old.at \in Late => old.key <= written)
    BY <1>1 DEF MediaInv, MediaKinds, WrittenFirst
  <1>3. ASSUME NEW at \in {"idle", "file", "row", "hear", "link", "sampleFile", "sampleRow", "attach", "edit"},
               NEW key \in MaybeMedia
        PROVE  /\ [old EXCEPT !.at = at, !.key = key] \in Upload
               /\ [old EXCEPT !.at = at, !.key = key].at = at /\ [old EXCEPT !.at = at, !.key = key].key = key
    BY DEF Upload
  <1>4. old.key \in MaybeMedia /\ old.at \in {"idle", "file", "row", "hear", "link", "sampleFile", "sampleRow", "attach", "edit"}
    BY DEF Upload
  <1>5. ASSUME NEW at \in {"idle", "file", "row", "hear", "link", "sampleFile", "sampleRow", "attach", "edit"},
               Proceed(u, at), at \in Late => old.key <= written,
               UNCHANGED <<onDisk, cleaner, written, wronged>>, sample' \in [Owners -> MaybeMedia],
               artifact' \in [Media -> Statuses], \A k \in Rows' : k <= written
        PROVE  MediaInv'
    <2> DEFINE q == [old EXCEPT !.at = at]
    <2>1. q \in Upload /\ q.at = at /\ q.key = old.key
      BY DEF Upload
    <2>2. upload' = [upload EXCEPT ![u] = q]
      BY <1>1, <1>2, <1>5 DEF Proceed
    <2> HIDE DEF q
    <2> QED
      BY <1>5, <2>1, <2>2, Uploading
  <1>6. ASSUME End(u), UNCHANGED <<onDisk, cleaner, written, wronged>>, sample' \in [Owners -> MaybeMedia],
               artifact' \in [Media -> Statuses], \A k \in Rows' : k <= written
        PROVE  MediaInv'
    <2> DEFINE q == [old EXCEPT !.at = "idle", !.key = 0]
    <2>1. 0 \in MaybeMedia
      BY SpeechMediaAssumption DEF MaybeMedia
    <2>2. q \in Upload /\ q.at = "idle"
      BY <2>1 DEF Upload
    <2>3. upload' = [upload EXCEPT ![u] = q]
      BY <1>1, <1>2, <1>6 DEF End
    <2> HIDE DEF q
    <2> QED
      BY <1>6, <2>2, <2>3, Uploading
  <1>7. artifact' = artifact => artifact' \in [Media -> Statuses] /\ \A k \in Rows' : k <= written
    BY <1>2 DEF Rows
  <1>8. ASSUME NEW status \in Statuses, Mark(u, status)
        PROVE  artifact' \in [Media -> Statuses] /\ \A k \in Rows' : k <= written
    BY <1>2, <1>8 DEF Mark, Rows
  <1>9. sample \in [Owners -> MaybeMedia] /\ old.owner \in Owners
    BY DEF MediaInv, MediaKinds, Upload
  <1>10. CASE StartUpload(u)
    <2>1. UNCHANGED <<onDisk, cleaner, written, wronged, artifact, sample>>
      BY <1>10 DEF StartUpload, mediaTally
    <2>2. CASE Proceed(u, "file") \/ Proceed(u, "sampleFile")
      BY <1>5, <1>7, <1>9, <2>1, <2>2
    <2>3. CASE upload' = [upload EXCEPT ![u].at = "edit", ![u].key = sample[upload[u].owner]]
      <3>1. PICK key \in MaybeMedia : key = sample[old.owner]
        BY <1>9
      <3> DEFINE q == [old EXCEPT !.at = "edit", !.key = key]
      <3>2. q \in Upload /\ q.at = "edit"
        BY <1>3
      <3>3. upload' = [upload EXCEPT ![u] = q]
        BY <1>1, <1>2, <2>3, <3>1
      <3> HIDE DEF q
      <3> QED
        BY <1>7, <1>9, <2>1, <3>2, <3>3, Uploading
    <2> QED
      BY <1>10, <2>2, <2>3 DEF StartUpload
  <1>11. CASE WriteFile(u)
    <2>1. written' = written + 1 /\ written < MaxMedia /\ onDisk' = onDisk \cup {written'}
          /\ UNCHANGED <<artifact, sample, cleaner, wronged>>
      BY <1>11 DEF WriteFile, mediaTally
    <2>2. written' \in MaybeMedia /\ written' > written /\ written' \in Nat /\ written \in Nat
      BY <1>2, <2>1, SpeechMediaAssumption DEF MaybeMedia
    <2>3. PICK key \in MaybeMedia, at \in {"row", "sampleRow"} :
             key = written' /\ at = IF old.at = "file" THEN "row" ELSE "sampleRow"
      BY <2>2
    <2> DEFINE q == [old EXCEPT !.at = at, !.key = key]
    <2>4. q \in Upload /\ q.at = at /\ q.key = key
      BY DEF Upload
    <2>5. upload' = [upload EXCEPT ![u] = q]
      BY <1>1, <1>2, <1>11, <2>3 DEF WriteFile
    <2>6. upload' \in [Uploaders -> Upload]
      <3> HIDE DEF q
      <3> QED
        BY <1>2, <2>4, <2>5
    <2>7. MediaKinds'
      BY <1>2, <1>9, <2>1, <2>2, <2>6 DEF MediaInv, MediaKinds
    <2>8. \A k \in Rows' : k <= written'
      BY <1>2, <2>1, <2>2 DEF Rows, Media
    <2>9. \A v \in Uploaders : upload'[v].at \in Late => upload'[v].key <= written'
      <3> HIDE DEF q
      <3> SUFFICES ASSUME NEW v \in Uploaders, upload'[v].at \in Late PROVE upload'[v].key <= written'
        OBVIOUS
      <3>1. CASE v = u
        BY <1>2, <2>2, <2>3, <2>4, <2>5, <3>1
      <3>2. CASE v # u
        <4>1. upload'[v] = upload[v] /\ upload[v].key \in MaybeMedia
          BY <1>2, <2>5, <3>2 DEF Upload
        <4>2. upload[v].key <= written
          BY <4>1 DEF MediaInv, WrittenFirst
        <4> QED
          BY <2>2, <4>1, <4>2 DEF MaybeMedia
      <3> QED
        BY <3>1, <3>2
    <2>10. WrittenFirst'
      BY <2>8, <2>9 DEF WrittenFirst
    <2>11. GoneForGood'
      <3>1. cleaner.artifacts \subseteq Media /\ cleaner.gone \subseteq Media
        BY DEF MediaInv, MediaKinds, Cleaner
      <3>2. \A k \in cleaner.artifacts \cup cleaner.gone : k \in Nat /\ k <= written
        BY <3>1 DEF MediaInv, GoneForGood, Media
      <3>3. written' \notin cleaner.gone
        BY <2>2, <3>2
      <3>4. \A k \in cleaner.artifacts \cup cleaner.gone : k <= written'
        BY <2>2, <3>2
      <3> QED
        BY <2>1, <3>3, <3>4 DEF MediaInv, GoneForGood
    <2> QED
      BY <2>1, <2>7, <2>10, <2>11 DEF MediaInv, RecordingsKept
  <1>12. CASE CreateArtifact(u)
    <2>1. UNCHANGED <<onDisk, cleaner, written, wronged, sample>> /\ old.key <= written
      BY <1>1, <1>2, <1>12 DEF CreateArtifact, mediaTally
    <2>2. artifact' = [artifact EXCEPT ![old.key] = "stored"]
      BY <1>1, <1>12 DEF CreateArtifact
    <2>3. artifact' \in [Media -> Statuses] /\ \A k \in Media : k # old.key => artifact'[k] = artifact[k]
      BY <1>2, <2>2 DEF Statuses
    <2>4. \A k \in Rows' : k <= written
      BY <1>2, <2>1, <2>3 DEF Rows
    <2>5. Proceed(u, "hear") \/ Proceed(u, "attach")
      BY <1>12 DEF CreateArtifact
    <2> QED
      BY <1>5, <1>9, <2>1, <2>3, <2>4, <2>5
  <1>13. CASE Transcribe(u)
    <2>1. UNCHANGED <<onDisk, cleaner, written, wronged, sample>> /\ (old.key <= written)
      BY <1>1, <1>2, <1>13 DEF Transcribe, mediaTally
    <2>2. CASE Mark(u, "transcribed") /\ Proceed(u, "link")
      BY <1>5, <1>8, <1>9, <2>1, <2>2 DEF Statuses
    <2>3. CASE End(u) /\ UNCHANGED artifact
      BY <1>6, <1>7, <1>9, <2>1, <2>3
    <2> QED
      BY <1>13, <2>2, <2>3 DEF Transcribe
  <1>14. CASE LinkToTurn(u)
    <2>1. UNCHANGED <<onDisk, cleaner, written, wronged, sample>> /\ End(u)
      BY <1>14 DEF LinkToTurn, mediaTally
    <2>2. Mark(u, "linked") \/ UNCHANGED artifact
      BY <1>14 DEF LinkToTurn
    <2> QED
      BY <1>6, <1>7, <1>8, <1>9, <2>1, <2>2 DEF Statuses
  <1>15. CASE AttachSample(u) \/ WriteProfileBack(u)
    <2>1. UNCHANGED <<onDisk, cleaner, written, wronged, artifact>> /\ End(u)
      BY <1>15 DEF AttachSample, WriteProfileBack, mediaTally
    <2>2. PICK key \in MaybeMedia : sample' = [sample EXCEPT ![old.owner] = key]
      BY <1>1, <1>4, <1>15, SpeechMediaAssumption DEF AttachSample, WriteProfileBack, MaybeMedia
    <2>3. sample' \in [Owners -> MaybeMedia]
      BY <1>9, <2>2
    <2> QED
      BY <1>6, <1>7, <2>1, <2>3
  <1> QED
    BY <1>10, <1>11, <1>12, <1>13, <1>14, <1>15

\* The steps of listings, clean-ups and resets.
LEMMA CleanerKeeps ==
    ASSUME MediaInv,
           \/ StartCleaner \/ CheckArtifact \/ ReadSamples \/ CheckSample \/ SamplesChecked
           \/ DeleteArtifacts \/ ForgetSamples \/ PurgeFiles
    PROVE  MediaInv'
  <1>1. PICK old \in Cleaner : old = cleaner
    BY DEF MediaInv, MediaKinds
  <1>2. /\ artifact \in [Media -> Statuses] /\ sample \in [Owners -> MaybeMedia]
        /\ \A k \in old.artifacts \cup old.gone : k <= written
        /\ old.gone \cap onDisk = {} /\ \A k \in Rows : k <= written
    BY <1>1 DEF MediaInv, MediaKinds, GoneForGood, WrittenFirst
  <1>3. UNCHANGED <<upload, written>>
    BY DEF StartCleaner, CheckArtifact, ReadSamples, CheckSample, SamplesChecked, DeleteArtifacts,
           ForgetSamples, PurgeFiles
  <1>4. CASE StartCleaner
    <2>1. UNCHANGED <<onDisk, wronged>>
      BY <1>4 DEF StartCleaner
    <2>2. artifact' \in [Media -> Statuses] /\ Rows' \subseteq Rows /\ sample' \in [Owners -> MaybeMedia]
      BY <1>2, <1>4, SpeechMediaAssumption DEF StartCleaner, Rows, Statuses, MaybeMedia
    <2>3. \/ cleaner' = [NoCleaner EXCEPT !.at = "listing", !.samples = sample]
          \/ cleaner' = [NoCleaner EXCEPT !.at = "artifacts", !.artifacts = Rows]
          \/ cleaner' = [NoCleaner EXCEPT !.at = "purge"]
      BY <1>4 DEF StartCleaner
    <2>4. Rows \subseteq Media
      BY DEF Rows
    <2>5. cleaner' \in Cleaner /\ cleaner'.artifacts \subseteq Rows /\ cleaner'.gone = {}
      BY <1>2, <2>3, <2>4, NoCleanerIsCleaner DEF NoCleaner, Cleaner
    <2> QED
      BY <1>2, <1>3, <2>1, <2>2, <2>5, Cleaning
  <1>5. ASSUME UNCHANGED <<onDisk, wronged, artifact, sample>>, cleaner' \in Cleaner,
               cleaner'.artifacts \subseteq old.artifacts,
               cleaner'.gone \subseteq old.gone \cup (old.artifacts \ onDisk)
        PROVE  MediaInv'
    <2>1. Rows' \subseteq Rows
      BY <1>5 DEF Rows
    <2> QED
      BY <1>2, <1>3, <1>5, <2>1, Cleaning
  <1>6. CASE CheckArtifact
    <2>1. PICK k \in old.artifacts :
             cleaner' = [old EXCEPT !.artifacts = @ \ {k}, !.gone = IF k \in onDisk THEN @ ELSE @ \cup {k}]
      BY <1>1, <1>6 DEF CheckArtifact
    <2>2. old.artifacts \subseteq Media /\ old.gone \subseteq Media
      BY DEF Cleaner
    <2>3. PICK left \in SUBSET Media : left = old.artifacts \ {k}
      BY <2>2
    <2>4. PICK gone \in SUBSET Media : gone = IF k \in onDisk THEN old.gone ELSE old.gone \cup {k}
      BY <2>2
    <2>5. cleaner' = [old EXCEPT !.artifacts = left, !.gone = gone]
      BY <2>1, <2>3, <2>4
    <2>6. cleaner' \in Cleaner /\ cleaner'.artifacts = left /\ cleaner'.gone = gone
      BY <2>5 DEF Cleaner
    <2> QED
      BY <1>5, <1>6, <2>3, <2>4, <2>6 DEF CheckArtifact, mediaTally
  <1>7. CASE ReadSamples
    <2>1. cleaner' = [old EXCEPT !.at = "samples", !.samples = sample]
      BY <1>1, <1>7 DEF ReadSamples
    <2>2. cleaner' \in Cleaner /\ cleaner'.artifacts = old.artifacts /\ cleaner'.gone = old.gone
      BY <1>2, <2>1 DEF Cleaner
    <2> QED
      BY <1>5, <1>7, <2>2 DEF ReadSamples, mediaTally
  <1>8. CASE CheckSample
    <2>1. PICK o \in Owners :
             cleaner' = [old EXCEPT !.samples[o] = 0,
                                    !.broken = IF old.samples[o] \in onDisk THEN @ ELSE @ \cup {o}]
      BY <1>1, <1>8 DEF CheckSample
    <2>2. old.samples \in [Owners -> MaybeMedia] /\ old.broken \subseteq Owners
      BY DEF Cleaner
    <2>3. [old.samples EXCEPT ![o] = 0] \in [Owners -> MaybeMedia]
      BY <2>2, SpeechMediaAssumption DEF MaybeMedia
    <2>4. PICK samples \in [Owners -> MaybeMedia] : samples = [old.samples EXCEPT ![o] = 0]
      BY <2>3
    <2>5. PICK broken \in SUBSET Owners : broken = IF old.samples[o] \in onDisk THEN old.broken ELSE old.broken \cup {o}
      BY <2>2
    <2>6. cleaner' = [old EXCEPT !.samples = samples, !.broken = broken]
      BY <2>1, <2>4, <2>5
    <2>7. cleaner' \in Cleaner /\ cleaner'.artifacts = old.artifacts /\ cleaner'.gone = old.gone
      BY <2>6 DEF Cleaner
    <2> QED
      BY <1>5, <1>8, <2>7 DEF CheckSample, mediaTally
  <1>9. CASE SamplesChecked
    <2>1. PICK at \in {"forget", "delete"} : cleaner' = [old EXCEPT !.at = at]
      BY <1>1, <1>9 DEF SamplesChecked
    <2>2. cleaner' \in Cleaner /\ cleaner'.artifacts = old.artifacts /\ cleaner'.gone = old.gone
      BY <2>1 DEF Cleaner
    <2> QED
      BY <1>5, <1>9, <2>2 DEF SamplesChecked, mediaTally
  <1>10. CASE DeleteArtifacts
    <2>1. wronged' = wronged /\ UNCHANGED <<onDisk, sample>>
      BY <1>1, <1>2, <1>10 DEF DeleteArtifacts
    <2>2. artifact' \in [Media -> Statuses] /\ Rows' \subseteq Rows
      BY <1>2, <1>10 DEF DeleteArtifacts, Statuses, Rows
    <2>3. cleaner' = [old EXCEPT !.at = "forget"]
      BY <1>1, <1>10 DEF DeleteArtifacts
    <2>4. cleaner' \in Cleaner /\ cleaner'.artifacts = old.artifacts /\ cleaner'.gone = old.gone
      BY <2>3 DEF Cleaner
    <2> QED
      BY <1>2, <1>3, <2>1, <2>2, <2>4, Cleaning
  <1>11. CASE ForgetSamples \/ PurgeFiles
    <2>1. UNCHANGED <<artifact, wronged>> /\ onDisk' \subseteq onDisk /\ cleaner' = NoCleaner
      BY <1>11 DEF ForgetSamples, PurgeFiles, mediaTally
    <2>2. sample' \in [Owners -> MaybeMedia]
      BY <1>2, <1>11, SpeechMediaAssumption DEF ForgetSamples, PurgeFiles, MaybeMedia
    <2>3. Rows' \subseteq Rows
      BY <2>1 DEF Rows
    <2> QED
      BY <1>2, <1>3, <2>1, <2>2, <2>3, NoCleanerIsCleaner, Cleaning
  <1> QED
    BY <1>4, <1>6, <1>7, <1>8, <1>9, <1>10, <1>11

\* Every step keeps the invariant.
LEMMA MediaKept == MediaInv /\ [MediaNext]_mediaVars => MediaInv'
  <1> SUFFICES ASSUME MediaInv, [MediaNext]_mediaVars PROVE MediaInv'
    OBVIOUS
  <1>1. artifact \in [Media -> Statuses] /\ sample \in [Owners -> MaybeMedia] /\ cleaner \in Cleaner
        /\ (\A k \in cleaner.artifacts \cup cleaner.gone : k <= written) /\ cleaner.gone \cap onDisk = {}
    BY DEF MediaInv, MediaKinds, GoneForGood
  <1>2. ASSUME NEW k \in Media, FileLost(k) PROVE MediaInv'
    <2>1. UNCHANGED <<artifact, sample, upload, cleaner, written, wronged>> /\ onDisk' \subseteq onDisk
      BY <1>2 DEF FileLost
    <2> QED
      BY <1>1, <2>1, Cleaning DEF Rows
  <1>3. CASE SpeechWorkerDies
    <2>1. UNCHANGED <<onDisk, artifact, sample, written, wronged>> /\ cleaner' = NoCleaner
      BY <1>3 DEF SpeechWorkerDies
    <2>2. upload' \in [Uploaders -> Upload] /\ \A u \in Uploaders : upload'[u].at = "idle"
      <3>1. upload \in [Uploaders -> Upload] /\ 0 \in MaybeMedia
        BY SpeechMediaAssumption DEF MediaInv, MediaKinds, MaybeMedia
      <3>2. upload' = [u \in Uploaders |-> [upload[u] EXCEPT !.at = "idle", !.key = 0]]
        BY <1>3 DEF SpeechWorkerDies
      <3>3. ASSUME NEW u \in Uploaders PROVE upload'[u] \in Upload /\ upload'[u].at = "idle"
        <4>1. PICK old \in Upload : old = upload[u]
          BY <3>1
        <4>2. upload'[u] = [old EXCEPT !.at = "idle", !.key = 0]
          BY <3>2, <4>1
        <4> QED
          BY <3>1, <4>2 DEF Upload
      <3> QED
        BY <3>2, <3>3
    <2>3. MediaKinds' /\ WrittenFirst'
      BY <1>1, <2>1, <2>2, NoCleanerIsCleaner DEF MediaInv, MediaKinds, WrittenFirst, Rows
    <2>4. GoneForGood' /\ RecordingsKept'
      BY <2>1, NoCleanerIsCleaner DEF MediaInv, GoneForGood, RecordingsKept
    <2> QED
      BY <2>3, <2>4 DEF MediaInv
  <1>4. CASE UNCHANGED mediaVars
    BY <1>1, <1>4, Cleaning DEF mediaVars, Rows
  <1> QED
    BY <1>2, <1>3, <1>4, UploadKeeps, CleanerKeeps DEF MediaNext

\* Clearing stale speech media never removes the row of a recording whose file is there
\* (clear_stale_speech_media of runAdminMaintenanceAction, while recordings are written and marked),
\* for any numbers of recordings and losses.
THEOREM RecordingsStay == MediaSpec => []RecordingsKept
  <1>1. MediaInv => RecordingsKept
    BY DEF MediaInv
  <1> QED
    BY MediaInitial, MediaKept, <1>1, PTL DEF MediaSpec

-----------------------------------------------------------------------------
(* The desk. *)

\* The kinds of the variables that decide which history is shown.
ShownKinds ==
    /\ existing \subseteq Conversations
    /\ selected \in MaybeConversation /\ loaded \in MaybeConversation /\ seed \in MaybeConversation
    /\ history \subseteq Load
    /\ reply \in [1 .. MaxReplies -> Reply]

\* A reply that was sent belongs to a conversation.
RepliesBelong == \A r \in 1 .. MaxReplies : reply[r].at # "none" => reply[r].of \in Conversations

\* A load that was not cancelled is of the selected conversation; what was loaded last is still
\* what the pane was made with, or that was empty.
LoadsFit == \A h \in history : h.live => h.of = selected
MarkFits == loaded # 0 => seed \in {0, loaded}

DeskInv == ShownKinds /\ RepliesBelong /\ LoadsFit /\ MarkFits /\ HistoryFits

\* The variables that DeskInv is about.
shown == <<existing, selected, loaded, seed, history, reply>>

\* The desk opens with nothing selected, and the greeting.
LEMMA DeskInitial == DeskInit => DeskInv
  <1> SUFFICES ASSUME DeskInit PROVE DeskInv
    OBVIOUS
  <1>1. reply \in [1 .. MaxReplies -> Reply]
    BY DEF DeskInit, NoReply, Reply, MaybeConversation
  <1>2. ShownKinds
    BY <1>1 DEF DeskInit, ShownKinds, MaybeConversation
  <1>3. RepliesBelong
    BY DEF DeskInit, NoReply, RepliesBelong
  <1> QED
    BY <1>2, <1>3 DEF DeskInit, DeskInv, LoadsFit, MarkFits, HistoryFits

\* Selecting another conversation, as the effect on conversationId does: the history shown fits,
\* or a load of it has begun, whether the mark is kept or removed with the selection.
LEMMA Selecting ==
    ASSUME DeskInv, NEW c \in MaybeConversation, NEW mark \in {0, loaded}, Select(c, mark),
           seed' = seed \/ (seed' = 0 /\ c = 0), c = 0 => seed' = 0
    PROVE  /\ selected' \in MaybeConversation /\ loaded' \in MaybeConversation
           /\ seed' \in MaybeConversation /\ history' \subseteq Load
           /\ LoadsFit' /\ MarkFits' /\ HistoryFits'
  <1>1. selected' = c /\ loaded' = mark
    BY DEF Select
  <1>2. loaded' \in MaybeConversation /\ seed' \in MaybeConversation
    BY <1>1 DEF DeskInv, ShownKinds, MaybeConversation
  <1>3. MarkFits'
    BY <1>1 DEF DeskInv, MarkFits
  <1>4. history' \subseteq Load /\ LoadsFit' /\ HistoryFits'
    <2>1. CASE c = selected
      <3>1. history' = history
        BY <2>1 DEF Select
      <3> QED
        BY <2>1, <3>1, <1>1 DEF DeskInv, ShownKinds, LoadsFit, HistoryFits
    <2>2. CASE c # selected
      <3> DEFINE cancelled == {[h EXCEPT !.live = FALSE] : h \in history}
      <3>1. cancelled \subseteq Load /\ \A h \in cancelled : ~h.live
        BY DEF DeskInv, ShownKinds, Load
      <3>2. CASE c # 0 /\ c # mark
        <4> DEFINE started == [of |-> c, live |-> TRUE]
        <4>1. history' = cancelled \cup {started}
          BY <2>2, <3>2 DEF Select
        <4>2. started \in Load /\ started.live /\ started.of = c
          BY <3>2 DEF Load, MaybeConversation
        <4> HIDE DEF cancelled, started
        <4> QED
          BY <3>1, <4>1, <4>2, <1>1 DEF LoadsFit, HistoryFits
      <3>3. CASE c = 0 \/ c = mark
        <4>1. history' = cancelled
          BY <2>2, <3>3 DEF Select
        <4>2. seed' \in {0, c}
          BY <3>3 DEF DeskInv, MarkFits
        <4> HIDE DEF cancelled
        <4> QED
          BY <3>1, <4>1, <4>2, <1>1 DEF LoadsFit, HistoryFits
      <3> QED
        BY <3>2, <3>3
    <2> QED
      BY <2>1, <2>2
  <1> QED
    BY <1>1, <1>2, <1>3, <1>4

\* A new pane leaves the replies what they are, but for where they are seen.
LEMMA NewPaneKeeps ==
    ASSUME ShownKinds, RepliesBelong, NEW of \in MaybeConversation, NewPane(of)
    PROVE  /\ seed' = of /\ reply' \in [1 .. MaxReplies -> Reply] /\ RepliesBelong'
  BY DEF ShownKinds, RepliesBelong, NewPane, Reply

\* What becomes of one reply, when its conversation is one of the worker's.
LEMMA ReplyBecomes ==
    ASSUME ShownKinds, RepliesBelong, NEW r \in 1 .. MaxReplies, NEW new \in Reply,
           new.at # "none" => new.of \in Conversations, reply' = [reply EXCEPT ![r] = new]
    PROVE  reply' \in [1 .. MaxReplies -> Reply] /\ RepliesBelong'
  BY DEF ShownKinds, RepliesBelong

\* A reply that was sent goes on, in the same conversation.
LEMMA ReplyEnds ==
    ASSUME ShownKinds, RepliesBelong, NEW r \in 1 .. MaxReplies, NEW at \in {"told", "over"},
           reply[r].at # "none", reply' = [reply EXCEPT ![r].at = at]
    PROVE  reply' \in [1 .. MaxReplies -> Reply] /\ RepliesBelong' /\ reply[r].of \in Conversations
  <1>1. PICK old \in Reply : old = reply[r]
    BY DEF ShownKinds
  <1>2. [old EXCEPT !.at = at] \in Reply /\ [old EXCEPT !.at = at].of = old.of
    BY DEF Reply
  <1>3. old.of \in Conversations
    BY <1>1 DEF RepliesBelong
  <1>4. reply' = [reply EXCEPT ![r] = [old EXCEPT !.at = at]]
    BY <1>1
  <1> QED
    BY <1>1, <1>2, <1>3, <1>4, ReplyBecomes

\* Every step of the desk keeps DeskInv.
LEMMA DeskKept == DeskInv /\ [DeskNext]_deskVars => DeskInv'
  <1> SUFFICES ASSUME DeskInv, [DeskNext]_deskVars PROVE DeskInv'
    OBVIOUS
  <1> USE DEF DeskInv
  <1>1. ASSUME StartFresh PROVE DeskInv'
    <2>1. Select(0, 0) /\ NewPane(0) /\ existing' = existing
      BY <1>1 DEF StartFresh
    <2>2. seed' = 0 /\ reply' \in [1 .. MaxReplies -> Reply] /\ RepliesBelong'
      BY <2>1, NewPaneKeeps DEF MaybeConversation
    <2> QED
      BY <2>1, <2>2, Selecting DEF ShownKinds, MaybeConversation
  <1>2. ASSUME NEW c \in Conversations, Open(c) PROVE DeskInv'
    <2>1. Select(c, 0) /\ UNCHANGED <<existing, seed, reply>> /\ c \in MaybeConversation /\ c # 0
      BY <1>2, DeskAssumption DEF Open, MaybeConversation
    <2> QED
      BY <2>1, Selecting DEF ShownKinds, RepliesBelong
  <1>3. ASSUME NEW c \in Conversations, Decided(c) PROVE DeskInv'
    <2>1. Select(c, loaded) /\ UNCHANGED <<existing, seed, reply>> /\ c \in MaybeConversation /\ c # 0
      BY <1>3, DeskAssumption DEF Decided, MaybeConversation
    <2> QED
      BY <2>1, Selecting DEF ShownKinds, RepliesBelong
  <1>4. ASSUME NEW h \in history, HistoryArrives(h) PROVE DeskInv'
    <2>1. h \in Load /\ selected' = selected /\ existing' = existing /\ history' = history \ {h}
      BY <1>4 DEF HistoryArrives, ShownKinds
    <2>2. history' \subseteq Load /\ LoadsFit'
      BY <2>1 DEF ShownKinds, LoadsFit
    <2>3. CASE h.live
      <3>1. h.of = selected /\ h.of \in MaybeConversation
        BY <2>1, <2>3 DEF LoadsFit, Load, MaybeConversation
      <3>2. PICK of \in {h.of, 0} : NewPane(of) /\ (loaded' = h.of \/ (of = 0 /\ loaded' = loaded))
        BY <1>4, <2>3 DEF HistoryArrives
      <3>3. of \in MaybeConversation
        BY <3>1 DEF MaybeConversation
      <3>4. seed' = of /\ reply' \in [1 .. MaxReplies -> Reply] /\ RepliesBelong'
        BY <3>2, <3>3, NewPaneKeeps
      <3> QED
        BY <2>1, <2>2, <3>1, <3>2, <3>3, <3>4 DEF ShownKinds, MarkFits, HistoryFits
    <2>4. CASE ~h.live
      <3>1. UNCHANGED <<seed, reply, loaded>>
        BY <1>4, <2>4 DEF HistoryArrives
      <3> QED
        BY <2>1, <2>2, <2>4, <3>1 DEF ShownKinds, RepliesBelong, MarkFits, HistoryFits
    <2> QED
      BY <2>3, <2>4
  <1>5. ASSUME NEW r \in 1 .. MaxReplies, Send(r) PROVE DeskInv'
    <2>1. UNCHANGED <<selected, loaded, seed, history>>
      BY <1>5 DEF Send, paneVars
    <2>2. PICK of \in IF selected # 0 THEN {selected} ELSE Conversations \ existing, kind \in {"model", "other"} :
             /\ reply' = [reply EXCEPT ![r] = [at |-> "sent", of |-> of, kind |-> kind, here |-> TRUE]]
             /\ existing' = existing \cup {of}
      BY <1>5 DEF Send
    <2>3. of \in Conversations
      BY <2>2 DEF ShownKinds, MaybeConversation
    <2>4. [at |-> "sent", of |-> of, kind |-> kind, here |-> TRUE] \in Reply
      BY <2>2, <2>3 DEF Reply, MaybeConversation
    <2>5. reply' \in [1 .. MaxReplies -> Reply] /\ RepliesBelong'
      BY <2>2, <2>3, <2>4, ReplyBecomes
    <2> QED
      BY <2>1, <2>2, <2>3, <2>5 DEF ShownKinds, LoadsFit, MarkFits, HistoryFits
  <1>6. ASSUME NEW r \in 1 .. MaxReplies, Told(r) PROVE DeskInv'
    <2>1. reply' \in [1 .. MaxReplies -> Reply] /\ RepliesBelong' /\ reply[r].of \in Conversations
      BY <1>6, ReplyEnds DEF Told
    <2>2. Select(reply[r].of, loaded) /\ UNCHANGED <<existing, seed>>
      BY <1>6 DEF Told
    <2>3. reply[r].of \in MaybeConversation /\ reply[r].of # 0
      BY <2>1, DeskAssumption DEF MaybeConversation
    <2> QED
      BY <2>1, <2>2, <2>3, Selecting DEF ShownKinds
  <1>7. ASSUME NEW r \in 1 .. MaxReplies, Settle(r) PROVE DeskInv'
    <2>1. reply[r].at # "none" /\ reply' = [reply EXCEPT ![r].at = "over"] /\ UNCHANGED <<existing, seed>>
      BY <1>7 DEF Settle
    <2>2. reply' \in [1 .. MaxReplies -> Reply] /\ RepliesBelong' /\ reply[r].of \in Conversations
      BY <2>1, ReplyEnds
    <2>3. CASE UNCHANGED <<selected, loaded, history>>
      BY <2>1, <2>2, <2>3 DEF ShownKinds, LoadsFit, MarkFits, HistoryFits
    <2>4. CASE Select(reply[r].of, loaded)
      <3>1. reply[r].of \in MaybeConversation /\ reply[r].of # 0
        BY <2>2, DeskAssumption DEF MaybeConversation
      <3> QED
        BY <2>1, <2>2, <2>4, <3>1, Selecting DEF ShownKinds
    <2> QED
      BY <1>7, <2>3, <2>4 DEF Settle
  <1>8. ASSUME NEW r \in 1 .. MaxReplies, Breaks(r) PROVE DeskInv'
    <2>1. reply[r].at # "none" /\ reply' = [reply EXCEPT ![r].at = "over"]
          /\ UNCHANGED <<existing, selected, loaded, seed, history>>
      BY <1>8 DEF Breaks, UnderWay, paneVars
    <2>2. reply' \in [1 .. MaxReplies -> Reply] /\ RepliesBelong'
      BY <2>1, ReplyEnds
    <2> QED
      BY <2>1, <2>2 DEF ShownKinds, LoadsFit, MarkFits, HistoryFits
  <1>9. ASSUME UNCHANGED shown PROVE DeskInv'
    BY <1>9 DEF shown, ShownKinds, RepliesBelong, LoadsFit, MarkFits, HistoryFits
  <1>10. ASSUME NEW c \in Conversations, ApprovalsArrive(c) \/ Decide(c) \/ Post(c) PROVE DeskInv'
    BY <1>10, <1>9 DEF ApprovalsArrive, Decide, Post, paneVars, shown
  <1>11. CASE UNCHANGED deskVars
    BY <1>9, <1>11 DEF deskVars, shown
  <1> QED
    BY <1>1, <1>2, <1>3, <1>4, <1>5, <1>6, <1>7, <1>8, <1>10, <1>11 DEF DeskNext

\* When no history is being loaded, the pane of the desk shows that of the selected conversation
\* or the greeting (the history effect, hasLoadedHistory and conversationSeedMessages), for any
\* conversations, replies, decisions and clicks, in any order of their answers.
THEOREM HistoryAlwaysFits == DeskSpec => []HistoryFits
  <1>1. DeskInv => HistoryFits
    BY DEF DeskInv
  <1> QED
    BY DeskInitial, DeskKept, <1>1, PTL DEF DeskSpec

-----------------------------------------------------------------------------
(* The forms of the settings. *)

Loading == [at : {"none", "asked", "answered"}, live : BOOLEAN, own : BOOLEAN, saw : Settings]

FormKinds ==
    /\ page \in Pages /\ inStore \in Settings /\ form \in Form
    /\ loading \in [LoadSlots -> Loading]
    /\ saving \in [at : {"idle", "sent", "stored"}, form : Form, clears : BOOLEAN]
    /\ doing \in {"idle", "action", "preset"}
    /\ versions \in FormVersions
    /\ kept \in FormVersions

\* A typed key is for the provider the form shows; what the worker answers holds no key.
KeyOfForm ==
    /\ form.key # Nobody => form.key = form.provider
    /\ saving.at = "stored" => saving.form.key = Nobody

\* While what was typed is to be kept, no answer is under way that may replace it.
NothingReplaces ==
    kept # 0 /\ ~This.refetches =>
        \/ This.spares
        \/ /\ \A i \in LoadSlots : loading[i].at = "none" \/ ~loading[i].live
           /\ saving.at = "idle" /\ doing = "idle"

\* Only pages that load with each render have loads of their own.
OwnLoads == ~This.refetches => \A i \in LoadSlots : ~loading[i].own

FormsInv == FormKinds /\ KeyOfForm /\ NothingReplaces /\ OwnLoads /\ FormsHold

\* A page that keeps its drafts shows no answer to a save.
LEMMA SparedIsNotShown == FormKinds /\ This.spares => ~This.shows
  <1>1. /\ ~TelegramPage.spares /\ ~HeartbeatPage.spares /\ ~VoicePage.spares /\ ~VoicePage.shows
    BY DEF TelegramPage, HeartbeatPage, VoicePage
  <1>2. /\ ~OutboundPage.spares /\ ~AgentPage.spares /\ ~MemoryPage.spares /\ ~ToolsPage.shows
        /\ ~SecretaryPage.spares /\ ~GeneralPage.spares
    BY DEF OutboundPage, TelegramPage, AgentPage, HeartbeatPage, MemoryPage, VoicePage, ToolsPage,
           SecretaryPage, GeneralPage
  <1> QED
    BY <1>1, <1>2 DEF This

\* What is open is what its page says.
LEMMA SamePage == UNCHANGED page => This' = This
  BY DEF This

\* The values things start from are of their kinds.
LEMMA FormValues ==
    /\ NoForm \in Form /\ NoForm.key = Nobody
    /\ \A own \in BOOLEAN : [NoLoad EXCEPT !.at = "asked", !.live = TRUE, !.own = own] \in Loading
    /\ NoLoad \in Loading /\ NoLoad.at = "none" /\ ~NoLoad.own
    /\ Idle \in [at : {"idle", "sent", "stored"}, form : Form, clears : BOOLEAN] /\ Idle.at = "idle"
  <1>1. 0 \in FormVersions /\ Nobody \in MaybeProvider
    BY FormsAssumption DEF FormVersions, MaybeProvider
  <1>2. NoForm \in Form /\ NoForm.key = Nobody
    BY <1>1 DEF NoForm, Form
  <1>3. NoLoad \in Loading /\ NoLoad.at = "none" /\ ~NoLoad.own
    BY <1>1 DEF NoLoad, Loading, Settings
  <1>4. ASSUME NEW own \in BOOLEAN
        PROVE  [NoLoad EXCEPT !.at = "asked", !.live = TRUE, !.own = own] \in Loading
    BY <1>1 DEF NoLoad, Loading, Settings
  <1>5. Idle \in [at : {"idle", "sent", "stored"}, form : Form, clears : BOOLEAN] /\ Idle.at = "idle"
    BY <1>2 DEF Idle
  <1> QED
    BY <1>2, <1>3, <1>4, <1>5

\* A load that begins takes one slot at most.
LEMMA LoadBegins ==
    ASSUME NEW l \in [LoadSlots -> Loading], NEW own \in BOOLEAN
    PROVE  /\ LoadBegun(l, own) \in [LoadSlots -> Loading]
           /\ ~own /\ (\A i \in LoadSlots : ~l[i].own) => \A i \in LoadSlots : ~LoadBegun(l, own)[i].own
  <1> DEFINE new == [NoLoad EXCEPT !.at = "asked", !.live = TRUE, !.own = own]
  <1>1. new \in Loading /\ new.own = own
    BY FormValues DEF NoLoad
  <1> HIDE DEF new
  <1>2. CASE \A i \in LoadSlots : l[i].at # "none"
    BY <1>2 DEF LoadBegun
  <1>3. CASE ~(\A i \in LoadSlots : l[i].at # "none")
    <2>1. PICK k : LoadBegun(l, own) = [l EXCEPT ![k] = new]
      BY <1>3 DEF LoadBegun, new
    <2> QED
      BY <2>1, <1>1
  <1> QED
    BY <1>2, <1>3

\* Rendering leaves the loads of a page alone that loads once.
LEMMA Rendering ==
    ASSUME NEW l \in [LoadSlots -> Loading]
    PROVE  /\ Renders(l) \in [LoadSlots -> Loading]
           /\ ~This.refetches => Renders(l) = l
  BY LoadBegins DEF Renders

\* The page opens with its first load.
LEMMA FormsInitial == FormsInit => FormsInv
  <1> SUFFICES ASSUME FormsInit PROVE FormsInv
    OBVIOUS
  <1>1. [i \in LoadSlots |-> NoLoad] \in [LoadSlots -> Loading]
    BY FormValues
  <1>2. loading \in [LoadSlots -> Loading] /\ \A i \in LoadSlots : ~loading[i].own
    BY <1>1, FormValues, LoadBegins DEF FormsInit, BeginLoad
  <1>3. inStore \in Settings /\ 1 \in FormVersions /\ 0 \in FormVersions
    BY FormsAssumption DEF FormsInit, Settings, FormVersions, MaybeProvider
  <1>4. FormKinds
    BY <1>2, <1>3, FormValues DEF FormsInit, FormKinds
  <1> QED
    BY <1>2, <1>4, FormValues DEF FormsInit, FormsInv, KeyOfForm, NothingReplaces, OwnLoads, FormsHold

\* A step that changes neither the form nor what is kept, and begins no load that is asked for.
LEMMA LoadsMove ==
    ASSUME FormsInv, UNCHANGED <<page, form, saving, doing, versions, sentKeys, kept>>,
           inStore' \in Settings,
           NEW l \in [LoadSlots -> Loading], loading' = Renders(l) \/ loading' = l,
           \A i \in LoadSlots : l[i].at = "none" \/ (l[i].live => loading[i].at # "none" /\ loading[i].live),
           \A i \in LoadSlots : l[i].own => loading[i].own
    PROVE  FormsInv'
  <1>1. loading' \in [LoadSlots -> Loading] /\ (~This.refetches => loading' = l) /\ This' = This
    BY Rendering, SamePage
  <1>2. FormKinds' /\ KeyOfForm' /\ FormsHold'
    BY <1>1 DEF FormsInv, FormKinds, KeyOfForm, FormsHold
  <1>3. NothingReplaces'
    <2> SUFFICES ASSUME kept # 0, ~This.refetches, ~This.spares,
                        \A i \in LoadSlots : loading[i].at = "none" \/ ~loading[i].live
                 PROVE  \A i \in LoadSlots : l[i].at = "none" \/ ~l[i].live
      BY <1>1 DEF FormsInv, NothingReplaces
    <2> TAKE i \in LoadSlots
    <2>1. loading[i].at = "none" \/ ~loading[i].live
      OBVIOUS
    <2>2. l[i].at = "none" \/ (l[i].live => loading[i].at # "none" /\ loading[i].live)
      OBVIOUS
    <2> QED
      BY <2>1, <2>2
  <1>4. OwnLoads'
    <2> SUFFICES ASSUME ~This.refetches, \A i \in LoadSlots : ~loading[i].own
                 PROVE  \A i \in LoadSlots : ~l[i].own
      BY <1>1 DEF FormsInv, OwnLoads
    <2> TAKE i \in LoadSlots
    <2>1. l[i].own => loading[i].own
      OBVIOUS
    <2> QED
      BY <2>1
  <1> QED
    BY <1>2, <1>3, <1>4 DEF FormsInv

\* What an answer shows, when it may show it at all.
LEMMA LoadArrivesKeeps ==
    ASSUME FormsInv, NEW i \in LoadSlots, LoadArrives(i) PROVE FormsInv'
  <1> USE DEF FormsInv
  <1>1. PICK l : l = [loading EXCEPT ![i] = NoLoad]
    OBVIOUS
  <1>2. l \in [LoadSlots -> Loading] /\ loading' = Renders(l) /\ This' = This
    BY <1>1, FormValues, SamePage DEF FormKinds, LoadArrives
  <1>3. loading' \in [LoadSlots -> Loading] /\ (~This.refetches => loading' = l)
    BY <1>2, Rendering
  <1>4. form' \in Form /\ (form' = form \/ form'.key = Nobody)
    <2>1. loading[i].saw \in Settings
      BY DEF FormKinds, Loading
    <2>2. [version |-> loading[i].saw.version, provider |-> loading[i].saw.provider, key |-> Nobody] \in Form
      BY <2>1, FormValues DEF Settings, Form, MaybeProvider
    <2> QED
      BY <2>2 DEF FormKinds, LoadArrives
  <1>5. FormKinds' /\ KeyOfForm'
    BY <1>3, <1>4 DEF FormKinds, KeyOfForm, LoadArrives
  <1>6. NothingReplaces'
    <2> SUFFICES ASSUME kept # 0, ~This.refetches, ~This.spares
                 PROVE  /\ \A j \in LoadSlots : loading'[j].at = "none" \/ ~loading'[j].live
                        /\ saving.at = "idle" /\ doing = "idle"
      BY <1>2 DEF NothingReplaces, LoadArrives
    <2> QED
      BY <1>1, <1>3, FormValues DEF NothingReplaces, FormKinds
  <1>7. OwnLoads'
    BY <1>1, <1>2, <1>3, FormValues DEF OwnLoads, FormKinds
  <1>8. FormsHold'
    <2>1. kept # 0 /\ ~This.refetches => form' = form
      <3> SUFFICES ASSUME kept # 0, ~This.refetches PROVE form' = form
        OBVIOUS
      <3>1. CASE This.spares
        BY <3>1 DEF FormsHold, LoadArrives
      <3>2. CASE ~This.spares
        BY <3>2 DEF NothingReplaces, LoadArrives
      <3> QED
        BY <3>1, <3>2
    <2> QED
      BY <1>2, <2>1 DEF FormsHold, LoadArrives
  <1> QED
    BY <1>5, <1>6, <1>7, <1>8

\* What the operator asks for is not to be kept, but on a page that keeps its drafts.
LEMMA AskKeeps ==
    ASSUME FormsInv, OneMore, UNCHANGED <<page, inStore, form, versions>>,
           loading' \in [LoadSlots -> Loading],
           ~This.refetches => \A i \in LoadSlots : ~loading'[i].own,
           saving' \in [at : {"idle", "sent", "stored"}, form : Form, clears : BOOLEAN],
           saving'.at = "stored" => saving'.form.key = Nobody,
           doing' \in {"idle", "action", "preset"},
           \A pair \in sentKeys' : pair[1] = pair[2]
    PROVE  FormsInv'
  <1>1. This' = This /\ kept' = IF This.spares THEN kept ELSE 0
    BY SamePage DEF OneMore
  <1>2. FormKinds' /\ KeyOfForm'
    BY <1>1, FormValues DEF FormsInv, FormKinds, KeyOfForm, FormVersions, NoForm, Form
  <1>3. NothingReplaces' /\ OwnLoads' /\ FormsHold'
    BY <1>1 DEF FormsInv, NothingReplaces, OwnLoads, FormsHold
  <1> QED
    BY <1>2, <1>3 DEF FormsInv

\* Each request of the operator's.
LEMMA OperatorAsks ==
    ASSUME FormsInv, Save \/ ClearKey \/ Refresh \/ ChangeFilter \/ Act PROVE FormsInv'
  <1> USE DEF FormsInv
  <1>1. /\ loading \in [LoadSlots -> Loading] /\ form \in Form
        /\ ~This.refetches => \A i \in LoadSlots : ~loading[i].own
    BY DEF FormKinds, OwnLoads
  <1>2. PICK r : r = Renders(loading)
    OBVIOUS
  <1>3. r \in [LoadSlots -> Loading] /\ (~This.refetches => \A i \in LoadSlots : ~r[i].own)
    BY <1>1, <1>2, Rendering
  <1>4. CASE Save
    <2>1. \A pair \in sentKeys' : pair[1] = pair[2]
      BY <1>4 DEF Save, FormsHold, KeyOfForm
    <2> QED
      BY <1>1, <1>2, <1>3, <1>4, <2>1, AskKeeps DEF Save, FormKinds
  <1>5. CASE ClearKey
    BY <1>1, <1>5, AskKeeps DEF ClearKey, FormKinds, FormsHold
  <1>6. CASE Refresh
    <2>1. PICK l : l = BeginLoad(loading)
      OBVIOUS
    <2>2. l \in [LoadSlots -> Loading] /\ (~This.refetches => \A i \in LoadSlots : ~l[i].own)
      BY <1>1, <2>1, LoadBegins DEF BeginLoad
    <2>3. Renders(l) \in [LoadSlots -> Loading] /\ (~This.refetches => \A i \in LoadSlots : ~Renders(l)[i].own)
      BY <2>2, Rendering
    <2> QED
      BY <1>6, <2>1, <2>3, AskKeeps DEF Refresh, FormKinds, FormsHold, KeyOfForm
  <1>7. CASE ChangeFilter
    <2>1. PICK l : l = [i \in LoadSlots |-> [loading[i] EXCEPT !.live = FALSE]]
      OBVIOUS
    <2>2. l \in [LoadSlots -> Loading] /\ (~This.refetches => \A i \in LoadSlots : ~l[i].own)
      BY <1>1, <2>1 DEF Loading
    <2>3. BeginLoad(l) \in [LoadSlots -> Loading]
          /\ (~This.refetches => \A i \in LoadSlots : ~BeginLoad(l)[i].own)
      BY <2>2, LoadBegins DEF BeginLoad
    <2> QED
      BY <1>7, <2>1, <2>3, AskKeeps DEF ChangeFilter, FormKinds, FormsHold, KeyOfForm
  <1>8. CASE Act
    BY <1>2, <1>3, <1>8, AskKeeps DEF Act, FormKinds, FormsHold, KeyOfForm
  <1> QED
    BY <1>4, <1>5, <1>6, <1>7, <1>8

\* What is typed with nothing asked for is kept from then on.
LEMMA EditKeeps == ASSUME FormsInv, Edit PROVE FormsInv'
  <1> USE DEF FormsInv
  <1>1. This' = This /\ versions' \in FormVersions /\ versions' # 0
    BY SamePage, FormsAssumption DEF Edit, FormKinds, FormVersions
  <1>2. loading' \in [LoadSlots -> Loading] /\ (~This.refetches => loading' = loading)
    BY Rendering DEF Edit, FormKinds
  <1>3. form' \in Form /\ form'.version = versions' /\ form'.key = form.key /\ form'.provider = form.provider
    BY <1>1 DEF Edit, FormKinds, Form
  <1>4. FormKinds' /\ KeyOfForm' /\ OwnLoads' /\ FormsHold'
    BY <1>1, <1>2, <1>3, FormsAssumption DEF Edit, FormKinds, KeyOfForm, OwnLoads, FormsHold, FormVersions
  <1>5. NothingReplaces'
    <2> SUFFICES ASSUME kept' # 0, ~This.refetches, ~This.spares
                 PROVE  /\ \A j \in LoadSlots : loading[j].at = "none" \/ ~loading[j].live
                        /\ saving.at = "idle" /\ doing = "idle"
      BY <1>1, <1>2 DEF NothingReplaces, Edit
    <2>1. Calm
      BY DEF Edit
    <2> QED
      BY <2>1 DEF Calm, OwnLoads
  <1> QED
    BY <1>4, <1>5

\* A save that was answered replaces the form only when it is not to be kept.
LEMMA SaveArrivesKeeps == ASSUME FormsInv, SaveArrives PROVE FormsInv'
  <1> USE DEF FormsInv
  <1>1. This' = This
    BY SamePage DEF SaveArrives
  <1>2. PICK l : l = IF This.reloads THEN BeginLoad(loading) ELSE loading
    OBVIOUS
  <1>3. l \in [LoadSlots -> Loading] /\ (~This.refetches => \A i \in LoadSlots : ~l[i].own)
    BY <1>2, LoadBegins DEF BeginLoad, FormKinds, OwnLoads
  <1>4. loading' = Renders(l)
    BY <1>2 DEF SaveArrives
  <1>5. loading' \in [LoadSlots -> Loading] /\ (~This.refetches => \A i \in LoadSlots : ~loading'[i].own)
    BY <1>3, <1>4, Rendering
  <1>6. form' \in Form /\ (form' = form \/ form'.key = Nobody)
    BY DEF SaveArrives, FormKinds, KeyOfForm
  <1>7. FormKinds' /\ KeyOfForm' /\ OwnLoads'
    BY <1>1, <1>5, <1>6, FormValues DEF SaveArrives, FormKinds, KeyOfForm, OwnLoads
  <1>8. kept # 0 /\ ~This.refetches => This.spares /\ form' = form
    BY SparedIsNotShown DEF NothingReplaces, SaveArrives
  <1>9. NothingReplaces' /\ FormsHold'
    BY <1>1, <1>8 DEF NothingReplaces, FormsHold, SaveArrives
  <1> QED
    BY <1>7, <1>9

\* Steps of requests that were begun, besides those that replace the form.
LEMMA RequestKeeps ==
    ASSUME FormsInv,
           \/ \E i \in LoadSlots : ReadStored(i) \/ LoadFails(i)
           \/ AskModels \/ ModelsArrive \/ StoreSave \/ SaveFails \/ Done
    PROVE  FormsInv'
  <1> USE DEF FormsInv
  <1>1. ASSUME NEW i \in LoadSlots, ReadStored(i) PROVE FormsInv'
    <2>1. PICK l : l = [loading EXCEPT ![i].at = "answered", ![i].saw = inStore]
      OBVIOUS
    <2>2. l \in [LoadSlots -> Loading]
      BY <2>1 DEF FormKinds, Loading
    <2>3. \A j \in LoadSlots : l[j].live = loading[j].live /\ l[j].own = loading[j].own
                              /\ (l[j].at = "none" \/ loading[j].at # "none")
      BY <1>1, <2>1 DEF FormKinds, Loading, ReadStored
    <2> QED
      BY <1>1, <2>1, <2>2, <2>3, LoadsMove DEF ReadStored, FormKinds
  <1>2. ASSUME NEW i \in LoadSlots, LoadFails(i) PROVE FormsInv'
    <2>1. PICK l : l = [loading EXCEPT ![i] = NoLoad]
      OBVIOUS
    <2>2. l \in [LoadSlots -> Loading] /\ \A j \in LoadSlots : l[j] = loading[j] \/ l[j] = NoLoad
      BY <2>1, FormValues DEF FormKinds
    <2>3. /\ \A j \in LoadSlots : l[j].at = "none" \/ (l[j].live => loading[j].at # "none" /\ loading[j].live)
          /\ \A j \in LoadSlots : l[j].own => loading[j].own
      BY <2>2, FormValues
    <2> QED
      BY <1>2, <2>1, <2>2, <2>3, LoadsMove DEF LoadFails, FormKinds
  <1>3. CASE AskModels \/ ModelsArrive
    <2>1. UNCHANGED <<page, inStore, form, loading, saving, doing, versions, sentKeys, kept>> /\ This' = This
      BY <1>3, SamePage DEF AskModels, ModelsArrive
    <2> QED
      BY <2>1 DEF FormKinds, KeyOfForm, NothingReplaces, OwnLoads, FormsHold
  <1>4. CASE StoreSave
    <2>1. /\ UNCHANGED <<page, form, loading, doing, versions, sentKeys, kept>> /\ This' = This
          /\ saving.at = "sent" /\ saving'.at = "stored" /\ saving'.form.key = Nobody
      BY <1>4, SamePage DEF StoreSave, FormKinds
    <2>2. inStore' \in Settings
      BY <1>4 DEF StoreSave, FormKinds, Settings, Form
    <2>3. saving' \in [at : {"idle", "sent", "stored"}, form : Form, clears : BOOLEAN]
      BY <1>4, <2>2, FormValues DEF StoreSave, FormKinds, Settings, Form, MaybeProvider
    <2> QED
      BY <2>1, <2>2, <2>3 DEF FormKinds, KeyOfForm, NothingReplaces, OwnLoads, FormsHold
  <1>5. CASE SaveFails
    <2>1. /\ UNCHANGED <<page, inStore, form, doing, versions, sentKeys, kept>> /\ This' = This
          /\ saving' = Idle /\ loading' = Renders(loading)
      BY <1>5, SamePage DEF SaveFails
    <2>2. loading' \in [LoadSlots -> Loading] /\ (~This.refetches => loading' = loading)
      BY <2>1, Rendering DEF FormKinds
    <2> QED
      BY <2>1, <2>2, FormValues DEF FormKinds, KeyOfForm, NothingReplaces, OwnLoads, FormsHold
  <1>6. CASE Done
    <2>1. PICK l : /\ l = BeginLoad(loading) \/ l = loading
                   /\ loading' = Renders(l)
      BY <1>6 DEF Done
    <2>2. l \in [LoadSlots -> Loading] /\ (~This.refetches => \A i \in LoadSlots : ~l[i].own)
      BY <2>1, LoadBegins DEF BeginLoad, FormKinds, OwnLoads
    <2>3. loading' \in [LoadSlots -> Loading] /\ (~This.refetches => \A i \in LoadSlots : ~loading'[i].own)
      BY <2>1, <2>2, Rendering
    <2>4. This' = This /\ doing' = "idle" /\ doing # "idle"
          /\ UNCHANGED <<page, form, saving, versions, sentKeys, kept>>
      BY <1>6, SamePage DEF Done
    <2>5. inStore' \in Settings
      BY <1>6 DEF Done, FormKinds, Settings, Form
    <2> QED
      BY <2>3, <2>4, <2>5 DEF FormKinds, KeyOfForm, NothingReplaces, OwnLoads, FormsHold
  <1> QED
    BY <1>1, <1>2, <1>3, <1>4, <1>5, <1>6

\* What else changes the form, or the version there is.
LEMMA FormChangeKeeps ==
    ASSUME FormsInv,
           StoredElsewhere \/ TypeKey \/ ApplyPreset \/ \E p \in Providers : ChooseProvider(p)
    PROVE  FormsInv'
  <1> USE DEF FormsInv
  <1>1. CASE StoredElsewhere
    <2>1. /\ UNCHANGED <<page, form, loading, saving, doing, sentKeys, kept>> /\ This' = This
      BY <1>1, SamePage DEF StoredElsewhere
    <2>2. versions' \in FormVersions /\ inStore' \in Settings
      BY <1>1, FormsAssumption DEF StoredElsewhere, FormKinds, FormVersions, Settings
    <2> QED
      BY <2>1, <2>2 DEF FormKinds, KeyOfForm, NothingReplaces, OwnLoads, FormsHold
  <1>2. CASE TypeKey
    <2>1. /\ UNCHANGED <<page, inStore, loading, saving, doing, versions, sentKeys, kept>> /\ This' = This
      BY <1>2, SamePage DEF TypeKey
    <2>2. form' \in Form /\ form'.version = form.version /\ form'.key = form'.provider
      BY <1>2 DEF TypeKey, FormKinds, Form
    <2> QED
      BY <2>1, <2>2 DEF FormKinds, KeyOfForm, NothingReplaces, OwnLoads, FormsHold
  <1>3. CASE ApplyPreset
    <2>1. /\ UNCHANGED <<page, inStore, loading, saving, sentKeys>> /\ This' = This
          /\ kept' = 0 /\ doing' = "preset"
      BY <1>3, SamePage DEF ApplyPreset
    <2>2. versions' \in FormVersions
      BY <1>3, FormsAssumption DEF ApplyPreset, FormKinds, FormVersions
    <2>3. form' \in Form /\ form'.key = form.key /\ form'.provider = form.provider
      BY <1>3, <2>2 DEF ApplyPreset, FormKinds, Form
    <2> QED
      BY <2>1, <2>2, <2>3, FormsAssumption
      DEF FormKinds, KeyOfForm, NothingReplaces, OwnLoads, FormsHold, FormVersions
  <1>4. ASSUME NEW p \in Providers, ChooseProvider(p) PROVE FormsInv'
    <2>1. /\ UNCHANGED <<page, inStore, loading, saving, doing, versions, sentKeys>> /\ This' = This
          /\ kept' = 0
      BY <1>4, SamePage DEF ChooseProvider
    <2>2. form' \in Form /\ form'.key = Nobody
      BY <1>4, FormsAssumption DEF ChooseProvider, FormKinds, Form, FormVersions, MaybeProvider
    <2> QED
      BY <2>1, <2>2, FormsAssumption
      DEF FormKinds, KeyOfForm, NothingReplaces, OwnLoads, FormsHold, FormVersions
  <1> QED
    BY <1>1, <1>2, <1>3, <1>4

\* Every answer and every act of the operator's keeps it.
LEMMA FormsKept == FormsInv /\ [FormsNext]_formVars => FormsInv'
  <1> SUFFICES ASSUME FormsInv, [FormsNext]_formVars PROVE FormsInv'
    OBVIOUS
  <1>1. CASE FormsNext
    BY <1>1, LoadArrivesKeeps, OperatorAsks, EditKeeps, SaveArrivesKeeps, RequestKeeps, FormChangeKeeps
    DEF FormsNext
  <1>2. CASE UNCHANGED formVars
    BY <1>2, SamePage
    DEF formVars, FormsInv, FormKinds, KeyOfForm, NothingReplaces, OwnLoads, FormsHold
  <1> QED
    BY <1>1, <1>2

\* Forms hold: what was typed with nothing under way stays, and keys go where they were typed for
\* (the nine settings pages under src/apps/web/app).
THEOREM FormsKeepDrafts == FormsSpec => []FormsHold
  <1>1. FormsInit => FormsInv
    BY FormsInitial
  <1>2. FormsInv /\ [FormsNext]_formVars => FormsInv'
    BY FormsKept
  <1>3. FormsInv => FormsHold
    BY DEF FormsInv
  <1> QED
    BY <1>1, <1>2, <1>3, PTL DEF FormsSpec

-----------------------------------------------------------------------------
(* Streamed replies. *)

\* A reply of which nothing has ended, and the sections open in it.
Message(parts, sections) ==
    /\ parts \in Seq(StreamParts) /\ sections \subseteq Sections
    /\ InSections(parts)
    /\ \A i \in DOMAIN parts : parts[i].is # "finish"
    /\ \A k \in Sections : k \in sections <=> OpenAt(parts, k, Len(parts) + 1)

\* What the model said is at these positions, or before them if there is no room for more.
OfModel(piece) == piece.is = "delta" /\ piece.says # Fallback
Follows(parts, words) ==
    \E at \in [DOMAIN words -> DOMAIN parts] :
        /\ \A m, n \in DOMAIN words : m < n => at[m] < at[n]
        /\ \A m \in DOMAIN words : OfModel(parts[at[m]]) /\ parts[at[m]].says = words[m]
        /\ \A i \in DOMAIN parts : OfModel(parts[i]) =>
              \/ \E m \in DOMAIN words : at[m] = i
              \/ Len(words) = ScannedDeltas /\ \A m \in DOMAIN words : i < at[m]

\* The guard knows what the model has said last: all of it waits, or it has passed and nothing waits.
Waits == /\ \A i \in DOMAIN sent : ~OfModel(sent[i])
         /\ Len(held) = Len(scanned) /\ Len(scanned) < HeldDeltas
         /\ \A i \in DOMAIN held : \E k \in open : held[i] = Delta(k, scanned[i])
Passed == held = <<>> /\ Follows(sent, scanned)

Flowing ==
    /\ way = "stream" /\ guard = [mode |-> "model", leak |-> FALSE, told |-> "none"]
    /\ Message(sent, open) /\ ~Leaks(scanned)
    /\ IF holding THEN Waits ELSE Passed

\* A reply that has a mode of its own has the text of it, and what is stored says so.
Marked ==
    /\ guard.mode = "fallback" <=> \E i \in DOMAIN sent : sent[i] = Delta("text", Fallback)
    /\ \A i \in DOMAIN sent : sent[i].is = "delta" => sent[i].says \in Words \/ sent[i] = Delta("text", Fallback)
    /\ guard.told \in {"none", guard.mode}
    /\ storedReply.mode # "none" => storedReply = [mode |-> guard.mode, says |-> TextOf(sent)]

ReplyInv ==
    /\ ReplyTypeOK
    /\ progress = "prepared" =>
          /\ sent = <<>> /\ held = <<>> /\ holding /\ scanned = <<>> /\ open = {}
          /\ guard = [mode |-> "model", leak |-> FALSE, told |-> "none"]
    /\ Streams => Flowing
    /\ guard.leak => progress \in {"streaming", "over", "done"}
    /\ way = "stream" => InSections(sent)
    /\ KeepsNotes(sent)
    /\ Marked
    /\ progress # "done" => storedReply = NothingStored

\* What precedes a position decides what is open there.
LEMMA SameBefore ==
    ASSUME NEW parts \in Seq(StreamParts), NEW more \in Seq(StreamParts), Len(parts) <= Len(more),
           \A i \in DOMAIN parts : more[i] = parts[i], NEW k, NEW i \in 1 .. Len(parts) + 1
    PROVE  OpenAt(more, k, i) <=> OpenAt(parts, k, i)
  <1>1. \A j \in 1 .. i - 1 : more[j] = parts[j]
    OBVIOUS
  <1>2. \A j \in 1 .. i - 1 : \A m \in j + 1 .. i - 1 : m \in 1 .. i - 1
    OBVIOUS
  <1> QED
    BY <1>1, <1>2 DEF OpenAt

\* A part that fits what is open keeps the reply readable.
LEMMA Grow ==
    ASSUME NEW parts, NEW sections, Message(parts, sections), NEW piece \in StreamParts, piece.is # "finish",
           piece.is \in {"delta", "end"} => piece.of \in sections,
           piece.is = "start" => piece.of \in Sections \ sections,
           NEW after \in SUBSET Sections,
           \A k \in Sections : k \in after <=> piece = StartOf(k) \/ (k \in sections /\ piece # EndOf(k))
    PROVE  Message(Append(parts, piece), after)
  <1> DEFINE more == Append(parts, piece)
  <1>1. /\ parts \in Seq(StreamParts) /\ more \in Seq(StreamParts) /\ Len(more) = Len(parts) + 1
        /\ \A i \in DOMAIN parts : more[i] = parts[i]
        /\ more[Len(parts) + 1] = piece /\ DOMAIN parts = 1 .. Len(parts) /\ DOMAIN more = 1 .. Len(parts) + 1
        /\ Len(parts) \in Nat
    BY DEF Message
  <1> HIDE DEF more
  <1>2. \A k, i : i \in 1 .. Len(parts) + 1 => (OpenAt(more, k, i) <=> OpenAt(parts, k, i))
    BY <1>1, SameBefore
  <1>3. InSections(more)
    <2> SUFFICES ASSUME NEW i \in DOMAIN more
                 PROVE  /\ more[i].is \in {"delta", "end"} => OpenAt(more, more[i].of, i)
                        /\ more[i].is = "start" => ~OpenAt(more, more[i].of, i)
                        /\ more[i].is = "finish" => i = Len(more)
      BY DEF InSections
    <2>1. CASE i \in DOMAIN parts
      BY <2>1, <1>1, <1>2 DEF Message, InSections
    <2>2. CASE i = Len(parts) + 1
      <3>1. more[i] = piece /\ (piece.is \in {"start", "delta", "end"} => (OpenAt(more, piece.of, i) <=> OpenAt(parts, piece.of, Len(parts) + 1)))
        BY <2>2, <1>1, <1>2
      <3>2. piece.is \in {"delta", "end"} => piece.of \in Sections
        BY DEF Message
      <3> QED
        BY <3>1, <3>2 DEF Message
    <2> QED
      BY <2>1, <2>2, <1>1
  <1>4. \A i \in DOMAIN more : more[i].is # "finish"
    BY <1>1 DEF Message
  <1>5. ASSUME NEW k \in Sections PROVE k \in after <=> OpenAt(more, k, Len(more) + 1)
    <2>1. OpenAt(more, k, Len(more) + 1) <=> piece = StartOf(k) \/ (OpenAt(parts, k, Len(parts) + 1) /\ piece # EndOf(k))
      <3>1. piece = StartOf(k) => OpenAt(more, k, Len(more) + 1)
        BY <1>1 DEF OpenAt
      <3>2. OpenAt(parts, k, Len(parts) + 1) /\ piece # EndOf(k) => OpenAt(more, k, Len(more) + 1)
        BY <1>1 DEF OpenAt
      <3>3. OpenAt(more, k, Len(more) + 1) /\ piece # StartOf(k) => OpenAt(parts, k, Len(parts) + 1) /\ piece # EndOf(k)
        BY <1>1 DEF OpenAt
      <3> QED
        BY <3>1, <3>2, <3>3
    <2> QED
      BY <2>1 DEF Message
  <1> QED
    BY <1>1, <1>3, <1>4, <1>5 DEF Message, more

\* So do deltas of open sections.
LEMMA Flush ==
    ASSUME NEW parts, NEW sections, Message(parts, sections), NEW waiting \in Seq(StreamParts),
           \A i \in DOMAIN waiting : waiting[i].is = "delta" /\ waiting[i].of \in sections
    PROVE  Message(parts \o waiting, sections)
  <1> DEFINE more == parts \o waiting
  <1>1. /\ parts \in Seq(StreamParts) /\ more \in Seq(StreamParts) /\ Len(more) = Len(parts) + Len(waiting)
        /\ \A i \in DOMAIN parts : more[i] = parts[i]
        /\ \A i \in Len(parts) + 1 .. Len(more) : more[i].is = "delta" /\ more[i].of \in sections
        /\ DOMAIN parts = 1 .. Len(parts) /\ DOMAIN more = 1 .. Len(more)
        /\ Len(parts) \in Nat /\ Len(waiting) \in Nat
    BY DEF Message
  <1> HIDE DEF more
  <1>2. \A k, i : i \in 1 .. Len(parts) + 1 => (OpenAt(more, k, i) <=> OpenAt(parts, k, i))
    BY <1>1, SameBefore, SMTT(60)
  <1>3. ASSUME NEW k \in Sections, NEW i \in Len(parts) + 1 .. Len(more) + 1
        PROVE  OpenAt(more, k, i) <=> k \in sections
    <2>1. \A m \in Len(parts) + 1 .. Len(more) : more[m] # StartOf(k) /\ more[m] # EndOf(k)
      BY <1>1 DEF StartOf, EndOf
    <2>2. OpenAt(more, k, Len(parts) + 1) <=> k \in sections
      BY <1>1, <1>2 DEF Message
    <2>3. OpenAt(more, k, i) => OpenAt(more, k, Len(parts) + 1)
      BY <1>1, <2>1, SMTT(60) DEF OpenAt
    <2>4. OpenAt(more, k, Len(parts) + 1) => OpenAt(more, k, i)
      BY <1>1, <2>1 DEF OpenAt
    <2> QED
      BY <2>2, <2>3, <2>4
  <1>4. InSections(more)
    <2> SUFFICES ASSUME NEW i \in DOMAIN more
                 PROVE  /\ more[i].is \in {"delta", "end"} => OpenAt(more, more[i].of, i)
                        /\ more[i].is = "start" => ~OpenAt(more, more[i].of, i)
                        /\ more[i].is = "finish" => i = Len(more)
      BY DEF InSections
    <2>1. CASE i \in DOMAIN parts
      BY <2>1, <1>1, <1>2 DEF Message, InSections
    <2>2. CASE i \in Len(parts) + 1 .. Len(more)
      BY <2>2, <1>1, <1>3 DEF Message
    <2> QED
      BY <2>1, <2>2, <1>1
  <1>5. \A i \in DOMAIN more : more[i].is # "finish"
    BY <1>1 DEF Message
  <1> QED
    BY <1>1, <1>3, <1>4, <1>5 DEF Message, more

\* The end of a reply may come at any time.
LEMMA Finished ==
    ASSUME NEW parts, NEW sections, Message(parts, sections)
    PROVE  InSections(Append(parts, Sign("finish")))
  <1> DEFINE more == Append(parts, Sign("finish"))
  <1>1. /\ parts \in Seq(StreamParts) /\ more \in Seq(StreamParts) /\ Len(more) = Len(parts) + 1
        /\ \A i \in DOMAIN parts : more[i] = parts[i]
        /\ more[Len(parts) + 1] = Sign("finish") /\ DOMAIN parts = 1 .. Len(parts) /\ DOMAIN more = 1 .. Len(parts) + 1
        /\ Len(parts) \in Nat
    BY DEF Message, Sign, StreamParts
  <1> HIDE DEF more
  <1>2. \A k, i : i \in 1 .. Len(parts) + 1 => (OpenAt(more, k, i) <=> OpenAt(parts, k, i))
    BY <1>1, SameBefore
  <1>3. \A i \in DOMAIN parts : /\ more[i].is \in {"delta", "end"} => OpenAt(more, more[i].of, i)
                                /\ more[i].is = "start" => ~OpenAt(more, more[i].of, i)
                                /\ more[i].is # "finish"
    BY <1>1, <1>2 DEF Message, InSections
  <1> QED
    BY <1>1, <1>3 DEF InSections, Sign, more

-----------------------------------------------------------------------------
(* What the guard looks back on. *)

\* What does not leak does not leak in part.
LEMMA Fewer == ASSUME NEW found, NEW all, found \subseteq all, ~Leaking(all) PROVE ~Leaking(found)
  BY DEF Leaking

\* Parts that are none of the model's words change nothing of what it said.
LEMMA Quiet ==
    ASSUME NEW parts \in Seq(StreamParts), NEW piece \in StreamParts, ~OfModel(piece), KeepsNotes(parts)
    PROVE  KeepsNotes(Append(parts, piece))
  <1> DEFINE more == Append(parts, piece)
  <1>1. /\ more \in Seq(StreamParts) /\ Len(more) = Len(parts) + 1
        /\ \A i \in DOMAIN parts : more[i] = parts[i]
        /\ more[Len(parts) + 1] = piece /\ DOMAIN parts = 1 .. Len(parts) /\ DOMAIN more = 1 .. Len(parts) + 1
        /\ Len(parts) \in Nat
    OBVIOUS
  <1> HIDE DEF more
  <1> SUFFICES ASSUME NEW i \in DOMAIN more, NEW k \in DOMAIN more,
                      Cardinality(Said(more, i, k)) <= ScannedDeltas
               PROVE  ~Leaking({more[n].says : n \in Said(more, i, k)})
    BY DEF KeepsNotes, more
  <1>2. CASE Said(more, i, k) = {}
    <2>1. {more[n].says : n \in Said(more, i, k)} = {}
      BY <1>2
    <2> QED
      BY <2>1 DEF Leaking
  <1>3. CASE Said(more, i, k) # {}
    <2> DEFINE last == IF k \in DOMAIN parts THEN k ELSE Len(parts)
    <2>1. /\ i \in DOMAIN parts /\ last \in DOMAIN parts
      BY <1>1, <1>3 DEF Said, OfModel
    <2>2. Said(more, i, k) = Said(parts, i, last)
      BY <1>1, <2>1 DEF Said, OfModel
    <2>3. {more[n].says : n \in Said(more, i, k)} = {parts[n].says : n \in Said(parts, i, last)}
      BY <1>1, <2>1, <2>2 DEF Said
    <2> HIDE DEF last
    <2> QED
      BY <2>1, <2>2, <2>3 DEF KeepsNotes
  <1> QED
    BY <1>2, <1>3

\* A part that says no word of the model leaves the words in their order.
LEMMA QuietFollows ==
    ASSUME NEW parts \in Seq(StreamParts), NEW piece \in StreamParts, ~OfModel(piece),
           NEW words \in Seq(Words), Follows(parts, words)
    PROVE  Follows(Append(parts, piece), words)
  <1>1. PICK at \in [DOMAIN words -> DOMAIN parts] :
        /\ \A m, n \in DOMAIN words : m < n => at[m] < at[n]
        /\ \A m \in DOMAIN words : OfModel(parts[at[m]]) /\ parts[at[m]].says = words[m]
        /\ \A i \in DOMAIN parts : OfModel(parts[i]) =>
              \/ \E m \in DOMAIN words : at[m] = i
              \/ Len(words) = ScannedDeltas /\ \A m \in DOMAIN words : i < at[m]
    BY DEF Follows
  <1> DEFINE more == Append(parts, piece)
  <1>2. /\ DOMAIN more = DOMAIN parts \cup {Len(parts) + 1} /\ more[Len(parts) + 1] = piece
        /\ \A i \in DOMAIN parts : more[i] = parts[i]
    OBVIOUS
  <1> HIDE DEF more
  <1>3. at \in [DOMAIN words -> DOMAIN more]
    BY <1>2
  <1>4. \A m \in DOMAIN words : more[at[m]] = parts[at[m]]
    BY <1>2
  <1>5. \A i \in DOMAIN more : OfModel(more[i]) => i \in DOMAIN parts /\ OfModel(parts[i])
    BY <1>2
  <1>6. /\ \A m \in DOMAIN words : OfModel(more[at[m]]) /\ more[at[m]].says = words[m]
        /\ \A i \in DOMAIN more : OfModel(more[i]) =>
              \/ \E m \in DOMAIN words : at[m] = i
              \/ Len(words) = ScannedDeltas /\ \A m \in DOMAIN words : i < at[m]
    BY <1>1, <1>4, <1>5
  <1> QED
    BY <1>1, <1>3, <1>6 DEF Follows, more

\* The numbers up to n are n.
LEMMA Counted == ASSUME NEW n \in Nat PROVE IsFiniteSet(1 .. n) /\ Cardinality(1 .. n) = n
  <1>1. IsFiniteSet(1 .. n) /\ Cardinality(1 .. n) = IF 1 > n THEN 0 ELSE n - 1 + 1
    BY FS_Interval, 1 \in Int, n \in Int
  <1> QED
    BY <1>1

\* Of a window that is no longer than what the guard looks back on, all was scanned.
LEMMA WindowIsScanned ==
    ASSUME NEW parts \in Seq(StreamParts), NEW words \in Seq(Words), Follows(parts, words),
           NEW i \in DOMAIN parts, Cardinality(Said(parts, i, Len(parts))) <= ScannedDeltas
    PROVE  {parts[n].says : n \in Said(parts, i, Len(parts))} \subseteq {words[m] : m \in DOMAIN words}
  <1>1. PICK at \in [DOMAIN words -> DOMAIN parts] :
        /\ \A m, n \in DOMAIN words : m < n => at[m] < at[n]
        /\ \A m \in DOMAIN words : OfModel(parts[at[m]]) /\ parts[at[m]].says = words[m]
        /\ \A j \in DOMAIN parts : OfModel(parts[j]) =>
              \/ \E m \in DOMAIN words : at[m] = j
              \/ Len(words) = ScannedDeltas /\ \A m \in DOMAIN words : j < at[m]
    BY DEF Follows
  <1> DEFINE said == Said(parts, i, Len(parts))
  <1>2. /\ said \subseteq DOMAIN parts /\ \A n \in said : OfModel(parts[n]) /\ i <= n
        /\ \A n \in DOMAIN parts : OfModel(parts[n]) /\ i <= n => n \in said
        /\ DOMAIN parts \subseteq Nat /\ DOMAIN words = 1 .. Len(words) /\ Len(words) \in Nat
    BY DEF Said, OfModel
  <1>3. IsFiniteSet(said) /\ Cardinality(said) \in Nat
    <2>1. IsFiniteSet(1 .. Len(parts))
      BY Counted
    <2>2. said \in SUBSET (1 .. Len(parts))
      BY <1>2
    <2> QED
      BY <2>1, <2>2, FS_Subset, FS_CardinalityType
  <1>4. ASSUME NEW n \in said, \A m \in DOMAIN words : at[m] # n PROVE FALSE
    <2>1. Len(words) = ScannedDeltas /\ \A m \in DOMAIN words : n < at[m]
      BY <1>1, <1>2, <1>4
    <2> DEFINE later == said \ {n}
    <2>2. at \in Injection(DOMAIN words, later)
      <3>1. \A m \in DOMAIN words : at[m] \in later
        BY <1>1, <1>2, <2>1
      <3>2. \A m, l \in DOMAIN words : at[m] = at[l] => m = l
        BY <1>1, <1>2
      <3>3. at \in [DOMAIN words -> later]
        BY <3>1
      <3> QED
        BY <3>2, <3>3 DEF Injection, IsInjective
    <2>3. IsFiniteSet(later) /\ Cardinality(later) = Cardinality(said) - 1
      BY <1>3, <1>4, FS_RemoveElement
    <2> HIDE DEF later
    <2>4. Cardinality(DOMAIN words) <= Cardinality(later)
      BY <2>2, <2>3, FS_Injection
    <2>5. Cardinality(DOMAIN words) = Len(words)
      BY <1>2, Counted
    <2> QED
      BY <2>1, <2>3, <2>4, <2>5, <1>3, ReplyAssumption
  <1> HIDE DEF said
  <1>5. \A n \in said : \E m \in DOMAIN words : parts[n].says = words[m]
    BY <1>1, <1>4
  <1> QED
    BY <1>5 DEF said

\* The last words of a sequence with one more.
LEMMA LastWordsOf ==
    ASSUME NEW words \in Seq(Words), Len(words) <= ScannedDeltas, NEW w \in Words
    PROVE  LET more == LastWords(Append(words, w), ScannedDeltas)
               gone == Len(words) + 1 - Len(more)
           IN  /\ more \in Seq(Words)
               /\ Len(words) < ScannedDeltas => Len(more) = Len(words) + 1
               /\ Len(words) = ScannedDeltas => Len(more) = Len(words)
               /\ Len(more) > 0
               /\ \A m \in DOMAIN more : more[m] = Append(words, w)[m + gone]
  <1> DEFINE all == Append(words, w)
             more == LastWords(all, ScannedDeltas)
  <1>1. /\ all \in Seq(Words) /\ Len(all) = Len(words) + 1 /\ Len(words) \in Nat
        /\ ScannedDeltas \in Nat \ {0}
        /\ \A i \in 1 .. Len(all) : all[i] \in Words
    <2>1. all \in Seq(Words) /\ Len(all) = Len(words) + 1 /\ Len(words) \in Nat
      OBVIOUS
    <2>2. \A i \in 1 .. Len(all) : all[i] \in Words
      BY <2>1
    <2> QED
      BY <2>1, <2>2, ReplyAssumption
  <1> HIDE DEF all
  <1> DEFINE from == IF Len(words) = ScannedDeltas THEN 2 ELSE 1
  <1>2. /\ from \in 1 .. 2 /\ from \in Int
        /\ Len(words) = ScannedDeltas => from = 2
        /\ Len(words) < ScannedDeltas => from = 1
        /\ more = SubSeq(all, from, Len(all))
    <2>1. (IF Len(all) > ScannedDeltas THEN Len(all) - ScannedDeltas + 1 ELSE 1) = from
      BY <1>1
    <2>2. more = SubSeq(all, from, Len(all))
      BY <2>1 DEF LastWords
    <2> HIDE DEF more
    <2> QED
      BY <1>1, <2>2
  <1> HIDE DEF from
  <1>3. /\ more \in Seq(Words)
        /\ Len(more) = IF from <= Len(all) THEN Len(all) - from + 1 ELSE 0
        /\ \A i \in 1 .. Len(all) - from + 1 : more[i] = all[from + i - 1]
    <2>1. from \in Int /\ Len(all) \in Int /\ \A i \in from .. Len(all) : all[i] \in Words
      BY <1>1, <1>2
    <2> HIDE DEF more
    <2> QED
      BY <1>2, <2>1, SubSeqProperties
  <1> HIDE DEF more
  <1>4. Len(more) = Len(words) + 2 - from /\ DOMAIN more = 1 .. Len(more)
    <2>1. from <= Len(all)
      BY <1>1, <1>2
    <2> QED
      BY <1>1, <1>2, <1>3, <2>1
  <1>5. \A m \in DOMAIN more : more[m] = all[m + (Len(words) + 1 - Len(more))]
    <2> SUFFICES ASSUME NEW m \in DOMAIN more PROVE more[m] = all[m + (Len(words) + 1 - Len(more))]
      OBVIOUS
    <2>1. m \in 1 .. Len(words) + 2 - from /\ Len(words) + 1 - Len(more) = from - 1
      BY <1>1, <1>2, <1>4
    <2>2. m \in 1 .. Len(all) - from + 1 /\ from + m - 1 = m + (Len(words) + 1 - Len(more))
      <3>1. Len(all) - from + 1 = Len(words) + 2 - from
        BY <1>1, <1>2
      <3>2. m \in Int /\ from \in Int
        BY <1>2, <2>1
      <3>3. from + m - 1 = m + (from - 1)
        BY <3>2
      <3> QED
        BY <2>1, <3>1, <3>3
    <2> QED
      BY <1>3, <2>2
  <1>6. /\ Len(words) < ScannedDeltas => Len(more) = Len(words) + 1
        /\ Len(words) = ScannedDeltas => Len(more) = Len(words)
        /\ Len(more) > 0
    BY <1>1, <1>2, <1>4
  <1> QED
    BY <1>3, <1>5, <1>6 DEF more, all

\* A word that passes is scanned with those before it.
LEMMA Speak ==
    ASSUME NEW parts \in Seq(StreamParts), NEW words \in Seq(Words), Len(words) <= ScannedDeltas,
           Follows(parts, words), KeepsNotes(parts),
           NEW piece \in StreamParts, OfModel(piece), piece.says \in Words,
           ~Leaks(LastWords(Append(words, piece.says), ScannedDeltas))
    PROVE  /\ Follows(Append(parts, piece), LastWords(Append(words, piece.says), ScannedDeltas))
           /\ KeepsNotes(Append(parts, piece))
  <1> DEFINE more == Append(parts, piece)
             last == LastWords(Append(words, piece.says), ScannedDeltas)
             gone == Len(words) + 1 - Len(last)
  <1>1. /\ more \in Seq(StreamParts) /\ Len(more) = Len(parts) + 1
        /\ \A i \in DOMAIN parts : more[i] = parts[i]
        /\ more[Len(parts) + 1] = piece /\ DOMAIN parts = 1 .. Len(parts) /\ DOMAIN more = 1 .. Len(parts) + 1
        /\ Len(parts) \in Nat
    OBVIOUS
  <1>2. /\ last \in Seq(Words) /\ DOMAIN last = 1 .. Len(last) /\ Len(last) \in Nat /\ Len(last) > 0
        /\ DOMAIN words = 1 .. Len(words) /\ Len(words) \in Nat
        /\ gone = IF Len(words) = ScannedDeltas THEN 1 ELSE 0
        /\ Len(last) = Len(words) + 1 - gone /\ gone \in {0, 1}
        /\ \A m \in DOMAIN last : last[m] = IF m + gone <= Len(words) THEN words[m + gone] ELSE piece.says
    <2> DEFINE all == Append(words, piece.says)
    <2>1. /\ last \in Seq(Words) /\ Len(last) > 0
          /\ Len(words) < ScannedDeltas => Len(last) = Len(words) + 1
          /\ Len(words) = ScannedDeltas => Len(last) = Len(words)
          /\ \A m \in DOMAIN last : last[m] = all[m + gone]
      BY LastWordsOf
    <2>2. /\ Len(words) \in Nat /\ Len(all) = Len(words) + 1 /\ all[Len(words) + 1] = piece.says
          /\ \A m \in 1 .. Len(words) : all[m] = words[m]
      OBVIOUS
    <2> HIDE DEF all, last
    <2>3. DOMAIN last = 1 .. Len(last) /\ Len(last) \in Nat /\ DOMAIN words = 1 .. Len(words)
      BY <2>1
    <2>4. gone = (IF Len(words) = ScannedDeltas THEN 1 ELSE 0) /\ Len(last) = Len(words) + 1 - gone
      <3>1. Len(words) = ScannedDeltas \/ Len(words) < ScannedDeltas
        BY <2>2, ReplyAssumption
      <3> QED
        <4>1. CASE Len(words) = ScannedDeltas
          <5>1. Len(last) = Len(words)
            BY <2>1, <4>1
          <5> QED
            BY <2>2, <4>1, <5>1
        <4>2. CASE Len(words) < ScannedDeltas
          <5>1. Len(last) = Len(words) + 1
            BY <2>1, <4>2
          <5> QED
            BY <2>2, <4>2, <5>1, ReplyAssumption
        <4> QED
          BY <3>1, <4>1, <4>2
    <2>5. ASSUME NEW m \in DOMAIN last PROVE last[m] = IF m + gone <= Len(words) THEN words[m + gone] ELSE piece.says
      <3>1. m + gone \in 1 .. Len(words) + 1
        BY <2>2, <2>3, <2>4
      <3> HIDE DEF gone
      <3> QED
        BY <2>1, <2>2, <3>1
    <2> HIDE DEF gone
    <2> QED
      BY <2>1, <2>2, <2>3, <2>4, <2>5
  <1>3. PICK at \in [DOMAIN words -> DOMAIN parts] :
        /\ \A m, n \in DOMAIN words : m < n => at[m] < at[n]
        /\ \A m \in DOMAIN words : OfModel(parts[at[m]]) /\ parts[at[m]].says = words[m]
        /\ \A i \in DOMAIN parts : OfModel(parts[i]) =>
              \/ \E m \in DOMAIN words : at[m] = i
              \/ Len(words) = ScannedDeltas /\ \A m \in DOMAIN words : i < at[m]
    BY DEF Follows
  <1> HIDE DEF more, last, gone
  <1>4. Follows(more, last)
    <2> DEFINE to == [m \in DOMAIN last |-> IF m + gone <= Len(words) THEN at[m + gone] ELSE Len(parts) + 1]
    <2>1. \A m \in DOMAIN last : /\ m + gone <= Len(words) => m + gone \in DOMAIN words
                                /\ m + gone > Len(words) => m = Len(last)
                                /\ m + gone <= Len(words) <=> m < Len(last)
      BY <1>2
    <2>2. to \in [DOMAIN last -> DOMAIN more]
      <3>1. \A m \in DOMAIN last : to[m] \in DOMAIN more
        <4> SUFFICES ASSUME NEW m \in DOMAIN last PROVE to[m] \in DOMAIN more
          OBVIOUS
        <4>1. CASE m + gone <= Len(words)
          <5>1. to[m] = at[m + gone] /\ m + gone \in DOMAIN words
            <6>1. m + gone \in DOMAIN words
              BY <1>2, <2>1, <4>1
            <6>2. to[m] = at[m + gone]
              BY <4>1
            <6> QED
              BY <6>1, <6>2
          <5>2. to[m] \in DOMAIN parts
            BY <1>3, <5>1
          <5> QED
            BY <1>1, <5>2
        <4>2. CASE ~(m + gone <= Len(words))
          <5>1. to[m] = Len(parts) + 1
            BY <4>2
          <5> QED
            BY <1>1, <5>1
        <4> QED
          BY <4>1, <4>2
      <3> QED
        BY <3>1
    <2>3. \A m, n \in DOMAIN last : m < n => to[m] < to[n]
      <3> SUFFICES ASSUME NEW m \in DOMAIN last, NEW n \in DOMAIN last, m < n PROVE to[m] < to[n]
        OBVIOUS
      <3>1. m + gone \in DOMAIN words /\ to[m] = at[m + gone] /\ to[m] \in DOMAIN parts
        BY <1>2, <1>3, <2>1
      <3>2. CASE n + gone <= Len(words)
        <4>1. n + gone \in DOMAIN words /\ to[n] = at[n + gone] /\ m + gone < n + gone
          BY <1>2, <2>1, <3>2
        <4> QED
          BY <1>3, <3>1, <4>1
      <3>3. CASE ~(n + gone <= Len(words))
        BY <1>1, <3>1, <3>3
      <3> QED
        BY <3>2, <3>3
    <2>4. \A m \in DOMAIN last : OfModel(more[to[m]]) /\ more[to[m]].says = last[m]
      <3> SUFFICES ASSUME NEW m \in DOMAIN last PROVE OfModel(more[to[m]]) /\ more[to[m]].says = last[m]
        OBVIOUS
      <3>1. CASE m + gone <= Len(words)
        BY <1>1, <1>2, <1>3, <2>1, <3>1
      <3>2. CASE ~(m + gone <= Len(words))
        BY <1>1, <1>2, <3>2
      <3> QED
        BY <3>1, <3>2
    <2>5. ASSUME NEW i \in DOMAIN more, OfModel(more[i])
          PROVE  \/ \E m \in DOMAIN last : to[m] = i
                 \/ Len(last) = ScannedDeltas /\ \A m \in DOMAIN last : i < to[m]
      <3>1. CASE i = Len(parts) + 1
        <4>1. Len(last) \in DOMAIN last /\ to[Len(last)] = Len(parts) + 1
          BY <1>2, <2>1
        <4> QED
          BY <3>1, <4>1
      <3>2. CASE i \in DOMAIN parts
        <4>1. CASE \E m \in DOMAIN words : at[m] = i /\ m > gone
          <5>1. PICK m \in DOMAIN words : at[m] = i /\ m > gone
            BY <4>1
          <5>2. m - gone \in DOMAIN last /\ (m - gone) + gone = m /\ m <= Len(words)
            BY <1>2, <5>1
          <5> QED
            BY <5>1, <5>2
        <4>2. CASE ~\E m \in DOMAIN words : at[m] = i /\ m > gone
          <5>1. OfModel(parts[i])
            BY <1>1, <2>5, <3>2
          <5>2. /\ gone = 1 /\ Len(words) = ScannedDeltas /\ Len(last) = ScannedDeltas
                /\ \A m \in DOMAIN words : m > 1 => i < at[m]
            <6>1. CASE \E m \in DOMAIN words : at[m] = i
              <7>1. PICK m \in DOMAIN words : at[m] = i
                BY <6>1
              <7>2. m = 1 /\ gone = 1
                BY <1>2, <4>2, <7>1
              <7> QED
                <8>1. \A n \in DOMAIN words : n > 1 => i < at[n]
                  BY <1>3, <7>1, <7>2
                <8>2. Len(words) = ScannedDeltas /\ Len(last) = ScannedDeltas
                  BY <1>2, <7>2
                <8> QED
                  BY <7>2, <8>1, <8>2
            <6>2. CASE Len(words) = ScannedDeltas /\ \A m \in DOMAIN words : i < at[m]
              BY <1>2, <6>2, ReplyAssumption
            <6> QED
              BY <1>3, <3>2, <5>1, <6>1, <6>2
          <5>3. \A m \in DOMAIN last : i < to[m]
            BY <1>1, <1>2, <1>3, <2>1, <3>2, <5>2
          <5> QED
            BY <5>2, <5>3
        <4> QED
          BY <4>1, <4>2
      <3> QED
        BY <1>1, <3>1, <3>2
    <2> HIDE DEF to
    <2> QED
      BY <2>2, <2>3, <2>4, <2>5 DEF Follows
  <1>5. KeepsNotes(more)
    <2> SUFFICES ASSUME NEW i \in DOMAIN more, NEW k \in DOMAIN more,
                        Cardinality(Said(more, i, k)) <= ScannedDeltas
                 PROVE  ~Leaking({more[n].says : n \in Said(more, i, k)})
      BY DEF KeepsNotes
    <2>1. CASE k = Len(more)
      <3>1. {more[n].says : n \in Said(more, i, k)} \subseteq {last[m] : m \in DOMAIN last}
        BY <1>1, <1>2, <1>4, <2>1, WindowIsScanned
      <3> QED
        BY <3>1, Fewer DEF Leaks, last
    <2>2. CASE k \in DOMAIN parts /\ i \in DOMAIN parts
      <3>1. Said(more, i, k) = Said(parts, i, k)
        BY <1>1, <2>2 DEF Said
      <3>2. {more[n].says : n \in Said(more, i, k)} = {parts[n].says : n \in Said(parts, i, k)}
        <4>1. \A n \in Said(parts, i, k) : more[n] = parts[n]
          BY <1>1, <2>2 DEF Said
        <4> QED
          BY <3>1, <4>1
      <3> QED
        BY <2>2, <3>1, <3>2 DEF KeepsNotes
    <2>3. CASE k \in DOMAIN parts /\ i \notin DOMAIN parts
      <3>1. {more[n].says : n \in Said(more, i, k)} = {}
        BY <1>1, <2>3 DEF Said
      <3> QED
        BY <3>1 DEF Leaking
    <2> QED
      BY <1>1, <2>1, <2>2, <2>3
  <1> QED
    BY <1>4, <1>5 DEF more, last

\* What was held back and does not look like the notes may pass.
LEMMA Release ==
    ASSUME NEW parts \in Seq(StreamParts), \A i \in DOMAIN parts : ~OfModel(parts[i]),
           NEW words \in Seq(Words), ~Leaks(words),
           NEW waiting \in Seq(StreamParts), Len(waiting) = Len(words),
           \A i \in DOMAIN waiting : OfModel(waiting[i]) /\ waiting[i].says = words[i]
    PROVE  Follows(parts \o waiting, words) /\ KeepsNotes(parts \o waiting)
  <1> DEFINE more == parts \o waiting
  <1>1. /\ more \in Seq(StreamParts) /\ Len(more) = Len(parts) + Len(words)
        /\ Len(parts) \in Nat /\ Len(words) \in Nat /\ DOMAIN words = 1 .. Len(words)
        /\ DOMAIN more = 1 .. Len(more)
        /\ \A i \in DOMAIN more : IF i <= Len(parts) THEN ~OfModel(more[i])
                                 ELSE i - Len(parts) \in DOMAIN words /\ more[i].says = words[i - Len(parts)]
        /\ \A m \in DOMAIN words : OfModel(more[Len(parts) + m]) /\ more[Len(parts) + m].says = words[m]
    <2>1. /\ more \in Seq(StreamParts) /\ Len(more) = Len(parts) + Len(waiting)
          /\ Len(parts) \in Nat /\ Len(words) \in Nat /\ DOMAIN words = 1 .. Len(words)
          /\ DOMAIN more = 1 .. Len(more) /\ DOMAIN waiting = 1 .. Len(waiting)
          /\ DOMAIN parts = 1 .. Len(parts)
          /\ \A i \in 1 .. Len(parts) : more[i] = parts[i]
          /\ \A m \in 1 .. Len(waiting) : more[Len(parts) + m] = waiting[m]
      OBVIOUS
    <2> HIDE DEF more
    <2>2. ASSUME NEW i \in DOMAIN more
          PROVE  IF i <= Len(parts) THEN ~OfModel(more[i])
                 ELSE i - Len(parts) \in DOMAIN words /\ more[i].says = words[i - Len(parts)]
      <3>1. CASE i <= Len(parts)
        BY <2>1, <3>1
      <3>2. CASE ~(i <= Len(parts))
        <4>1. i - Len(parts) \in 1 .. Len(waiting) /\ Len(parts) + (i - Len(parts)) = i
          BY <2>1, <3>2
        <4> QED
          BY <2>1, <3>2, <4>1
      <3> QED
        BY <3>1, <3>2
    <2> QED
      BY <2>1, <2>2
  <1> HIDE DEF more
  <1>2. Follows(more, words)
    <2> DEFINE to == [m \in DOMAIN words |-> Len(parts) + m]
    <2>1. to \in [DOMAIN words -> DOMAIN more] /\ \A m, n \in DOMAIN words : m < n => to[m] < to[n]
      BY <1>1
    <2>2. \A m \in DOMAIN words : OfModel(more[to[m]]) /\ more[to[m]].says = words[m]
      BY <1>1
    <2>3. \A i \in DOMAIN more : OfModel(more[i]) => \E m \in DOMAIN words : to[m] = i
      <3> SUFFICES ASSUME NEW i \in DOMAIN more, OfModel(more[i]) PROVE \E m \in DOMAIN words : to[m] = i
        OBVIOUS
      <3>1. i - Len(parts) \in DOMAIN words /\ to[i - Len(parts)] = i
        BY <1>1
      <3> QED
        BY <3>1
    <2> HIDE DEF to
    <2> QED
      BY <2>1, <2>2, <2>3 DEF Follows
  <1>3. KeepsNotes(more)
    <2> SUFFICES ASSUME NEW i \in DOMAIN more, NEW k \in DOMAIN more
                 PROVE  ~Leaking({more[n].says : n \in Said(more, i, k)})
      BY DEF KeepsNotes
    <2>1. \A n \in Said(more, i, k) : n \in DOMAIN more /\ OfModel(more[n])
      BY <1>1 DEF Said, OfModel
    <2>2. {more[n].says : n \in Said(more, i, k)} \subseteq {words[m] : m \in DOMAIN words}
      BY <1>1, <2>1
    <2> QED
      BY <2>2, Fewer DEF Leaks
  <1> QED
    BY <1>2, <1>3 DEF more

-----------------------------------------------------------------------------
(* What a step of the stream does. *)

\* Nothing but the model's words is said.
Plain(parts) == \A i \in DOMAIN parts : parts[i].is = "delta" => parts[i].says \in Words

\* The fixed reply is none of the model's words.
LEMMA NotFallback == Fallback \notin Words
  BY DEF Fallback, Words

\* Starts, ends and words are parts of a stream.
LEMMA MadeParts ==
    /\ \A k \in Sections : StartOf(k) \in StreamParts /\ EndOf(k) \in StreamParts
    /\ \A k \in Sections : \A w \in Words \cup {Fallback} : Delta(k, w) \in StreamParts
    /\ \A what \in {"error", "finish-step", "finish"} : Sign(what) \in StreamParts
    /\ "text" \in Sections /\ "reasoning" \in Sections
  BY DEF Sections, StartOf, EndOf, Delta, Sign, StreamParts

\* What is held passes: it is said by the model, in sections that are open.
LEMMA HeldPasses ==
    ASSUME ReplyTypeOK, Flowing, KeepsNotes(sent), Plain(sent)
    PROVE  LET all == sent \o held
           IN  /\ Message(all, open) /\ Follows(all, scanned) /\ KeepsNotes(all) /\ Plain(all)
               /\ holding /\ held = <<>> => \A i \in DOMAIN all : ~OfModel(all[i])
               /\ ~holding => held = <<>>
  <1> DEFINE all == sent \o held
  <1>1. /\ sent \in Seq(StreamParts) /\ held \in Seq(StreamParts) /\ scanned \in Seq(Words)
        /\ Message(sent, open) /\ ~Leaks(scanned) /\ holding \in BOOLEAN
    BY DEF ReplyTypeOK, Flowing
  <1>2. CASE holding
    <2>1. Waits
      BY <1>2 DEF Flowing
    <2>2. /\ Len(held) = Len(scanned)
          /\ \A i \in DOMAIN held : /\ held[i].is = "delta" /\ held[i].of \in open
                                     /\ held[i].says = scanned[i] /\ held[i].says \in Words
      <3>1. \A i \in DOMAIN held : i \in DOMAIN scanned
        BY <1>1, <2>1 DEF Waits
      <3> QED
        BY <1>1, <2>1, <3>1 DEF Waits, Delta
    <2>3. Message(all, open)
      BY <1>1, <2>2, Flush
    <2>4. \A i \in DOMAIN held : OfModel(held[i]) /\ held[i].says = scanned[i]
      BY <2>2, NotFallback DEF OfModel
    <2>5. Follows(all, scanned) /\ KeepsNotes(all)
      BY <1>1, <2>1, <2>2, <2>4, Release DEF Waits
    <2>6. Plain(all)
      BY <1>1, <2>2 DEF Plain
    <2>7. held = <<>> => all = sent
      BY <1>1
    <2> QED
      BY <1>2, <2>1, <2>3, <2>5, <2>6, <2>7 DEF Waits
  <1>3. CASE ~holding
    <2>1. held = <<>> /\ Follows(sent, scanned)
      BY <1>3 DEF Flowing, Passed
    <2>2. all = sent
      BY <1>1, <2>1
    <2> QED
      BY <1>1, <1>3, <2>1, <2>2
  <1> QED
    BY <1>1, <1>2, <1>3

\* A part that is no delta, after what is held or ahead of it.
LEMMA PartPasses ==
    ASSUME ReplyTypeOK, Flowing, KeepsNotes(sent), Plain(sent),
           NEW piece \in StreamParts, piece.is \notin {"delta", "finish"},
           piece.is = "end" => piece.of \in open,
           piece.is = "start" => piece.of \in Sections \ open,
           open' \subseteq Sections,
           \A k \in Sections : k \in open' <=> piece = StartOf(k) \/ (k \in open /\ piece # EndOf(k)),
           UNCHANGED <<way, guard, scanned>>,
           PassAfterHeld(piece) \/ (SendNow(piece) /\ open \subseteq open')
    PROVE  /\ Flowing' /\ KeepsNotes(sent') /\ Plain(sent')
           /\ held' \in Seq(StreamParts) /\ sent' \in Seq(StreamParts) /\ holding' \in BOOLEAN
  <1>1. /\ sent \in Seq(StreamParts) /\ held \in Seq(StreamParts) /\ scanned \in Seq(Words)
        /\ Message(sent, open) /\ ~Leaks(scanned) /\ holding \in BOOLEAN /\ ~OfModel(piece)
    BY DEF ReplyTypeOK, Flowing, OfModel
  <1>2. CASE PassAfterHeld(piece)
    <2> DEFINE all == sent \o held
    <2>1. /\ Message(all, open) /\ Follows(all, scanned) /\ KeepsNotes(all) /\ Plain(all)
          /\ holding /\ held = <<>> => \A i \in DOMAIN all : ~OfModel(all[i])
          /\ ~holding => held = <<>>
      BY HeldPasses
    <2>2. /\ sent' = Append(all, piece) /\ held' = <<>> /\ holding' = (holding /\ held = <<>>)
      BY <1>2 DEF PassAfterHeld
    <2> HIDE DEF all
    <2>3. all \in Seq(StreamParts)
      BY <2>1 DEF Message
    <2>4. Message(sent', open')
      BY <2>1, <2>2, Grow
    <2>5. KeepsNotes(sent') /\ Follows(sent', scanned)
      BY <1>1, <2>1, <2>2, <2>3, Quiet, QuietFollows
    <2>6. Plain(sent') /\ sent' \in Seq(StreamParts)
      BY <2>1, <2>2, <2>3 DEF Plain
    <2>7. CASE holding /\ held = <<>>
      <3>1. \A i \in DOMAIN sent' : ~OfModel(sent'[i])
        BY <1>1, <2>1, <2>2, <2>3, <2>7
      <3>2. Len(scanned) = 0 /\ Len(scanned) < HeldDeltas
        BY <1>1, <2>7 DEF Flowing, Waits
      <3>3. Waits'
        BY <2>2, <2>7, <3>1, <3>2 DEF Waits
      <3> QED
        BY <1>1, <2>2, <2>4, <2>5, <2>6, <2>7, <3>3 DEF Flowing
    <2>8. CASE ~(holding /\ held = <<>>)
      <3>1. Passed' /\ ~holding'
        BY <2>2, <2>5, <2>8 DEF Passed
      <3> QED
        BY <1>1, <2>2, <2>4, <2>5, <2>6, <3>1 DEF Flowing
    <2> QED
      BY <2>7, <2>8
  <1>3. CASE SendNow(piece) /\ open \subseteq open'
    <2>1. sent' = Append(sent, piece) /\ held' = held /\ holding' = holding
      BY <1>3 DEF SendNow
    <2>2. Message(sent', open')
      <3>1. Message(Append(sent, piece), open')
        BY <1>1, Grow
      <3> QED
        BY <2>1, <3>1
    <2>3. KeepsNotes(sent')
      BY <1>1, <2>1, Quiet
    <2>4. Plain(sent') /\ sent' \in Seq(StreamParts)
      BY <1>1, <2>1 DEF Plain
    <2>5. CASE holding
      <3>1. \A i \in DOMAIN sent' : ~OfModel(sent'[i])
        BY <1>1, <2>1, <2>5 DEF Flowing, Waits
      <3>2. Waits'
        BY <1>3, <2>1, <2>5, <3>1 DEF Flowing, Waits
      <3> QED
        BY <1>1, <2>1, <2>2, <2>3, <2>4, <2>5, <3>2 DEF Flowing
    <2>6. CASE ~holding
      <3>1. Passed'
        BY <1>1, <2>1, <2>6, QuietFollows DEF Flowing, Passed
      <3> QED
        BY <1>1, <2>1, <2>2, <2>3, <2>4, <2>6, <3>1 DEF Flowing
    <2> QED
      BY <2>5, <2>6
  <1> QED
    BY <1>2, <1>3

\* A word of the model that does not make what it said look like the notes: held, or passed.
LEMMA WordPasses ==
    ASSUME ReplyTypeOK, Flowing, KeepsNotes(sent), Plain(sent), NEW k \in open, NEW w \in Words,
           scanned' = LastWords(Append(scanned, w), ScannedDeltas), ~Leaks(scanned'),
           UNCHANGED <<way, guard, open>>,
           IF ~holding THEN SendNow(Delta(k, w))
           ELSE IF Len(scanned') >= HeldDeltas
           THEN sent' = Append(sent \o held, Delta(k, w)) /\ held' = <<>> /\ holding' = FALSE
           ELSE held' = Append(held, Delta(k, w)) /\ UNCHANGED <<sent, holding>>
    PROVE  /\ Flowing' /\ KeepsNotes(sent') /\ Plain(sent')
           /\ held' \in Seq(StreamParts) /\ sent' \in Seq(StreamParts) /\ holding' \in BOOLEAN
           /\ scanned' \in Seq(Words) /\ Len(scanned') <= ScannedDeltas
  <1> DEFINE piece == Delta(k, w)
             all == sent \o held
  <1>1. /\ sent \in Seq(StreamParts) /\ held \in Seq(StreamParts) /\ scanned \in Seq(Words)
        /\ Message(sent, open) /\ ~Leaks(scanned) /\ holding \in BOOLEAN
        /\ Len(scanned) <= ScannedDeltas /\ k \in Sections
    BY DEF ReplyTypeOK, Flowing
  <1>2. /\ piece \in StreamParts /\ OfModel(piece) /\ piece.is = "delta" /\ piece.of = k /\ piece.says = w
        /\ \A s \in Sections : piece # StartOf(s) /\ piece # EndOf(s)
    BY <1>1, MadeParts, NotFallback DEF Delta, OfModel, StartOf, EndOf
  <1>3. /\ scanned' \in Seq(Words) /\ Len(scanned') <= ScannedDeltas
        /\ Len(scanned) < ScannedDeltas => /\ Len(scanned') = Len(scanned) + 1
                                           /\ \A m \in DOMAIN scanned' : scanned'[m] = Append(scanned, w)[m]
    <2>1. /\ scanned' \in Seq(Words)
          /\ Len(scanned) < ScannedDeltas => Len(scanned') = Len(scanned) + 1
          /\ Len(scanned) = ScannedDeltas => Len(scanned') = Len(scanned)
          /\ \A m \in DOMAIN scanned' : scanned'[m] = Append(scanned, w)[m + (Len(scanned) + 1 - Len(scanned'))]
      BY <1>1, LastWordsOf
    <2>2. Len(scanned) \in Nat /\ Len(scanned') \in Nat /\ DOMAIN scanned' = 1 .. Len(scanned')
      BY <1>1, <2>1
    <2>3. Len(scanned') <= ScannedDeltas
      <3>1. Len(scanned) < ScannedDeltas \/ Len(scanned) = ScannedDeltas
        BY <1>1, <2>2, ReplyAssumption
      <3> QED
        <4>1. CASE Len(scanned) = ScannedDeltas
          BY <1>1, <2>1, <4>1
        <4>2. CASE Len(scanned) < ScannedDeltas
          <5>1. Len(scanned') = Len(scanned) + 1
            BY <2>1, <4>2
          <5> QED
            BY <2>2, <4>2, <5>1, ReplyAssumption
        <4> QED
          BY <3>1, <4>1, <4>2
    <2>4. ASSUME Len(scanned) < ScannedDeltas
          PROVE  \A m \in DOMAIN scanned' : scanned'[m] = Append(scanned, w)[m]
      <3>1. \A m \in DOMAIN scanned' : m + (Len(scanned) + 1 - Len(scanned')) = m
        BY <2>1, <2>2, <2>4
      <3> QED
        BY <2>1, <3>1
    <2> QED
      BY <2>1, <2>3, <2>4
  <1> HIDE DEF piece
  <1>4. ASSUME NEW parts \in Seq(StreamParts), Message(parts, open), Follows(parts, scanned), KeepsNotes(parts),
               Plain(parts), sent' = Append(parts, piece), held' = <<>>, holding' = FALSE
        PROVE  Flowing' /\ KeepsNotes(sent') /\ Plain(sent') /\ sent' \in Seq(StreamParts)
    <2>1. Follows(sent', scanned') /\ KeepsNotes(sent')
      BY <1>1, <1>2, <1>4, Speak
    <2>2. Message(sent', open')
      <3>1. open \in SUBSET Sections
        BY DEF ReplyTypeOK
      <3> QED
        BY <1>2, <1>4, <3>1, Grow
    <2>3. Plain(sent') /\ sent' \in Seq(StreamParts)
      BY <1>2, <1>4 DEF Plain
    <2> QED
      BY <1>4, <2>1, <2>2, <2>3 DEF Flowing, Passed
  <1>5. CASE ~holding
    <2>1. sent' = Append(sent, piece) /\ held' = held /\ holding' = holding /\ held = <<>> /\ Follows(sent, scanned)
      BY <1>5 DEF SendNow, Flowing, Passed, piece
    <2> QED
      BY <1>1, <1>3, <1>4, <1>5, <2>1
  <1>6. CASE holding /\ Len(scanned') >= HeldDeltas
    <2>1. Message(all, open) /\ Follows(all, scanned) /\ KeepsNotes(all) /\ Plain(all) /\ all \in Seq(StreamParts)
      BY <1>1, HeldPasses
    <2>2. sent' = Append(all, piece) /\ held' = <<>> /\ holding' = FALSE
      BY <1>6 DEF piece
    <2> HIDE DEF all
    <2>3. Flowing' /\ KeepsNotes(sent') /\ Plain(sent') /\ sent' \in Seq(StreamParts)
      BY <1>4, <2>1, <2>2
    <2>4. held' \in Seq(StreamParts) /\ holding' \in BOOLEAN
      <3>1. <<>> \in Seq(StreamParts)
        OBVIOUS
      <3>2. held' \in Seq(StreamParts)
        BY <2>2, <3>1
      <3>3. holding' \in BOOLEAN
        BY <2>2
      <3> QED
        BY <3>2, <3>3
    <2> QED
      BY <1>3, <2>3, <2>4
  <1>7. CASE holding /\ ~(Len(scanned') >= HeldDeltas)
    <2>1. held' = Append(held, piece) /\ sent' = sent /\ holding' = holding
      BY <1>7 DEF piece
    <2>2. Waits
      BY <1>7 DEF Flowing
    <2>3. Len(scanned) < ScannedDeltas /\ Len(scanned') \in Nat /\ Len(scanned') < HeldDeltas
      BY <1>1, <1>3, <1>7, <2>2, ReplyAssumption DEF Waits
    <2>4. Len(held') = Len(scanned')
      BY <1>1, <1>3, <2>1, <2>2, <2>3 DEF Waits
    <2>5. ASSUME NEW i \in DOMAIN held' PROVE \E s \in open' : held'[i] = Delta(s, scanned'[i])
      <3>1. i \in DOMAIN scanned' /\ scanned'[i] = Append(scanned, w)[i]
        BY <1>1, <1>2, <1>3, <2>1, <2>3, <2>4
      <3>2. CASE i \in DOMAIN held
        <4>1. held'[i] = held[i] /\ scanned'[i] = scanned[i]
          BY <1>1, <1>2, <2>1, <2>2, <3>1, <3>2 DEF Waits
        <4> QED
          BY <2>2, <3>2, <4>1 DEF Waits
      <3>3. CASE i = Len(held) + 1
        <4>1. held'[i] = piece /\ scanned'[i] = w
          BY <1>1, <1>2, <2>1, <2>2, <3>1, <3>3 DEF Waits
        <4> QED
          BY <4>1 DEF piece
      <3> QED
        BY <1>1, <1>2, <2>1, <3>2, <3>3
    <2>6. Waits'
      BY <2>1, <2>2, <2>3, <2>4, <2>5 DEF Waits
    <2>7. Flowing' /\ KeepsNotes(sent') /\ Plain(sent')
      BY <1>1, <1>7, <2>1, <2>6 DEF Flowing
    <2> QED
      BY <1>1, <1>2, <1>3, <2>1, <2>7
  <1> QED
    BY <1>1, <1>5, <1>6, <1>7

-----------------------------------------------------------------------------
(* What a reply written by the guard, or as a whole, does. *)

\* Nothing of the model, nothing to hold against it.
LEMMA NothingSaid == <<>> \in Seq(StreamParts) /\ Message(<<>>, {}) /\ KeepsNotes(<<>>)
  <1>1. <<>> \in Seq(StreamParts) /\ DOMAIN <<>> = {} /\ Len(<<>>) = 0
    OBVIOUS
  <1>2. \A k : ~OpenAt(<<>>, k, 1)
    BY DEF OpenAt
  <1> QED
    BY <1>1, <1>2 DEF Message, InSections, KeepsNotes

\* The reply that needs no model, after what has been sent.
FallbackIn(parts, sections) ==
    LET ended == IF "reasoning" \in sections THEN Append(parts, EndOf("reasoning")) ELSE parts
        opened == IF "text" \in sections THEN ended ELSE Append(ended, StartOf("text"))
    IN  Append(Append(opened, Delta("text", Fallback)), EndOf("text"))

\* Written after what was sent, the fixed reply closes what was open and makes a whole message.
LEMMA FallbackFits ==
    ASSUME NEW parts, NEW sections, Message(parts, sections), KeepsNotes(parts)
    PROVE  /\ Message(FallbackIn(parts, sections), {})
           /\ KeepsNotes(FallbackIn(parts, sections))
           /\ \E i \in DOMAIN FallbackIn(parts, sections) : FallbackIn(parts, sections)[i] = Delta("text", Fallback)
           /\ \A i \in DOMAIN FallbackIn(parts, sections) :
                 LET piece == FallbackIn(parts, sections)[i]
                 IN  piece.is = "delta" => piece = Delta("text", Fallback) \/ \E n \in DOMAIN parts : piece = parts[n]
  <1> DEFINE Shows(all) == \A i \in DOMAIN all : all[i].is = "delta" =>
                             all[i] = Delta("text", Fallback) \/ \E n \in DOMAIN parts : all[i] = parts[n]
             ended == IF "reasoning" \in sections THEN Append(parts, EndOf("reasoning")) ELSE parts
             opened == IF "text" \in sections THEN ended ELSE Append(ended, StartOf("text"))
             said == Append(opened, Delta("text", Fallback))
             closed == Append(said, EndOf("text"))
  <1>1. \A k \in Sections :
          /\ StartOf(k) \in StreamParts /\ StartOf(k).is = "start" /\ StartOf(k).of = k /\ ~OfModel(StartOf(k))
          /\ EndOf(k) \in StreamParts /\ EndOf(k).is = "end" /\ EndOf(k).of = k /\ ~OfModel(EndOf(k))
    BY MadeParts DEF StartOf, EndOf, OfModel
  <1>2. \A k, l \in Sections : /\ StartOf(k) = StartOf(l) => k = l
                               /\ EndOf(k) = EndOf(l) => k = l
                               /\ StartOf(k) # EndOf(l)
    BY DEF StartOf, EndOf
  <1>3. LET d == Delta("text", Fallback)
        IN  /\ d \in StreamParts /\ d.is = "delta" /\ d.of = "text" /\ ~OfModel(d)
            /\ \A k \in Sections : d # StartOf(k) /\ d # EndOf(k)
    BY MadeParts DEF Delta, OfModel, StartOf, EndOf
  <1>4. parts \in Seq(StreamParts) /\ sections \subseteq Sections /\ Shows(parts)
    BY DEF Message
  <1>5. "text" \in Sections /\ "reasoning" \in Sections /\ \A k \in Sections : k \in {"text", "reasoning"}
    BY DEF Sections
  <1> HIDE DEF ended, opened, said, closed
  <1>6. Message(ended, sections \ {"reasoning"}) /\ KeepsNotes(ended) /\ Shows(ended) /\ ended \in Seq(StreamParts)
    <2>1. CASE "reasoning" \in sections
      <3>1. ended = Append(parts, EndOf("reasoning"))
        BY <2>1 DEF ended
      <3>2. Message(ended, sections \ {"reasoning"})
        <4>1. sections \ {"reasoning"} \in SUBSET Sections
          BY <1>4
        <4> QED
          BY <1>1, <1>2, <1>5, <2>1, <3>1, <4>1, Grow
      <3> QED
        BY <1>1, <1>4, <1>5, <3>1, <3>2, Quiet
    <2>2. CASE "reasoning" \notin sections
      BY <1>4, <2>2 DEF ended
    <2> QED
      BY <2>1, <2>2
  <1>7. Message(opened, {"text"}) /\ KeepsNotes(opened) /\ Shows(opened) /\ opened \in Seq(StreamParts)
    <2>1. CASE "text" \in sections
      <3>1. sections \ {"reasoning"} = {"text"}
        BY <1>4, <1>5, <2>1
      <3> QED
        BY <1>6, <2>1, <3>1 DEF opened
    <2>2. CASE "text" \notin sections
      <3>1. opened = Append(ended, StartOf("text")) /\ sections \ {"reasoning"} = {}
        BY <1>4, <1>5, <2>2 DEF opened
      <3>2. Message(opened, {"text"})
        <4>1. {"text"} \in SUBSET Sections
          BY <1>5
        <4> QED
          BY <1>1, <1>2, <1>5, <1>6, <3>1, <4>1, Grow
      <3> QED
        BY <1>1, <1>5, <1>6, <3>1, <3>2, Quiet
    <2> QED
      BY <2>1, <2>2
  <1>8. /\ Message(said, {"text"}) /\ KeepsNotes(said) /\ Shows(said) /\ said \in Seq(StreamParts)
        /\ Len(said) \in DOMAIN said /\ said[Len(said)] = Delta("text", Fallback)
    <2>1. Message(said, {"text"})
      <3>1. {"text"} \in SUBSET Sections
        BY <1>5
      <3> QED
        BY <1>3, <1>7, <3>1, Grow DEF said
    <2> QED
      BY <1>3, <1>7, <2>1, Quiet DEF said
  <1>9. /\ Message(closed, {}) /\ KeepsNotes(closed) /\ Shows(closed)
        /\ \E i \in DOMAIN closed : closed[i] = Delta("text", Fallback)
    <2>1. Message(closed, {})
      BY <1>1, <1>2, <1>5, <1>8, Grow DEF closed
    <2>2. closed[Len(said)] = Delta("text", Fallback) /\ Len(said) \in DOMAIN closed
      BY <1>1, <1>5, <1>8 DEF closed
    <2> QED
      BY <1>1, <1>5, <1>8, <2>1, <2>2, Quiet DEF closed
  <1>10. closed = FallbackIn(parts, sections)
    BY DEF FallbackIn, closed, said, opened, ended
  <1> QED
    BY <1>9, <1>10

\* Sequences written out are appended to one by one.
LEMMA OneByOne ==
    ASSUME NEW parts \in Seq(StreamParts), NEW a \in StreamParts, NEW b \in StreamParts,
           NEW c \in StreamParts, NEW d \in StreamParts
    PROVE  /\ parts \o <<>> = parts
           /\ parts \o <<a>> = Append(parts, a)
           /\ parts \o <<a, b, c, d>> = Append(Append(Append(Append(parts, a), b), c), d)
           /\ <<a, b, c>> = Append(Append(Append(<<>>, a), b), c)
  <1>1. parts \o <<>> = parts /\ parts \o <<a>> = Append(parts, a)
    OBVIOUS
  <1>2. <<a, b, c>> = Append(Append(Append(<<>>, a), b), c)
    OBVIOUS
  <1>3. parts \o <<a, b, c, d>> = Append(Append(Append(Append(parts, a), b), c), d)
    <2> DEFINE four == <<a, b, c, d>>
               more == Append(Append(Append(Append(parts, a), b), c), d)
    <2>1. /\ four \in Seq(StreamParts) /\ Len(four) = 4
          /\ four[1] = a /\ four[2] = b /\ four[3] = c /\ four[4] = d
      OBVIOUS
    <2>2. /\ more \in Seq(StreamParts) /\ Len(more) = Len(parts) + 4 /\ Len(parts) \in Nat
          /\ more[Len(parts) + 1] = a /\ more[Len(parts) + 2] = b
          /\ more[Len(parts) + 3] = c /\ more[Len(parts) + 4] = d
          /\ \A i \in 1 .. Len(parts) : more[i] = parts[i]
      OBVIOUS
    <2> HIDE DEF four, more
    <2>3. /\ parts \o four \in Seq(StreamParts) /\ Len(parts \o four) = Len(parts) + 4
          /\ \A i \in 1 .. Len(parts) + 4 : (parts \o four)[i] = IF i <= Len(parts) THEN parts[i] ELSE four[i - Len(parts)]
      <3>1. /\ parts \o four \in Seq(StreamParts) /\ Len(parts \o four) = Len(parts) + Len(four)
            /\ \A i \in 1 .. Len(parts) + Len(four) :
                 (parts \o four)[i] = IF i <= Len(parts) THEN parts[i] ELSE four[i - Len(parts)]
        <4>1. four \in Seq(StreamParts)
          BY <2>1
        <4> QED
          BY <4>1, ConcatProperties, Zenon
      <3> QED
        BY <2>1, <3>1
    <2>4. \A i \in 1 .. Len(parts) + 4 : (parts \o four)[i] = more[i]
      <3> SUFFICES ASSUME NEW i \in 1 .. Len(parts) + 4 PROVE (parts \o four)[i] = more[i]
        OBVIOUS
      <3>1. i \in 1 .. Len(parts) \/ i = Len(parts) + 1 \/ i = Len(parts) + 2 \/ i = Len(parts) + 3 \/ i = Len(parts) + 4
        BY <2>2
      <3>2. CASE i \in 1 .. Len(parts)
        BY <2>2, <2>3, <3>2
      <3>3. CASE i \in {Len(parts) + 1, Len(parts) + 2, Len(parts) + 3, Len(parts) + 4}
        <4>1. ~(i <= Len(parts)) /\ (parts \o four)[i] = four[i - Len(parts)]
          BY <2>2, <2>3, <3>3
        <4> QED
          BY <2>1, <2>2, <3>3, <4>1
      <3> QED
        BY <3>1, <3>2, <3>3
    <2>5. parts \o four = more
      BY <2>2, <2>3, <2>4, SeqEqual
    <2> QED
      BY <2>5 DEF four, more
  <1> QED
    BY <1>1, <1>2, <1>3

\* The text that says so, and no other delta than the model's words.
LEMMA MarkedAsFallback ==
    ASSUME NEW parts, \E i \in DOMAIN parts : parts[i] = Delta("text", Fallback),
           \A i \in DOMAIN parts : parts[i].is = "delta" => parts[i].says \in Words \/ parts[i] = Delta("text", Fallback),
           storedReply = NothingStored, storedReply' = storedReply, sent' = parts,
           guard'.mode = "fallback", guard'.told \in {"none", "fallback"}
    PROVE  Marked'
  BY DEF Marked, NothingStored

-----------------------------------------------------------------------------
(* Every step. *)

\* At the beginning nothing has been sent.
LEMMA ReplyBegins == ReplyInit => ReplyInv
  <1> SUFFICES ASSUME ReplyInit PROVE ReplyInv
    OBVIOUS
  <1>1. ReplyTypeOK
    BY ReplyAssumption DEF ReplyInit, ReplyTypeOK, NothingStored, ReplyModes
  <1>2. ~Streams /\ InSections(sent) /\ KeepsNotes(sent)
    BY NothingSaid DEF ReplyInit, Streams, Message
  <1>3. Marked
    BY DEF ReplyInit, Marked, NothingStored
  <1> QED
    BY <1>1, <1>2, <1>3 DEF ReplyInit, ReplyInv

\* As long as the model speaks, what was sent is in its words.
LEMMA PlainWhileModel == ASSUME ReplyInv, guard.mode = "model" PROVE Plain(sent)
  BY DEF ReplyInv, Marked, Plain

\* A stream that goes on, and a reply that is over.
LEMMA StreamGoesOn ==
    ASSUME ReplyInv, Flowing, ReplyTypeOK', Flowing', Plain(sent'), KeepsNotes(sent'),
           progress \notin {"prepared", "done"}, progress' \notin {"prepared", "done"},
           UNCHANGED <<guard, storedReply>>
    PROVE  ReplyInv'
  <1>1. storedReply = NothingStored
    BY DEF ReplyInv
  <1>2. Marked'
    BY <1>1, NotFallback DEF Marked, Flowing, Plain, Delta, NothingStored
  <1>3. InSections(sent')
    BY DEF Flowing, Message
  <1> QED
    BY <1>1, <1>2, <1>3 DEF ReplyInv, Flowing

\* A reply that ends, as a stream or not, with nothing stored yet.
LEMMA IsOver ==
    ASSUME ReplyInv, ReplyTypeOK', Marked', KeepsNotes(sent'), way' = "stream" => InSections(sent'),
           progress # "done", progress' = "over", storedReply' = storedReply
    PROVE  ReplyInv'
  BY DEF ReplyInv, Streams

\* A reply that has a model begins as a stream.
LEMMA PlanStreamKeeps == ASSUME ReplyInv, PlanStream PROVE ReplyInv'
  <1>1. ReplyTypeOK'
    BY DEF ReplyInv, ReplyTypeOK, PlanStream
  <1>2. /\ way' = "stream" /\ sent' = <<>> /\ held' = <<>> /\ scanned' = <<>> /\ open' = {} /\ holding'
        /\ guard' = [mode |-> "model", leak |-> FALSE, told |-> "none"] /\ progress' = "streaming"
        /\ storedReply' = storedReply /\ storedReply = NothingStored
    BY DEF ReplyInv, PlanStream
  <1>3. Message(sent', open') /\ KeepsNotes(sent') /\ ~Leaks(scanned')
    BY <1>2, NothingSaid DEF Leaks, Leaking
  <1>4. Waits'
    BY <1>2, ReplyAssumption DEF Waits
  <1>5. Flowing'
    BY <1>2, <1>3, <1>4 DEF Flowing
  <1>6. Marked'
    BY <1>2 DEF Marked, NothingStored
  <1> QED
    BY <1>1, <1>2, <1>3, <1>5, <1>6 DEF ReplyInv, Message

\* Without a model, the fixed reply is streamed.
LEMMA PlanFallbackKeeps == ASSUME ReplyInv, PlanFallback PROVE ReplyInv'
  <1>1. /\ storedReply = NothingStored /\ storedReply' = storedReply /\ progress # "done" /\ progress' = "over"
        /\ sent' = FallbackParts /\ guard'.mode = "fallback" /\ guard'.told = "fallback"
        /\ guard' \in [mode : ReplyModes, leak : BOOLEAN, told : ReplyModes \cup {"none"}]
    BY DEF ReplyInv, ReplyTypeOK, PlanFallback, ReplyModes
  <1>2. FallbackParts = FallbackIn(<<>>, {})
    BY MadeParts, NothingSaid, OneByOne DEF FallbackParts, FallbackIn
  <1> DEFINE parts == FallbackIn(<<>>, {})
  <1>3. /\ Message(parts, {}) /\ KeepsNotes(parts)
        /\ \E i \in DOMAIN parts : parts[i] = Delta("text", Fallback)
        /\ \A i \in DOMAIN parts : parts[i].is = "delta" => parts[i] = Delta("text", Fallback)
    BY NothingSaid, FallbackFits
  <1> HIDE DEF parts
  <1>4. Marked'
    BY <1>1, <1>2, <1>3, MarkedAsFallback DEF parts
  <1>5. ReplyTypeOK'
    BY <1>1, <1>2, <1>3 DEF ReplyInv, ReplyTypeOK, PlanFallback, Message, parts
  <1> QED
    BY <1>1, <1>2, <1>3, <1>4, <1>5, IsOver DEF Message, parts

\* What the inductive invariant says while the stream is not cut off.
LEMMA WhileStreaming ==
    ASSUME ReplyInv, Streams
    PROVE  /\ ReplyTypeOK /\ Flowing /\ KeepsNotes(sent) /\ Plain(sent) /\ storedReply = NothingStored
           /\ progress \notin {"prepared", "done"} /\ ~guard.leak
  <1>1. Flowing /\ ReplyTypeOK /\ KeepsNotes(sent) /\ progress \in {"streaming", "broken", "finishing"} /\ ~guard.leak
    BY DEF ReplyInv, Streams
  <1>2. guard.mode = "model"
    BY <1>1 DEF Flowing
  <1> QED
    BY <1>1, <1>2, PlainWhileModel DEF ReplyInv

\* A section is opened, and its start passed on.
LEMMA SectionStartsKeeps == ASSUME ReplyInv, NEW k \in Sections, SectionStarts(k) PROVE ReplyInv'
  <1>1. /\ ReplyTypeOK /\ Flowing /\ KeepsNotes(sent) /\ Plain(sent) /\ storedReply = NothingStored
        /\ progress \notin {"prepared", "done"}
    BY WhileStreaming DEF SectionStarts
  <1>2. /\ StartOf(k) \in StreamParts /\ StartOf(k).is = "start" /\ StartOf(k).of = k
        /\ \A l \in Sections : (StartOf(k) = StartOf(l) <=> k = l) /\ StartOf(k) # EndOf(l)
    BY MadeParts DEF StartOf, EndOf
  <1>3. /\ k \notin open /\ open' = open \cup {k} /\ SendNow(StartOf(k))
        /\ UNCHANGED <<way, resolved, progress, attempt, scanned, guard, storedReply>>
    BY DEF SectionStarts
  <1>4. open \subseteq Sections /\ open' \subseteq Sections
    BY <1>1, <1>3 DEF ReplyTypeOK
  <1>5. /\ Flowing' /\ KeepsNotes(sent') /\ Plain(sent')
        /\ held' \in Seq(StreamParts) /\ sent' \in Seq(StreamParts) /\ holding' \in BOOLEAN
    BY <1>1, <1>2, <1>3, <1>4, PartPasses
  <1>6. made' \in [deltas : 0 .. MaxDeltas, sections : 0 .. MaxSections]
    BY <1>1, ReplyAssumption DEF ReplyTypeOK, SectionStarts
  <1>7. ReplyTypeOK'
    BY <1>1, <1>3, <1>4, <1>5, <1>6 DEF ReplyTypeOK
  <1> QED
    BY <1>1, <1>3, <1>5, <1>7, StreamGoesOn

\* A section is closed, and its end passed on.
LEMMA SectionEndsKeeps == ASSUME ReplyInv, NEW k \in Sections, SectionEnds(k) PROVE ReplyInv'
  <1>1. /\ ReplyTypeOK /\ Flowing /\ KeepsNotes(sent) /\ Plain(sent) /\ storedReply = NothingStored
        /\ progress \notin {"prepared", "done"}
    BY WhileStreaming DEF SectionEnds
  <1>2. /\ EndOf(k) \in StreamParts /\ EndOf(k).is = "end" /\ EndOf(k).of = k
        /\ \A l \in Sections : (EndOf(k) = EndOf(l) <=> k = l) /\ EndOf(k) # StartOf(l)
    BY MadeParts DEF StartOf, EndOf
  <1>3. /\ k \in open /\ open' = open \ {k} /\ PassAfterHeld(EndOf(k))
        /\ UNCHANGED <<way, resolved, progress, attempt, scanned, guard, made, storedReply>>
    BY DEF SectionEnds, CloseSection
  <1>4. open \subseteq Sections /\ open' \subseteq Sections
    BY <1>1, <1>3 DEF ReplyTypeOK
  <1>5. /\ Flowing' /\ KeepsNotes(sent') /\ Plain(sent')
        /\ held' \in Seq(StreamParts) /\ sent' \in Seq(StreamParts) /\ holding' \in BOOLEAN
    BY <1>1, <1>2, <1>3, <1>4, PartPasses
  <1>6. ReplyTypeOK'
    BY <1>1, <1>3, <1>4, <1>5 DEF ReplyTypeOK
  <1> QED
    BY <1>1, <1>3, <1>5, <1>6, StreamGoesOn

\* An error, or the end of a step, which close no section.
LEMMA SignKeeps ==
    ASSUME ReplyInv, Streams, NEW what \in {"error", "finish-step"},
           PassAfterHeld(Sign(what)) \/ SendNow(Sign(what)),
           progress' \in {"broken", "finishing"},
           UNCHANGED <<way, resolved, attempt, open, scanned, guard, made, storedReply>>
    PROVE  ReplyInv'
  <1>1. /\ ReplyTypeOK /\ Flowing /\ KeepsNotes(sent) /\ Plain(sent) /\ storedReply = NothingStored
        /\ progress \notin {"prepared", "done"}
    BY WhileStreaming
  <1>2. /\ Sign(what) \in StreamParts /\ Sign(what).is = what
        /\ \A l \in Sections : Sign(what) # StartOf(l) /\ Sign(what) # EndOf(l)
    BY MadeParts DEF StartOf, EndOf, Sign
  <1>3. open \subseteq Sections /\ open' = open
    BY <1>1 DEF ReplyTypeOK
  <1>4. /\ Flowing' /\ KeepsNotes(sent') /\ Plain(sent')
        /\ held' \in Seq(StreamParts) /\ sent' \in Seq(StreamParts) /\ holding' \in BOOLEAN
    BY <1>1, <1>2, <1>3, PartPasses
  <1>5. ReplyTypeOK'
    BY <1>1, <1>3, <1>4 DEF ReplyTypeOK
  <1> QED
    BY <1>1, <1>4, <1>5, StreamGoesOn

\* What is held goes out before the end, and the mode is told.
LEMMA ReplyFinishesKeeps == ASSUME ReplyInv, ReplyFinishes PROVE ReplyInv'
  <1> DEFINE all == sent \o held
  <1>1. /\ ReplyTypeOK /\ Flowing /\ KeepsNotes(sent) /\ Plain(sent) /\ storedReply = NothingStored
        /\ progress \notin {"prepared", "done"}
    BY WhileStreaming DEF ReplyFinishes
  <1>2. /\ Message(all, open) /\ KeepsNotes(all) /\ Plain(all)
    BY <1>1, HeldPasses
  <1>3. /\ sent' = Append(all, Sign("finish")) /\ held' = <<>> /\ holding' = (holding /\ held = <<>>)
        /\ guard' = [guard EXCEPT !.told = guard.mode] /\ progress' = "over"
        /\ UNCHANGED <<way, resolved, attempt, open, scanned, made, storedReply>>
    BY DEF ReplyFinishes, PassAfterHeld
  <1> HIDE DEF all
  <1>4. /\ Sign("finish") \in StreamParts /\ ~OfModel(Sign("finish")) /\ Sign("finish").is # "delta"
        /\ all \in Seq(StreamParts)
    BY <1>2, MadeParts DEF Sign, OfModel, Message
  <1>5. InSections(sent') /\ KeepsNotes(sent') /\ Plain(sent') /\ sent' \in Seq(StreamParts)
    BY <1>2, <1>3, <1>4, Finished, Quiet DEF Plain
  <1>6. guard' = [mode |-> "model", leak |-> FALSE, told |-> "model"]
    BY <1>1, <1>3 DEF Flowing
  <1>7. ReplyTypeOK'
    <2>1. held' \in Seq(StreamParts) /\ holding' \in BOOLEAN
      <3>1. <<>> \in Seq(StreamParts)
        OBVIOUS
      <3>2. held' \in Seq(StreamParts)
        BY <1>3, <3>1
      <3>3. holding' \in BOOLEAN
        BY <1>3
      <3> QED
        BY <3>2, <3>3
    <2> QED
      BY <1>1, <1>3, <1>5, <1>6, <2>1 DEF ReplyTypeOK, ReplyModes
  <1>8. Marked'
    BY <1>1, <1>3, <1>5, <1>6, NotFallback DEF Marked, Plain, Delta, NothingStored
  <1> QED
    BY <1>1, <1>3, <1>5, <1>7, <1>8, IsOver

\* The stream closes: what is held goes out, unless the guard cut it off.
LEMMA StreamClosesKeeps == ASSUME ReplyInv, StreamCloses PROVE ReplyInv'
  <1>1. CASE guard.leak
    <2>1. /\ sent' = sent /\ progress' = "over" /\ progress # "done"
          /\ UNCHANGED <<way, resolved, attempt, open, scanned, held, holding, guard, made, storedReply>>
      BY <1>1 DEF StreamCloses
    <2>2. ReplyTypeOK' /\ Marked'
      BY <2>1 DEF ReplyInv, ReplyTypeOK, Marked
    <2> QED
      BY <2>1, <2>2, IsOver DEF ReplyInv
  <1>2. CASE ~guard.leak
    <2> DEFINE all == sent \o held
    <2>1. Streams
      BY <1>2 DEF StreamCloses, Streams
    <2>2. /\ ReplyTypeOK /\ Flowing /\ KeepsNotes(sent) /\ Plain(sent) /\ storedReply = NothingStored
          /\ progress \notin {"prepared", "done"}
      BY <2>1, WhileStreaming
    <2>3. Message(all, open) /\ KeepsNotes(all) /\ Plain(all)
      BY <2>2, HeldPasses
    <2>4. /\ sent' = all /\ progress' = "over"
          /\ UNCHANGED <<way, resolved, attempt, open, scanned, held, holding, guard, made, storedReply>>
      BY <1>2 DEF StreamCloses
    <2> HIDE DEF all
    <2>5. ReplyTypeOK'
      BY <2>2, <2>3, <2>4 DEF ReplyTypeOK, Message
    <2>6. Marked'
      BY <2>2, <2>3, <2>4, NotFallback DEF Marked, Plain, Delta, Flowing, NothingStored
    <2> QED
      BY <2>2, <2>3, <2>4, <2>5, <2>6, IsOver DEF Message
  <1> QED
    BY <1>1, <1>2

\* What the guard writes when it cuts the model off.
LEMMA GuardWrites ==
    ASSUME ReplyTypeOK, GuardedFallback
    PROVE  sent' = Append(Append(FallbackIn(sent, open), Sign("finish-step")), Sign("finish"))
  <1> DEFINE ended == IF "reasoning" \in open THEN Append(sent, EndOf("reasoning")) ELSE sent
             opened == IF "text" \in open THEN ended ELSE Append(ended, StartOf("text"))
             rest == <<Delta("text", Fallback), EndOf("text"), Sign("finish-step"), Sign("finish")>>
  <1>1. sent \in Seq(StreamParts) /\ EndOf("reasoning") \in StreamParts /\ StartOf("text") \in StreamParts
    BY MadeParts DEF ReplyTypeOK
  <1>2. sent \o (IF "reasoning" \in open THEN <<EndOf("reasoning")>> ELSE <<>>) = ended
    BY <1>1, OneByOne
  <1>3. ended \in Seq(StreamParts)
    BY <1>1
  <1> HIDE DEF ended
  <1>4. ended \o (IF "text" \in open THEN <<>> ELSE <<StartOf("text")>>) = opened
    BY <1>1, <1>3, OneByOne
  <1>5. opened \in Seq(StreamParts)
    BY <1>1, <1>3
  <1> HIDE DEF opened
  <1>6. opened \o rest
        = Append(Append(Append(Append(opened, Delta("text", Fallback)), EndOf("text")), Sign("finish-step")), Sign("finish"))
    BY <1>5, MadeParts, OneByOne
  <1> HIDE DEF rest
  <1>7. sent' = opened \o rest
    BY <1>2, <1>4 DEF GuardedFallback, rest
  <1> QED
    BY <1>6, <1>7 DEF FallbackIn, opened, ended

\* A word arrives: it is passed on, or what has come since leaks and the guard takes over.
LEMMA DeltaArrivesKeeps == ASSUME ReplyInv, NEW k \in Sections, NEW w \in Words, DeltaArrives(k, w) PROVE ReplyInv'
  <1>1. /\ ReplyTypeOK /\ Flowing /\ KeepsNotes(sent) /\ Plain(sent) /\ storedReply = NothingStored
        /\ progress \notin {"prepared", "done"}
    BY WhileStreaming DEF DeltaArrives
  <1>2. /\ k \in open /\ scanned' = LastWords(Append(scanned, w), ScannedDeltas)
        /\ UNCHANGED <<way, resolved, progress, attempt, storedReply>> /\ progress = "streaming"
    BY DEF DeltaArrives
  <1>3. made' \in [deltas : 0 .. MaxDeltas, sections : 0 .. MaxSections]
    <2>1. made.deltas < MaxDeltas /\ made' = [made EXCEPT !.deltas = @ + 1]
      BY DEF DeltaArrives
    <2>2. made \in [deltas : 0 .. MaxDeltas, sections : 0 .. MaxSections]
      BY <1>1 DEF ReplyTypeOK
    <2> QED
      BY <2>1, <2>2, ReplyAssumption
  <1>4. CASE ~Leaks(scanned') /\ UNCHANGED <<open, guard>>
             /\ IF ~holding THEN SendNow(Delta(k, w))
                ELSE IF Len(scanned') >= HeldDeltas
                THEN sent' = Append(sent \o held, Delta(k, w)) /\ held' = <<>> /\ holding' = FALSE
                ELSE held' = Append(held, Delta(k, w)) /\ UNCHANGED <<sent, holding>>
    <2>1. /\ Flowing' /\ KeepsNotes(sent') /\ Plain(sent')
          /\ held' \in Seq(StreamParts) /\ sent' \in Seq(StreamParts) /\ holding' \in BOOLEAN
          /\ scanned' \in Seq(Words) /\ Len(scanned') <= ScannedDeltas
      BY <1>1, <1>2, <1>4, WordPasses
    <2>2. ReplyTypeOK'
      BY <1>1, <1>2, <1>3, <1>4, <2>1 DEF ReplyTypeOK
    <2> QED
      BY <1>1, <1>2, <1>4, <2>1, <2>2, StreamGoesOn
  <1>5. CASE Leaks(scanned') /\ GuardedFallback
    <2> DEFINE parts == FallbackIn(sent, open)
    <2>1. sent' = Append(Append(parts, Sign("finish-step")), Sign("finish"))
      BY <1>1, <1>5, GuardWrites
    <2>2. /\ Message(parts, {}) /\ KeepsNotes(parts)
          /\ \E i \in DOMAIN parts : parts[i] = Delta("text", Fallback)
          /\ \A i \in DOMAIN parts : parts[i].is = "delta" =>
                parts[i] = Delta("text", Fallback) \/ \E n \in DOMAIN sent : parts[i] = sent[n]
      BY <1>1, FallbackFits DEF Flowing
    <2> HIDE DEF parts
    <2>3. \A i \in DOMAIN parts : parts[i].is = "delta" => parts[i].says \in Words \/ parts[i] = Delta("text", Fallback)
      BY <1>1, <2>2 DEF Plain
    <2>4. \A what \in {"finish-step", "finish"} :
            /\ Sign(what) \in StreamParts /\ Sign(what).is = what /\ ~OfModel(Sign(what))
            /\ \A l \in Sections : Sign(what) # StartOf(l) /\ Sign(what) # EndOf(l)
      BY MadeParts DEF StartOf, EndOf, Sign, OfModel
    <2> DEFINE stepped == Append(parts, Sign("finish-step"))
    <2>5. Message(stepped, {}) /\ KeepsNotes(stepped) /\ stepped \in Seq(StreamParts) /\ parts \in Seq(StreamParts)
      <3>1. Message(stepped, {})
        BY <2>2, <2>4, Grow
      <3> QED
        BY <2>2, <2>4, <3>1, Quiet DEF Message
    <2>6. /\ \E i \in DOMAIN stepped : stepped[i] = Delta("text", Fallback)
          /\ \A i \in DOMAIN stepped :
                stepped[i].is = "delta" => stepped[i].says \in Words \/ stepped[i] = Delta("text", Fallback)
      BY <2>2, <2>3, <2>4, <2>5
    <2> HIDE DEF stepped
    <2>7. sent' = Append(stepped, Sign("finish"))
      BY <2>1 DEF stepped
    <2>8. InSections(sent') /\ KeepsNotes(sent') /\ sent' \in Seq(StreamParts)
      BY <2>4, <2>5, <2>7, Finished, Quiet
    <2>9. /\ \E i \in DOMAIN sent' : sent'[i] = Delta("text", Fallback)
          /\ \A i \in DOMAIN sent' :
                sent'[i].is = "delta" => sent'[i].says \in Words \/ sent'[i] = Delta("text", Fallback)
      BY <2>4, <2>5, <2>6, <2>7
    <2>10. /\ guard' = [mode |-> "fallback", leak |-> TRUE, told |-> "fallback"]
           /\ open' = open \ {"reasoning"} /\ UNCHANGED <<held, holding>>
      BY <1>5 DEF GuardedFallback
    <2>11. Marked'
      BY <1>1, <1>2, <2>9, <2>10, MarkedAsFallback
    <2>12. scanned' \in Seq(Words) /\ Len(scanned') <= ScannedDeltas
      <3>1. /\ scanned' \in Seq(Words)
            /\ Len(scanned) < ScannedDeltas => Len(scanned') = Len(scanned) + 1
            /\ Len(scanned) = ScannedDeltas => Len(scanned') = Len(scanned)
        BY <1>1, <1>2, LastWordsOf DEF ReplyTypeOK
      <3>2. /\ Len(scanned) \in Nat /\ Len(scanned') \in Nat
            /\ Len(scanned) = ScannedDeltas \/ Len(scanned) < ScannedDeltas
        BY <1>1, <3>1, ReplyAssumption DEF ReplyTypeOK
      <3>3. CASE Len(scanned) = ScannedDeltas
        BY <3>1, <3>2, <3>3
      <3>4. CASE Len(scanned) < ScannedDeltas
        <4>1. Len(scanned') = Len(scanned) + 1
          BY <3>1, <3>4
        <4> QED
          BY <3>1, <3>2, <3>4, <4>1, ReplyAssumption
      <3> QED
        BY <3>1, <3>2, <3>3, <3>4
    <2>13. ReplyTypeOK'
      BY <1>1, <1>2, <1>3, <2>8, <2>10, <2>12 DEF ReplyTypeOK, ReplyModes
    <2> QED
      BY <1>1, <1>2, <2>8, <2>10, <2>11, <2>13 DEF ReplyInv, Streams
  <1> QED
    BY <1>4, <1>5 DEF DeltaArrives

\* An attempt gives a text that is replied as a whole.
LEMMA DraftKeeps == ASSUME ReplyInv, NEW words \in Drafts, Draft(words) PROVE ReplyInv'
  <1>1. words \in Seq(Words) /\ DOMAIN words = 1 .. Len(words) /\ Len(words) \in Nat
    <2>1. PICK n \in 0 .. 2 : words \in [1 .. n -> Words]
      BY DEF Drafts
    <2> QED
      BY <2>1
  <1>2. /\ ~Leaks(words) /\ sent' = [i \in DOMAIN words |-> Delta("text", words[i])]
        /\ way' = "whole" /\ progress = "prepared" /\ progress' = "over" /\ storedReply' = storedReply
        /\ UNCHANGED <<way, resolved, attempt, open, scanned, held, holding, guard, made>>
    BY DEF Draft
  <1>3. /\ guard = [mode |-> "model", leak |-> FALSE, told |-> "none"] /\ storedReply = NothingStored
    BY <1>2 DEF ReplyInv
  <1>4. /\ sent' \in Seq(StreamParts) /\ DOMAIN sent' = DOMAIN words
        /\ \A i \in DOMAIN sent' : sent'[i].is = "delta" /\ sent'[i].says = words[i] /\ words[i] \in Words
    <2>1. \A i \in 1 .. Len(words) : Delta("text", words[i]) \in StreamParts
      BY <1>1, MadeParts
    <2>2. sent' = [i \in 1 .. Len(words) |-> Delta("text", words[i])]
      BY <1>1, <1>2
    <2> QED
      BY <1>1, <2>1, <2>2 DEF Delta
  <1>5. KeepsNotes(sent')
    <2> SUFFICES ASSUME NEW i \in DOMAIN sent', NEW k \in DOMAIN sent'
                 PROVE  ~Leaking({sent'[n].says : n \in Said(sent', i, k)})
      BY DEF KeepsNotes
    <2>1. {sent'[n].says : n \in Said(sent', i, k)} \subseteq {words[m] : m \in DOMAIN words}
      BY <1>1, <1>4 DEF Said
    <2> QED
      BY <1>2, <2>1, Fewer DEF Leaks
  <1>6. Marked'
    BY <1>2, <1>3, <1>4, NotFallback DEF Marked, Delta, NothingStored
  <1>7. ReplyTypeOK'
    BY <1>2, <1>4 DEF ReplyInv, ReplyTypeOK
  <1> QED
    BY <1>2, <1>5, <1>6, <1>7, IsOver

\* An attempt in vain is made once more.
LEMMA DraftAgainKeeps == ASSUME ReplyInv, NEW words \in Drafts, DraftAgain(words) PROVE ReplyInv'
  <1>1. /\ progress = "prepared" /\ attempt' = 2
        /\ UNCHANGED <<way, resolved, progress, open, scanned, held, holding, guard, sent, made, storedReply>>
    BY DEF DraftAgain
  <1>2. ReplyTypeOK' /\ Marked'
    BY <1>1 DEF ReplyInv, ReplyTypeOK, Marked
  <1> QED
    BY <1>1, <1>2 DEF ReplyInv, Streams

\* Without a text, the fixed reply is replied as a whole.
LEMMA NoDraftKeeps == ASSUME ReplyInv, NoDraft PROVE ReplyInv'
  <1>1. /\ way' = "whole" /\ progress = "prepared" /\ progress' = "over" /\ storedReply' = storedReply
        /\ sent' = <<Delta("text", Fallback)>> /\ guard' = [guard EXCEPT !.mode = "fallback"]
        /\ UNCHANGED <<way, resolved, attempt, open, scanned, held, holding, made>>
    BY DEF NoDraft
  <1>2. /\ storedReply = NothingStored /\ guard' = [mode |-> "fallback", leak |-> FALSE, told |-> "none"]
    <2>1. storedReply = NothingStored /\ guard = [mode |-> "model", leak |-> FALSE, told |-> "none"]
      BY <1>1 DEF ReplyInv
    <2> QED
      BY <1>1, <2>1
  <1>3. sent' = Append(<<>>, Delta("text", Fallback)) /\ Delta("text", Fallback) \in StreamParts
    BY <1>1, MadeParts
  <1>4. KeepsNotes(sent') /\ sent' \in Seq(StreamParts)
    <2>1. ~OfModel(Delta("text", Fallback))
      BY DEF OfModel, Delta
    <2>2. KeepsNotes(Append(<<>>, Delta("text", Fallback)))
      BY <1>3, <2>1, NothingSaid, Quiet
    <2> QED
      BY <1>3, <2>2, NothingSaid
  <1>5. Marked'
    <2>1. DOMAIN sent' = {1} /\ sent'[1] = Delta("text", Fallback)
      BY <1>1
    <2> QED
      BY <1>1, <1>2, <2>1, MarkedAsFallback
  <1>6. ReplyTypeOK'
    BY <1>1, <1>2, <1>4 DEF ReplyInv, ReplyTypeOK, ReplyModes
  <1> QED
    BY <1>1, <1>4, <1>5, <1>6, IsOver

\* The reply is stored as what was sent, or drafted.
LEMMA StoreReplyKeeps == ASSUME ReplyInv, StoreReply PROVE ReplyInv'
  <1>1. /\ progress = "over" /\ progress' = "done" /\ storedReply = NothingStored
        /\ storedReply' = NothingStored \/ storedReply' = [mode |-> guard.mode, says |-> TextOf(sent)]
        /\ UNCHANGED <<way, resolved, attempt, open, scanned, held, holding, guard, sent, made>>
    BY DEF ReplyInv, StoreReply
  <1>2. TextOf(sent) \subseteq Words \cup {Fallback}
    BY DEF ReplyInv, Marked, TextOf, Delta
  <1>3. ReplyTypeOK'
    BY <1>1, <1>2 DEF ReplyInv, ReplyTypeOK, NothingStored
  <1>4. Marked'
    BY <1>1 DEF ReplyInv, Marked, NothingStored
  <1> QED
    BY <1>1, <1>3, <1>4 DEF ReplyInv, Streams

\* Every step of a reply keeps the invariant.
LEMMA ReplyStepKeeps == ReplyInv /\ [ReplyNext]_replyVars => ReplyInv'
  <1> SUFFICES ASSUME ReplyInv, [ReplyNext]_replyVars PROVE ReplyInv'
    OBVIOUS
  <1>1. CASE PlanStream
    BY <1>1, PlanStreamKeeps
  <1>2. CASE PlanFallback
    BY <1>2, PlanFallbackKeeps
  <1>3. CASE \E k \in Sections : SectionStarts(k)
    BY <1>3, SectionStartsKeeps
  <1>4. CASE \E k \in Sections : SectionEnds(k)
    BY <1>4, SectionEndsKeeps
  <1>5. CASE \E k \in Sections : \E w \in Words : DeltaArrives(k, w)
    BY <1>5, DeltaArrivesKeeps
  <1>6. CASE ProviderBreaks
    BY <1>6, SignKeeps DEF ProviderBreaks
  <1>7. CASE StepFinishes
    BY <1>7, SignKeeps DEF StepFinishes
  <1>8. CASE ReplyFinishes
    BY <1>8, ReplyFinishesKeeps
  <1>9. CASE StreamCloses
    BY <1>9, StreamClosesKeeps
  <1>10. CASE \E words \in Drafts : Draft(words) \/ DraftAgain(words)
    BY <1>10, DraftKeeps, DraftAgainKeeps
  <1>11. CASE NoDraft
    BY <1>11, NoDraftKeeps
  <1>12. CASE StoreReply
    BY <1>12, StoreReplyKeeps
  <1>13. CASE UNCHANGED replyVars
    BY <1>13 DEF ReplyInv, ReplyTypeOK, Streams, Flowing, Waits, Passed, Marked, replyVars
  <1> QED
    BY <1>1, <1>2, <1>3, <1>4, <1>5, <1>6, <1>7, <1>8, <1>9, <1>10, <1>11, <1>12, <1>13 DEF ReplyNext

\* The invariant says what the runs check.
LEMMA ReplyInvHolds == ReplyInv => ReplyHolds
  <1> SUFFICES ASSUME ReplyInv PROVE ReplyHolds
    OBVIOUS
  <1>1. ASSUME storedReply.mode # "none"
        PROVE  /\ storedReply.mode = "fallback" <=> Fallback \in storedReply.says
               /\ guard.told \in {"none", storedReply.mode}
    <2>1. /\ storedReply.mode = guard.mode /\ storedReply.says = TextOf(sent)
      BY <1>1 DEF ReplyInv, Marked
    <2>2. Fallback \in TextOf(sent) <=> \E i \in DOMAIN sent : sent[i] = Delta("text", Fallback)
      BY NotFallback DEF ReplyInv, Marked, TextOf, Delta
    <2> QED
      BY <2>1, <2>2 DEF ReplyInv, Marked
  <1> QED
    BY <1>1 DEF ReplyInv, ReplyHolds

\* However the guard's buffer, the sections, an error and the end of a stream follow each other,
\* for every size of the buffer and of what the guard looks back on: the browser can read what it
\* is sent, the model's words in it do not look like the notes within that many, and a stored reply
\* is marked as the fallback if and only if it has it.
THEOREM RepliesHold == ReplySpec => []ReplyHolds
  <1>1. ReplySpec => []ReplyInv
    BY ReplyBegins, ReplyStepKeeps, PTL DEF ReplySpec
  <1> QED
    BY <1>1, ReplyInvHolds, PTL

-----------------------------------------------------------------------------
(* The agent's passes over a job. *)

\* The kinds of what approvals go through, without the limits on how often.
AnyMessages == [begun : BOOLEAN, notes : Nat, asked : SUBSET Asks, answered : SUBSET Asks]
AnyPass == [at : {"none", "answers", "model", "rows", "save"}, messages : AnyMessages,
            approved : SUBSET Asks, denied : SUBSET Asks, steps : Nat,
            clean : BOOLEAN, new : SUBSET Asks, rows : SUBSET Asks]
PassKinds ==
    /\ stored \in [WorkSteps -> AnyMessages]
    /\ row \in [Asks -> {"none", "pending", "satisfied", "rejected"}]
    /\ call \in [Asks -> [step : WorkSteps \cup {"none"}, may : SUBSET BOOLEAN]]
    /\ job \in WorkSteps \cup {"verified", "blocked"}
    /\ round \in Nat /\ pass \in AnyPass
    /\ ran \subseteq Asks /\ agreed \subseteq Asks /\ turnedDown \subseteq Asks

\* A call has a row only after it was made, and the pass that made it writes it once.
RowsFollowCalls == \A i \in Asks : row[i] # "none" => call[i].step # "none"
RowsToWrite == \A i \in pass.rows : row[i] = "none" /\ call[i].step # "none"

\* What a row says is approved was approved, and so was what a pass was given, and what was run.
RowsAgreed == \A i \in Asks : row[i] = "satisfied" => i \in agreed
GivenAgreed == pass.approved \subseteq agreed
RanAgreed == ran \subseteq agreed
AllAgreed == RowsAgreed /\ GivenAgreed /\ RanAgreed

\* A pass is one of a step that has passes.
PassAtWork == pass.at # "none" => job \in WorkSteps

PassInv == PassKinds /\ PassAtWork /\ RowsFollowCalls /\ RowsToWrite /\ AllAgreed

\* No pass is a pass that was given nothing and has nothing to write.
LEMMA NoPassIsPass ==
    /\ NoMessages \in AnyMessages /\ NoPass \in AnyPass
    /\ NoPass.at = "none" /\ NoPass.rows = {} /\ NoPass.approved = {}
  BY DEF NoPass, NoMessages, AnyPass, AnyMessages

\* A job begins with no call made and no pass under way.
LEMMA PassInitial == PassInit => PassInv
  <1> SUFFICES ASSUME PassInit PROVE PassInv
    OBVIOUS
  <1>1. PassKinds
    <2>1. stored \in [WorkSteps -> AnyMessages] /\ pass \in AnyPass
      BY NoPassIsPass DEF PassInit
    <2>2. row \in [Asks -> {"none", "pending", "satisfied", "rejected"}]
      BY DEF PassInit
    <2>3. call \in [Asks -> [step : WorkSteps \cup {"none"}, may : SUBSET BOOLEAN]]
      BY DEF PassInit
    <2> QED
      BY <2>1, <2>2, <2>3 DEF PassInit, PassKinds, WorkSteps
  <1>2. RowsFollowCalls
    BY DEF PassInit, RowsFollowCalls
  <1>3. RowsToWrite /\ AllAgreed /\ PassAtWork
    BY NoPassIsPass DEF PassInit, RowsToWrite, AllAgreed, RowsAgreed, GivenAgreed, RanAgreed, PassAtWork
  <1> QED
    BY <1>1, <1>2, <1>3 DEF PassInv

\* A pass that ends, however, leaves nothing given and nothing to write.
LEMMA PassEnds ==
    ASSUME PassInv, pass' = NoPass, UNCHANGED <<row, call, histories>>,
           stored' \in [WorkSteps -> AnyMessages], round' \in Nat,
           job' \in WorkSteps \cup {"verified", "blocked"}
    PROVE  PassInv'
  <1>1. PassKinds'
    BY NoPassIsPass DEF PassInv, PassKinds, histories
  <1>2. RowsFollowCalls'
    BY DEF PassInv, RowsFollowCalls
  <1>3. RowsToWrite' /\ AllAgreed' /\ PassAtWork'
    BY NoPassIsPass DEF PassInv, RowsToWrite, AllAgreed, RowsAgreed, GivenAgreed, RanAgreed, PassAtWork, histories
  <1> QED
    BY <1>1, <1>2, <1>3 DEF PassInv

\* A pass is given the decisions there are on the calls of its step.
LEMMA BeginKeeps == PassInv /\ BeginPass => PassInv'
  <1> SUFFICES ASSUME PassInv, BeginPass PROVE PassInv'
    OBVIOUS
  <1> USE DEF PassInv
  <1>1. UNCHANGED <<stored, row, call, job, round, ran, agreed, turnedDown>>
    BY DEF BeginPass, settings, counts, histories
  <1>2. job \in WorkSteps
    BY DEF BeginPass
  <1>3. pass' \in AnyPass /\ pass'.rows = {} /\ \A i \in pass'.approved : i \in Asks /\ row[i] = "satisfied"
    <2>1. CASE stored[job].begun
      <3>1. pass' = [NoPass EXCEPT !.at = "answers", !.messages = stored[job],
                                   !.approved = Approved(job), !.denied = Denied(job)]
        BY <2>1 DEF BeginPass
      <3>2. stored[job] \in AnyMessages
        BY <1>2 DEF PassKinds
      <3>3. Approved(job) \subseteq Asks /\ Denied(job) \subseteq Asks
        BY DEF Approved, Denied, RowsOf
      <3>4. \A i \in Approved(job) : row[i] = "satisfied"
        BY DEF Approved, RowsOf
      <3> HIDE DEF PassInv
      <3> QED
        BY <3>1, <3>2, <3>3, <3>4 DEF NoPass, AnyPass
    <2>2. CASE ~stored[job].begun
      <3> DEFINE fresh == [NoMessages EXCEPT !.begun = TRUE, !.notes = IF job = "implement" THEN round ELSE 0]
      <3>1. pass' = [NoPass EXCEPT !.at = "answers", !.messages = fresh]
        BY <2>2 DEF BeginPass
      <3>2. fresh \in AnyMessages
        BY DEF PassKinds, NoMessages, AnyMessages
      <3> HIDE DEF PassInv, fresh
      <3> QED
        BY <3>1, <3>2 DEF NoPass, AnyPass
    <2> QED
      BY <2>1, <2>2
  <1>4. PassKinds'
    BY <1>1, <1>3 DEF PassKinds
  <1> QED
    BY <1>1, <1>2, <1>3, <1>4 DEF PassAtWork, RowsFollowCalls, RowsToWrite, AllAgreed, RowsAgreed, GivenAgreed, RanAgreed

\* What runs when the decisions are answered was given as approved.
LEMMA AnswerKeeps == PassInv /\ AnswerApprovals => PassInv'
  <1> SUFFICES ASSUME PassInv, AnswerApprovals PROVE PassInv'
    OBVIOUS
  <1> USE DEF PassInv
  <1> DEFINE decided == pass.approved \cup pass.denied
             due == pass.approved \ pass.messages.answered
  <1>1. UNCHANGED <<stored, row, call, job, round, agreed>>
    BY DEF AnswerApprovals, settings, counts
  <1>2. job \in WorkSteps
    BY DEF AnswerApprovals, PassAtWork
  <1>3. CASE decided \subseteq pass.messages.asked
    <2>1. ran' = ran \cup due /\ turnedDown' = turnedDown \cup (pass.denied \ pass.messages.answered)
      BY <1>3 DEF AnswerApprovals
    <2>2. PICK clean \in {TRUE} \cup Results({call[i].may : i \in due}) :
             pass' = [pass EXCEPT !.at = "model", !.clean = clean, !.messages.answered = @ \cup decided]
      BY <1>3 DEF AnswerApprovals
    <2>3. clean \in BOOLEAN
      BY <2>2 DEF Results
    <2>4. PICK old \in AnyPass : old = pass
      BY DEF PassKinds
    <2>5. PICK said \in AnyMessages : said = old.messages
      BY <2>4 DEF AnyPass
    <2>6. old.approved \subseteq Asks /\ old.denied \subseteq Asks
      BY <2>4 DEF AnyPass
    <2>7. PICK says \in AnyMessages : says = [said EXCEPT !.answered = @ \cup decided]
      BY <2>4, <2>5, <2>6 DEF AnyMessages
    <2>8. pass' = [old EXCEPT !.at = "model", !.clean = clean, !.messages = says]
      BY <2>2, <2>4, <2>5, <2>7
    <2>9. pass' \in AnyPass /\ pass'.rows = pass.rows /\ pass'.approved = pass.approved
      <3> HIDE DEF PassInv, decided, due
      <3> QED
        BY <2>3, <2>4, <2>7, <2>8 DEF AnyPass
    <2>10. ran' \subseteq Asks /\ turnedDown' \subseteq Asks /\ ran' \subseteq agreed
      BY <2>1, <2>4, <2>6 DEF PassKinds, AllAgreed, GivenAgreed, RanAgreed
    <2>11. PassKinds'
      BY <1>1, <2>9, <2>10 DEF PassKinds
    <2> QED
      BY <1>1, <1>2, <2>9, <2>10, <2>11 DEF PassAtWork, RowsFollowCalls, RowsToWrite, AllAgreed, RowsAgreed, GivenAgreed, RanAgreed
  <1>4. CASE ~(decided \subseteq pass.messages.asked)
    <2>1. pass' = NoPass /\ UNCHANGED histories
      BY <1>4 DEF AnswerApprovals, histories
    <2> QED
      BY <1>1, <2>1, PassEnds DEF PassKinds
  <1> QED
    BY <1>3, <1>4

\* The model's steps run nothing that asks; a call that does was never decided before.
LEMMA ModelKeeps == PassInv /\ ModelStep => PassInv'
  <1> SUFFICES ASSUME PassInv, ModelStep PROVE PassInv'
    OBVIOUS
  <1> USE DEF PassInv
  <1>1. UNCHANGED <<stored, row, job, round, ran, agreed, turnedDown>>
    BY DEF ModelStep, settings, counts, histories
  <1>2. PICK old \in AnyPass : old = pass
    BY DEF PassKinds
  <1>3. job \in WorkSteps
    BY DEF ModelStep, PassAtWork
  <1>4. ASSUME call' = call, pass' \in AnyPass, pass'.rows = pass.rows, pass'.approved = pass.approved
        PROVE  PassInv'
    <2>1. PassKinds'
      BY <1>1, <1>4 DEF PassKinds
    <2> QED
      BY <1>1, <1>4, <1>3, <2>1 DEF PassAtWork, RowsFollowCalls, RowsToWrite, AllAgreed, RowsAgreed, GivenAgreed, RanAgreed
  <1>5. CASE pass' = [pass EXCEPT !.at = "rows"] /\ UNCHANGED call
    <2>1. pass' \in AnyPass /\ pass'.rows = pass.rows /\ pass'.approved = pass.approved
      BY <1>2, <1>5 DEF AnyPass
    <2> QED
      BY <1>4, <1>5, <2>1
  <1>6. ASSUME NEW free, NEW clean \in Results({free}), call' = call,
               pass' = [pass EXCEPT !.steps = pass.steps + 1, !.clean = @ /\ clean,
                                    !.at = IF pass.steps + 1 = MaxAgentSteps THEN "rows" ELSE @]
        PROVE  PassInv'
    <2>1. clean \in BOOLEAN
      BY <1>6 DEF Results
    <2>2. PICK good \in BOOLEAN : good = (old.clean /\ clean)
      BY <1>2, <2>1 DEF AnyPass
    <2>3. PICK at \in {"none", "answers", "model", "rows", "save"} :
             at = IF old.steps + 1 = MaxAgentSteps THEN "rows" ELSE old.at
      BY <1>2 DEF AnyPass
    <2>4. old.steps + 1 \in Nat
      BY <1>2 DEF AnyPass
    <2>5. pass' = [old EXCEPT !.steps = old.steps + 1, !.clean = good, !.at = at]
      BY <1>2, <1>6, <2>2, <2>3
    <2>6. pass' \in AnyPass /\ pass'.rows = old.rows /\ pass'.approved = old.approved
      <3> HIDE DEF PassInv
      <3> QED
        BY <2>2, <2>3, <2>4, <2>5 DEF AnyPass
    <2> QED
      BY <1>2, <1>4, <1>6, <2>6
  <1>7. ASSUME NEW free, NEW new \in NewAsks, NEW asking \in [new -> SUBSET BOOLEAN], NEW clean \in Results({free}),
               call' = [i \in Asks |-> IF i \in new THEN [step |-> job, may |-> asking[i]] ELSE call[i]],
               pass' = [pass EXCEPT !.at = "rows", !.steps = @ + 1, !.clean = @ /\ clean,
                           !.messages.asked = @ \cup new, !.new = @ \cup new, !.rows = @ \cup new]
        PROVE  PassInv'
    <2>1. clean \in BOOLEAN /\ new \in SUBSET Asks /\ \A i \in new : call[i].step = "none" /\ row[i] = "none"
      BY <1>7 DEF Results, NewAsks, Unasked, RowsFollowCalls
    <2>2. PICK good \in BOOLEAN : good = (old.clean /\ clean)
      BY <1>2, <2>1 DEF AnyPass
    <2>3. PICK said \in AnyMessages : said = old.messages
      BY <1>2 DEF AnyPass
    <2>4. PICK says \in AnyMessages : says = [said EXCEPT !.asked = @ \cup new]
      BY <2>1, <2>3 DEF AnyMessages
    <2>5. old.steps + 1 \in Nat /\ old.new \cup new \in SUBSET Asks /\ old.rows \cup new \in SUBSET Asks
      <3>1. old.steps \in Nat /\ old.new \subseteq Asks /\ old.rows \subseteq Asks
        BY DEF AnyPass
      <3> QED
        BY <2>1, <3>1
    <2>6. PICK steps \in Nat : steps = old.steps + 1
      BY <2>5
    <2>7. PICK news \in SUBSET Asks : news = old.new \cup new
      BY <2>5
    <2>8. PICK rows \in SUBSET Asks : rows = old.rows \cup new
      BY <2>5
    <2>9. pass' = [old EXCEPT !.at = "rows", !.steps = steps, !.clean = good, !.messages = says,
                              !.new = news, !.rows = rows]
      BY <1>2, <1>7, <2>2, <2>3, <2>4, <2>6, <2>7, <2>8
    <2>10. pass' \in AnyPass /\ pass'.rows = rows /\ pass'.approved = old.approved
      <3> HIDE DEF PassInv
      <3> QED
        BY <2>9 DEF AnyPass
    <2>11. call' \in [Asks -> [step : WorkSteps \cup {"none"}, may : SUBSET BOOLEAN]]
      BY <1>7, <1>3, <2>1 DEF PassKinds
    <2>12. \A j \in Asks : call'[j].step # "none" <=> call[j].step # "none" \/ j \in new
      BY <1>7, <1>3, <2>1 DEF PassKinds, WorkSteps
    <2>13. PassKinds'
      BY <1>1, <2>10, <2>11 DEF PassKinds
    <2>14. RowsFollowCalls'
      BY <1>1, <2>12 DEF RowsFollowCalls
    <2>15. RowsToWrite'
      <3>1. old.rows \subseteq Asks
        BY <1>2 DEF AnyPass
      <3> QED
        BY <1>1, <1>2, <2>1, <2>10, <2>12, <2>8, <3>1 DEF RowsToWrite
    <2> QED
      BY <1>1, <1>2, <1>3, <2>10, <2>13, <2>14, <2>15 DEF PassAtWork, AllAgreed, RowsAgreed, GivenAgreed, RanAgreed
  <1>8. CASE \E free \in FreeCalls(job), new \in NewAsks :
                \E asking \in [new -> AskingCalls(job)], clean \in Results({free}) :
                   /\ call' = [i \in Asks |-> IF i \in new THEN [step |-> job, may |-> asking[i]] ELSE call[i]]
                   /\ pass' = [pass EXCEPT !.at = "rows", !.steps = @ + 1, !.clean = @ /\ clean,
                                   !.messages.asked = @ \cup new, !.new = @ \cup new, !.rows = @ \cup new]
    <2>1. AskingCalls(job) \subseteq SUBSET BOOLEAN
      BY DEF AskingCalls, Ends, RunCommand, Probe
    <2>2. \A new \in NewAsks : [new -> AskingCalls(job)] \subseteq [new -> SUBSET BOOLEAN]
      BY <2>1
    <2>3. PICK free \in FreeCalls(job), new \in NewAsks :
             \E asking \in [new -> AskingCalls(job)], clean \in Results({free}) :
                /\ call' = [i \in Asks |-> IF i \in new THEN [step |-> job, may |-> asking[i]] ELSE call[i]]
                /\ pass' = [pass EXCEPT !.at = "rows", !.steps = @ + 1, !.clean = @ /\ clean,
                                !.messages.asked = @ \cup new, !.new = @ \cup new, !.rows = @ \cup new]
      BY <1>8
    <2>4. PICK asking \in [new -> AskingCalls(job)], clean \in Results({free}) :
             /\ call' = [i \in Asks |-> IF i \in new THEN [step |-> job, may |-> asking[i]] ELSE call[i]]
             /\ pass' = [pass EXCEPT !.at = "rows", !.steps = @ + 1, !.clean = @ /\ clean,
                             !.messages.asked = @ \cup new, !.new = @ \cup new, !.rows = @ \cup new]
      BY <2>3
    <2>5. asking \in [new -> SUBSET BOOLEAN]
      BY <2>2
    <2> QED
      BY <1>7, <2>4, <2>5
  <1>9. CASE \E free \in FreeCalls(job) : \E clean \in Results({free}) :
                LET steps == pass.steps + 1
                IN  /\ pass' = [pass EXCEPT !.steps = steps, !.clean = @ /\ clean,
                                            !.at = IF steps = MaxAgentSteps THEN "rows" ELSE @]
                    /\ UNCHANGED call
    BY <1>6, <1>9
  <1> QED
    BY <1>5, <1>8, <1>9 DEF ModelStep

\* A request is recorded once, in a row that no decision has touched.
LEMMA RecordKeeps == PassInv /\ RecordRequest => PassInv'
  <1> SUFFICES ASSUME PassInv, RecordRequest PROVE PassInv'
    OBVIOUS
  <1> USE DEF PassInv
  <1>1. UNCHANGED <<stored, call, job, round, ran, agreed, turnedDown>> /\ job \in WorkSteps
    BY DEF RecordRequest, settings, counts, histories, PassAtWork
  <1>2. PICK old \in AnyPass : old = pass
    BY DEF PassKinds
  <1>3. CASE pass' = [pass EXCEPT !.at = "save"] /\ UNCHANGED row
    <2>1. pass' \in AnyPass /\ pass'.rows = pass.rows /\ pass'.approved = pass.approved
      BY <1>2, <1>3 DEF AnyPass
    <2>2. PassKinds'
      BY <1>1, <1>3, <2>1 DEF PassKinds
    <2> QED
      BY <1>1, <1>3, <2>1, <2>2 DEF PassAtWork, RowsFollowCalls, RowsToWrite, AllAgreed, RowsAgreed, GivenAgreed, RanAgreed
  <1>4. ASSUME NEW i \in pass.rows, row' = [row EXCEPT ![i] = "pending"],
               pass' = [pass EXCEPT !.rows = @ \ {i}]
        PROVE  PassInv'
    <2>1. i \in Asks /\ row[i] = "none" /\ call[i].step # "none"
      BY <1>2, <1>4 DEF AnyPass, RowsToWrite
    <2>2. PICK rows \in SUBSET Asks : rows = old.rows \ {i}
      BY <1>2 DEF AnyPass
    <2>3. pass' = [old EXCEPT !.rows = rows]
      BY <1>2, <1>4, <2>2
    <2>4. pass' \in AnyPass /\ pass'.rows = rows /\ pass'.approved = old.approved
      <3> HIDE DEF PassInv
      <3> QED
        BY <2>3 DEF AnyPass
    <2>5. row' \in [Asks -> {"none", "pending", "satisfied", "rejected"}]
      BY <1>4, <2>1 DEF PassKinds
    <2>6. row'[i] = "pending" /\ \A j \in Asks : j # i => row'[j] = row[j]
      BY <1>4, <2>1 DEF PassKinds
    <2>7. PassKinds'
      BY <1>1, <2>4, <2>5 DEF PassKinds
    <2>8. RowsFollowCalls' /\ RowsToWrite'
      BY <1>1, <1>2, <2>1, <2>2, <2>4, <2>6 DEF RowsFollowCalls, RowsToWrite
    <2>9. AllAgreed'
      BY <1>1, <1>2, <2>1, <2>4, <2>6 DEF AllAgreed, RowsAgreed, GivenAgreed, RanAgreed
    <2> QED
      BY <1>1, <2>7, <2>8, <2>9 DEF PassAtWork
  <1> QED
    BY <1>3, <1>4 DEF RecordRequest

\* A pass that ends as it should is stored as it is.
LEMMA SaveKeeps == PassInv /\ SavePass => PassInv'
  <1> SUFFICES ASSUME PassInv, SavePass PROVE PassInv'
    OBVIOUS
  <1> USE DEF PassInv
  <1>1. UNCHANGED <<row, call, histories>> /\ pass' = NoPass
    BY DEF SavePass, settings
  <1>2. PICK messages \in AnyMessages : messages = pass.messages
    BY DEF PassKinds, AnyPass
  <1>3. stored' \in [WorkSteps -> AnyMessages]
    <2>1. stored' = [stored EXCEPT ![job] = messages]
      BY <1>2 DEF SavePass
    <2> QED
      BY <2>1 DEF PassKinds
  <1>4. round' \in Nat
    <2>1. round' = IF job = "verify" /\ pass.new = {} /\ ~pass.clean THEN round + 1 ELSE round
      BY DEF SavePass
    <2> QED
      BY <2>1 DEF PassKinds
  <1>5. job' \in WorkSteps \cup {"verified", "blocked"}
    BY DEF SavePass, PassKinds, WorkSteps
  <1> QED
    BY <1>1, <1>3, <1>4, <1>5, PassEnds

\* A decision is of a request that was recorded; to approve it is noted.
LEMMA DecideKeeps == ASSUME PassInv, NEW i \in Asks, DecideCall(i) PROVE PassInv'
  <1> USE DEF PassInv
  <1>1. UNCHANGED <<stored, call, job, round, pass, ran, turnedDown>> /\ row[i] # "none"
    BY DEF DecideCall, settings, counts
  <1>2. PICK s \in {"satisfied", "rejected"} :
           row' = [row EXCEPT ![i] = s] /\ agreed' = IF s = "satisfied" THEN agreed \cup {i} ELSE agreed
    BY DEF DecideCall
  <1>3. row' \in [Asks -> {"none", "pending", "satisfied", "rejected"}] /\ agreed' \subseteq Asks
    BY <1>2 DEF PassKinds
  <1>4. row'[i] = s /\ \A j \in Asks : j # i => row'[j] = row[j]
    BY <1>2 DEF PassKinds
  <1>5. PassKinds'
    BY <1>1, <1>3 DEF PassKinds
  <1>6. pass.rows \subseteq Asks
    BY DEF PassKinds, AnyPass
  <1>7. RowsFollowCalls' /\ RowsToWrite'
    BY <1>1, <1>4, <1>6 DEF RowsFollowCalls, RowsToWrite
  <1>8. AllAgreed' /\ PassAtWork'
    BY <1>1, <1>2, <1>4 DEF AllAgreed, RowsAgreed, GivenAgreed, RanAgreed, PassAtWork
  <1> QED
    BY <1>5, <1>7, <1>8

\* Every step of a job's passes keeps the invariant.
LEMMA PassKept == PassInv /\ [PassNext]_passVars => PassInv'
  <1> SUFFICES ASSUME PassInv, [PassNext]_passVars PROVE PassInv'
    OBVIOUS
  <1>1. CASE PassThrows \/ PassDies
    <2>1. pass' = NoPass /\ UNCHANGED <<row, call, histories, stored, round, job>>
      BY <1>1 DEF PassThrows, PassDies, settings, counts
    <2> QED
      BY <2>1, PassEnds DEF PassInv, PassKinds
  <1>2. CASE ResumeJob \/ UNCHANGED passVars
    <2>1. UNCHANGED <<row, call, ran, agreed, turnedDown, stored, round, job, pass>>
      BY <1>2 DEF ResumeJob, passVars, settings, counts, histories
    <2> QED
      BY <2>1 DEF PassInv, PassKinds, PassAtWork, RowsFollowCalls, RowsToWrite, AllAgreed, RowsAgreed, GivenAgreed, RanAgreed
  <1> QED
    BY <1>1, <1>2, BeginKeeps, AnswerKeeps, ModelKeeps, RecordKeeps, SaveKeeps, DecideKeeps DEF PassNext

-----------------------------------------------------------------------------
(* The limits of a job's passes. *)

\* The settings a job has, and the faults there may be.
PassRest ==
    /\ mode \in Modes /\ network \in BOOLEAN /\ failed \in BOOLEAN
    /\ passFaults \in 0 .. MaxPassFaults

\* The notes a conversation names, and the steps a pass has made.
NotesFit == pass.messages.notes <= MaxAttempts /\ \A s \in WorkSteps : stored[s].notes <= MaxAttempts
StepsFit ==
    /\ pass.steps <= MaxAgentSteps
    /\ pass.at \in {"none", "answers"} => pass.steps = 0
    /\ pass.at = "model" => pass.steps < MaxAgentSteps

\* What a pass asks for it asks for the first time: its calls are those of the stored
\* conversation and the new ones.
AskedOnce ==
    /\ \A s \in WorkSteps : ~stored[s].begun => stored[s].asked = {}
    /\ \A s \in WorkSteps : \A i \in stored[s].asked : call[i].step # "none"
    /\ pass.at # "none" =>
          /\ pass.messages.begun
          /\ pass.messages.asked = stored[job].asked \cup pass.new
          /\ pass.new \cap stored[job].asked = {}
          /\ \A i \in pass.new : call[i].step # "none"

\* A stored verification is one attempt: it found blockers, or it asked for calls of its own.
Saved == stored["verify"].asked
AttemptsFit ==
    /\ attempts \in Nat /\ round <= attempts /\ round <= MaxAttempts
    /\ attempts <= MaxAttempts + Cardinality(Saved)
    /\ job \in WorkSteps => round < MaxAttempts /\ attempts < MaxAttempts + Cardinality(Saved)

PassFits == PassRest /\ NotesFit /\ StepsFit /\ AskedOnce /\ AttemptsFit

\* There are no more calls in a conversation than there are calls.
LEMMA AskedCounted ==
    ASSUME NEW some \in SUBSET Asks
    PROVE  IsFiniteSet(some) /\ Cardinality(some) \in Nat /\ Cardinality(some) <= MaxAsks
  <1>1. IsFiniteSet(Asks) /\ Cardinality(Asks) = MaxAsks
    BY Counted, PassAssumption DEF Asks
  <1> QED
    BY <1>1, FS_Subset, FS_CardinalityType

\* A job begins with nothing counted.
LEMMA PassFitsAtFirst == PassInit => PassFits
  <1> SUFFICES ASSUME PassInit PROVE PassFits
    OBVIOUS
  <1>0. \A s \in WorkSteps : stored[s] = NoMessages
    BY DEF PassInit
  <1>1. PassRest
    <2>1. mode \in Modes /\ network \in BOOLEAN /\ failed \in BOOLEAN
      BY DEF PassInit
    <2>2. passFaults \in 0 .. MaxPassFaults
      BY PassAssumption DEF PassInit
    <2> QED
      BY <2>1, <2>2 DEF PassRest
  <1>2. pass.messages = NoMessages /\ pass.steps = 0 /\ pass.at = "none"
    BY DEF PassInit, NoPass
  <1>3. NoMessages.notes = 0 /\ NoMessages.asked = {}
    BY DEF NoMessages
  <1>4. NotesFit /\ StepsFit /\ AskedOnce
    BY <1>0, <1>2, <1>3, PassAssumption DEF NotesFit, StepsFit, AskedOnce
  <1>5. Saved = {}
    BY <1>0, <1>3 DEF Saved, WorkSteps
  <1>6. AttemptsFit
    BY <1>5, FS_EmptySet, PassAssumption DEF PassInit, AttemptsFit
  <1> QED
    BY <1>1, <1>4, <1>6 DEF PassFits

\* The counts stay while nothing is stored.
LEMMA StillCounted ==
    ASSUME AttemptsFit, UNCHANGED <<stored, job, attempts, round>> PROVE AttemptsFit'
  <1>1. Saved' = Saved
    BY DEF Saved
  <1> QED
    BY <1>1 DEF AttemptsFit

\* A pass that is over without being stored leaves what was stored.
LEMMA PassIsOver ==
    ASSUME PassFits, pass' = NoPass, UNCHANGED <<stored, call>>
    PROVE  NotesFit' /\ StepsFit' /\ AskedOnce'
  <1>1. NoPass.messages.notes = 0 /\ NoPass.steps = 0 /\ NoPass.at = "none"
    BY DEF NoPass, NoMessages
  <1> QED
    BY <1>1, PassAssumption DEF PassFits, NotesFit, StepsFit, AskedOnce

\* A pass goes on with the conversation it has, or begins one that names the verifier's notes.
LEMMA BeginFits ==
    ASSUME PassInv, PassFits, BeginPass PROVE NotesFit' /\ StepsFit' /\ AskedOnce'
  <1>1. UNCHANGED <<stored, call, job>> /\ job \in WorkSteps
    BY DEF BeginPass, settings, counts
  <1>2. CASE stored[job].begun
    <2>1. pass' = [NoPass EXCEPT !.at = "answers", !.messages = stored[job],
                                 !.approved = Approved(job), !.denied = Denied(job)]
      BY <1>2 DEF BeginPass
    <2>2. pass'.at = "answers" /\ pass'.messages = stored[job] /\ pass'.steps = 0 /\ pass'.new = {}
      BY <2>1 DEF NoPass
    <2> QED
      BY <1>1, <1>2, <2>2, PassAssumption DEF PassFits, NotesFit, StepsFit, AskedOnce
  <1>3. CASE ~stored[job].begun
    <2> DEFINE fresh == [NoMessages EXCEPT !.begun = TRUE, !.notes = IF job = "implement" THEN round ELSE 0]
    <2>1. pass' = [NoPass EXCEPT !.at = "answers", !.messages = fresh]
      BY <1>3 DEF BeginPass
    <2>2. pass'.at = "answers" /\ pass'.messages = fresh /\ pass'.steps = 0 /\ pass'.new = {}
      BY <2>1 DEF NoPass
    <2>3. fresh.begun /\ fresh.asked = {} /\ fresh.notes <= MaxAttempts
      BY PassAssumption DEF NoMessages, PassFits, AttemptsFit
    <2> HIDE DEF fresh
    <2> QED
      BY <1>1, <1>3, <2>2, <2>3, PassAssumption DEF PassFits, NotesFit, StepsFit, AskedOnce
  <1> QED
    BY <1>2, <1>3

\* The answers change nothing of what was asked.
LEMMA AnswerFits ==
    ASSUME PassInv, PassFits, AnswerApprovals PROVE NotesFit' /\ StepsFit' /\ AskedOnce'
  <1> DEFINE decided == pass.approved \cup pass.denied
             due == pass.approved \ pass.messages.answered
  <1>1. UNCHANGED <<stored, call, job>> /\ pass.at = "answers"
    BY DEF AnswerApprovals, settings, counts
  <1>2. CASE decided \subseteq pass.messages.asked
    <2>1. PICK clean \in {TRUE} \cup Results({call[i].may : i \in due}) :
             pass' = [pass EXCEPT !.at = "model", !.clean = clean, !.messages.answered = @ \cup decided]
      BY <1>2 DEF AnswerApprovals
    <2>2. PICK old \in AnyPass : old = pass
      BY DEF PassInv, PassKinds
    <2>3. PICK said \in AnyMessages : said = old.messages
      BY DEF AnyPass
    <2>4. PICK says : says = [said EXCEPT !.answered = @ \cup decided]
      OBVIOUS
    <2>5. says.begun = said.begun /\ says.notes = said.notes /\ says.asked = said.asked
      BY <2>4 DEF AnyMessages
    <2>6. pass' = [old EXCEPT !.at = "model", !.clean = clean, !.messages = says]
      BY <2>1, <2>2, <2>3, <2>4
    <2>7. pass'.at = "model" /\ pass'.messages = says /\ pass'.steps = old.steps /\ pass'.new = old.new
      <3> HIDE DEF decided, due
      <3> QED
        BY <2>6 DEF AnyPass
    <2> QED
      BY <1>1, <2>2, <2>3, <2>5, <2>7, PassAssumption DEF PassFits, NotesFit, StepsFit, AskedOnce
  <1>3. CASE ~(decided \subseteq pass.messages.asked)
    BY <1>1, <1>3, PassIsOver DEF AnswerApprovals
  <1> QED
    BY <1>2, <1>3

\* A step of the model counts, and what it asks for was never asked for.
LEMMA ModelFits ==
    ASSUME PassInv, PassFits, ModelStep PROVE NotesFit' /\ StepsFit' /\ AskedOnce'
  <1>1. UNCHANGED <<stored, job>> /\ pass.at = "model" /\ job \in WorkSteps
    BY DEF ModelStep, settings, counts, PassInv, PassAtWork
  <1>2. PICK old \in AnyPass : old = pass
    BY DEF PassInv, PassKinds
  <1>3. old.steps \in Nat /\ old.steps < MaxAgentSteps
    BY <1>1, <1>2 DEF PassFits, StepsFit, AnyPass
  <1>4. CASE pass' = [pass EXCEPT !.at = "rows"] /\ UNCHANGED call
    <2>1. pass'.at = "rows" /\ pass'.messages = pass.messages /\ pass'.steps = pass.steps /\ pass'.new = pass.new
      BY <1>2, <1>4 DEF AnyPass
    <2> QED
      BY <1>1, <1>4, <2>1 DEF PassFits, NotesFit, StepsFit, AskedOnce
  <1>5. ASSUME NEW free, NEW clean \in Results({free}), call' = call,
               pass' = [pass EXCEPT !.steps = pass.steps + 1, !.clean = @ /\ clean,
                                    !.at = IF pass.steps + 1 = MaxAgentSteps THEN "rows" ELSE @]
        PROVE  NotesFit' /\ StepsFit' /\ AskedOnce'
    <2>1. PICK at : at = IF old.steps + 1 = MaxAgentSteps THEN "rows" ELSE "model"
      OBVIOUS
    <2>2. PICK steps : steps = old.steps + 1
      OBVIOUS
    <2>3. PICK good : good = (old.clean /\ clean)
      OBVIOUS
    <2>4. pass' = [old EXCEPT !.steps = steps, !.clean = good, !.at = at]
      BY <1>1, <1>2, <1>5, <2>1, <2>2, <2>3
    <2>5. pass'.at = at /\ pass'.messages = old.messages /\ pass'.steps = steps /\ pass'.new = old.new
      BY <2>4 DEF AnyPass
    <2>6. StepsFit'
      BY <1>3, <2>1, <2>2, <2>5, PassAssumption DEF StepsFit
    <2> QED
      BY <1>1, <1>2, <1>5, <2>5, <2>6 DEF PassFits, NotesFit, AskedOnce
  <1>6. ASSUME NEW free, NEW new \in NewAsks, NEW asking \in [new -> SUBSET BOOLEAN], NEW clean \in Results({free}),
               call' = [i \in Asks |-> IF i \in new THEN [step |-> job, may |-> asking[i]] ELSE call[i]],
               pass' = [pass EXCEPT !.at = "rows", !.steps = @ + 1, !.clean = @ /\ clean,
                           !.messages.asked = @ \cup new, !.new = @ \cup new, !.rows = @ \cup new]
        PROVE  NotesFit' /\ StepsFit' /\ AskedOnce'
    <2>1. new \in SUBSET Asks /\ \A i \in new : call[i].step = "none"
      BY <1>6 DEF NewAsks, Unasked
    <2>2. PICK said \in AnyMessages : said = old.messages
      BY DEF AnyPass
    <2>3. PICK says : says = [said EXCEPT !.asked = @ \cup new]
      OBVIOUS
    <2>4. says.begun = said.begun /\ says.notes = said.notes /\ says.asked = said.asked \cup new
      BY <2>3 DEF AnyMessages
    <2>5. PICK steps : steps = old.steps + 1
      OBVIOUS
    <2>6. PICK good : good = (old.clean /\ clean)
      OBVIOUS
    <2>7. PICK news : news = old.new \cup new
      OBVIOUS
    <2>8. PICK rows : rows = old.rows \cup new
      OBVIOUS
    <2>9. pass' = [old EXCEPT !.at = "rows", !.steps = steps, !.clean = good, !.messages = says,
                              !.new = news, !.rows = rows]
      BY <1>2, <1>6, <2>2, <2>3, <2>5, <2>6, <2>7, <2>8
    <2>10. pass'.at = "rows" /\ pass'.messages = says /\ pass'.steps = steps /\ pass'.new = news
      BY <2>9 DEF AnyPass
    <2>11. \A j \in Asks : call'[j].step # "none" <=> call[j].step # "none" \/ j \in new
      BY <1>1, <1>6, <2>1 DEF PassInv, PassKinds, WorkSteps
    <2>12. NotesFit' /\ StepsFit'
      <3>1. NotesFit'
        BY <1>1, <1>2, <2>2, <2>4, <2>10 DEF PassFits, NotesFit
      <3> QED
        BY <1>3, <2>5, <2>10, <3>1, PassAssumption DEF StepsFit
    <2>13. /\ \A s \in WorkSteps : stored[s].asked \subseteq Asks
           /\ old.new \subseteq Asks
      BY DEF PassInv, PassKinds, AnyMessages, AnyPass
    <2>14. new \cap stored[job].asked = {}
      BY <1>1, <2>1 DEF PassFits, AskedOnce
    <2>15. \A s \in WorkSteps : \A j \in stored[s].asked : call'[j].step # "none"
      BY <2>11, <2>13 DEF PassFits, AskedOnce
    <2>16. \A j \in news : call'[j].step # "none"
      BY <1>1, <1>2, <2>1, <2>7, <2>11, <2>13 DEF PassFits, AskedOnce
    <2>17. says.begun /\ says.asked = stored[job].asked \cup news /\ news \cap stored[job].asked = {}
      BY <1>1, <1>2, <2>2, <2>4, <2>7, <2>14 DEF PassFits, AskedOnce
    <2>18. AskedOnce'
      BY <1>1, <2>10, <2>15, <2>16, <2>17 DEF PassFits, AskedOnce
    <2> QED
      BY <2>12, <2>18
  <1>7. CASE \E free \in FreeCalls(job), new \in NewAsks :
                \E asking \in [new -> AskingCalls(job)], clean \in Results({free}) :
                   /\ call' = [i \in Asks |-> IF i \in new THEN [step |-> job, may |-> asking[i]] ELSE call[i]]
                   /\ pass' = [pass EXCEPT !.at = "rows", !.steps = @ + 1, !.clean = @ /\ clean,
                                   !.messages.asked = @ \cup new, !.new = @ \cup new, !.rows = @ \cup new]
    <2>1. AskingCalls(job) \subseteq SUBSET BOOLEAN
      BY DEF AskingCalls, Ends, RunCommand, Probe
    <2>2. \A new \in NewAsks : [new -> AskingCalls(job)] \subseteq [new -> SUBSET BOOLEAN]
      BY <2>1
    <2>3. PICK free \in FreeCalls(job), new \in NewAsks :
             \E asking \in [new -> AskingCalls(job)], clean \in Results({free}) :
                /\ call' = [i \in Asks |-> IF i \in new THEN [step |-> job, may |-> asking[i]] ELSE call[i]]
                /\ pass' = [pass EXCEPT !.at = "rows", !.steps = @ + 1, !.clean = @ /\ clean,
                                !.messages.asked = @ \cup new, !.new = @ \cup new, !.rows = @ \cup new]
      BY <1>7
    <2>4. PICK asking \in [new -> AskingCalls(job)], clean \in Results({free}) :
             /\ call' = [i \in Asks |-> IF i \in new THEN [step |-> job, may |-> asking[i]] ELSE call[i]]
             /\ pass' = [pass EXCEPT !.at = "rows", !.steps = @ + 1, !.clean = @ /\ clean,
                             !.messages.asked = @ \cup new, !.new = @ \cup new, !.rows = @ \cup new]
      BY <2>3
    <2>5. asking \in [new -> SUBSET BOOLEAN]
      BY <2>2
    <2> QED
      BY <1>6, <2>4, <2>5
  <1>8. CASE \E free \in FreeCalls(job) : \E clean \in Results({free}) :
                LET steps == pass.steps + 1
                IN  /\ pass' = [pass EXCEPT !.steps = steps, !.clean = @ /\ clean,
                                            !.at = IF steps = MaxAgentSteps THEN "rows" ELSE @]
                    /\ UNCHANGED call
    BY <1>5, <1>8
  <1> QED
    BY <1>4, <1>7, <1>8 DEF ModelStep

\* The rows of the requests change nothing else of a pass.
LEMMA RecordFits ==
    ASSUME PassInv, PassFits, RecordRequest PROVE NotesFit' /\ StepsFit' /\ AskedOnce'
  <1>1. UNCHANGED <<stored, call, job>> /\ pass.at = "rows"
    BY DEF RecordRequest, settings, counts
  <1>2. PICK old \in AnyPass : old = pass
    BY DEF PassInv, PassKinds
  <1>3. PICK at \in {"rows", "save"}, rows \in SUBSET Asks : pass' = [old EXCEPT !.at = at, !.rows = rows]
    <2>1. CASE pass' = [pass EXCEPT !.at = "save"]
      <3>1. pass' = [old EXCEPT !.at = "save", !.rows = old.rows] /\ old.rows \in SUBSET Asks
        BY <1>2, <2>1 DEF AnyPass
      <3> QED
        BY <3>1
    <2>2. ASSUME NEW i, pass' = [pass EXCEPT !.rows = @ \ {i}]
          PROVE  /\ pass' = [old EXCEPT !.at = "rows", !.rows = old.rows \ {i}]
                 /\ old.rows \ {i} \in SUBSET Asks
      BY <1>1, <1>2, <2>2 DEF AnyPass
    <2> QED
      BY <2>1, <2>2 DEF RecordRequest
  <1>4. pass'.at = at /\ pass'.messages = old.messages /\ pass'.steps = old.steps /\ pass'.new = old.new
    BY <1>3 DEF AnyPass
  <1> QED
    BY <1>1, <1>2, <1>3, <1>4 DEF PassFits, NotesFit, StepsFit, AskedOnce

\* What is stored of a pass: its conversation has the calls it asked for.
LEMMA SaveFits ==
    ASSUME PassInv, PassFits, SavePass PROVE NotesFit' /\ StepsFit' /\ AskedOnce'
  <1>1. /\ pass' = NoPass /\ UNCHANGED call /\ pass.at = "save" /\ job \in WorkSteps
        /\ stored' = [stored EXCEPT ![job] = pass.messages]
    BY DEF SavePass, settings, PassInv, PassAtWork
  <1>2. \A s \in WorkSteps : stored'[s] = IF s = job THEN pass.messages ELSE stored[s]
    BY <1>1 DEF PassInv, PassKinds
  <1>3. NoPass.messages.notes = 0 /\ NoPass.steps = 0 /\ NoPass.at = "none"
    BY DEF NoPass, NoMessages
  <1>4. NotesFit' /\ StepsFit'
    BY <1>1, <1>2, <1>3, PassAssumption DEF PassFits, NotesFit, StepsFit
  <1>5. pass.messages.begun /\ \A i \in pass.messages.asked : call[i].step # "none"
    BY <1>1 DEF PassFits, AskedOnce
  <1> QED
    BY <1>1, <1>2, <1>3, <1>4, <1>5 DEF PassFits, AskedOnce

\* An attempt that is not a verdict has stored calls that were not stored before.
LEMMA SaveCounts == ASSUME PassInv, PassFits, SavePass PROVE AttemptsFit'
  <1>1. /\ pass.at = "save" /\ job \in WorkSteps
        /\ stored' = [stored EXCEPT ![job] = pass.messages]
        /\ attempts' = IF job = "verify" THEN attempts + 1 ELSE attempts
        /\ round' = IF job = "verify" /\ pass.new = {} /\ ~pass.clean THEN round + 1 ELSE round
    BY DEF SavePass, PassInv, PassAtWork
  <1>2. /\ attempts \in Nat /\ round \in Nat /\ round <= attempts /\ round < MaxAttempts
        /\ attempts < MaxAttempts + Cardinality(Saved)
    BY <1>1 DEF PassInv, PassKinds, PassFits, AttemptsFit
  <1>3. "verify" \in WorkSteps /\ Saved \in SUBSET Asks /\ pass.new \in SUBSET Asks
    <2>1. "verify" \in WorkSteps
      BY DEF WorkSteps
    <2> QED
      BY <2>1 DEF Saved, PassInv, PassKinds, AnyMessages, AnyPass
  <1>4. IsFiniteSet(Saved) /\ Cardinality(Saved) \in Nat /\ MaxAttempts \in Nat
    BY <1>3, AskedCounted, PassAssumption
  <1>5. CASE job = "implement"
    <2>1. Saved' = Saved
      BY <1>1, <1>3, <1>5 DEF Saved, PassInv, PassKinds
    <2> QED
      BY <1>1, <1>2, <1>4, <1>5, <2>1 DEF AttemptsFit
  <1>6. CASE job = "verify"
    <2>1. Saved' = Saved \cup pass.new /\ pass.new \cap Saved = {}
      BY <1>1, <1>3, <1>6 DEF Saved, PassInv, PassKinds, PassFits, AskedOnce
    <2>2. CASE pass.new = {}
      <3>1. Cardinality(Saved') = Cardinality(Saved)
        <4>1. Saved' = Saved
          BY <2>1, <2>2
        <4> QED
          BY <4>1
      <3>2. job' = CASE pass.clean -> "verified"
                     [] OTHER -> IF attempts + 1 < MaxAttempts THEN "implement" ELSE "blocked"
        BY <1>6, <2>2 DEF SavePass
      <3>3. job' \in WorkSteps => attempts + 1 < MaxAttempts
        BY <3>2 DEF WorkSteps
      <3>4. attempts' = attempts + 1 /\ round' \in {round, round + 1}
        BY <1>1, <1>6
      <3>5. round' <= attempts' /\ round' <= MaxAttempts
        BY <1>2, <1>4, <3>4
      <3>6. attempts' <= MaxAttempts + Cardinality(Saved')
        BY <1>2, <1>4, <3>1, <3>4
      <3>7. job' \in WorkSteps => round' < MaxAttempts /\ attempts' < MaxAttempts + Cardinality(Saved')
        BY <1>2, <1>4, <3>1, <3>3, <3>4
      <3> QED
        BY <1>2, <3>4, <3>5, <3>6, <3>7 DEF AttemptsFit
    <2>3. CASE pass.new # {}
      <3>1. PICK i : i \in pass.new
        BY <2>3
      <3>2. /\ Saved \cup {i} \in SUBSET (Saved') /\ i \notin Saved /\ Saved' \in SUBSET Asks
        BY <1>3, <2>1, <3>1
      <3>3. Cardinality(Saved \cup {i}) = Cardinality(Saved) + 1
        BY <1>4, <3>2, FS_AddElement
      <3>4. Cardinality(Saved \cup {i}) <= Cardinality(Saved') /\ Cardinality(Saved') \in Nat
        BY <3>2, AskedCounted, FS_Subset
      <3>5. attempts' = attempts + 1 /\ round' = round
        BY <1>1, <1>6, <2>3
      <3>6. attempts' < MaxAttempts + Cardinality(Saved')
        BY <1>2, <1>4, <3>3, <3>4, <3>5
      <3> QED
        BY <1>2, <1>4, <3>4, <3>5, <3>6 DEF AttemptsFit
    <2> QED
      BY <2>2, <2>3
  <1> QED
    BY <1>1, <1>5, <1>6 DEF WorkSteps

\* Faults and resumes are counted while there is room for them.
LEMMA PassRestKept == ASSUME PassInv, PassRest, [PassNext]_passVars PROVE PassRest'
  <1>1. ASSUME passFaults < MaxPassFaults, passFaults' = passFaults + 1 PROVE passFaults' \in 0 .. MaxPassFaults
    BY <1>1, PassAssumption DEF PassRest
  <1>2. CASE BeginPass \/ ModelStep \/ RecordRequest \/ SavePass
    BY <1>2 DEF BeginPass, ModelStep, RecordRequest, SavePass, settings, PassRest
  <1>3. CASE AnswerApprovals \/ \E i \in Asks : DecideCall(i)
    BY <1>3 DEF AnswerApprovals, DecideCall, settings, PassRest
  <1>4. CASE PassThrows \/ PassDies \/ ResumeJob
    BY <1>1, <1>4 DEF PassThrows, PassDies, ResumeJob, settings, PassRest
  <1>5. CASE UNCHANGED passVars
    BY <1>5 DEF passVars, settings, PassRest
  <1> QED
    BY <1>2, <1>3, <1>4, <1>5 DEF PassNext

\* What a pass was given are decisions on calls of its step, one on each.
GivenFits ==
    /\ \A i \in pass.approved \cup pass.denied : i \in Asks /\ call[i].step = job
    /\ pass.approved \cap pass.denied = {}

\* A pass goes on from what is stored of its step: what was answered there stays answered.
AnswersGoOn ==
    /\ \A s \in WorkSteps : ~stored[s].begun => stored[s].answered = {}
    /\ pass.at # "none" => pass.messages.begun /\ stored[job].answered \subseteq pass.messages.answered

\* While no pass is lost, what was run or turned down is answered in the conversation of its step.
InPass(i) == pass.at \in {"model", "rows", "save"} /\ call[i].step = job /\ i \in pass.messages.answered
InStore(i) == i \in stored[call[i].step].answered
AnswersStay ==
    passFaults = 0 => \A i \in ran \cup turnedDown : call[i].step \in WorkSteps /\ (InStore(i) \/ InPass(i))
AnsweredOnce == passFaults = 0 => ran \cap turnedDown = {}

AnswersInv == GivenFits /\ AnswersGoOn /\ AnswersStay /\ AnsweredOnce

\* At first nothing is answered.
LEMMA AnswersInitial == PassInit => AnswersInv
  BY NoPassIsPass DEF PassInit, NoPass, NoMessages, AnswersInv, GivenFits, AnswersGoOn, AnswersStay, AnsweredOnce

\* A pass begins with what is stored and with the decisions on its step's calls.
LEMMA BeginAnswers == ASSUME PassInv, AnswersInv, BeginPass PROVE AnswersInv'
  <1>1. UNCHANGED <<stored, call, job, ran, turnedDown, passFaults>> /\ pass.at = "none" /\ job \in WorkSteps
    BY DEF BeginPass, settings, histories
  <1>2. /\ pass'.messages.begun /\ stored[job].answered \subseteq pass'.messages.answered
        /\ pass'.approved \subseteq Approved(job) /\ pass'.denied \subseteq Denied(job)
    <2>1. CASE stored[job].begun
      <3>1. pass' = [NoPass EXCEPT !.at = "answers", !.messages = stored[job],
                                   !.approved = Approved(job), !.denied = Denied(job)]
        BY <2>1 DEF BeginPass
      <3> QED
        BY <2>1, <3>1 DEF NoPass
    <2>2. CASE ~stored[job].begun
      <3> DEFINE fresh == [NoMessages EXCEPT !.begun = TRUE, !.notes = IF job = "implement" THEN round ELSE 0]
      <3>1. pass' = [NoPass EXCEPT !.at = "answers", !.messages = fresh]
        BY <2>2 DEF BeginPass
      <3>2. fresh.begun /\ fresh.answered = {}
        BY DEF NoMessages
      <3>3. stored[job].answered = {}
        BY <1>1, <2>2 DEF AnswersInv, AnswersGoOn
      <3> HIDE DEF fresh
      <3> QED
        BY <3>1, <3>2, <3>3 DEF NoPass
    <2> QED
      BY <2>1, <2>2
  <1>3. GivenFits'
    BY <1>1, <1>2 DEF GivenFits, Approved, Denied, RowsOf
  <1>4. AnswersGoOn'
    BY <1>1, <1>2 DEF AnswersInv, AnswersGoOn
  <1>5. AnswersStay' /\ AnsweredOnce'
    BY <1>1 DEF AnswersInv, AnswersStay, AnsweredOnce, InStore, InPass
  <1> QED
    BY <1>3, <1>4, <1>5 DEF AnswersInv

\* A pass that is over without being stored has answered nothing, or was lost.
LEMMA LostAnswers ==
    ASSUME PassInv, PassRest, AnswersInv, pass' = NoPass, UNCHANGED <<stored, call, ran, turnedDown>>,
           \/ UNCHANGED passFaults /\ pass.at = "answers"
           \/ passFaults' = passFaults + 1
    PROVE  AnswersInv'
  <1>1. GivenFits' /\ AnswersGoOn'
    BY DEF NoPass, NoMessages, AnswersInv, GivenFits, AnswersGoOn
  <1>2. passFaults' = 0 => passFaults = 0 /\ pass.at = "answers"
    BY PassAssumption DEF PassRest
  <1>3. AnswersStay' /\ AnsweredOnce'
    BY <1>2 DEF AnswersInv, AnswersStay, AnsweredOnce, InStore, InPass
  <1> QED
    BY <1>1, <1>3 DEF AnswersInv

\* What is run or turned down has no answer yet, and has one then.
LEMMA AnswerAnswers == ASSUME PassInv, PassRest, AnswersInv, AnswerApprovals PROVE AnswersInv'
  <1> DEFINE decided == pass.approved \cup pass.denied
             due == pass.approved \ pass.messages.answered
  <1>1. UNCHANGED <<stored, call, job, passFaults>> /\ pass.at = "answers" /\ job \in WorkSteps
    BY DEF AnswerApprovals, settings, PassInv, PassAtWork
  <1>2. CASE decided \subseteq pass.messages.asked
    <2>1. ran' = ran \cup due /\ turnedDown' = turnedDown \cup (pass.denied \ pass.messages.answered)
      BY <1>2 DEF AnswerApprovals
    <2>2. PICK clean \in {TRUE} \cup Results({call[i].may : i \in due}) :
             pass' = [pass EXCEPT !.at = "model", !.clean = clean, !.messages.answered = @ \cup decided]
      BY <1>2 DEF AnswerApprovals
    <2>3. PICK old \in AnyPass : old = pass
      BY DEF PassInv, PassKinds
    <2>4. PICK said \in AnyMessages : said = old.messages
      BY DEF AnyPass
    <2>5. PICK says : says = [said EXCEPT !.answered = @ \cup decided]
      OBVIOUS
    <2>6. says.begun = said.begun /\ says.answered = said.answered \cup decided
      BY <2>5 DEF AnyMessages
    <2>7. pass' = [old EXCEPT !.at = "model", !.clean = clean, !.messages = says]
      BY <2>2, <2>3, <2>4, <2>5
    <2>8. /\ pass'.at = "model" /\ pass'.messages = says
          /\ pass'.approved = old.approved /\ pass'.denied = old.denied
      <3> HIDE DEF decided, due
      <3> QED
        BY <2>7 DEF AnyPass
    <2>9. GivenFits' /\ AnswersGoOn'
      BY <1>1, <2>3, <2>4, <2>6, <2>8 DEF AnswersInv, GivenFits, AnswersGoOn
    <2>10. ASSUME NEW i \in ran \cup turnedDown, passFaults = 0 PROVE InStore(i) /\ call[i].step \in WorkSteps
      BY <1>1, <2>10 DEF AnswersInv, AnswersStay, InPass
    <2>11. ASSUME NEW i \in decided PROVE i \in Asks /\ call[i].step = job /\ InPass(i)'
      BY <1>1, <2>6, <2>8, <2>11 DEF AnswersInv, GivenFits, InPass
    <2>12. AnswersStay'
      BY <1>1, <2>1, <2>10, <2>11 DEF AnswersStay, InStore
    <2>13. ASSUME NEW i \in decided \ pass.messages.answered, passFaults = 0 PROVE i \notin ran \cup turnedDown
      <3>1. stored[job].answered \subseteq pass.messages.answered
        BY <1>1 DEF AnswersInv, AnswersGoOn
      <3> QED
        BY <2>10, <2>11, <2>13, <3>1 DEF InStore
    <2>14. AnsweredOnce'
      BY <1>1, <2>1, <2>13 DEF AnswersInv, AnsweredOnce, GivenFits
    <2> QED
      BY <2>9, <2>12, <2>14 DEF AnswersInv
  <1>3. CASE ~(decided \subseteq pass.messages.asked)
    <2>1. pass' = NoPass /\ UNCHANGED <<ran, turnedDown>>
      BY <1>3 DEF AnswerApprovals
    <2> QED
      BY <1>1, <2>1, LostAnswers
  <1> QED
    BY <1>2, <1>3

\* The model's steps and the rows change no answer and no call that was asked before.
LEMMA WorkAnswers ==
    ASSUME PassInv, AnswersInv, UNCHANGED <<stored, job, ran, turnedDown, passFaults>>, job \in WorkSteps,
           pass.at \in {"model", "rows"}, pass'.at \in {"model", "rows", "save"},
           pass'.approved = pass.approved, pass'.denied = pass.denied,
           pass'.messages.begun = pass.messages.begun, pass'.messages.answered = pass.messages.answered,
           \A i \in Asks : call[i].step \in WorkSteps => call'[i] = call[i]
    PROVE  AnswersInv'
  <1>1. GivenFits' /\ AnswersGoOn'
    BY DEF AnswersInv, GivenFits, AnswersGoOn
  <1>2. AnsweredOnce'
    BY DEF AnswersInv, AnsweredOnce
  <1>3. ran \subseteq Asks /\ turnedDown \subseteq Asks
    BY DEF PassInv, PassKinds
  <1>4. AnswersStay'
    BY <1>3 DEF AnswersInv, AnswersStay, InStore, InPass
  <1> QED
    BY <1>1, <1>2, <1>4 DEF AnswersInv

\* A step of the model asks for calls nobody has asked for.
LEMMA ModelAnswers == ASSUME PassInv, AnswersInv, ModelStep PROVE AnswersInv'
  <1>1. UNCHANGED <<stored, job, ran, turnedDown, passFaults>> /\ pass.at = "model" /\ job \in WorkSteps
    BY DEF ModelStep, settings, histories, PassInv, PassAtWork
  <1>2. PICK old \in AnyPass : old = pass
    BY DEF PassInv, PassKinds
  <1>3. PICK said \in AnyMessages : said = old.messages
    BY DEF AnyPass
  <1>4. CASE pass' = [pass EXCEPT !.at = "rows"] /\ UNCHANGED call
    <2>1. /\ pass'.at = "rows" /\ pass'.messages = pass.messages
          /\ pass'.approved = pass.approved /\ pass'.denied = pass.denied
      BY <1>2, <1>4 DEF AnyPass
    <2> QED
      BY <1>1, <1>4, <2>1, WorkAnswers
  <1>5. ASSUME NEW clean, call' = call,
               pass' = [pass EXCEPT !.steps = pass.steps + 1, !.clean = @ /\ clean,
                                    !.at = IF pass.steps + 1 = MaxAgentSteps THEN "rows" ELSE @]
        PROVE  AnswersInv'
    <2>1. PICK at \in {"model", "rows"} : at = IF old.steps + 1 = MaxAgentSteps THEN "rows" ELSE old.at
      BY <1>1, <1>2
    <2>2. PICK good, steps : good = (old.clean /\ clean) /\ steps = old.steps + 1
      OBVIOUS
    <2>3. pass' = [old EXCEPT !.steps = steps, !.clean = good, !.at = at]
      BY <1>2, <1>5, <2>1, <2>2
    <2>4. /\ pass'.at = at /\ pass'.messages = pass.messages
          /\ pass'.approved = pass.approved /\ pass'.denied = pass.denied
      BY <1>2, <2>3 DEF AnyPass
    <2> QED
      BY <1>1, <1>5, <2>4, WorkAnswers
  <1>6. ASSUME NEW new \in NewAsks, NEW asking, NEW clean,
               call' = [i \in Asks |-> IF i \in new THEN [step |-> job, may |-> asking[i]] ELSE call[i]],
               pass' = [pass EXCEPT !.at = "rows", !.steps = @ + 1, !.clean = @ /\ clean,
                           !.messages.asked = @ \cup new, !.new = @ \cup new, !.rows = @ \cup new]
        PROVE  AnswersInv'
    <2>1. PICK says : says = [said EXCEPT !.asked = @ \cup new]
      OBVIOUS
    <2>2. says.begun = said.begun /\ says.answered = said.answered
      BY <2>1 DEF AnyMessages
    <2>3. PICK good, steps : good = (old.clean /\ clean) /\ steps = old.steps + 1
      OBVIOUS
    <2>4. PICK news, rows : news = old.new \cup new /\ rows = old.rows \cup new
      OBVIOUS
    <2>5. pass' = [old EXCEPT !.at = "rows", !.steps = steps, !.clean = good, !.messages = says,
                              !.new = news, !.rows = rows]
      BY <1>2, <1>3, <1>6, <2>1, <2>3, <2>4
    <2>6. /\ pass'.at = "rows" /\ pass'.messages = says
          /\ pass'.approved = pass.approved /\ pass'.denied = pass.denied
      BY <1>2, <2>5 DEF AnyPass
    <2>7. \A i \in Asks : call[i].step \in WorkSteps => call'[i] = call[i]
      BY <1>6 DEF NewAsks, Unasked, WorkSteps
    <2> QED
      BY <1>1, <1>2, <1>3, <2>2, <2>6, <2>7, WorkAnswers
  <1>7. CASE \E free \in FreeCalls(job), new \in NewAsks :
                \E asking \in [new -> AskingCalls(job)], clean \in Results({free}) :
                   /\ call' = [i \in Asks |-> IF i \in new THEN [step |-> job, may |-> asking[i]] ELSE call[i]]
                   /\ pass' = [pass EXCEPT !.at = "rows", !.steps = @ + 1, !.clean = @ /\ clean,
                                   !.messages.asked = @ \cup new, !.new = @ \cup new, !.rows = @ \cup new]
    BY <1>6, <1>7
  <1>8. CASE \E free \in FreeCalls(job) : \E clean \in Results({free}) :
                LET steps == pass.steps + 1
                IN  /\ pass' = [pass EXCEPT !.steps = steps, !.clean = @ /\ clean,
                                            !.at = IF steps = MaxAgentSteps THEN "rows" ELSE @]
                    /\ UNCHANGED call
    BY <1>5, <1>8
  <1> QED
    BY <1>4, <1>7, <1>8 DEF ModelStep

\* The rows of the requests are no answers.
LEMMA RecordAnswers == ASSUME PassInv, AnswersInv, RecordRequest PROVE AnswersInv'
  <1>1. UNCHANGED <<stored, call, job, ran, turnedDown, passFaults>> /\ pass.at = "rows" /\ job \in WorkSteps
    BY DEF RecordRequest, settings, histories, PassInv, PassAtWork
  <1>2. PICK old \in AnyPass : old = pass
    BY DEF PassInv, PassKinds
  <1>3. PICK at \in {"rows", "save"} : \E rows \in SUBSET Asks : pass' = [old EXCEPT !.at = at, !.rows = rows]
    <2>1. CASE pass' = [pass EXCEPT !.at = "save"]
      <3>1. pass' = [old EXCEPT !.at = "save", !.rows = old.rows] /\ old.rows \in SUBSET Asks
        BY <1>2, <2>1 DEF AnyPass
      <3> QED
        BY <3>1
    <2>2. ASSUME NEW i, pass' = [pass EXCEPT !.rows = @ \ {i}]
          PROVE  \E rows \in SUBSET Asks : pass' = [old EXCEPT !.at = "rows", !.rows = rows]
      <3>1. /\ pass' = [old EXCEPT !.at = "rows", !.rows = old.rows \ {i}]
            /\ old.rows \ {i} \in SUBSET Asks
        BY <1>1, <1>2, <2>2 DEF AnyPass
      <3> QED
        BY <3>1
    <2> QED
      BY <2>1, <2>2 DEF RecordRequest
  <1>4. /\ pass'.at = at /\ pass'.messages = pass.messages
        /\ pass'.approved = pass.approved /\ pass'.denied = pass.denied
    BY <1>2, <1>3 DEF AnyPass
  <1> QED
    BY <1>1, <1>4, WorkAnswers

\* What is stored has the answers of the pass, and those there were.
LEMMA SaveAnswers == ASSUME PassInv, AnswersInv, SavePass PROVE AnswersInv'
  <1>1. /\ pass' = NoPass /\ UNCHANGED <<call, ran, turnedDown, passFaults>> /\ pass.at = "save"
        /\ job \in WorkSteps /\ stored' = [stored EXCEPT ![job] = pass.messages]
    BY DEF SavePass, settings, histories, PassInv, PassAtWork
  <1>2. \A s \in WorkSteps : stored'[s] = IF s = job THEN pass.messages ELSE stored[s]
    BY <1>1 DEF PassInv, PassKinds
  <1>3. pass.messages.begun /\ stored[job].answered \subseteq pass.messages.answered
    BY <1>1 DEF AnswersInv, AnswersGoOn
  <1>4. GivenFits' /\ AnswersGoOn'
    BY <1>1, <1>2, <1>3 DEF NoPass, AnswersInv, GivenFits, AnswersGoOn
  <1>5. ASSUME NEW i, call[i].step \in WorkSteps, InStore(i) \/ InPass(i) PROVE InStore(i)'
    BY <1>1, <1>2, <1>3, <1>5 DEF InStore, InPass
  <1>6. AnswersStay' /\ AnsweredOnce'
    BY <1>1, <1>5 DEF AnswersInv, AnswersStay, AnsweredOnce
  <1> QED
    BY <1>4, <1>6 DEF AnswersInv

\* Every step of a job's passes keeps the answers.
LEMMA AnswersKept == PassInv /\ PassRest /\ AnswersInv /\ [PassNext]_passVars => AnswersInv'
  <1> SUFFICES ASSUME PassInv, PassRest, AnswersInv, [PassNext]_passVars PROVE AnswersInv'
    OBVIOUS
  <1>1. CASE PassThrows \/ PassDies
    BY <1>1, LostAnswers DEF PassThrows, PassDies, histories
  <1>2. CASE (\E i \in Asks : DecideCall(i)) \/ UNCHANGED passVars
    <2>1. UNCHANGED <<stored, call, job, pass, ran, turnedDown, passFaults>>
      BY <1>2 DEF DecideCall, passVars, settings, histories
    <2> QED
      BY <2>1 DEF AnswersInv, GivenFits, AnswersGoOn, AnswersStay, AnsweredOnce, InStore, InPass
  <1>3. CASE ResumeJob
    <2>1. UNCHANGED <<stored, call, job, pass, ran, turnedDown>> /\ passFaults' # 0
      BY <1>3, PassAssumption DEF ResumeJob, settings, histories, PassRest
    <2> QED
      BY <2>1 DEF AnswersInv, GivenFits, AnswersGoOn, AnswersStay, AnsweredOnce
  <1> QED
    BY <1>1, <1>2, <1>3, BeginAnswers, AnswerAnswers, ModelAnswers, RecordAnswers, SaveAnswers DEF PassNext

\* A call that asked for an approval is executed only once an operator has approved this very
\* call, and, while no pass is lost, the answer it got first is the only one
\* (buildApprovalResponseMessages and the library's answer to it), for any numbers of calls,
\* model steps, attempts, decisions, failures and resumes.
THEOREM OnlyApprovedRun == PassSpec => []ApprovedOnly
  <1>1. PassInit => PassRest
    BY PassFitsAtFirst DEF PassFits
  <1>2. PassInv /\ PassRest /\ [PassNext]_passVars => PassRest'
    BY PassRestKept
  <1>3. PassInv /\ AnswersInv => ApprovedOnly
    BY DEF PassInv, AllAgreed, RanAgreed, AnswersInv, AnsweredOnce, ApprovedOnly
  <1> QED
    BY PassInitial, PassKept, <1>1, <1>2, AnswersInitial, AnswersKept, <1>3, PTL DEF PassSpec

\* Every step of a job's passes keeps within the limits.
LEMMA PassFitsKept == PassInv /\ PassFits /\ [PassNext]_passVars => PassFits'
  <1> SUFFICES ASSUME PassInv, PassFits, [PassNext]_passVars PROVE PassFits'
    OBVIOUS
  <1>0. PassRest'
    BY PassRestKept DEF PassFits
  <1>1. CASE BeginPass \/ AnswerApprovals \/ ModelStep \/ RecordRequest
    <2>1. UNCHANGED <<stored, job, attempts, round>>
      BY <1>1 DEF BeginPass, AnswerApprovals, ModelStep, RecordRequest, settings, counts
    <2>2. AttemptsFit'
      BY <2>1, StillCounted DEF PassFits
    <2>3. NotesFit' /\ StepsFit' /\ AskedOnce'
      BY <1>1, BeginFits, AnswerFits, ModelFits, RecordFits
    <2> QED
      BY <1>0, <2>2, <2>3 DEF PassFits
  <1>2. CASE SavePass
    BY <1>0, <1>2, SaveFits, SaveCounts DEF PassFits
  <1>3. CASE PassThrows \/ PassDies
    <2>1. pass' = NoPass /\ UNCHANGED <<stored, call, job, attempts, round>>
      BY <1>3 DEF PassThrows, PassDies, settings, counts
    <2>2. AttemptsFit'
      BY <2>1, StillCounted DEF PassFits
    <2> QED
      BY <1>0, <2>1, <2>2, PassIsOver DEF PassFits
  <1>4. CASE ResumeJob \/ (\E i \in Asks : DecideCall(i)) \/ UNCHANGED passVars
    <2>1. UNCHANGED <<stored, call, job, attempts, round, pass>>
      BY <1>4 DEF ResumeJob, DecideCall, passVars, settings, counts
    <2>2. AttemptsFit'
      BY <2>1, StillCounted DEF PassFits
    <2>3. NotesFit' /\ StepsFit' /\ AskedOnce'
      BY <2>1 DEF PassFits, NotesFit, StepsFit, AskedOnce
    <2> QED
      BY <1>0, <2>2, <2>3 DEF PassFits
  <1> QED
    BY <1>1, <1>2, <1>3, <1>4 DEF PassNext

\* What is within the limits is of its kind.
LEMMA PassFitsTypes == PassInv /\ PassFits => PassTypeOK
  <1> SUFFICES ASSUME PassInv, PassFits PROVE PassTypeOK
    OBVIOUS
  <1> USE DEF PassInv, PassFits
  <1>1. stored \in [WorkSteps -> Messages]
    BY PassAssumption DEF PassKinds, AnyMessages, NotesFit, Messages, Rounds
  <1>2. pass \in Pass
    BY PassAssumption DEF PassKinds, AnyPass, AnyMessages, NotesFit, StepsFit, Pass, Messages, Rounds
  <1>3. attempts \in 0 .. MaxAttempts + MaxAsks
    <2>1. Saved \in SUBSET Asks
      BY DEF Saved, PassKinds, WorkSteps, AnyMessages
    <2> QED
      BY <2>1, AskedCounted, PassAssumption DEF AttemptsFit
  <1>4. round \in Rounds
    BY PassAssumption DEF PassKinds, AttemptsFit, Rounds
  <1> QED
    BY <1>1, <1>2, <1>3, <1>4 DEF PassKinds, PassRest, PassTypeOK

\* With its limits, the passes keep the kinds of all their variables.
LEMMA PassTypes == PassSpec => []PassTypeOK
  BY PassInitial, PassKept, PassFitsAtFirst, PassFitsKept, PassFitsTypes, PTL DEF PassSpec

-----------------------------------------------------------------------------
(* The promise of JobPromise, kept by the passes. *)

PassPromised == [Promise!PromiseNext]_(Promise!promise)

\* A step that leaves the count of verdicts and the repairs asked for is a report, or none.
LEMMA OnlyReported ==
    ASSUME UNCHANGED <<job, attempts, round>> PROVE PassPromised
  <1> DEFINE told == [j \in {"job"} |-> IF failed THEN "closed" ELSE "open"]
  <1>1. PICK o \in {"open", "closed"} : o = IF failed' THEN "closed" ELSE "open"
    OBVIOUS
  <1>2. told' = [told EXCEPT !["job"] = o]
    BY <1>1
  <1>3. Promise!Report("job")
    BY <1>1, <1>2 DEF Promise!Report
  <1> QED
    BY <1>3 DEF PassPromised, Promise!PromiseNext

\* A verification that is stored is a verdict; one that sends the job back has a round left.
LEMMA StoredIsJudged == ASSUME PassInv, PassFits, SavePass, job = "verify" PROVE PassPromised
  <1> DEFINE repairs(at, n) == IF at = "blocked" THEN n - 1 ELSE n
             judged == [j \in {"job"} |-> job = "verified"]
             verdicts == [j \in {"job"} |-> attempts]
             repaired == [j \in {"job"} |-> repairs(job, round)]
  <1>1. /\ attempts' = attempts + 1 /\ failed' = failed /\ attempts \in Nat /\ round \in Nat
        /\ round' = IF pass.new = {} /\ ~pass.clean THEN round + 1 ELSE round
    BY DEF SavePass, PassFits, AttemptsFit, PassInv, PassKinds
  <1>2. verdicts' = [verdicts EXCEPT !["job"] = @ + 1]
    BY <1>1
  <1>3. CASE pass.new # {} \/ (~pass.clean /\ ~(attempts + 1 < MaxAttempts))
    <2>1. /\ judged' = judged
          /\ repairs(job, round)' = repairs(job, round)
      <3>1. CASE pass.new # {}
        <4>1. job' = "verify" /\ round' = round
          BY <1>1, <3>1 DEF SavePass
        <4> QED
          BY <4>1
      <3>2. CASE pass.new = {} /\ ~pass.clean /\ ~(attempts + 1 < MaxAttempts)
        <4>1. job' = "blocked" /\ round' = round + 1
          BY <1>1, <3>2 DEF SavePass
        <4> QED
          BY <1>1, <4>1
      <3> QED
        BY <1>3, <3>1, <3>2
    <2>2. Promise!Judge("job")
      BY <1>1, <1>2, <2>1 DEF Promise!Judge
    <2> QED
      BY <2>2 DEF PassPromised, Promise!PromiseNext
  <1>4. CASE pass.new = {} /\ pass.clean
    <2>1. job' = "verified" /\ round' = round
      BY <1>1, <1>4 DEF SavePass
    <2>2. judged' = [judged EXCEPT !["job"] = TRUE] /\ repaired' = repaired
      BY <2>1
    <2>3. Promise!Judge("job")
      BY <1>1, <1>2, <2>2 DEF Promise!Judge
    <2> QED
      BY <2>3 DEF PassPromised, Promise!PromiseNext
  <1>5. CASE pass.new = {} /\ ~pass.clean /\ attempts + 1 < MaxAttempts
    <2>1. job' = "implement" /\ round' = round + 1
      BY <1>1, <1>5 DEF SavePass
    <2>2. judged' = judged /\ repaired' = [repaired EXCEPT !["job"] = @ + 1]
      BY <1>1, <2>1
    <2>3. Promise!Judge("job")
      BY <1>1, <1>2, <1>5, <2>2 DEF Promise!Judge
    <2> QED
      BY <2>3 DEF PassPromised, Promise!PromiseNext
  <1> QED
    BY <1>3, <1>4, <1>5

\* Every step of the passes is a verdict, a report, or none of what is promised.
LEMMA PassesPromised == PassInv /\ PassFits /\ [PassNext]_passVars => PassPromised
  <1> SUFFICES ASSUME PassInv, PassFits, [PassNext]_passVars PROVE PassPromised
    OBVIOUS
  <1>1. CASE SavePass /\ job = "implement"
    <2>1. attempts' = attempts /\ round' = round /\ job' \in {"implement", "verify"}
      BY <1>1 DEF SavePass
    <2> DEFINE told == [j \in {"job"} |-> IF failed THEN "closed" ELSE "open"]
    <2>2. failed' = failed
      BY <1>1 DEF SavePass
    <2>3. Promise!promise' = Promise!promise
      BY <1>1, <2>1, <2>2 DEF Promise!promise
    <2> QED
      BY <2>3 DEF PassPromised
  <1>2. CASE SavePass /\ job # "implement"
    BY <1>2, StoredIsJudged DEF SavePass, PassInv, PassAtWork, WorkSteps
  <1>3. CASE ~SavePass
    <2>1. UNCHANGED <<job, attempts, round>>
      BY <1>3 DEF PassNext, BeginPass, AnswerApprovals, ModelStep, RecordRequest, DecideCall,
                  PassThrows, PassDies, ResumeJob, passVars, settings, counts
    <2> QED
      BY <2>1, OnlyReported
  <1> QED
    BY <1>1, <1>2, <1>3

\* The passes of a job keep the promise of JobPromise.
THEOREM PassesKeepPromise == PassSpec => PassKeepsPromise
  <1>1. PassInit => Promise!PromiseInit
    BY DEF PassInit, Promise!PromiseInit
  <1>2. PassInv /\ PassFits /\ [PassNext]_passVars => [Promise!PromiseNext]_(Promise!promise)
    BY PassesPromised DEF PassPromised
  <1> QED
    BY <1>1, <1>2, PassInitial, PassKept, PassFitsAtFirst, PassFitsKept, PTL
       DEF PassSpec, PassKeepsPromise, Promise!PromiseSpec

-----------------------------------------------------------------------------
(* The kinds of all variables. *)

\* Requests, edits and crashes are counted while there is room for them.
LEMMA VisitsCounted ==
    ASSUME asks \in 0 .. MaxVisits, [PersonaNext]_personaVars PROVE asks' \in 0 .. MaxVisits
  <1>1. ASSUME NEW c \in Callers, PersonaStep(c) PROVE asks' = asks
    <2>1. CASE EnsureRows(c) \/ LoadSoul(c) \/ FollowSoul(c) \/ PickVoice(c) \/ FindBuiltIn(c) \/ InsertBuiltIn(c)
      BY <2>1 DEF EnsureRows, LoadSoul, FollowSoul, PickVoice, FindBuiltIn, InsertBuiltIn, counted
    <2>2. CASE Deactivate(c) \/ Activate(c) \/ Normalise(c) \/ EnsureDefaultVoice(c) \/ Listed(c)
      BY <2>2 DEF Deactivate, Activate, Normalise, EnsureDefaultVoice, Listed, counted
    <2>3. CASE ChooseVoice(c) \/ WritePersona(c) \/ SaveSoul(c) \/ Restore(c) \/ Truncate(c)
      BY <2>3 DEF ChooseVoice, WritePersona, SaveSoul, Restore, Truncate, counted
    <2>4. CASE ReadProfile(c) \/ DeactivateForProfile(c) \/ WriteProfile(c)
      BY <2>4 DEF ReadProfile, DeactivateForProfile, WriteProfile, counted
    <2> QED
      BY <1>1, <2>1, <2>2, <2>3, <2>4 DEF PersonaStep
  <1>2. ASSUME Room, asks' = asks + 1 PROVE asks' \in 0 .. MaxVisits
    BY <1>2, PersonaAssumption DEF Room
  <1>3. ASSUME NEW c \in Callers, Begin(c) PROVE asks' \in 0 .. MaxVisits
    BY <1>2, <1>3 DEF Begin
  <1>4. CASE EditSoulFile \/ WorkerDies
    BY <1>2, <1>4 DEF EditSoulFile, WorkerDies
  <1> QED
    BY <1>1, <1>3, <1>4 DEF PersonaNext, personaVars

\* So the persona's variables stay of their kinds.
LEMMA PersonaTypes == PersonaSpec => []PersonaTypeOK
  <1> DEFINE Types == PersonaInv /\ asks \in 0 .. MaxVisits
  <1>1. PersonaInit => Types
    BY PersonaInitial, PersonaAssumption DEF PersonaInit
  <1>2. Types /\ [PersonaNext]_personaVars => Types'
    BY PersonaKept, VisitsCounted
  <1>3. Types => PersonaTypeOK
    BY DEF PersonaInv, PersonaKinds, PersonaTypeOK
  <1> QED
    BY <1>1, <1>2, <1>3, PTL DEF PersonaSpec

\* Files and rows of recordings, and how often something was lost or cleaned.
MediaCounts ==
    /\ onDisk \subseteq Media /\ wronged \subseteq Media
    /\ losses \in 0 .. MaxLosses /\ cleans \in 0 .. MaxCleans

\* Files are of recordings there may be; losses and clean-ups have their bounds.
LEMMA MediaCounted == MediaInv /\ MediaCounts /\ [MediaNext]_mediaVars => MediaCounts'
  <1> SUFFICES ASSUME MediaInv, MediaCounts, [MediaNext]_mediaVars PROVE MediaCounts'
    OBVIOUS
  <1> USE DEF MediaCounts
  <1>1. ASSUME NEW u \in Uploaders,
               \/ StartUpload(u) \/ CreateArtifact(u) \/ Transcribe(u) \/ LinkToTurn(u)
               \/ AttachSample(u) \/ WriteProfileBack(u)
        PROVE  MediaCounts'
    BY <1>1 DEF StartUpload, CreateArtifact, Transcribe, LinkToTurn, AttachSample, WriteProfileBack, mediaTally
  <1>2. ASSUME NEW u \in Uploaders, WriteFile(u) PROVE MediaCounts'
    <2>1. written' \in Media
      BY <1>2, SpeechMediaAssumption DEF WriteFile, MediaInv, MediaKinds, MaybeMedia, Media
    <2> QED
      BY <1>2, <2>1 DEF WriteFile, mediaTally
  <1>3. CASE StartCleaner
    BY <1>3, SpeechMediaAssumption DEF StartCleaner
  <1>4. CASE CheckArtifact \/ ReadSamples \/ CheckSample \/ SamplesChecked \/ ForgetSamples \/ PurgeFiles
    BY <1>4 DEF CheckArtifact, ReadSamples, CheckSample, SamplesChecked, ForgetSamples, PurgeFiles, mediaTally
  <1>5. CASE DeleteArtifacts
    BY <1>5 DEF DeleteArtifacts
  <1>6. ASSUME NEW k \in Media, FileLost(k) PROVE MediaCounts'
    BY <1>6, SpeechMediaAssumption DEF FileLost
  <1>7. CASE SpeechWorkerDies
    <2>1. losses < MaxLosses /\ losses' = losses + 1 /\ UNCHANGED <<onDisk, cleans, wronged>>
      BY <1>7 DEF SpeechWorkerDies
    <2> QED
      BY <2>1, SpeechMediaAssumption
  <1>8. CASE UNCHANGED mediaVars
    BY <1>8 DEF mediaVars
  <1> QED
    BY <1>1, <1>2, <1>3, <1>4, <1>5, <1>6, <1>7, <1>8 DEF MediaNext

\* So the variables of recordings stay of their kinds.
LEMMA MediaTypes == MediaSpec => []MediaTypeOK
  <1>1. MediaInit => MediaInv /\ MediaCounts
    BY MediaInitial, SpeechMediaAssumption DEF MediaInit, MediaCounts
  <1>2. MediaInv /\ MediaCounts => MediaTypeOK
    BY DEF MediaInv, MediaKinds, MediaCounts, MediaTypeOK
  <1> QED
    BY <1>1, <1>2, MediaKept, MediaCounted, PTL DEF MediaSpec

\* What waits for an approval is in a conversation there is, and so is every reply.
RepliesKnown == \A r \in 1 .. MaxReplies : reply[r].at # "none" => reply[r].of \in existing
DeskRest ==
    /\ pending \subseteq existing /\ approvals \in MaybeConversation /\ busy \in MaybeConversation
    /\ refreshing \in BOOLEAN /\ asked \subseteq Conversations
    /\ deciding \in [Conversations -> {"idle", "post", "reload"}]
    /\ clicks \in 0 .. MaxClicks

\* Replies stay in conversations there are, and clicks have their bound.
LEMMA DeskRestKept == DeskInv /\ RepliesKnown /\ DeskRest /\ [DeskNext]_deskVars => RepliesKnown' /\ DeskRest'
  <1> SUFFICES ASSUME DeskInv, RepliesKnown, DeskRest, [DeskNext]_deskVars PROVE RepliesKnown' /\ DeskRest'
    OBVIOUS
  <1>0. /\ existing \subseteq Conversations /\ selected \in MaybeConversation
        /\ history \subseteq Load /\ reply \in [1 .. MaxReplies -> Reply]
        /\ refreshing \in BOOLEAN /\ 0 \in MaybeConversation
        /\ Conversations \subseteq MaybeConversation
    BY DEF DeskInv, ShownKinds, DeskRest, MaybeConversation
  <1>1. ASSUME NEW c, NEW mark, Select(c, mark) PROVE refreshing' \in BOOLEAN
    BY <1>0, <1>1 DEF Select
  <1>2. ASSUME NEW of, NewPane(of), existing' = existing PROVE RepliesKnown'
    BY <1>0, <1>2 DEF NewPane, RepliesKnown, Reply
  <1>3. CASE StartFresh
    <2>1. RepliesKnown'
      BY <1>2, <1>3 DEF StartFresh
    <2> QED
      BY <1>0, <1>1, <1>3, <2>1, DeskAssumption DEF StartFresh, DeskRest
  <1>4. ASSUME NEW c \in Conversations, Open(c) PROVE RepliesKnown' /\ DeskRest'
    BY <1>0, <1>1, <1>4, DeskAssumption DEF Open, DeskRest, RepliesKnown
  <1>5. ASSUME NEW h \in history, HistoryArrives(h) PROVE RepliesKnown' /\ DeskRest'
    <2>1. RepliesKnown'
      BY <1>2, <1>5 DEF HistoryArrives, RepliesKnown
    <2>2. h.of \in Conversations
      BY <1>0 DEF Load
    <2>3. refreshing' \in BOOLEAN /\ asked' \subseteq Conversations
      BY <1>0, <1>5, <2>2 DEF HistoryArrives, DeskRest
    <2> QED
      BY <1>5, <2>1, <2>3 DEF HistoryArrives, DeskRest
  <1>6. ASSUME NEW r \in 1 .. MaxReplies, Send(r) PROVE RepliesKnown' /\ DeskRest'
    <2>1. PICK of \in Conversations \cup {selected}, kind \in {"model", "other"} :
            /\ reply' = [reply EXCEPT ![r] = [at |-> "sent", of |-> of, kind |-> kind, here |-> TRUE]]
            /\ existing' = existing \cup {of}
      BY <1>6 DEF Send
    <2>2. RepliesKnown'
      BY <1>0, <2>1 DEF RepliesKnown
    <2> QED
      BY <1>6, <2>1, <2>2 DEF Send, DeskRest, paneVars, offer
  <1>7. ASSUME NEW r \in 1 .. MaxReplies, Told(r) PROVE RepliesKnown' /\ DeskRest'
    <2>1. reply[r].of \in existing
      BY <1>7 DEF Told, RepliesKnown
    <2>2. RepliesKnown'
      BY <1>0, <1>7 DEF Told, RepliesKnown
    <2>3. refreshing' \in BOOLEAN
      BY <1>1, <1>7 DEF Told
    <2> QED
      BY <1>7, <2>1, <2>2, <2>3 DEF Told, DeskRest, offer
  <1>8. ASSUME NEW r \in 1 .. MaxReplies, Settle(r) PROVE RepliesKnown' /\ DeskRest'
    <2>1. reply[r].of \in existing
      BY <1>8 DEF Settle, RepliesKnown
    <2>2. RepliesKnown'
      BY <1>0, <1>8 DEF Settle, RepliesKnown
    <2>3. refreshing' \in BOOLEAN /\ asked' \subseteq Conversations
      BY <1>0, <1>1, <1>8, <2>1 DEF Settle, DeskRest
    <2> QED
      BY <1>8, <2>2, <2>3 DEF Settle, DeskRest
  <1>9. ASSUME NEW r \in 1 .. MaxReplies, Breaks(r) PROVE RepliesKnown' /\ DeskRest'
    BY <1>0, <1>9 DEF Breaks, UnderWay, RepliesKnown, DeskRest, paneVars, offer
  <1>10. ASSUME NEW c \in Conversations, ApprovalsArrive(c) \/ Decide(c) \/ Post(c) PROVE RepliesKnown' /\ DeskRest'
    BY <1>0, <1>10 DEF ApprovalsArrive, Decide, Post, RepliesKnown, DeskRest, paneVars
  <1>11. ASSUME NEW c \in Conversations, Decided(c) PROVE RepliesKnown' /\ DeskRest'
    BY <1>0, <1>1, <1>11 DEF Decided, RepliesKnown, DeskRest
  <1>12. CASE UNCHANGED deskVars
    BY <1>12 DEF deskVars, RepliesKnown, DeskRest
  <1> QED
    BY <1>3, <1>4, <1>5, <1>6, <1>7, <1>8, <1>9, <1>10, <1>11, <1>12 DEF DeskNext

\* So the desk's variables stay of their kinds.
LEMMA DeskTypes == DeskSpec => []DeskTypeOK
  <1>1. DeskInit => DeskInv /\ RepliesKnown /\ DeskRest
    <2> SUFFICES ASSUME DeskInit PROVE RepliesKnown /\ DeskRest
      BY DeskInitial
    <2>1. RepliesKnown
      BY DEF DeskInit, RepliesKnown, NoReply
    <2>2. pending \subseteq existing /\ refreshing \in BOOLEAN /\ asked \subseteq Conversations
      BY DEF DeskInit
    <2>3. approvals \in MaybeConversation /\ busy \in MaybeConversation
      BY DEF DeskInit, MaybeConversation
    <2>4. deciding \in [Conversations -> {"idle", "post", "reload"}]
      BY DEF DeskInit
    <2>5. clicks \in 0 .. MaxClicks
      BY DeskAssumption DEF DeskInit
    <2> QED
      BY <2>1, <2>2, <2>3, <2>4, <2>5 DEF DeskRest
  <1>2. DeskInv /\ DeskRest => DeskTypeOK
    BY DEF DeskInv, ShownKinds, DeskRest, DeskTypeOK
  <1> QED
    BY <1>1, <1>2, DeskKept, DeskRestKept, PTL DEF DeskSpec

\* What the general page offers, what was asked for, and the keys that were sent.
FormsRest ==
    /\ models \in [of : MaybeProvider, asked : MaybeProvider]
    /\ begun \in 0 .. MaxFormAsks
    /\ sentKeys \subseteq Providers \X Providers

\* A page asks for the models of a provider, and requests have their bound.
LEMMA FormsRestKept == FormsInv /\ FormsRest /\ [FormsNext]_formVars => FormsRest'
  <1> SUFFICES ASSUME FormsInv, FormsRest, [FormsNext]_formVars PROVE FormsRest'
    OBVIOUS
  <1>0. /\ form.provider \in MaybeProvider /\ form.key \in MaybeProvider
        /\ form.key # Nobody => form.key = form.provider
        /\ Nobody \in MaybeProvider
    BY DEF FormsInv, FormKinds, KeyOfForm, Form, MaybeProvider
  <1>1. CASE \E i \in LoadSlots : ReadStored(i) \/ LoadArrives(i) \/ LoadFails(i)
    BY <1>1 DEF FormsRest, ReadStored, LoadArrives, LoadFails
  <1>2. CASE Edit \/ StoredElsewhere \/ TypeKey
    BY <1>2 DEF FormsRest, Edit, StoredElsewhere, TypeKey
  <1>3. CASE AskModels
    <2>1. begun' \in 0 .. MaxFormAsks
      BY <1>3, FormsAssumption DEF FormsRest, AskModels
    <2>2. models' \in [of : MaybeProvider, asked : MaybeProvider]
      BY <1>0, <1>3 DEF FormsRest, AskModels
    <2> QED
      BY <1>3, <2>1, <2>2 DEF FormsRest, AskModels
  <1>4. CASE ModelsArrive
    <2>1. models' \in [of : MaybeProvider, asked : MaybeProvider]
      BY <1>0, <1>4 DEF FormsRest, ModelsArrive
    <2> QED
      BY <1>4, <2>1 DEF FormsRest, ModelsArrive
  <1>5. ASSUME NEW p \in Providers, ChooseProvider(p) PROVE FormsRest'
    <2>1. begun' \in 0 .. MaxFormAsks
      BY <1>5, FormsAssumption DEF FormsRest, ChooseProvider
    <2>2. models' \in [of : MaybeProvider, asked : MaybeProvider]
      BY <1>0, <1>5 DEF FormsRest, ChooseProvider
    <2> QED
      BY <1>5, <2>1, <2>2 DEF FormsRest, ChooseProvider
  <1>6. ASSUME begun < MaxFormAsks, begun' = begun + 1 PROVE begun' \in 0 .. MaxFormAsks
    BY <1>6, FormsAssumption DEF FormsRest
  <1>7. CASE Save
    <2>1. sentKeys' \subseteq Providers \X Providers
      BY <1>0, <1>7 DEF FormsRest, Save, MaybeProvider
    <2> QED
      BY <1>6, <1>7, <2>1 DEF FormsRest, Save, OneMore
  <1>8. CASE ClearKey \/ Refresh \/ ChangeFilter \/ Act
    BY <1>6, <1>8 DEF FormsRest, ClearKey, Refresh, ChangeFilter, Act, OneMore
  <1>9. CASE ApplyPreset
    BY <1>6, <1>9 DEF FormsRest, ApplyPreset
  <1>10. CASE StoreSave \/ SaveArrives \/ SaveFails \/ Done
    BY <1>10 DEF FormsRest, StoreSave, SaveArrives, SaveFails, Done
  <1>11. CASE UNCHANGED formVars
    BY <1>11 DEF FormsRest, formVars
  <1> QED
    BY <1>1, <1>2, <1>3, <1>4, <1>5, <1>7, <1>8, <1>9, <1>10, <1>11 DEF FormsNext

\* So the variables of the pages stay of their kinds.
LEMMA FormsTypes == FormsSpec => []FormsTypeOK
  <1>1. FormsInit => FormsInv /\ FormsRest
    BY FormsInitial, FormsAssumption DEF FormsInit, FormsRest, MaybeProvider
  <1>2. FormsInv /\ FormsRest => FormsTypeOK
    BY DEF FormsInv, FormKinds, FormsRest, FormsTypeOK, Loading, FormVersions
  <1> QED
    BY <1>1, <1>2, FormsKept, FormsRestKept, PTL DEF FormsSpec

-----------------------------------------------------------------------------
(* The parts side by side. *)

\* What all parts do is for each of them what it does, or nothing.
LEMMA EachDoesItsOwn ==
    [EdgesNext]_edgesVars =>
        /\ [LauncherNext]_launcherVars /\ [PersonaNext]_personaVars /\ [MediaNext]_mediaVars
        /\ [DeskNext]_deskVars /\ [FormsNext]_formVars /\ [ReplyNext]_replyVars /\ [PassNext]_passVars
  BY DEF EdgesNext, edgesVars, ButLauncher, ButPersona, ButMedia, ButDesk, ButForms, ButReply, ButPass

\* Side by side, the parts keep the kinds of all their variables.
THEOREM EdgesTyped == EdgesSpec => []EdgesTypesOK
  <1>1. EdgesInit => /\ LauncherInit /\ PersonaInit /\ MediaInit /\ DeskInit
                     /\ FormsInit /\ ReplyInit /\ PassInit
    BY DEF EdgesInit
  <1>2. EdgesSpec => LauncherSpec /\ PersonaSpec /\ MediaSpec
    BY <1>1, EachDoesItsOwn, PTL DEF EdgesSpec, LauncherSpec, PersonaSpec, MediaSpec
  <1>3. EdgesSpec => DeskSpec /\ FormsSpec
    BY <1>1, EachDoesItsOwn, PTL DEF EdgesSpec, DeskSpec, FormsSpec
  <1>4. EdgesSpec => ReplySpec /\ PassSpec
    BY <1>1, EachDoesItsOwn, PTL DEF EdgesSpec, ReplySpec, PassSpec
  <1>5. LauncherSpec => []LauncherTypeOK
    <2>1. StampInv => LauncherTypeOK
      BY DEF StampInv
    <2> QED
      BY <2>1, StampsInitial, StampsNext, PTL DEF LauncherSpec
  <1>6. ReplySpec => []ReplyTypeOK
    <2>1. ReplyInv => ReplyTypeOK
      BY DEF ReplyInv
    <2> QED
      BY <2>1, ReplyBegins, ReplyStepKeeps, PTL DEF ReplySpec
  <1> QED
    BY <1>2, <1>3, <1>4, <1>5, <1>6, PersonaTypes, MediaTypes, DeskTypes, FormsTypes, PassTypes, PTL
       DEF EdgesTypesOK

=============================================================================
