------------------------------- MODULE MCEdges -------------------------------
(***************************************************************************)
(* The parts around the worker's background services side by side: the     *)
(* launcher, the persona and its voices, recordings, the desk in the       *)
(* browser, the settings pages, streamed replies and the agent's passes:   *)
(* what they change they change in rows, files and processes of their own, *)
(* so a behaviour of all of them is one of each; a behaviour here follows  *)
(* one of them, chosen at the start.                                       *)
(***************************************************************************)
EXTENDS Launcher, Persona, SpeechMedia, DeskShell, ConsoleForms, ReplyStream, AgentPass

VARIABLE part    \* the part this behaviour follows

edgesVars == <<part, launcherVars, personaVars, mediaVars, deskVars, formVars, replyVars, passVars>>

\* What the parts start from; only the one followed has more than one start.
EdgesInit ==
    /\ part \in {"launcher", "persona", "media", "desk", "forms", "reply", "pass"}
    /\ LauncherInit /\ PersonaInit /\ MediaInit /\ DeskInit /\ FormsInit /\ ReplyInit /\ PassInit
    /\ part # "launcher" => platform = "unix"
    /\ part # "desk" => existing = {}
    /\ part # "forms" => page = "agent" /\ inStore.provider = 1
    /\ part # "reply" => way = "stream" /\ resolved
    /\ part # "pass" => mode = "default" /\ network

\* What every part but one leaves alone.
ButLauncher == UNCHANGED <<part, personaVars, mediaVars, deskVars, formVars, replyVars, passVars>>
ButPersona == UNCHANGED <<part, launcherVars, mediaVars, deskVars, formVars, replyVars, passVars>>
ButMedia == UNCHANGED <<part, launcherVars, personaVars, deskVars, formVars, replyVars, passVars>>
ButDesk == UNCHANGED <<part, launcherVars, personaVars, mediaVars, formVars, replyVars, passVars>>
ButForms == UNCHANGED <<part, launcherVars, personaVars, mediaVars, deskVars, replyVars, passVars>>
ButReply == UNCHANGED <<part, launcherVars, personaVars, mediaVars, deskVars, formVars, passVars>>
ButPass == UNCHANGED <<part, launcherVars, personaVars, mediaVars, deskVars, formVars, replyVars>>

\* An edit of the sources takes the place of a command: together they are at most MaxCommands.
EditsCount == \A p \in Parts : given' + source'[p] <= MaxCommands + 1

EdgesNext ==
    \/ part = "launcher" /\ LauncherNext /\ EditsCount /\ ButLauncher
    \/ part = "persona" /\ PersonaNext /\ ButPersona
    \/ part = "media" /\ MediaNext /\ ButMedia
    \/ part = "desk" /\ DeskNext /\ ButDesk
    \/ part = "forms" /\ FormsNext /\ ButForms
    \/ part = "reply" /\ ReplyNext /\ ButReply
    \/ part = "pass" /\ PassNext /\ ButPass

EdgesSpec == EdgesInit /\ [][EdgesNext]_edgesVars

\* The variables of every part stay of their kinds.
EdgesTypesOK ==
    /\ LauncherTypeOK /\ PersonaTypeOK /\ MediaTypeOK /\ DeskTypeOK /\ FormsTypeOK /\ ReplyTypeOK
    /\ PassTypeOK

=============================================================================
