---------------------------- MODULE ConsoleForms ----------------------------
(***************************************************************************)
(* The settings pages of the web application. Each loads what is stored      *)
(* into a form, lets the operator edit it, and saves it; requests are      *)
(* answered at their own times. The pages differ in what begins a load and *)
(* in what an answer does to the form.                                     *)
(***************************************************************************)
EXTENDS Naturals

CONSTANTS
    Pages,          \* the pages to look at
    Providers,      \* inference providers, positive numbers; 0 stands for none
    MaxVersions,    \* bound: versions of the settings, those typed into a form among them
    MaxFormLoads,   \* bound: loads under way at once
    MaxFormAsks     \* bound: requests by the operator, besides loads

ASSUME FormsAssumption ==
    /\ Pages \subseteq {"telegram", "outbound", "heartbeat", "agent", "voice", "memory", "tools",
                        "secretary", "general"}
    /\ Providers \subseteq Nat \ {0}
    /\ MaxVersions \in Nat \ {0} /\ MaxFormLoads \in Nat \ {0} /\ MaxFormAsks \in Nat

VARIABLES
    page,       \* the page that is open
    inStore,    \* the version of the settings the worker has, and the provider selected
    form,       \* draft: the version shown, the provider, and whom a typed key is for
    loading,    \* the loads under way; one that is no longer live was cancelled
    saving,     \* isSaving: the save under way
    doing,      \* the other request under way
    models,     \* general: whose models are offered, and whose are asked for
    versions,   \* how many versions there were
    begun,      \* requests so far
    sentKeys,   \* history: keys sent, <<typed for, sent to>>
    kept        \* history: the version typed with no request under way that may replace it, or 0

formVars == <<page, inStore, form, loading, saving, doing, models, versions, begun, sentKeys, kept>>

FormVersions == 0 .. MaxVersions    \* 0: no form yet
Nobody == 0
MaybeProvider == Providers \cup {Nobody}
Settings == [version : FormVersions, provider : MaybeProvider]
Form == [version : FormVersions, provider : MaybeProvider, key : MaybeProvider]
NoForm == [version |-> 0, provider |-> Nobody, key |-> Nobody]
Idle == [at |-> "idle", form |-> NoForm, clears |-> FALSE]
LoadSlots == 1 .. MaxFormLoads
NoLoad == [at |-> "none", live |-> FALSE, own |-> FALSE, saw |-> [version |-> 0, provider |-> Nobody]]

-----------------------------------------------------------------------------
(* What sets the pages apart: whether each render begins a load, as the effect depends on a      *)
(* function that every render makes anew; whether there is a form before the first load; whether *)
(* the answer to a save is shown, and whether a load follows it; whether a load leaves a form    *)
(* alone that is there; and what else can be asked for.                                          *)

TelegramPage == [refetches |-> TRUE, early |-> TRUE, shows |-> FALSE, reloads |-> FALSE,
                 spares |-> FALSE, others |-> {"refresh", "action"}]
OutboundPage == TelegramPage
HeartbeatPage == [refetches |-> TRUE, early |-> FALSE, shows |-> TRUE, reloads |-> TRUE,
                  spares |-> FALSE, others |-> {"action"}]
AgentPage == [HeartbeatPage EXCEPT !.reloads = FALSE, !.others = {}]
VoicePage == [refetches |-> FALSE, early |-> FALSE, shows |-> FALSE, reloads |-> TRUE,
              spares |-> FALSE, others |-> {"refresh", "action"}]
MemoryPage == [VoicePage EXCEPT !.shows = TRUE, !.reloads = FALSE, !.others = {"filter"}]
ToolsPage == [VoicePage EXCEPT !.spares = TRUE, !.others = {"action", "preset"}]
SecretaryPage == [VoicePage EXCEPT !.others = {"action"}]
GeneralPage == [VoicePage EXCEPT !.shows = TRUE, !.reloads = FALSE, !.others = {}]

This == CASE page = "telegram" -> TelegramPage [] page = "outbound" -> OutboundPage
          [] page = "heartbeat" -> HeartbeatPage [] page = "agent" -> AgentPage
          [] page = "voice" -> VoicePage [] page = "memory" -> MemoryPage
          [] page = "tools" -> ToolsPage [] page = "secretary" -> SecretaryPage
          [] OTHER -> GeneralPage

-----------------------------------------------------------------------------
(* Loads *)

\* A load takes the first free slot; there is always one but on a page that keeps loading. One of
\* the page's own was begun by a render alone.
LoadBegun(l, own) ==
    IF \A i \in LoadSlots : l[i].at # "none" THEN l
    ELSE LET i == CHOOSE i \in LoadSlots :
                     l[i].at = "none" /\ \A j \in LoadSlots : l[j].at = "none" => i <= j
         IN  [l EXCEPT ![i] = [NoLoad EXCEPT !.at = "asked", !.live = TRUE, !.own = own]]

BeginLoad(l) == LoadBegun(l, FALSE)

\* Mutant: every page's effect depends on a function that each render makes anew.
RendersAlways(l) == LoadBegun(l, TRUE)

\* What a change of the page's state leaves of the loads `l`.
Renders(l) == IF This.refetches THEN LoadBegun(l, TRUE) ELSE l

RoomToLoad == \E i \in LoadSlots : loading[i].at = "none"

FormsInit ==
    /\ page \in Pages
    /\ inStore \in [version : {1}, provider : Providers]
    /\ form = NoForm
    /\ loading = BeginLoad([i \in LoadSlots |-> NoLoad])
    /\ saving = Idle /\ doing = "idle"
    /\ models = [of |-> Nobody, asked |-> Nobody]
    /\ versions = 1 /\ begun = 0
    /\ sentKeys = {} /\ kept = 0

\* The worker answers.
ReadStored(i) ==
    /\ loading[i].at = "asked"
    /\ loading' = [loading EXCEPT ![i].at = "answered", ![i].saw = inStore]
    /\ UNCHANGED <<page, inStore, form, saving, doing, models, versions, begun, sentKeys, kept>>

\* What the answer makes of the form: a typed key is gone. ToolsPage keep the drafts they have.
LoadArrives(i) ==
    /\ loading[i].at = "answered"
    /\ form' = IF ~loading[i].live \/ (This.spares /\ form.version # 0) THEN form
               ELSE [version |-> loading[i].saw.version, provider |-> loading[i].saw.provider,
                     key |-> Nobody]
    /\ loading' = Renders([loading EXCEPT ![i] = NoLoad])
    /\ UNCHANGED <<page, inStore, saving, doing, models, versions, begun, sentKeys, kept>>

LoadFails(i) ==
    /\ loading[i].at = "asked"
    /\ loading' = Renders([loading EXCEPT ![i] = NoLoad])
    /\ UNCHANGED <<page, inStore, form, saving, doing, models, versions, begun, sentKeys, kept>>

-----------------------------------------------------------------------------
(* Edits *)

\* Nothing that the operator asked for is under way whose answer may replace the form; the first
\* load counts as asked for.
Calm ==
    \/ This.spares /\ form.version # 0
    \/ /\ \A i \in LoadSlots : loading[i].at = "none" \/ ~loading[i].live \/ loading[i].own
       /\ saving.at = "idle" /\ doing = "idle"

Edit ==
    /\ form.version # 0 \/ This.early
    /\ versions < MaxVersions /\ versions' = versions + 1
    /\ form' = [form EXCEPT !.version = versions']
    /\ kept' = IF Calm THEN versions' ELSE 0
    /\ loading' = Renders(loading)
    /\ UNCHANGED <<page, inStore, saving, doing, models, begun, sentKeys>>

\* Another window, or the worker itself, changes what is stored.
StoredElsewhere ==
    /\ versions < MaxVersions /\ versions' = versions + 1
    /\ inStore' = [inStore EXCEPT !.version = versions']
    /\ UNCHANGED <<page, form, loading, saving, doing, models, begun, sentKeys, kept>>

\* general: the tabs and the list of providers. The other fields are the provider's own again,
\* as they were when they were last loaded.
ChooseProvider(p) ==
    /\ page = "general" /\ form.version # 0
    /\ begun < MaxFormAsks /\ begun' = begun + 1
    /\ \E v \in 1 .. versions : form' = [version |-> v, provider |-> p, key |-> Nobody]
    /\ models' = [models EXCEPT !.of = Nobody]
    /\ kept' = 0
    /\ UNCHANGED <<page, inStore, loading, saving, doing, versions, sentKeys>>

TypeKey ==
    /\ page = "general" /\ form.version # 0
    /\ form.key = Nobody
    /\ form' = [form EXCEPT !.key = form.provider]
    /\ UNCHANGED <<page, inStore, loading, saving, doing, models, versions, begun, sentKeys, kept>>

AskModels ==
    /\ page = "general" /\ form.version # 0 /\ models.asked = Nobody
    /\ begun < MaxFormAsks /\ begun' = begun + 1
    /\ models' = [models EXCEPT !.asked = form.provider]
    /\ UNCHANGED <<page, inStore, form, loading, saving, doing, versions, sentKeys, kept>>

\* Whatever provider is chosen by now; a failure leaves what was offered.
ModelsArrive ==
    /\ models.asked # Nobody
    /\ models' \in {[of |-> models.asked, asked |-> Nobody], [models EXCEPT !.asked = Nobody]}
    /\ UNCHANGED <<page, inStore, form, loading, saving, doing, versions, begun, sentKeys, kept>>

-----------------------------------------------------------------------------
(* Saves and other requests. Some buttons stay disabled until the load that follows has ended as  *)
(* well; here they are enabled with the answer, which only allows more.                           *)

OneMore ==
    /\ begun < MaxFormAsks /\ begun' = begun + 1
    /\ RoomToLoad
    /\ kept' = IF This.spares THEN kept ELSE 0

Save ==
    /\ form.version # 0 \/ This.early
    /\ saving.at = "idle"
    /\ OneMore
    /\ saving' = [at |-> "sent", form |-> form, clears |-> FALSE]
    /\ sentKeys' = IF form.key = Nobody THEN sentKeys
                   ELSE sentKeys \cup {<<form.key, form.provider>>}
    /\ loading' = Renders(loading)
    /\ UNCHANGED <<page, inStore, form, doing, models, versions>>

\* general: the saved key of the provider shown is removed; nothing else of the form is sent.
ClearKey ==
    /\ page = "general" /\ form.version # 0 /\ saving.at = "idle"
    /\ OneMore
    /\ saving' = [at |-> "sent", form |-> form, clears |-> TRUE]
    /\ UNCHANGED <<page, inStore, form, loading, doing, models, versions, sentKeys>>

\* The worker stores what was sent and answers with what it has then.
StoreSave ==
    /\ saving.at = "sent"
    /\ inStore' = [version |-> IF saving.clears THEN inStore.version ELSE saving.form.version,
                  provider |-> saving.form.provider]
    /\ saving' = [saving EXCEPT !.at = "stored",
                      !.form = [version |-> inStore'.version, provider |-> inStore'.provider,
                                key |-> Nobody]]
    /\ UNCHANGED <<page, form, loading, doing, models, versions, begun, sentKeys, kept>>

SaveArrives ==
    /\ saving.at = "stored"
    /\ form' = IF This.shows THEN saving.form ELSE form
    /\ loading' = Renders(IF This.reloads THEN BeginLoad(loading) ELSE loading)
    /\ saving' = Idle
    /\ UNCHANGED <<page, inStore, doing, models, versions, begun, sentKeys, kept>>

SaveFails ==
    /\ saving.at = "sent"
    /\ saving' = Idle
    /\ loading' = Renders(loading)
    /\ UNCHANGED <<page, inStore, form, doing, models, versions, begun, sentKeys, kept>>

\* The button beside the form that only loads.
Refresh ==
    /\ "refresh" \in This.others
    /\ OneMore
    /\ loading' = Renders(BeginLoad(loading))
    /\ UNCHANGED <<page, inStore, form, saving, doing, models, versions, sentKeys>>

\* Another filter: what was loaded for the one before is not shown any more.
ChangeFilter ==
    /\ "filter" \in This.others
    /\ OneMore
    /\ loading' = BeginLoad([i \in LoadSlots |-> [loading[i] EXCEPT !.live = FALSE]])
    /\ UNCHANGED <<page, inStore, form, saving, doing, models, versions, sentKeys>>

\* A test message, a dispatch, a run, a preview, a decision, an import.
Act ==
    /\ "action" \in This.others /\ doing = "idle"
    /\ OneMore
    /\ doing' = "action"
    /\ loading' = Renders(loading)
    /\ UNCHANGED <<page, inStore, form, saving, models, versions, sentKeys>>

\* The preset is in the form at once and is sent, tool by tool.
ApplyPreset ==
    /\ "preset" \in This.others /\ doing = "idle" /\ form.version # 0
    /\ versions < MaxVersions /\ versions' = versions + 1
    /\ begun < MaxFormAsks /\ begun' = begun + 1
    /\ RoomToLoad
    /\ form' = [form EXCEPT !.version = versions'] /\ kept' = 0
    /\ doing' = "preset"
    /\ UNCHANGED <<page, inStore, loading, saving, models, sentKeys>>

\* What was done is loaded, unless it failed; a preset is stored before that.
Done ==
    /\ doing # "idle" /\ doing' = "idle"
    /\ \/ /\ RoomToLoad /\ loading' = Renders(BeginLoad(loading))
          /\ inStore' = IF doing = "preset" THEN [inStore EXCEPT !.version = form.version] ELSE inStore
       \/ loading' = Renders(loading) /\ inStore' = inStore
    /\ UNCHANGED <<page, form, saving, models, versions, begun, sentKeys, kept>>

FormsNext ==
    \/ \E i \in LoadSlots : ReadStored(i) \/ LoadArrives(i) \/ LoadFails(i)
    \/ Edit \/ StoredElsewhere \/ TypeKey \/ AskModels \/ ModelsArrive
    \/ \E p \in Providers : ChooseProvider(p)
    \/ Save \/ StoreSave \/ SaveArrives \/ SaveFails
    \/ ClearKey \/ Refresh \/ ChangeFilter \/ Act \/ ApplyPreset \/ Done

FormsSpec == FormsInit /\ [][FormsNext]_formVars

-----------------------------------------------------------------------------
(* Properties *)

\* The variables stay of their kinds.
FormsTypeOK ==
    /\ page \in Pages /\ inStore \in Settings /\ form \in Form
    /\ loading \in [LoadSlots -> [at : {"none", "asked", "answered"}, live : BOOLEAN,
                               own : BOOLEAN, saw : Settings]]
    /\ saving \in [at : {"idle", "sent", "stored"}, form : Form, clears : BOOLEAN]
    /\ doing \in {"idle", "action", "preset"}
    /\ models \in [of : MaybeProvider, asked : MaybeProvider]
    /\ versions \in 0 .. MaxVersions /\ begun \in 0 .. MaxFormAsks
    /\ sentKeys \subseteq Providers \X Providers
    /\ kept \in FormVersions

\* On the pages that load once, what the operator types with no request under way stays in the form
\* until the operator asks for something: no render, cancelled load or change elsewhere replaces
\* it. And a typed key goes to no provider but the one it was typed for, however answers, tabs
\* and saves follow each other.
FormsHold ==
    /\ kept # 0 /\ ~This.refetches => form.version = kept
    /\ \A sent \in sentKeys : sent[1] = sent[2]

\* What the operator types with nothing asked for stays in the form, on whichever page ("Set how
\* often it runs and what it asks the agent to review"): no load that a render began replaces it.
EditsStay == kept # 0 => form.version = kept

=============================================================================
