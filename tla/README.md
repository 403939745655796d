# Verification of SecretaryAI

TLA+ models of SecretaryAI: its worker (`src/apps/worker`), the pages of its web application
(`src/apps/web`) and its launchers (`src/secretary.py`, `src/scripts/setup`), with the TLC runs
that check them on small instances, and TLAPS proofs for every value of the constants.

    tlc -workers 4 -config jobs_races.cfg MCJobRaces      # any run: its cfg and its module
    for m in AgentJobs AgentRest ConversationTurns SettingsFiles Telegram Services Launcher Edges
    do tlapm ${m}Proofs.tla; done

`PROJECT.json` lists the runs, which source lines each definition models, the hazards the
properties are for, and the disagreements between code and documentation that were found.

## The system

| Component | State | Operations | What is hard | Here |
|---|---|---|---|---|
| Agent build jobs (`lib/agent-jobs`, `agent-job-queue`, `infrastructure`) | rows of `jobs`, `agent_jobs`, `agent_job_steps`, `agent_job_requirements`; BullMQ queue | create, resume, cancel, decide; the worker's handler of each plan step | no transaction anywhere: every handler interleaves with every other at each await; restarts; redelivery | modelled |
| Agent job executor (`lib/agent-job-executor`) | stored messages of each step, approvals asked for | model loop with tools, continued after decisions | decisions on calls of an earlier pass; passes that die and begin again | modelled |
| Settings files (`agent-job-settings`, `inference-settings`) | three JSON files and a lock file | load, update, reset | locking between processes, a lock left behind, reads without the lock, two files that belong together | modelled |
| Conversation turns (`turn-orchestrator`, `chat-persistence`, `conversation-decisions`, `conversation-model`, launch intents, requirement and tool approval turns) | conversations, messages, traces | a turn, streamed or not; an answer that decides something pending | which of several pending decisions an answer means; a stream that breaks off or is cut off | modelled |
| Tool executions (`lib/tools`) | tool execution rows | run, approve, deny | an approval decided twice, or while the tool runs | partly |
| Tasks and reminders (`task-runtime`, `channel-delivery`) | tasks, reminders | dispatch due reminders, update tasks | read, send and mark are three steps | modelled |
| Outbound channels (`outbound-channel-integrations`) | a row for each channel | send, test, settings | the health a send leaves; a send that worked and could not be noted | modelled |
| Heartbeat (`heartbeat-runtime`) | one configuration row with the next run | scheduled and manual run, settings update | read-modify-write of the row around a long model turn | modelled |
| Telegram (`telegram-integration`) | poll cursor in the configuration row | long poll, webhook, updates, settings | crash inside a batch; the cursor written back by others; two transports | modelled |
| Memory engine (`memory-engine`, `memory-queue`) | candidate jobs, memories, links | extract, merge, recall, edit, retry, reset | retries of what was already done; rows that vanish under a job | partly |
| Speech (`speech-runtime`, `speech-storage`) | recordings and samples on disk, their rows, voice profiles | upload, transcribe, listing, clean-up | files and rows written in two steps beside a clean-up | partly |
| Administration (`admin-runtime-core`) | all tables, the soul's file | persona, export and import, reset, maintenance | repairs in several statements beside every other handler | partly |
| Inference providers (`inference-settings`, `conversation-model`) | files and keys | resolve a model, ask it, stream | what a stream may do; whose key goes where | partly |
| Web application (`apps/web`) | client state | polling, selections, forms | answers out of order | partly |
| Launcher (`secretary.py`, `scripts/setup`) | two state files, child processes | install, start, stop, restart | stale pids, builds that fail, runners that die | modelled |
| Database schema and shared types | none | none | declarations | not modelled |

The worker process serves the HTTP routes, the chat turns, the Telegram and heartbeat loops
and the BullMQ workers on one event loop; the components share the Postgres database (and
nothing else, apart from the settings files). The web application and Telegram turn what a
person does into calls to the worker. Jobs report back through
`postAgentJobConversationUpdate`, which writes a chat message and delivers it to channels.

### What makes each component correct

* **Jobs** — a job is reported completed only when verified; the repair loop ends; every job
  that is not finished is worked on, in the queue, or waits for something a person can give;
  a cancel closes every step; a restart loses nothing.
* **Executor** — a call that needs an approval is executed only once it has it; a repair knows
  what it is to repair.
* **Settings** — an update is not lost, no reader takes a half written file for defaults, and a
  key goes to the endpoint it was saved with.
* **Turns** — one answer decides one pending thing; a persisted user message gets its answer; a
  streamed reply is a well-formed message and is stored as what it was.
* **Tool executions** — an approved tool runs once, a denied one never.
* **Reminders, channels** — each due reminder is delivered, and once; what a row says happened.
* **Heartbeat, Telegram** — a run does not undo a settings update; each update makes one turn.
* **Memory** — each fact has one entry; a finished job has done its work; a failed job says so.
* **Persona, speech** — the persona's row, file and active voice agree; no recording is removed
  whose file is there.
* **Web application** — what is shown is what was selected; what was typed stays; no key goes
  where it was not meant to.
* **Launcher** — a stop stops everything; nothing is taken for built that is not.

## Modules

| Module | Models | Run in |
|---|---|---|
| `AgentJobs` | the build jobs: rows, queue, worker, operators, failures | `MCAgentJobs`, `MCJobRaces` |
| `JobPromise` | what a build job promises: the abstract specification `AgentJobs` and `AgentPass` implement | `MCJobRaces` |
| `AgentPass` | the agent's passes inside one job: model steps, tool calls, approvals, stored messages | `MCEdges`, itself |
| `ConversationTurns` | the turns of a conversation, tool executions, launch proposals | `MCConversationTurns` |
| `ReplyStream` | one reply of the model: guard, stream, retry, storage | `MCEdges` |
| `TelegramIntegration` | polling loop, webhook, update handler, settings requests | `MCServices` |
| `Heartbeat` | scheduled runs, runs by hand, settings | `MCServices` |
| `Reminders` | tasks with reminders, dispatches, sends on every channel | `MCServices` |
| `MemoryEngine` | memory jobs, their queue, edits, recall, reset | `MCServices` |
| `SettingsFiles` | the settings of agent jobs and of inference in files | `MCServices` |
| `JobsConsole` | the page of the build jobs: list, detail, poll, actions | `MCServices` |
| `Launcher` | both launchers, the bootstrap and the service runner | `MCEdges` |
| `Persona` | the persona's row, soul file and voice profiles, export, import, reset | `MCEdges` |
| `SpeechMedia` | recordings and samples, listing, clean-up, reset | `MCEdges` |
| `DeskShell` | the desk: selection, histories, replies, approvals | `MCEdges` |
| `ConsoleForms` | the nine settings pages that keep a form | `MCEdges` |
| `MCAgentJobs`, `MCConversationTurns` | symmetry for TLC | |
| `MCJobRaces` | `AgentJobs` with a variable that remembers which jobs a cancellation has closed down | |
| `MCServices`, `MCEdges` | compositions, see *Runs* | |
| `AgentJobsProofs`, `ConversationTurnsProofs`, `SettingsFilesProofs`, `TelegramProofs`, `LauncherProofs` | theorems about the module of that name | |
| `AgentRestProofs` | theorems about `AgentJobs` under `OrderlySpec`: jobs at rest | |
| `ServicesProofs` | theorems about `Heartbeat`, `Reminders`, `MemoryEngine`, `JobsConsole` and the composition `MCServices` | |
| `EdgesProofs` | theorems about `Persona`, `SpeechMedia`, `DeskShell`, `ConsoleForms`, `ReplyStream`, `AgentPass` and the composition `MCEdges` | |

### AgentJobs

*State.* `status`, `started` and `current` are columns of `jobs` and `agent_jobs`; `step` is
the status column of the five `agent_job_steps` rows of a plan, numbered by their sequence;
`attempts` is the `attemptCount` in the verification step's `outputJson`; `reqs` is the
requirement rows. `queue` is the waiting list of the BullMQ queue. `evidence` and `repairs` are
history: nothing in the code reads them.

*Programs.* A handler reads some rows and then awaits one single-row statement after another.
So a process — the queue worker (concurrency 1) or an HTTP/chat request — holds in `todo` the
operations it still has to do, and one action does the first. `updateJobState` is two of them,
since it writes two tables. Branches that depend on something read later (`reload`, `steps`,
`dispatch`, `refresh`, `reread`, `settle`) and the agent passes (`agent`) are operations that
replace the program. All interleavings at awaits, a throw of any statement (`OperationThrows`)
and a process death between any two of them (`Crash`) are behaviours of the model.

| Action | Code |
|---|---|
| `Create`, `Resume`, `Cancel`, `Decide`, `ReReadJob`, `SettleDecision` | `lifecycle.ts`, `processing.ts` `decideAgentJobRequirement` |
| `TakeDelivery`, `LoadSteps`, `ReloadJob`, `DispatchStep`, `RefreshStep` | `processing.ts` `processAgentJob`, `recoverInterruptedStep` |
| `Plan` | `helpers.ts` `prepareInitialPlan` |
| `InspectStep`, `AwaitInference`, `AwaitRuntime`, `AwaitApprovals`, `StartAgent`, `ImplementationPass`, `VerificationPass`, `FinalizeStep` | `steps.ts` |
| `Do...` | the statements: `state.ts`, `requirements.ts`, `artifacts.ts` |
| `OperationThrows` | the catch of `processJob` in `infrastructure.ts`, and of the creation's enqueue |
| `Crash` | a restart; BullMQ hands a stalled delivery out again once, at the head of the queue |

*Abstractions.*
* What a probe finds (workspace, runtime, inference, a port, the agent throwing, the runtime
  limit) is chosen when it is needed, from the constant `Missing`; the choice is made where the
  handler would probe.
* An agent pass is one action with the outcomes `steps.ts` tells apart. Its edits of the
  workspace turn earlier evidence stale; a crash inside a pass is a crash before it.
* The two inserts of a creation are one step: a `jobs` row without its `agent_jobs` row is
  invisible to every query (`getAgentJobRow` joins both).
* `Decide` is restricted to requirements that are pending when the request is made, which is what
  the console (`jobs-console.tsx:713`) and the chat offer; they may be gone or decided by the time
  of the write.
* After the workspace probe the program re-enters the dispatch at its start; the code falls
  through to the same guards with the rows it just read again.
* The chat message at the end of an operator's request changes no modelled state and is left out.
  The worker's is kept (`Notify`), because it may throw after the last write and then gets a
  finished job marked failed.
* `draft_plan` has a handler, but no handler ever opens that step: it stays pending, and
  `executeDraftingStep` is left out.

### ConversationTurns

*State.* `execs` and `intents` are the rows of `tool_executions` and `agent_job_launch_intents` of
one conversation, in the order of their creation; `reqs` is the requirements of its build jobs
that wait for someone. `asked` and `answered` are the turns whose user and assistant messages are
persisted. `proc` is what each handler is about to do and the values it read: the message, the
row it picked, the workspace of the proposal it read. `runs` and `grants` of an execution, `jobs`
and `confirmed` of a proposal, `told`, `torn`, `shared`, `crowded` and
`broken` are history.

*Turns.* `resolveImmediateRuntimeTurn` asks the handlers of tools, approvals, requirements and
launches in this order, then the turn is plain chat. Each handler looks for what waits, awaits
`prepareChatTurn` (which persists the user message) and acts on what it found before: these are
the labels of `proc`, one action each. The routes of the console (`Click`) share
`decideToolExecution` with the chat.

| Action | Code |
|---|---|
| `Send`, `Click` | `server.ts` chat routes, `tool-executions-routes.ts` |
| `RouteTool`, `CreateExecution`, `RunTool`, `RecordRun`, `TraceRun` | `tools/context.ts` `handleToolAwareTurn` |
| `Decide`, `WriteDenial`, and again `RunTool`, `RecordRun`, `TraceRun` | `tools/context.ts` `decideToolExecution` |
| `RouteApproval`, `PrepareApproval` | `tool-approval-turns.ts` |
| `RouteRequirement`, `PrepareRequirement`, `Resolve` | `agent-job-requirement-turns.ts` |
| `RouteLaunch` to `Propose` | `agent-job-launch-intents.ts` |
| `PrepareChat`, `Reply`, `Answer` | `chat-persistence.ts`, `conversation-model.ts` |
| `Throw`, `Crash` | the catch blocks of `tools/context.ts` and `server.ts`; a restart |

*Abstractions.*
* A message is what the handlers' patterns make of it: a tool request, a yes, a no, a question
  about what is pending, or none of these; whether it reads like a build request; and the path it
  names. The two patterns of questions differ by a few words, which changes only which handler
  lets the message pass as none of these.
* The policy of a tool is chosen when an execution is created. A tool works or throws.
* What a decision on a requirement does to its job is in `AgentJobs`; here its row gets decided.
  Requirements wait from the beginning; none is added or deleted during a run.
* `CreateJob` is `createAgentJob` as a whole, and a failing one leaves no job that runs.
* The list an operator clicks in may be stale, so `Click` may name an execution already decided.
* Conditional branches that only word a reply, and the memory job of a turn, are left out.

### JobPromise

The build job as whoever asked for it sees it: `outcome` (open, completed, closed), whether a
verification has passed, how many verdicts there were and how many repairs were asked for. `Judge`
is a verdict; `Report` a change of what is reported, `completed` only of a verified job. The
refinement mapping in `AgentJobs` takes `outcome` from `status`, `verified` from the evidence and
`rounds` from `attemptCount`. `KeepsPromise` says that each operation of a handler is a `Judge`, a
`Report` or a stutter. It adds to the invariants that verdicts are never taken back, that the count
grows by one with each, and that a repair is asked for in the same write that counts it.

`AgentPass` implements it too (`PassKeepsPromise`), seen from inside the one job it follows: `outcome` is closed while
the job has failed, `verified` is its standing, `rounds` the attempts stored with it, and `repairs` the notes
of verifications that sent it back. A verification that ended with requests is a verdict that asks for no repair; the one that
blocks the job leaves notes nobody is sent back with.

### AgentPass

*State.* `stored` is `agentMessages` in the `outputJson` of the implementation and verification
step; `row` and `call` are the approval requirements and the tool calls they are about; `pass` is
the run of `runAgentLoop` under way. `ran`, `agreed` (approved at any time) and `turnedDown` (the agent was
told the call is denied) are history.

| Action | Code |
|---|---|
| `BeginPass` | the start of the two executors in `steps.ts`, `buildApprovalResponseMessages` in `agent-job-executor/loop.ts` |
| `AnswerApprovals`, `ModelStep` | `agent-job-executor/loop.ts`, with the tools and policies of the executor |
| `RecordRequest`, `SavePass` | the two executors in `steps.ts` after the pass, `collectVerificationBlockers` |
| `DecideCall`, `ResumeJob`, `PassThrows`, `PassDies` | decisions and resumes (`processing.ts`, `lifecycle.ts`), the catch, a restart |

*Abstractions.* A tool is what the policies tell apart (twelve classes; a command is in some of the
three lists of patterns, `Lists`). What the library does with approvals that are decided is external, modelled by its
contract: an approved call that has no result is executed, a decision on an unknown call throws. A model step
makes any number of calls that ask (`NewAsks`); of those that do not, one stands for all, and the order of
the calls within a step is left out. `DecideCall` writes whatever the row says, as `decideAgentJobRequirement`
does: a decided call can be decided again, also the other way.

### ReplyStream

*State.* The state of `createPromptLeakageTransform` in `conversation-model.ts` (`scannedText`, `bufferedDeltas`, `bufferMode`,
the open sections), what the browser was sent, and what is stored at the end. Actions are the
parts the provider's stream may bring (`SectionStarts`, `DeltaArrives`, `SectionEnds`,
`ProviderBreaks`, `StepFinishes`, `ReplyFinishes`), its close, the drafts of the way without a stream
(`Draft`, `DraftAgain`, `NoDraft`) and `StoreReply` (`chat-persistence.ts`).

*Abstractions.* A delta says one of four things: two signals of the notes, a list, or anything else.
`HeldDeltas` and `ScannedDeltas` stand for the 240 and 4000 characters of the guard; the signals of the notes
count wherever they stand in what it looks back on, so a text is what it says as a set. The order in which
the provider's library sends its parts is external: sections before the end of a step, then the end.

### TelegramIntegration

*State.* `row` is the row of `integrations` (enabled, mode, cursor, health); `pending` what Telegram
still keeps, `hook` whether it calls the webhook; `poller`, `work` and `request` what the loop, each
update handler and each request of the settings page is about to do, with the row it read. `fates`,
`turns` and `disturbed` are history.

| Action | Code (`telegram-integration.ts`) |
|---|---|
| `PollTick`, `PollClear`, `PollAsk`, `PollTake`, `PollSave`, `PollThrows` | `startTelegramPolling` |
| `Deliver`, `Receive`, `Understand`, `Turn`, `Reply`, `ReplyByVoice`, `HandlerThrows` | `handleTelegramWebhookUpdate`, from the loop or the webhook route |
| `Ask`, `UpdateSettings`, `TouchPresence`, `SyncWebhook`, `RecordSync`, `Reread`, `CheckHealth`, `RequestThrows` | the settings, presence, sync and status requests |
| `Write`, `Restart` | a person writes; the worker is restarted |

*Abstractions.* A bot token is configured. An update is text, a voice note or something else; what it
says is left out. Telegram hands out the lowest ids first and forgets what an offset confirms; this
and the refusal of `getUpdates` while a webhook is set are external.

### Heartbeat

*State.* `beat` is the row: enabled, next run (none, later, due), stored conversation, and one number
for prompt and interval. `runner` and `patch` hold what a run or an update has read of it.

`Tick`, `StartRun`, `TakeTurn`, `SaveRun`, `DeliverRun`, `RunFails`, `CatchRun` and `CatchThrows` are
`startHeartbeatLoop` and `runHeartbeat`; `AskForRun` is the route, `ReadSettings` and `SaveSetting` are
`updateHeartbeatIntegrationSettings`; `HourComes` and `RestartBeat` are time and restarts. The flag `running` is local
to the loop: runs by hand do overlap with it, here as there.

### Reminders

*State.* `task` (status, channel, time, delivered, error), the `enabled` and health columns of each
channel, and what every process that sends has still to do. `mail` and `refused` record what went out.

| Action | Code |
|---|---|
| `CreateTask`, `FindTask`, `UpdateTask` | `tools/executors.ts` `task_create`, `task_update` |
| `Dispatch`, `Announce`, `SendTest`, `TakeItem`, `Finished` | `dispatchDueTaskReminders` and `deliverImportantUpdateToEnabledChannels` of `channel-delivery.ts`, the test routes |
| `SendByTelegram`, `SendOutbound`, `RecordStatus` | `maybeDeliverTelegramAssistantMessage`, the senders of `outbound-channel-integrations.ts` and its `handleSendResult` |
| `MarkDelivered`, `TraceDelivery`, `NoteError`, `SetEnabled` | the updates of the task, its error, the settings |
| `SendThrows`, `StatusThrows`, `MarkThrows`, `Abandon` | failures of the service and of each write; a restart |

*Abstractions.* Discord, Slack, email and SMS differ in their credentials only. A time is later or due;
it is parsed outside of the model.

### MemoryEngine

*State.* The message's job row, the queue, the entries (key, score, pinned, suppressed, recalled), their
links to messages, and the number of open tasks with the title the messages name.

| Action | Code |
|---|---|
| `Say`, `Enqueue` | `enqueueTurnMemoryFollowup` |
| `TakeJob`, `LookUp`, `WriteEntry`, `LinkEntry`, `FindOpenTask`, `CreateTaskRow`, `FinishJob`, `JobThrows`, `MarkJobFailed` | `processMemoryCandidateJob`, the queue's worker |
| `Recall`, `Touch` | `retrieveRelevantMemories` |
| `PatchMemory`, `FindMemory`, `WriteMemory`, `LookForTask`, `AddTask`, `CloseTask` | `updateMemory`, the `memory_write` and task tools |
| `Reset`, `FlushQueue`, `Truncate` | `resetSecretaryState` |
| `WorkerDies` | a restart; BullMQ hands a stalled job out again once |

*Abstractions.* The extractors' patterns and the model are a choice of facts for each message. A foreign
key makes a write fail whose row a reset has removed.

### SettingsFiles

*State.* The three files (absent, being written, whole; the settings of agent jobs also in their old
form), the lock file, and what each request has read. A value is the number of the request that saved it.

`Save`, `Load`, `TryLock`, `ReadJobs`, `BeginWrite`, `EndWrite`, `Unlock` are `agent-job-settings.ts`;
`Link`, `ReadConf`, `ReadKeys`, `BeginConf` to `EndKeys` are `inference-settings.ts`; `Die` is a restart and
`DeleteFiles` `resetSecretaryFileBackings`. A file is written in place, so a write is two actions.

### JobsConsole, DeskShell, ConsoleForms

The browser's side of three kinds of pages. A request is a record that the worker answers at its own
time, and its answer a further action; nothing orders two answers.

* `JobsConsole` (`jobs-console.tsx`): `status` is what the worker has, `listed`, `chosen`, `shown` what the page
  has. `ListArrives`, `DetailArrives` and their failures are `loadJobs` and `loadDetail`, `PollJobs` the timer, `Press`,
  `ActionDone`, `Submit`, `Created` the actions. `PostBreaks` is a request that fails after the job was
  written. `JobTurns` is what jobs do elsewhere: it is `AgentJobs` seen from the page, with four classes of
  statuses. `SweepStart`, `SweepDeletes` and `SweepCancels` are the administrator's maintenance
  (`maintenance.ts`), which reads the jobs first and deletes or cancels them later, whatever they do by then.
* `DeskShell` (`desk-shell.tsx`): `Select` is `setConversationId` with the effect that loads the history and cancels
  the load before; `HistoryArrives`, `Send`, `Told`, `Settle`, `Breaks` are histories and replies, `Decide`,
  `Post`, `Decided` approvals. The playback of replies is left out.
* `ConsoleForms`: nine settings pages by what sets them apart (`TelegramPage` to `GeneralPage`): whether every
  render loads again, whether an answer replaces the form, what else can be asked for. On the Telegram,
  outbound, heartbeat and agent pages `refresh` is made anew by each render and their effect depends on
  it, so they never stop loading; `Renders` models that. Buttons enabled a little early only allow more.

### Persona, SpeechMedia

* `Persona` (`admin-runtime-core/persona.ts` and `import-export.ts`, `persona-soul.ts`, `speech-runtime.ts`): each request about the persona
  starts with the repair of `ensureDefaultPersonaRecord` (`EnsureRows` to `Normalise`), then updates (`ChooseVoice`,
  `WritePersona`, `SaveSoul`), imports (`Restore`) or resets (`Truncate`). The soul's file may be edited at any time.
* `SpeechMedia` (`web-speech.ts`, `speech-runtime.ts`, `speech-storage.ts`, `maintenance.ts`): a recording is a file, then a row, then a
  transcription and a turn. The listing forgets samples whose file is gone, the clean-up deletes rows whose file is gone,
  the reset empties the tables and then the directories. Keys of files are never reused.

### Launcher

*State.* Docker, what each part was built from (`source`, `dist`), the newest time each launcher finds of it
(`mtime`), the state file of each launcher, the service runners and the services they have started, and the
step each terminal's command is at. `disorder` and `stopped` are history.

| Action | Code |
|---|---|
| `ReadState`, `Stat`, `BeginBuild`, `EndBuild`, `BuildFails`, `UpDocker`, `DownAndRetry`, `UpFails`, `SaveState` | `run_install` of `secretary.py`, `ensureBootstrap` of `secretary-dev-orchestrator.mjs` |
| `CheckPid`, `SpawnRunner`, `RecordPid`, `RunnerEnded` | `start_app_services`, `startCommand` |
| `Look`, `KillRecorded`, `AwaitEnd`, `KillPorts`, `KillPatterns`, `Forget`, `DownDocker`, `Unlink`, `Interrupt` | `stop_all`, `stopManagedProcesses` |
| `SpawnService`, `ExitAfterShutdown`, `RunnerEnds` | `service-runner.mjs` |
| `Change`, `LauncherDies`, `RunnerDies`, `Reboot` | edits of the sources, deaths of a command between two steps, kills, reboots after which a pid belongs to somebody else |

*Abstractions.* Versions stand for mtimes; an edit, removal or restored file may leave the newest time as it was or
lower (`Change`), and a package never changes it. `DownDocker` may leave the containers up, `Unlink` the file:
`secretary.py` ignores both failures. A start may die between spawning its runner and recording it. Commands are given one after the other: nothing in the
launchers keeps two apart. A service that dies alone is left out: nothing restarts it.

## Runs

| Run | Question | Bounds |
|---|---|---|
| `jobs_races` | safety with everything racing everything, the refinement of `JobPromise`, and whether a cancelled job stays closed | 1 job, 2 operators, 2 requests besides the creation, 1 approval, 1 fault, 2 verification attempts; of the probes, the workspace may fail |
| `jobs_at_rest` | does each request to a job at rest bring it to rest in a sane state? | 1 job, 3 requests, up to 2 approvals in a pass, all probes but the port may fail |
| `turns` | what do rows, runs and messages say of each other, whoever overlaps? | 3 messages, 1 click on the console, 1 crash or failure |
| `services` | is what the background services keep in rows and files true, and do they go on? | Telegram: 1 operator with 2 requests, 1 webhook call, 2 updates, batches of 1; heartbeat: 1 run by hand, 1 patch, 2 hours, 2 faults; reminders: 1 task, 2 dispatches, 3 requests; memory: 2 messages, 1 fact, 1 curator, 3 edits; settings: 2 savers, 1 loader, 1 linker, 1 turn, 2 requests, 2 attempts at the lock; console: 2 jobs, 1 change of one of them or 1 maintenance action, 1 click, 1 failed request; one fault each |
| `edges` | the same of the parts around them | launcher: 1 terminal, 3 commands, or 2 and 1 edit, 1 death or failure; persona: 2 requests that overlap and 1 after them; media: 2 recordings, 1 loss, 2 clean-ups; desk: 2 conversations, replies and clicks; forms: each of the 9 pages with 2 requests, 3 versions; replies of 3 deltas in 2 sections; agent passes with 2 calls that ask, in every mode, 1 fault |
| `resume_stuck`, `restart_wedges`, `ghost_approval`, `denied_but_ran`, `launched_elsewhere`, `repair_blind`, `forms_reload` | one disagreement with a doc or message each, see below | the smallest instance that shows it |

### Jobs

Jobs share nothing but the queue and the worker, so one job meets every interference: the
worker's own (duplicate and repeated deliveries) and that of two operators. Two attempts are
enough for one repair pass and its exhaustion. `MaxReqs` bounds the requirement rows ever made,
`MaxCalls` the requests other than creations, `MaxFaults` the crashes and failed operations;
bounds appear in guards, and nothing else depends on them.

`jobs_races` runs under `WatchedSpec`, which is `Spec` for all that the code has. `CompletedIsVerified` and `KeepsPromise` hold however stale
the rows are a handler works from. `jobs_at_rest` runs under `OrderlySpec`: requests are made
only of jobs at rest and are over before the worker takes the next delivery. Its properties are
those that stale reads or crashes do break — `restart_wedges` shows it for `NotWedged` — so that
run says what the handlers guarantee when nobody interferes, for every sequence of requests and
every probe that fails on the way. In particular `HandoffIsFresh` (the evidence of a completed
job is younger than the last pass that edited the workspace) is a claim about that environment.

`CancelIsFinal` is about every interference again, in `jobs_races`. A cancel during a step of the worker is
overwritten by the handler's later writes, so the job's status says little. The property says what the order of the
writes, steps before job, does give: once every step of a job is closed, one of them cancelled, and nobody is at
the job, no delivery, resume or decision opens a step again, also if the cancel broke off half way. `MCJobRaces`
remembers the jobs this has happened to (`closed`); its `WatchedSpec` is `Spec` with that variable beside it.

### Turns

Three messages are what it takes to propose, interfere and decide, or to have two things wait
when an answer comes; the fourth actor is the console. In `turns` two properties hold throughout:
`MarkedWhenDone` (a row is marked after what it stands for; an execution that needs no approval is marked before,
and then its own turn is about to run it or broke off) and `RunsAreGranted` (no run without a decision to run).
The code reads, awaits and writes without a transaction or a conditional update, so two decisions at once do
run a tool twice. Handlers overlap and break off in the run, and the other four properties say how far the
damage goes. Each excludes only the very object it happened to:

| Property | Of every | But not of one that |
|---|---|---|
| `RecordsAgree`: run once, or never if it waits or was denied | execution nobody is deciding | two handlers decided at once, or whose handler broke off between run and mark (`torn`) |
| `LaunchedOnce`: one job if launched, none if not | proposal no turn has in hand | two turns had in hand at once, or whose turn broke off (`shared`) |
| `TurnsAnswered`: it has its answer | message whose handler is done | its own handler broke off (`broken`), or found its execution decided by somebody else |
| `OneProposal`: at most one waits | moment | follows two turns that were between cancelling and adding at once (`crowded`, until proposals are cancelled with nobody adding one) |

### Services and edges

The parts composed in `MCServices` share no row, no file and no process, and neither do those in
`MCEdges` (persona and recordings both touch voice profiles, but different columns of them). An
interleaving of two parts is therefore one behaviour of each, and shows nothing that each alone does not. A
behaviour here follows one part, chosen at the start, while the others stand still: the run covers the union
of their behaviours and not their product, and every property is about one part's variables. Where two
parts do meet — a job and the console, a pass and its job, memory and a reset — they are in one module.

What holds throughout, with every fault and overlap the bounds allow:

* `NothingForgotten` — the poll cursor passes no update whose handling has not ended, although requests
  write the whole configuration back as they read it.
* `OneEntryPerFact`, `CompletedIsRemembered` — through redeliveries, failures, edits and resets.
* `RecordingsKept`, `HistoryFits`, `FormsHold`, `ReplyHolds`, `StampHonest`, and the first conjuncts of
  `ApprovedOnly` (the second needs that no pass is lost) and of `RemindersHonest`.

What holds unless something the code does not guard against happens, which a history variable records:

| Property | Holds until | Because |
|---|---|---|
| `OneTurnEach` | `disturbed`: a fault, a cursor written back from an older read, requests that overlap, a transport changed with updates under way | the handler keeps no record of the updates it has seen |
| `KeepsBeating` | `mixed`: a run or patch read the row while another was to write it, or one broke off | all write back what they read |
| `RemindersHonest`, second part | `muddled`: dispatches overlapped, or a write after a send failed | a reminder is sent before it is marked |
| `MemoryInOrder` | `crossed`: edits overlapped, a reset met a job, the worker died | edits write both flags as read; a job does not look whether its message is still there |
| `JobsEnd` | `crossed`; and not of a job whose mark `failed` could not be written either (`lost`) | the catch of the queue's worker and of the enqueue may throw themselves, and nothing looks at the row again |
| `NoUpdateLost` | `spoilt`: somebody without the lock wrote where others did, half a file was read, the worker died | loaders write defaults without the lock; the lock of a dead worker stays |
| `KeyFitsHost` | `tangledUp`: savers of inference overlapped, or one broke off or met a reset; and not of a turn that a save or reset met (`overtaken`) | two files, no lock: a turn that reads between the two writes does send the new key to the old host, or the other way |
| `LauncherInOrder`, `StopIsComplete` | `PyAlone`: commands of the orchestrator or in the foreground were used, or a start died before it recorded its runner. Any other death or failure is left in, except that runners are then not promised their infrastructure and, on Windows, services may outlive a stop | the launchers do not know of each other, and no pattern finds the runner |
| `PersonaHeals` | is about the end of a request nothing overlapped (`settled`) | a repair is several statements |

Each condition names the interference the code does not guard against, and leaves the rest in: turns
that fail in `KeepsBeating`, calls that throw in `MemoryInOrder`, sends that fail in `RemindersHonest`,
savers that overlap under the lock in `NoUpdateLost`, turns that overlap saves in `KeyFitsHost` (what they leave
in use afterwards is checked, what they send themselves is not). What the condition names is what the code does not keep.

`FormsHold` is in two parts. No key goes to a provider it was not typed for on any page; that a draft stays is
claimed of the pages that load once. The Telegram, outbound, heartbeat and agent pages do lose it: `forms_reload`.

The bounds let each hazard happen: an update per batch makes the cursor move between batches; two dispatches
may hold one due task; two messages with one fact make the second job find the first one's entry; two savers
compete for a lock that is given up after two attempts; three launcher commands are a start, a second
start and a stop, and an edit, which takes the place of a command, falls between two builds or into one; two overlapping requests leave a broken persona for the third to repair; two conversations are enough
for a history that arrives too late; three deltas fill the guard's buffer, pass it and slide out of what
it looks back on.

### Fairness

* `EventuallyAtRest` (`jobs_at_rest`) assumes weak fairness of each process' own steps: the event loop runs on and an idle
  worker takes the next delivery. Nothing forces an operator to ask for anything, and no outcome of a probe or
  a pass is assumed to be fair. It shows that neither the repair loop nor recoveries and decisions feed the queue forever.
* `PollingCatchesUp`: weak fairness of `PollProceeds`, the polling loop and the handler it awaits. The loop is a timer that
  is set again after every tick, thrown or not. That polling stays enabled and no webhook stands is part of the property.
* `DueRuns`: weak fairness of `LoopProceeds`, the interval timer of the heartbeat and the run it awaits.
* `JobsEnd`: weak fairness of the queue's worker (`Extract`) and of requests already begun (`Continue`).
* `ShownCatchesUp`: weak fairness of `PageProceeds`: requests end, in an answer or a failure, and the timer of a visible
  page fires. It is one condition for all of them, weaker than one each.

### What the failing runs show

* `resume_stuck`: a job in `waiting_for_runtime` at its implementation or verification step (or
  `blocked` for want of inference) cannot be resumed. Resume makes it `queued` and enqueues it,
  but the step keeps its status and the dispatch does not execute it. The completion plan
  (`docs/plans/agent-jobs-completion-plan.md:106`) wants it to "resume cleanly".
* `restart_wedges`: after a restart between a step's completion and the update of the job, the
  job points at a completed step; every later delivery is ignored, also after a resume. The same
  plan says the job "survives ... worker restarts" (`:107`).
* `ghost_approval`: a verification that found a port closed and is resumed counts the port
  requirement of the rows it read before deleting it, and then waits for an approval that does
  not exist.
* `denied_but_ran`: a no in the chat, whose execution the console approved after the handler read
  it, is answered "I left it blocked and did not run anything" (`tool-approval-turns.ts:78`).
* `launched_elsewhere`: a proposal moved to another folder, and confirmed in words that name this
  folder, is launched in the first one: a message without a path resolves to the payload's path,
  which no update touches (`agent-job-launch-intents.ts:214`).
* `forms_reload`: on the heartbeat page an effect depends on a function each render makes anew, so the page never
  stops loading, and each answer replaces what was typed (`heartbeat-settings-section.tsx:46`). The Telegram and
  outbound pages have the same effect (`telegram-settings.tsx:129`, `outbound-channel-settings.tsx:88`).
* `repair_blind`: a repair pass continues the stored messages of the implementation, and a pass with messages is given no
  prompt. The verifier's notes, "Verification blockers to address:", are in the prompt only, so the agent
  that is to repair is not told what (`steps.ts:478`, `agent-job-executor/loop.ts:57`).

The models contain more of this kind, which follows from single lines and is not given a run. It is why some
properties are no stronger:

* a denial of the only pending requirement queues the job, while its message says the job will stay blocked
  (`processing.ts:131`, `:153`);
* a job cancelled while the worker is at it is reported cancelled (`lifecycle.ts:318`), and the handler's next writes
  make it running again (`steps.ts:653`);
* a failing `stack:down` is ignored: the stop removes its state and logs "complete" with the containers up
  (`secretary.py:739-755`);
* a start that dies after `Popen` and before `save_state` (`secretary.py:645-648`) leaves a runner that no later stop
  finds: its pid is nowhere, and the patterns (`:736`) name services only. On Unix its services are
  killed, the runner stays;
* an edit that leaves the newest time below `apps/worker/src` as it was (a deleted or restored file), or one in `packages/`,
  is not built (`secretary.py:384`, `:434`).

## Proofs

Each theorem is for any values of the constants that satisfy the `ASSUME`s of its module (TLC evaluates
them on each run). Besides types and bounds these say that names do not collide: a launch's path is none of
the markers, no task is a channel (`RemindersAssumption`), no fact is called "none" (`MemoryAssumption`), no slot
for an action is the form for new jobs (`ConsoleAssumption`). `PersonaAssumption`
relates two bounds of the model: the requests among which some overlap are some of all (`MaxRaces <= MaxVisits`).

Most properties are not inductive, for one reason: a process acts on what it read before an await. Each
inductive invariant therefore says of each process, at each of its places, what is still true of what it
has read; TLC has checked each on an instance of its module before it was proved.

Properties that hold unless something the code does not guard against happens (see *Runs*) get an
invariant of the form `~mixed => InTurn`: the step that sets the history variable owes nothing, every
other one has to keep `InTurn`. The condition is weaker than "nothing overlaps": requests that overlap
without writing what another has read are among the behaviours the theorems are about.

### AgentJobsProofs

For any sets of jobs and operators, any bounds and any `MaxAttempts > 0`:

* `TypeCorrect`: `Spec => []TypeOK`
* `CompletionIsVerified`: `Spec => []CompletedIsVerified`
* `RepairsStayBounded`: `Spec => []RepairsBounded`
* `PromiseKept`: `Spec => KeepsPromise`, the refinement of `JobPromise`
* `CancelledForGood`: `WatchedSpec => []CancelIsFinal`

*Argument.* Neither invariant is inductive: what a handler is still going to write was decided
from rows that may have changed since. The invariant therefore speaks about programs.

* `ProgramsSound`: in every program, each operation that claims the job is verified (completes
  it, or opens `finalize_handoff` or makes it current) comes after a passing `verify` operation of
  the same program, unless evidence exists already; and only the worker's program writes the
  attempt count, at most once, with the count it read plus one, asking for a repair only below
  `MaxAttempts`.
* `HandoffOpened`: if `finalize_handoff` is open to execution, evidence exists.
  So the handler of `finalize_handoff`, a resume or a decision that writes back the current step
  it read, and a recovery all start with sound programs.
* `RepairsCounted`: `repairs` never exceeds `attempts`, and stays below `MaxAttempts`.

`IInv` is the conjunction of these with `TypeOK` and `CompletedIsVerified`. Each operation keeps
it because removing the first operation of a sound program leaves a sound one once its effect is
there (`AdvanceKeeps`); each handler keeps it because the program it starts is sound (the
`...Soundly` lemmas). `NextKeeps` puts the actions together.

`PromiseKept` needs no stronger invariant: by `ProgramsSound` an operation that reports a job completed
finds evidence, and the one that writes the attempt count adds one and asks for a repair only while a
round is left; every other one leaves the mapped variables alone or is a `Report`.

`CancelledForGood` is about what comes after the moment a cancel has closed a job down. `Shut`: the steps of the
job are closed, one of them cancelled; `StaysDown`: they are, and every program at the job is of operations that
open no step (`AllMild`), a dispatch only on steps it read closed. Nobody is at the job when it is closed down, so
no older program is left, and each program that is begun afterwards reads the closed steps.

### AgentRestProofs

For any sets of jobs and operators, requests, missing probes and bounds, while requests come to jobs at rest
(`OrderlySpec`) and nothing has failed (`faults = 0`; the run has `MaxFaults = 0`):

* `NothingForgotten`: `OrderlySpec => [](faults = 0 => NoForgottenStep)`
* `HandedOffFresh`, for `HandoffIsFresh`; `OneRunning`, for `OneStepRunning`; `NeverWedged`, for `NotWedged`, each in the
  same form

The second condition cannot be dropped: `restart_wedges` shows one crash leave a job that `NotWedged` excludes.

*Argument.* The rows of a job alone have no inductive invariant: a handler awaits one statement after another and
leaves the rows in disorder between them, a step completed while the job points at it, a job queued whose step
is not reset. What can be kept is about the row that the handler is going to leave.

* `Leads`: the program of a process leads from the row of its job to some row `R`. Every operation left agrees with
  `R`, and each column that differs from `R` is still to be written (`Heads`); a branch comes last, and
  what it will read is in `R`.
* `Sane`: `R` is in order. Only the current step runs; it is not completed, the steps before it are, and the
  handoff is not begun before its turn (`InPlan`); a plan is there as a whole and cancelled as a whole; the
  evidence is fresh once the handoff is the current step.
* `Served`: if `R` reads active with a step to execute, a delivery waits or the program ends in an enqueue or
  in work on the job.
* `RestInv` says so of each job, with one process at most at each; with no process, the row is `R` itself.

Each statement keeps `RestInv` because taking it off leads to the same `R`. A handler keeps it because the
row it starts from is sane, which it may rely on since it is alone with the job, and because each of its
programs leads to a row that is sane again. TLC has checked the invariant, with `R` computed from the program, for two
operators on 195,315 states.

### ConversationTurnsProofs

For any finite and disjoint sets of turns and clicks, any paths
and any number of failures:

* `TurnsTypeCorrect`: `Spec => []TypeOK`
* `MarksAreTrue`: `Spec => []MarkedWhenDone`
* `RunsStayGranted`: `Spec => []RunsAreGranted`

*Argument.* What a row says is true because of what its writer has just done, and writers overlap.
The invariant gives each handler what it relies on after its awaits, in a form that no other
handler can take away, since rows are only added and runs and jobs only grow.

* `Picked`: the row a handler picked exists (rows of the three tables are never deleted here).
* `DidIt`: a handler about to record a run that worked has made one; a handler about to mark a
  proposal launched has created its job. This gives `MarkedWhenDone`.
* `InPlace`: a request of the console only goes through the steps of a decision.
* `RunsCovered`: the runs of an execution and the handlers about to run it, `Runners`, are
  together no more than its grants. `RunsAreGranted` alone is not inductive: a run is granted when
  it is decided, and other handlers may decide and run in between. That two handlers both find the
  row pending and both run its tool is allowed: each is one grant.

`StepKeeps` says that a handler may move on if it is sound where it goes; each action is brought
to it, most of them through `MoveKeeps` (no row changes), `WriteKeeps` (one execution changes) or
`ProposalsKeep` (proposals change).

Of each row and message its own handlers have not torn or shared (see *Runs*), whoever overlaps with them, also

* `RowsTellRuns`: `Spec => []RecordsAgree`
* `OneLaunch`: `Spec => []LaunchedOnce`
* `YesIsUnambiguous`: `Spec => []OneProposal`
* `EachMessageAnswered`: `Spec => []TurnsAnswered`

*Argument.* Each has an invariant of its own on top of `IInv`, about one object and the handlers that have it in hand,
so that all others may do what they like to theirs.

* `RowTrue(e)`, unless `e` is `torn`: one handler at most works on the execution (`Works`); while it does, the row
  and the runs are as its place in the program says (`Shows`); when nobody does they agree (`Agrees`).
  `MarksAreTrue` takes its third part, about executions that need no approval, from it.
* `ProposalTrue(i)`, unless `i` is `shared`: one turn at most has the proposal in hand (`Holds`), which has a job only
  when it is about to be marked (`Handled`); in nobody's hand it is as its mark says (`Launched`). Being superseded
  meanwhile changes neither (`Spared`).
* `AloneInv`, unless `crowded`: who is about to add a proposal is the only one and none is pending.
* `Owes(t, h)`: a turn has asked when it leaves `Before`, and when it is done has its answer, broke off, or found
  its execution decided (`Decided`), which stays so (`DecisionsStay`).

### TelegramProofs

`NoUpdateForgotten`: `TelegramSpec => []NothingForgotten`, for any numbers of updates, operators, webhook
calls and faults and any batch size. What a handler holds was read long ago, so the invariant is about
every copy of the cursor there is:

* `SentInOrder`: ids are given in ascending order, so what is below a sent update was sent.
* `CursorsCovered`: every update at or below a cursor — in the row, in the loop's copy of it, in each open
  request's — has been handled. A write of any of them keeps that, whichever is older.
* `BatchCovers`: while the loop works on a batch, what is at or below `next`, or before an update of the
  batch, was handled or is in the batch still. So saving `next`, with an empty batch, keeps `CursorsCovered`.

`OneTurnForEach`: `TelegramSpec => []OneTurnEach`, while not `disturbed`. The handler keeps no record of what it
has seen, so an update makes a second turn as soon as it is handed out twice.

* `HandedOnce`: an update that is being handled is so by one handler, and its handling has not ended;
  `TurnsCounted`: one that made a turn is done or at its reply.
* `OneTransport`: while Telegram calls the webhook it keeps nothing that was handled; while it does not, no
  webhook call is under way, and the loop takes from its batch.
* `CursorKept`: no copy of the cursor is ahead of the row's, and what Telegram keeps although it was handled is
  below what the loop confirms next. So the next batch holds nothing that was handled before.

### SettingsFilesProofs

* `LockedUpdatesLast`: `SettingsSpec => []NoUpdateLost`. `LockHeld`: a saver past the lock is its owner, so
  there is one at most. `LoadersRead`: a loader never waits for the lock and writes defaults only.
  `Unspoilt`, while nothing is `spoilt`: whoever writes finds everybody else not past the read
  (`WritesAlone`), a file that is not being written holds what was saved last (`FileIsLast`), and so does
  what somebody has read and will write (`ReadIsLast`).
* `KeysGoHome`: `SettingsSpec => []KeyFitsHost`. `SpeakersRead`: a turn writes nothing. `Unmet`: while a turn that no save
  has met is under way, no saver is, so it reads a pair; turns may overlap each other and saves as they
  like. `Untangled`, while savers do not overlap: one is under way at most (`OneLinks`), the host and key it holds are what is to
  be saved (`LinkersHold`), each file has what was saved last unless that request has begun to write it
  (`ConfFits`, `KeysFit`), and every pair in use was saved (`PairsFit`).

`TelegramProofs` and `SettingsFilesProofs` also have the kinds of all their variables (`TelegramTypes`, `SettingsTypes`),
which the invariants above need in part only; `ServicesTyped` rests on them.

### ServicesProofs

* `BeatGoesOn`: `HeartbeatSpec => [](HeartbeatTypeOK /\ KeepsBeating)`. While not `mixed`: whoever is between the
  read and the write of the row is alone there (`OneHolder`), and what it read is in the row still, but for an
  hour that came (`RunsReadFresh`, `PatchesReadFresh`). `HoursPay` counts the run that was started, or that
  the loop will find due, against the hours that came; `RoomsCounted` the conversation a run has made and not yet
  stored against the faults.
* `RemindersTell`: `RemindersSpec => [](RemindersTypeOK /\ RemindersHonest)`. `Accounted`: who is about to mark a task
  delivered has sent it, or was told it is not for Telegram; that is kept by all overlaps. While not `muddled`,
  `SentOnce`: a task that is still to be done by a dispatch has not gone out, unless it is in hand and about to be
  marked; one that is in no dispatch has gone out only if it is marked. So what a new dispatch reads as due
  has not gone out.
* `FactsAreKeptOnce`: `MemorySpec => []OneEntryPerFact`. `JobsAreNamed`: what is enqueued or worked on is the job of a
  message; `StillUnknown`: a fact which the look-up did not find and which is still to be written has
  no entry. Nobody but the one worker inserts entries; a reset only removes them.
* `CompletedJobsRemember`: `MemorySpec => []CompletedIsRemembered`, whatever overlaps. `WritesAll`: of each fact of its message
  the worker has yet to write an entry, is about to link the one it wrote, or has linked one; `FoundIsThere`: an entry it
  found is that of its fact still. Both hold unless the message was deleted, and then its job is (`ErasedIsGone`).
* `MemoryKeepsOrder`: `MemorySpec => []MemoryInOrder`. While not `crossed`: one edit is between its read and its write and
  what it read is there (`OneEdit`, `EditReadFresh`), who has found no open task is the only one to add it
  (`OneTask`), and the worker is at no message that was deleted (`NoneErased`).
* `ServicesTyped`: `ServicesSpec => []TypesOK`. A step of the composition is for each service one of its own or none
  (`EachServes`), so each keeps its kinds. Most come with the invariants above. The memory's need `WrittenKinds` (the worker is about to
  link an entry only once it has written one; that the fresh one exists is the guard of the write). The page of
  the jobs needs `ChainsKnow`: a chain that asks for a detail, or posts an action, has the job and the verb it is
  about, whatever lists and selections arrived meanwhile, so that no answer is applied to no job.

### LauncherProofs

* `StampsAreTrue`: `LauncherSpec => []StampHonest`, for both launchers, with every fault and edit. `StampsHonest`: no time that a
  launcher finds is later than the last change, no stamp in a file or in a command's copy of it either, and one that
  is the time of the last change means the output was built from it.
  `BuildsHonest`: the time a build was begun with is not above the sources it reads, and these are not below any stamp there is; so a
  build that replaces the output while somebody's stamp is current replaces it with the same version.
  `OneBoots`: there is one build at a time, as the commands are given.
* `NothingOutlivesStop`: `LauncherSpec => []StopIsComplete`, and `OneRunnerRecorded`: `LauncherSpec => []LauncherInOrder`. While
  `PyAlone` (no other launcher, none in the foreground, no start that died before it recorded its runner):
  `OneAfterTheOther`; `RunnerKnown`: a runner that is alive is the recorded one, or
  its command is about to record it, and it has its infrastructure, unless something failed or that is being brought
  up again; `FreshAt`: what the command has read of the
  file is there and what it has done stays done (no runner after the wait; after `down` no container, unless
  it would not go); `StoppedIsQuiet`. All of it holds through stops that die half way, failing builds and failing
  `stack:up`. The services need one argument for each platform: `UnixServices` finds them by name, which holds
  whatever died; on Windows, unless something died, they go with their runner (`WindowsServices`).

### EdgesProofs

* `OneRequestHeals`: `PersonaSpec => []PersonaHeals`. Of a request nothing overlaps, `Repaired` says at each of its places what
  it has put right so far: the row, the file and the row's soul, the voice it has found, that no other is
  active. `Routed` says which requests are at which places. Nothing is assumed of what it finds.
* `RecordingsStay`: `MediaSpec => []RecordingsKept`, for any uploads, profiles and lost files.
  `WrittenFirst`: a row, and an upload that is about to make or mark one, is of a file that was written;
  `GoneForGood`: so is what the clean-up looks for, and a file it has missed is never there again, since
  later files have larger keys. So what it deletes has no file.
* `HistoryAlwaysFits`: `DeskSpec => []HistoryFits`, for any conversations and any numbers of replies and
  clicks. `LoadsFit`: a load that was not cancelled is of the selected conversation; `MarkFits`: what is
  marked as loaded is what the pane was made with, or that was empty; `RepliesBelong`: a reply that was
  sent belongs to a conversation, so that selecting it begins a load or finds the mark.
* `FormsKeepDrafts`: `FormsSpec => []FormsHold`, for any providers and numbers of changes. `KeyOfForm`: a typed key is of the provider
  the form shows, since changing it empties the key, and what the worker answers holds none. `NothingReplaces`:
  while a draft is to be kept, a page that loads once has no load, save or action under way whose
  answer would replace it (`OwnLoads`: nor does it begin any by itself).
* `OnlyApprovedRun`: `PassSpec => []ApprovedOnly`, for any limits, modes, calls, decisions and faults.
  `RowsFollowCalls` and `RowsToWrite`: a row is made once, for a call that was made and has none, so a
  number is never used for a second call; `PassAtWork`: a pass is one of a step that has passes; `AllAgreed`: a row that reads
  satisfied, and what a pass was given as approved, was approved at some time, though the row may be decided again
  meanwhile. So what is executed was approved, also when the pass died before its messages were stored. For the second
  part, that the first answer stays: a pass is given no call twice (`GivenFits`), goes on from what is stored
  (`AnswersGoOn`), and what was run or turned down is answered in the conversation of its step (`AnswersStay`) as long as no
  pass is lost. A lost one may have run a call whose row is denied by the time it is begun again.
* `RepliesHold`: `ReplySpec => []ReplyHolds`, for any numbers of deltas and sections and any sizes of the buffer and of what
  the guard looks back on. `Flowing`, until the guard cuts the stream off: what was sent is a message, with the
  provider's sections open in it, and either all the model has said is held still, or nothing is and what the guard
  looks back on is the end of what was sent (`Follows`: its words are at increasing positions, and whatever else the
  model said is before them). A leak within what the guard looks back on would therefore be one in its window, which it does not let
  pass. `Marked`: the reply has the fixed text if and only if its mode says so.
* `PassesKeepPromise`: `PassSpec => PassKeepsPromise`, the refinement of `JobPromise`, and the limits it needs. An
  attempt is counted with each stored verification, also with one that ends with requests, so attempts do
  not stay below `MaxAttempts`. `AttemptsFit`: each is a verdict, of which a job at work has had fewer than `MaxAttempts`, or
  has stored a request of its own, so they exceed the limit by `Cardinality(stored["verify"].asked)` at most; `AskedOnce` says that
  requests of different passes differ. A repair is asked for only below the limit, by the very write that counts
  the attempt, however many requests came before it.
* `EdgesTyped`: `EdgesSpec => []EdgesTypesOK`, the kinds and limits of all variables of the seven parts, each on top of its invariant.

### Only model-checked

* Liveness, out of the prover's reach: `EventuallyAtRest`, `PollingCatchesUp`, `DueRuns`, `JobsEnd`, `ShownCatchesUp`.

Every invariant of a passing run is stated by a theorem, and so is the refinement `KeepsPromise`.

### Only proved

`RepairsBounded` follows from `KeepsPromise` and is not checked again by a run. `PassKeepsPromise` holds of the instance of
`edges` when it is added to its properties; the runs leave it to the proof, since the limits of passes are among
`EdgesTypesOK` already.

## Not modelled

* The database schema and shared types are declarations; their value sets appear where they are used.
* Tools: what a tool does to the world is a run that works or throws, but for tasks, memories and
  the agent's workspace. A policy that changes while a turn is handled is left out.
* Memory: the extractors' patterns and the scoring of recall beyond its order.
* Speech: the services themselves, and the playback of replies and previews on the desk and the voice page. (A
  preview that arrives after stop is pressed does play; nothing in the repository says it should not.)
* Administration: flushing the job queue on its own, the launch intents and artifact files that go with cleared
  jobs, and the health sweep. What clearing a job does to a delivery under way is not composed with `AgentJobs`.
  Import leaves the soul's file to the snapshot's row; what else a snapshot holds is left out.
* Inference: the adapters of the providers, which are libraries.
* Web application: layout, pass-through routes, and the overview, trace, task and health pages, which only poll
  and show.
* Parsing of times, requests and paths, prompts, and wording.

## Plan

Done: the core (`AgentJobs`, `ConversationTurns`) with its refinement; settings, channels, heartbeat, Telegram,
memory; the executor, streaming, persona, speech, launcher and the pages; proofs of all safety properties of
the runs.

Left, in this order:

1. The composition of `ConversationTurns` with the requirements of `AgentJobs`; and of `AgentPass` with the steps
   of `AgentJobs`, which now share the abstract promise and not yet their rows.
2. Clearing of jobs beside the worker; the memory extractors as operators.
