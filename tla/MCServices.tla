------------------------------ MODULE MCServices ------------------------------
(***************************************************************************)
(* The background services of the worker side by side: Telegram, the       *)
(* heartbeat, reminders and channels, memory, settings in files, and the    *)
(* console that shows the jobs. They share no row and no file, so a         *)
(* behaviour of all of them is one of each; an interleaving of two shows   *)
(* nothing that each alone does not. A behaviour here follows one of them, *)
(* chosen at the start.                                                    *)
(***************************************************************************)
EXTENDS TelegramIntegration, Heartbeat, Reminders, MemoryEngine, SettingsFiles, JobsConsole

VARIABLE service    \* the service this behaviour follows

servicesVars == <<service, telegramVars, heartbeatVars, reminderVars, memoryVars, settingsVars,
                  consoleVars>>

ServicesInit ==
    /\ service \in {"telegram", "heartbeat", "reminders", "memory", "settings", "console"}
    /\ TelegramInit /\ HeartbeatInit /\ RemindersInit /\ MemoryInit
    /\ SettingsInit /\ ConsoleInit
    /\ service # "settings" => jobsFile.kind = "absent"
    /\ service # "console" => \A b \in Builds : status[b] = "absent"

\* What every service but one leaves alone.
ButTelegram == UNCHANGED <<service, heartbeatVars, reminderVars, memoryVars, settingsVars, consoleVars>>
ButHeartbeat == UNCHANGED <<service, telegramVars, reminderVars, memoryVars, settingsVars, consoleVars>>
ButReminders == UNCHANGED <<service, telegramVars, heartbeatVars, memoryVars, settingsVars, consoleVars>>
ButMemory == UNCHANGED <<service, telegramVars, heartbeatVars, reminderVars, settingsVars, consoleVars>>
ButSettings == UNCHANGED <<service, telegramVars, heartbeatVars, reminderVars, memoryVars, consoleVars>>
ButConsole == UNCHANGED <<service, telegramVars, heartbeatVars, reminderVars, memoryVars, settingsVars>>

ServicesNext ==
    \/ service = "telegram" /\ TelegramNext /\ ButTelegram
    \/ service = "heartbeat" /\ HeartbeatNext /\ ButHeartbeat
    \/ service = "reminders" /\ RemindersNext /\ ButReminders
    \/ service = "memory" /\ MemoryNext /\ ButMemory
    \/ service = "settings" /\ SettingsNext /\ ButSettings
    \/ service = "console" /\ ConsoleNext /\ ButConsole

\* The fairness of each service's own specification.
ServicesSpec ==
    /\ ServicesInit /\ [][ServicesNext]_servicesVars
    /\ WF_servicesVars(service = "telegram" /\ PollProceeds /\ ButTelegram)
    /\ WF_servicesVars(service = "heartbeat" /\ LoopProceeds /\ ButHeartbeat)
    /\ WF_servicesVars(service = "memory" /\ Extract /\ ButMemory)
    /\ \A c \in Curators : WF_servicesVars(service = "memory" /\ Continue(c) /\ ButMemory)
    /\ WF_servicesVars(service = "console" /\ PageProceeds /\ ButConsole)

\* The variables of every service stay of their kinds.
TypesOK == /\ TelegramTypeOK /\ HeartbeatTypeOK /\ RemindersTypeOK /\ MemoryTypeOK
           /\ SettingsTypeOK /\ ConsoleTypeOK

=============================================================================
