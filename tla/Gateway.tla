------------------------------- MODULE Gateway -------------------------------
(***************************************************************************)
(* The gateway process (pkg/gateway/gateway.go): the main loop of Run, the   *)
(* trigger of manual reloads, the watcher of the configuration file, and     *)
(* what a reload does to the services.  A service is the generation that     *)
(* made it; the generations of a service that still run are kept, since a    *)
(* reload makes new ones without waiting for the old.                        *)
(*                                                                          *)
(* The file has a sequence of contents, of which some are invalid, and some  *)
(* name a model whose provider cannot be created.                            *)
(***************************************************************************)
EXTENDS Naturals, FiniteSets

CONSTANTS
    MaxEdits,   \* bound: contents of the file after the first
    Invalid,    \* contents that cannot be loaded or validated
    NoProvider, \* contents for which no provider can be created
    MaxManual,  \* bound: calls of the reload trigger
    MaxBreaks   \* bound: services that fail to start in a reload

ASSUME GatewayAssumption ==
    /\ MaxEdits \in Nat /\ MaxManual \in Nat /\ MaxBreaks \in Nat
    /\ Invalid \subseteq 1..MaxEdits /\ NoProvider \subseteq 1..MaxEdits

VARIABLES
    content,     \* what the configuration file holds
    watched,     \* the content whose size and time the watcher has noted
    watcher,     \* what it does: waits, or loads the file after a pause
    configChan,  \* the configuration it has sent, none if empty
    manualChan,  \* a manual reload is queued
    reloading,   \* the flag of the same name
    mainLoop,    \* where Run is
    newConfig,   \* the configuration of the reload in progress
    config,      \* the configuration of the agent loop
    generation,  \* how often services were made
    current,     \* service -> the generation the gateway holds
    live,        \* service -> its generations that run
    manuals, breaks  \* what is left of the bounds

watchVars == <<content, watched, watcher, configChan>>
serviceVars == <<generation, current, live>>
gatewayVars == <<watchVars, manualChan, reloading, mainLoop, newConfig, config,
                 serviceVars, manuals, breaks>>

NoConfig == MaxEdits + 1
Restarted == {"cron", "heartbeat", "media", "devices"}  \* stopped by a reload
GatewayServices == Restarted \cup {"channels"}

GatewayInit ==
    /\ content = 0 /\ watched = 0 /\ watcher = "waits" /\ configChan = NoConfig
    /\ manualChan = FALSE /\ reloading = FALSE
    /\ mainLoop = "select" /\ newConfig = NoConfig /\ config = 0
    /\ generation = 1
    /\ current = [s \in GatewayServices |-> 1] /\ live = [s \in GatewayServices |-> {1}]
    /\ manuals = 0 /\ breaks = 0

-------------------------------------------------------------------------------
(* The file and its watcher *)

MainUnchanged == UNCHANGED <<mainLoop, newConfig, config, serviceVars, breaks>>

EditFile ==
    /\ content < MaxEdits /\ content' = content + 1
    /\ UNCHANGED <<watched, watcher, configChan, manualChan, reloading, manuals>>
    /\ MainUnchanged

\* A tick sees that the file has changed, and waits half a second.
SeeChange ==
    /\ watcher = "waits" /\ mainLoop # "stopped"
    /\ watched # content
    /\ watched' = content /\ watcher' = "loads"
    /\ UNCHANGED <<content, configChan, manualChan, reloading, manuals>>
    /\ MainUnchanged

\* The file is loaded; a configuration that the main loop has not taken yet
\* stays, and the new one is dropped.
LoadFile ==
    /\ watcher = "loads" /\ watcher' = "waits"
    /\ configChan' = IF content \notin Invalid /\ configChan = NoConfig THEN content ELSE configChan
    /\ UNCHANGED <<content, watched, manualChan, reloading, manuals>>
    /\ MainUnchanged

\* reloadTrigger, called by the health server and by a command of the agent.
TriggerReload ==
    /\ manuals < MaxManual /\ manuals' = manuals + 1
    /\ mainLoop # "stopped"
    /\ IF reloading
         THEN UNCHANGED <<reloading, manualChan>>
         ELSE IF manualChan THEN UNCHANGED <<reloading, manualChan>>
           ELSE reloading' = TRUE /\ manualChan' = TRUE
    /\ UNCHANGED watchVars /\ MainUnchanged

-------------------------------------------------------------------------------
(* The main loop *)

ServicesUnchanged == UNCHANGED <<config, serviceVars, breaks>>

\* A configuration of the watcher is skipped while another reload is wanted.
TakeConfig ==
    /\ mainLoop = "select" /\ configChan # NoConfig
    /\ configChan' = NoConfig
    /\ IF reloading
         THEN UNCHANGED <<reloading, mainLoop, newConfig>>
         ELSE reloading' = TRUE /\ mainLoop' = "stopping" /\ newConfig' = configChan
    /\ UNCHANGED <<content, watched, watcher, manualChan, manuals>>
    /\ ServicesUnchanged

\* A file that cannot be loaded ends the reload.  Faulty variant: it leaves
\* the flag.
RefuseKeepingFlag == UNCHANGED reloading
Refuse == reloading' = FALSE
TakeManual ==
    /\ mainLoop = "select" /\ manualChan
    /\ manualChan' = FALSE
    /\ IF content \in Invalid
         THEN Refuse /\ UNCHANGED <<mainLoop, newConfig>>
         ELSE mainLoop' = "stopping" /\ newConfig' = content /\ UNCHANGED reloading
    /\ UNCHANGED <<watchVars, manuals>> /\ ServicesUnchanged

\* stopAndCleanupServices: "reload should not stop channel manager".  Faulty
\* variant: it leaves the cron service running.
StopForgetting == live' = [s \in GatewayServices |->
                              IF s \in Restarted \ {"cron"} THEN live[s] \ {current[s]} ELSE live[s]]
StopRestarted == live' = [s \in GatewayServices |->
                             IF s \in Restarted THEN live[s] \ {current[s]} ELSE live[s]]
StopServices ==
    /\ mainLoop = "stopping" /\ mainLoop' = "provider"
    /\ StopRestarted
    /\ UNCHANGED <<watchVars, manualChan, reloading, newConfig, config, generation, current,
                   manuals, breaks>>

\* The provider is made and the agent loop is given it and the configuration,
\* or neither; either way the services are started again.
ReloadAgent ==
    /\ mainLoop = "provider" /\ mainLoop' = "restarting"
    /\ config' = IF newConfig \in NoProvider THEN config ELSE newConfig
    /\ generation' = generation + 1
    /\ UNCHANGED <<watchVars, manualChan, reloading, newConfig, current, live, manuals, breaks>>

\* restartServices.  A cron service that cannot be set up or started ends it;
\* otherwise all are made and started, but for the channel manager: the new one
\* is given the channels it already has (Reload), and starts none of them.
RestartServices ==
    /\ mainLoop = "restarting" /\ mainLoop' = "select"
    /\ \/ /\ current' = [s \in GatewayServices |-> generation]
          /\ live' = [s \in GatewayServices |->
                         IF s \in Restarted THEN live[s] \cup {generation} ELSE live[s]]
          /\ UNCHANGED breaks
       \/ /\ breaks < MaxBreaks /\ breaks' = breaks + 1
          /\ current' = [current EXCEPT !["cron"] = generation]
          /\ UNCHANGED live
    /\ reloading' = FALSE /\ newConfig' = NoConfig
    /\ UNCHANGED <<watchVars, manualChan, config, generation, manuals>>

\* A signal: shutdownGateway stops the services that the gateway holds.
Shutdown ==
    /\ mainLoop = "select" /\ mainLoop' = "stopped"
    /\ live' = [s \in GatewayServices |-> live[s] \ {current[s]}]
    /\ UNCHANGED <<watchVars, manualChan, reloading, newConfig, config, generation, current,
                   manuals, breaks>>

MainStep == TakeConfig \/ TakeManual \/ StopServices \/ ReloadAgent \/ RestartServices
WatchStep == SeeChange \/ LoadFile

GatewayNext == EditFile \/ WatchStep \/ TriggerReload \/ MainStep \/ Shutdown

GatewaySpec == GatewayInit /\ [][GatewayNext]_gatewayVars
GatewayFairness == WF_gatewayVars(MainStep) /\ WF_gatewayVars(WatchStep)

-------------------------------------------------------------------------------
(* Properties *)

GatewayTypeOK ==
    /\ content \in 0..MaxEdits /\ watched \in 0..content
    /\ watcher \in {"waits", "loads"} /\ configChan \in (0..MaxEdits) \cup {NoConfig}
    /\ {manualChan, reloading} \subseteq BOOLEAN
    /\ mainLoop \in {"select", "stopping", "provider", "restarting", "stopped"}
    /\ newConfig \in (0..MaxEdits) \cup {NoConfig} /\ config \in 0..MaxEdits
    /\ \A s \in GatewayServices : current[s] \in 1..generation /\ live[s] \subseteq 1..generation

\* Two generations of a service never run at the same time (two cron services
\* would execute a job twice), however reloads fail half-way, and none is left
\* when the gateway has stopped; the channels are left to ManagerRuns.
OneGeneration ==
    /\ \A s \in Restarted : live[s] \subseteq {current[s]}
    /\ mainLoop = "stopped" => \A s \in Restarted : live[s] = {}

\* Every reload that was accepted ends, and the flag is free again: no branch
\* of the main loop keeps it.
ReloadsEnd == reloading ~> (~reloading \/ mainLoop = "stopped")

\* "reload should not stop channel manager" (stopAndCleanupServices): the
\* manager that the gateway and the agent loop hold is one that runs.
ManagerRuns == mainLoop = "select" => current["channels"] \in live["channels"]
===============================================================================
