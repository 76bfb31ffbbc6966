---------------------------- MODULE ServiceProofs ----------------------------
(***************************************************************************)
(* Proofs about the services that run beside the agents: the gateway, the    *)
(* cron service and the fallback chain.                                      *)
(*                                                                          *)
(* Gateway: types, and that a reload never leaves two generations of a       *)
(* service running.  Cron: a one-shot job runs once, unless the process dies, *)
(* and no job is lost, although the file and the memories of two services    *)
(* hold copies of it.  Fallback: the cool-down of a candidate is bounded by   *)
(* its counters, so that no failure shortens it.  Last, the joint run of all  *)
(* components that MCServices checks.                                        *)
(***************************************************************************)
EXTENDS MCServices, StorageProofs, ConnectionProofs

-------------------------------------------------------------------------------
(* The gateway *)

\* The shapes that GatewayTypeOK leaves open, and that a reload always has a
\* configuration, never NoConfig, until the services are restarted.
GatewayShape ==
    /\ current \in [GatewayServices -> Nat] /\ live \in [GatewayServices -> SUBSET Nat]
    /\ generation \in Nat \ {0}
    /\ mainLoop \in {"stopping", "provider"} => newConfig # NoConfig

\* The services are down from stopAndCleanupServices to restartServices, and
\* otherwise run in the generation that the gateway holds.
DownDuringReload ==
    \A s \in Restarted :
        /\ live[s] \subseteq {current[s]}
        /\ mainLoop \in {"provider", "restarting", "stopped"} => live[s] = {}

GatewayInv == GatewayTypeOK /\ GatewayShape /\ DownDuringReload

\* The invariant holds when the services have started.
LEMMA GatewayInitHolds == GatewayInit => GatewayInv
<1> SUFFICES ASSUME GatewayInit PROVE GatewayInv
  OBVIOUS
<1> USE GatewayAssumption DEF GatewayInit
<1>1. /\ current \in [GatewayServices -> Nat] /\ live \in [GatewayServices -> SUBSET Nat]
      /\ \A s \in GatewayServices : current[s] = 1 /\ live[s] = {1}
  OBVIOUS
<1>2. GatewayTypeOK
  <2>1. 0 \in 0..MaxEdits /\ 0 \in 0..content /\ 1 \in 1..generation
    OBVIOUS
  <2>2. {manualChan, reloading} \subseteq BOOLEAN
    OBVIOUS
  <2> QED
    BY <1>1, <2>1, <2>2 DEF GatewayTypeOK
<1>3. GatewayShape
  BY <1>1 DEF GatewayShape
<1>4. DownDuringReload
  BY <1>1 DEF DownDuringReload, GatewayServices
<1> QED
  BY <1>2, <1>3, <1>4 DEF GatewayInv

(* What the file, its watcher and the trigger do leaves the services alone. *)
LEMMA WatcherKeeps ==
  ASSUME GatewayInv, EditFile \/ WatchStep \/ TriggerReload \/ UNCHANGED gatewayVars
  PROVE  GatewayInv'
<1> USE GatewayAssumption
    DEF GatewayInv, GatewayTypeOK, GatewayShape, DownDuringReload, NoConfig, MainUnchanged,
        serviceVars, watchVars
<1>1. CASE EditFile
  BY <1>1 DEF EditFile
<1>2. CASE SeeChange
  BY <1>2 DEF SeeChange
<1>3. CASE LoadFile
  BY <1>3 DEF LoadFile
<1>4. CASE TriggerReload
  BY <1>4 DEF TriggerReload
<1>5. CASE UNCHANGED gatewayVars
  BY <1>5 DEF gatewayVars
<1> QED
  BY <1>1, <1>2, <1>3, <1>4, <1>5 DEF WatchStep

(* The main loop takes a configuration: services are not touched yet. *)
LEMMA TakingKeeps ==
  ASSUME GatewayInv, TakeConfig \/ TakeManual
  PROVE  GatewayInv'
<1> USE GatewayAssumption
    DEF GatewayInv, GatewayTypeOK, GatewayShape, DownDuringReload, NoConfig, ServicesUnchanged,
        serviceVars, watchVars
<1>1. CASE TakeConfig
  BY <1>1 DEF TakeConfig
<1>2. CASE TakeManual
  <2>1. reloading \in BOOLEAN /\ reloading' \in BOOLEAN
    BY <1>2 DEF TakeManual, Refuse
  <2>2. newConfig' \in (0..MaxEdits) \cup {NoConfig}
    BY <1>2 DEF TakeManual
  <2>3. /\ mainLoop' \in {"select", "stopping"}
        /\ mainLoop' = "stopping" => newConfig' # NoConfig
    BY <1>2 DEF TakeManual
  <2> QED
    BY <1>2, <2>1, <2>2, <2>3 DEF TakeManual
<1> QED
  BY <1>1, <1>2

(* Stopping: what is removed is all that ran. *)
LEMMA StoppingKeeps ==
  ASSUME GatewayInv, StopServices \/ Shutdown
  PROVE  GatewayInv'
<1> USE GatewayAssumption DEF NoConfig
<1>1. /\ live' \in [GatewayServices -> SUBSET Nat]
      /\ \A s \in GatewayServices : live'[s] \subseteq live[s]
      /\ \A s \in Restarted : live'[s] = {}
  <2>1. CASE StopServices
    BY <2>1 DEF StopServices, StopRestarted, GatewayInv, GatewayShape, DownDuringReload,
                GatewayServices
  <2>2. CASE Shutdown
    BY <2>2 DEF Shutdown, GatewayInv, GatewayShape, DownDuringReload, GatewayServices
  <2> QED
    BY <2>1, <2>2
<1>2. /\ UNCHANGED <<watchVars, manualChan, reloading, newConfig, config, generation, current>>
      /\ mainLoop \in {"stopping", "select"} /\ mainLoop' \in {"provider", "stopped"}
      /\ mainLoop' = "provider" => mainLoop = "stopping"
  BY DEF StopServices, Shutdown
<1>3. GatewayTypeOK' /\ GatewayShape'
  BY <1>1, <1>2 DEF GatewayInv, GatewayTypeOK, GatewayShape, watchVars
<1>4. DownDuringReload'
  BY <1>1, <1>2 DEF DownDuringReload
<1> QED
  BY <1>3, <1>4 DEF GatewayInv

(* The reload ends: new services start where none runs, or the restart fails *)
(* and none does.                                                           *)
LEMMA RestartingKeeps ==
  ASSUME GatewayInv, ReloadAgent \/ RestartServices
  PROVE  GatewayInv'
<1> USE GatewayAssumption DEF NoConfig
<1>1. CASE ReloadAgent
  <2>1. generation' = generation + 1 /\ generation \in Nat \ {0}
    BY <1>1 DEF ReloadAgent, GatewayInv, GatewayShape
  <2>2. 1..generation \subseteq 1..generation'
    BY <2>1
  <2>3. config' \in 0..MaxEdits
    BY <1>1 DEF ReloadAgent, GatewayInv, GatewayTypeOK, GatewayShape
  <2>4. /\ UNCHANGED <<watchVars, manualChan, reloading, newConfig, current, live>>
        /\ mainLoop = "provider" /\ mainLoop' = "restarting"
    BY <1>1 DEF ReloadAgent
  <2>5. GatewayTypeOK' /\ GatewayShape'
    BY <2>1, <2>2, <2>3, <2>4 DEF GatewayInv, GatewayTypeOK, GatewayShape, watchVars
  <2> QED
    BY <2>4, <2>5 DEF GatewayInv, DownDuringReload
<1>2. CASE RestartServices
  <2>1. /\ UNCHANGED <<watchVars, manualChan, config, generation>>
        /\ mainLoop = "restarting" /\ mainLoop' = "select"
        /\ reloading' = FALSE /\ newConfig' = NoConfig
    BY <1>2 DEF RestartServices
  <2>2. generation \in 1..generation
    BY DEF GatewayInv, GatewayShape
  <2>3. /\ current' \in [GatewayServices -> Nat] /\ live' \in [GatewayServices -> SUBSET Nat]
        /\ \A s \in GatewayServices :
              current'[s] \in 1..generation /\ live'[s] \subseteq 1..generation
        /\ \A s \in Restarted : live'[s] \subseteq {current'[s]}
    BY <1>2, <2>1, <2>2 DEF RestartServices, GatewayInv, GatewayTypeOK, GatewayShape,
                            DownDuringReload, GatewayServices, Restarted
  <2> QED
    BY <2>1, <2>3 DEF GatewayInv, GatewayTypeOK, GatewayShape, DownDuringReload, watchVars
<1> QED
  BY <1>1, <1>2

(* The invariant of the gateway, for any file contents and bounds. *)
THEOREM GatewayInvariant == GatewaySpec => []GatewayInv
<1>1. GatewayInv /\ [GatewayNext]_gatewayVars => GatewayInv'
  BY WatcherKeeps, TakingKeeps, StoppingKeeps, RestartingKeeps DEF GatewayNext, MainStep
<1> QED
  BY GatewayInitHolds, <1>1, PTL DEF GatewaySpec

(* Every variable has its type; in particular a reload always has a loaded   *)
(* configuration (Run passes newConfig on only when it was loaded).          *)
THEOREM GatewayTypes == GatewaySpec => []GatewayTypeOK
  BY GatewayInvariant, PTL DEF GatewayInv

(* However edits, triggers, failing restarts and the shutdown interleave, a  *)
(* service never runs in two generations (stopAndCleanupServices before      *)
(* restartServices).                                                        *)
THEOREM GatewayOneGeneration == GatewaySpec => []OneGeneration
<1>1. GatewayInv => OneGeneration
  BY DEF GatewayInv, DownDuringReload, OneGeneration
<1> QED
  BY <1>1, GatewayInvariant, PTL

-------------------------------------------------------------------------------
(* The cron service *)

\* The copies of a job: in the file, in the memories of the services, and the
\* one that UpdateJob will write.
Editing(j) == pendingEdit # <<>> /\ pendingEdit[2] = j
CopiesOf(j) ==
    {file[j]} \cup {store[g][j] : g \in Services}
    \cup {job \in CronRecords : Editing(j) /\ job = pendingEdit[3]}
Waiting(g, j) == \E i \in DOMAIN due[g] : due[g][i] = j
Unused(j) == ran[j] = 0 /\ \A g \in Services : ~Waiting(g, j)

\* The types that CronTypeOK leaves open.
PendingShape ==
    pendingEdit # <<>> =>
        \E g \in Services, j \in CronJobs, job \in CronRecords :
            pendingEdit = <<g, j, job>> /\ g <= service /\ job.kind # "none"
CronShape ==
    /\ cronSpent \in Nat /\ ran \in [CronJobs -> Nat] /\ fresh \subseteq CronJobs
    /\ crossed \in BOOLEAN /\ due \in [Services -> Seq(CronJobs)]
    /\ PendingShape
    /\ \A j \in CronJobs : file[j].kind = "none" => file[j] = NoCronJob
    /\ \A g \in Services, j \in CronJobs : store[g][j].kind = "none" => store[g][j] = NoCronJob

\* Where the loops are: only the current service runs, a loop has due jobs only
\* while it executes them, each once, and a service to come has nothing.
LoopShape ==
    /\ service \in running => service > 0 /\ loop[service] \notin {"off", "dead"}
    /\ \A g \in Services :
          /\ loop[g] # "off" => g <= service
          /\ g > service => store[g] = NoJobs
          /\ due[g] # <<>> => loop[g] \in {"execute", "callback"}
          /\ loop[g] = "callback" => due[g] # <<>>
          /\ \A i, k \in DOMAIN due[g] : due[g][i] = due[g][k] => i = k

\* The copies of a job agree on its schedule, and an id is fresh until AddJob.
AgreeAt(j) ==
    /\ \A a, b \in CopiesOf(j) :
          a.kind # "none" /\ b.kind # "none" => a.kind = b.kind /\ a.when = b.when
    /\ j \in fresh => Unused(j) /\ \A a \in CopiesOf(j) : a = NoCronJob

\* What is true of a one-shot job while a copy of it is left: it has been
\* executed at most once, its copies say when it is to run, and the service
\* that runs has a next run for it only until it is due.
RanOnce(j) ==
    /\ ran[j] <= 1
    /\ \A g \in Services : Waiting(g, j) =>
          /\ ran[j] = 1 => loop[g] = "callback" /\ Head(due[g]) = j
          /\ \A h \in Services : Waiting(h, j) => h = g
CopiesRight(j) ==
    \A a \in CopiesOf(j) : a.kind = "at" =>
        /\ a.next # 0 => a.next = a.when /\ a.on
        /\ ~Unused(j) => a.when <= now
NotAgain(j) ==
    /\ \A g \in running : store[g][j].next # 0 => Unused(j) \/ Waiting(g, j)
    /\ Editing(j) /\ pendingEdit[1] = service =>
          \/ Unused(j) \/ Waiting(service, j)
          \/ (store[service][j] = NoCronJob /\ loop[service] # "off")
IsAt(j) == \E a \in CopiesOf(j) : a.kind = "at"
JobInv(j) == AgreeAt(j) /\ (IsAt(j) => RanOnce(j) /\ CopiesRight(j) /\ NotAgain(j))
JobsInv == \A j \in CronJobs : JobInv(j)

\* A job that survives is in the file and, unless a crash has emptied it, in
\* the memory of the current service, which will write the file again.
SurviveInv ==
    /\ service = 0 => acked = {}
    /\ ~crossed => \A j \in acked :
          /\ file[j].kind # "none"
          /\ \/ store[service][j].kind # "none"
             \/ (store[service] = NoJobs /\ loop[service] = "dead")

CronBase == CronTypeOK /\ CronShape /\ LoopShape
CronInv == CronBase /\ JobsInv /\ SurviveInv

-------------------------------------------------------------------------------
(* Lemmas *)

\* Every non-empty set of naturals has a least element.  With it, a property of
\* the naturals that is written as a set can be proved by induction.
\* The next wake-up is a moment, or none.
LEMMA NextWakeTyped ==
    ASSUME CronAssumption, NEW jobs \in [CronJobs -> CronRecords]
    PROVE  NextWake(jobs) \in 0..Horizon
<1> DEFINE wakes == {jobs[j].next : j \in {i \in CronJobs : jobs[i].on /\ jobs[i].next # 0}}
<1>1. wakes \subseteq Nat /\ Horizon \in Nat
  BY DEF CronRecords, CronAssumption
<1>2. CASE \E w \in wakes : w <= Horizon
  <2>1. \E w \in wakes : \A v \in wakes : w <= v
    BY <1>1, <1>2, NatMin
  <2>2. NextWake(jobs) = CHOOSE w \in wakes : \A v \in wakes : w <= v
    BY <1>2 DEF NextWake
  <2> HIDE DEF wakes
  <2>3. NextWake(jobs) \in wakes /\ \A v \in wakes : NextWake(jobs) <= v
    BY <2>1, <2>2
  <2>4. PICK w \in wakes : w <= Horizon
    BY <1>2
  <2>5. NextWake(jobs) \in Nat /\ w \in Nat /\ NextWake(jobs) <= w
    BY <1>1, <2>3, <2>4
  <2> QED  BY <1>1, <2>4, <2>5
<1>3. CASE ~\E w \in wakes : w <= Horizon
  <2>1. NextWake(jobs) = Horizon
    BY <1>3 DEF NextWake
  <2> QED  BY <1>1, <2>1
<1> QED  BY <1>2, <1>3

\* The next run of a job is a moment, and of a one-shot job the one it was asked for.
LEMMA ComputeNextTyped ==
    ASSUME CronAssumption, NEW job \in CronRecords, NEW t \in 0..Horizon
    PROVE  /\ ComputeNext(job, t) \in 0..2 * Horizon
           /\ job.kind = "at" /\ ComputeNext(job, t) # 0
                => ComputeNext(job, t) = job.when /\ t < job.when
  BY DEF ComputeNext, CronRecords, CronAssumption

\* The record that stands for no job.
LEMMA NoJobTyped ==
    ASSUME CronAssumption
    PROVE  NoCronJob \in CronRecords /\ NoJobs \in [CronJobs -> CronRecords]
  BY DEF NoCronJob, NoJobs, CronRecords, CronAssumption

\* The next runs are computed anew for all jobs.
LEMMA RecomputeTyped ==
    ASSUME CronAssumption, now \in 0..Horizon, NEW jobs \in [CronJobs -> CronRecords]
    PROVE  /\ Recompute(jobs) \in [CronJobs -> CronRecords]
           /\ \A j \in CronJobs :
                /\ Recompute(jobs)[j].kind = jobs[j].kind
                /\ Recompute(jobs)[j].when = jobs[j].when
                /\ Recompute(jobs)[j].on = jobs[j].on
                /\ Recompute(jobs)[j].next = IF jobs[j].on THEN ComputeNext(jobs[j], now)
                                             ELSE jobs[j].next
<1>1. \A j \in CronJobs : ComputeNext(jobs[j], now) \in 0..2 * Horizon
  BY ComputeNextTyped
<1>2. \A j \in CronJobs :
          Recompute(jobs)[j] = IF jobs[j].on THEN [jobs[j] EXCEPT !.next = ComputeNext(jobs[j], now)]
                               ELSE jobs[j]
  BY DEF Recompute
<1>3. \A j \in CronJobs : Recompute(jobs)[j] \in CronRecords
  BY <1>1, <1>2 DEF CronRecords
<1>4. Recompute(jobs) \in [CronJobs -> CronRecords]
  BY <1>3 DEF Recompute
<1> QED  BY <1>2, <1>4 DEF CronRecords

\* There is one record for no job, after a write as before.
LEMMA StoreShape ==
    ASSUME CronShape, NEW g \in Services, NEW jobs,
           \A j \in CronJobs : jobs[j].kind = "none" => jobs[j] = NoCronJob,
           store'[g] = jobs, \A h \in Services \ {g} : store'[h] = store[h]
    PROVE  \A h \in Services, j \in CronJobs :
                 store'[h][j].kind = "none" => store'[h][j] = NoCronJob
<1> SUFFICES ASSUME NEW h \in Services, NEW j \in CronJobs, store'[h][j].kind = "none"
             PROVE  store'[h][j] = NoCronJob
  OBVIOUS
<1>1. CASE h = g
  BY <1>1
<1>2. CASE h # g
  <2>1. store'[h] = store[h]
    BY <1>2
  <2> QED  BY <2>1 DEF CronShape
<1> QED  BY <1>1, <1>2

\* The memory of service g becomes jobs and is saved, unless that fails.
Saves(g, jobs) ==
    /\ store' = [store EXCEPT ![g] = jobs]
    /\ crossed' = (crossed \/ g < service)
    /\ cronSpent' \in {cronSpent, cronSpent + 1}
    /\ file' \in {jobs, file} /\ (cronSpent' = cronSpent => file' = jobs)

\* What Write does is what Saves says.
LEMMA WriteSaves ==
    ASSUME CronShape, NEW g, NEW jobs, Write(g, jobs)
    PROVE  Saves(g, jobs)
<1>1. store' = [store EXCEPT ![g] = jobs] /\ crossed' = (crossed \/ g < service)
  BY DEF Write
<1>2. \/ file' = jobs /\ cronSpent' = cronSpent
      \/ file' = file /\ cronSpent' = cronSpent + 1
  BY DEF Write, Trouble
<1>3. cronSpent \in Nat
  BY DEF CronShape
<1>4. cronSpent' \in {cronSpent, cronSpent + 1} /\ (cronSpent' = cronSpent => file' = jobs)
  BY <1>2, <1>3
<1>5. file' \in {jobs, file}
  BY <1>2
<1> QED  BY <1>1, <1>4, <1>5, Zenon DEF Saves

\* What a save does, spelt out.
LEMMA WriteEffect ==
    ASSUME CronTypeOK, CronShape, NEW g \in Services, NEW jobs \in [CronJobs -> CronRecords],
           \A j \in CronJobs : jobs[j].kind = "none" => jobs[j] = NoCronJob,
           Saves(g, jobs)
    PROVE  /\ store'[g] = jobs /\ \A h \in Services \ {g} : store'[h] = store[h]
           /\ file' = jobs \/ file' = file
           /\ cronSpent' = cronSpent => file' = jobs
           /\ ~crossed' => ~crossed /\ ~(g < service)
           /\ store' \in [Services -> [CronJobs -> CronRecords]]
           /\ file' \in [CronJobs -> CronRecords]
           /\ cronSpent' \in Nat /\ crossed' \in BOOLEAN
           /\ \A j \in CronJobs : file'[j].kind = "none" => file'[j] = NoCronJob
           /\ \A h \in Services, j \in CronJobs :
                 store'[h][j].kind = "none" => store'[h][j] = NoCronJob
<1>1. store' = [store EXCEPT ![g] = jobs] /\ store \in [Services -> [CronJobs -> CronRecords]]
  BY DEF Saves, CronTypeOK
<1>2. store'[g] = jobs /\ \A h \in Services \ {g} : store'[h] = store[h]
  BY <1>1
<1>3. store' \in [Services -> [CronJobs -> CronRecords]]
  BY <1>1
<1>4. crossed' = (crossed \/ g < service)
  BY DEF Saves
<1>5. crossed' \in BOOLEAN /\ (~crossed' => ~crossed /\ ~(g < service))
  BY <1>4 DEF CronShape
<1>6. /\ file' = jobs \/ file' = file
      /\ cronSpent' = cronSpent => file' = jobs
      /\ cronSpent' \in Nat
  BY DEF Saves, CronShape
<1>7. /\ file' \in [CronJobs -> CronRecords]
      /\ \A j \in CronJobs : file'[j].kind = "none" => file'[j] = NoCronJob
  BY <1>6 DEF CronShape, CronTypeOK
<1>8. \A h \in Services, j \in CronJobs : store'[h][j].kind = "none" => store'[h][j] = NoCronJob
  BY <1>2, StoreShape
<1> QED  BY <1>2, <1>3, <1>5, <1>6, <1>7, <1>8

\* notify wakes the loop of the service, if that is in its select.
LEMMA NotifyEffect ==
    ASSUME CronTypeOK, NEW g \in Services, Notify(g)
    PROVE  /\ loop' \in [Services -> {"off", "compute", "arm", "select", "execute", "callback", "dead"}]
           /\ loop'[g] = IF loop[g] = "select" THEN "compute" ELSE loop[g]
           /\ \A h \in Services \ {g} : loop'[h] = loop[h]
  BY DEF Notify, CronTypeOK

\* The loops keep their shape when one of them changes its place or what it has
\* due, the services that run stay, and the stores to come stay empty.
LEMMA LoopKeeps ==
    ASSUME CronTypeOK, LoopShape, UNCHANGED <<service, running, due>>,
           \A g \in Services : /\ loop'[g] # "off" => loop[g] # "off"
                               /\ loop'[g] = "dead" => loop[g] = "dead" \/ g \notin running
                               /\ due[g] # <<>> => loop'[g] = loop[g]
                               /\ loop'[g] = "callback" => loop[g] = "callback"
                               /\ loop'[g] = "off" => loop[g] = "off"
                               /\ g > service => store'[g] = store[g]
    PROVE  LoopShape'
<1>1. service \in running => service \in Services
  BY DEF LoopShape, CronTypeOK, Services
<1> QED  BY <1>1 DEF LoopShape

-------------------------------------------------------------------------------
(* CronBase *)

\* The base holds before the first service.
LEMMA CronInitBase ==
    ASSUME CronAssumption, CronInit
    PROVE  CronBase
<1>1. CronTypeOK
  <2>1. 0 \in 0..Horizon /\ 0 \in 0..MaxServices
    BY DEF CronAssumption
  <2> QED  BY <2>1, NoJobTyped DEF CronInit, CronTypeOK
<1>2. CronShape
  <2>1. due \in [Services -> Seq(CronJobs)]
    BY DEF CronInit
  <2> QED  BY <2>1 DEF CronInit, CronShape, PendingShape, NoJobs
<1>3. LoopShape
  BY DEF CronInit, LoopShape
<1> QED  BY <1>1, <1>2, <1>3 DEF CronBase

\* The current service is one of the services.
LEMMA CurrentService ==
    ASSUME CronAssumption, CronBase
    PROVE  /\ service > 0 => service \in Services
           /\ running \subseteq Services /\ MaxServices \in Nat /\ service \in Nat
           /\ Services \subseteq Nat
  BY DEF CronAssumption, CronBase, CronTypeOK, LoopShape, Services

\* The copy that UpdateJob will write stays what it is.
LEMMA PendingKept ==
    ASSUME CronAssumption, CronBase, UNCHANGED pendingEdit, service' \in Nat, service <= service'
    PROVE  PendingShape'
<1>1. CASE pendingEdit # <<>>
  <2>1. \E g \in Services, j \in CronJobs, job \in CronRecords :
            pendingEdit = <<g, j, job>> /\ g <= service /\ job.kind # "none"
    BY <1>1 DEF CronBase, CronShape, PendingShape
  <2>2. PICK g \in Services, j \in CronJobs, job \in CronRecords :
            pendingEdit = <<g, j, job>> /\ g <= service /\ job.kind # "none"
    BY <2>1
  <2>3. g <= service'
    BY <2>2, CurrentService
  <2> QED  BY <2>2, <2>3 DEF PendingShape
<1>2. CASE pendingEdit = <<>>
  BY <1>2 DEF PendingShape
<1> QED  BY <1>1, <1>2

\* The base is kept when a service loads the file,
LEMMA LoadBase ==
    ASSUME CronAssumption, CronBase, Load
    PROVE  CronBase'
<1> USE DEF CronBase
<1>1. /\ service' = service + 1 /\ service' \in Services /\ service' \in 0..MaxServices
      /\ running = {} /\ running' = {}
      /\ UNCHANGED <<now, file, loop, alarm, due, pendingEdit, cronSpent, ran, fresh, acked, crossed>>
  BY CurrentService DEF Load, CronTypeOK, Services, loopVars, cronGhosts
<1>2. /\ store'[service'] = file /\ \A g \in Services \ {service'} : store'[g] = store[g]
      /\ store' \in [Services -> [CronJobs -> CronRecords]]
  BY <1>1 DEF Load, CronTypeOK
<1>3. CronTypeOK'
  BY <1>1, <1>2 DEF CronTypeOK
<1>4. CronShape'
  <2>1. PendingShape'
    BY <1>1, CurrentService, PendingKept
  <2>2. \A g \in Services, j \in CronJobs : store'[g][j].kind = "none" => store'[g][j] = NoCronJob
    <3>1. \A j \in CronJobs : file[j].kind = "none" => file[j] = NoCronJob
      BY DEF CronShape
    <3> QED  BY <1>1, <1>2, <3>1, StoreShape
  <2> QED  BY <1>1, <2>1, <2>2 DEF CronShape
<1>5. LoopShape'
  <2>1. \A g \in Services : g <= service => g <= service'
    BY <1>1, CurrentService
  <2>2. \A g \in Services : g > service' => g > service /\ g # service'
    BY <1>1, CurrentService
  <2> QED  BY <1>1, <1>2, <2>1, <2>2 DEF LoopShape
<1> QED  BY <1>3, <1>4, <1>5

\* when it starts,
LEMMA StartBase ==
    ASSUME CronAssumption, CronBase, StartCron
    PROVE  CronBase'
<1> USE DEF CronBase
<1>1. /\ service \in Services /\ file \in [CronJobs -> CronRecords]
      /\ UNCHANGED <<now, service, alarm, due, pendingEdit, cronSpent, ran, fresh, acked, crossed>>
      /\ loop[service] = "off" /\ running' = running \cup {service}
  BY CurrentService DEF StartCron, CronTypeOK, cronGhosts
<1>2. /\ store' = [store EXCEPT ![service] = Recompute(file)]
      /\ file' = store'[service]
      /\ loop' = [loop EXCEPT ![service] = "compute"]
  BY DEF StartCron
<1>3. /\ store'[service] = Recompute(file) /\ file' = Recompute(file)
      /\ \A g \in Services \ {service} : store'[g] = store[g]
  BY <1>1, <1>2 DEF CronTypeOK
<1>4. Recompute(file) \in [CronJobs -> CronRecords]
  BY <1>1, RecomputeTyped DEF CronTypeOK
<1>5. \A j \in CronJobs : Recompute(file)[j].kind = "none" => Recompute(file)[j] = NoCronJob
  <2> SUFFICES ASSUME NEW j \in CronJobs, Recompute(file)[j].kind = "none"
               PROVE  Recompute(file)[j] = NoCronJob
    OBVIOUS
  <2>1. file[j] = NoCronJob
    BY <1>1, RecomputeTyped DEF CronShape, CronTypeOK
  <2> QED  BY <2>1 DEF Recompute, NoCronJob
<1>6. CronTypeOK'
  <2>1. store' \in [Services -> [CronJobs -> CronRecords]]
    BY <1>1, <1>2, <1>4 DEF CronTypeOK
  <2>2. loop' \in [Services -> {"off", "compute", "arm", "select", "execute", "callback", "dead"}]
    BY <1>2 DEF CronTypeOK
  <2>3. /\ running' \subseteq {service'}
        /\ file' \in [CronJobs -> CronRecords]
    BY <1>1, <1>3, <1>4 DEF CronTypeOK
  <2> QED  BY <1>1, <2>1, <2>2, <2>3 DEF CronTypeOK
<1>7. CronShape'
  <2>1. \A g \in Services, j \in CronJobs : store'[g][j].kind = "none" => store'[g][j] = NoCronJob
    <3>1. \A j \in CronJobs : store'[service][j].kind = "none" => store'[service][j] = NoCronJob
      BY <1>3, <1>5
    <3> QED  BY <1>1, <1>3, <3>1, StoreShape
  <2>2. \A j \in CronJobs : file'[j].kind = "none" => file'[j] = NoCronJob
    BY <1>3, <1>5
  <2>3. PendingShape'
    BY <1>1, CurrentService, PendingKept
  <2> QED  BY <1>1, <2>1, <2>2, <2>3 DEF CronShape
<1>8. LoopShape'
  <2>1. loop'[service] = "compute" /\ \A g \in Services \ {service} : loop'[g] = loop[g]
    BY <1>1, <1>2 DEF CronTypeOK
  <2>2. due[service] = <<>>
    BY <1>1 DEF LoopShape
  <2>3. service \in Nat /\ service > 0
    BY <1>1, CurrentService DEF Services
  <2> SUFFICES ASSUME NEW g \in Services
               PROVE  /\ loop'[g] # "off" => g <= service
                      /\ g > service => store'[g] = NoJobs
                      /\ due[g] # <<>> => loop'[g] \in {"execute", "callback"}
                      /\ loop'[g] = "callback" => due[g] # <<>>
                      /\ \A i, k \in DOMAIN due[g] : due[g][i] = due[g][k] => i = k
    BY <1>1, <2>1, <2>3 DEF LoopShape
  <2>4. CASE g = service
    BY <2>1, <2>2, <2>3, <2>4
  <2>5. CASE g # service
    BY <1>3, <2>1, <2>5 DEF LoopShape
  <2> QED  BY <2>4, <2>5
<1> QED  BY <1>6, <1>7, <1>8

\* when it stops, when time goes on,
LEMMA StopBase ==
    ASSUME CronAssumption, CronBase, StopCron \/ Tick \/ UNCHANGED cronVars
    PROVE  CronBase'
<1> USE DEF CronBase
<1>1. /\ UNCHANGED <<file, service, store, loop, alarm, due, pendingEdit, cronSpent, ran, fresh,
                     acked, crossed>>
      /\ running' \subseteq running
  BY DEF StopCron, Tick, storeVars, loopVars, cronGhosts, cronVars
<1>2. now' \in 0..Horizon
  BY DEF StopCron, Tick, cronVars, CronTypeOK, CronAssumption
<1>3. CronTypeOK' /\ CronShape' /\ LoopShape'
  BY <1>1, <1>2 DEF CronTypeOK, CronShape, PendingShape, LoopShape
<1> QED  BY <1>3

\* when the process dies,
LEMMA CrashBase ==
    ASSUME CronAssumption, CronBase, Crash
    PROVE  CronBase'
<1> USE DEF CronBase
<1>1. 0 \in 0..Horizon
  BY DEF CronAssumption
<1>2. CronTypeOK'
  BY <1>1, NoJobTyped DEF Crash, CronTypeOK, cronGhosts
<1>3. CronShape'
  <2>1. due' \in [Services -> Seq(CronJobs)]
    BY DEF Crash
  <2> QED  BY <2>1 DEF Crash, CronShape, PendingShape, cronGhosts, NoJobs
<1>4. LoopShape'
  BY DEF Crash, LoopShape
<1> QED  BY <1>2, <1>3, <1>4

\* The loop reads its wake time, waits, ends.
LEMMA WaitBase ==
    ASSUME CronAssumption, CronBase, NEW g \in Services, ReadWake(g) \/ Arm(g) \/ LoopEnds(g)
    PROVE  CronBase'
<1> USE DEF CronBase
<1>1. UNCHANGED <<now, file, service, store, running, due, pendingEdit, cronSpent, ran, fresh,
                  acked, crossed>>
  BY DEF ReadWake, Arm, LoopEnds, storeVars, cronGhosts
<1>2. alarm' \in [Services -> 0..Horizon]
  <2>1. NextWake(store[g]) \in 0..Horizon /\ 0 \in 0..Horizon
    BY NextWakeTyped DEF CronTypeOK, CronAssumption
  <2> QED  BY <2>1 DEF ReadWake, Arm, LoopEnds, CronTypeOK
<1>3. /\ loop' \in [Services -> {"off", "compute", "arm", "select", "execute", "callback", "dead"}]
      /\ \A h \in Services \ {g} : loop'[h] = loop[h]
      /\ loop[g] \in {"compute", "arm", "select"} /\ loop'[g] \in {"arm", "select", "dead"}
      /\ loop'[g] = "dead" => g \notin running
  BY DEF ReadWake, Arm, LoopEnds, CronTypeOK
<1>4. CronTypeOK'
  BY <1>1, <1>2, <1>3 DEF CronTypeOK
<1>5. CronShape'
  BY <1>1 DEF CronShape, PendingShape
<1>6. LoopShape'
  <2>1. due[g] = <<>>
    BY <1>3 DEF LoopShape
  <2> QED  BY <1>1, <1>3, <2>1, LoopKeeps
<1> QED  BY <1>4, <1>5, <1>6

\* The due jobs lose their next run.
Cleared(g) == [j \in CronJobs |-> IF j \in DueNow(store[g])
                                    THEN [store[g][j] EXCEPT !.next = 0] ELSE store[g][j]]

\* Jobs that are due lose their next run.
LEMMA ClearedTyped ==
    ASSUME CronAssumption, CronBase, NEW g \in Services
    PROVE  /\ Cleared(g) \in [CronJobs -> CronRecords]
           /\ \A j \in CronJobs :
                 /\ Cleared(g)[j].kind = store[g][j].kind
                 /\ Cleared(g)[j].when = store[g][j].when
                 /\ Cleared(g)[j].on = store[g][j].on
                 /\ Cleared(g)[j].next = IF j \in DueNow(store[g]) THEN 0 ELSE store[g][j].next
                 /\ Cleared(g)[j].kind = "none" => Cleared(g)[j] = NoCronJob
<1>1. store[g] \in [CronJobs -> CronRecords]
  BY DEF CronBase, CronTypeOK
<1>2. \A j \in CronJobs :
          Cleared(g)[j] = IF j \in DueNow(store[g]) THEN [store[g][j] EXCEPT !.next = 0]
                          ELSE store[g][j]
  BY DEF Cleared
<1>3. 0 \in 0..2 * Horizon
  BY DEF CronAssumption
<1>4. ASSUME NEW j \in CronJobs
      PROVE  /\ Cleared(g)[j] \in CronRecords
             /\ Cleared(g)[j].kind = store[g][j].kind
             /\ Cleared(g)[j].when = store[g][j].when
             /\ Cleared(g)[j].on = store[g][j].on
             /\ Cleared(g)[j].next = IF j \in DueNow(store[g]) THEN 0 ELSE store[g][j].next
  BY <1>1, <1>2, <1>3 DEF CronRecords
<1>5. ASSUME NEW j \in CronJobs, Cleared(g)[j].kind = "none" PROVE Cleared(g)[j] = NoCronJob
  <2>1. store[g][j] = NoCronJob
    BY <1>4, <1>5 DEF CronBase, CronShape
  <2> QED  BY <1>2, <2>1 DEF NoCronJob
<1>6. Cleared(g) \in [CronJobs -> CronRecords]
  BY <1>4 DEF Cleared
<1> QED  BY <1>4, <1>5, <1>6

\* A service that runs finds its due jobs, each of them once.
LEMMA CheckEffect ==
    ASSUME CronAssumption, CronBase, NEW g \in Services, CheckJobs(g), g \in running
    PROVE  /\ due' \in [Services -> Seq(CronJobs)]
           /\ \A h \in Services \ {g} : due'[h] = due[h]
           /\ \A j : (\E i \in DOMAIN due'[g] : due'[g][i] = j) <=> j \in DueNow(store[g])
           /\ \A i, k \in DOMAIN due'[g] : due'[g][i] = due'[g][k] => i = k
           /\ Saves(g, Cleared(g))
<1> DEFINE D == DueNow(store[g])
           n == Cardinality(D)
<1>1. PICK order \in [1..n -> D] :
          /\ \A j \in D : \E i \in DOMAIN order : order[i] = j
          /\ due' = [due EXCEPT ![g] = order]
          /\ Write(g, Cleared(g))
  BY DEF CheckJobs, Cleared
<1>2. D \subseteq CronJobs
  BY DEF DueNow
<1>3. IsFiniteSet(D) /\ n \in Nat
  <2>1. IsFiniteSet(CronJobs)
    BY DEF CronAssumption
  <2>2. IsFiniteSet(D)
    BY <1>2, <2>1, FS_Subset
  <2> QED  BY <2>2, FS_CardinalityType
<1> HIDE DEF D, n
<1>4. order \in Seq(CronJobs) /\ DOMAIN order = 1..n
  BY <1>1, <1>2, <1>3
<1>5. due \in [Services -> Seq(CronJobs)]
  BY DEF CronBase, CronShape
<1>6. due'[g] = order /\ \A h \in Services \ {g} : due'[h] = due[h]
  BY <1>1, <1>5
<1>7. due' \in [Services -> Seq(CronJobs)]
  BY <1>1, <1>4, <1>5
<1>8. \A j : (\E i \in DOMAIN order : order[i] = j) <=> j \in D
  BY <1>1
<1>9. \A i, k \in DOMAIN order : order[i] = order[k] => i = k
  <2>1. order \in Surjection(1..n, D)
    BY <1>1 DEF Surjection
  <2>2. IsFiniteSet(1..n) /\ Cardinality(1..n) = n
    <3>1. 1 \in Int /\ n \in Int
      BY <1>3
    <3>2. IsFiniteSet(1..n) /\ Cardinality(1..n) = IF 1 > n THEN 0 ELSE n - 1 + 1
      BY <3>1, FS_Interval
    <3> QED  BY <1>3, <3>2
  <2>3. order \in Injection(1..n, D)
    <3>1. Cardinality(1..n) = Cardinality(D)
      BY <2>2 DEF n
    <3> DEFINE S == 1..n
    <3>2. IsFiniteSet(S) /\ Cardinality(S) = Cardinality(D) /\ order \in Surjection(S, D)
      BY <2>1, <2>2, <3>1
    <3> HIDE DEF S
    <3>3. order \in Injection(S, D)
      BY <3>2, FS_SurjSameCardinalityImpliesInj
    <3> QED  BY <3>3 DEF S
  <2> QED  BY <1>4, <2>3 DEF Injection, IsInjective
<1>10. Saves(g, Cleared(g))
  BY <1>1, WriteSaves DEF CronBase
<1> QED  BY <1>1, <1>6, <1>7, <1>8, <1>9, <1>10 DEF D

\* and when the loop finds what is due,
LEMMA CheckBase ==
    ASSUME CronAssumption, CronBase, NEW g \in Services, CheckJobs(g)
    PROVE  CronBase'
<1>1. /\ UNCHANGED <<now, service, running, pendingEdit, ran, fresh, acked>>
      /\ loop[g] = "select" /\ loop' = [loop EXCEPT ![g] = "execute"]
      /\ alarm' = [alarm EXCEPT ![g] = 0]
  BY DEF CheckJobs
<1>2. /\ loop' \in [Services -> {"off", "compute", "arm", "select", "execute", "callback", "dead"}]
      /\ loop'[g] = "execute" /\ \A h \in Services \ {g} : loop'[h] = loop[h]
      /\ alarm' \in [Services -> 0..Horizon]
  <2>1. 0 \in 0..Horizon
    BY DEF CronAssumption
  <2> QED  BY <1>1, <2>1 DEF CronBase, CronTypeOK
<1>3. PendingShape'
  BY <1>1, CurrentService, PendingKept
<1>4. g <= service
  BY <1>1 DEF CronBase, LoopShape
<1>5. CASE g \in running
  <2>1. /\ due' \in [Services -> Seq(CronJobs)]
        /\ \A h \in Services \ {g} : due'[h] = due[h]
        /\ \A j : (\E i \in DOMAIN due'[g] : due'[g][i] = j) <=> j \in DueNow(store[g])
        /\ \A i, k \in DOMAIN due'[g] : due'[g][i] = due'[g][k] => i = k
        /\ Saves(g, Cleared(g))
    BY <1>5, CheckEffect
  <2>2. /\ \A h \in Services \ {g} : store'[h] = store[h]
        /\ store' \in [Services -> [CronJobs -> CronRecords]]
        /\ file' \in [CronJobs -> CronRecords]
        /\ cronSpent' \in Nat /\ crossed' \in BOOLEAN
        /\ \A j \in CronJobs : file'[j].kind = "none" => file'[j] = NoCronJob
        /\ \A h \in Services, j \in CronJobs :
                 store'[h][j].kind = "none" => store'[h][j] = NoCronJob
    BY <2>1, ClearedTyped, WriteEffect DEF CronBase
  <2>3. CronTypeOK'
    BY <1>1, <1>2, <2>1, <2>2 DEF CronBase, CronTypeOK
  <2>4. CronShape'
    BY <1>1, <1>3, <2>1, <2>2 DEF CronBase, CronShape
  <2>5. LoopShape'
    <3>1. g > service => FALSE
      BY <1>4, CurrentService
    <3>2. \A h \in Services :
            /\ loop'[h] # "off" => h <= service
            /\ h > service => store'[h] = NoJobs
            /\ due'[h] # <<>> => loop'[h] \in {"execute", "callback"}
            /\ loop'[h] = "callback" => due'[h] # <<>>
            /\ \A i, k \in DOMAIN due'[h] : due'[h][i] = due'[h][k] => i = k
      <4> SUFFICES ASSUME NEW h \in Services
                   PROVE  /\ loop'[h] # "off" => h <= service
                          /\ h > service => store'[h] = NoJobs
                          /\ due'[h] # <<>> => loop'[h] \in {"execute", "callback"}
                          /\ loop'[h] = "callback" => due'[h] # <<>>
                          /\ \A i, k \in DOMAIN due'[h] : due'[h][i] = due'[h][k] => i = k
        OBVIOUS
      <4>1. CASE h = g
        <5>1. h <= service /\ ~(h > service)
          BY <1>4, <3>1, <4>1
        <5>2. loop'[h] = "execute"
          BY <1>2, <4>1
        <5>3. \A i, k \in DOMAIN due'[h] : due'[h][i] = due'[h][k] => i = k
          BY <2>1, <4>1, Zenon
        <5>4. loop'[h] \in {"execute", "callback"} /\ loop'[h] # "callback"
          BY <5>2
        <5> QED  BY <5>1, <5>3, <5>4, Zenon
      <4>2. CASE h # g
        <5>1. loop'[h] = loop[h] /\ due'[h] = due[h] /\ store'[h] = store[h]
          BY <1>2, <2>1, <2>2, <4>2
        <5> QED  BY <5>1 DEF CronBase, LoopShape
      <4> QED  BY <4>1, <4>2
    <3>3. service \in running => service > 0 /\ loop'[service] \notin {"off", "dead"}
      BY <1>2, CurrentService DEF CronBase, LoopShape
    <3> QED  BY <1>1, <3>2, <3>3 DEF LoopShape
  <2> QED  BY <2>3, <2>4, <2>5 DEF CronBase
<1>6. CASE g \notin running
  <2>1. UNCHANGED <<file, store, due, cronSpent, crossed>>
    BY <1>6 DEF CheckJobs
  <2>2. CronTypeOK'
    BY <1>1, <1>2, <2>1 DEF CronBase, CronTypeOK
  <2>3. CronShape'
    BY <1>1, <1>3, <2>1 DEF CronBase, CronShape
  <2>4. due[g] = <<>>
    BY <1>1 DEF CronBase, LoopShape
  <2>5. LoopShape'
    BY <1>1, <1>2, <2>1, <2>4, LoopKeeps DEF CronBase
  <2> QED  BY <2>2, <2>3, <2>5 DEF CronBase
<1> QED  BY <1>5, <1>6

\* The first of the due jobs leaves.
LEMMA DueTail ==
    ASSUME CronBase, NEW g \in Services, due[g] # <<>>, due' = [due EXCEPT ![g] = Tail(@)]
    PROVE  /\ due' \in [Services -> Seq(CronJobs)] /\ Head(due[g]) \in CronJobs
           /\ due'[g] = Tail(due[g]) /\ \A h \in Services \ {g} : due'[h] = due[h]
           /\ \A i, k \in DOMAIN due'[g] : due'[g][i] = due'[g][k] => i = k
           /\ Waiting(g, Head(due[g]))
           /\ \A j : Waiting(g, j)' <=> Waiting(g, j) /\ j # Head(due[g])
           /\ \A h \in Services \ {g} : \A j : Waiting(h, j)' <=> Waiting(h, j)
<1>1. due \in [Services -> Seq(CronJobs)] /\ due[g] \in Seq(CronJobs)
      /\ \A i, k \in DOMAIN due[g] : due[g][i] = due[g][k] => i = k
  BY DEF CronBase, CronShape, LoopShape
<1>2. due'[g] = Tail(due[g]) /\ \A h \in Services \ {g} : due'[h] = due[h]
  BY <1>1
<1>3. Tail(due[g]) \in Seq(CronJobs) /\ Head(due[g]) \in CronJobs
  BY <1>1
<1>4. due' \in [Services -> Seq(CronJobs)]
  BY <1>1, <1>3
<1> DEFINE s == due[g]
<1>5. /\ Len(s) \in Nat /\ Len(s) >= 1 /\ DOMAIN s = 1..Len(s) /\ Head(s) = s[1]
      /\ DOMAIN Tail(s) = 1..(Len(s) - 1)
      /\ \A i \in 1..(Len(s) - 1) : Tail(s)[i] = s[i + 1]
  BY <1>1
<1> HIDE DEF s
<1>6. \A i, k \in DOMAIN Tail(s) : Tail(s)[i] = Tail(s)[k] => i = k
  <2> SUFFICES ASSUME NEW i \in DOMAIN Tail(s), NEW k \in DOMAIN Tail(s), Tail(s)[i] = Tail(s)[k]
               PROVE  i = k
    OBVIOUS
  <2>1. i + 1 \in DOMAIN s /\ k + 1 \in DOMAIN s /\ s[i + 1] = s[k + 1] /\ i \in Nat /\ k \in Nat
    BY <1>5
  <2>2. i + 1 = k + 1
    BY <1>1, <2>1 DEF s
  <2> QED  BY <2>1, <2>2
<1>7. Waiting(g, Head(s))
  <2>1. 1 \in DOMAIN s
    BY <1>5
  <2> QED  BY <1>5, <2>1 DEF Waiting, s
<1>8. ASSUME NEW j
      PROVE  (\E i \in DOMAIN Tail(s) : Tail(s)[i] = j)
                <=> (\E i \in DOMAIN s : s[i] = j) /\ j # Head(s)
  <2>1. ASSUME NEW i \in DOMAIN Tail(s), Tail(s)[i] = j
        PROVE  (\E k \in DOMAIN s : s[k] = j) /\ j # Head(s)
    <3>1. i + 1 \in DOMAIN s /\ s[i + 1] = j /\ i + 1 # 1 /\ 1 \in DOMAIN s
      BY <1>5, <2>1
    <3>2. s[i + 1] # s[1]
      BY <1>1, <3>1 DEF s
    <3> QED  BY <1>5, <3>1, <3>2
  <2>2. ASSUME NEW i \in DOMAIN s, s[i] = j, j # Head(s)
        PROVE  \E k \in DOMAIN Tail(s) : Tail(s)[k] = j
    <3>1. i # 1
      BY <1>5, <2>2
    <3>2. i - 1 \in 1..(Len(s) - 1) /\ (i - 1) + 1 = i
      BY <1>5, <3>1
    <3>3. Tail(s)[i - 1] = j
      BY <1>5, <2>2, <3>2
    <3> QED  BY <1>5, <3>2, <3>3
  <2> QED  BY <2>1, <2>2
<1>9. ASSUME NEW j
      PROVE  Waiting(g, j)' <=> Waiting(g, j) /\ j # Head(due[g])
  <2>1. due'[g] = Tail(s) /\ due[g] = s
    BY <1>2 DEF s
  <2>2. Waiting(g, j)' <=> \E i \in DOMAIN Tail(s) : Tail(s)[i] = j
    BY <2>1 DEF Waiting
  <2>3. Waiting(g, j) <=> \E i \in DOMAIN s : s[i] = j
    BY <2>1 DEF Waiting
  <2> QED  BY <1>8, <2>1, <2>2, <2>3
<1>10. \A h \in Services \ {g} : \A j : Waiting(h, j)' <=> Waiting(h, j)
  BY <1>2 DEF Waiting
<1> QED  BY <1>2, <1>3, <1>4, <1>6, <1>7, <1>9, <1>10 DEF s

\* executes the first of it,
LEMMA RunBase ==
    ASSUME CronAssumption, CronBase, NEW g \in Services, RunJob(g)
    PROVE  CronBase'
<1>1. /\ UNCHANGED <<now, file, service, store, running, alarm, pendingEdit, cronSpent,
                     fresh, acked, crossed>>
      /\ loop[g] = "execute"
  BY DEF RunJob, storeVars
<1>2. PendingShape'
  BY <1>1, CurrentService, PendingKept
<1>3. CASE due[g] = <<>>
  <2>1. loop' = [loop EXCEPT ![g] = "compute"] /\ UNCHANGED <<due, ran>>
    BY <1>1, <1>3 DEF RunJob
  <2>2. /\ loop' \in [Services -> {"off", "compute", "arm", "select", "execute", "callback", "dead"}]
        /\ loop'[g] = "compute" /\ \A h \in Services \ {g} : loop'[h] = loop[h]
    BY <2>1 DEF CronBase, CronTypeOK
  <2>3. CronTypeOK' /\ CronShape'
    BY <1>1, <1>2, <2>1, <2>2 DEF CronBase, CronTypeOK, CronShape
  <2>4. LoopShape'
    BY <1>1, <1>3, <2>1, <2>2, LoopKeeps DEF CronBase
  <2> QED  BY <2>3, <2>4 DEF CronBase
<1>4. CASE due[g] # <<>> /\ store[g][Head(due[g])] = NoCronJob
  <2>1. due' = [due EXCEPT ![g] = Tail(@)] /\ UNCHANGED <<loop, ran>>
    BY <1>4 DEF RunJob
  <2>2. /\ due' \in [Services -> Seq(CronJobs)]
        /\ \A h \in Services \ {g} : due'[h] = due[h]
        /\ \A i, k \in DOMAIN due'[g] : due'[g][i] = due'[g][k] => i = k
    BY <1>4, <2>1, DueTail
  <2>3. CronShape'
    BY <1>1, <1>2, <2>1, <2>2 DEF CronBase, CronShape
  <2>4. CronTypeOK'
    BY <1>1, <2>1, <2>2 DEF CronBase, CronTypeOK
  <2>5. LoopShape'
    <3> SUFFICES ASSUME NEW h \in Services
                 PROVE  /\ due'[h] # <<>> => loop[h] \in {"execute", "callback"}
                        /\ loop[h] = "callback" => due'[h] # <<>>
                        /\ \A i, k \in DOMAIN due'[h] : due'[h][i] = due'[h][k] => i = k
      BY <1>1, <2>1 DEF CronBase, LoopShape
    <3>1. CASE h = g
      <4>1. loop[h] = "execute"
        BY <1>1, <3>1
      <4>2. \A i, k \in DOMAIN due'[h] : due'[h][i] = due'[h][k] => i = k
        BY <2>2, <3>1, Zenon
      <4> QED  BY <4>1, <4>2, Zenon
    <3>2. CASE h # g
      <4>1. due'[h] = due[h]
        BY <2>2, <3>2
      <4> QED  BY <4>1 DEF CronBase, LoopShape
    <3> QED  BY <3>1, <3>2
  <2> QED  BY <2>3, <2>4, <2>5 DEF CronBase
<1>5. CASE due[g] # <<>> /\ store[g][Head(due[g])] # NoCronJob
  <2>1. /\ ran' = [ran EXCEPT ![Head(due[g])] = @ + 1]
        /\ loop' = [loop EXCEPT ![g] = "callback"] /\ UNCHANGED due
    BY <1>5 DEF RunJob
  <2>2. /\ loop' \in [Services -> {"off", "compute", "arm", "select", "execute", "callback", "dead"}]
        /\ loop'[g] = "callback" /\ \A h \in Services \ {g} : loop'[h] = loop[h]
    BY <2>1 DEF CronBase, CronTypeOK
  <2>3. ran' \in [CronJobs -> Nat]
    <3>1. due[g] \in Seq(CronJobs) /\ ran \in [CronJobs -> Nat]
      BY DEF CronBase, CronShape
    <3>2. Head(due[g]) \in CronJobs
      BY <1>5, <3>1
    <3> QED  BY <2>1, <3>1, <3>2
  <2>4. CronTypeOK' /\ CronShape'
    BY <1>1, <1>2, <2>1, <2>2, <2>3 DEF CronBase, CronTypeOK, CronShape
  <2>5. LoopShape'
    <3>1. \A h \in Services : /\ loop'[h] # "off" <=> loop[h] # "off"
                              /\ loop'[h] = "dead" <=> loop[h] = "dead"
                              /\ loop'[h] = "callback" => h = g \/ loop[h] = "callback"
                              /\ loop[h] \in {"execute", "callback"}
                                   => loop'[h] \in {"execute", "callback"}
      BY <1>1, <2>2
    <3>2. service \in running => service \in Services
      BY CurrentService
    <3> QED  BY <1>1, <1>5, <2>1, <3>1, <3>2 DEF CronBase, LoopShape
  <2> QED  BY <2>4, <2>5 DEF CronBase
<1> QED  BY <1>3, <1>4, <1>5

\* What the service keeps of a job that has been executed.
Finished(job) == IF job.kind = "at" THEN NoCronJob ELSE [job EXCEPT !.next = ComputeNext(job, now)]
AfterRun(g, j) == [store[g] EXCEPT ![j] = Finished(store[g][j])]

\* The record of a job after its execution.
LEMMA AfterRunTyped ==
    ASSUME CronAssumption, CronBase, NEW g \in Services, NEW j \in CronJobs,
           store[g][j] # NoCronJob
    PROVE  /\ AfterRun(g, j) \in [CronJobs -> CronRecords]
           /\ AfterRun(g, j)[j] = Finished(store[g][j])
           /\ \A i \in CronJobs \ {j} : AfterRun(g, j)[i] = store[g][i]
           /\ \A i \in CronJobs : AfterRun(g, j)[i].kind = "none" => AfterRun(g, j)[i] = NoCronJob
           /\ store[g][j].kind = "every" =>
                 /\ Finished(store[g][j]).kind = "every"
                 /\ Finished(store[g][j]).when = store[g][j].when
           /\ store[g][j].kind = "at" => Finished(store[g][j]) = NoCronJob
           /\ store[g][j].kind \in {"at", "every"}
<1>1. store[g] \in [CronJobs -> CronRecords] /\ store[g][j].kind \in {"at", "every"}
  BY DEF CronBase, CronTypeOK, CronShape, CronRecords
<1>2. ComputeNext(store[g][j], now) \in 0..2 * Horizon
  BY <1>1, ComputeNextTyped DEF CronBase, CronTypeOK
<1>3. /\ Finished(store[g][j]) \in CronRecords
      /\ Finished(store[g][j]).kind = "none" => Finished(store[g][j]) = NoCronJob
      /\ store[g][j].kind = "every" => /\ Finished(store[g][j]).kind = "every"
                                       /\ Finished(store[g][j]).when = store[g][j].when
      /\ store[g][j].kind = "at" => Finished(store[g][j]) = NoCronJob
  <2>1. CASE store[g][j].kind = "at"
    BY <2>1, NoJobTyped DEF Finished
  <2>2. CASE store[g][j].kind = "every"
    <3>1. Finished(store[g][j]) = [store[g][j] EXCEPT !.next = ComputeNext(store[g][j], now)]
      BY <2>2 DEF Finished
    <3>2. store[g][j] \in CronRecords
      BY <1>1
    <3> QED  BY <1>2, <2>2, <3>1, <3>2 DEF CronRecords
  <2> QED  BY <1>1, <2>1, <2>2
<1>4. /\ AfterRun(g, j) \in [CronJobs -> CronRecords]
      /\ AfterRun(g, j)[j] = Finished(store[g][j])
      /\ \A i \in CronJobs \ {j} : AfterRun(g, j)[i] = store[g][i]
  BY <1>1, <1>3 DEF AfterRun
<1>5. \A i \in CronJobs : AfterRun(g, j)[i].kind = "none" => AfterRun(g, j)[i] = NoCronJob
  <2>1. \A i \in CronJobs : store[g][i].kind = "none" => store[g][i] = NoCronJob
    BY DEF CronBase, CronShape
  <2> QED  BY <1>3, <1>4, <2>1
<1> QED  BY <1>1, <1>3, <1>4, <1>5

\* Base facts of a step that writes the memory of a service that has a loop.
LEMMA WriteBase ==
    ASSUME CronAssumption, CronBase, NEW g \in Services, g <= service,
           NEW jobs \in [CronJobs -> CronRecords],
           \A j \in CronJobs : jobs[j].kind = "none" => jobs[j] = NoCronJob,
           Saves(g, jobs),
           UNCHANGED <<now, service, running, alarm>>,
           ran' = ran, fresh' \subseteq fresh, acked' \subseteq CronJobs \ fresh',
           PendingShape',
           due' \in [Services -> Seq(CronJobs)],
           loop' \in [Services -> {"off", "compute", "arm", "select", "execute", "callback", "dead"}],
           \A h \in Services :
                 /\ loop'[h] # "off" <=> loop[h] # "off"
                 /\ loop'[h] = "dead" <=> loop[h] = "dead"
                 /\ due'[h] # <<>> => loop'[h] \in {"execute", "callback"}
                 /\ loop'[h] = "callback" => due'[h] # <<>>
                 /\ \A i, k \in DOMAIN due'[h] : due'[h][i] = due'[h][k] => i = k
    PROVE  CronBase'
<1>1. /\ store'[g] = jobs /\ \A h \in Services \ {g} : store'[h] = store[h]
      /\ store' \in [Services -> [CronJobs -> CronRecords]]
      /\ file' \in [CronJobs -> CronRecords]
      /\ cronSpent' \in Nat /\ crossed' \in BOOLEAN
      /\ \A j \in CronJobs : file'[j].kind = "none" => file'[j] = NoCronJob
      /\ \A h \in Services, j \in CronJobs :
                 store'[h][j].kind = "none" => store'[h][j] = NoCronJob
  BY WriteEffect DEF CronBase
<1>2. CronTypeOK'
  <2>1. \A h \in Services : \A i \in DOMAIN due'[h] : due'[h][i] \in CronJobs
    BY DEF Services
  <2> QED  BY <1>1, <2>1 DEF CronBase, CronTypeOK
<1>3. CronShape'
  BY <1>1 DEF CronBase, CronShape
<1>4. LoopShape'
  <2>1. service \in running => service \in Services
    BY CurrentService
  <2>2. service \in running => service > 0 /\ loop'[service] \notin {"off", "dead"}
    BY <2>1 DEF CronBase, LoopShape
  <2>3. \A h \in Services : h > service => h # g
    BY CurrentService
  <2>4. \A h \in Services : h > service => store'[h] = NoJobs
    BY <1>1, <2>3 DEF CronBase, LoopShape
  <2>5. \A h \in Services : loop'[h] # "off" => h <= service
    BY DEF CronBase, LoopShape
  <2> QED  BY <2>2, <2>4, <2>5 DEF LoopShape
<1> QED  BY <1>2, <1>3, <1>4 DEF CronBase

\* What the end of an execution writes.
LEMMA DoneEffect ==
    ASSUME CronAssumption, CronBase, NEW g \in Services, JobDone(g)
    PROVE  /\ UNCHANGED <<now, service, running, alarm, pendingEdit, ran, fresh>>
           /\ loop[g] = "callback" /\ due[g] # <<>> /\ Head(due[g]) \in CronJobs
           /\ g <= service
           /\ due' = [due EXCEPT ![g] = Tail(@)]
           /\ loop' \in [Services -> {"off", "compute", "arm", "select", "execute", "callback", "dead"}]
           /\ loop'[g] = "execute" /\ \A h \in Services \ {g} : loop'[h] = loop[h]
           /\ acked' = IF store[g][Head(due[g])].kind = "at" THEN acked \ {Head(due[g])} ELSE acked
           /\ \/ /\ store[g][Head(due[g])] = NoCronJob
                 /\ UNCHANGED <<file, store, cronSpent, crossed>>
              \/ /\ store[g][Head(due[g])] # NoCronJob
                 /\ Saves(g, AfterRun(g, Head(due[g])))
<1>1. /\ UNCHANGED <<now, service, running, alarm, pendingEdit, ran, fresh>>
      /\ loop[g] = "callback"
      /\ due' = [due EXCEPT ![g] = Tail(@)]
      /\ acked' = IF store[g][Head(due[g])].kind = "at" THEN acked \ {Head(due[g])} ELSE acked
      /\ \/ /\ store[g][Head(due[g])] = NoCronJob
            /\ UNCHANGED <<file, store, cronSpent, crossed>>
         \/ /\ store[g][Head(due[g])] # NoCronJob
            /\ Write(g, AfterRun(g, Head(due[g])))
  BY DEF JobDone, AfterRun, Finished
<1>2. loop' = [loop EXCEPT ![g] = "execute"] /\ g <= service /\ due[g] # <<>>
  BY <1>1 DEF JobDone, CronBase, LoopShape
<1>3. /\ loop' \in [Services -> {"off", "compute", "arm", "select", "execute", "callback", "dead"}]
      /\ loop'[g] = "execute" /\ \A h \in Services \ {g} : loop'[h] = loop[h]
  BY <1>2 DEF CronBase, CronTypeOK
<1>4. Head(due[g]) \in CronJobs
  BY <1>1, <1>2, DueTail
<1> QED  BY <1>1, <1>2, <1>3, <1>4, WriteSaves DEF CronBase

\* or has executed it.
LEMMA DoneBase ==
    ASSUME CronAssumption, CronBase, NEW g \in Services, JobDone(g)
    PROVE  CronBase'
<1> DEFINE j == Head(due[g])
<1>1. /\ UNCHANGED <<now, service, running, alarm, pendingEdit, ran, fresh>>
      /\ loop[g] = "callback" /\ due[g] # <<>> /\ j \in CronJobs
      /\ g <= service
      /\ due' = [due EXCEPT ![g] = Tail(@)]
      /\ loop' \in [Services -> {"off", "compute", "arm", "select", "execute", "callback", "dead"}]
      /\ loop'[g] = "execute" /\ \A h \in Services \ {g} : loop'[h] = loop[h]
      /\ acked' \subseteq acked
      /\ \/ /\ store[g][j] = NoCronJob
            /\ UNCHANGED <<file, store, cronSpent, crossed>>
         \/ /\ store[g][j] # NoCronJob
            /\ Saves(g, AfterRun(g, j))
  BY DoneEffect
<1> HIDE DEF j
<1>2. /\ due' \in [Services -> Seq(CronJobs)]
      /\ \A h \in Services \ {g} : due'[h] = due[h]
      /\ \A i, k \in DOMAIN due'[g] : due'[g][i] = due'[g][k] => i = k
  BY <1>1, DueTail
<1>3. ASSUME NEW h \in Services
      PROVE  /\ loop'[h] # "off" <=> loop[h] # "off"
             /\ loop'[h] = "dead" <=> loop[h] = "dead"
             /\ due'[h] # <<>> => loop'[h] \in {"execute", "callback"}
             /\ loop'[h] = "callback" => due'[h] # <<>>
             /\ \A i, k \in DOMAIN due'[h] : due'[h][i] = due'[h][k] => i = k
  <2>1. CASE h = g
    <3>1. loop'[h] = "execute" /\ loop[h] = "callback"
      BY <1>1, <2>1
    <3>2. \A i, k \in DOMAIN due'[h] : due'[h][i] = due'[h][k] => i = k
      BY <1>2, <2>1, Zenon
    <3> QED  BY <3>1, <3>2, Zenon
  <2>2. CASE h # g
    <3>1. loop'[h] = loop[h] /\ due'[h] = due[h]
      BY <1>1, <1>2, <2>2
    <3> QED  BY <3>1 DEF CronBase, LoopShape
  <2> QED  BY <2>1, <2>2
<1>4. PendingShape'
  BY <1>1, CurrentService, PendingKept
<1>5. CASE store[g][j] # NoCronJob /\ Saves(g, AfterRun(g, j))
  <2>1. acked' \subseteq CronJobs \ fresh'
    BY <1>1 DEF CronBase, CronTypeOK
  <2>2. AfterRun(g, j) \in [CronJobs -> CronRecords]
    BY <1>1, <1>5, AfterRunTyped
  <2>3. \A i \in CronJobs : AfterRun(g, j)[i].kind = "none" => AfterRun(g, j)[i] = NoCronJob
    BY <1>1, <1>5, AfterRunTyped
  <2> QED  BY <1>1, <1>2, <1>3, <1>4, <1>5, <2>1, <2>2, <2>3, WriteBase
<1>6. CASE store[g][j] = NoCronJob /\ UNCHANGED <<file, store, cronSpent, crossed>>
  <2>1. CronTypeOK'
    <3>1. acked' \subseteq CronJobs \ fresh'
      BY <1>1 DEF CronBase, CronTypeOK
    <3>2. \A h \in Services : \A i \in DOMAIN due'[h] : due'[h][i] \in CronJobs
      BY <1>2
    <3> QED  BY <1>1, <1>6, <3>1, <3>2 DEF CronBase, CronTypeOK
  <2>2. CronShape'
    BY <1>1, <1>2, <1>4, <1>6 DEF CronBase, CronShape
  <2>3. LoopShape'
    <3>1. service \in running => service \in Services
      BY CurrentService
    <3> QED  BY <1>1, <1>3, <1>6, <3>1 DEF CronBase, LoopShape
  <2> QED  BY <2>1, <2>2, <2>3 DEF CronBase
<1> QED  BY <1>1, <1>5, <1>6

\* The memory of service g, with one record replaced.
With(g, j, job) == [store[g] EXCEPT ![j] = job]

\* The memory with a new record of a job.
LEMMA WithTyped ==
    ASSUME CronAssumption, CronBase, NEW g \in Services, NEW j \in CronJobs,
           NEW job \in CronRecords, job.kind = "none" => job = NoCronJob
    PROVE  /\ With(g, j, job) \in [CronJobs -> CronRecords]
           /\ With(g, j, job)[j] = job
           /\ \A i \in CronJobs \ {j} : With(g, j, job)[i] = store[g][i]
           /\ \A i \in CronJobs :
                 With(g, j, job)[i].kind = "none" => With(g, j, job)[i] = NoCronJob
<1>1. /\ With(g, j, job) \in [CronJobs -> CronRecords]
      /\ With(g, j, job)[j] = job
      /\ \A i \in CronJobs \ {j} : With(g, j, job)[i] = store[g][i]
  BY DEF With, CronBase, CronTypeOK
<1>2. \A i \in CronJobs : store[g][i].kind = "none" => store[g][i] = NoCronJob
  BY DEF CronBase, CronShape
<1> QED  BY <1>1, <1>2

\* What the cron tool does to a job of the current service, or to the one whose
\* copy it has got: the record is replaced and saved, and the loop may be woken.
Replaces(g, j, job) ==
    /\ Saves(g, With(g, j, job))
    /\ Notify(g) \/ UNCHANGED loop
    /\ UNCHANGED <<now, service, running, alarm, due, ran>>

\* The base is kept when the cron tool replaces a record.
LEMMA ReplaceBase ==
    ASSUME CronAssumption, CronBase, NEW g \in Services, NEW j \in CronJobs,
           NEW job \in CronRecords, job.kind = "none" => job = NoCronJob,
           g <= service, Replaces(g, j, job), PendingShape',
           fresh' \subseteq fresh, acked' \subseteq CronJobs \ fresh'
    PROVE  CronBase'
<1>1. UNCHANGED <<now, service, running, alarm, due, ran>> /\ Saves(g, With(g, j, job))
  BY DEF Replaces
<1>2. /\ loop' \in [Services -> {"off", "compute", "arm", "select", "execute", "callback", "dead"}]
      /\ loop'[g] = loop[g] \/ (loop[g] = "select" /\ loop'[g] = "compute")
      /\ \A h \in Services \ {g} : loop'[h] = loop[h]
  <2>1. CASE Notify(g)
    BY <2>1, NotifyEffect DEF CronBase
  <2>2. CASE UNCHANGED loop
    BY <2>2 DEF CronBase, CronTypeOK
  <2> QED  BY <2>1, <2>2 DEF Replaces
<1>3. \A h \in Services :
          /\ loop'[h] # "off" <=> loop[h] # "off"
          /\ loop'[h] = "dead" <=> loop[h] = "dead"
          /\ due'[h] # <<>> => loop'[h] \in {"execute", "callback"}
          /\ loop'[h] = "callback" => due'[h] # <<>>
          /\ \A i, k \in DOMAIN due'[h] : due'[h][i] = due'[h][k] => i = k
  BY <1>1, <1>2 DEF CronBase, LoopShape
<1>4. due' \in [Services -> Seq(CronJobs)] /\ ran' = ran
  BY <1>1 DEF CronBase, CronShape
<1>5. /\ With(g, j, job) \in [CronJobs -> CronRecords]
      /\ \A i \in CronJobs : With(g, j, job)[i].kind = "none" => With(g, j, job)[i] = NoCronJob
  BY WithTyped
<1> HIDE DEF With
<1> QED  BY <1>1, <1>2, <1>3, <1>4, <1>5, WriteBase

-------------------------------------------------------------------------------
\* The record that AddJob makes.
NewJob(kind, when) ==
    LET job == [kind |-> kind, when |-> when, on |-> TRUE, next |-> 0]
    IN [job EXCEPT !.next = ComputeNext(job, now)]

\* The record of a new job.
LEMMA NewJobTyped ==
    ASSUME CronAssumption, CronBase, NEW kind \in {"at", "every"}, NEW when \in 1..Horizon
    PROVE  /\ NewJob(kind, when) \in CronRecords
           /\ NewJob(kind, when).kind = kind /\ NewJob(kind, when).when = when
           /\ NewJob(kind, when).on
           /\ kind = "at" /\ NewJob(kind, when).next # 0 =>
                 NewJob(kind, when).next = when /\ now < when
<1> DEFINE job == [kind |-> kind, when |-> when, on |-> TRUE, next |-> 0]
<1>1. job \in CronRecords /\ job.kind = kind /\ job.when = when
  BY DEF CronRecords, CronAssumption
<1>2. now \in 0..Horizon
  BY DEF CronBase, CronTypeOK
<1> HIDE DEF job
<1>3. /\ ComputeNext(job, now) \in 0..2 * Horizon
      /\ kind = "at" /\ ComputeNext(job, now) # 0 => ComputeNext(job, now) = when /\ now < when
  BY <1>1, <1>2, ComputeNextTyped
<1>4. NewJob(kind, when) = [job EXCEPT !.next = ComputeNext(job, now)]
  BY DEF NewJob, job
<1>5. job.on
  BY DEF job
<1> HIDE DEF NewJob
<1> QED  BY <1>1, <1>3, <1>4, <1>5 DEF CronRecords

\* AddJob writes it.
LEMMA AddEffect ==
    ASSUME CronAssumption, CronBase, NEW j \in CronJobs, NEW kind \in {"at", "every"},
           NEW when \in 1..Horizon, AddJob(j, kind, when)
    PROVE  /\ service \in Services /\ loop[service] # "dead" /\ j \in fresh
           /\ fresh' = fresh \ {j} /\ pendingEdit = <<>>
           /\ Replaces(service, j, NewJob(kind, when))
           /\ pendingEdit' = <<>> \/ pendingEdit' = <<service, j, NewJob(kind, when)>>
           /\ acked' = acked \/ (acked' = acked \cup {j} /\ file' = store'[service])
<1>1. service \in Services
  BY CurrentService DEF AddJob
<1> DEFINE job == [kind |-> kind, when |-> when, on |-> TRUE, next |-> 0]
           new == [job EXCEPT !.next = ComputeNext(job, now)]
<1>2. /\ loop[service] # "dead" /\ j \in fresh
      /\ fresh' = fresh \ {j} /\ pendingEdit = <<>>
      /\ UNCHANGED <<now, service, running, alarm, due, ran>>
      /\ Write(service, [store[service] EXCEPT ![j] = new])
  BY DEF AddJob
<1>3. new = NewJob(kind, when)
  BY DEF NewJob
<1>4. \/ /\ cronSpent' = cronSpent /\ acked' = acked \cup {j} /\ Notify(service)
         /\ pendingEdit' \in {<<>>, <<service, j, new>>}
      \/ UNCHANGED <<acked, loop, pendingEdit>>
  BY Zenon DEF AddJob
<1> HIDE DEF new
<1>5. Saves(service, With(service, j, NewJob(kind, when)))
  BY <1>2, <1>3, WriteSaves DEF With, CronBase
<1>6. Notify(service) \/ UNCHANGED loop
  BY <1>4
<1>7. Replaces(service, j, NewJob(kind, when))
  BY <1>2, <1>5, <1>6 DEF Replaces
<1>8. pendingEdit' = <<>> \/ pendingEdit' = <<service, j, NewJob(kind, when)>>
  BY <1>2, <1>3, <1>4
<1>9. acked' = acked \/ (acked' = acked \cup {j} /\ file' = store'[service])
  <2>1. CASE cronSpent' = cronSpent /\ acked' = acked \cup {j}
    <3>1. file' = With(service, j, NewJob(kind, when))
      BY <1>5, <2>1 DEF Saves
    <3>2. store'[service] = With(service, j, NewJob(kind, when))
      BY <1>1, <1>5 DEF Saves, CronBase, CronTypeOK
    <3> QED  BY <2>1, <3>1, <3>2
  <2> QED  BY <1>4, <2>1
<1> QED  BY <1>1, <1>2, <1>7, <1>8, <1>9

\* AddJob keeps the base.
LEMMA AddBase ==
    ASSUME CronAssumption, CronBase, NEW j \in CronJobs, NEW kind \in {"at", "every"},
           NEW when \in 1..Horizon, AddJob(j, kind, when)
    PROVE  CronBase'
<1>1. /\ service \in Services /\ j \in fresh
      /\ fresh' = fresh \ {j} /\ pendingEdit = <<>>
      /\ Replaces(service, j, NewJob(kind, when))
      /\ pendingEdit' = <<>> \/ pendingEdit' = <<service, j, NewJob(kind, when)>>
      /\ acked' = acked \/ acked' = acked \cup {j}
  BY AddEffect
<1>2. NewJob(kind, when) \in CronRecords /\ NewJob(kind, when).kind # "none"
  BY NewJobTyped
<1>3. service' = service
  BY <1>1 DEF Replaces
<1>4. service' <= service' /\ service <= service
  BY <1>3, CurrentService
<1> DEFINE new == NewJob(kind, when)
<1> HIDE DEF new
<1>5. PendingShape'
  <2>1. CASE pendingEdit' = <<>>
    BY <2>1 DEF PendingShape
  <2>2. CASE pendingEdit' = <<service, j, new>>
    <3>1. new \in CronRecords /\ new.kind # "none"
      BY <1>2 DEF new
    <3> QED  BY <1>1, <1>3, <1>4, <2>2, <3>1 DEF PendingShape
  <2> QED  BY <1>1, <2>1, <2>2 DEF new
<1>6. fresh' \subseteq fresh /\ acked' \subseteq CronJobs \ fresh'
  BY <1>1 DEF CronBase, CronTypeOK
<1> QED  BY <1>1, <1>2, <1>4, <1>5, <1>6, ReplaceBase

-------------------------------------------------------------------------------
\* UpdateJob writes the copy it has got, if the job is still there.
LEMMA UpdateEffect ==
    ASSUME CronAssumption, CronBase, UpdateJob
    PROVE  /\ pendingEdit' = <<>>
           /\ UNCHANGED <<now, service, running, alarm, due, ran, fresh, acked>>
           /\ \E g \in Services, j \in CronJobs, job \in CronRecords :
                 /\ pendingEdit = <<g, j, job>> /\ g <= service /\ job.kind # "none"
                 /\ \/ UNCHANGED <<file, store, loop, cronSpent, crossed>>
                    \/ store[g][j] # NoCronJob /\ Replaces(g, j, job)
<1>1. /\ pendingEdit' = <<>> /\ pendingEdit # <<>>
      /\ UNCHANGED <<now, service, running, alarm, due, ran, fresh, acked>>
  BY DEF UpdateJob
<1>2. PICK g \in Services, j \in CronJobs, job \in CronRecords :
          pendingEdit = <<g, j, job>> /\ g <= service /\ job.kind # "none"
  BY <1>1 DEF CronBase, CronShape, PendingShape
<1>3. pendingEdit[1] = g /\ pendingEdit[2] = j /\ pendingEdit[3] = job
  BY <1>2
<1>4. \/ UNCHANGED <<file, store, loop, cronSpent, crossed>>
      \/ /\ store[g][j] # NoCronJob
         /\ Notify(g) /\ Write(g, [store[g] EXCEPT ![j] = job])
  BY <1>3, Zenon DEF UpdateJob
<1>5. ASSUME Notify(g), Write(g, [store[g] EXCEPT ![j] = job])
      PROVE  Replaces(g, j, job)
  BY <1>1, <1>5, WriteSaves DEF Replaces, With, CronBase
<1> QED  BY <1>1, <1>2, <1>4, <1>5

\* So does UpdateJob.
LEMMA UpdateBase ==
    ASSUME CronAssumption, CronBase, UpdateJob
    PROVE  CronBase'
<1>1. /\ pendingEdit' = <<>>
      /\ UNCHANGED <<now, service, running, alarm, due, ran, fresh, acked>>
  BY UpdateEffect
<1>2. PICK g \in Services, j \in CronJobs, job \in CronRecords :
         /\ g <= service /\ job.kind # "none"
         /\ \/ UNCHANGED <<file, store, loop, cronSpent, crossed>>
            \/ Replaces(g, j, job)
  BY UpdateEffect
<1>3. PendingShape'
  BY <1>1 DEF PendingShape
<1>4. CASE UNCHANGED <<file, store, loop, cronSpent, crossed>>
  BY <1>1, <1>3, <1>4 DEF CronBase, CronTypeOK, CronShape, LoopShape
<1>5. CASE Replaces(g, j, job)
  <2>1. fresh' \subseteq fresh /\ acked' \subseteq CronJobs \ fresh'
    BY <1>1 DEF CronBase, CronTypeOK
  <2> QED  BY <1>2, <1>3, <1>5, <2>1, ReplaceBase
<1> QED  BY <1>2, <1>4, <1>5

-------------------------------------------------------------------------------
\* RemoveJob writes that there is no job.
LEMMA RemoveEffect ==
    ASSUME CronAssumption, CronBase, NEW j \in CronJobs, RemoveJob(j)
    PROVE  /\ service \in Services /\ store[service][j] # NoCronJob
           /\ Replaces(service, j, NoCronJob) /\ acked' = acked \ {j}
           /\ UNCHANGED <<pendingEdit, fresh>>
<1>1. /\ service \in Services /\ store[service][j] # NoCronJob
      /\ store' = [store EXCEPT ![service][j] = NoCronJob]
      /\ file' = store'[service] /\ Notify(service) /\ acked' = acked \ {j}
      /\ cronSpent' = cronSpent + 1
      /\ UNCHANGED <<now, service, running, alarm, due, pendingEdit, ran, fresh, crossed>>
  BY CurrentService DEF RemoveJob, Trouble
<1>2. store' = [store EXCEPT ![service] = With(service, j, NoCronJob)]
  BY <1>1 DEF With, CronBase, CronTypeOK
<1>3. file' = With(service, j, NoCronJob)
  BY <1>1, <1>2 DEF CronBase, CronTypeOK
<1>4. ~(service < service) /\ crossed \in BOOLEAN
  BY <1>1, CurrentService DEF CronBase, CronShape
<1>5. Saves(service, With(service, j, NoCronJob))
  BY <1>1, <1>2, <1>3, <1>4 DEF Saves
<1> QED  BY <1>1, <1>5 DEF Replaces

\* RemoveJob keeps the base.
LEMMA RemoveBase ==
    ASSUME CronAssumption, CronBase, NEW j \in CronJobs, RemoveJob(j)
    PROVE  CronBase'
<1>1. /\ service \in Services /\ Replaces(service, j, NoCronJob) /\ acked' = acked \ {j}
      /\ UNCHANGED <<pendingEdit, fresh>>
  BY RemoveEffect
<1>2. service' = service /\ service \in Nat /\ service <= service
  BY <1>1, CurrentService DEF Replaces
<1>3. PendingShape'
  BY <1>1, <1>2, PendingKept
<1>4. fresh' \subseteq fresh /\ acked' \subseteq CronJobs \ fresh'
  BY <1>1 DEF CronBase, CronTypeOK
<1> QED  BY <1>1, <1>2, <1>3, <1>4, NoJobTyped, ReplaceBase

\* The record that EnableJob makes of a job.
Enabled(job, on) == [job EXCEPT !.on = on, !.next = IF on THEN ComputeNext(job, now) ELSE 0]

\* The record of a job that is enabled or disabled.
LEMMA EnabledTyped ==
    ASSUME CronAssumption, CronBase, NEW job \in CronRecords, NEW on \in BOOLEAN
    PROVE  /\ Enabled(job, on) \in CronRecords
           /\ Enabled(job, on).kind = job.kind /\ Enabled(job, on).when = job.when
           /\ Enabled(job, on).on = on
           /\ Enabled(job, on).next = IF on THEN ComputeNext(job, now) ELSE 0
<1>1. (IF on THEN ComputeNext(job, now) ELSE 0) \in 0..2 * Horizon
  BY ComputeNextTyped DEF CronBase, CronTypeOK, CronAssumption
<1> DEFINE n == IF on THEN ComputeNext(job, now) ELSE 0
<1>2. Enabled(job, on) = [job EXCEPT !.on = on, !.next = n]
  BY DEF Enabled
<1> HIDE DEF n
<1>3. n \in 0..2 * Horizon
  BY <1>1 DEF n
<1>4. [job EXCEPT !.on = on, !.next = n] \in CronRecords
  BY <1>3 DEF CronRecords
<1>5. Enabled(job, on).kind = job.kind /\ Enabled(job, on).when = job.when
      /\ Enabled(job, on).on = on /\ Enabled(job, on).next = n
  BY <1>2 DEF CronRecords
<1> QED  BY <1>2, <1>4, <1>5 DEF n

\* EnableJob writes it.
LEMMA EnableEffect ==
    ASSUME CronAssumption, CronBase, NEW j \in CronJobs, NEW on \in BOOLEAN, EnableJob(j, on)
    PROVE  /\ service \in Services /\ store[service][j] # NoCronJob
           /\ Replaces(service, j, Enabled(store[service][j], on))
           /\ UNCHANGED <<pendingEdit, fresh, acked>>
<1>1. /\ service \in Services /\ store[service][j] # NoCronJob
      /\ store' = [store EXCEPT ![service][j].on = on,
                     ![service][j].next = IF on THEN ComputeNext(store[service][j], now) ELSE 0]
      /\ file' = store'[service] /\ Notify(service)
      /\ cronSpent' = cronSpent + 1
      /\ UNCHANGED <<now, service, running, alarm, due, pendingEdit, ran, fresh, acked, crossed>>
  BY CurrentService DEF EnableJob, Trouble, cronGhosts
<1> DEFINE n == IF on THEN ComputeNext(store[service][j], now) ELSE 0
<1>2. Enabled(store[service][j], on) = [store[service][j] EXCEPT !.on = on, !.next = n]
  BY DEF Enabled
<1>3. store' = [store EXCEPT ![service][j].on = on, ![service][j].next = n]
  BY <1>1
<1> HIDE DEF n
<1>4. store' = [store EXCEPT ![service] = With(service, j, Enabled(store[service][j], on))]
  BY <1>1, <1>2, <1>3 DEF With, CronBase, CronTypeOK, CronRecords
<1>5. file' = With(service, j, Enabled(store[service][j], on))
  BY <1>1, <1>4 DEF CronBase, CronTypeOK
<1>6. ~(service < service) /\ crossed \in BOOLEAN
  BY <1>1, CurrentService DEF CronBase, CronShape
<1>7. Saves(service, With(service, j, Enabled(store[service][j], on)))
  BY <1>1, <1>4, <1>5, <1>6 DEF Saves
<1> QED  BY <1>1, <1>7 DEF Replaces

\* EnableJob keeps the base.
LEMMA EnableBase ==
    ASSUME CronAssumption, CronBase, NEW j \in CronJobs, NEW on \in BOOLEAN, EnableJob(j, on)
    PROVE  CronBase'
<1> DEFINE job == Enabled(store[service][j], on)
<1>1. /\ service \in Services /\ Replaces(service, j, job)
      /\ UNCHANGED <<pendingEdit, fresh, acked>>
  BY EnableEffect
<1>2. service' = service /\ service \in Nat /\ service <= service
  BY <1>1, CurrentService DEF Replaces
<1>3. store[service][j] \in CronRecords /\ store[service][j] # NoCronJob
  BY <1>1, EnableEffect DEF CronBase, CronTypeOK
<1>4. job \in CronRecords /\ job.kind # "none"
  <2>1. store[service][j].kind # "none"
    BY <1>1, <1>3 DEF CronBase, CronShape
  <2> QED  BY <1>3, <2>1, EnabledTyped
<1> HIDE DEF job
<1>5. PendingShape'
  BY <1>1, <1>2, PendingKept
<1>6. fresh' \subseteq fresh /\ acked' \subseteq CronJobs \ fresh'
  BY <1>1 DEF CronBase, CronTypeOK
<1> QED  BY <1>1, <1>2, <1>4, <1>5, <1>6, ReplaceBase

\* Every step keeps the base.
LEMMA CronBaseStep ==
    ASSUME CronAssumption, CronBase, [CronNext]_cronVars
    PROVE  CronBase'
<1>1. ASSUME NEW g \in Services, RunLoop(g) PROVE CronBase'
  BY <1>1, WaitBase, CheckBase, RunBase, DoneBase DEF RunLoop
<1>2. ASSUME NEW r \in CronRequests, AddJob(r[1], r[2], r[3]) PROVE CronBase'
  <2>1. r[1] \in CronJobs /\ r[2] \in {"at", "every"} /\ r[3] \in 1..Horizon
    BY <1>2 DEF CronAssumption
  <2> QED  BY <1>2, <2>1, AddBase
<1>3. ASSUME NEW j \in CronJobs, RemoveJob(j) PROVE CronBase'
  BY <1>3, RemoveBase
<1>4. ASSUME NEW j \in CronJobs, NEW on \in BOOLEAN, EnableJob(j, on) PROVE CronBase'
  BY <1>4, EnableBase
<1> QED  BY <1>1, <1>2, <1>3, <1>4, LoadBase, StartBase, StopBase, CrashBase, UpdateBase
         DEF CronNext

\* Record b goes back to record a: it is the same job, and a next run of a
\* one-shot job is the old one or one to come.
Derived(b, a) ==
    /\ b.kind = a.kind /\ b.when = a.when
    /\ b.next = 0 \/ (b.next = a.next /\ b.on = a.on)
         \/ (a.kind = "at" => b.on /\ b.next = b.when /\ now < b.when)

\* Every copy of the job after the step goes back to one before it.
Follows(j) ==
    \A b \in CopiesOf(j)' : b.kind # "none" => \E a \in CopiesOf(j) : Derived(b, a)

\* A copy is in the file, in a memory, or with a caller of UpdateJob.
LEMMA CopyOf ==
    ASSUME NEW j \in CronJobs
    PROVE  file[j] \in CopiesOf(j) /\ \A g \in Services : store[g][j] \in CopiesOf(j)
  BY DEF CopiesOf

\* Copies are records.
LEMMA CopyTyped ==
    ASSUME CronAssumption, CronBase, NEW j \in CronJobs, NEW a \in CopiesOf(j)
    PROVE  a \in CronRecords /\ (a.kind = "none" => a = NoCronJob)
<1>1. /\ file \in [CronJobs -> CronRecords] /\ store \in [Services -> [CronJobs -> CronRecords]]
      /\ file[j].kind = "none" => file[j] = NoCronJob
      /\ \A g \in Services : store[g][j].kind = "none" => store[g][j] = NoCronJob
  BY DEF CronBase, CronTypeOK, CronShape
<1>2. CASE a = file[j]
  BY <1>1, <1>2
<1>3. CASE \E g \in Services : a = store[g][j]
  BY <1>1, <1>3
<1>4. CASE a \in CronRecords /\ Editing(j) /\ a = pendingEdit[3]
  <2>1. PICK g \in Services, i \in CronJobs, job \in CronRecords :
            pendingEdit = <<g, i, job>> /\ job.kind # "none"
    BY <1>4 DEF CronBase, CronShape, PendingShape, Editing
  <2>2. a = job
    BY <1>4, <2>1
  <2> QED  BY <2>1, <2>2
<1> QED  BY <1>2, <1>3, <1>4 DEF CopiesOf

\* So are they after a step.
LEMMA CopyTypedNext ==
    ASSUME CronAssumption, CronBase', NEW j \in CronJobs, NEW a \in CopiesOf(j)', a.kind = "none"
    PROVE  a = NoCronJob
<1>1. /\ file'[j].kind = "none" => file'[j] = NoCronJob
      /\ \A g \in Services : store'[g][j].kind = "none" => store'[g][j] = NoCronJob
  BY DEF CronBase, CronShape
<1>2. CASE a = file'[j]
  BY <1>1, <1>2
<1>3. CASE \E g \in Services : a = store'[g][j]
  BY <1>1, <1>3
<1>4. CASE a \in CronRecords /\ Editing(j)' /\ a = pendingEdit'[3]
  <2>1. PICK g \in Services, i \in CronJobs, job \in CronRecords :
            pendingEdit' = <<g, i, job>> /\ job.kind # "none"
    BY <1>4 DEF CronBase, CronShape, PendingShape, Editing
  <2>2. a = job
    BY <1>4, <2>1
  <2> QED  BY <2>1, <2>2
<1> QED  BY <1>2, <1>3, <1>4 DEF CopiesOf

\* Copies go back to earlier ones when file, memories and the caller's copy do.
LEMMA FollowsIf ==
    ASSUME NEW j \in CronJobs,
           file'[j].kind # "none" => \E a \in CopiesOf(j) : Derived(file'[j], a),
           \A g \in Services :
              store'[g][j].kind # "none" => \E a \in CopiesOf(j) : Derived(store'[g][j], a),
           pendingEdit' = pendingEdit \/ pendingEdit' = <<>> \/ ~Editing(j)'
    PROVE  Follows(j)
<1> SUFFICES ASSUME NEW b \in CopiesOf(j)', b.kind # "none"
             PROVE  \E a \in CopiesOf(j) : Derived(b, a)
  BY DEF Follows
<1>1. CASE b = file'[j]
  BY <1>1
<1>2. CASE \E g \in Services : b = store'[g][j]
  BY <1>2
<1>3. CASE b \in CronRecords /\ Editing(j)' /\ b = pendingEdit'[3]
  <2>1. pendingEdit' = pendingEdit
    BY <1>3 DEF Editing
  <2>2. b \in CopiesOf(j)
    BY <1>3, <2>1 DEF Editing, CopiesOf
  <2>3. Derived(b, b)
    BY DEF Derived
  <2> QED  BY <2>2, <2>3
<1> QED  BY <1>1, <1>2, <1>3 DEF CopiesOf

\* Nothing but loops and clock changes.
LEMMA FollowsSame ==
    ASSUME NEW j \in CronJobs, UNCHANGED <<file, store>>,
           pendingEdit' = pendingEdit \/ pendingEdit' = <<>>
    PROVE  Follows(j)
<1>1. Derived(file[j], file[j]) /\ \A g \in Services : Derived(store[g][j], store[g][j])
  BY DEF Derived
<1> QED  BY <1>1, CopyOf, FollowsIf

\* A save copies what there is.
LEMMA FollowsSave ==
    ASSUME CronAssumption, CronBase, NEW j \in CronJobs, NEW g \in Services,
           NEW jobs \in [CronJobs -> CronRecords],
           \A i \in CronJobs : jobs[i].kind = "none" => jobs[i] = NoCronJob,
           Saves(g, jobs), pendingEdit' = pendingEdit \/ pendingEdit' = <<>> \/ ~Editing(j)',
           jobs[j].kind # "none" => \E a \in CopiesOf(j) : Derived(jobs[j], a)
    PROVE  Follows(j)
<1>1. /\ store'[g] = jobs /\ \A h \in Services \ {g} : store'[h] = store[h]
      /\ file' = jobs \/ file' = file
  BY WriteEffect DEF CronBase
<1>2. Derived(file[j], file[j]) /\ \A h \in Services : Derived(store[h][j], store[h][j])
  BY DEF Derived
<1>3. file'[j].kind # "none" => \E a \in CopiesOf(j) : Derived(file'[j], a)
  BY <1>1, <1>2, CopyOf
<1>4. ASSUME NEW h \in Services, store'[h][j].kind # "none"
      PROVE  \E a \in CopiesOf(j) : Derived(store'[h][j], a)
  <2>1. CASE h = g
    BY <1>1, <1>4, <2>1
  <2>2. CASE h # g
    BY <1>1, <1>2, <2>2, CopyOf
  <2> QED  BY <2>1, <2>2
<1> QED  BY <1>3, <1>4, FollowsIf

\* All copies of a one-shot job say so, and say when.
LEMMA AtKind ==
    ASSUME NEW j \in CronJobs, AgreeAt(j), IsAt(j), NEW a \in CopiesOf(j), a.kind # "none"
    PROVE  a.kind = "at" /\ \A b \in CopiesOf(j) : b.kind = "at" => b.when = a.when
  BY DEF AgreeAt, IsAt

\* A job that is one-shot after a step was one before.
LEMMA FollowsAt ==
    ASSUME NEW j \in CronJobs, Follows(j), IsAt(j)'
    PROVE  IsAt(j)
<1>1. PICK b \in CopiesOf(j)' : b.kind = "at"
  BY DEF IsAt
<1>2. PICK a \in CopiesOf(j) : Derived(b, a)
  BY <1>1 DEF Follows
<1> QED  BY <1>1, <1>2 DEF IsAt, Derived

\* What is left to show of a job whose copies go back to the old ones.
LEMMA JobKept ==
    ASSUME CronAssumption, CronBase, CronBase', NEW j \in CronJobs, JobInv(j), Follows(j),
           now <= now', j \in fresh' => j \in fresh,
           Unused(j) /\ ~Unused(j)' =>
               j \notin fresh /\ \A a \in CopiesOf(j) : a.kind = "at" => a.when <= now,
           IsAt(j) => RanOnce(j)' /\ NotAgain(j)'
    PROVE  JobInv(j)'
<1>1. AgreeAt(j)'
  <2>1. ASSUME NEW a \in CopiesOf(j)', NEW b \in CopiesOf(j)', a.kind # "none", b.kind # "none"
        PROVE  a.kind = b.kind /\ a.when = b.when
    <3>1. PICK c \in CopiesOf(j) : Derived(a, c)
      BY <2>1 DEF Follows
    <3>2. PICK d \in CopiesOf(j) : Derived(b, d)
      BY <2>1 DEF Follows
    <3>3. c.kind = d.kind /\ c.when = d.when
      BY <2>1, <3>1, <3>2 DEF JobInv, AgreeAt, Derived
    <3> QED  BY <3>1, <3>2, <3>3 DEF Derived
  <2>2. ASSUME j \in fresh', NEW a \in CopiesOf(j)'
        PROVE  Unused(j)' /\ a = NoCronJob
    <3>1. j \in fresh /\ Unused(j) /\ \A b \in CopiesOf(j) : b = NoCronJob
      BY <2>2 DEF JobInv, AgreeAt
    <3>2. a.kind = "none"
      <4>1. SUFFICES ASSUME a.kind # "none" PROVE FALSE
        OBVIOUS
      <4>2. PICK b \in CopiesOf(j) : Derived(a, b)
        BY <4>1 DEF Follows
      <4> QED  BY <3>1, <4>1, <4>2 DEF Derived, NoCronJob
    <3>3. a = NoCronJob
      BY <3>2, CopyTypedNext
    <3> QED  BY <3>1, <3>3
  <2>3. file'[j] \in CopiesOf(j)'
    BY DEF CopiesOf
  <2> QED  BY <2>1, <2>2, <2>3 DEF AgreeAt
<1>2. ASSUME IsAt(j)' PROVE CopiesRight(j)'
  <2>1. CopiesRight(j)
    BY <1>2, FollowsAt DEF JobInv
  <2> SUFFICES ASSUME NEW b \in CopiesOf(j)', b.kind = "at"
               PROVE  /\ b.next # 0 => b.next = b.when /\ b.on
                      /\ ~Unused(j)' => b.when <= now'
    BY DEF CopiesRight
  <2>2. PICK a \in CopiesOf(j) : Derived(b, a)
    BY DEF Follows
  <2>3. a.kind = "at" /\ a.when = b.when
    BY <2>2 DEF Derived
  <2>4. b.next # 0 => b.next = b.when /\ b.on
    BY <2>1, <2>2, <2>3 DEF CopiesRight, Derived
  <2>5. ASSUME ~Unused(j)' PROVE b.when <= now'
    <3>1. a.when <= now
      BY <2>1, <2>3, <2>5 DEF CopiesRight
    <3>2. a \in CronRecords
      BY CopyTyped
    <3>3. a.when \in Nat /\ now \in Nat /\ now' \in Nat
      BY <3>2 DEF CronRecords, CronBase, CronTypeOK
    <3> QED  BY <2>3, <3>1, <3>3
  <2> QED  BY <2>4, <2>5
<1>3. IsAt(j)' => RanOnce(j)' /\ NotAgain(j)'
  BY FollowsAt
<1> QED  BY <1>1, <1>2, <1>3 DEF JobInv

\* Where a job waits, something is due.
LEMMA WaitingDue ==
    ASSUME NEW g \in Services, NEW j, Waiting(g, j)
    PROVE  due[g] # <<>>
  BY DEF Waiting

\* Whether a job waits, or is unused, is a matter of due and ran.
LEMMA RanSame ==
    ASSUME NEW j \in CronJobs, UNCHANGED <<due, ran>>
    PROVE  /\ \A g \in Services : Waiting(g, j)' <=> Waiting(g, j)
           /\ Unused(j)' <=> Unused(j)
  BY DEF Waiting, Unused

\* It is kept when no job is executed.
LEMMA RanOnceKept ==
    ASSUME NEW j \in CronJobs, RanOnce(j), UNCHANGED <<due, ran>>,
           \A g \in Services : due[g] # <<>> => loop'[g] = loop[g]
    PROVE  RanOnce(j)'
<1>1. ran'[j] <= 1
  BY DEF RanOnce
<1>2. ASSUME NEW g \in Services, Waiting(g, j)'
      PROVE  /\ ran'[j] = 1 => loop'[g] = "callback" /\ Head(due'[g]) = j
             /\ \A h \in Services : Waiting(h, j)' => h = g
  <2>1. Waiting(g, j) /\ \A h \in Services : Waiting(h, j)' => Waiting(h, j)
    BY <1>2, RanSame
  <2>2. due[g] # <<>>
    BY <2>1, WaitingDue
  <2>3. ran[j] = 1 => loop[g] = "callback" /\ Head(due[g]) = j
    BY <2>1 DEF RanOnce
  <2>4. \A h \in Services : Waiting(h, j) => h = g
    BY <2>1 DEF RanOnce
  <2> QED  BY <2>1, <2>2, <2>3, <2>4
<1> QED  BY <1>1, <1>2 DEF RanOnce

\* The shape of NotAgain: what is left to show when due and ran stay.
LEMMA NotAgainKept ==
    ASSUME CronAssumption, CronBase, NEW j \in CronJobs, NotAgain(j), UNCHANGED <<due, ran, service>>,
           running' \subseteq running,
           pendingEdit' = pendingEdit \/ pendingEdit' = <<>> \/ ~Editing(j)',
           service > 0 => /\ store'[service][j].next # 0 => store[service][j].next # 0
                          /\ store[service][j] = NoCronJob => store'[service][j] = NoCronJob
                          /\ loop[service] # "off" => loop'[service] # "off"
    PROVE  NotAgain(j)'
<1>1. ASSUME NEW g \in running', store'[g][j].next # 0 PROVE Unused(j)' \/ Waiting(g, j)'
  <2>1. g = service /\ service > 0 /\ g \in Services /\ g \in running
    BY CurrentService DEF CronBase, CronTypeOK, LoopShape
  <2>2. Unused(j) \/ Waiting(g, j)
    BY <1>1, <2>1 DEF NotAgain
  <2> QED  BY <2>1, <2>2, RanSame
<1>2. ASSUME Editing(j)', pendingEdit'[1] = service'
      PROVE  \/ Unused(j)' \/ Waiting(service, j)'
             \/ (store'[service][j] = NoCronJob /\ loop'[service] # "off")
  <2>1. pendingEdit' = pendingEdit /\ Editing(j)
    BY <1>2 DEF Editing
  <2>2. service > 0 /\ service \in Services
    <3>1. PICK g \in Services, i \in CronJobs, job \in CronRecords : pendingEdit = <<g, i, job>>
      BY <2>1 DEF Editing, CronBase, CronShape, PendingShape
    <3>2. service = g
      BY <1>2, <2>1, <3>1
    <3>3. service > 0
      BY <3>2 DEF Services
    <3> QED  BY <3>2, <3>3
  <2>3. \/ Unused(j) \/ Waiting(service, j)
        \/ (store[service][j] = NoCronJob /\ loop[service] # "off")
    BY <1>2, <2>1 DEF NotAgain
  <2> QED  BY <2>2, <2>3, RanSame
<1>3. service' = service
  OBVIOUS
<1> QED  BY <1>1, <1>2, <1>3 DEF NotAgain

\* Steps that write no job.
LEMMA QuietJob ==
    ASSUME CronAssumption, CronBase, CronBase', NEW j \in CronJobs, JobInv(j),
           UNCHANGED <<file, store, service, due, ran, fresh>>, now <= now',
           pendingEdit' = pendingEdit \/ pendingEdit' = <<>>, running' \subseteq running,
           \A g \in Services : /\ due[g] # <<>> => loop'[g] = loop[g]
                               /\ loop[g] # "off" => loop'[g] # "off"
    PROVE  JobInv(j)'
<1>1. Follows(j)
  BY FollowsSame
<1>2. Unused(j)' <=> Unused(j)
  BY RanSame
<1>3. IsAt(j) => RanOnce(j)'
  BY RanOnceKept DEF JobInv
<1>4. IsAt(j) => NotAgain(j)'
  BY CurrentService, NotAgainKept DEF JobInv
<1> QED  BY <1>1, <1>2, <1>3, <1>4, JobKept

\* A clock that stands does not go back.
LEMMA SameTime ==
    ASSUME CronBase, now' = now
    PROVE  now <= now'
  BY DEF CronBase, CronTypeOK

\* Steps of the loops that execute nothing keep all jobs.
LEMMA QuietJobs ==
    ASSUME CronAssumption, CronBase, CronBase', JobsInv,
           \/ StopCron \/ Tick \/ UNCHANGED cronVars
           \/ \E g \in Services :
                 \/ ReadWake(g) \/ Arm(g) \/ LoopEnds(g) \/ (CheckJobs(g) /\ g \notin running)
                 \/ (RunJob(g) /\ due[g] = <<>>)
    PROVE  JobsInv'
<1> SUFFICES ASSUME NEW j \in CronJobs PROVE JobInv(j)'
  BY DEF JobsInv
<1>1. JobInv(j)
  BY DEF JobsInv
<1>2. CASE StopCron \/ Tick \/ UNCHANGED cronVars
  <2>1. /\ UNCHANGED <<file, store, service, due, ran, fresh, pendingEdit, loop>>
        /\ running' \subseteq running
    BY <1>2 DEF StopCron, Tick, storeVars, loopVars, cronGhosts, cronVars
  <2>2. now <= now'
    BY <1>2 DEF StopCron, Tick, cronVars, CronBase, CronTypeOK
  <2> QED  BY <1>1, <2>1, <2>2, QuietJob
<1>3. ASSUME NEW g \in Services,
             \/ ReadWake(g) \/ Arm(g) \/ LoopEnds(g) \/ (CheckJobs(g) /\ g \notin running)
             \/ (RunJob(g) /\ due[g] = <<>>)
      PROVE  JobInv(j)'
  <2>1. /\ UNCHANGED <<now, file, store, service, due, ran, fresh, pendingEdit, running>>
        /\ loop[g] # "off" /\ loop'[g] # "off" /\ \A h \in Services \ {g} : loop'[h] = loop[h]
        /\ due[g] = <<>>
    <3>1. CASE ReadWake(g) \/ Arm(g) \/ LoopEnds(g)
      BY <3>1 DEF ReadWake, Arm, LoopEnds, storeVars, cronGhosts, CronBase, LoopShape, CronTypeOK
    <3>2. CASE CheckJobs(g) /\ g \notin running
      BY <3>2 DEF CheckJobs, CronBase, LoopShape, CronTypeOK
    <3>3. CASE RunJob(g) /\ due[g] = <<>>
      BY <3>3 DEF RunJob, storeVars, CronBase, CronTypeOK
    <3> QED  BY <1>3, <3>1, <3>2, <3>3
  <2>2. now <= now'
    BY <2>1, SameTime
  <2>3. \A h \in Services : /\ due[h] # <<>> => loop'[h] = loop[h]
                            /\ loop[h] # "off" => loop'[h] # "off"
    BY <2>1
  <2> QED  BY <1>1, <2>1, <2>2, <2>3, QuietJob
<1> QED  BY <1>2, <1>3

-------------------------------------------------------------------------------
\* So does loading the file,
LEMMA LoadJobs ==
    ASSUME CronAssumption, CronBase, CronBase', JobsInv, Load
    PROVE  JobsInv'
<1> SUFFICES ASSUME NEW j \in CronJobs PROVE JobInv(j)'
  BY DEF JobsInv
<1>1. /\ service' = service + 1 /\ service' \in Services /\ service \in Nat
      /\ running = {} /\ running' = {}
      /\ UNCHANGED <<now, file, loop, due, pendingEdit, ran, fresh>>
      /\ JobInv(j)
  BY CurrentService DEF Load, CronBase, CronTypeOK, Services, loopVars, cronGhosts, JobsInv
<1>2. store'[service'] = file /\ \A g \in Services \ {service'} : store'[g] = store[g]
  BY <1>1 DEF Load, CronBase, CronTypeOK
<1>3. Follows(j)
  <2>1. Derived(file[j], file[j]) /\ \A g \in Services : Derived(store[g][j], store[g][j])
    BY DEF Derived
  <2>2. ASSUME NEW g \in Services PROVE \E a \in CopiesOf(j) : Derived(store'[g][j], a)
    <3>1. CASE g = service'
      BY <1>2, <2>1, <3>1, CopyOf
    <3>2. CASE g # service'
      BY <1>2, <2>1, <3>2, CopyOf
    <3> QED  BY <3>1, <3>2
  <2>3. \E a \in CopiesOf(j) : Derived(file'[j], a)
    BY <1>1, <2>1, CopyOf
  <2> QED  BY <1>1, <2>2, <2>3, FollowsIf
<1>4. IsAt(j) => RanOnce(j)'
  BY <1>1, RanOnceKept DEF JobInv
<1>5. NotAgain(j)'
  <2>1. ~(Editing(j)' /\ pendingEdit'[1] = service')
    <3>1. SUFFICES ASSUME pendingEdit # <<>> PROVE pendingEdit[1] # service'
      BY <1>1 DEF Editing
    <3>2. PICK g \in Services, i \in CronJobs, job \in CronRecords :
              pendingEdit = <<g, i, job>> /\ g <= service
      BY <3>1 DEF CronBase, CronShape, PendingShape
    <3>3. pendingEdit[1] = g /\ g \in Nat
      BY <3>2, CurrentService
    <3> QED  BY <1>1, <3>2, <3>3
  <2> QED  BY <1>1, <2>1 DEF NotAgain
<1>6. Unused(j)' <=> Unused(j)
  BY <1>1, RanSame
<1>7. now <= now'
  BY <1>1, SameTime
<1> QED  BY <1>1, <1>3, <1>4, <1>5, <1>6, <1>7, JobKept

\* a crash,
LEMMA CrashJobs ==
    ASSUME CronAssumption, CronBase, CronBase', JobsInv, Crash
    PROVE  JobsInv'
<1> SUFFICES ASSUME NEW j \in CronJobs PROVE JobInv(j)'
  BY DEF JobsInv
<1>1. /\ running' = {} /\ pendingEdit' = <<>> /\ due' = [g \in Services |-> <<>>]
      /\ store' = [g \in Services |-> NoJobs]
      /\ UNCHANGED <<now, file, service, ran, fresh>>
      /\ JobInv(j)
  BY DEF Crash, cronGhosts, JobsInv
<1>2. Follows(j)
  <2>1. Derived(file[j], file[j])
    BY DEF Derived
  <2>2. \A g \in Services : store'[g][j].kind = "none"
    BY <1>1 DEF NoJobs, NoCronJob
  <2>3. \E a \in CopiesOf(j) : Derived(file'[j], a)
    BY <1>1, <2>1, CopyOf
  <2> QED  BY <1>1, <2>2, <2>3, FollowsIf
<1>3. \A g \in Services : ~Waiting(g, j)'
  BY <1>1 DEF Waiting
<1>4. IsAt(j) => RanOnce(j)'
  BY <1>1, <1>3 DEF JobInv, RanOnce
<1>5. NotAgain(j)'
  BY <1>1 DEF NotAgain, Editing
<1>6. Unused(j) => Unused(j)'
  BY <1>1, <1>3 DEF Unused
<1>7. now <= now'
  BY <1>1, SameTime
<1> QED  BY <1>1, <1>2, <1>4, <1>5, <1>6, <1>7, JobKept

\* A next run that is computed anew goes back to the record it is computed from.
LEMMA RenewedDerived ==
    ASSUME CronAssumption, CronBase, NEW a \in CronRecords, NEW b,
           b.kind = a.kind, b.when = a.when, b.on \in BOOLEAN,
           b.next = 0 \/ (b.on /\ b.next = ComputeNext(a, now))
    PROVE  /\ Derived(b, a)
           /\ a.kind = "at" /\ b.next # 0 => now < a.when
<1>1. /\ ComputeNext(a, now) \in Nat
      /\ a.kind = "at" /\ ComputeNext(a, now) # 0
            => ComputeNext(a, now) = a.when /\ now < a.when
  BY ComputeNextTyped DEF CronBase, CronTypeOK, CronAssumption
<1> QED  BY <1>1 DEF Derived

\* the start, which computes the next runs anew,
LEMMA StartJobs ==
    ASSUME CronAssumption, CronBase, CronBase', JobsInv, StartCron
    PROVE  JobsInv'
<1> SUFFICES ASSUME NEW j \in CronJobs PROVE JobInv(j)'
  BY DEF JobsInv
<1> USE DEF CronBase
<1>1. /\ service \in Services /\ file \in [CronJobs -> CronRecords]
      /\ UNCHANGED <<now, service, due, pendingEdit, ran, fresh>>
      /\ loop[service] = "off" /\ running' \subseteq {service}
      /\ loop' = [loop EXCEPT ![service] = "compute"]
      /\ JobInv(j)
  BY CurrentService DEF StartCron, CronTypeOK, cronGhosts, JobsInv
<1>2. /\ store' = [store EXCEPT ![service] = Recompute(file)]
      /\ file' = store'[service]
  BY DEF StartCron
<1>3. /\ store'[service] = Recompute(file) /\ file' = Recompute(file)
      /\ \A g \in Services \ {service} : store'[g] = store[g]
  BY <1>1, <1>2 DEF CronTypeOK
<1> DEFINE new == Recompute(file)[j]
<1>4. /\ new.kind = file[j].kind /\ new.when = file[j].when /\ new.on = file[j].on
      /\ new.next = IF file[j].on THEN ComputeNext(file[j], now) ELSE file[j].next
      /\ file[j] \in CronRecords
  BY <1>1, RecomputeTyped DEF CronTypeOK
<1>5. file'[j] = new /\ store'[service][j] = new
  BY <1>3
<1> HIDE DEF new
<1>6. /\ Derived(new, file[j])
      /\ new.kind = "at" /\ new.next # 0 => file[j].next = new.next \/ now < new.when
      /\ new.kind = "at" /\ new.next # 0 => file[j].on \/ file[j].next = new.next
      /\ new.on => (new.kind = "at" /\ new.next # 0 => now < new.when)
  <2>1. CASE file[j].on
    <3>1. new.on \in BOOLEAN /\ new.next = ComputeNext(file[j], now) /\ new.on
      BY <1>4, <2>1
    <3> QED  BY <1>4, <2>1, <3>1, RenewedDerived
  <2>2. CASE ~file[j].on
    BY <1>4, <2>2 DEF Derived
  <2> QED  BY <2>1, <2>2
<1>7. Follows(j)
  <2>1. \A g \in Services : Derived(store[g][j], store[g][j])
    BY DEF Derived
  <2>2. ASSUME NEW g \in Services PROVE \E a \in CopiesOf(j) : Derived(store'[g][j], a)
    <3>1. CASE g = service
      BY <1>5, <1>6, <3>1, CopyOf
    <3>2. CASE g # service
      BY <1>3, <2>1, <3>2, CopyOf
    <3> QED  BY <3>1, <3>2
  <2>3. \E a \in CopiesOf(j) : Derived(file'[j], a)
    BY <1>5, <1>6, CopyOf
  <2> QED  BY <1>1, <2>2, <2>3, FollowsIf
<1>8. due[service] = <<>> /\ ~Waiting(service, j)
  BY <1>1, WaitingDue DEF LoopShape
<1>9. IsAt(j) => RanOnce(j)'
  <2>1. \A g \in Services : due[g] # <<>> => loop'[g] = loop[g]
    BY <1>1, <1>8 DEF CronTypeOK
  <2> QED  BY <1>1, <2>1, RanOnceKept DEF JobInv
<1>10. ASSUME IsAt(j) PROVE NotAgain(j)'
  <2>1. CopiesRight(j) /\ NotAgain(j)
    BY <1>1, <1>10 DEF JobInv
  <2>2. ASSUME NEW g \in running', store'[g][j].next # 0 PROVE Unused(j)'
    <3>1. new.next # 0
      BY <1>1, <1>5, <2>2
    <3>2. file[j].kind # "none"
      <4>1. file[j].kind = "none" => file[j] = NoCronJob
        BY DEF CronShape
      <4> QED  BY <1>4, <3>1, <4>1 DEF NoCronJob
    <3>3. file[j].kind = "at"
      BY <1>1, <1>10, <3>2, AtKind, CopyOf DEF JobInv
    <3>4. file[j].next # 0 => file[j].on
      BY <2>1, <3>3, CopyOf DEF CopiesRight
    <3>5. file[j].on /\ now < file[j].when
      BY <1>4, <1>6, <3>1, <3>3, <3>4
    <3>6. ~Unused(j) => file[j].when <= now
      BY <2>1, <3>3, CopyOf DEF CopiesRight
    <3>7. Unused(j)
      BY <1>4, <3>5, <3>6 DEF CronRecords, CronTypeOK
    <3> QED  BY <1>1, <3>7, RanSame
  <2>3. Editing(j)' /\ pendingEdit'[1] = service' => Unused(j)'
    <3>1. Editing(j) /\ pendingEdit[1] = service => Unused(j)
      BY <1>1, <1>8, <2>1 DEF NotAgain
    <3> QED  BY <1>1, <3>1, RanSame DEF Editing
  <2> QED  BY <2>2, <2>3 DEF NotAgain
<1>11. Unused(j)' <=> Unused(j)
  BY <1>1, RanSame
<1>12. now <= now'
  BY <1>1, SameTime
<1> QED  BY <1>1, <1>7, <1>9, <1>10, <1>11, <1>12, JobKept

\* and the check that clears the next runs of what is due.
LEMMA CheckJobsKept ==
    ASSUME CronAssumption, CronBase, CronBase', JobsInv, NEW g \in Services,
           CheckJobs(g), g \in running
    PROVE  JobsInv'
<1> SUFFICES ASSUME NEW j \in CronJobs PROVE JobInv(j)'
  BY DEF JobsInv
<1>1. /\ UNCHANGED <<now, service, running, pendingEdit, ran, fresh>>
      /\ loop[g] = "select" /\ loop'[g] = "execute"
      /\ \A h \in Services \ {g} : loop'[h] = loop[h]
      /\ g = service /\ due[g] = <<>> /\ JobInv(j)
  BY DEF CheckJobs, CronBase, CronTypeOK, LoopShape, JobsInv
<1>2. /\ \A h \in Services \ {g} : due'[h] = due[h]
      /\ \A i : (\E k \in DOMAIN due'[g] : due'[g][k] = i) <=> i \in DueNow(store[g])
      /\ Saves(g, Cleared(g))
  BY CheckEffect
<1>3. /\ Waiting(g, j)' <=> j \in DueNow(store[g])
      /\ ~Waiting(g, j)
      /\ \A h \in Services \ {g} : Waiting(h, j)' <=> Waiting(h, j)
  <2>1. Waiting(g, j)' <=> j \in DueNow(store[g])
    BY <1>2 DEF Waiting
  <2>2. ~Waiting(g, j)
    BY <1>1, WaitingDue
  <2>3. \A h \in Services \ {g} : Waiting(h, j)' <=> Waiting(h, j)
    BY <1>2 DEF Waiting
  <2> QED  BY <2>1, <2>2, <2>3
<1> DEFINE new == Cleared(g)[j]
<1>4. /\ new.kind = store[g][j].kind /\ new.when = store[g][j].when /\ new.on = store[g][j].on
      /\ new.next = IF j \in DueNow(store[g]) THEN 0 ELSE store[g][j].next
      /\ new.kind = "none" => new = NoCronJob
      /\ \A i \in CronJobs : Cleared(g)[i].kind = "none" => Cleared(g)[i] = NoCronJob
      /\ Cleared(g) \in [CronJobs -> CronRecords]
  BY ClearedTyped
<1>5. store'[g][j] = new /\ \A h \in Services \ {g} : store'[h] = store[h]
  BY <1>2, <1>4, WriteEffect DEF CronBase
<1>6. Follows(j)
  <2>1. Derived(new, store[g][j])
    BY <1>4 DEF Derived
  <2>2. store[g][j] \in CopiesOf(j)
    BY CopyOf
  <2> QED  BY <1>1, <1>2, <1>4, <2>1, <2>2, FollowsSave
<1> HIDE DEF new
\* A one-shot job that is due has not been used.
<1>7. ASSUME IsAt(j), j \in DueNow(store[g])
      PROVE  /\ Unused(j) /\ store[g][j].kind = "at" /\ store[g][j].when <= now
  <2>1. store[g][j].next # 0 /\ store[g][j].next <= now
    BY <1>7 DEF DueNow
  <2>2. store[g][j].kind = "at"
    <3>1. store[g][j].kind # "none"
      BY <2>1 DEF CronBase, CronShape, NoCronJob
    <3> QED  BY <1>1, <1>7, <3>1, AtKind, CopyOf DEF JobInv
  <2>3. store[g][j].when <= now
    <3>1. store[g][j].next = store[g][j].when
      BY <1>1, <1>7, <2>1, <2>2, CopyOf DEF JobInv, CopiesRight
    <3> QED  BY <2>1, <3>1
  <2>4. Unused(j)
    BY <1>1, <1>3, <1>7, <2>1 DEF JobInv, NotAgain
  <2> QED  BY <2>2, <2>3, <2>4
<1>8. Unused(j) /\ ~Unused(j)' =>
          j \notin fresh /\ \A a \in CopiesOf(j) : a.kind = "at" => a.when <= now
  <2> SUFFICES ASSUME Unused(j), ~Unused(j)'
               PROVE  j \notin fresh /\ \A a \in CopiesOf(j) : a.kind = "at" => a.when <= now
    OBVIOUS
  <2>1. j \in DueNow(store[g])
    BY <1>1, <1>3 DEF Unused
  <2>2. store[g][j] # NoCronJob
    BY <2>1 DEF DueNow, NoCronJob
  <2>3. j \notin fresh
    BY <1>1, <2>2, CopyOf DEF JobInv, AgreeAt
  <2>4. ASSUME NEW a \in CopiesOf(j), a.kind = "at" PROVE a.when <= now
    <3>1. IsAt(j)
      BY <2>4 DEF IsAt
    <3>2. store[g][j].kind = "at" /\ store[g][j].when <= now
      BY <1>7, <2>1, <3>1
    <3>3. store[g][j].when = a.when
      BY <1>1, <2>4, <3>1, <3>2, AtKind, CopyOf DEF JobInv
    <3> QED  BY <3>2, <3>3
  <2> QED  BY <2>3, <2>4
<1>9. ASSUME IsAt(j) PROVE RanOnce(j)'
  <2>1. RanOnce(j)
    BY <1>1, <1>9 DEF JobInv
  <2>2. CASE j \in DueNow(store[g])
    <3>1. ran[j] = 0 /\ \A h \in Services : ~Waiting(h, j)
      BY <1>7, <1>9, <2>2 DEF Unused
    <3>2. \A h \in Services : Waiting(h, j)' => h = g
      BY <1>3, <3>1
    <3>3. ran'[j] = 0 /\ 0 <= 1
      BY <1>1, <3>1
    <3> QED  BY <3>2, <3>3 DEF RanOnce
  <2>3. CASE j \notin DueNow(store[g])
    <3>1. \A h \in Services : Waiting(h, j)' => Waiting(h, j) /\ h # g
      BY <1>3, <2>3
    <3>2. ASSUME NEW h \in Services, Waiting(h, j)'
          PROVE  /\ ran'[j] = 1 => loop'[h] = "callback" /\ Head(due'[h]) = j
                 /\ \A k \in Services : Waiting(k, j)' => k = h
      <4>1. Waiting(h, j) /\ h # g /\ loop'[h] = loop[h] /\ due'[h] = due[h]
        BY <1>1, <1>2, <3>1, <3>2
      <4>2. /\ ran[j] = 1 => loop[h] = "callback" /\ Head(due[h]) = j
            /\ \A k \in Services : Waiting(k, j) => k = h
        BY <2>1, <4>1 DEF RanOnce
      <4> QED  BY <1>1, <3>1, <4>1, <4>2
    <3>3. ran'[j] <= 1
      BY <1>1, <2>1 DEF RanOnce
    <3> QED  BY <3>2, <3>3 DEF RanOnce
  <2> QED  BY <2>2, <2>3
<1>10. ASSUME IsAt(j) PROVE NotAgain(j)'
  <2>1. NotAgain(j) /\ g \in running /\ g = service
    BY <1>1, <1>10 DEF JobInv
  <2>2. ASSUME j \notin DueNow(store[g]), Unused(j) PROVE Unused(j)'
    BY <1>1, <1>3, <2>2 DEF Unused
  <2>3. ASSUME NEW h \in running', store'[h][j].next # 0 PROVE Unused(j)' \/ Waiting(h, j)'
    <3>1. h = g
      BY <1>1, <2>1 DEF CronBase, CronTypeOK
    <3>2. CASE j \in DueNow(store[g])
      BY <1>3, <3>1, <3>2
    <3>3. CASE j \notin DueNow(store[g])
      <4>1. store[g][j].next # 0
        BY <1>4, <1>5, <2>3, <3>1, <3>3 DEF new
      <4>2. Unused(j)
        BY <1>3, <2>1, <4>1 DEF NotAgain
      <4> QED  BY <2>2, <3>3, <4>2
    <3> QED  BY <3>2, <3>3
  <2>4. ASSUME Editing(j)', pendingEdit'[1] = service'
        PROVE  \/ Unused(j)' \/ Waiting(service, j)'
               \/ (store'[service][j] = NoCronJob /\ loop'[service] # "off")
    <3>1. Editing(j) /\ pendingEdit[1] = service
      BY <1>1, <2>4 DEF Editing
    <3>2. \/ Unused(j) \/ Waiting(service, j)
          \/ (store[service][j] = NoCronJob /\ loop[service] # "off")
      BY <2>1, <3>1 DEF NotAgain
    <3>3. CASE Unused(j)
      BY <1>1, <1>3, <2>2, <3>3
    <3>4. CASE store[service][j] = NoCronJob
      <4>1. store'[g][j] = NoCronJob
        BY <1>1, <1>4, <1>5, <3>4 DEF NoCronJob
      <4> QED  BY <1>1, <4>1
    <3> QED  BY <1>1, <1>3, <3>2, <3>3, <3>4
  <2> QED  BY <1>1, <2>3, <2>4 DEF NotAgain
<1>11. now <= now'
  BY <1>1, SameTime
<1> QED  BY <1>1, <1>6, <1>8, <1>9, <1>10, <1>11, JobKept

\* The first due job is skipped, or executed.
LEMMA RunJobKept ==
    ASSUME CronAssumption, CronBase, CronBase', JobsInv, NEW g \in Services,
           RunJob(g), due[g] # <<>>
    PROVE  JobsInv'
<1> SUFFICES ASSUME NEW j \in CronJobs PROVE JobInv(j)'
  BY DEF JobsInv
<1> DEFINE first == Head(due[g])
<1>1. /\ UNCHANGED <<now, file, service, store, running, pendingEdit, fresh>>
      /\ loop[g] = "execute" /\ JobInv(j)
  BY DEF RunJob, storeVars, JobsInv
<1>2. due \in [Services -> Seq(CronJobs)] /\ first \in CronJobs
  <2>1. due \in [Services -> Seq(CronJobs)]
    BY DEF CronBase, CronShape
  <2>2. due[g] \in Seq(CronJobs)
    BY <2>1
  <2> QED  BY <2>1, <2>2
<1>3. Follows(j)
  BY <1>1, FollowsSame
<1>4. Waiting(g, first)
  <2>1. due[g] \in Seq(CronJobs)
    BY <1>2
  <2>2. 1 \in DOMAIN due[g] /\ due[g][1] = first
    BY <2>1
  <2> QED  BY <2>2 DEF Waiting
<1> HIDE DEF first
<1>5. now <= now'
  BY <1>1, SameTime
<1>6. CASE store[g][first] = NoCronJob
  <2>1. due' = [due EXCEPT ![g] = Tail(@)] /\ UNCHANGED <<loop, ran>>
    BY <1>6 DEF RunJob, first
  <2>2. /\ \A i : Waiting(g, i)' <=> Waiting(g, i) /\ i # first
        /\ \A h \in Services \ {g} : \A i : Waiting(h, i)' <=> Waiting(h, i)
        /\ \A h \in Services \ {g} : due'[h] = due[h]
    BY <2>1, DueTail DEF first
  <2>3. \A h \in Services : Waiting(h, j)' => Waiting(h, j)
    BY <2>2
  <2>4. Unused(j) => Unused(j)'
    BY <2>1, <2>3 DEF Unused
  <2>5. ASSUME IsAt(j) PROVE RanOnce(j)'
    <3>1. RanOnce(j)
      BY <1>1, <2>5 DEF JobInv
    <3>2. ASSUME NEW h \in Services, Waiting(h, j)'
          PROVE  /\ ran'[j] = 1 => loop'[h] = "callback" /\ Head(due'[h]) = j
                 /\ \A k \in Services : Waiting(k, j)' => k = h
      <4>1. Waiting(h, j)
        BY <2>3, <3>2
      <4>2. /\ ran[j] = 1 => loop[h] = "callback" /\ Head(due[h]) = j
            /\ \A k \in Services : Waiting(k, j) => k = h
        BY <3>1, <4>1 DEF RanOnce
      <4>3. loop[h] = "callback" => h # g
        BY <1>1
      <4> QED  BY <2>1, <2>2, <2>3, <4>2, <4>3
    <3>3. ran'[j] <= 1
      BY <2>1, <3>1 DEF RanOnce
    <3> QED  BY <3>2, <3>3 DEF RanOnce
  <2>6. ASSUME IsAt(j) PROVE NotAgain(j)'
    <3>1. NotAgain(j)
      BY <1>1, <2>6 DEF JobInv
    <3>2. ASSUME NEW h \in running', store'[h][j].next # 0 PROVE Unused(j)' \/ Waiting(h, j)'
      <4>1. h \in running /\ h \in Services /\ store[h][j].next # 0
        BY <1>1, <3>2, CurrentService
      <4>2. Unused(j) \/ Waiting(h, j)
        BY <3>1, <4>1 DEF NotAgain
      <4>3. ~(h = g /\ j = first)
        BY <1>6, <4>1 DEF NoCronJob
      <4> QED  BY <2>2, <2>4, <4>1, <4>2, <4>3
    <3>3. ASSUME Editing(j)', pendingEdit'[1] = service'
          PROVE  \/ Unused(j)' \/ Waiting(service, j)'
                 \/ (store'[service][j] = NoCronJob /\ loop'[service] # "off")
      <4>1. Editing(j) /\ pendingEdit[1] = service
        BY <1>1, <3>3 DEF Editing
      <4>2. \/ Unused(j) \/ Waiting(service, j)
            \/ (store[service][j] = NoCronJob /\ loop[service] # "off")
        BY <3>1, <4>1 DEF NotAgain
      <4>3. CASE Waiting(service, j)
        <5>1. service \in Services
          <6>1. PICK k \in Services, i \in CronJobs, job \in CronRecords : pendingEdit = <<k, i, job>>
            BY <4>1 DEF Editing, CronBase, CronShape, PendingShape
          <6> QED  BY <4>1, <6>1
        <5>2. CASE service = g /\ j = first
          BY <1>1, <1>6, <2>1, <5>2
        <5>3. CASE ~(service = g /\ j = first)
          BY <1>1, <2>2, <4>3, <5>1, <5>3
        <5> QED  BY <5>2, <5>3
      <4> QED  BY <1>1, <2>1, <2>4, <4>2, <4>3
    <3> QED  BY <1>1, <3>2, <3>3 DEF NotAgain
  <2> QED  BY <1>1, <1>3, <1>5, <2>4, <2>5, <2>6, JobKept
<1>7. CASE store[g][first] # NoCronJob
  <2>1. /\ ran' = [ran EXCEPT ![first] = @ + 1]
        /\ loop' = [loop EXCEPT ![g] = "callback"] /\ UNCHANGED due
    BY <1>7 DEF RunJob, first
  <2>2. /\ loop'[g] = "callback" /\ \A h \in Services \ {g} : loop'[h] = loop[h]
    BY <2>1 DEF CronBase, CronTypeOK
  <2>3. \A h \in Services : \A i : Waiting(h, i)' <=> Waiting(h, i)
    BY <2>1 DEF Waiting
  <2>4. /\ ran'[first] = ran[first] + 1
        /\ \A i \in CronJobs \ {first} : ran'[i] = ran[i]
        /\ ran \in [CronJobs -> Nat]
    BY <1>2, <2>1 DEF CronBase, CronShape
  <2>5. Unused(j) => Unused(j)'
    <3>1. Unused(j) => j # first
      BY <1>4 DEF Unused
    <3> QED  BY <2>3, <2>4, <3>1 DEF Unused
  <2>6. ASSUME IsAt(j) PROVE RanOnce(j)'
    <3>1. RanOnce(j)
      BY <1>1, <2>6 DEF JobInv
    <3>2. CASE j = first
      <4>1. ran[j] = 0 /\ \A k \in Services : Waiting(k, j) => k = g
        <5>1. ran[j] # 1
          BY <1>1, <1>4, <3>1, <3>2 DEF RanOnce
        <5>2. ran[j] <= 1 /\ ran[j] \in Nat
          BY <2>4, <3>1 DEF RanOnce
        <5>3. \A k \in Services : Waiting(k, j) => k = g
          BY <1>4, <3>1, <3>2 DEF RanOnce
        <5> QED  BY <5>1, <5>2, <5>3
      <4>2. ran'[j] = 1 /\ 1 <= 1
        BY <2>4, <3>2, <4>1
      <4>3. \A k \in Services : Waiting(k, j)' => k = g
        BY <2>3, <4>1
      <4>4. Head(due'[g]) = j
        BY <2>1, <3>2 DEF first
      <4> QED  BY <2>2, <4>2, <4>3, <4>4 DEF RanOnce
    <3>3. CASE j # first
      <4>1. ran'[j] = ran[j]
        BY <2>4, <3>3
      <4>2. ASSUME NEW h \in Services, Waiting(h, j)'
            PROVE  /\ ran'[j] = 1 => loop'[h] = "callback" /\ Head(due'[h]) = j
                   /\ \A k \in Services : Waiting(k, j)' => k = h
        <5>1. Waiting(h, j) /\ \A k \in Services : Waiting(k, j)' => Waiting(k, j)
          BY <2>3, <4>2
        <5>2. /\ ran[j] = 1 => loop[h] = "callback" /\ Head(due[h]) = j
              /\ \A k \in Services : Waiting(k, j) => k = h
          BY <3>1, <5>1 DEF RanOnce
        <5>3. loop[h] = "callback" => loop'[h] = "callback"
          BY <2>2
        <5> QED  BY <2>1, <4>1, <5>1, <5>2, <5>3
      <4>3. ran'[j] <= 1
        BY <3>1, <4>1 DEF RanOnce
      <4> QED  BY <4>2, <4>3 DEF RanOnce
    <3> QED  BY <3>2, <3>3
  <2>7. ASSUME IsAt(j) PROVE NotAgain(j)'
    <3>1. NotAgain(j)
      BY <1>1, <2>7 DEF JobInv
    <3>2. \A h \in Services : loop[h] # "off" => loop'[h] # "off"
      BY <2>2
    <3>3. ASSUME NEW h \in running', store'[h][j].next # 0 PROVE Unused(j)' \/ Waiting(h, j)'
      <4>1. h \in Services /\ (Unused(j) \/ Waiting(h, j))
        BY <1>1, <3>1, <3>3, CurrentService DEF NotAgain
      <4> QED  BY <2>3, <2>5, <4>1
    <3>4. ASSUME Editing(j)', pendingEdit'[1] = service'
          PROVE  \/ Unused(j)' \/ Waiting(service, j)'
                 \/ (store'[service][j] = NoCronJob /\ loop'[service] # "off")
      <4>1. Editing(j) /\ pendingEdit[1] = service
        BY <1>1, <3>4 DEF Editing
      <4>2. \/ Unused(j) \/ Waiting(service, j)
            \/ (store[service][j] = NoCronJob /\ loop[service] # "off")
        BY <3>1, <4>1 DEF NotAgain
      <4>3. service \in Services
        <5>1. PICK k \in Services, i \in CronJobs, job \in CronRecords : pendingEdit = <<k, i, job>>
          BY <4>1 DEF Editing, CronBase, CronShape, PendingShape
        <5> QED  BY <4>1, <5>1
      <4> QED  BY <1>1, <2>3, <2>5, <3>2, <4>2, <4>3
    <3> QED  BY <1>1, <3>3, <3>4 DEF NotAgain
  <2> QED  BY <1>1, <1>3, <1>5, <2>5, <2>6, <2>7, JobKept
<1> QED  BY <1>6, <1>7

\* The copy of UpdateJob's caller came from a service that exists.
LEMMA EditingService ==
    ASSUME CronBase, pendingEdit # <<>>, pendingEdit[1] = service
    PROVE  service \in Services
<1>1. PICK g \in Services, i \in CronJobs, job \in CronRecords : pendingEdit = <<g, i, job>>
  BY DEF CronBase, CronShape, PendingShape
<1> QED  BY <1>1

\* A job has been executed: a one-shot job leaves the memory of the service that
\* has executed it, and that service is the only one that had it due.
LEMMA JobDoneKept ==
    ASSUME CronAssumption, CronBase, CronBase', JobsInv, NEW g \in Services, JobDone(g)
    PROVE  JobsInv'
<1> SUFFICES ASSUME NEW j \in CronJobs PROVE JobInv(j)'
  BY DEF JobsInv
<1> DEFINE first == Head(due[g])
<1>1. /\ UNCHANGED <<now, service, running, alarm, pendingEdit, ran, fresh>>
      /\ loop[g] = "callback" /\ due[g] # <<>> /\ first \in CronJobs
      /\ due' = [due EXCEPT ![g] = Tail(@)]
      /\ loop'[g] = "execute" /\ \A h \in Services \ {g} : loop'[h] = loop[h]
      /\ \/ /\ store[g][first] = NoCronJob
            /\ UNCHANGED <<file, store, cronSpent, crossed>>
         \/ /\ store[g][first] # NoCronJob
            /\ Saves(g, AfterRun(g, first))
  BY DoneEffect
<1>2. /\ \A i : Waiting(g, i)' <=> Waiting(g, i) /\ i # first
      /\ \A h \in Services \ {g} : \A i : Waiting(h, i)' <=> Waiting(h, i)
      /\ \A h \in Services \ {g} : due'[h] = due[h]
      /\ Waiting(g, first)
  BY <1>1, DueTail
<1> HIDE DEF first
<1>3. JobInv(j) /\ now <= now'
  BY <1>1, SameTime DEF JobsInv
<1>4. \A h \in Services : Waiting(h, j)' => Waiting(h, j)
  BY <1>2
<1>5. Unused(j) => Unused(j)'
  BY <1>1, <1>4 DEF Unused
\* What becomes of the record.
<1>6. /\ Follows(j)
      /\ \A h \in Services : h # g => store'[h][j] = store[h][j]
      /\ j # first => store'[g][j] = store[g][j]
      /\ store[g][j] = NoCronJob => store'[g][j] = NoCronJob
      /\ store[g][first].kind = "at" => store'[g][first] = NoCronJob
  <2>1. CASE store[g][first] = NoCronJob /\ UNCHANGED <<file, store, cronSpent, crossed>>
    <3>1. Follows(j)
      BY <1>1, <2>1, FollowsSame
    <3>2. store[g][first].kind # "at"
      BY <2>1 DEF NoCronJob
    <3> QED  BY <2>1, <3>1, <3>2
  <2>2. CASE store[g][first] # NoCronJob /\ Saves(g, AfterRun(g, first))
    <3> DEFINE jobs == AfterRun(g, first)
    <3>1. /\ jobs \in [CronJobs -> CronRecords]
          /\ jobs[first] = Finished(store[g][first])
          /\ \A i \in CronJobs \ {first} : jobs[i] = store[g][i]
          /\ \A i \in CronJobs : jobs[i].kind = "none" => jobs[i] = NoCronJob
          /\ store[g][first].kind = "every" =>
                /\ Finished(store[g][first]).kind = "every"
                /\ Finished(store[g][first]).when = store[g][first].when
          /\ store[g][first].kind = "at" => Finished(store[g][first]) = NoCronJob
          /\ store[g][first].kind \in {"at", "every"}
      BY <1>1, <2>2, AfterRunTyped
    <3>2. Saves(g, jobs)
      BY <2>2
    <3> HIDE DEF jobs
    <3>3. store'[g] = jobs /\ \A h \in Services \ {g} : store'[h] = store[h]
      BY <3>1, <3>2, WriteEffect DEF CronBase
    <3>4. ASSUME jobs[j].kind # "none" PROVE Derived(jobs[j], store[g][j])
      <4>1. CASE j = first
        <5>1. store[g][j].kind = "every"
          BY <3>1, <3>4, <4>1 DEF NoCronJob
        <5> QED  BY <3>1, <4>1, <5>1 DEF Derived
      <4>2. CASE j # first
        BY <3>1, <4>2 DEF Derived
      <4> QED  BY <4>1, <4>2
    <3>5. Follows(j)
      <4>1. jobs[j].kind # "none" => \E a \in CopiesOf(j) : Derived(jobs[j], a)
        BY <3>4, CopyOf
      <4> QED  BY <1>1, <3>1, <3>2, <4>1, FollowsSave
    <3>6. j # first => store'[g][j] = store[g][j]
      BY <3>1, <3>3
    <3>7. store[g][first].kind = "at" => store'[g][first] = NoCronJob
      BY <3>1, <3>3
    <3> QED  BY <2>2, <3>3, <3>5, <3>6, <3>7
  <2> QED  BY <1>1, <2>1, <2>2
<1>7. ASSUME IsAt(j) PROVE RanOnce(j)'
  <2>1. RanOnce(j)
    BY <1>3, <1>7 DEF JobInv
  <2>2. ASSUME NEW h \in Services, Waiting(h, j)'
        PROVE  /\ ran'[j] = 1 => loop'[h] = "callback" /\ Head(due'[h]) = j
               /\ \A k \in Services : Waiting(k, j)' => k = h
    <3>1. Waiting(h, j)
      BY <1>4, <2>2
    <3>2. /\ ran[j] = 1 => loop[h] = "callback" /\ Head(due[h]) = j
          /\ \A k \in Services : Waiting(k, j) => k = h
      BY <2>1, <3>1 DEF RanOnce
    <3>3. h = g => j # first
      BY <1>2, <2>2
    <3>4. h = g => ran[j] # 1
      BY <3>2, <3>3 DEF first
    <3> QED  BY <1>1, <1>2, <1>4, <3>2, <3>4
  <2>3. ran'[j] <= 1
    BY <1>1, <2>1 DEF RanOnce
  <2> QED  BY <2>2, <2>3 DEF RanOnce
<1>8. ASSUME IsAt(j) PROVE NotAgain(j)'
  <2>1. NotAgain(j) /\ RanOnce(j)
    BY <1>3, <1>8 DEF JobInv
  \* The memory of g no longer has the job that has been executed.
  <2>2. j = first => store'[g][j] = NoCronJob
    <3>1. store[g][j].kind # "none" => store[g][j].kind = "at"
      BY <1>3, <1>8, AtKind, CopyOf DEF JobInv
    <3>2. store[g][j].kind = "none" => store[g][j] = NoCronJob
      BY DEF CronBase, CronShape
    <3> QED  BY <1>6, <3>1, <3>2
  <2>3. ASSUME j = first, NEW h \in Services, Unused(j) \/ Waiting(h, j) PROVE h = g
    <3>1. Waiting(g, j)
      BY <1>2, <2>3
    <3>2. Waiting(h, j)
      BY <2>3, <3>1 DEF Unused
    <3> QED  BY <2>1, <3>1, <3>2 DEF RanOnce
  <2>4. ASSUME NEW h \in Services, h # g \/ j # first, Unused(j) \/ Waiting(h, j)
        PROVE  Unused(j)' \/ Waiting(h, j)'
    BY <1>2, <1>5, <2>4
  <2>5. ASSUME NEW h \in running', store'[h][j].next # 0 PROVE Unused(j)' \/ Waiting(h, j)'
    <3>1. h \in running /\ h \in Services
      BY <1>1, <2>5, CurrentService
    <3>2. ~(h = g /\ j = first)
      BY <2>2, <2>5 DEF NoCronJob
    <3>3. store'[h][j] = store[h][j]
      BY <1>6, <3>1, <3>2
    <3>4. Unused(j) \/ Waiting(h, j)
      BY <2>1, <2>5, <3>1, <3>3 DEF NotAgain
    <3> QED  BY <2>4, <3>1, <3>2, <3>4
  <2>6. ASSUME Editing(j)', pendingEdit'[1] = service'
        PROVE  \/ Unused(j)' \/ Waiting(service, j)'
               \/ (store'[service][j] = NoCronJob /\ loop'[service] # "off")
    <3>1. Editing(j) /\ pendingEdit[1] = service /\ service' = service
      BY <1>1, <2>6 DEF Editing
    <3>2. service \in Services
      BY <3>1, EditingService DEF Editing
    <3>3. \/ Unused(j) \/ Waiting(service, j)
          \/ (store[service][j] = NoCronJob /\ loop[service] # "off")
      BY <2>1, <3>1 DEF NotAgain
    <3>4. CASE store[service][j] = NoCronJob /\ loop[service] # "off"
      <4>1. store'[service][j] = NoCronJob
        BY <1>6, <3>2, <3>4
      <4>2. loop'[service] # "off"
        BY <1>1, <3>2, <3>4
      <4> QED  BY <4>1, <4>2
    <3>5. CASE Unused(j) \/ Waiting(service, j)
      <4>1. CASE service = g /\ j = first
        BY <1>1, <2>2, <4>1
      <4>2. CASE ~(service = g /\ j = first)
        BY <2>4, <3>1, <3>2, <3>5, <4>2
      <4> QED  BY <4>1, <4>2
    <3> QED  BY <3>3, <3>4, <3>5
  <2>7. service' = service
    BY <1>1
  <2> QED  BY <2>5, <2>6, <2>7 DEF NotAgain
<1> QED  BY <1>1, <1>3, <1>5, <1>6, <1>7, <1>8, JobKept

-------------------------------------------------------------------------------
(* The calls of the cron tool *)

\* What the cron tool's calls have in common.
LEMMA ReplaceEffect ==
    ASSUME CronAssumption, CronBase, NEW g \in Services, NEW i \in CronJobs,
           NEW job \in CronRecords, job.kind = "none" => job = NoCronJob, Replaces(g, i, job)
    PROVE  /\ store'[g][i] = job /\ \A k \in CronJobs \ {i} : store'[g][k] = store[g][k]
           /\ \A h \in Services \ {g} : store'[h] = store[h]
           /\ UNCHANGED <<now, service, running, due, ran>>
           /\ \A h \in Services : /\ due[h] # <<>> => loop'[h] = loop[h]
                                  /\ loop[h] # "off" => loop'[h] # "off"
           /\ file' = store'[g] \/ file' = file
<1>1. /\ With(g, i, job) \in [CronJobs -> CronRecords]
      /\ With(g, i, job)[i] = job
      /\ \A k \in CronJobs \ {i} : With(g, i, job)[k] = store[g][k]
      /\ \A k \in CronJobs : With(g, i, job)[k].kind = "none" => With(g, i, job)[k] = NoCronJob
  BY WithTyped
<1>2. /\ store'[g] = With(g, i, job) /\ \A h \in Services \ {g} : store'[h] = store[h]
      /\ file' = With(g, i, job) \/ file' = file
  BY <1>1, WriteEffect DEF Replaces, CronBase
<1>3. \A h \in Services : /\ due[h] # <<>> => loop'[h] = loop[h]
                          /\ loop[h] # "off" => loop'[h] # "off"
  <2>1. CASE UNCHANGED loop
    BY <2>1
  <2>2. CASE Notify(g)
    <3>1. \A h \in Services : loop'[h] = loop[h] \/ (loop[h] = "select" /\ loop'[h] = "compute")
      BY <2>2, NotifyEffect DEF CronBase
    <3> QED  BY <3>1 DEF CronBase, LoopShape
  <2> QED  BY <2>1, <2>2 DEF Replaces
<1> QED  BY <1>1, <1>2, <1>3 DEF Replaces

\* A record of job i is replaced: the other jobs are as they were, and job i is,
\* when the new record goes back to a copy and has a next run only if it may.
LEMMA ReplaceJob ==
    ASSUME CronAssumption, CronBase, CronBase', NEW j \in CronJobs, JobInv(j),
           NEW g \in Services, NEW i \in CronJobs, NEW job \in CronRecords,
           job.kind = "none" => job = NoCronJob, Replaces(g, i, job),
           j \in fresh' => j \in fresh,
           pendingEdit' = pendingEdit \/ pendingEdit' = <<>> \/ ~Editing(j)',
           j = i => /\ job.kind # "none" => \E a \in CopiesOf(j) : Derived(job, a)
                    /\ IsAt(j) => NotAgain(j)'
    PROVE  JobInv(j)'
<1>1. /\ store'[g][i] = job /\ \A k \in CronJobs \ {i} : store'[g][k] = store[g][k]
      /\ \A h \in Services \ {g} : store'[h] = store[h]
      /\ UNCHANGED <<now, service, running, due, ran>>
      /\ \A h \in Services : /\ due[h] # <<>> => loop'[h] = loop[h]
                             /\ loop[h] # "off" => loop'[h] # "off"
  BY ReplaceEffect
<1>2. Follows(j)
  <2>1. /\ With(g, i, job) \in [CronJobs -> CronRecords]
        /\ With(g, i, job)[i] = job
        /\ \A k \in CronJobs \ {i} : With(g, i, job)[k] = store[g][k]
        /\ \A k \in CronJobs : With(g, i, job)[k].kind = "none" => With(g, i, job)[k] = NoCronJob
    BY WithTyped
  <2>2. With(g, i, job)[j].kind # "none" => \E a \in CopiesOf(j) : Derived(With(g, i, job)[j], a)
    <3>1. CASE j = i
      BY <2>1, <3>1
    <3>2. CASE j # i
      <4>1. With(g, i, job)[j] = store[g][j] /\ Derived(store[g][j], store[g][j])
        BY <2>1, <3>2 DEF Derived
      <4> QED  BY <4>1, CopyOf
    <3> QED  BY <3>1, <3>2
  <2>3. Saves(g, With(g, i, job))
    BY DEF Replaces
  <2> HIDE DEF With
  <2> QED  BY <2>1, <2>2, <2>3, FollowsSave
<1>3. IsAt(j) => RanOnce(j)'
  BY <1>1, RanOnceKept DEF JobInv
<1>4. ASSUME IsAt(j) PROVE NotAgain(j)'
  <2>1. CASE j = i
    BY <1>4, <2>1
  <2>2. CASE j # i
    <3>1. \A h \in Services : store'[h][j] = store[h][j]
      BY <1>1, <2>2
    <3>2. NotAgain(j)
      BY <1>4 DEF JobInv
    <3>3. service > 0 => service \in Services
      BY CurrentService
    <3>4. service > 0 => /\ store'[service][j].next # 0 => store[service][j].next # 0
                         /\ store[service][j] = NoCronJob => store'[service][j] = NoCronJob
                         /\ loop[service] # "off" => loop'[service] # "off"
      BY <1>1, <3>1, <3>3
    <3>5. running' \subseteq running
      BY <1>1
    <3> QED  BY <1>1, <3>2, <3>4, <3>5, NotAgainKept
  <2> QED  BY <2>1, <2>2
<1>5. (Unused(j)' <=> Unused(j)) /\ now <= now'
  BY <1>1, RanSame, SameTime
<1> QED  BY <1>2, <1>3, <1>4, <1>5, JobKept

\* UpdateJob keeps the jobs,
LEMMA UpdateJobs ==
    ASSUME CronAssumption, CronBase, CronBase', JobsInv, UpdateJob
    PROVE  JobsInv'
<1> SUFFICES ASSUME NEW j \in CronJobs PROVE JobInv(j)'
  BY DEF JobsInv
<1>1. /\ pendingEdit' = <<>> /\ JobInv(j)
      /\ UNCHANGED <<now, service, running, alarm, due, ran, fresh, acked>>
  BY UpdateEffect DEF JobsInv
<1>2. PICK g \in Services, i \in CronJobs, job \in CronRecords :
         /\ pendingEdit = <<g, i, job>> /\ g <= service /\ job.kind # "none"
         /\ \/ UNCHANGED <<file, store, loop, cronSpent, crossed>>
            \/ store[g][i] # NoCronJob /\ Replaces(g, i, job)
  BY UpdateEffect
<1>3. CASE UNCHANGED <<file, store, loop, cronSpent, crossed>>
  <2>1. now <= now'
    BY <1>1, SameTime
  <2> QED  BY <1>1, <1>3, <2>1, QuietJob
<1>4. CASE store[g][i] # NoCronJob /\ Replaces(g, i, job)
  <2>1. Editing(i) /\ pendingEdit[1] = g /\ job \in CopiesOf(i)
    <3>1. pendingEdit # <<>> /\ pendingEdit[1] = g /\ pendingEdit[2] = i /\ pendingEdit[3] = job
      BY <1>2
    <3> QED  BY <3>1 DEF Editing, CopiesOf
  <2>2. Derived(job, job)
    BY DEF Derived
  <2>3. ASSUME j = i, IsAt(j) PROVE NotAgain(j)'
    <3>1. NotAgain(j)
      BY <1>1, <2>3 DEF JobInv
    <3>2. \A h \in Services \ {g} : store'[h] = store[h]
      BY <1>2, <1>4, ReplaceEffect
    <3>3. ASSUME NEW h \in running', store'[h][j].next # 0 PROVE Unused(j)' \/ Waiting(h, j)'
      <4>1. h \in running /\ h = service /\ h \in Services
        BY <1>1, <3>3, CurrentService DEF CronBase, CronTypeOK
      <4>2. CASE h = g
        <5>1. \/ Unused(j) \/ Waiting(service, j)
              \/ (store[service][j] = NoCronJob /\ loop[service] # "off")
          BY <2>1, <2>3, <3>1, <4>1, <4>2 DEF NotAgain
        <5>2. Unused(j) \/ Waiting(h, j)
          BY <1>4, <2>3, <4>1, <4>2, <5>1
        <5> QED  BY <1>1, <4>1, <5>2, RanSame
      <4>3. CASE h # g
        <5>1. Unused(j) \/ Waiting(h, j)
          BY <3>1, <3>2, <3>3, <4>1, <4>3 DEF NotAgain
        <5> QED  BY <1>1, <4>1, <5>1, RanSame
      <4> QED  BY <4>2, <4>3
    <3>4. ~Editing(j)'
      BY <1>1 DEF Editing
    <3> QED  BY <3>3, <3>4 DEF NotAgain
  <2> QED  BY <1>1, <1>2, <1>4, <2>1, <2>2, <2>3, ReplaceJob
<1> QED  BY <1>2, <1>3, <1>4

\* so do RemoveJob
LEMMA RemoveJobs ==
    ASSUME CronAssumption, CronBase, CronBase', JobsInv, NEW i \in CronJobs, RemoveJob(i)
    PROVE  JobsInv'
<1> SUFFICES ASSUME NEW j \in CronJobs PROVE JobInv(j)'
  BY DEF JobsInv
<1>1. /\ service \in Services /\ store[service][i] # NoCronJob
      /\ Replaces(service, i, NoCronJob)
      /\ UNCHANGED <<pendingEdit, fresh>> /\ JobInv(j)
      /\ NoCronJob \in CronRecords /\ NoCronJob.kind = "none" /\ NoCronJob.next = 0
  BY RemoveEffect, NoJobTyped DEF JobsInv, NoCronJob
<1>2. /\ store'[service][i] = NoCronJob
      /\ UNCHANGED <<service, running, due, ran>>
      /\ \A h \in Services : loop[h] # "off" => loop'[h] # "off"
  BY <1>1, ReplaceEffect
<1>3. j = i /\ IsAt(j) => NotAgain(j)'
  BY <1>1, <1>2, NotAgainKept DEF JobInv
<1> QED  BY <1>1, <1>3, ReplaceJob

\* and EnableJob.
LEMMA EnableJobs ==
    ASSUME CronAssumption, CronBase, CronBase', JobsInv, NEW i \in CronJobs, NEW on \in BOOLEAN,
           EnableJob(i, on)
    PROVE  JobsInv'
<1> SUFFICES ASSUME NEW j \in CronJobs PROVE JobInv(j)'
  BY DEF JobsInv
<1> DEFINE old == store[service][i]
           job == Enabled(old, on)
<1>1. /\ service \in Services /\ old # NoCronJob
      /\ Replaces(service, i, job)
      /\ UNCHANGED <<pendingEdit, fresh, acked>> /\ JobInv(j)
  BY EnableEffect DEF JobsInv
<1>2. old \in CronRecords /\ old.kind # "none"
  BY <1>1 DEF CronBase, CronTypeOK, CronShape
<1> HIDE DEF old
<1>3. /\ job \in CronRecords /\ job.kind = old.kind /\ job.when = old.when /\ job.on = on
      /\ job.next = IF on THEN ComputeNext(old, now) ELSE 0
  BY <1>2, EnabledTyped
<1> HIDE DEF job
<1>4. Derived(job, old) /\ (old.kind = "at" /\ job.next # 0 => now < old.when)
  BY <1>2, <1>3, RenewedDerived
<1>5. /\ store'[service][i] = job
      /\ UNCHANGED <<now, service, running, due, ran>>
      /\ \A h \in Services : loop[h] # "off" => loop'[h] # "off"
  BY <1>1, <1>2, <1>3, ReplaceEffect
<1>6. old \in CopiesOf(i)
  BY <1>1, CopyOf DEF old
<1>7. ASSUME j = i, IsAt(j) PROVE NotAgain(j)'
  <2>1. old.kind = "at" /\ NotAgain(j) /\ CopiesRight(j)
    BY <1>1, <1>2, <1>6, <1>7, AtKind DEF JobInv
  <2>2. job.next # 0 => Unused(j)'
    <3>1. ~Unused(j) => old.when <= now
      BY <1>6, <1>7, <2>1 DEF CopiesRight
    <3>2. job.next # 0 => Unused(j)
      BY <1>2, <1>4, <2>1, <3>1 DEF CronRecords, CronBase, CronTypeOK
    <3> QED  BY <1>5, <3>2, RanSame
  <2>3. ASSUME NEW h \in running', store'[h][j].next # 0 PROVE Unused(j)'
    <3>1. h = service
      BY <1>5, <2>3 DEF CronBase, CronTypeOK
    <3> QED  BY <1>5, <1>7, <2>2, <2>3, <3>1
  <2>4. ASSUME Editing(j)', pendingEdit'[1] = service'
        PROVE  Unused(j)' \/ Waiting(service, j)'
    <3>1. Editing(j) /\ pendingEdit[1] = service
      BY <1>1, <1>5, <2>4 DEF Editing
    <3>2. Unused(j) \/ Waiting(service, j)
      BY <1>1, <1>7, <2>1, <3>1 DEF NotAgain, old
    <3>3. service' = service
      BY <1>5
    <3> QED  BY <1>1, <1>5, <3>2, <3>3, RanSame
  <2>5. service' = service
    BY <1>5
  <2> QED  BY <2>3, <2>4, <2>5 DEF NotAgain
<1> QED  BY <1>1, <1>2, <1>3, <1>4, <1>6, <1>7, ReplaceJob

\* A new job has been executed by nobody, and nobody has it due.
LEMMA AddJobs ==
    ASSUME CronAssumption, CronBase, CronBase', JobsInv, NEW i \in CronJobs,
           NEW kind \in {"at", "every"}, NEW when \in 1..Horizon, AddJob(i, kind, when)
    PROVE  JobsInv'
<1> SUFFICES ASSUME NEW j \in CronJobs PROVE JobInv(j)'
  BY DEF JobsInv
<1> DEFINE new == NewJob(kind, when)
<1>1. /\ service \in Services /\ loop[service] # "dead" /\ i \in fresh
      /\ fresh' = fresh \ {i} /\ pendingEdit = <<>>
      /\ Replaces(service, i, new)
      /\ pendingEdit' = <<>> \/ pendingEdit' = <<service, i, new>>
      /\ JobInv(j)
  BY AddEffect DEF JobsInv
<1>2. /\ new \in CronRecords /\ new.kind = kind /\ new.when = when /\ new.on
      /\ kind = "at" /\ new.next # 0 => new.next = when /\ now < when
  BY NewJobTyped
<1> HIDE DEF new
<1>3. /\ store'[service][i] = new /\ \A k \in CronJobs \ {i} : store'[service][k] = store[service][k]
      /\ \A h \in Services \ {service} : store'[h] = store[h]
      /\ UNCHANGED <<now, service, running, due, ran>>
      /\ file' = store'[service] \/ file' = file
  BY <1>1, <1>2, ReplaceEffect
<1>4. CASE j # i
  <2>1. ~Editing(j)'
    BY <1>1, <1>4 DEF Editing
  <2> QED  BY <1>1, <1>2, <1>4, <2>1, ReplaceJob
<1>5. CASE j = i
  <2>1. Unused(j) /\ \A a \in CopiesOf(j) : a = NoCronJob
    BY <1>1, <1>5 DEF JobInv, AgreeAt
  <2>2. Unused(j)'
    BY <1>3, <2>1, RanSame
  <2>3. \A a \in CopiesOf(j)' : a = NoCronJob \/ a = new
    <3>1. file'[j] = NoCronJob \/ file'[j] = new
      BY <1>3, <1>5, <2>1, CopyOf
    <3>2. ASSUME NEW h \in Services PROVE store'[h][j] = NoCronJob \/ store'[h][j] = new
      BY <1>3, <1>5, <2>1, CopyOf
    <3>3. Editing(j)' => pendingEdit'[3] = new
      BY <1>1 DEF Editing
    <3> QED  BY <3>1, <3>2, <3>3 DEF CopiesOf
  <2>4. AgreeAt(j)'
    <3>1. j \notin fresh'
      BY <1>1, <1>5
    <3>2. \A a, b \in CopiesOf(j)' :
              a.kind # "none" /\ b.kind # "none" => a.kind = b.kind /\ a.when = b.when
      BY <2>3 DEF NoCronJob
    <3> QED  BY <3>1, <3>2 DEF AgreeAt
  <2>5. RanOnce(j)'
    <3>1. ran'[j] = 0 /\ \A h \in Services : ~Waiting(h, j)'
      BY <2>2 DEF Unused
    <3> QED  BY <3>1 DEF RanOnce
  <2>6. CopiesRight(j)'
    <3> SUFFICES ASSUME NEW a \in CopiesOf(j)', a.kind = "at"
                 PROVE  a.next # 0 => a.next = a.when /\ a.on
      BY <2>2 DEF CopiesRight
    <3>1. a = new
      BY <2>3 DEF NoCronJob
    <3> QED  BY <1>2, <3>1
  <2>7. NotAgain(j)'
    BY <2>2 DEF NotAgain
  <2> QED  BY <2>4, <2>5, <2>6, <2>7 DEF JobInv
<1> QED  BY <1>4, <1>5

\* Every step keeps what is known of the jobs.
LEMMA JobsStep ==
    ASSUME CronAssumption, CronBase, CronBase', JobsInv, [CronNext]_cronVars
    PROVE  JobsInv'
<1>1. ASSUME NEW g \in Services, RunLoop(g) PROVE JobsInv'
  <2>1. CASE ReadWake(g) \/ Arm(g) \/ LoopEnds(g)
    BY <2>1, QuietJobs
  <2>2. CASE CheckJobs(g)
    BY <2>2, QuietJobs, CheckJobsKept
  <2>3. CASE RunJob(g)
    BY <2>3, QuietJobs, RunJobKept
  <2> QED  BY <1>1, <2>1, <2>2, <2>3, JobDoneKept DEF RunLoop
<1>2. ASSUME NEW r \in CronRequests, AddJob(r[1], r[2], r[3]) PROVE JobsInv'
  <2>1. r[1] \in CronJobs /\ r[2] \in {"at", "every"} /\ r[3] \in 1..Horizon
    BY <1>2 DEF CronAssumption
  <2> QED  BY <1>2, <2>1, AddJobs
<1>3. ASSUME NEW j \in CronJobs, RemoveJob(j) PROVE JobsInv'
  BY <1>3, RemoveJobs
<1>4. ASSUME NEW j \in CronJobs, NEW on \in BOOLEAN, EnableJob(j, on) PROVE JobsInv'
  BY <1>4, EnableJobs
<1>5. CASE StopCron \/ Tick \/ UNCHANGED cronVars
  BY <1>5, QuietJobs
<1> QED  BY <1>1, <1>2, <1>3, <1>4, <1>5, LoadJobs, StartJobs, CrashJobs, UpdateJobs DEF CronNext

\* A save keeps the jobs that survive, when it is the current service that saves
\* and its memory is not the empty one that a crash leaves.
LEMMA SurviveSave ==
    ASSUME CronAssumption, CronBase, SurviveInv, NEW g \in Services, g <= service,
           NEW jobs \in [CronJobs -> CronRecords],
           \A i \in CronJobs : jobs[i].kind = "none" => jobs[i] = NoCronJob,
           Saves(g, jobs), service' = service,
           store[g] # NoJobs \/ loop[g] # "dead",
           acked' \subseteq CronJobs,
           \A j \in acked' :
              /\ j \in acked => (store[g][j].kind # "none" => jobs[j].kind # "none")
              /\ j \notin acked => file' = store'[g] /\ jobs[j].kind # "none"
    PROVE  SurviveInv'
<1>1. /\ store'[g] = jobs
      /\ file' = jobs \/ file' = file
      /\ ~crossed' => ~crossed /\ ~(g < service)
  BY WriteEffect DEF CronBase
<1>2. service \in Nat /\ service > 0 /\ g \in Nat
  BY CurrentService DEF Services
<1>3. ASSUME ~crossed', NEW j \in acked'
      PROVE  file'[j].kind # "none" /\ store'[service'][j].kind # "none"
  <2>1. g = service /\ ~crossed
    BY <1>1, <1>2, <1>3
  <2>2. CASE j \in acked
    <3>1. file[j].kind # "none" /\ store[g][j].kind # "none"
      BY <2>1, <2>2 DEF SurviveInv
    <3>2. jobs[j].kind # "none"
      BY <2>2, <3>1
    <3> QED  BY <1>1, <2>1, <3>1, <3>2
  <2>3. CASE j \notin acked
    BY <1>1, <2>1, <2>3
  <2> QED  BY <2>2, <2>3
<1>4. service' # 0
  BY <1>2
<1> QED  BY <1>3, <1>4 DEF SurviveInv

\* Nothing is saved, nothing is lost.
LEMMA SurviveQuiet ==
    ASSUME SurviveInv, UNCHANGED <<file, service, store, acked, crossed>>,
           loop[service] = "dead" => loop'[service] = "dead"
    PROVE  SurviveInv'
  BY DEF SurviveInv

\* The record of a job is replaced, by the cron tool.
LEMMA SurviveReplace ==
    ASSUME CronAssumption, CronBase, SurviveInv, NEW g \in Services, g <= service,
           NEW i \in CronJobs, NEW job \in CronRecords, job.kind = "none" => job = NoCronJob,
           Replaces(g, i, job), store[g][i] # NoCronJob \/ loop[g] # "dead",
           job.kind # "none" \/ i \notin acked',
           \/ acked' \subseteq acked
           \/ acked' = acked \cup {i} /\ file' = store'[g] /\ job.kind # "none"
    PROVE  SurviveInv'
<1>1. /\ With(g, i, job) \in [CronJobs -> CronRecords]
      /\ With(g, i, job)[i] = job
      /\ \A k \in CronJobs \ {i} : With(g, i, job)[k] = store[g][k]
      /\ \A k \in CronJobs : With(g, i, job)[k].kind = "none" => With(g, i, job)[k] = NoCronJob
  BY WithTyped
<1>2. Saves(g, With(g, i, job)) /\ service' = service
  BY DEF Replaces
<1> DEFINE jobs == With(g, i, job)
<1> HIDE DEF jobs
<1>3. store[g] # NoJobs \/ loop[g] # "dead"
  <2>1. store[g] = NoJobs => store[g][i] = NoCronJob
    BY DEF NoJobs
  <2> QED  BY <2>1
<1>4. acked' \subseteq CronJobs
  BY DEF CronBase, CronTypeOK
<1>5. \A j \in acked' :
          /\ j \in acked => (store[g][j].kind # "none" => jobs[j].kind # "none")
          /\ j \notin acked => file' = store'[g] /\ jobs[j].kind # "none"
  BY <1>1, <1>4 DEF jobs
<1>6. /\ jobs \in [CronJobs -> CronRecords] /\ Saves(g, jobs)
      /\ \A k \in CronJobs : jobs[k].kind = "none" => jobs[k] = NoCronJob
  BY <1>1, <1>2 DEF jobs
<1> QED  BY <1>2, <1>3, <1>4, <1>5, <1>6, SurviveSave

\* Every step keeps the jobs in the file.
LEMMA SurviveStep ==
    ASSUME CronAssumption, CronBase, SurviveInv, [CronNext]_cronVars
    PROVE  SurviveInv'
<1>1. CASE Load
  <2>1. /\ service' = service + 1 /\ service' \in Services /\ service \in Nat
        /\ UNCHANGED <<file, acked, crossed>> /\ store'[service'] = file
    BY <1>1, CurrentService DEF Load, CronBase, CronTypeOK, Services, cronGhosts
  <2>2. service' # 0
    BY <2>1
  <2> QED  BY <2>1, <2>2 DEF SurviveInv
<1>2. CASE StartCron
  <2>1. /\ service \in Services /\ service > 0 /\ file \in [CronJobs -> CronRecords]
        /\ UNCHANGED <<service, acked, crossed>>
        /\ store' = [store EXCEPT ![service] = Recompute(file)]
        /\ file' = store'[service]
    BY <1>2, CurrentService DEF StartCron, CronBase, CronTypeOK, cronGhosts
  <2>2. store'[service] = Recompute(file) /\ file' = Recompute(file)
    BY <2>1 DEF CronBase, CronTypeOK
  <2>3. \A j \in CronJobs : Recompute(file)[j].kind = file[j].kind
    BY <2>1, RecomputeTyped DEF CronBase, CronTypeOK
  <2>4. acked \subseteq CronJobs /\ service # 0
    BY <2>1 DEF CronBase, CronTypeOK
  <2> QED  BY <2>1, <2>2, <2>3, <2>4 DEF SurviveInv
<1>3. CASE StopCron \/ Tick \/ UNCHANGED cronVars
  <2>1. UNCHANGED <<file, service, store, acked, crossed, loop>>
    BY <1>3 DEF StopCron, Tick, storeVars, loopVars, cronGhosts, cronVars
  <2> QED  BY <2>1, SurviveQuiet
<1>4. CASE Crash
  <2>1. /\ service \in Services /\ UNCHANGED <<file, service, acked, crossed>>
        /\ loop' = [g \in Services |-> IF g <= service THEN "dead" ELSE "off"]
        /\ store' = [g \in Services |-> NoJobs] /\ service > 0
    BY <1>4, CurrentService DEF Crash, cronGhosts
  <2>2. store'[service] = NoJobs /\ loop'[service] = "dead"
    BY <2>1, CurrentService
  <2>3. service # 0
    BY <2>1
  <2> QED  BY <2>1, <2>2, <2>3 DEF SurviveInv
<1>5. ASSUME NEW g \in Services, ReadWake(g) \/ Arm(g) \/ LoopEnds(g) \/ RunJob(g)
      PROVE  SurviveInv'
  <2>1. UNCHANGED <<file, service, store, acked, crossed>>
    BY <1>5 DEF ReadWake, Arm, LoopEnds, RunJob, storeVars, cronGhosts
  <2>2. loop[g] # "dead"
    BY <1>5 DEF ReadWake, Arm, LoopEnds, RunJob
  <2>3. \A h \in Services \ {g} : loop'[h] = loop[h]
    BY <1>5 DEF ReadWake, Arm, LoopEnds, RunJob, CronBase, CronTypeOK
  <2>4. CASE service \in Services
    BY <2>1, <2>2, <2>3, <2>4, SurviveQuiet
  <2>5. CASE service \notin Services
    <3>1. service = 0
      BY <2>5, CurrentService
    <3> QED  BY <2>1, <3>1 DEF SurviveInv
  <2> QED  BY <2>4, <2>5
<1>6. ASSUME NEW g \in Services, CheckJobs(g) PROVE SurviveInv'
  <2>1. /\ loop[g] = "select" /\ loop'[g] = "execute" /\ UNCHANGED <<service, acked>>
        /\ \A h \in Services \ {g} : loop'[h] = loop[h]
        /\ g <= service
    BY <1>6 DEF CheckJobs, CronBase, CronTypeOK, LoopShape
  <2>2. CASE g \in running
    <3>1. Saves(g, Cleared(g))
      BY <1>6, <2>2, CheckEffect
    <3>2. /\ \A j \in CronJobs : Cleared(g)[j].kind = store[g][j].kind
          /\ Cleared(g) \in [CronJobs -> CronRecords]
          /\ \A j \in CronJobs : Cleared(g)[j].kind = "none" => Cleared(g)[j] = NoCronJob
      BY ClearedTyped
    <3>3. acked' \subseteq CronJobs /\ acked' = acked
      BY <2>1 DEF CronBase, CronTypeOK
    <3> DEFINE jobs == Cleared(g)
    <3>4. /\ \A j \in acked' : j \in acked /\ (store[g][j].kind # "none" => jobs[j].kind # "none")
          /\ jobs \in [CronJobs -> CronRecords] /\ Saves(g, jobs)
          /\ \A j \in CronJobs : jobs[j].kind = "none" => jobs[j] = NoCronJob
      BY <3>1, <3>2, <3>3
    <3> HIDE DEF jobs
    <3>5. loop[g] # "dead" /\ service' = service /\ g <= service
      BY <2>1
    <3> QED  BY <3>3, <3>4, <3>5, SurviveSave
  <2>3. CASE g \notin running
    <3>1. UNCHANGED <<file, store, crossed>>
      BY <1>6, <2>3 DEF CheckJobs
    <3>2. service \in Services
      <4>1. g <= service
        BY <2>1
      <4>2. service \in Nat /\ service > 0
        BY <4>1, CurrentService DEF Services
      <4> QED  BY <4>2, CurrentService
    <3>3. loop[service] = "dead" => loop'[service] = "dead"
      BY <2>1, <3>2
    <3> QED  BY <2>1, <3>1, <3>3, SurviveQuiet
  <2> QED  BY <2>2, <2>3
<1>7. ASSUME NEW g \in Services, JobDone(g) PROVE SurviveInv'
  <2> DEFINE first == Head(due[g])
  <2>1. /\ UNCHANGED <<now, service, running, alarm, pendingEdit, ran, fresh>>
        /\ loop[g] = "callback" /\ first \in CronJobs
        /\ g <= service
        /\ loop'[g] = "execute" /\ \A h \in Services \ {g} : loop'[h] = loop[h]
        /\ acked' = IF store[g][first].kind = "at" THEN acked \ {first} ELSE acked
        /\ \/ /\ store[g][first] = NoCronJob
              /\ UNCHANGED <<file, store, cronSpent, crossed>>
           \/ /\ store[g][first] # NoCronJob
              /\ Saves(g, AfterRun(g, first))
    BY <1>7, DoneEffect
  <2> HIDE DEF first
  <2>2. CASE store[g][first] = NoCronJob /\ UNCHANGED <<file, store, cronSpent, crossed>>
    <3>1. acked' = acked
      BY <2>1, <2>2 DEF NoCronJob
    <3>2. service \in Services
      <4>1. service \in Nat /\ service > 0
        BY <2>1, CurrentService DEF Services
      <4> QED  BY <4>1, CurrentService
    <3>3. loop[service] = "dead" => loop'[service] = "dead"
      BY <2>1, <3>2
    <3> QED  BY <2>1, <2>2, <3>1, <3>3, SurviveQuiet
  <2>3. CASE store[g][first] # NoCronJob /\ Saves(g, AfterRun(g, first))
    <3> DEFINE jobs == AfterRun(g, first)
    <3>1. /\ jobs \in [CronJobs -> CronRecords]
          /\ jobs[first] = Finished(store[g][first])
          /\ \A i \in CronJobs \ {first} : jobs[i] = store[g][i]
          /\ \A i \in CronJobs : jobs[i].kind = "none" => jobs[i] = NoCronJob
          /\ store[g][first].kind = "every" => Finished(store[g][first]).kind = "every"
          /\ store[g][first].kind \in {"at", "every"}
      BY <2>1, <2>3, AfterRunTyped
    <3>2. Saves(g, jobs)
      BY <2>3
    <3> HIDE DEF jobs
    <3>3. acked' \subseteq acked /\ acked' \subseteq CronJobs
          /\ (store[g][first].kind = "at" => first \notin acked')
      BY <2>1 DEF CronBase, CronTypeOK
    <3>4. \A j \in acked' : store[g][j].kind # "none" => jobs[j].kind # "none"
      BY <3>1, <3>3
    <3> QED  BY <2>1, <3>1, <3>2, <3>3, <3>4, SurviveSave
  <2> QED  BY <2>1, <2>2, <2>3
<1>8. ASSUME NEW r \in CronRequests, AddJob(r[1], r[2], r[3]) PROVE SurviveInv'
  <2>1. r[1] \in CronJobs /\ r[2] \in {"at", "every"} /\ r[3] \in 1..Horizon
    BY <1>8 DEF CronAssumption
  <2> DEFINE new == NewJob(r[2], r[3])
  <2>2. /\ service \in Services /\ loop[service] # "dead"
        /\ r[1] \in fresh /\ Replaces(service, r[1], new)
        /\ acked' = acked \/ (acked' = acked \cup {r[1]} /\ file' = store'[service])
    BY <1>8, <2>1, AddEffect
  <2>3. new \in CronRecords /\ new.kind # "none"
    BY <2>1, NewJobTyped
  <2> HIDE DEF new
  <2>4. service <= service
    BY CurrentService
  <2> QED  BY <2>1, <2>2, <2>3, <2>4, SurviveReplace
<1>9. CASE UpdateJob
  <2>1. UNCHANGED <<service, acked>>
    BY <1>9, UpdateEffect
  <2>2. PICK g \in Services, i \in CronJobs, job \in CronRecords :
           /\ g <= service /\ job.kind # "none"
           /\ \/ UNCHANGED <<file, store, loop, cronSpent, crossed>>
              \/ store[g][i] # NoCronJob /\ Replaces(g, i, job)
    BY <1>9, UpdateEffect
  <2>3. CASE UNCHANGED <<file, store, loop, cronSpent, crossed>>
    BY <2>1, <2>3, SurviveQuiet
  <2>4. CASE store[g][i] # NoCronJob /\ Replaces(g, i, job)
    BY <2>1, <2>2, <2>4, SurviveReplace
  <2> QED  BY <2>2, <2>3, <2>4
<1>10. ASSUME NEW i \in CronJobs, RemoveJob(i) PROVE SurviveInv'
  <2>1. /\ service \in Services /\ store[service][i] # NoCronJob
        /\ Replaces(service, i, NoCronJob) /\ acked' = acked \ {i}
    BY <1>10, RemoveEffect
  <2>2. service <= service /\ NoCronJob \in CronRecords
    BY CurrentService, NoJobTyped
  <2> QED  BY <2>1, <2>2, SurviveReplace
<1>11. ASSUME NEW i \in CronJobs, NEW on \in BOOLEAN, EnableJob(i, on) PROVE SurviveInv'
  <2> DEFINE old == store[service][i]
             job == Enabled(old, on)
  <2>1. service \in Services /\ old # NoCronJob /\ Replaces(service, i, job) /\ acked' = acked
    BY <1>11, EnableEffect
  <2>2. old \in CronRecords /\ old.kind # "none"
    BY <2>1 DEF CronBase, CronTypeOK, CronShape
  <2>3. job \in CronRecords /\ job.kind # "none"
    <3> HIDE DEF old
    <3> QED  BY <2>2, EnabledTyped
  <2> HIDE DEF job
  <2>4. service <= service
    BY CurrentService
  <2> QED  BY <2>1, <2>3, <2>4, SurviveReplace
<1> QED  BY <1>1, <1>2, <1>3, <1>4, <1>5, <1>6, <1>7, <1>8, <1>9, <1>10, <1>11
         DEF CronNext, RunLoop

-------------------------------------------------------------------------------
(* The theorems *)

\* The three parts hold before the first service.
LEMMA CronInitInv ==
    ASSUME CronAssumption, CronInit
    PROVE  CronInv
<1>1. CronBase
  BY CronInitBase
<1>2. JobsInv
  <2> SUFFICES ASSUME NEW j \in CronJobs PROVE JobInv(j)
    BY DEF JobsInv
  <2>1. \A a \in CopiesOf(j) : a = NoCronJob
    BY DEF CronInit, CopiesOf, Editing, NoJobs
  <2>2. Unused(j)
    BY DEF CronInit, Unused, Waiting
  <2> QED  BY <2>1, <2>2 DEF JobInv, AgreeAt, IsAt, NoCronJob
<1>3. SurviveInv
  BY DEF CronInit, SurviveInv
<1> QED  BY <1>1, <1>2, <1>3 DEF CronInv

\* The jobs of the cron service, their copies and its loops are always as
\* CronInv says: its three parts are inductive together.
THEOREM CronInvariant == CronSpec => []CronInv
<1>1. CronInit => CronInv
  BY CronAssumption, CronInitInv
<1>2. CronInv /\ [CronNext]_cronVars => CronInv'
  BY CronAssumption, CronBaseStep, JobsStep, SurviveStep DEF CronInv
<1> QED  BY <1>1, <1>2, PTL DEF CronSpec

\* The variables keep their types (service.go: the fields of CronService).
THEOREM CronTypes == CronSpec => []CronTypeOK
<1>1. CronInv => CronTypeOK
  BY DEF CronInv, CronBase
<1> QED  BY <1>1, CronInvariant, PTL

\* A one-shot job is executed once at most, whatever is lost, saved late or
\* reloaded (service.go: checkJobs, executeJobByID, computeNextRun).
THEOREM CronOneShot == CronSpec => []OneShotOnce
<1>1. CronInv => OneShotOnce
  <2> SUFFICES ASSUME CronInv, NEW j \in CronJobs, ran[j] > 1
               PROVE  \A g \in Services : store[g][j].kind # "at" /\ file[j].kind # "at"
    BY DEF OneShotOnce
  <2>1. ~(ran[j] <= 1)
    BY DEF CronInv, CronBase, CronShape
  <2>2. ~IsAt(j)
    BY <2>1 DEF CronInv, JobsInv, JobInv, RanOnce
  <2> QED  BY <2>2, CopyOf DEF IsAt
<1> QED  BY <1>1, CronInvariant, PTL

\* A job that AddJob has accepted is in the file until it is removed or, if it
\* is one-shot, executed (service.go: AddJob, saveStoreUnsafe, loadStore).
THEOREM CronJobsSurvive == CronSpec => []JobsSurvive
<1>1. CronInv => JobsSurvive
  BY DEF CronInv, SurviveInv, JobsSurvive
<1> QED  BY <1>1, CronInvariant, PTL

-------------------------------------------------------------------------------
(* The fallback chain *)

\* A cool-down ends at the last failure, or no later than its counter says.
CooldownWithin(end, last, n, length) == end <= last \/ (n > 0 /\ end <= last + length)
EntryRecords == [errors : Nat, billing : Nat, coolEnd : Int, disabled : Int, last : Int]
EntryAt(e, t, k) ==
    /\ e \in EntryRecords
    /\ e.coolEnd >= -1 /\ e.disabled >= -1 /\ e.last >= -1
    /\ e.billing <= e.errors /\ e.errors <= k /\ e.last <= t
    /\ CooldownWithin(e.coolEnd, e.last, e.errors, StandardCooldown(e.errors))
    /\ CooldownWithin(e.disabled, e.last, e.billing, BillingCooldown(e.billing))
CallRecords ==
    [pc : {"rest", "next", "run"}, i : Nat, attempts : Seq({"skipped", "answer", "failed"}),
     result : {"none", "answer", "canceled", "failed", "exhausted"}]
CallOK(r) ==
    /\ r \in CallRecords
    /\ r.i <= Len(Chain) + 1
    /\ r.pc \in {"next", "run"} => r.i > 0
    /\ r.pc = "run" => r.i <= Len(Chain)
CallsOK ==
    /\ DOMAIN calls = FallbackCallers /\ calls = [e \in FallbackCallers |-> calls[e]]
    /\ \A e \in FallbackCallers : CallOK(calls[e])
EntriesOK ==
    /\ minute \in Moments /\ misses \in 0..MaxMisses
    /\ entries \in [Candidates -> EntryRecords]
    /\ \A c \in Candidates : EntryAt(entries[c], minute, misses)
FallbackInv == EntriesOK /\ CallsOK

\* The cool-downs grow with the number of failures, up to an hour or a day.
LEMMA StandardLength ==
    ASSUME NEW n \in Nat, n > 0
    PROVE  /\ StandardCooldown(n) \in Nat /\ StandardCooldown(n) <= 60
           /\ StandardCooldown(n) <= StandardCooldown(n + 1)
<1>1. 5 ^ 0 = 1 /\ 5 ^ 1 = 5 /\ 5 ^ 2 = 25 /\ 5 ^ 3 = 125
  OBVIOUS
<1>2. CASE n = 1
  BY <1>1, <1>2 DEF StandardCooldown, Smaller
<1>3. CASE n = 2
  BY <1>1, <1>3 DEF StandardCooldown, Smaller
<1>4. CASE n = 3
  BY <1>1, <1>4 DEF StandardCooldown, Smaller
<1>5. CASE n > 3
  <2>1. Smaller(n - 1, 3) = 3 /\ Smaller((n + 1) - 1, 3) = 3
    BY <1>5 DEF Smaller
  <2>2. StandardCooldown(n) = 60 /\ StandardCooldown(n + 1) = 60
    BY <1>1, <2>1 DEF StandardCooldown, Smaller
  <2> QED  BY <2>2
<1> QED  BY <1>2, <1>3, <1>4, <1>5

\* The long backoffs are all cut to a day.
LEMMA BillingCut ==
    ASSUME NEW n \in Nat, n > 3
    PROVE  BillingCooldown(n) = 1440
<1> DEFINE k == Smaller(n - 1, 10)
           p == 2 ^ k
<1>1. k \in Nat /\ k >= 3 /\ k <= 10
  BY DEF Smaller
<1> HIDE DEF k
<1>2. p \in Nat /\ p >= 8
  <2>1. k = 3 \/ k = 4 \/ k = 5 \/ k = 6 \/ k = 7 \/ k = 8 \/ k = 9 \/ k = 10
    BY <1>1
  <2>2. k = 3 => p = 8
    <3>1. k = 3 => p = 2 ^ 3
      BY Zenon
    <3>2. 2 ^ 3 = 8
      OBVIOUS
    <3> HIDE DEF p
    <3> QED  BY <3>1, <3>2
  <2>3. k = 4 => p = 16
    <3>1. k = 4 => p = 2 ^ 4
      BY Zenon
    <3>2. 2 ^ 4 = 16
      OBVIOUS
    <3> HIDE DEF p
    <3> QED  BY <3>1, <3>2
  <2>4. k = 5 => p = 32
    <3>1. k = 5 => p = 2 ^ 5
      BY Zenon
    <3>2. 2 ^ 5 = 32
      OBVIOUS
    <3> HIDE DEF p
    <3> QED  BY <3>1, <3>2
  <2>5. k = 6 => p = 64
    <3>1. k = 6 => p = 2 ^ 6
      BY Zenon
    <3>2. 2 ^ 6 = 64
      OBVIOUS
    <3> HIDE DEF p
    <3> QED  BY <3>1, <3>2
  <2>6. k = 7 => p = 128
    <3>1. k = 7 => p = 2 ^ 7
      BY Zenon
    <3>2. 2 ^ 7 = 128
      OBVIOUS
    <3> HIDE DEF p
    <3> QED  BY <3>1, <3>2
  <2>7. k = 8 => p = 256
    <3>1. k = 8 => p = 2 ^ 8
      BY Zenon
    <3>2. 2 ^ 8 = 256
      OBVIOUS
    <3> HIDE DEF p
    <3> QED  BY <3>1, <3>2
  <2>8. k = 9 => p = 512
    <3>1. k = 9 => p = 2 ^ 9
      BY Zenon
    <3>2. 2 ^ 9 = 512
      OBVIOUS
    <3> HIDE DEF p
    <3> QED  BY <3>1, <3>2
  <2>9. k = 10 => p = 1024
    <3>1. k = 10 => p = 2 ^ 10
      BY Zenon
    <3>2. 2 ^ 10 = 1024
      OBVIOUS
    <3> HIDE DEF p
    <3> QED  BY <3>1, <3>2
  <2> HIDE DEF p
  <2> QED  BY <2>1, <2>2, <2>3, <2>4, <2>5, <2>6, <2>7, <2>8, <2>9
<1>3. BillingCooldown(n) = Smaller(24 * 60, 5 * 60 * p)
  BY DEF BillingCooldown, k
<1> HIDE DEF p
<1> QED  BY <1>2, <1>3 DEF Smaller

\* A longer series of billing failures has no shorter cool-down.
LEMMA BillingLength ==
    ASSUME NEW n \in Nat, n > 0
    PROVE  /\ BillingCooldown(n) \in Nat /\ BillingCooldown(n) <= 1440
           /\ BillingCooldown(n) <= BillingCooldown(n + 1)
<1>1. 2 ^ 0 = 1 /\ 2 ^ 1 = 2 /\ 2 ^ 2 = 4
  OBVIOUS
<1>2. BillingCooldown(1) = 300 /\ BillingCooldown(2) = 600 /\ BillingCooldown(3) = 1200
  BY <1>1 DEF BillingCooldown, Smaller
<1>3. BillingCooldown(4) = 1440
  BY BillingCut
<1>4. CASE n > 3
  BY <1>4, BillingCut
<1>5. CASE n = 1 \/ n = 2 \/ n = 3
  BY <1>2, <1>3, <1>5
<1> QED  BY <1>4, <1>5

\* The lengths that matter to an entry: none when its counter is zero.
LEMMA LengthsOf ==
    ASSUME NEW e \in EntryRecords, NEW t \in Nat, e.last <= t,
           CooldownWithin(e.coolEnd, e.last, e.errors, StandardCooldown(e.errors)),
           CooldownWithin(e.disabled, e.last, e.billing, BillingCooldown(e.billing))
    PROVE  /\ e.errors = 0 => e.coolEnd <= t
           /\ e.coolEnd <= t + StandardCooldown(e.errors + 1)
           /\ e.billing = 0 => e.disabled <= t
           /\ e.disabled <= t + BillingCooldown(e.billing + 1)
           /\ CooldownWithin(e.disabled, t, e.billing, BillingCooldown(e.billing))
           /\ t - e.last > 1440 => e.coolEnd <= t /\ e.disabled <= t
<1>1. /\ e.errors \in Nat /\ e.billing \in Nat
      /\ e.coolEnd \in Int /\ e.disabled \in Int /\ e.last \in Int
      /\ e.errors + 1 \in Nat /\ e.billing + 1 \in Nat
      /\ e.errors + 1 > 0 /\ e.billing + 1 > 0
  BY DEF EntryRecords
<1>2. StandardCooldown(e.errors + 1) \in Nat /\ BillingCooldown(e.billing + 1) \in Nat
  BY <1>1, StandardLength, BillingLength
<1>4. e.errors # 0 => /\ e.coolEnd <= t + StandardCooldown(e.errors + 1)
                      /\ t - e.last > 1440 => e.coolEnd <= t
  <2> SUFFICES ASSUME e.errors # 0
               PROVE  /\ e.coolEnd <= t + StandardCooldown(e.errors + 1)
                      /\ t - e.last > 1440 => e.coolEnd <= t
    OBVIOUS
  <2>1. e.errors > 0
    BY <1>1
  <2>2. /\ StandardCooldown(e.errors) \in Nat /\ StandardCooldown(e.errors) <= 60
        /\ StandardCooldown(e.errors) <= StandardCooldown(e.errors + 1)
    BY <1>1, <2>1, StandardLength
  <2> QED  BY <1>1, <1>2, <2>2 DEF CooldownWithin
<1>5. e.errors = 0 => e.coolEnd <= t /\ e.coolEnd <= t + StandardCooldown(e.errors + 1)
  BY <1>1, <1>2 DEF CooldownWithin
<1>6. e.billing # 0 => /\ e.disabled <= t + BillingCooldown(e.billing + 1)
                       /\ t - e.last > 1440 => e.disabled <= t
                       /\ CooldownWithin(e.disabled, t, e.billing, BillingCooldown(e.billing))
  <2> SUFFICES ASSUME e.billing # 0
               PROVE  /\ e.disabled <= t + BillingCooldown(e.billing + 1)
                      /\ t - e.last > 1440 => e.disabled <= t
                      /\ CooldownWithin(e.disabled, t, e.billing, BillingCooldown(e.billing))
    OBVIOUS
  <2>1. e.billing > 0
    BY <1>1
  <2>2. /\ BillingCooldown(e.billing) \in Nat /\ BillingCooldown(e.billing) <= 1440
        /\ BillingCooldown(e.billing) <= BillingCooldown(e.billing + 1)
    BY <1>1, <2>1, BillingLength
  <2> QED  BY <1>1, <1>2, <2>1, <2>2 DEF CooldownWithin
<1>7. e.billing = 0 => /\ e.disabled <= t /\ e.disabled <= t + BillingCooldown(e.billing + 1)
                       /\ CooldownWithin(e.disabled, t, e.billing, BillingCooldown(e.billing))
  BY <1>1, <1>2 DEF CooldownWithin
<1> QED  BY <1>4, <1>5, <1>6, <1>7

\* The counters of an entry go on, or are reset when its cool-downs are over.
LEMMA CountedKeeps ==
    ASSUME FallbackAssumption, FallbackInv, NEW e, EntryAt(e, minute, misses)
    PROVE  LET m == Counted(e) IN
           /\ m \in EntryRecords
           /\ m.coolEnd = e.coolEnd /\ m.disabled = e.disabled
           /\ m.errors <= misses /\ m.billing <= m.errors
           /\ m.coolEnd <= minute + StandardCooldown(m.errors + 1)
           /\ m.disabled <= minute + BillingCooldown(m.billing + 1)
           /\ CooldownWithin(m.disabled, minute, m.billing, BillingCooldown(m.billing))
<1>1. minute \in Nat /\ misses \in Nat
  BY DEF FallbackAssumption, FallbackInv, EntriesOK
<1>2. /\ e \in EntryRecords /\ e.last <= minute
      /\ e.coolEnd \in Int /\ e.disabled \in Int /\ e.last \in Int
      /\ e.errors <= misses /\ e.billing <= e.errors
  BY DEF EntryAt, EntryRecords
<1>3. /\ e.coolEnd <= minute + StandardCooldown(e.errors + 1)
      /\ e.disabled <= minute + BillingCooldown(e.billing + 1)
      /\ CooldownWithin(e.disabled, minute, e.billing, BillingCooldown(e.billing))
      /\ minute - e.last > 1440 => e.coolEnd <= minute /\ e.disabled <= minute
  BY <1>1, <1>2, LengthsOf DEF EntryAt
<1> DEFINE m == Counted(e)
<1>4. CASE e.last # Zero /\ minute - e.last > FailureWindow
  <2>1. m = [e EXCEPT !.errors = 0, !.billing = 0]
    BY <1>4 DEF Counted
  <2> HIDE DEF m
  <2>2. /\ m \in EntryRecords /\ m.coolEnd = e.coolEnd /\ m.disabled = e.disabled
        /\ m.errors = 0 /\ m.billing = 0
    BY <1>2, <2>1 DEF EntryRecords
  <2>3. e.coolEnd <= minute /\ e.disabled <= minute
    BY <1>3, <1>4 DEF FailureWindow
  <2>4. StandardCooldown(1) \in Nat /\ BillingCooldown(1) \in Nat
    BY StandardLength, BillingLength
  <2>5. /\ m.coolEnd <= minute + StandardCooldown(m.errors + 1)
        /\ m.disabled <= minute + BillingCooldown(m.billing + 1)
    BY <1>1, <1>2, <2>2, <2>3, <2>4
  <2>6. CooldownWithin(m.disabled, minute, m.billing, BillingCooldown(m.billing))
    BY <2>2, <2>3 DEF CooldownWithin
  <2> QED  BY <1>1, <2>2, <2>5, <2>6 DEF m
<1>5. CASE ~(e.last # Zero /\ minute - e.last > FailureWindow)
  <2>1. m = e
    BY <1>5 DEF Counted
  <2> QED  BY <1>2, <1>3, <2>1
<1> QED  BY <1>4, <1>5

LEMMA LengthsNext ==
    ASSUME NEW r \in Nat
    PROVE  StandardCooldown(r + 1) \in Nat /\ BillingCooldown(r + 1) \in Nat
<1> DEFINE q == r + 1
<1>1. q \in Nat /\ q > 0
  OBVIOUS
<1> HIDE DEF q
<1>2. StandardCooldown(q) \in Nat
  BY <1>1, StandardLength
<1>3. BillingCooldown(q) \in Nat
  BY <1>1, BillingLength
<1> QED  BY <1>2, <1>3 DEF q

\* Fields of the records that MarkFailure builds.
LEMMA FailureFields ==
    ASSUME NEW m \in EntryRecords, NEW t \in Nat
    PROVE  LET n == [m EXCEPT !.errors = @ + 1, !.last = t] IN
           /\ n \in EntryRecords /\ n.errors = m.errors + 1 /\ n.billing = m.billing
           /\ n.coolEnd = m.coolEnd /\ n.disabled = m.disabled /\ n.last = t
<1> DEFINE k == m.errors + 1
<1>1. m.errors \in Nat /\ k \in Nat /\ t \in Int
  BY DEF EntryRecords
<1>2. [m EXCEPT !.errors = @ + 1, !.last = t] = [m EXCEPT !.errors = k, !.last = t]
  BY Zenon
<1>3. k = m.errors + 1
  OBVIOUS
<1> HIDE DEF k
<1> QED  BY <1>1, <1>2, <1>3 DEF EntryRecords

LEMMA BillingFields ==
    ASSUME NEW n \in EntryRecords, NEW end \in Int
    PROVE  LET x == [n EXCEPT !.billing = @ + 1, !.disabled = end] IN
           /\ x \in EntryRecords /\ x.errors = n.errors /\ x.billing = n.billing + 1
           /\ x.coolEnd = n.coolEnd /\ x.disabled = end /\ x.last = n.last
<1> DEFINE k == n.billing + 1
<1>1. n.billing \in Nat /\ k \in Nat
  BY DEF EntryRecords
<1>2. [n EXCEPT !.billing = @ + 1, !.disabled = end] = [n EXCEPT !.billing = k, !.disabled = end]
  BY Zenon
<1>3. k = n.billing + 1
  OBVIOUS
<1> HIDE DEF k
<1> QED  BY <1>1, <1>2, <1>3 DEF EntryRecords

LEMMA StandardFields ==
    ASSUME NEW n \in EntryRecords, NEW end \in Int
    PROVE  LET x == [n EXCEPT !.coolEnd = end] IN
           /\ x \in EntryRecords /\ x.errors = n.errors /\ x.billing = n.billing
           /\ x.coolEnd = end /\ x.disabled = n.disabled /\ x.last = n.last
  BY DEF EntryRecords

\* A failure marks an entry as the bounds allow, and shortens no cool-down.
LEMMA MarkFailureKeeps ==
    ASSUME FallbackAssumption, FallbackInv, NEW e, EntryAt(e, minute, misses), NEW reason
    PROVE  /\ EntryAt(MarkFailure(e, reason), minute, misses + 1)
           /\ AvailableAt(MarkFailure(e, reason)) >= AvailableAt(e)
<1> DEFINE m == Counted(e)
           n == [m EXCEPT !.errors = @ + 1, !.last = minute]
           x == MarkFailure(e, reason)
<1>1. minute \in Nat /\ misses \in Nat
  BY DEF FallbackAssumption, FallbackInv, EntriesOK
<1>2. /\ e \in EntryRecords /\ e.coolEnd \in Int /\ e.disabled \in Int
      /\ e.coolEnd >= -1 /\ e.disabled >= -1
  BY DEF EntryAt, EntryRecords
<1>3. /\ m \in EntryRecords
      /\ m.coolEnd = e.coolEnd /\ m.disabled = e.disabled
      /\ m.errors <= misses /\ m.billing <= m.errors
      /\ m.coolEnd <= minute + StandardCooldown(m.errors + 1)
      /\ m.disabled <= minute + BillingCooldown(m.billing + 1)
      /\ CooldownWithin(m.disabled, minute, m.billing, BillingCooldown(m.billing))
  BY CountedKeeps
<1>4. x = IF reason = "billing"
            THEN [n EXCEPT !.billing = @ + 1, !.disabled = minute + BillingCooldown(n.billing + 1)]
            ELSE [n EXCEPT !.coolEnd = minute + StandardCooldown(n.errors)]
  BY DEF MarkFailure
<1> HIDE DEF m, x
<1>5. m.errors \in Nat /\ m.billing \in Nat
  BY <1>3 DEF EntryRecords
<1>6. /\ n \in EntryRecords /\ n.errors = m.errors + 1 /\ n.billing = m.billing
      /\ n.coolEnd = m.coolEnd /\ n.disabled = m.disabled /\ n.last = minute
  BY <1>1, <1>3, FailureFields
<1> HIDE DEF n
<1>7. /\ StandardCooldown(m.errors + 1) \in Nat /\ BillingCooldown(m.billing + 1) \in Nat
  BY <1>5, LengthsNext
<1> DEFINE s == StandardCooldown(m.errors + 1)
           b == BillingCooldown(m.billing + 1)
<1>8. CASE reason = "billing"
  <2>1. x = [n EXCEPT !.billing = @ + 1, !.disabled = minute + b]
    BY <1>4, <1>6, <1>8
  <2>2. s \in Nat /\ b \in Nat
    BY <1>7
  <2> HIDE DEF b
  <2>3. /\ x \in EntryRecords /\ x.errors = m.errors + 1 /\ x.billing = m.billing + 1
        /\ x.coolEnd = m.coolEnd /\ x.disabled = minute + b /\ x.last = minute
    <3>1. minute + b \in Int
      BY <1>1, <2>2
    <3>2. /\ x \in EntryRecords /\ x.errors = n.errors /\ x.billing = n.billing + 1
          /\ x.coolEnd = n.coolEnd /\ x.disabled = minute + b /\ x.last = n.last
      BY <1>6, <2>1, <3>1, BillingFields
    <3> QED  BY <1>6, <3>2
  <2>4. CooldownWithin(x.coolEnd, x.last, x.errors, StandardCooldown(x.errors))
    BY <1>1, <1>2, <1>3, <1>5, <2>3 DEF CooldownWithin
  <2>5. CooldownWithin(x.disabled, x.last, x.billing, BillingCooldown(x.billing))
    BY <1>1, <1>5, <2>2, <2>3 DEF CooldownWithin, b
  <2>6. EntryAt(x, minute, misses + 1)
    BY <1>1, <1>2, <1>3, <1>5, <2>2, <2>3, <2>4, <2>5 DEF EntryAt
  <2>7. e.disabled <= minute + b
    BY <1>3 DEF b
  <2>8. AvailableAt(x) >= AvailableAt(e)
    BY <1>1, <1>2, <1>3, <2>2, <2>3, <2>7 DEF AvailableAt
  <2> QED  BY <2>6, <2>8 DEF x
<1>9. CASE reason # "billing"
  <2>1. x = [n EXCEPT !.coolEnd = minute + s]
    BY <1>4, <1>6, <1>9
  <2>2. s \in Nat
    BY <1>7
  <2> HIDE DEF s
  <2>3. /\ x \in EntryRecords /\ x.errors = m.errors + 1 /\ x.billing = m.billing
        /\ x.coolEnd = minute + s /\ x.disabled = m.disabled /\ x.last = minute
    <3>1. minute + s \in Int
      BY <1>1, <2>2
    <3>2. /\ x \in EntryRecords /\ x.errors = n.errors /\ x.billing = n.billing
          /\ x.coolEnd = minute + s /\ x.disabled = n.disabled /\ x.last = n.last
      BY <1>6, <2>1, <3>1, StandardFields
    <3> QED  BY <1>6, <3>2
  <2>4. CooldownWithin(x.coolEnd, x.last, x.errors, StandardCooldown(x.errors))
    BY <1>1, <1>5, <2>2, <2>3 DEF CooldownWithin, s
  <2>5. CooldownWithin(x.disabled, x.last, x.billing, BillingCooldown(x.billing))
    BY <1>3, <2>3
  <2>6. EntryAt(x, minute, misses + 1)
    BY <1>1, <1>2, <1>3, <1>5, <2>2, <2>3, <2>4, <2>5 DEF EntryAt
  <2>7. e.coolEnd <= minute + s
    BY <1>3 DEF s
  <2>8. AvailableAt(x) >= AvailableAt(e)
    BY <1>1, <1>2, <1>3, <2>2, <2>3, <2>7 DEF AvailableAt
  <2> QED  BY <2>6, <2>8 DEF x
<1> QED  BY <1>8, <1>9

\* The bounds stay true of an entry that is left alone, and of one that is reset.
LEMMA EntryLater ==
    ASSUME NEW e, NEW t \in Nat, NEW k \in Nat, NEW u \in Nat, NEW l \in Nat,
           EntryAt(e, t, k), t <= u, k <= l
    PROVE  EntryAt(e, u, l)
<1>1. e.last \in Int /\ e.errors \in Nat
  BY DEF EntryAt, EntryRecords
<1> QED  BY <1>1 DEF EntryAt

LEMMA NewEntryOK ==
    ASSUME NEW t \in Nat, NEW k \in Nat
    PROVE  EntryAt(NewEntry, t, k)
<1>1. NewEntry \in EntryRecords
  BY DEF NewEntry, EntryRecords, Zero
<1> QED  BY <1>1 DEF EntryAt, NewEntry, Zero, CooldownWithin

LEMMA MarkSuccessKeeps ==
    ASSUME NEW e, NEW t \in Nat, NEW k \in Nat, EntryAt(e, t, k)
    PROVE  EntryAt(MarkSuccess(e), t, k)
<1> DEFINE x == MarkSuccess(e)
<1>1. e.last \in Int /\ e.last >= -1 /\ e.last <= t
  BY DEF EntryAt, EntryRecords
<1>2. /\ x \in EntryRecords /\ x.errors = 0 /\ x.billing = 0
      /\ x.coolEnd = -1 /\ x.disabled = -1 /\ x.last = e.last
  BY <1>1 DEF MarkSuccess, NewEntry, EntryRecords, Zero
<1> HIDE DEF x
<1> QED  BY <1>1, <1>2 DEF EntryAt, CooldownWithin, x

\* What a call writes about itself is a call, in the bounds of the chain.
LEMMA GoesKeeps ==
    ASSUME CallsOK, NEW e \in FallbackCallers, NEW r, CallOK(r), Goes(e, r)
    PROVE  CallsOK'
<1>1. calls' = [calls EXCEPT ![e] = r]
  BY DEF Goes
<1>2. DOMAIN calls' = FallbackCallers /\ calls' = [x \in FallbackCallers |-> calls'[x]]
  BY <1>1 DEF CallsOK
<1>3. \A x \in FallbackCallers : CallOK(calls'[x])
  BY <1>1 DEF CallsOK
<1>4. (\A x \in FallbackCallers : CallOK(calls[x]))'
  BY <1>3 DEF CallOK
<1> QED  BY <1>2, <1>4 DEF CallsOK

LEMMA ChainLength ==
    ASSUME FallbackAssumption
    PROVE  /\ Len(Chain) \in Nat /\ \A i \in 1..Len(Chain) : Chain[i] \in Candidates
<1> DEFINE S == {Chain[i] : i \in DOMAIN Chain}
<1>1. Chain \in Seq(S)
  BY DEF FallbackAssumption
<1> HIDE DEF S
<1>2. Len(Chain) \in Nat /\ DOMAIN Chain = 1..Len(Chain)
  BY <1>1
<1> QED  BY <1>2 DEF Candidates

Outcomes == {"skipped", "answer", "failed"}

\* The fields of a call.
LEMMA CallFields ==
    ASSUME CallsOK, NEW e \in FallbackCallers
    PROVE  /\ calls[e] \in CallRecords /\ calls[e].i \in Nat
           /\ calls[e].i <= Len(Chain) + 1
           /\ calls[e].pc \in {"next", "run"} => calls[e].i > 0
           /\ calls[e].pc = "run" => calls[e].i <= Len(Chain)
           /\ calls[e].attempts \in Seq(Outcomes)
           /\ \A what \in Outcomes : Attempted(e, what) \in Seq(Outcomes)
<1>1. CallOK(calls[e])
  BY DEF CallsOK
<1>2. calls[e] \in CallRecords
  BY <1>1 DEF CallOK
<1>3. calls[e].i \in Nat /\ calls[e].attempts \in Seq(Outcomes)
  BY <1>2 DEF CallRecords, Outcomes
<1> DEFINE a == calls[e].attempts
<1>4. \A what \in Outcomes : Append(a, what) \in Seq(Outcomes)
  <2>1. a \in Seq(Outcomes)
    BY <1>3
  <2> HIDE DEF a
  <2> QED  BY <2>1
<1> QED  BY <1>1, <1>2, <1>3, <1>4 DEF CallOK, Attempted

\* A call that returns.
LEMMA ReturnKeeps ==
    ASSUME CallsOK, NEW e \in FallbackCallers, NEW what \in {"none", "answer", "canceled", "failed", "exhausted"},
           NEW attempts \in Seq(Outcomes), ReturnCall(e, what, attempts)
    PROVE  CallsOK'
<1> DEFINE r == [pc |-> "rest", i |-> calls[e].i, attempts |-> attempts, result |-> what]
<1>1. calls[e].i \in Nat /\ calls[e].i <= Len(Chain) + 1
  BY CallFields
<1>2. r \in CallRecords /\ r.i <= Len(Chain) + 1 /\ r.pc = "rest"
  BY <1>1 DEF CallRecords, Outcomes
<1>3. Goes(e, r)
  BY DEF ReturnCall
<1> HIDE DEF r
<1>4. CallOK(r)
  BY <1>2 DEF CallOK
<1> QED  BY <1>3, <1>4, GoesKeeps

\* A step that leaves the entries alone.
LEMMA EntriesStay ==
    ASSUME EntriesOK, UNCHANGED <<minute, entries, misses>>
    PROVE  EntriesOK'
<1>1. minute' = minute /\ entries' = entries /\ misses' = misses
  OBVIOUS
<1> QED  BY <1>1 DEF EntriesOK, EntryAt

LEMMA CallExecuteKeeps ==
    ASSUME FallbackAssumption, FallbackInv, NEW e \in FallbackCallers, CallExecute(e)
    PROVE  FallbackInv'
<1> DEFINE r == [pc |-> "next", i |-> 1, attempts |-> <<>>, result |-> "none"]
<1>1. Goes(e, r) /\ UNCHANGED <<minute, entries, misses>>
  BY DEF CallExecute
<1>2. r \in CallRecords /\ r.i = 1 /\ r.pc = "next"
  BY DEF CallRecords
<1>3. Len(Chain) \in Nat
  BY ChainLength
<1> HIDE DEF r
<1>4. CallOK(r)
  BY <1>2, <1>3 DEF CallOK
<1> QED  BY <1>1, <1>4, GoesKeeps, EntriesStay DEF FallbackInv

\* A call that goes on to the next candidate, or runs the one it is at.
LEMMA NextRecord ==
    ASSUME NEW c \in CallRecords, NEW attempts \in Seq(Outcomes)
    PROVE  LET r == [c EXCEPT !.pc = "next", !.i = @ + 1, !.attempts = attempts] IN
           r \in CallRecords /\ r.i = c.i + 1 /\ r.pc = "next"
<1> DEFINE k == c.i + 1
<1>1. c.i \in Nat /\ k \in Nat
  BY DEF CallRecords
<1>2. [c EXCEPT !.pc = "next", !.i = @ + 1, !.attempts = attempts]
        = [c EXCEPT !.pc = "next", !.i = k, !.attempts = attempts]
  BY Zenon
<1>3. k = c.i + 1
  OBVIOUS
<1> HIDE DEF k
<1> QED  BY <1>1, <1>2, <1>3 DEF CallRecords, Outcomes

LEMMA SkipRecord ==
    ASSUME NEW c \in CallRecords, NEW attempts \in Seq(Outcomes)
    PROVE  LET r == [c EXCEPT !.i = @ + 1, !.attempts = attempts] IN
           r \in CallRecords /\ r.i = c.i + 1 /\ r.pc = c.pc
<1> DEFINE k == c.i + 1
<1>1. c.i \in Nat /\ k \in Nat
  BY DEF CallRecords
<1>2. [c EXCEPT !.i = @ + 1, !.attempts = attempts] = [c EXCEPT !.i = k, !.attempts = attempts]
  BY Zenon
<1>3. k = c.i + 1
  OBVIOUS
<1> HIDE DEF k
<1> QED  BY <1>1, <1>2, <1>3 DEF CallRecords, Outcomes

LEMMA TryCandidateKeeps ==
    ASSUME FallbackAssumption, FallbackInv, NEW e \in FallbackCallers, TryCandidate(e)
    PROVE  FallbackInv'
<1>1. calls[e].pc = "next" /\ UNCHANGED <<minute, entries, misses>>
  BY DEF TryCandidate
<1>2. EntriesOK' /\ CallsOK
  BY <1>1, EntriesStay DEF FallbackInv
<1>3. /\ calls[e] \in CallRecords /\ calls[e].i \in Nat /\ calls[e].i > 0
      /\ calls[e].attempts \in Seq(Outcomes)
      /\ Attempted(e, "skipped") \in Seq(Outcomes)
  BY <1>1, <1>2, CallFields DEF Outcomes
<1>4. Len(Chain) \in Nat
  BY ChainLength
<1>5. CASE calls[e].i > Len(Chain)
  <2>1. ReturnCall(e, "exhausted", calls[e].attempts)
    BY <1>5 DEF TryCandidate
  <2> QED  BY <1>2, <1>3, <2>1, ReturnKeeps DEF FallbackInv
<1>6. CASE calls[e].i <= Len(Chain) /\ ~IsAvailable(entries[Chain[calls[e].i]])
  <2> DEFINE r == [calls[e] EXCEPT !.i = @ + 1, !.attempts = Attempted(e, "skipped")]
  <2>1. Goes(e, r)
    BY <1>3, <1>4, <1>6 DEF TryCandidate
  <2>2. r \in CallRecords /\ r.i = calls[e].i + 1 /\ r.pc = "next"
    BY <1>1, <1>3, SkipRecord
  <2> HIDE DEF r
  <2>3. CallOK(r)
    BY <1>3, <1>4, <1>6, <2>2 DEF CallOK
  <2> QED  BY <1>2, <2>1, <2>3, GoesKeeps DEF FallbackInv
<1>7. CASE calls[e].i <= Len(Chain) /\ IsAvailable(entries[Chain[calls[e].i]])
  <2> DEFINE r == [calls[e] EXCEPT !.pc = "run"]
  <2>1. Goes(e, r)
    BY <1>3, <1>4, <1>7 DEF TryCandidate
  <2>2. r \in CallRecords /\ r.i = calls[e].i /\ r.pc = "run"
    BY <1>3 DEF CallRecords
  <2> HIDE DEF r
  <2>3. CallOK(r)
    BY <1>3, <1>4, <1>7, <2>2 DEF CallOK
  <2> QED  BY <1>2, <2>1, <2>3, GoesKeeps DEF FallbackInv
<1> QED  BY <1>3, <1>4, <1>5, <1>6, <1>7

LEMMA CancelExecuteKeeps ==
    ASSUME FallbackAssumption, FallbackInv, NEW e \in FallbackCallers, CancelExecute(e)
    PROVE  FallbackInv'
<1>1. ReturnCall(e, "canceled", calls[e].attempts) /\ UNCHANGED <<minute, entries, misses>>
  BY DEF CancelExecute
<1>2. EntriesOK' /\ CallsOK
  BY <1>1, EntriesStay DEF FallbackInv
<1>3. calls[e].attempts \in Seq(Outcomes)
  BY <1>2, CallFields
<1> QED  BY <1>1, <1>2, <1>3, ReturnKeeps DEF FallbackInv

LEMMA ForgetCallKeeps ==
    ASSUME FallbackAssumption, FallbackInv, NEW e \in FallbackCallers, ForgetCall(e)
    PROVE  FallbackInv'
<1>1. Goes(e, Resting) /\ UNCHANGED <<minute, entries, misses>>
  BY DEF ForgetCall
<1>2. Resting \in CallRecords /\ Resting.i = 0 /\ Resting.pc = "rest"
  BY DEF Resting, CallRecords
<1>3. Len(Chain) \in Nat
  BY ChainLength
<1>4. CallOK(Resting)
  BY <1>2, <1>3 DEF CallOK
<1> QED  BY <1>1, <1>4, GoesKeeps, EntriesStay DEF FallbackInv

\* A step that writes the entry of one candidate.
LEMMA OneEntry ==
    ASSUME FallbackAssumption, EntriesOK, NEW c \in Candidates, NEW x,
           misses' \in misses..MaxMisses, EntryAt(x, minute, misses'),
           entries' = [entries EXCEPT ![c] = x], minute' = minute
    PROVE  EntriesOK'
<1>1. minute \in Nat /\ misses \in Nat /\ misses' \in Nat /\ misses <= misses' /\ MaxMisses \in Nat
  BY DEF FallbackAssumption, EntriesOK
<1>2. x \in EntryRecords
  BY DEF EntryAt
<1>3. entries' \in [Candidates -> EntryRecords]
  BY <1>2 DEF EntriesOK
<1>4. ASSUME NEW d \in Candidates
      PROVE  EntryAt(entries'[d], minute, misses')
  <2>1. CASE d = c
    BY <2>1 DEF EntriesOK
  <2>2. CASE d # c
    <3>1. entries'[d] = entries[d] /\ EntryAt(entries[d], minute, misses)
      BY <2>2 DEF EntriesOK
    <3>2. EntryAt(entries[d], minute, misses')
      BY <1>1, <3>1, EntryLater
    <3> QED  BY <3>1, <3>2
  <2> QED  BY <2>1, <2>2
<1>5. (\A d \in Candidates : EntryAt(entries[d], minute, misses))'
  BY <1>4 DEF EntryAt
<1> QED  BY <1>1, <1>3, <1>5 DEF EntriesOK

\* The candidate a call runs.
LEMMA RunsCandidate ==
    ASSUME FallbackAssumption, FallbackInv, NEW e \in FallbackCallers, calls[e].pc = "run"
    PROVE  /\ Chain[calls[e].i] \in Candidates
           /\ EntryAt(entries[Chain[calls[e].i]], minute, misses)
           /\ entries[Chain[calls[e].i]] \in EntryRecords
<1>1. calls[e].i \in 1..Len(Chain)
  <2>1. calls[e].i \in Nat /\ calls[e].i > 0 /\ calls[e].i <= Len(Chain)
    BY CallFields DEF FallbackInv
  <2> QED  BY <2>1, ChainLength
<1>2. Chain[calls[e].i] \in Candidates
  BY <1>1, ChainLength
<1> QED  BY <1>2 DEF FallbackInv, EntriesOK

LEMMA AnswerCallKeeps ==
    ASSUME FallbackAssumption, FallbackInv, NEW e \in FallbackCallers, AnswerCall(e)
    PROVE  FallbackInv'
<1> DEFINE c == Chain[calls[e].i]
           x == MarkSuccess(entries[c])
<1>1. /\ calls[e].pc = "run" /\ entries' = [entries EXCEPT ![c] = x]
      /\ ReturnCall(e, "answer", Attempted(e, "answer"))
      /\ minute' = minute /\ misses' = misses
  BY DEF AnswerCall
<1>2. c \in Candidates /\ EntryAt(entries[c], minute, misses)
  BY <1>1, RunsCandidate
<1>3. minute \in Nat /\ misses \in Nat /\ misses \in 0..MaxMisses
  BY DEF FallbackAssumption, FallbackInv, EntriesOK
<1>4. EntryAt(x, minute, misses)
  BY <1>2, <1>3, MarkSuccessKeeps
<1>5. MaxMisses \in Nat /\ EntriesOK /\ CallsOK
  BY DEF FallbackAssumption, FallbackInv
<1>6. Attempted(e, "answer") \in Seq(Outcomes)
  BY <1>5, CallFields DEF Outcomes
<1>7. CallsOK'
  BY <1>1, <1>5, <1>6, ReturnKeeps
<1> HIDE DEF c, x
<1>8. misses' \in misses..MaxMisses
  BY <1>1, <1>3, <1>5
<1>9. EntriesOK'
  BY <1>1, <1>2, <1>4, <1>5, <1>8, OneEntry
<1> QED  BY <1>7, <1>9 DEF FallbackInv

LEMMA FailCallKeeps ==
    ASSUME FallbackAssumption, FallbackInv, NEW e \in FallbackCallers, NEW reason,
           FailCall(e, reason)
    PROVE  FallbackInv'
<1>1. calls[e].pc = "run" /\ misses < MaxMisses /\ misses' = misses + 1 /\ minute' = minute
  BY DEF FailCall
<1>2. /\ minute \in Nat /\ misses \in Nat /\ MaxMisses \in Nat /\ EntriesOK /\ CallsOK
      /\ misses' \in misses..MaxMisses /\ misses <= misses + 1 /\ misses + 1 \in Nat
  <2>1. minute \in Nat /\ misses \in Nat /\ MaxMisses \in Nat
    BY DEF FallbackAssumption, FallbackInv, EntriesOK
  <2>2. EntriesOK /\ CallsOK
    BY DEF FallbackInv
  <2> QED  BY <1>1, <2>1, <2>2
<1>3. Attempted(e, "failed") \in Seq(Outcomes)
  BY <1>2, CallFields DEF Outcomes
<1> DEFINE c == Chain[calls[e].i]
           x == MarkFailure(entries[c], reason)
<1>4. c \in Candidates /\ EntryAt(entries[c], minute, misses)
  BY <1>1, RunsCandidate
<1>5. CASE reason = "format"
  <2>1. ReturnCall(e, "failed", Attempted(e, "failed")) /\ entries' = entries
    BY <1>5 DEF FailCall
  <2>2. CallsOK'
    BY <1>2, <1>3, <2>1, ReturnKeeps
  <2>3. EntryAt(entries[c], minute, misses')
    BY <1>1, <1>2, <1>4, EntryLater
  <2>4. entries' = [entries EXCEPT ![c] = entries[c]]
    BY <1>2, <1>4, <2>1 DEF EntriesOK
  <2> HIDE DEF c
  <2>5. EntriesOK'
    BY <1>1, <1>2, <1>4, <2>3, <2>4, OneEntry
  <2> QED  BY <2>2, <2>5 DEF FallbackInv
<1>6. CASE reason # "format"
  <2>1. entries' = [entries EXCEPT ![c] = x]
    BY <1>6 DEF FailCall
  <2>2. EntryAt(x, minute, misses')
    BY <1>1, <1>4, MarkFailureKeeps
  <2>3. CallsOK'
    <3>1. CASE calls[e].i = Len(Chain)
      <4>1. ReturnCall(e, "exhausted", Attempted(e, "failed"))
        BY <1>6, <3>1 DEF FailCall
      <4> QED  BY <1>2, <1>3, <4>1, ReturnKeeps
    <3>2. CASE calls[e].i # Len(Chain)
      <4> DEFINE r == [calls[e] EXCEPT !.pc = "next", !.i = @ + 1,
                                       !.attempts = Attempted(e, "failed")]
      <4>1. Goes(e, r)
        BY <1>6, <3>2 DEF FailCall
      <4>2. /\ calls[e] \in CallRecords /\ calls[e].i \in Nat
            /\ calls[e].i <= Len(Chain) /\ Len(Chain) \in Nat
        BY <1>1, <1>2, CallFields, ChainLength
      <4>3. r \in CallRecords /\ r.i = calls[e].i + 1 /\ r.pc = "next"
        BY <1>3, <4>2, NextRecord
      <4> HIDE DEF r
      <4>4. CallOK(r)
        BY <4>2, <4>3 DEF CallOK
      <4> QED  BY <1>2, <4>1, <4>4, GoesKeeps
    <3> QED  BY <3>1, <3>2
  <2> HIDE DEF c, x
  <2>4. EntriesOK'
    BY <1>1, <1>2, <1>4, <2>1, <2>2, OneEntry
  <2> QED  BY <2>3, <2>4 DEF FallbackInv
<1> QED  BY <1>5, <1>6

LEMMA TimePassesKeeps ==
    ASSUME FallbackAssumption, FallbackInv, TimePasses
    PROVE  FallbackInv'
<1>1. PICK t \in Moments : t > minute /\ minute' = t
  BY DEF TimePasses
<1>2. entries' = entries /\ calls' = calls /\ misses' = misses
  BY DEF TimePasses
<1>3. CallsOK'
  BY <1>2 DEF FallbackInv, CallsOK, CallOK
<1>4. t \in Nat /\ minute \in Nat /\ misses \in Nat /\ minute <= t /\ misses <= misses
  BY <1>1 DEF FallbackAssumption, FallbackInv, EntriesOK
<1>5. ASSUME NEW c \in Candidates
      PROVE  EntryAt(entries[c], t, misses)
  <2>1. EntryAt(entries[c], minute, misses)
    BY DEF FallbackInv, EntriesOK
  <2> QED  BY <1>4, <2>1, EntryLater
<1>6. EntriesOK'
  <2>1. (\A c \in Candidates : EntryAt(entries[c], minute, misses))'
    BY <1>1, <1>2, <1>5 DEF EntryAt
  <2>2. minute' \in Moments /\ misses' \in 0..MaxMisses
    BY <1>1, <1>2 DEF FallbackInv, EntriesOK
  <2>3. entries' \in [Candidates -> EntryRecords]
    BY <1>2 DEF FallbackInv, EntriesOK
  <2> QED  BY <2>1, <2>2, <2>3 DEF EntriesOK
<1> QED  BY <1>3, <1>6 DEF FallbackInv

LEMMA FallbackStep ==
    ASSUME FallbackAssumption, FallbackInv, [FallbackNext]_fallbackVars
    PROVE  FallbackInv'
<1>1. ASSUME NEW e \in FallbackCallers,
             \/ CallExecute(e) \/ TryCandidate(e) \/ CancelExecute(e) \/ AnswerCall(e) \/ ForgetCall(e)
             \/ \E reason \in {"format", "billing", "rate_limit"} : FailCall(e, reason)
      PROVE  FallbackInv'
  BY <1>1, CallExecuteKeeps, TryCandidateKeeps, CancelExecuteKeeps, AnswerCallKeeps,
     ForgetCallKeeps, FailCallKeeps
<1>2. CASE TimePasses
  BY <1>2, TimePassesKeeps
<1>3. CASE UNCHANGED fallbackVars
  <2>1. minute' = minute /\ entries' = entries /\ calls' = calls /\ misses' = misses
    BY <1>3 DEF fallbackVars
  <2> QED  BY <2>1 DEF FallbackInv, EntriesOK, CallsOK, CallOK, EntryAt
<1> QED  BY <1>1, <1>2, <1>3 DEF FallbackNext

LEMMA FallbackStart ==
    ASSUME FallbackAssumption, FallbackInit
    PROVE  FallbackInv
<1>1. minute = 0 /\ misses = 0 /\ 0 \in Moments /\ MaxMisses \in Nat
  BY DEF FallbackInit, FallbackAssumption
<1>2. EntryAt(NewEntry, minute, misses)
  BY <1>1, NewEntryOK
<1>3. NewEntry \in EntryRecords
  BY <1>2 DEF EntryAt
<1>4. entries = [c \in Candidates |-> NewEntry]
  BY DEF FallbackInit
<1>5. EntriesOK
  BY <1>1, <1>2, <1>3, <1>4 DEF EntriesOK
<1>6. Resting \in CallRecords /\ Resting.i = 0 /\ Resting.pc = "rest"
  BY DEF Resting, CallRecords
<1>7. CallOK(Resting)
  BY <1>6, ChainLength DEF CallOK
<1>8. calls = [e \in FallbackCallers |-> Resting]
  BY DEF FallbackInit
<1>9. CallsOK
  BY <1>7, <1>8 DEF CallsOK
<1> QED  BY <1>5, <1>9 DEF FallbackInv

\* In every reachable state each cool-down ends at most as long after the last
\* failure as its counter allows (MarkFailure, cooldown.go).
THEOREM FallbackInvariant == FallbackSpec => []FallbackInv
<1>1. FallbackInit => FallbackInv
  BY FallbackAssumption, FallbackStart
<1>2. FallbackInv /\ [FallbackNext]_fallbackVars => FallbackInv'
  BY FallbackAssumption, FallbackStep
<1> QED  BY <1>1, <1>2, PTL DEF FallbackSpec

\* The types of the fallback chain, for every chain and number of callers.
THEOREM FallbackTypes == FallbackSpec => []FallbackTypeOK
<1>1. FallbackInv => FallbackTypeOK
  <2> SUFFICES ASSUME FallbackInv
               PROVE  FallbackTypeOK
    OBVIOUS
  <2>1. minute \in Moments /\ misses \in 0..MaxMisses /\ MaxMisses \in Nat
    BY FallbackAssumption DEF FallbackInv, EntriesOK, FallbackAssumption
  <2>2. ASSUME NEW c \in Candidates
        PROVE  /\ {entries[c].coolEnd, entries[c].disabled, entries[c].last} \subseteq Nat \cup {Zero}
               /\ {entries[c].errors, entries[c].billing} \subseteq 0..MaxMisses
               /\ entries[c].billing <= entries[c].errors
    <3>1. EntryAt(entries[c], minute, misses)
      BY DEF FallbackInv, EntriesOK
    <3>2. /\ entries[c].coolEnd \in Int /\ entries[c].disabled \in Int /\ entries[c].last \in Int
          /\ entries[c].errors \in Nat /\ entries[c].billing \in Nat
          /\ entries[c].coolEnd >= -1 /\ entries[c].disabled >= -1 /\ entries[c].last >= -1
          /\ entries[c].billing <= entries[c].errors /\ entries[c].errors <= misses
      BY <3>1 DEF EntryAt, EntryRecords
    <3> QED  BY <2>1, <3>2 DEF Zero
  <2>3. ASSUME NEW e \in FallbackCallers
        PROVE  /\ calls[e].pc \in {"rest", "next", "run"} /\ calls[e].i \in 0..Len(Chain) + 1
               /\ calls[e].result \in {"none", "answer", "canceled", "failed", "exhausted"}
    <3>1. calls[e] \in CallRecords /\ calls[e].i \in Nat /\ calls[e].i <= Len(Chain) + 1
      BY CallFields DEF FallbackInv
    <3>2. Len(Chain) \in Nat
      BY FallbackAssumption, ChainLength
    <3> QED  BY <3>1, <3>2 DEF CallRecords
  <2> QED  BY <2>1, <2>2, <2>3 DEF FallbackTypeOK
<1> QED  BY <1>1, FallbackInvariant, PTL

\* Only an answer lets a candidate be used earlier: a failure of another call,
\* of the other kind or with counters that start anew, shortens no cool-down.
THEOREM CooldownKept == FallbackSpec => CooldownNotShortened
<1> DEFINE Kept == \A c \in Candidates :
                     \/ AvailableAt(entries'[c]) >= AvailableAt(entries[c])
                     \/ \E e \in FallbackCallers : AnswerCall(e) /\ c = Chain[calls[e].i]
<1>1. FallbackInv /\ [FallbackNext]_fallbackVars => [Kept]_fallbackVars
  <2> SUFFICES ASSUME FallbackInv, FallbackNext
               PROVE  Kept
    OBVIOUS
  <2> SUFFICES ASSUME NEW c \in Candidates
               PROVE  \/ AvailableAt(entries'[c]) >= AvailableAt(entries[c])
                      \/ \E e \in FallbackCallers : AnswerCall(e) /\ c = Chain[calls[e].i]
    OBVIOUS
  <2>1. EntryAt(entries[c], minute, misses) /\ entries \in [Candidates -> EntryRecords]
    BY DEF FallbackInv, EntriesOK
  <2>2. AvailableAt(entries[c]) >= AvailableAt(entries[c])
    BY <2>1 DEF EntryAt, EntryRecords, AvailableAt
  <2>3. CASE entries'[c] = entries[c]
    BY <2>2, <2>3
  <2>4. ASSUME NEW e \in FallbackCallers, AnswerCall(e)
        PROVE  c = Chain[calls[e].i] \/ entries'[c] = entries[c]
    BY <2>1, <2>4 DEF AnswerCall
  <2>5. ASSUME NEW e \in FallbackCallers, NEW reason, FailCall(e, reason)
        PROVE  AvailableAt(entries'[c]) >= AvailableAt(entries[c])
    <3>1. CASE reason = "format"
      BY <2>2, <2>5, <3>1 DEF FailCall
    <3>2. CASE reason # "format"
      <4> DEFINE d == Chain[calls[e].i]
                 x == MarkFailure(entries[d], reason)
      <4>1. entries' = [entries EXCEPT ![d] = x]
        BY <2>5, <3>2 DEF FailCall
      <4>2. CASE c = d
        <5>1. AvailableAt(MarkFailure(entries[c], reason)) >= AvailableAt(entries[c])
          BY <2>1, FallbackAssumption, MarkFailureKeeps
        <5>2. entries'[c] = MarkFailure(entries[c], reason)
          BY <2>1, <4>1, <4>2
        <5> QED  BY <5>1, <5>2
      <4>3. CASE c # d
        <5> HIDE DEF d, x
        <5>1. entries'[c] = entries[c]
          BY <2>1, <4>1, <4>3
        <5> QED  BY <2>2, <5>1
      <4> QED  BY <4>2, <4>3
    <3> QED  BY <3>1, <3>2
  <2>6. ASSUME NEW e \in FallbackCallers,
               CallExecute(e) \/ TryCandidate(e) \/ CancelExecute(e) \/ ForgetCall(e)
        PROVE  entries'[c] = entries[c]
    BY <2>6 DEF CallExecute, TryCandidate, CancelExecute, ForgetCall
  <2>7. CASE TimePasses
    BY <2>3, <2>7 DEF TimePasses
  <2> QED  BY <2>3, <2>4, <2>5, <2>6, <2>7 DEF FallbackNext
<1> QED  BY <1>1, FallbackInvariant, PTL DEF FallbackSpec, CooldownNotShortened

-------------------------------------------------------------------------------
(* The joint run of the components *)

\* Every behaviour of the joint run is one of each component: a step is one of
\* the component that moves, and the others stutter.
THEOREM PartsAreComponents ==
    ServicesSpec => /\ JSONLSpec /\ CronSpec /\ DeliverySpec /\ MigrationSpec /\ FallbackSpec
                    /\ GatewaySpec /\ WeComSpec /\ HooksSpec /\ ToolServersSpec
<1>1. ServicesInit => /\ JSONLInit /\ CronInit /\ DeliveryInit /\ MigrationInit /\ FallbackInit
                      /\ GatewayInit /\ WeComInit /\ HooksInit /\ ToolServersInit
  BY DEF ServicesInit
<1>2. [ServicesNext]_ServicesVars =>
         /\ [JSONLNext]_jsonlVars /\ [CronNext]_cronVars /\ [DeliveryNext]_deliveryVars
         /\ [MigrationNext]_migrationVars /\ [FallbackNext]_fallbackVars
         /\ [GatewayNext]_gatewayVars /\ [WeComNext]_wecomVars /\ [HooksNext]_hookVars
         /\ [ToolServersNext]_toolVars
  BY DEF ServicesNext, ServicesVars
<1> QED
  BY <1>1, <1>2, PTL
  DEF ServicesSpec, JSONLSpec, CronSpec, DeliverySpec, MigrationSpec, FallbackSpec, GatewaySpec,
      WeComSpec, HooksSpec, ToolServersSpec

\* The types of all components in their joint run.
THEOREM ServicesTypes == ServicesSpec => []ServicesTypeOK
<1>1. /\ JSONLTypeOK /\ CronTypeOK /\ DeliveryTypeOK /\ MigrationTypeOK /\ FallbackTypeOK
      /\ GatewayTypeOK /\ WeComTypeOK /\ HooksTypeOK /\ ToolServersTypeOK
      => ServicesTypeOK
  BY DEF ServicesTypeOK
<1>2. ServersInv => ToolServersTypeOK
  BY DEF ServersInv
<1> QED
  BY <1>1, <1>2, PartsAreComponents, StoreTypes, CronTypes, DeliveryTypes, MigrationTypes,
     FallbackTypes, GatewayTypes, WeComTypes, HooksTypes, ServersInvariant, PTL
===============================================================================
