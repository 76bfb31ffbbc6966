--------------------------------- MODULE Cron ---------------------------------
(***************************************************************************)
(* The cron service (pkg/cron/service.go): the store of jobs and its file,   *)
(* the timer loop with its wake channel, and the execution of due jobs       *)
(* outside the lock.  A reload of the gateway stops the service and starts a *)
(* new one on the same file, while the old loop may still execute a job; a   *)
(* crash loses everything but the file.                                      *)
(*                                                                          *)
(* Time is a small integer; 0 stands for no next run (nil).  A schedule is   *)
(* one-shot ("at") or has a period ("every", which "cron" expressions are    *)
(* too).  Everything between Lock and Unlock of mu is one step.              *)
(***************************************************************************)
EXTENDS Naturals, Sequences, FiniteSets

CONSTANTS
    CronJobs,        \* job ids
    CronRequests,    \* <<job, kind of schedule, time or period>>: what is asked for
    Horizon,         \* bound: the last moment
    MaxServices,     \* bound: services that are started one after the other
    MaxCronTroubles  \* bound: calls of RemoveJob and EnableJob, and failed writes of the file

\* There are finitely many jobs, so that those that are due can be put in an order.
ASSUME CronAssumption ==
    /\ IsFiniteSet(CronJobs)
    /\ CronRequests \subseteq CronJobs \X {"at", "every"} \X (1..Horizon)
    /\ Horizon \in Nat \ {0} /\ MaxServices \in Nat \ {0}
    /\ MaxCronTroubles \in Nat

VARIABLES
    now,       \* the clock
    file,      \* the jobs in the file
    service,   \* number of the current service, 0 before the first
    store,     \* service -> the jobs in its memory
    running,   \* services that run
    loop,      \* service -> where its runLoop is
    alarm,     \* service -> when its timer fires
    due,       \* service -> the due jobs it still has to execute
    pendingEdit, \* the copy of a job that AddJob returned and UpdateJob will write
    cronSpent, \* what is left of the bounds
    ran,       \* history: job -> how often it has been executed
    fresh,     \* history: ids that no AddJob has drawn yet
    acked,     \* history: jobs that AddJob has returned, not removed and not executed
    crossed    \* history: a service has saved after its successor had read the file

storeVars == <<file, service, store, running>>
loopVars == <<loop, alarm, due>>
cronGhosts == <<ran, fresh, acked, crossed>>
cronVars == <<now, storeVars, loopVars, pendingEdit, cronSpent, cronGhosts>>

Services == 1..MaxServices
NoCronJob == [kind |-> "none", when |-> 0, on |-> FALSE, next |-> 0]
NoJobs == [j \in CronJobs |-> NoCronJob]

\* computeNextRun: a one-shot job that is late has no next run.
\* Faulty variant: it has.
ComputeNextLate(job, t) ==
    IF job.kind = "at" THEN job.when ELSE t + job.when
ComputeNext(job, t) ==
    IF job.kind = "every" THEN t + job.when
    ELSE IF job.kind = "at" /\ job.when > t THEN job.when ELSE 0

\* Start: the next runs of the enabled jobs are computed anew.
\* Faulty variant: jobs that have none any more are dropped.
RecomputeDropping(jobs) ==
    [j \in CronJobs |-> IF jobs[j].on /\ ComputeNext(jobs[j], now) # 0
                          THEN [jobs[j] EXCEPT !.next = ComputeNext(jobs[j], now)]
                        ELSE NoCronJob]
Recompute(jobs) ==
    [j \in CronJobs |-> IF jobs[j].on THEN [jobs[j] EXCEPT !.next = ComputeNext(jobs[j], now)]
                        ELSE jobs[j]]

\* getNextWakeMS, no later than the end of time; an hour without jobs.
NextWake(jobs) ==
    LET wakes == {jobs[j].next : j \in {i \in CronJobs : jobs[i].on /\ jobs[i].next # 0}}
    IN IF \E w \in wakes : w <= Horizon
         THEN CHOOSE w \in wakes : \A v \in wakes : w <= v
         ELSE Horizon

CronInit ==
    /\ now = 0
    /\ file = NoJobs /\ service = 0 /\ store = [g \in Services |-> NoJobs] /\ running = {}
    /\ loop = [g \in Services |-> "off"]
    /\ alarm = [g \in Services |-> 0] /\ due = [g \in Services |-> <<>>]
    /\ pendingEdit = <<>>
    /\ cronSpent = 0
    /\ ran = [j \in CronJobs |-> 0] /\ fresh = CronJobs /\ acked = {} /\ crossed = FALSE

Trouble == cronSpent < MaxCronTroubles /\ cronSpent' = cronSpent + 1

\* The memory of service g becomes jobs, and is saved; the save may fail.
Write(g, jobs) ==
    /\ store' = [store EXCEPT ![g] = jobs]
    /\ crossed' = (crossed \/ g < service)
    /\ \/ file' = jobs /\ UNCHANGED cronSpent
       \/ Trouble /\ UNCHANGED file

\* notify: nothing but a loop that is in its select at this moment hears it.
Notify(g) == loop' = [loop EXCEPT ![g] = IF @ = "select" THEN "compute" ELSE @]

-------------------------------------------------------------------------------
(* Start and stop *)

\* NewCronService reads the file; Start reads it again.
Load ==
    /\ service < MaxServices /\ service \notin running
    /\ service' = service + 1
    /\ store' = [store EXCEPT ![service'] = file]
    /\ UNCHANGED <<now, file, running, loopVars, pendingEdit, cronSpent, cronGhosts>>

\* The next runs are computed anew and saved; an error ends the start.
StartCron ==
    /\ service > 0 /\ loop[service] = "off" /\ service \notin running
    /\ loop' = [loop EXCEPT ![service] = "compute"]
    /\ store' = [store EXCEPT ![service] = Recompute(file)]
    /\ file' = store'[service]
    /\ running' = running \cup {service}
    /\ UNCHANGED <<now, service, alarm, due, pendingEdit, cronSpent, cronGhosts>>

\* The channel is closed; the loop notices it when it is in its select.
StopCron ==
    /\ service \in running
    /\ running' = running \ {service}
    /\ UNCHANGED <<now, file, service, store, loopVars, pendingEdit, cronSpent, cronGhosts>>

Crash ==
    /\ service > 0 /\ service < MaxServices
    /\ running' = {}
    /\ loop' = [g \in Services |-> IF g <= service THEN "dead" ELSE "off"]
    /\ store' = [g \in Services |-> NoJobs]
    /\ alarm' = [g \in Services |-> 0] /\ due' = [g \in Services |-> <<>>]
    /\ pendingEdit' = <<>>
    /\ UNCHANGED <<now, file, service, cronSpent, cronGhosts>>

-------------------------------------------------------------------------------
(* runLoop *)

\* The next wake time is read under the lock.
ReadWake(g) ==
    /\ loop[g] = "compute"
    /\ alarm' = [alarm EXCEPT ![g] = NextWake(store[g])]
    /\ loop' = [loop EXCEPT ![g] = "arm"]
    /\ UNCHANGED <<now, storeVars, due, pendingEdit, cronSpent, cronGhosts>>

\* The timer is set and the loop waits.
Arm(g) ==
    /\ loop[g] = "arm"
    /\ loop' = [loop EXCEPT ![g] = "select"]
    /\ UNCHANGED <<now, storeVars, alarm, due, pendingEdit, cronSpent, cronGhosts>>

LoopEnds(g) ==
    /\ loop[g] = "select" /\ g \notin running
    /\ loop' = [loop EXCEPT ![g] = "dead"]
    /\ alarm' = [alarm EXCEPT ![g] = 0]
    /\ UNCHANGED <<now, storeVars, due, pendingEdit, cronSpent, cronGhosts>>

\* Faulty variant of the due jobs: one whose time has passed is missed.
DueExactly(jobs) == {j \in CronJobs : jobs[j].on /\ jobs[j].next # 0 /\ jobs[j].next = now}
DueNow(jobs) == {j \in CronJobs : jobs[j].on /\ jobs[j].next # 0 /\ jobs[j].next <= now}

\* checkJobs: the due jobs lose their next run, and are saved.
CheckJobs(g) ==
    /\ loop[g] = "select" /\ now >= alarm[g]
    /\ IF g \in running
         THEN \E order \in [1..Cardinality(DueNow(store[g])) -> DueNow(store[g])] :
                /\ \A j \in DueNow(store[g]) : \E i \in DOMAIN order : order[i] = j
                /\ due' = [due EXCEPT ![g] = order]
                /\ Write(g, [j \in CronJobs |-> IF j \in DueNow(store[g])
                               THEN [store[g][j] EXCEPT !.next = 0] ELSE store[g][j]])
         ELSE UNCHANGED <<file, store, due, cronSpent, crossed>>
    /\ loop' = [loop EXCEPT ![g] = "execute"]
    /\ alarm' = [alarm EXCEPT ![g] = 0]
    /\ UNCHANGED <<now, service, running, pendingEdit, ran, fresh, acked>>

\* executeJobByID: a job that has been removed meanwhile is skipped, one that
\* has been disabled is not.
RunJob(g) ==
    /\ loop[g] = "execute"
    /\ IF due[g] = <<>>
         THEN loop' = [loop EXCEPT ![g] = "compute"] /\ UNCHANGED <<due, ran>>
         ELSE IF store[g][Head(due[g])] = NoCronJob
           THEN due' = [due EXCEPT ![g] = Tail(@)] /\ UNCHANGED <<loop, ran>>
           ELSE /\ ran' = [ran EXCEPT ![Head(due[g])] = @ + 1]
                /\ loop' = [loop EXCEPT ![g] = "callback"] /\ UNCHANGED due
    /\ UNCHANGED <<now, storeVars, alarm, pendingEdit, cronSpent, fresh, acked, crossed>>

\* The callback has returned: a one-shot job is removed, the others get their
\* next run, whatever has been done to the job meanwhile.
JobDone(g) ==
    LET j == Head(due[g])
        job == store[g][j]
    IN /\ loop[g] = "callback"
       /\ IF job = NoCronJob
            THEN UNCHANGED <<file, store, cronSpent, crossed>>
            ELSE Write(g, [store[g] EXCEPT ![j] =
                   IF job.kind = "at" THEN NoCronJob
                   ELSE [job EXCEPT !.next = ComputeNext(job, now)]])
       /\ acked' = IF job.kind = "at" THEN acked \ {j} ELSE acked
       /\ due' = [due EXCEPT ![g] = Tail(@)]
       /\ loop' = [loop EXCEPT ![g] = "execute"]
       /\ UNCHANGED <<now, service, running, alarm, pendingEdit, ran, fresh>>

-------------------------------------------------------------------------------
(* What the cron tool calls, on the current service *)

\* AddJob; the tool may go on to UpdateJob with the copy it has got.  When the
\* save fails the caller is told so, nobody is woken, and the job stays.
AddJob(j, kind, when) ==
    LET job == [kind |-> kind, when |-> when, on |-> TRUE, next |-> 0]
        new == [job EXCEPT !.next = ComputeNext(job, now)]
    IN /\ service > 0 /\ loop[service] # "dead"
       /\ j \in fresh /\ fresh' = fresh \ {j}
       /\ pendingEdit = <<>>
       /\ Write(service, [store[service] EXCEPT ![j] = new])
       /\ IF cronSpent' = cronSpent
            THEN /\ acked' = acked \cup {j}
                 /\ Notify(service)
                 /\ pendingEdit' \in {<<>>, <<service, j, new>>}
            ELSE UNCHANGED <<acked, loop, pendingEdit>>
       /\ UNCHANGED <<now, service, running, alarm, due, ran>>

\* UpdateJob replaces the whole record by the copy, which may be old by now.
UpdateJob ==
    /\ pendingEdit # <<>>
    /\ LET g == pendingEdit[1]
           j == pendingEdit[2]
       IN IF store[g][j] = NoCronJob
            THEN UNCHANGED <<file, store, loop, cronSpent, crossed>>
            ELSE Notify(g) /\ Write(g, [store[g] EXCEPT ![j] = pendingEdit[3]])
    /\ pendingEdit' = <<>>
    /\ UNCHANGED <<now, service, running, alarm, due, ran, fresh, acked>>

RemoveJob(j) ==
    /\ service > 0 /\ store[service][j] # NoCronJob
    /\ Trouble
    /\ store' = [store EXCEPT ![service][j] = NoCronJob]
    /\ file' = store'[service]
    /\ Notify(service)
    /\ acked' = acked \ {j}
    /\ UNCHANGED <<now, service, running, alarm, due, pendingEdit, ran, fresh, crossed>>

EnableJob(j, on) ==
    /\ service > 0 /\ store[service][j] # NoCronJob
    /\ Trouble
    /\ store' = [store EXCEPT ![service][j].on = on,
                   ![service][j].next = IF on THEN ComputeNext(store[service][j], now) ELSE 0]
    /\ file' = store'[service]
    /\ Notify(service)
    /\ UNCHANGED <<now, service, running, alarm, due, pendingEdit, cronGhosts>>

Tick ==
    /\ now < Horizon
    /\ now' = now + 1
    /\ UNCHANGED <<storeVars, loopVars, pendingEdit, cronSpent, cronGhosts>>

-------------------------------------------------------------------------------
RunLoop(g) == ReadWake(g) \/ Arm(g) \/ LoopEnds(g) \/ CheckJobs(g) \/ RunJob(g) \/ JobDone(g)

CronNext ==
    \/ Load \/ StartCron \/ StopCron \/ Crash
    \/ \E g \in Services : RunLoop(g)
    \/ \E j \in CronJobs : RemoveJob(j)
    \/ \E r \in CronRequests : AddJob(r[1], r[2], r[3])
    \/ \E j \in CronJobs, on \in BOOLEAN : EnableJob(j, on)
    \/ UpdateJob \/ Tick

CronSpec == CronInit /\ [][CronNext]_cronVars

\* Time passes, and a loop that can go on does; callbacks return.
CronFairness == WF_cronVars(Tick) /\ \A g \in Services : WF_cronVars(RunLoop(g))

-------------------------------------------------------------------------------
(* Properties *)

CronRecords ==
    [kind : {"none", "at", "every"}, when : 0..Horizon, on : BOOLEAN, next : 0..2 * Horizon]

CronTypeOK ==
    /\ now \in 0..Horizon /\ service \in 0..MaxServices /\ running \subseteq {service}
    /\ file \in [CronJobs -> CronRecords]
    /\ store \in [Services -> [CronJobs -> CronRecords]]
    /\ loop \in [Services -> {"off", "compute", "arm", "select", "execute", "callback", "dead"}]
    /\ alarm \in [Services -> 0..Horizon]
    /\ \A g \in Services : \A i \in DOMAIN due[g] : due[g][i] \in CronJobs
    /\ acked \subseteq CronJobs \ fresh

\* A one-shot job is executed once at most: crashes and reloads while it runs,
\* saves that fail and a copy of the job that is written back late do not bring
\* it back (the reset of the next run in checkJobs, computeNextRun).
OneShotOnce ==
    \A j \in CronJobs : ran[j] > 1 =>
        \A g \in Services : store[g][j].kind # "at" /\ file[j].kind # "at"

\* A job that AddJob has accepted stays in the file until it is removed or, if
\* it is one-shot, executed, over crashes and reloads; unless a service that
\* was replaced has written the file once more.
JobsSurvive == ~crossed => \A j \in acked : file[j].kind # "none"

\* A job of a running service that is due does not stay so for ever: the timer
\* is set early enough, or set again, whatever is done to the jobs while the
\* loop computes its next wake or executes a job.
Overdue(g, j) == /\ g \in running /\ store[g][j].on
                 /\ store[g][j].next # 0 /\ store[g][j].next <= now
DueJobsRun == \A g \in Services, j \in CronJobs : Overdue(g, j) ~> ~Overdue(g, j)
===============================================================================
