---------------------------- MODULE AppLifecycle ----------------------------
(***************************************************************************)
(* Who may close which channel: App.Reload, which replaces the WorkerPool  *)
(* under a running scheduler, and App.Stop (internal/app/app.go), with the *)
(* scheduling loop (internal/scheduler/scheduler.go) that submits to the   *)
(* pool and the workers (internal/poller/worker.go) that send to rawCh.    *)
(* Of the stages behind rawCh only their end counts here, see Pipeline.    *)
(*                                                                         *)
(* Reload runs in the goroutine of startConfigReloader, Stop in main's.    *)
(* Neither takes a lock: a.workerPool is read and written by both.         *)
(***************************************************************************)
EXTENDS Integers, FiniteSets

CONSTANTS
    MaxReloads,    \* reloads in a run (a bound)
    Workers,       \* the workers of one pool
    QueueSize      \* capacity of a pool's job queue

ASSUME ReloadsAssumption == MaxReloads \in Nat
ASSUME WorkersAssumption == IsFiniteSet(Workers) /\ Workers # {}
ASSUME QueueAssumption   == QueueSize \in Nat \ {0}

\* Pools in the order they are made; Start makes pool 0.
Pools == 0..MaxReloads

VARIABLES
    made,       \* the newest pool
    queue,      \* number of jobs queued in each pool
    jobsShut,   \* pools whose job queue is closed
    worker,     \* what each worker of each pool does
    rawShut,    \* rawCh is closed
    appPool,    \* a.workerPool
    schedPool,  \* s.pool
    sched,      \* the scheduling loop runs
    ctxDone,    \* the pipeline context is cancelled
    reload,     \* how far Reload is
    reloadOld,  \* the pool Reload stops
    stop,       \* how far App.Stop is
    stopOld,    \* the pool Stop stops
    stages,     \* the goroutines of the stages: "up", "early" when that of the
                \* transport has returned in a retry, "gone" when all have
    panicked,   \* a goroutine closed a closed channel or sent on one
    overlapped  \* history: Stop and Reload have been under way together

appVars == <<made, queue, jobsShut, worker, rawShut, appPool, schedPool, sched,
             ctxDone, reload, reloadOld, stop, stopOld, stages, panicked, overlapped>>

poolVars    == <<made, queue, jobsShut, worker, rawShut>>
schedVars   == <<schedPool, sched>>
reloadVars  == <<reload, reloadOld>>
appStopVars == <<stop, stopOld, stages>>

NoWorkers(p) == \A w \in Workers : worker[p][w] = "gone"

AppInit ==
    /\ made      = 0
    /\ queue     = [p \in Pools |-> 0]
    /\ jobsShut  = {}
    /\ worker    = [p \in Pools |-> [w \in Workers |-> IF p = 0 THEN "idle" ELSE "gone"]]
    /\ rawShut   = FALSE
    /\ appPool   = 0
    /\ schedPool = 0
    /\ sched     = TRUE
    /\ ctxDone   = FALSE
    /\ reload    = "idle"
    /\ reloadOld = 0
    /\ stop      = "running"
    /\ stopOld   = 0
    /\ stages    = "up"
    /\ panicked  = FALSE
    /\ overlapped = FALSE

-----------------------------------------------------------------------------
\* The scheduling loop. fireEntry runs under s.mu, as SetPool does.

\* MUTANT: a submission that ignores the queue's capacity.
FireUnbounded ==
    /\ sched
    /\ queue' = [queue EXCEPT ![schedPool] = @ + 1]
    /\ UNCHANGED <<made, jobsShut, worker, rawShut, appPool, schedVars, ctxDone,
                   reloadVars, appStopVars, panicked, overlapped>>

Fire ==
    /\ sched
    /\ IF schedPool \in jobsShut
       THEN panicked' = TRUE /\ UNCHANGED queue
       ELSE /\ queue[schedPool] < QueueSize
            /\ queue' = [queue EXCEPT ![schedPool] = @ + 1]
            /\ UNCHANGED panicked
    /\ UNCHANGED <<made, jobsShut, worker, rawShut, appPool, schedVars, ctxDone,
                   reloadVars, appStopVars, overlapped>>

SchedulerExit ==
    /\ sched
    /\ ctxDone
    /\ sched' = FALSE
    /\ UNCHANGED <<poolVars, appPool, schedPool, ctxDone, reloadVars, appStopVars, panicked, overlapped>>

-----------------------------------------------------------------------------
\* A worker.

Take(p, w) ==
    /\ worker[p][w] = "idle"
    /\ queue[p] > 0
    /\ worker' = [worker EXCEPT ![p][w] = "polling"]
    /\ queue' = [queue EXCEPT ![p] = @ - 1]
    /\ UNCHANGED <<made, jobsShut, rawShut, appPool, schedVars, ctxDone,
                   reloadVars, appStopVars, panicked, overlapped>>

\* The poll leaves no varbinds, or its result is sent: the stages take it off rawCh,
\* sooner or later, until the transport's goroutine has returned early, and a worker
\* that then waits at a full rawCh returns with the context. The send panics when
\* rawCh is closed.
PollEnds(p, w) ==
    /\ worker[p][w] = "polling"
    /\ \/ worker' = [worker EXCEPT ![p][w] = "idle"] /\ UNCHANGED panicked
       \/ rawShut /\ panicked' = TRUE /\ UNCHANGED worker
    /\ UNCHANGED <<made, queue, jobsShut, rawShut, appPool, schedVars, ctxDone,
                   reloadVars, appStopVars, overlapped>>

\* MUTANT: a worker that does not notice its queue is closed.
WorkerIgnoresClose(p, w) ==
    /\ worker[p][w] # "gone"
    /\ ctxDone
    /\ worker' = [worker EXCEPT ![p][w] = "gone"]
    /\ UNCHANGED <<made, queue, jobsShut, rawShut, appPool, schedVars, ctxDone,
                   reloadVars, appStopVars, panicked, overlapped>>

\* A worker returns when the queue is closed and empty, or the context is done.
WorkerReturns(p, w) ==
    /\ \/ worker[p][w] = "idle" /\ p \in jobsShut /\ queue[p] = 0
       \/ worker[p][w] # "gone" /\ ctxDone
    /\ worker' = [worker EXCEPT ![p][w] = "gone"]
    /\ UNCHANGED <<made, queue, jobsShut, rawShut, appPool, schedVars, ctxDone,
                   reloadVars, appStopVars, panicked, overlapped>>

-----------------------------------------------------------------------------
\* App.Reload. The ticker may win over ctx.Done in the reloader's select.

Tick ==
    /\ reload = "idle"
    /\ made < MaxReloads
    /\ reload' = "loading"
    /\ overlapped' = (stop # "running")
    /\ UNCHANGED <<poolVars, appPool, schedVars, ctxDone, reloadOld, appStopVars, panicked>>

\* MUTANT: a reloader that does not watch the context.
ReloaderStays == FALSE /\ UNCHANGED appVars

\* The reloader's goroutine returns.
ReloaderExit ==
    /\ reload = "idle"
    /\ ctxDone
    /\ reload' = "gone"
    /\ UNCHANGED <<poolVars, appPool, schedVars, ctxDone, reloadOld, appStopVars, panicked, overlapped>>

LoadFails ==
    /\ reload = "loading"
    /\ reload' = "idle"
    /\ UNCHANGED <<poolVars, appPool, schedVars, ctxDone, reloadOld, appStopVars, panicked, overlapped>>

StartNewPool ==
    /\ reload = "loading"
    /\ made' = made + 1
    /\ worker' = [worker EXCEPT ![made + 1] = [w \in Workers |-> "idle"]]
    /\ reload' = "started"
    /\ UNCHANGED <<queue, jobsShut, rawShut, appPool, schedVars, ctxDone, reloadOld,
                   appStopVars, panicked, overlapped>>

\* MUTANT: the old pool is closed under the scheduler.
SetPoolForgotten ==
    /\ reload = "started"
    /\ reload' = "redirected"
    /\ UNCHANGED <<poolVars, appPool, schedVars, ctxDone, reloadOld, appStopVars, panicked,
                   overlapped>>

SetPool ==
    /\ reload = "started"
    /\ schedPool' = made
    /\ reload' = "redirected"
    /\ UNCHANGED <<poolVars, appPool, sched, ctxDone, reloadOld, appStopVars, panicked, overlapped>>

\* WorkerPool.Stop: close(w.jobs) panics when it is closed already.
CloseJobs(p) ==
    /\ jobsShut' = jobsShut \cup {p}
    /\ panicked' = (panicked \/ p \in jobsShut)

ReloadStopsOld ==
    /\ reload = "redirected"
    /\ CloseJobs(appPool)
    /\ reloadOld' = appPool
    /\ reload' = "draining"
    /\ UNCHANGED <<made, queue, worker, rawShut, appPool, schedVars, ctxDone, appStopVars, overlapped>>

\* MUTANT: a.workerPool is not replaced.
ReloadKeepsOldPool ==
    /\ reload = "draining"
    /\ NoWorkers(reloadOld)
    /\ reload' = "idle"
    /\ UNCHANGED <<poolVars, appPool, schedVars, ctxDone, reloadOld, appStopVars, panicked,
                   overlapped>>

\* MUTANT: Reload does not wait for the old pool's workers.
ReloadDoesNotWait ==
    /\ reload = "draining"
    /\ appPool' = made
    /\ reload' = "idle"
    /\ UNCHANGED <<poolVars, schedVars, ctxDone, reloadOld, appStopVars, panicked, overlapped>>

\* w.wg.Wait returns; the scheduler's entries are rebuilt; a.workerPool is set.
ReloadEnds ==
    /\ reload = "draining"
    /\ NoWorkers(reloadOld)
    /\ appPool' = made
    /\ reload' = "idle"
    /\ UNCHANGED <<poolVars, schedVars, ctxDone, reloadOld, appStopVars, panicked, overlapped>>

-----------------------------------------------------------------------------
\* App.Stop.

Cancel ==
    /\ stop = "running"
    /\ ctxDone' = TRUE
    /\ stop' = "cancelled"
    /\ overlapped' = (reload # "idle")
    /\ UNCHANGED <<poolVars, appPool, schedVars, reloadVars, stopOld, stages, panicked>>

StopStopsPool ==
    /\ stop = "cancelled"
    /\ ~sched
    /\ CloseJobs(appPool)
    /\ stopOld' = appPool
    /\ stop' = "joining"
    /\ UNCHANGED <<made, queue, worker, rawShut, appPool, schedVars, ctxDone, reloadVars, stages, overlapped>>

\* MUTANT: rawCh is closed before the workers have returned.
CloseRawEarly ==
    /\ stop = "joining"
    /\ rawShut' = TRUE
    /\ stop' = "draining"
    /\ UNCHANGED <<made, queue, jobsShut, worker, appPool, schedVars, ctxDone,
                   reloadVars, stopOld, stages, panicked, overlapped>>

CloseRaw ==
    /\ stop = "joining"
    /\ NoWorkers(stopOld)
    /\ rawShut' = TRUE
    /\ stop' = "draining"
    /\ UNCHANGED <<made, queue, jobsShut, worker, appPool, schedVars, ctxDone,
                   reloadVars, stopOld, stages, panicked, overlapped>>

\* The transport's goroutine returns in the pause before a retry.
QuitsRetrying ==
    /\ stages = "up"
    /\ ctxDone
    /\ stages' = "early"
    /\ UNCHANGED <<poolVars, appPool, schedVars, ctxDone, reloadVars, stop, stopOld, panicked, overlapped>>

\* MUTANT: no stage notices that the channel it reads is closed.
StagesStay == FALSE /\ UNCHANGED appVars

\* The stages have drained rawCh and return. When nobody reads formattedCh any more
\* they may also stay, in a send to a full channel.
StagesReturn ==
    /\ stages # "gone"
    /\ rawShut
    /\ stages' = "gone"
    /\ UNCHANGED <<poolVars, appPool, schedVars, ctxDone, reloadVars, stop, stopOld, panicked, overlapped>>

\* a.wg.Wait: the goroutines of the stages and the reloader's have returned.
AppStopEnds ==
    /\ stop = "draining"
    /\ stages = "gone"
    /\ reload = "gone"
    /\ stop' = "stopped"
    /\ UNCHANGED <<poolVars, appPool, schedVars, ctxDone, reloadVars, stopOld, stages, panicked, overlapped>>

-----------------------------------------------------------------------------

\* A panic ends the process, a Stop that has returned the run.
AppOver ==
    /\ panicked \/ stop = "stopped"
    /\ UNCHANGED appVars

Worker(p, w) == Take(p, w) \/ PollEnds(p, w) \/ WorkerReturns(p, w)
Reloading    == LoadFails \/ StartNewPool \/ SetPool \/ ReloadStopsOld \/ ReloadEnds
Stopping     == StopStopsPool \/ CloseRaw \/ AppStopEnds

AppNext ==
    \/ /\ ~panicked
       /\ \/ Fire
          \/ SchedulerExit
          \/ \E p \in Pools, w \in Workers : Worker(p, w)
          \/ Tick
          \/ ReloaderExit
          \/ Reloading
          \/ Cancel
          \/ Stopping
          \/ QuitsRetrying
          \/ StagesReturn
    \/ AppOver

AppSpec == AppInit /\ [][AppNext]_appVars

\* A goroutine that can move does, and a poll ends. A select with two ready
\* cases picks one at random, so the scheduling loop and the reloader do not
\* miss a done context for ever. The stages drain a closed rawCh as long as all of
\* them are up, which is StopReturns of Pipeline; of those left behind by the
\* transport's goroutine nothing is assumed. Nothing makes a ticker fire, a Send fail
\* or anybody call Stop.
AppFairness ==
    /\ SF_appVars(SchedulerExit)
    /\ SF_appVars(ReloaderExit)
    /\ WF_appVars(Reloading)
    /\ WF_appVars(Stopping)
    /\ WF_appVars(stages = "up" /\ StagesReturn)
    /\ \A p \in Pools, w \in Workers : WF_appVars(~panicked /\ Worker(p, w))

AppFairSpec == AppSpec /\ AppFairness

-----------------------------------------------------------------------------
AppTypeOK ==
    /\ made \in Pools
    /\ queue \in [Pools -> 0..QueueSize]
    /\ jobsShut \subseteq Pools
    /\ worker \in [Pools -> [Workers -> {"idle", "polling", "gone"}]]
    /\ rawShut \in BOOLEAN /\ sched \in BOOLEAN /\ ctxDone \in BOOLEAN
    /\ panicked \in BOOLEAN /\ overlapped \in BOOLEAN
    /\ appPool \in Pools /\ schedPool \in Pools
    /\ reloadOld \in Pools /\ stopOld \in Pools
    /\ reload \in {"idle", "loading", "started", "redirected", "draining", "gone"}
    /\ stop \in {"running", "cancelled", "joining", "draining", "stopped"}
    /\ stages \in {"up", "early", "gone"}

\* The scheduler always has a live job queue to submit to, however Reload and
\* Stop interleave: what the order of Reload's steps is for (app.go:364-366).
SchedulerHasLiveQueue == sched => schedPool \notin jobsShut

\* As long as Stop and Reload have not run together, nobody closes a channel
\* twice or sends on a closed one, whatever the number of reloads.
NoPanicAlone == panicked => overlapped

\* As long as Stop and Reload have not run together, no worker is left when Stop
\* closes rawCh: Stop waits for the workers of the pool that is really in use.
DrainedAlone == rawShut /\ ~overlapped => \A p \in Pools : NoWorkers(p)

\* A reload loses no job: when it is done, the replaced pool has polled every job
\* that was queued in it and its workers are gone, unless the context is done.
RetiredPoolsEmpty ==
    ~ctxDone => \A p \in Pools : p < appPool => queue[p] = 0 /\ NoWorkers(p)

\* A reload that has begun comes to an end: the old pool's workers drain the
\* closed queue and return (app.go:371-385, worker.go:84-113). So does Stop, with a
\* reload under way or not (app.go:307-344), unless the two together have made the
\* process panic, or the transport's goroutine has returned in a retry and the stages
\* it has left never do (app.go:331, 506-511; see StopAlwaysReturns of Pipeline).
CallsReturn ==
    /\ reload = "draining" ~> (reload = "idle" \/ panicked)
    /\ stop = "cancelled" ~> (stop = "stopped" \/ panicked \/ [](stages = "early"))
=============================================================================
