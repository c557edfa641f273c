----------------------------- MODULE Node_proofs -----------------------------
(***************************************************************************)
(* Proofs about a node: how its application reloads and stops, and when it *)
(* polls.                                                                  *)
(*                                                                         *)
(* About AppLifecycle, for any number of reloads and workers and any queue *)
(* size: Phases says where the pools are at each step of Reload, Alone     *)
(* what holds while Stop and Reload have not run together, Manned where    *)
(* workers and jobs may be; with the safety invariants of the module they  *)
(* are inductive.                                                          *)
(*                                                                         *)
(* About HA, for any number of boots, signals, faults and any threshold:   *)
(* both collectors poll at once only for a reason the model names,         *)
(* Manager.state tells the truth, and who is told that a pipeline has      *)
(* ended finds it so.                                                      *)
(***************************************************************************)
EXTENDS AppLifecycle, HA, TLAPS

-----------------------------------------------------------------------------
(* The application. *)

\* The pools of the App and of the scheduler at each step of Reload. The queues
\* that are closed are the App's or older ones.
Phases ==
    /\ reload = "loading" => made < MaxReloads
    /\ reload \in {"idle", "loading", "gone"} => appPool = made /\ schedPool = made
    /\ reload = "started" => made = appPool + 1 /\ schedPool = appPool
    /\ reload \in {"redirected", "draining"} => made = appPool + 1 /\ schedPool = made
    /\ reload = "draining" => reloadOld = appPool /\ appPool \in jobsShut
    /\ \A p \in jobsShut : p <= appPool
    /\ sched => \A p \in jobsShut : p < schedPool

\* Until Stop and Reload run together each finds what it expects.
Alone ==
    /\ ctxDone <=> stop # "running"
    /\ overlapped => stop # "running"
    /\ rawShut => stop \in {"draining", "stopped"}
    /\ ~overlapped =>
          /\ stop # "running" => reload \in {"idle", "gone"}
          /\ stop \in {"running", "cancelled"} /\ reload # "draining" => appPool \notin jobsShut
          /\ stop = "joining" => stopOld = appPool

\* Only the pools in use have workers. Until the context is done they have all
\* their workers until their queue is closed, and none before it is empty.
Manned ==
    /\ \A p \in Pools : p < appPool \/ p > made => NoWorkers(p)
    /\ ~ctxDone => \A p \in Pools :
          /\ p <= made /\ p \notin jobsShut => \A w \in Workers : worker[p][w] # "gone"
          /\ p \in jobsShut /\ NoWorkers(p) => queue[p] = 0
          /\ p < appPool => queue[p] = 0

AppIInv == AppTypeOK /\ Phases /\ Alone /\ Manned /\ NoPanicAlone /\ DrainedAlone

LEMMA PoolsAreIntegers == Pools \subseteq Int /\ \A p \in Pools : p >= 0 /\ p <= MaxReloads
BY ReloadsAssumption DEF Pools

LEMMA AppTypeStep == ASSUME AppTypeOK, Phases, [AppNext]_appVars PROVE AppTypeOK'
<1> USE DEF poolVars, schedVars, reloadVars, appStopVars
<1>1. CASE Fire
  <2>1. queue' \in [Pools -> 0..QueueSize]
    <3>1. schedPool \notin jobsShut =>
             queue[schedPool] + 1 \in 0..QueueSize
      BY <1>1, QueueAssumption DEF AppTypeOK, Fire
    <3> QED
      BY <3>1, <1>1 DEF AppTypeOK, Fire
  <2>2. panicked' \in BOOLEAN
    BY <1>1 DEF AppTypeOK, Fire
  <2>3. UNCHANGED <<made, jobsShut, worker, rawShut, appPool, schedPool, sched, ctxDone,
                    reload, reloadOld, stop, stopOld, stages, overlapped>>
    BY <1>1 DEF Fire
  <2> QED
    BY <2>1, <2>2, <2>3 DEF AppTypeOK
<1>2. ASSUME NEW p \in Pools, NEW w \in Workers, Worker(p, w) PROVE AppTypeOK'
  <2>1. CASE Take(p, w)
    BY <2>1, QueueAssumption DEF AppTypeOK, Take
  <2>2. CASE PollEnds(p, w)
    <3>1. worker' \in [Pools -> [Workers -> {"idle", "polling", "gone"}]]
      BY <2>2 DEF AppTypeOK, PollEnds
    <3>2. panicked' \in BOOLEAN
      BY <2>2 DEF AppTypeOK, PollEnds
    <3> QED
      BY <3>1, <3>2, <2>2 DEF AppTypeOK, PollEnds
  <2>3. CASE WorkerReturns(p, w)
    BY <2>3 DEF AppTypeOK, WorkerReturns
  <2> QED
    BY <1>2, <2>1, <2>2, <2>3 DEF Worker
<1>3. CASE SchedulerExit \/ Tick \/ ReloaderExit \/ LoadFails \/ Cancel
  <2>1. CASE SchedulerExit \/ Cancel
    BY <2>1 DEF AppTypeOK, SchedulerExit, Cancel
  <2>2. CASE Tick \/ ReloaderExit \/ LoadFails
    BY <2>2 DEF AppTypeOK, Tick, ReloaderExit, LoadFails
  <2> QED
    BY <1>3, <2>1, <2>2
<1>4. CASE StartNewPool
  <2>1. made' \in Pools
    BY <1>4, ReloadsAssumption DEF AppTypeOK, Phases, StartNewPool, Pools
  <2>2. worker' \in [Pools -> [Workers -> {"idle", "polling", "gone"}]]
    BY <1>4 DEF AppTypeOK, StartNewPool
  <2> QED
    BY <2>1, <2>2, <1>4 DEF AppTypeOK, StartNewPool
<1>5. CASE SetPool \/ ReloadEnds
  BY <1>5 DEF AppTypeOK, SetPool, ReloadEnds
<1>6. CASE ReloadStopsOld \/ StopStopsPool
  <2>1. jobsShut' \subseteq Pools /\ panicked' \in BOOLEAN
    BY <1>6 DEF AppTypeOK, ReloadStopsOld, StopStopsPool, CloseJobs
  <2> QED
    BY <2>1, <1>6 DEF AppTypeOK, ReloadStopsOld, StopStopsPool
<1>7. CASE CloseRaw \/ AppStopEnds \/ QuitsRetrying \/ StagesReturn
  <2>1. CASE CloseRaw \/ AppStopEnds
    BY <2>1 DEF AppTypeOK, CloseRaw, AppStopEnds
  <2>2. CASE QuitsRetrying \/ StagesReturn
    BY <2>2 DEF AppTypeOK, QuitsRetrying, StagesReturn
  <2> QED
    BY <1>7, <2>1, <2>2
<1>8. CASE AppOver \/ UNCHANGED appVars
  BY <1>8 DEF AppTypeOK, AppOver, appVars
<1> QED
  BY <1>1, <1>2, <1>3, <1>4, <1>5, <1>6, <1>7, <1>8 DEF AppNext, Reloading, Stopping

LEMMA PhasesStep == ASSUME AppTypeOK, Phases, [AppNext]_appVars PROVE Phases'
<1> USE PoolsAreIntegers DEF poolVars, schedVars, reloadVars, appStopVars
<1>1. CASE Fire
  BY <1>1 DEF Phases, Fire
<1>2. ASSUME NEW p \in Pools, NEW w \in Workers, Worker(p, w) PROVE Phases'
  BY <1>2 DEF Phases, Worker, Take, PollEnds, WorkerReturns
<1>3. CASE SchedulerExit \/ Tick \/ ReloaderExit \/ LoadFails
  BY <1>3 DEF Phases, SchedulerExit, Tick, ReloaderExit, LoadFails
<1>4. CASE StartNewPool
  BY <1>4 DEF Phases, StartNewPool, AppTypeOK
<1>5. CASE SetPool
  <2>1. \A p \in jobsShut : p < made
    BY <1>5 DEF Phases, SetPool, AppTypeOK
  <2> QED
    BY <2>1, <1>5 DEF Phases, SetPool
\* The queue that Reload closes is no longer the scheduler's.
<1>6. CASE ReloadStopsOld
  <2>1. jobsShut' = jobsShut \cup {appPool} /\ appPool < schedPool
    BY <1>6 DEF ReloadStopsOld, CloseJobs, Phases, AppTypeOK
  <2>2. sched' => \A p \in jobsShut' : p < schedPool'
    BY <2>1, <1>6 DEF ReloadStopsOld, Phases
  <2>3. \A p \in jobsShut' : p <= appPool
    BY <2>1 DEF Phases, AppTypeOK
  <2> QED
    BY <2>1, <2>2, <2>3, <1>6 DEF Phases, ReloadStopsOld
<1>7. CASE ReloadEnds
  <2>1. \A p \in jobsShut : p <= made
    BY <1>7 DEF Phases, ReloadEnds, AppTypeOK
  <2> QED
    BY <2>1, <1>7 DEF Phases, ReloadEnds
\* The queue that Stop closes may be the scheduler's, which has returned.
<1>8. CASE StopStopsPool
  <2>1. /\ jobsShut' = jobsShut \cup {appPool} /\ ~sched'
        /\ UNCHANGED <<reload, reloadOld, appPool, schedPool, made>>
    BY <1>8 DEF StopStopsPool, CloseJobs
  <2>2. \A p \in jobsShut' : p <= appPool'
    BY <2>1 DEF Phases, AppTypeOK
  <2> QED
    BY <2>1, <2>2 DEF Phases
<1>9. CASE Cancel \/ CloseRaw \/ AppStopEnds \/ QuitsRetrying \/ StagesReturn
  BY <1>9 DEF Phases, Cancel, CloseRaw, AppStopEnds, QuitsRetrying, StagesReturn
<1>10. CASE AppOver \/ UNCHANGED appVars
  BY <1>10 DEF Phases, AppOver, appVars
<1> QED
  BY <1>1, <1>2, <1>3, <1>4, <1>5, <1>6, <1>7, <1>8, <1>9, <1>10
     DEF AppNext, Reloading, Stopping

LEMMA AloneStep == ASSUME AppTypeOK, Phases, Alone, [AppNext]_appVars PROVE Alone'
<1> USE PoolsAreIntegers DEF poolVars, schedVars, reloadVars, appStopVars
<1>1. CASE Fire \/ SchedulerExit
  BY <1>1 DEF Alone, Fire, SchedulerExit
<1>2. ASSUME NEW p \in Pools, NEW w \in Workers, Worker(p, w) PROVE Alone'
  BY <1>2 DEF Alone, Worker, Take, PollEnds, WorkerReturns
<1>3. CASE Tick
  BY <1>3 DEF Alone, Tick
<1>4. CASE ReloaderExit \/ LoadFails
  BY <1>4 DEF Alone, ReloaderExit, LoadFails
<1>5. CASE StartNewPool \/ SetPool
  BY <1>5 DEF Alone, StartNewPool, SetPool
<1>6. CASE ReloadStopsOld
  BY <1>6 DEF Alone, ReloadStopsOld
<1>7. CASE ReloadEnds
  <2>1. made \notin jobsShut
    BY <1>7 DEF Phases, ReloadEnds, AppTypeOK
  <2> QED
    BY <2>1, <1>7 DEF Alone, ReloadEnds
<1>8. CASE Cancel
  BY <1>8 DEF Alone, Cancel
<1>9. CASE StopStopsPool
  BY <1>9 DEF Alone, StopStopsPool
<1>10. CASE CloseRaw \/ AppStopEnds \/ QuitsRetrying \/ StagesReturn
  BY <1>10 DEF Alone, CloseRaw, AppStopEnds, QuitsRetrying, StagesReturn
<1>11. CASE AppOver \/ UNCHANGED appVars
  BY <1>11 DEF Alone, AppOver, appVars
<1> QED
  BY <1>1, <1>2, <1>3, <1>4, <1>5, <1>6, <1>7, <1>8, <1>9, <1>10, <1>11
     DEF AppNext, Reloading, Stopping

\* A step that moves no worker, job or pool.
LEMMA MannedMove ==
    ASSUME Manned, worker' = worker, queue' = queue, jobsShut' = jobsShut,
           appPool' = appPool, made' = made, ctxDone => ctxDone'
    PROVE  Manned'
BY DEF Manned, NoWorkers

LEMMA MannedStep == ASSUME AppTypeOK, Phases, Manned, [AppNext]_appVars PROVE Manned'
<1> USE PoolsAreIntegers DEF poolVars, schedVars, reloadVars, appStopVars
\* A job goes to an open queue, and never to a pool that is replaced.
<1>1. CASE Fire
  <2>1. schedPool \notin jobsShut /\ schedPool >= appPool
    BY <1>1 DEF Fire, Phases, AppTypeOK
  <2>2. \A p \in Pools : p # schedPool => queue'[p] = queue[p]
    BY <1>1 DEF Fire, AppTypeOK
  <2> QED
    BY <2>1, <2>2, <1>1 DEF Manned, Fire, NoWorkers, AppTypeOK
<1>2. ASSUME NEW p \in Pools, NEW w \in Workers, Take(p, w) PROVE Manned'
  <2>1. /\ \A r \in Pools : NoWorkers(r)' <=> NoWorkers(r)
        /\ \A r \in Pools, v \in Workers : worker'[r][v] = "gone" <=> worker[r][v] = "gone"
    BY <1>2 DEF Take, NoWorkers, AppTypeOK
  <2>2. ~NoWorkers(p)
    BY <1>2 DEF Take, NoWorkers
  <2>3. \A r \in Pools : r # p => queue'[r] = queue[r]
    BY <1>2 DEF Take, AppTypeOK
  <2>4. UNCHANGED <<made, jobsShut, appPool, ctxDone>>
    BY <1>2 DEF Take
  <2>5. ~(p < appPool)
    BY <2>2 DEF Manned
  <2> QED
    BY <2>1, <2>2, <2>3, <2>4, <2>5 DEF Manned
<1>3. ASSUME NEW p \in Pools, NEW w \in Workers, PollEnds(p, w) PROVE Manned'
  <2>1. /\ \A r \in Pools : NoWorkers(r)' <=> NoWorkers(r)
        /\ \A r \in Pools, v \in Workers : worker'[r][v] = "gone" <=> worker[r][v] = "gone"
    BY <1>3 DEF PollEnds, NoWorkers, AppTypeOK
  <2>2. UNCHANGED <<made, queue, jobsShut, appPool, ctxDone>>
    BY <1>3 DEF PollEnds
  <2> QED
    BY <2>1, <2>2 DEF Manned
\* Before the context is done a worker leaves a closed and empty queue only.
<1>4. ASSUME NEW p \in Pools, NEW w \in Workers, WorkerReturns(p, w) PROVE Manned'
  <2>1. /\ \A r \in Pools : NoWorkers(r) => NoWorkers(r)'
        /\ \A r \in Pools : r # p => worker'[r] = worker[r]
    BY <1>4 DEF WorkerReturns, NoWorkers, AppTypeOK
  <2>2. UNCHANGED <<made, queue, jobsShut, appPool, ctxDone>>
    BY <1>4 DEF WorkerReturns
  <2>3. ~ctxDone => p \in jobsShut /\ queue[p] = 0
    BY <1>4 DEF WorkerReturns
  <2> QED
    BY <2>1, <2>2, <2>3 DEF Manned, NoWorkers
<1>5. CASE SchedulerExit \/ Tick \/ ReloaderExit \/ LoadFails \/ SetPool \/ Cancel
                         \/ CloseRaw \/ AppStopEnds \/ QuitsRetrying \/ StagesReturn
  BY <1>5, MannedMove
     DEF SchedulerExit, Tick, ReloaderExit, LoadFails, SetPool, Cancel, CloseRaw, AppStopEnds,
         QuitsRetrying, StagesReturn
<1>6. CASE StartNewPool
  <2>1. /\ \A r \in Pools : r # made + 1 => worker'[r] = worker[r]
        /\ made' = made + 1 /\ appPool = made
        /\ UNCHANGED <<queue, jobsShut, appPool, ctxDone>>
    BY <1>6 DEF StartNewPool, Phases, AppTypeOK
  <2>2. made + 1 \in Pools => \A v \in Workers : worker'[made + 1][v] = "idle"
    BY <1>6 DEF StartNewPool, AppTypeOK
  <2>3. made + 1 \notin jobsShut
    BY <2>1 DEF Phases, AppTypeOK
  <2>4. \A r \in Pools : r # made + 1 => (NoWorkers(r)' <=> NoWorkers(r))
    BY <2>1 DEF NoWorkers
  <2>5. \A r \in Pools : (r <= made + 1 <=> r <= made \/ r = made + 1)
                          /\ (r > made + 1 <=> r > made /\ r # made + 1)
    BY DEF AppTypeOK
  <2>6. ~(made + 1 < appPool)
    BY <2>1 DEF AppTypeOK
  <2>7. ASSUME NEW p \in Pools, p < appPool' \/ p > made' PROVE NoWorkers(p)'
    BY <2>1, <2>4, <2>5, <2>6, <2>7 DEF Manned
  <2>8. ASSUME ~ctxDone', NEW p \in Pools
        PROVE  /\ p <= made' /\ p \notin jobsShut' => \A w \in Workers : worker'[p][w] # "gone"
               /\ p \in jobsShut' /\ NoWorkers(p)' => queue'[p] = 0
               /\ p < appPool' => queue'[p] = 0
    <3>1. CASE p = made + 1
      BY <3>1, <2>1, <2>2, <2>3, <2>6
    <3>2. CASE p # made + 1
      <4>1. worker'[p] = worker[p] /\ (NoWorkers(p)' <=> NoWorkers(p)) /\ (p <= made' => p <= made)
        BY <3>2, <2>1, <2>4, <2>5
      <4> QED
        BY <4>1, <2>1, <2>8 DEF Manned
    <3> QED
      BY <3>1, <3>2
  <2> QED
    BY <2>7, <2>8 DEF Manned
\* The queue of a pool that had all its workers is closed.
<1>7. CASE ReloadStopsOld \/ StopStopsPool
  <2>1. /\ jobsShut' = jobsShut \cup {appPool}
        /\ UNCHANGED <<made, queue, worker, appPool, ctxDone>>
    BY <1>7 DEF ReloadStopsOld, StopStopsPool, CloseJobs
  <2>2. ~ctxDone /\ appPool \notin jobsShut => ~NoWorkers(appPool)
    <3>1. appPool <= made
      BY DEF Phases, AppTypeOK
    <3> QED
      BY <3>1, WorkersAssumption DEF Manned, NoWorkers, AppTypeOK
  <2>3. \A r \in Pools : NoWorkers(r)' <=> NoWorkers(r)
    BY <2>1 DEF NoWorkers
  <2> QED
    BY <2>1, <2>2, <2>3 DEF Manned
<1>8. CASE ReloadEnds
  <2>1. /\ NoWorkers(appPool) /\ appPool \in jobsShut
        /\ appPool' = appPool + 1 /\ made = appPool + 1
        /\ UNCHANGED <<made, queue, worker, jobsShut, ctxDone>>
    BY <1>8 DEF ReloadEnds, Phases
  <2>2. \A r \in Pools : NoWorkers(r)' <=> NoWorkers(r)
    BY <2>1 DEF NoWorkers
  <2>3. \A r \in Pools : r < appPool' => r < appPool \/ r = appPool
    BY <2>1 DEF AppTypeOK
  <2> QED
    BY <2>1, <2>2, <2>3 DEF Manned
<1>9. CASE AppOver \/ UNCHANGED appVars
  BY <1>9, MannedMove DEF AppOver, appVars
<1>10. CASE \E p \in Pools, w \in Workers : Worker(p, w)
  BY <1>10, <1>2, <1>3, <1>4 DEF Worker
<1> QED
  BY <1>1, <1>5, <1>6, <1>7, <1>8, <1>9, <1>10 DEF AppNext, Reloading, Stopping

LEMMA DrainedStep ==
    ASSUME AppTypeOK, Phases, Alone, Manned, DrainedAlone, [AppNext]_appVars
    PROVE  DrainedAlone'
<1> USE PoolsAreIntegers DEF poolVars, schedVars, reloadVars, appStopVars
<1>1. CASE Fire \/ SchedulerExit
  BY <1>1 DEF DrainedAlone, NoWorkers, Fire, SchedulerExit
<1>2. ASSUME NEW p \in Pools, NEW w \in Workers, Worker(p, w) PROVE DrainedAlone'
  <2>1. \A r \in Pools : NoWorkers(r) => NoWorkers(r)'
    BY <1>2 DEF Worker, Take, PollEnds, WorkerReturns, NoWorkers, AppTypeOK
  <2>2. UNCHANGED <<rawShut, overlapped>>
    BY <1>2 DEF Worker, Take, PollEnds, WorkerReturns
  <2> QED
    BY <2>1, <2>2 DEF DrainedAlone
<1>3. CASE Tick
  BY <1>3 DEF DrainedAlone, NoWorkers, Tick, Alone
<1>4. CASE ReloaderExit \/ LoadFails \/ SetPool \/ ReloadStopsOld \/ ReloadEnds
  BY <1>4 DEF DrainedAlone, NoWorkers, ReloaderExit, LoadFails, SetPool,
              ReloadStopsOld, ReloadEnds
\* A reload that starts a pool now would overlap with Stop.
<1>5. CASE StartNewPool
  BY <1>5 DEF DrainedAlone, StartNewPool, Alone
<1>6. CASE Cancel
  BY <1>6 DEF DrainedAlone, Cancel, Alone
<1>7. CASE StopStopsPool \/ AppStopEnds \/ QuitsRetrying \/ StagesReturn
  BY <1>7 DEF DrainedAlone, NoWorkers, StopStopsPool, AppStopEnds, QuitsRetrying, StagesReturn
\* Stop has waited for the workers of the only pool that had any.
<1>8. CASE CloseRaw
  <2>1. ASSUME ~overlapped, NEW p \in Pools PROVE NoWorkers(p)
    <3>1. appPool = made /\ NoWorkers(appPool)
      BY <1>8, <2>1 DEF CloseRaw, Alone, Phases
    <3>2. p = appPool \/ p < appPool \/ p > made
      BY <3>1 DEF AppTypeOK
    <3> QED
      BY <3>1, <3>2 DEF Manned
  <2> QED
    BY <2>1, <1>8 DEF DrainedAlone, NoWorkers, CloseRaw
<1>9. CASE AppOver \/ UNCHANGED appVars
  BY <1>9 DEF DrainedAlone, NoWorkers, AppOver, appVars
<1> QED
  BY <1>1, <1>2, <1>3, <1>4, <1>5, <1>6, <1>7, <1>8, <1>9 DEF AppNext, Reloading, Stopping

LEMMA NoPanicStep ==
    ASSUME AppTypeOK, Phases, Alone, DrainedAlone, NoPanicAlone, [AppNext]_appVars
    PROVE  NoPanicAlone'
<1> USE PoolsAreIntegers DEF poolVars, schedVars, reloadVars, appStopVars
\* The scheduler's queue is open.
<1>1. CASE Fire
  <2>1. schedPool \notin jobsShut
    BY <1>1 DEF Fire, Phases, AppTypeOK
  <2> QED
    BY <2>1, <1>1 DEF Fire, NoPanicAlone
<1>2. ASSUME NEW p \in Pools, NEW w \in Workers, Worker(p, w) PROVE NoPanicAlone'
  <2>1. CASE PollEnds(p, w)
    <3>1. rawShut => overlapped
      BY <2>1 DEF PollEnds, DrainedAlone, NoWorkers
    <3> QED
      BY <3>1, <2>1 DEF PollEnds, NoPanicAlone
  <2>2. CASE Take(p, w) \/ WorkerReturns(p, w)
    BY <2>2 DEF Take, WorkerReturns, NoPanicAlone
  <2> QED
    BY <1>2, <2>1, <2>2 DEF Worker
\* Reload closes a queue that nobody has closed.
<1>3. CASE ReloadStopsOld
  <2>1. ~overlapped => appPool \notin jobsShut
    BY <1>3 DEF ReloadStopsOld, Alone, AppTypeOK
  <2> QED
    BY <2>1, <1>3 DEF ReloadStopsOld, CloseJobs, NoPanicAlone
\* So does Stop.
<1>4. CASE StopStopsPool
  <2>1. ~overlapped => appPool \notin jobsShut
    BY <1>4 DEF StopStopsPool, Alone
  <2> QED
    BY <2>1, <1>4 DEF StopStopsPool, CloseJobs, NoPanicAlone
<1>5. CASE Tick
  BY <1>5 DEF Tick, Alone, NoPanicAlone
<1>6. CASE Cancel
  BY <1>6 DEF Cancel, Alone, NoPanicAlone
<1>7. CASE SchedulerExit \/ ReloaderExit \/ LoadFails \/ StartNewPool \/ SetPool
                         \/ ReloadEnds \/ CloseRaw \/ AppStopEnds \/ QuitsRetrying \/ StagesReturn
  BY <1>7 DEF NoPanicAlone, SchedulerExit, ReloaderExit, LoadFails, StartNewPool, SetPool,
              ReloadEnds, CloseRaw, AppStopEnds, QuitsRetrying, StagesReturn
<1>8. CASE AppOver \/ UNCHANGED appVars
  BY <1>8 DEF NoPanicAlone, AppOver, appVars
<1> QED
  BY <1>1, <1>2, <1>3, <1>4, <1>5, <1>6, <1>7, <1>8 DEF AppNext, Reloading, Stopping

LEMMA AppInitInv == AppInit => AppIInv
<1> SUFFICES ASSUME AppInit PROVE AppIInv
  OBVIOUS
<1> USE PoolsAreIntegers
<1>1. AppTypeOK
  <2>1. 0 \in Pools /\ 0 \in 0..QueueSize
    BY ReloadsAssumption, QueueAssumption DEF Pools
  <2>2. /\ queue \in [Pools -> 0..QueueSize]
        /\ worker \in [Pools -> [Workers -> {"idle", "polling", "gone"}]]
    BY <2>1 DEF AppInit
  <2> QED
    BY <2>1, <2>2 DEF AppInit, AppTypeOK
<1>2. Phases /\ Alone /\ NoPanicAlone /\ DrainedAlone
  BY DEF AppInit, Phases, Alone, NoPanicAlone, DrainedAlone
<1>3. Manned
  BY DEF AppInit, Manned, NoWorkers
<1> QED
  BY <1>1, <1>2, <1>3 DEF AppIInv

\* The invariant holds in every state: induction on the steps of Spec.
THEOREM AppInvariance == AppSpec => []AppIInv
<1>1. AppIInv /\ [AppNext]_appVars => AppIInv'
  BY AppTypeStep, PhasesStep, AloneStep, MannedStep, DrainedStep, NoPanicStep DEF AppIInv
<1> QED
  BY AppInitInv, <1>1, PTL DEF AppSpec

\* Every variable keeps its type, and no queue holds more than its size.
THEOREM AppTyping == AppSpec => []AppTypeOK
BY AppInvariance, PTL DEF AppIInv

\* The scheduler never submits to a closed job queue, also when Stop and Reload
\* run together.
THEOREM SchedulerAlwaysHasLiveQueue == AppSpec => []SchedulerHasLiveQueue
<1>1. AppIInv => SchedulerHasLiveQueue
  BY PoolsAreIntegers DEF AppIInv, Phases, AppTypeOK, SchedulerHasLiveQueue
<1> QED
  BY AppInvariance, <1>1, PTL

\* No sequence of reloads followed by a Stop makes a goroutine close a closed
\* channel or send on one, unless a reload and the Stop overlap.
THEOREM NeverPanicsAlone == AppSpec => []NoPanicAlone
BY AppInvariance, PTL DEF AppIInv

\* When Stop closes rawCh no worker of any pool is left, unless a reload overlaps.
THEOREM AlwaysDrainedAlone == AppSpec => []DrainedAlone
BY AppInvariance, PTL DEF AppIInv

\* A pool that Reload has replaced has polled all its jobs, unless the context is
\* done.
THEOREM RetiredPoolsAlwaysEmpty == AppSpec => []RetiredPoolsEmpty
<1>1. AppIInv => RetiredPoolsEmpty
  BY DEF AppIInv, Manned, RetiredPoolsEmpty
<1> QED
  BY AppInvariance, <1>1, PTL

-----------------------------------------------------------------------------
(* Who polls. *)

USE NodesAssumption, ThresholdAssumption, BoundsAssumption

-----------------------------------------------------------------------------
(* The inductive invariant. What the three properties say of the pipelines   *)
(* holds only because of where the callbacks, stopOnce and the calls are, so  *)
(* the parts below follow these through every step.                           *)

\* Nothing of a process survives it.
DownIsEmpty ==
    /\ \A n \in Nodes : ~up[n] => leave[n] = "no" /\ state[n] = "none" /\ pipes[n] = 0
    /\ ~up[Primary] => claim = "down"
    /\ ~up[Standby] => probe = "down" /\ once = "unused" /\ ~raced /\ ~Demoting

\* runPrimary: the pipeline is started last, and only once.
PrimaryInOrder ==
    /\ up[Primary] => boots[Primary] \in Calls
    /\ up[Primary] => (claim = "down" <=> leave[Primary] \notin {"no", "asked"})
    /\ claim \in {"demoting", "claiming"} => state[Primary] = "none"
    /\ claim \in {"demoting", "claiming", "starting"} => pipes[Primary] = 0
    /\ claim \in {"starting", "active"} => state[Primary] = "active"
    /\ claim = "active" /\ "unstarted" \notin why => pipes[Primary] = 1
    /\ pipes[Primary] \in 0..1

\* Where the calls, stopOnce and the Standby's loop can be, whatever has happened.
StandbyInOrder ==
    /\ \A c \in Calls : c > boots[Primary] => call[c] = "none"
    /\ once = "stopping" => Demoting
    /\ once = "leaving" => leave[Standby] = "stopping"
    /\ leave[Standby] \notin {"no", "asked"} => probe = "down"
    /\ probe = "probing" /\ snap = "standby" => state[Standby] # "active"
    /\ probe \in {"booting", "promoting"} => state[Standby] # "active"
    /\ raced => "race" \in why

\* No demotion was skipped and no callback ran beside another.
Orderly == why \cap {"skipped", "race"} = {}

\* Then the Standby has a pipeline only while it is Active or a handler is about
\* to stop it, and never while App.Start runs.
PipelineHasOwner ==
    Orderly =>
        /\ pipes[Standby] \in 0..1
        /\ pipes[Standby] > 0 => state[Standby] = "active" \/ Demoting
        /\ Demoting => state[Standby] # "active"
        /\ \A c, d \in Calls : call[c] = "stopping" /\ call[d] = "stopping" => c = d
        /\ probe = "starting" => /\ pipes[Standby] = 0
                                 /\ state[Standby] = "active" \/ Demoting
                                 /\ once # "stopping"
        /\ \/ "unstarted" \in why \/ state[Standby] # "active" \/ probe = "starting"
           \/ leave[Standby] \notin {"no", "asked"}
           \/ pipes[Standby] = 1

\* The Standby polls nothing and is not about to.
Quiet == state[Standby] # "active" /\ ~Demoting /\ probe # "starting"

\* The Standby has not dealt with the latest /demote.
Pending == call[boots[Primary]] \in {"sent", "stopping"}

\* Once the Primary has its answer, or can have none, the Standby is quiet.
AnswerIsKept ==
    up[Primary] =>
        /\ claim # "demoting" /\ "timeout" \notin why => ~Pending
        /\ ~Pending /\ why \cap {"timeout", "alarm", "skipped", "concurrent", "race"} = {}
               => Quiet

IInv ==
    /\ TypeOK
    /\ DownIsEmpty
    /\ PrimaryInOrder
    /\ StandbyInOrder
    /\ PipelineHasOwner
    /\ AnswerIsKept

-----------------------------------------------------------------------------
LEMMA TwoNodes == Primary \in Nodes /\ Standby \in Nodes /\ \A n \in Nodes : n = Primary \/ n = Standby
BY DEF Nodes

\* App.Start adds one pipeline to its node, or none and says why.
LEMMA Starts ==
    ASSUME TypeOK, NEW n \in Nodes, AppStarts(n)
    PROVE  /\ pipes' \in [Nodes -> Nat]
           /\ \A m \in Nodes : m # n => pipes'[m] = pipes[m]
           /\ \/ pipes'[n] = pipes[n] + 1 /\ why' = why
              \/ pipes'[n] = pipes[n] /\ why' = why \cup {"unstarted"}
<1>1. CASE pipes' = [pipes EXCEPT ![n] = @ + 1] /\ UNCHANGED why
  <2>1. pipes[n] + 1 \in Nat
    BY DEF TypeOK
  <2> QED BY <1>1, <2>1 DEF TypeOK
<1>2. CASE why' = why \cup {"unstarted"} /\ UNCHANGED pipes
  BY <1>2 DEF TypeOK
<1> QED BY <1>1, <1>2 DEF AppStarts

\* App.Stop takes one pipeline from its node, if it finds one.
LEMMA Stops ==
    ASSUME TypeOK, NEW n \in Nodes, AppStops(n)
    PROVE  /\ pipes' \in [Nodes -> Nat]
           /\ \A m \in Nodes : m # n => pipes'[m] = pipes[m]
           /\ \/ pipes[n] > 0 /\ pipes'[n] = pipes[n] - 1
              \/ pipes[n] = 0 /\ pipes'[n] = 0
              \/ n = Standby /\ raced /\ pipes'[n] = pipes[n]
<1>1. CASE pipes[n] > 0 /\ pipes' = [pipes EXCEPT ![n] = @ - 1]
  <2>1. pipes[n] - 1 \in Nat
    BY <1>1 DEF TypeOK
  <2> QED BY <1>1, <2>1 DEF TypeOK
<1>2. CASE ((n = Standby /\ raced) \/ pipes[n] = 0) /\ UNCHANGED pipes
  BY <1>2 DEF TypeOK
<1> QED BY <1>1, <1>2 DEF AppStops

\* Every step keeps the variables in their ranges.
LEMMA TypeStep ==
    ASSUME TypeOK, PrimaryInOrder, [Next]_vars
    PROVE  TypeOK'
<1> USE TwoNodes DEF stopVars, probeVars
<1>1. CASE BootPrimary
  <2>1. boots' \in [Nodes -> 0..MaxBoots]
    BY <1>1 DEF BootPrimary, TypeOK
  <2>2. call' \in [Calls -> {"none", "sent", "stopping", "yielded", "broken", "over"}]
    BY <1>1 DEF BootPrimary, TypeOK
  <2> QED BY <1>1, <2>1, <2>2 DEF BootPrimary, TypeOK
<1>2. CASE BootStandby
  <2>1. boots' \in [Nodes -> 0..MaxBoots]
    BY <1>2 DEF BootStandby, TypeOK
  <2> QED BY <1>2, <2>1 DEF BootStandby, TypeOK
<1>3. CASE ExitPrimary
  BY <1>3 DEF ExitPrimary, Undelivered, Awaited, TypeOK, Calls, Reasons
<1>4. CASE ExitStandby
  <2>1. call' \in [Calls -> {"none", "sent", "stopping", "yielded", "broken", "over"}]
    BY <1>4 DEF ExitStandby, TypeOK
  <2>2. /\ up' \in [Nodes -> BOOLEAN] /\ pipes' \in [Nodes -> Nat]
        /\ leave' \in [Nodes -> {"no", "asked", "stopping", "stopped", "stuck"}]
        /\ state' \in [Nodes -> {"none", "active", "standby"}]
    BY <1>4 DEF ExitStandby, TypeOK
  <2>3. fails' \in 0..(Threshold - 1)
    BY <1>4 DEF ExitStandby
  <2> QED BY <1>4, <2>1, <2>2, <2>3 DEF ExitStandby, TypeOK
<1>5. CASE DemoteReturns
  BY <1>5 DEF DemoteReturns, TypeOK, Calls, Reasons
<1>6. CASE DemoteTimesOut
  BY <1>6 DEF DemoteTimesOut, Undelivered, Awaited, TypeOK, Calls, Reasons
<1>7. CASE Claim
  BY <1>7 DEF Claim, TypeOK, Calls, Reasons
<1>8. CASE ClaimEnds
  <2>1. pipes' \in [Nodes -> Nat]
    BY <1>8, Starts DEF ClaimEnds
  <2>2. why' \subseteq Reasons
    BY <1>8 DEF ClaimEnds, AppStarts, TypeOK, Reasons
  <2> QED BY <1>8, <2>1, <2>2 DEF ClaimEnds, TypeOK
<1>9. ASSUME NEW c \in Calls, DemoteArrives(c) PROVE TypeOK'
  BY <1>9 DEF DemoteArrives, TypeOK, Calls, Reasons
<1>10. ASSUME NEW c \in Calls, StopBegins(c) PROVE TypeOK'
  BY <1>10 DEF StopBegins, TypeOK, Calls, Reasons
<1>11. ASSUME NEW c \in Calls, StopEnds(c) PROVE TypeOK'
  <2>1. pipes' \in [Nodes -> Nat]
    BY <1>11, Stops DEF StopEnds
  <2> QED BY <1>11, <2>1 DEF StopEnds, TypeOK
<1>12. ASSUME NEW c \in Calls, StopSkipped(c) PROVE TypeOK'
  BY <1>12 DEF StopSkipped, TypeOK, Calls, Reasons
<1>13. CASE StopSticks
  BY <1>13 DEF StopSticks, TypeOK, Calls, Reasons
<1>14. CASE StandbyBegins
  BY <1>14 DEF StandbyBegins, TypeOK, Calls, Reasons
<1>15. CASE ProbeBegins
  BY <1>15 DEF ProbeBegins, TypeOK, Calls, Reasons
<1>16. CASE ProbeAnswered
  <2>1. fails' \in 0..(Threshold - 1)
    BY <1>16 DEF ProbeAnswered
  <2> QED BY <1>16, <2>1 DEF ProbeAnswered, TypeOK
<1>17. CASE ProbeFails
  <2>1. fails' \in 0..(Threshold - 1)
    BY <1>17 DEF ProbeFails, TypeOK
  <2>2. faults' \in 0..MaxFaults
    BY <1>17 DEF ProbeFails, TypeOK
  <2>3. probe' \in {"promoting", "idle"}
    BY <1>17 DEF ProbeFails
  <2> QED BY <1>17, <2>1, <2>2, <2>3 DEF ProbeFails, TypeOK
<1>18. CASE Promote
  BY <1>18 DEF Promote, TypeOK, Calls, Reasons
<1>19. CASE PromoteEnds
  <2>1. pipes' \in [Nodes -> Nat]
    BY <1>19, Starts DEF PromoteEnds
  <2>2. why' \subseteq Reasons
    BY <1>19 DEF PromoteEnds, AppStarts, TypeOK, Reasons
  <2> QED BY <1>19, <2>1, <2>2 DEF PromoteEnds, TypeOK
<1>20. ASSUME NEW n \in Nodes, Signal(n) PROVE TypeOK'
  <2>1. signals' \in 0..MaxSignals
    BY <1>20 DEF Signal, TypeOK
  <2> QED BY <1>20, <2>1 DEF Signal, TypeOK
<1>21. ASSUME NEW n \in Nodes, ManagerStops(n) PROVE TypeOK'
  BY <1>21 DEF ManagerStops, TypeOK, Calls, Reasons
<1>22. CASE LeavePrimary
  <2>1. pipes' \in [Nodes -> Nat]
    BY <1>22 DEF LeavePrimary, AppStops, TypeOK
  <2>2. why' \subseteq Reasons
    BY <1>22 DEF LeavePrimary, AppStops, TypeOK, Reasons
  <2> QED BY <1>22, <2>1, <2>2 DEF LeavePrimary, TypeOK
<1>23. CASE LeaveStandby
  <2>1. pipes' \in [Nodes -> Nat]
    BY <1>23 DEF LeaveStandby, AppStops, TypeOK
  <2>2. why' \subseteq Reasons
    BY <1>23 DEF LeaveStandby, AppStops, TypeOK, Reasons
  <2>3. /\ once' \in {"unused", "stopping", "leaving", "stuck", "used"}
        /\ leave' \in [Nodes -> {"no", "asked", "stopping", "stopped", "stuck"}]
    BY <1>23 DEF LeaveStandby, TypeOK
  <2> QED BY <1>23, <2>1, <2>2, <2>3 DEF LeaveStandby, TypeOK
<1>24. CASE Over \/ UNCHANGED vars
  BY <1>24 DEF Over, vars, TypeOK, Calls, Reasons
<1> QED
  BY <1>1, <1>2, <1>3, <1>4, <1>5, <1>6, <1>7, <1>8, <1>9, <1>10, <1>11, <1>12, <1>13, <1>14, <1>15, <1>16, <1>17, <1>18, <1>19, <1>20, <1>21, <1>22, <1>23, <1>24
     DEF Next, RunPrimary, RunStandby, Handle, Leave

\* What ends with a process has ended.
LEMMA DownStep ==
    ASSUME TypeOK, DownIsEmpty, StandbyInOrder, [Next]_vars
    PROVE  DownIsEmpty'
<1> USE TwoNodes DEF stopVars, probeVars
<1>1. CASE BootPrimary
  BY <1>1 DEF BootPrimary, TypeOK, DownIsEmpty, StandbyInOrder, Demoting
<1>2. CASE BootStandby
  BY <1>2 DEF BootStandby, TypeOK, DownIsEmpty, StandbyInOrder, Demoting
<1>3. CASE ExitPrimary
  BY <1>3 DEF ExitPrimary, Undelivered, Awaited, TypeOK, DownIsEmpty, StandbyInOrder, Demoting
<1>4. CASE ExitStandby
  BY <1>4 DEF ExitStandby, Awaited, TypeOK, DownIsEmpty, StandbyInOrder, Demoting
<1>5. CASE DemoteReturns
  BY <1>5 DEF DemoteReturns, TypeOK, DownIsEmpty, StandbyInOrder, Demoting
<1>6. CASE DemoteTimesOut
  BY <1>6 DEF DemoteTimesOut, Undelivered, Awaited, TypeOK, DownIsEmpty, StandbyInOrder, Demoting
<1>7. CASE Claim
  BY <1>7 DEF Claim, TypeOK, DownIsEmpty, StandbyInOrder, Demoting
<1>8. CASE ClaimEnds
  BY <1>8 DEF ClaimEnds, AppStarts, TypeOK, DownIsEmpty, StandbyInOrder, Demoting
<1>9. ASSUME NEW c \in Calls, DemoteArrives(c) PROVE DownIsEmpty'
  BY <1>9 DEF DemoteArrives, TypeOK, DownIsEmpty, StandbyInOrder, Demoting
<1>10. ASSUME NEW c \in Calls, StopBegins(c) PROVE DownIsEmpty'
  BY <1>10 DEF StopBegins, TypeOK, DownIsEmpty, StandbyInOrder, Demoting
<1>11. ASSUME NEW c \in Calls, StopEnds(c) PROVE DownIsEmpty'
  BY <1>11 DEF StopEnds, AppStops, TypeOK, DownIsEmpty, StandbyInOrder, Demoting
<1>12. ASSUME NEW c \in Calls, StopSkipped(c) PROVE DownIsEmpty'
  BY <1>12 DEF StopSkipped, TypeOK, DownIsEmpty, StandbyInOrder, Demoting
<1>13. CASE StopSticks
  BY <1>13 DEF StopSticks, TypeOK, DownIsEmpty, StandbyInOrder, Demoting
<1>14. CASE StandbyBegins
  BY <1>14 DEF StandbyBegins, TypeOK, DownIsEmpty, StandbyInOrder, Demoting
<1>15. CASE ProbeBegins
  BY <1>15 DEF ProbeBegins, TypeOK, DownIsEmpty, StandbyInOrder, Demoting
<1>16. CASE ProbeAnswered
  BY <1>16 DEF ProbeAnswered, TypeOK, DownIsEmpty, StandbyInOrder, Demoting
<1>17. CASE ProbeFails
  BY <1>17 DEF ProbeFails, TypeOK, DownIsEmpty, StandbyInOrder, Demoting
<1>18. CASE Promote
  BY <1>18 DEF Promote, TypeOK, DownIsEmpty, StandbyInOrder, Demoting
<1>19. CASE PromoteEnds
  BY <1>19 DEF PromoteEnds, AppStarts, TypeOK, DownIsEmpty, StandbyInOrder, Demoting
<1>20. ASSUME NEW n \in Nodes, Signal(n) PROVE DownIsEmpty'
  BY <1>20 DEF Signal, TypeOK, DownIsEmpty, StandbyInOrder, Demoting
<1>21. ASSUME NEW n \in Nodes, ManagerStops(n) PROVE DownIsEmpty'
  BY <1>21 DEF ManagerStops, TypeOK, DownIsEmpty, StandbyInOrder, Demoting
<1>22. CASE LeavePrimary
  BY <1>22 DEF LeavePrimary, AppStops, TypeOK, DownIsEmpty, StandbyInOrder, Demoting
<1>23. CASE LeaveStandby
  BY <1>23 DEF LeaveStandby, AppStops, TypeOK, DownIsEmpty, StandbyInOrder, Demoting
<1>24. CASE Over \/ UNCHANGED vars
  BY <1>24 DEF Over, vars, TypeOK, DownIsEmpty, StandbyInOrder, Demoting
<1> QED
  BY <1>1, <1>2, <1>3, <1>4, <1>5, <1>6, <1>7, <1>8, <1>9, <1>10, <1>11, <1>12, <1>13, <1>14, <1>15, <1>16, <1>17, <1>18, <1>19, <1>20, <1>21, <1>22, <1>23, <1>24
     DEF Next, RunPrimary, RunStandby, Handle, Leave

\* runPrimary goes on in its order.
LEMMA PrimaryStep ==
    ASSUME TypeOK, DownIsEmpty, PrimaryInOrder, [Next]_vars
    PROVE  PrimaryInOrder'
<1> USE TwoNodes DEF stopVars, probeVars
<1>1. CASE BootPrimary
  BY <1>1 DEF BootPrimary, TypeOK, DownIsEmpty, PrimaryInOrder, Calls
<1>2. CASE BootStandby
  BY <1>2 DEF BootStandby, TypeOK, DownIsEmpty, PrimaryInOrder, Calls
<1>3. CASE ExitPrimary
  <2>1. ~up'[Primary] /\ claim' = "down" /\ pipes'[Primary] = 0
    BY <1>3 DEF ExitPrimary, TypeOK
  <2>2. /\ claim' \notin {"demoting", "claiming", "starting", "active"}
        /\ pipes'[Primary] \in 0..1
    BY <2>1
  <2> QED BY <2>1, <2>2 DEF PrimaryInOrder
<1>4. CASE ExitStandby
  BY <1>4 DEF ExitStandby, Awaited, TypeOK, DownIsEmpty, PrimaryInOrder, Calls
<1>5. CASE DemoteReturns
  BY <1>5 DEF DemoteReturns, TypeOK, DownIsEmpty, PrimaryInOrder, Calls
<1>6. CASE DemoteTimesOut
  BY <1>6 DEF DemoteTimesOut, Undelivered, Awaited, TypeOK, DownIsEmpty, PrimaryInOrder, Calls
<1>7. CASE Claim
  BY <1>7 DEF Claim, TypeOK, DownIsEmpty, PrimaryInOrder, Calls
<1>8. CASE ClaimEnds
  <2>1. /\ claim = "starting" /\ claim' = "active" /\ pipes[Primary] = 0
        /\ UNCHANGED <<up, boots, leave, state>>
    BY <1>8 DEF ClaimEnds, PrimaryInOrder
  <2>2. pipes'[Primary] = 1 \/ (pipes'[Primary] = 0 /\ "unstarted" \in why')
    <3>1. AppStarts(Primary)
      BY <1>8 DEF ClaimEnds
    <3>2. \/ pipes'[Primary] = pipes[Primary] + 1
          \/ pipes'[Primary] = pipes[Primary] /\ why' = why \cup {"unstarted"}
      BY <3>1, Starts
    <3> QED BY <2>1, <3>2
  <2>3. state'[Primary] = "active"
    BY <2>1 DEF PrimaryInOrder
  <2>4. /\ up'[Primary] => boots'[Primary] \in Calls
        /\ up'[Primary] => (claim' = "down" <=> leave'[Primary] \notin {"no", "asked"})
    BY <2>1 DEF PrimaryInOrder
  <2>5. pipes'[Primary] \in 0..1
    BY <2>2
  <2> QED BY <2>1, <2>2, <2>3, <2>4, <2>5 DEF PrimaryInOrder
<1>9. ASSUME NEW c \in Calls, DemoteArrives(c) PROVE PrimaryInOrder'
  BY <1>9 DEF DemoteArrives, TypeOK, DownIsEmpty, PrimaryInOrder, Calls
<1>10. ASSUME NEW c \in Calls, StopBegins(c) PROVE PrimaryInOrder'
  BY <1>10 DEF StopBegins, TypeOK, DownIsEmpty, PrimaryInOrder, Calls
<1>11. ASSUME NEW c \in Calls, StopEnds(c) PROVE PrimaryInOrder'
  BY <1>11 DEF StopEnds, AppStops, TypeOK, DownIsEmpty, PrimaryInOrder, Calls
<1>12. ASSUME NEW c \in Calls, StopSkipped(c) PROVE PrimaryInOrder'
  BY <1>12 DEF StopSkipped, TypeOK, DownIsEmpty, PrimaryInOrder, Calls
<1>13. CASE StopSticks
  BY <1>13 DEF StopSticks, TypeOK, DownIsEmpty, PrimaryInOrder, Calls
<1>14. CASE StandbyBegins
  BY <1>14 DEF StandbyBegins, TypeOK, DownIsEmpty, PrimaryInOrder, Calls
<1>15. CASE ProbeBegins
  BY <1>15 DEF ProbeBegins, TypeOK, DownIsEmpty, PrimaryInOrder, Calls
<1>16. CASE ProbeAnswered
  BY <1>16 DEF ProbeAnswered, TypeOK, DownIsEmpty, PrimaryInOrder, Calls
<1>17. CASE ProbeFails
  BY <1>17 DEF ProbeFails, TypeOK, DownIsEmpty, PrimaryInOrder, Calls
<1>18. CASE Promote
  BY <1>18 DEF Promote, TypeOK, DownIsEmpty, PrimaryInOrder, Calls
<1>19. CASE PromoteEnds
  BY <1>19, Starts DEF PromoteEnds, PrimaryInOrder
<1>20. ASSUME NEW n \in Nodes, Signal(n) PROVE PrimaryInOrder'
  BY <1>20 DEF Signal, TypeOK, DownIsEmpty, PrimaryInOrder, Calls
<1>21. ASSUME NEW n \in Nodes, ManagerStops(n) PROVE PrimaryInOrder'
  BY <1>21 DEF ManagerStops, TypeOK, DownIsEmpty, PrimaryInOrder, Calls
<1>22. CASE LeavePrimary
  <2>1. /\ leave[Primary] = "stopping" /\ leave'[Primary] \notin {"no", "asked"}
        /\ UNCHANGED <<up, boots, state, claim>>
    BY <1>22 DEF LeavePrimary, TypeOK
  <2>2. pipes'[Primary] \in 0..1
    <3>1. pipes[Primary] \in 0..1
      BY DEF PrimaryInOrder
    <3>2. CASE AppStops(Primary)
      BY <3>1, <3>2, Stops
    <3> QED BY <1>22, <3>1, <3>2 DEF LeavePrimary
  <2>3. up[Primary] /\ claim = "down"
    BY <2>1 DEF DownIsEmpty, PrimaryInOrder
  <2> QED BY <2>1, <2>2, <2>3 DEF PrimaryInOrder
<1>23. CASE LeaveStandby
  BY <1>23 DEF LeaveStandby, AppStops, TypeOK, DownIsEmpty, PrimaryInOrder, Calls
<1>24. CASE Over \/ UNCHANGED vars
  BY <1>24 DEF Over, vars, TypeOK, DownIsEmpty, PrimaryInOrder, Calls
<1> QED
  BY <1>1, <1>2, <1>3, <1>4, <1>5, <1>6, <1>7, <1>8, <1>9, <1>10, <1>11, <1>12, <1>13, <1>14, <1>15, <1>16, <1>17, <1>18, <1>19, <1>20, <1>21, <1>22, <1>23, <1>24
     DEF Next, RunPrimary, RunStandby, Handle, Leave

\* The Standby's handlers and loop go on in theirs.
LEMMA StandbyStep ==
    ASSUME TypeOK, DownIsEmpty, PrimaryInOrder, StandbyInOrder, [Next]_vars
    PROVE  StandbyInOrder'
<1> USE TwoNodes DEF stopVars, probeVars
<1>1. CASE BootPrimary
  BY <1>1 DEF BootPrimary, TypeOK, DownIsEmpty, PrimaryInOrder, StandbyInOrder, Demoting, Calls
<1>2. CASE BootStandby
  BY <1>2 DEF BootStandby, TypeOK, DownIsEmpty, PrimaryInOrder, StandbyInOrder, Demoting, Calls
<1>3. CASE ExitPrimary
  BY <1>3 DEF ExitPrimary, Undelivered, Awaited, TypeOK, DownIsEmpty, PrimaryInOrder, StandbyInOrder, Demoting, Calls
<1>4. CASE ExitStandby
  BY <1>4 DEF ExitStandby, Awaited, TypeOK, DownIsEmpty, PrimaryInOrder, StandbyInOrder, Demoting, Calls
<1>5. CASE DemoteReturns
  BY <1>5 DEF DemoteReturns, TypeOK, DownIsEmpty, PrimaryInOrder, StandbyInOrder, Demoting, Calls
<1>6. CASE DemoteTimesOut
  BY <1>6 DEF DemoteTimesOut, Undelivered, Awaited, TypeOK, DownIsEmpty, PrimaryInOrder, StandbyInOrder, Demoting, Calls
<1>7. CASE Claim
  BY <1>7 DEF Claim, TypeOK, DownIsEmpty, PrimaryInOrder, StandbyInOrder, Demoting, Calls
<1>8. CASE ClaimEnds
  BY <1>8 DEF ClaimEnds, AppStarts, TypeOK, DownIsEmpty, PrimaryInOrder, StandbyInOrder, Demoting, Calls
<1>9. ASSUME NEW c \in Calls, DemoteArrives(c) PROVE StandbyInOrder'
  BY <1>9 DEF DemoteArrives, TypeOK, DownIsEmpty, PrimaryInOrder, StandbyInOrder, Demoting, Calls
<1>10. ASSUME NEW c \in Calls, StopBegins(c) PROVE StandbyInOrder'
  BY <1>10 DEF StopBegins, TypeOK, DownIsEmpty, PrimaryInOrder, StandbyInOrder, Demoting, Calls
<1>11. ASSUME NEW c \in Calls, StopEnds(c) PROVE StandbyInOrder'
  BY <1>11 DEF StopEnds, AppStops, TypeOK, DownIsEmpty, PrimaryInOrder, StandbyInOrder, Demoting, Calls
<1>12. ASSUME NEW c \in Calls, StopSkipped(c) PROVE StandbyInOrder'
  BY <1>12 DEF StopSkipped, TypeOK, DownIsEmpty, PrimaryInOrder, StandbyInOrder, Demoting, Calls
<1>13. CASE StopSticks
  BY <1>13 DEF StopSticks, TypeOK, DownIsEmpty, PrimaryInOrder, StandbyInOrder, Demoting, Calls
<1>14. CASE StandbyBegins
  BY <1>14 DEF StandbyBegins, TypeOK, DownIsEmpty, PrimaryInOrder, StandbyInOrder, Demoting, Calls
<1>15. CASE ProbeBegins
  BY <1>15 DEF ProbeBegins, TypeOK, DownIsEmpty, PrimaryInOrder, StandbyInOrder, Demoting, Calls
<1>16. CASE ProbeAnswered
  BY <1>16 DEF ProbeAnswered, TypeOK, DownIsEmpty, PrimaryInOrder, StandbyInOrder, Demoting, Calls
<1>17. CASE ProbeFails
  BY <1>17 DEF ProbeFails, TypeOK, DownIsEmpty, PrimaryInOrder, StandbyInOrder, Demoting, Calls
<1>18. CASE Promote
  BY <1>18 DEF Promote, TypeOK, DownIsEmpty, PrimaryInOrder, StandbyInOrder, Demoting, Calls
<1>19. CASE PromoteEnds
  BY <1>19 DEF PromoteEnds, AppStarts, TypeOK, DownIsEmpty, PrimaryInOrder, StandbyInOrder, Demoting, Calls
<1>20. ASSUME NEW n \in Nodes, Signal(n) PROVE StandbyInOrder'
  BY <1>20 DEF Signal, TypeOK, DownIsEmpty, PrimaryInOrder, StandbyInOrder, Demoting, Calls
<1>21. ASSUME NEW n \in Nodes, ManagerStops(n) PROVE StandbyInOrder'
  BY <1>21 DEF ManagerStops, TypeOK, DownIsEmpty, PrimaryInOrder, StandbyInOrder, Demoting, Calls
<1>22. CASE LeavePrimary
  BY <1>22 DEF LeavePrimary, AppStops, TypeOK, DownIsEmpty, PrimaryInOrder, StandbyInOrder, Demoting, Calls
<1>23. CASE LeaveStandby
  BY <1>23 DEF LeaveStandby, AppStops, TypeOK, DownIsEmpty, PrimaryInOrder, StandbyInOrder, Demoting, Calls
<1>24. CASE Over \/ UNCHANGED vars
  BY <1>24 DEF Over, vars, StandbyInOrder, Demoting
<1> QED
  BY <1>1, <1>2, <1>3, <1>4, <1>5, <1>6, <1>7, <1>8, <1>9, <1>10, <1>11, <1>12, <1>13, <1>14, <1>15, <1>16, <1>17, <1>18, <1>19, <1>20, <1>21, <1>22, <1>23, <1>24
     DEF Next, RunPrimary, RunStandby, Handle, Leave

\* No step leaves a pipeline without an owner.
LEMMA OwnerStep ==
    ASSUME TypeOK, DownIsEmpty, StandbyInOrder, PipelineHasOwner, [Next]_vars
    PROVE  PipelineHasOwner'
<1> USE TwoNodes DEF stopVars, probeVars
<1>1. CASE BootPrimary
  <2>1. Demoting' <=> Demoting
    BY <1>1 DEF BootPrimary, TypeOK, StandbyInOrder, Demoting, Calls
  <2>2. /\ \A c \in Calls : call'[c] = "stopping" => call[c] = "stopping"
        /\ UNCHANGED <<pipes, probe, once, why>>
        /\ UNCHANGED <<leave, state>>
    BY <1>1 DEF BootPrimary, TypeOK
  <2> QED BY <2>1, <2>2 DEF PipelineHasOwner, Orderly
<1>2. CASE BootStandby
  BY <1>2 DEF BootStandby, TypeOK, DownIsEmpty, StandbyInOrder, PipelineHasOwner, Orderly, Demoting
<1>3. CASE ExitPrimary
  BY <1>3 DEF ExitPrimary, Undelivered, Awaited, TypeOK, DownIsEmpty, StandbyInOrder, PipelineHasOwner, Orderly, Demoting
<1>4. CASE ExitStandby
  <2>1. ~Demoting'
    BY <1>4 DEF ExitStandby, TypeOK, Demoting
  <2>2. pipes'[Standby] = 0 /\ state'[Standby] = "none" /\ probe' = "down"
    BY <1>4 DEF ExitStandby, TypeOK
  <2> QED BY <2>1, <2>2 DEF PipelineHasOwner, Demoting
<1>5. CASE DemoteReturns
  BY <1>5 DEF DemoteReturns, TypeOK, DownIsEmpty, StandbyInOrder, PipelineHasOwner, Orderly, Demoting
<1>6. CASE DemoteTimesOut
  BY <1>6 DEF DemoteTimesOut, Undelivered, Awaited, TypeOK, DownIsEmpty, StandbyInOrder, PipelineHasOwner, Orderly, Demoting
<1>7. CASE Claim
  BY <1>7 DEF Claim, TypeOK, DownIsEmpty, StandbyInOrder, PipelineHasOwner, Orderly, Demoting
<1>8. CASE ClaimEnds
  BY <1>8 DEF ClaimEnds, AppStarts, TypeOK, DownIsEmpty, StandbyInOrder, PipelineHasOwner, Orderly, Demoting
<1>9. ASSUME NEW c \in Calls, DemoteArrives(c) PROVE PipelineHasOwner'
  BY <1>9 DEF DemoteArrives, TypeOK, DownIsEmpty, StandbyInOrder, PipelineHasOwner, Orderly, Demoting
<1>10. ASSUME NEW c \in Calls, StopBegins(c) PROVE PipelineHasOwner'
  BY <1>10 DEF StopBegins, TypeOK, DownIsEmpty, StandbyInOrder, PipelineHasOwner, Orderly, Demoting
<1>11. ASSUME NEW c \in Calls, StopEnds(c) PROVE PipelineHasOwner'
  BY <1>11 DEF StopEnds, AppStops, TypeOK, DownIsEmpty, StandbyInOrder, PipelineHasOwner, Orderly, Demoting
<1>12. ASSUME NEW c \in Calls, StopSkipped(c) PROVE PipelineHasOwner'
  BY <1>12 DEF StopSkipped, TypeOK, DownIsEmpty, StandbyInOrder, PipelineHasOwner, Orderly, Demoting
<1>13. CASE StopSticks
  BY <1>13 DEF StopSticks, TypeOK, DownIsEmpty, StandbyInOrder, PipelineHasOwner, Orderly, Demoting
<1>14. CASE StandbyBegins
  BY <1>14 DEF StandbyBegins, TypeOK, DownIsEmpty, StandbyInOrder, PipelineHasOwner, Orderly, Demoting
<1>15. CASE ProbeBegins
  BY <1>15 DEF ProbeBegins, TypeOK, DownIsEmpty, StandbyInOrder, PipelineHasOwner, Orderly, Demoting
<1>16. CASE ProbeAnswered
  BY <1>16 DEF ProbeAnswered, TypeOK, DownIsEmpty, StandbyInOrder, PipelineHasOwner, Orderly, Demoting
<1>17. CASE ProbeFails
  BY <1>17 DEF ProbeFails, TypeOK, DownIsEmpty, StandbyInOrder, PipelineHasOwner, Orderly, Demoting
<1>18. CASE Promote
  BY <1>18 DEF Promote, TypeOK, DownIsEmpty, StandbyInOrder, PipelineHasOwner, Orderly, Demoting
<1>19. CASE PromoteEnds
  BY <1>19 DEF PromoteEnds, AppStarts, TypeOK, DownIsEmpty, StandbyInOrder, PipelineHasOwner, Orderly, Demoting
<1>20. ASSUME NEW n \in Nodes, Signal(n) PROVE PipelineHasOwner'
  BY <1>20 DEF Signal, TypeOK, DownIsEmpty, StandbyInOrder, PipelineHasOwner, Orderly, Demoting
<1>21. ASSUME NEW n \in Nodes, ManagerStops(n) PROVE PipelineHasOwner'
  BY <1>21 DEF ManagerStops, TypeOK, DownIsEmpty, StandbyInOrder, PipelineHasOwner, Orderly, Demoting
<1>22. CASE LeavePrimary
  BY <1>22 DEF LeavePrimary, AppStops, TypeOK, DownIsEmpty, StandbyInOrder, PipelineHasOwner, Orderly, Demoting
<1>23. CASE LeaveStandby
  BY <1>23 DEF LeaveStandby, AppStops, TypeOK, DownIsEmpty, StandbyInOrder, PipelineHasOwner, Orderly, Demoting
<1>24. CASE Over \/ UNCHANGED vars
  BY <1>24 DEF Over, vars, TypeOK, DownIsEmpty, StandbyInOrder, PipelineHasOwner, Orderly, Demoting
<1> QED
  BY <1>1, <1>2, <1>3, <1>4, <1>5, <1>6, <1>7, <1>8, <1>9, <1>10, <1>11, <1>12, <1>13, <1>14, <1>15, <1>16, <1>17, <1>18, <1>19, <1>20, <1>21, <1>22, <1>23, <1>24
     DEF Next, RunPrimary, RunStandby, Handle, Leave

\* No step spoils the answer the Primary has.
LEMMA AnswerStep ==
    ASSUME TypeOK, DownIsEmpty, PrimaryInOrder, StandbyInOrder, PipelineHasOwner, AnswerIsKept, [Next]_vars
    PROVE  AnswerIsKept'
<1> USE TwoNodes DEF stopVars, probeVars
<1>1. CASE BootPrimary
  <2>1. boots[Primary] + 1 \in Calls /\ boots'[Primary] = boots[Primary] + 1
    BY <1>1 DEF BootPrimary, TypeOK, Calls
  <2>2. call'[boots'[Primary]] = "sent" /\ claim' = "demoting"
    BY <1>1, <2>1 DEF BootPrimary, TypeOK
  <2> QED BY <2>2 DEF AnswerIsKept, Pending
<1>2. CASE BootStandby
  BY <1>2 DEF BootStandby, TypeOK, DownIsEmpty, PrimaryInOrder, StandbyInOrder, PipelineHasOwner, Orderly, AnswerIsKept, Pending, Quiet, Demoting
<1>3. CASE ExitPrimary
  BY <1>3 DEF ExitPrimary, Undelivered, Awaited, TypeOK, DownIsEmpty, PrimaryInOrder, StandbyInOrder, PipelineHasOwner, Orderly, AnswerIsKept, Pending, Quiet, Demoting
<1>4. CASE ExitStandby
  BY <1>4 DEF ExitStandby, Awaited, TypeOK, DownIsEmpty, PrimaryInOrder, StandbyInOrder, PipelineHasOwner, Orderly, AnswerIsKept, Pending, Quiet, Demoting
<1>5. CASE DemoteReturns
  BY <1>5 DEF DemoteReturns, TypeOK, DownIsEmpty, PrimaryInOrder, StandbyInOrder, PipelineHasOwner, Orderly, AnswerIsKept, Pending, Quiet, Demoting
<1>6. CASE DemoteTimesOut
  BY <1>6 DEF DemoteTimesOut, Undelivered, Awaited, TypeOK, DownIsEmpty, PrimaryInOrder, StandbyInOrder, PipelineHasOwner, Orderly, AnswerIsKept, Pending, Quiet, Demoting
<1>7. CASE Claim
  BY <1>7 DEF Claim, TypeOK, DownIsEmpty, PrimaryInOrder, StandbyInOrder, PipelineHasOwner, Orderly, AnswerIsKept, Pending, Quiet, Demoting
<1>8. CASE ClaimEnds
  BY <1>8 DEF ClaimEnds, AppStarts, TypeOK, DownIsEmpty, PrimaryInOrder, StandbyInOrder, PipelineHasOwner, Orderly, AnswerIsKept, Pending, Quiet, Demoting
<1>9. ASSUME NEW c \in Calls, DemoteArrives(c) PROVE AnswerIsKept'
  BY <1>9 DEF DemoteArrives, TypeOK, DownIsEmpty, PrimaryInOrder, StandbyInOrder, PipelineHasOwner, Orderly, AnswerIsKept, Pending, Quiet, Demoting
<1>10. ASSUME NEW c \in Calls, StopBegins(c) PROVE AnswerIsKept'
  BY <1>10 DEF StopBegins, TypeOK, DownIsEmpty, PrimaryInOrder, StandbyInOrder, PipelineHasOwner, Orderly, AnswerIsKept, Pending, Quiet, Demoting
<1>11. ASSUME NEW c \in Calls, StopEnds(c) PROVE AnswerIsKept'
  BY <1>11 DEF StopEnds, AppStops, TypeOK, DownIsEmpty, PrimaryInOrder, StandbyInOrder, PipelineHasOwner, Orderly, AnswerIsKept, Pending, Quiet, Demoting
<1>12. ASSUME NEW c \in Calls, StopSkipped(c) PROVE AnswerIsKept'
  BY <1>12 DEF StopSkipped, TypeOK, DownIsEmpty, PrimaryInOrder, StandbyInOrder, PipelineHasOwner, Orderly, AnswerIsKept, Pending, Quiet, Demoting
<1>13. CASE StopSticks
  BY <1>13 DEF StopSticks, TypeOK, DownIsEmpty, PrimaryInOrder, StandbyInOrder, PipelineHasOwner, Orderly, AnswerIsKept, Pending, Quiet, Demoting
<1>14. CASE StandbyBegins
  BY <1>14 DEF StandbyBegins, TypeOK, DownIsEmpty, PrimaryInOrder, StandbyInOrder, PipelineHasOwner, Orderly, AnswerIsKept, Pending, Quiet, Demoting
<1>15. CASE ProbeBegins
  BY <1>15 DEF ProbeBegins, TypeOK, DownIsEmpty, PrimaryInOrder, StandbyInOrder, PipelineHasOwner, Orderly, AnswerIsKept, Pending, Quiet, Demoting
<1>16. CASE ProbeAnswered
  BY <1>16 DEF ProbeAnswered, TypeOK, DownIsEmpty, PrimaryInOrder, StandbyInOrder, PipelineHasOwner, Orderly, AnswerIsKept, Pending, Quiet, Demoting
<1>17. CASE ProbeFails
  BY <1>17 DEF ProbeFails, TypeOK, DownIsEmpty, PrimaryInOrder, StandbyInOrder, PipelineHasOwner, Orderly, AnswerIsKept, Pending, Quiet, Demoting
<1>18. CASE Promote
  BY <1>18 DEF Promote, TypeOK, DownIsEmpty, PrimaryInOrder, StandbyInOrder, PipelineHasOwner, Orderly, AnswerIsKept, Pending, Quiet, Demoting
<1>19. CASE PromoteEnds
  BY <1>19 DEF PromoteEnds, AppStarts, TypeOK, DownIsEmpty, PrimaryInOrder, StandbyInOrder, PipelineHasOwner, Orderly, AnswerIsKept, Pending, Quiet, Demoting
<1>20. ASSUME NEW n \in Nodes, Signal(n) PROVE AnswerIsKept'
  BY <1>20 DEF Signal, TypeOK, DownIsEmpty, PrimaryInOrder, StandbyInOrder, PipelineHasOwner, Orderly, AnswerIsKept, Pending, Quiet, Demoting
<1>21. ASSUME NEW n \in Nodes, ManagerStops(n) PROVE AnswerIsKept'
  BY <1>21 DEF ManagerStops, TypeOK, DownIsEmpty, PrimaryInOrder, StandbyInOrder, PipelineHasOwner, Orderly, AnswerIsKept, Pending, Quiet, Demoting
<1>22. CASE LeavePrimary
  BY <1>22 DEF LeavePrimary, AppStops, TypeOK, DownIsEmpty, PrimaryInOrder, StandbyInOrder, PipelineHasOwner, Orderly, AnswerIsKept, Pending, Quiet, Demoting
<1>23. CASE LeaveStandby
  BY <1>23 DEF LeaveStandby, AppStops, TypeOK, DownIsEmpty, PrimaryInOrder, StandbyInOrder, PipelineHasOwner, Orderly, AnswerIsKept, Pending, Quiet, Demoting
<1>24. CASE Over \/ UNCHANGED vars
  BY <1>24 DEF Over, vars, TypeOK, DownIsEmpty, PrimaryInOrder, StandbyInOrder, PipelineHasOwner, Orderly, AnswerIsKept, Pending, Quiet, Demoting
<1> QED
  BY <1>1, <1>2, <1>3, <1>4, <1>5, <1>6, <1>7, <1>8, <1>9, <1>10, <1>11, <1>12, <1>13, <1>14, <1>15, <1>16, <1>17, <1>18, <1>19, <1>20, <1>21, <1>22, <1>23, <1>24
     DEF Next, RunPrimary, RunStandby, Handle, Leave
LEMMA InitInv == Init => IInv
<1> SUFFICES ASSUME Init PROVE IInv
  OBVIOUS
<1> USE TwoNodes DEF Init
<1>1. 0 \in 0..(Threshold - 1) /\ 0 \in 0..MaxBoots /\ 0 \in 0..MaxSignals /\ 0 \in 0..MaxFaults
  OBVIOUS
<1>2. TypeOK
  BY <1>1 DEF TypeOK, Reasons
<1>3. DownIsEmpty /\ PrimaryInOrder /\ StandbyInOrder
  BY DEF DownIsEmpty, PrimaryInOrder, StandbyInOrder, Demoting
<1>4. PipelineHasOwner /\ AnswerIsKept
  BY DEF PipelineHasOwner, Orderly, AnswerIsKept, Demoting
<1> QED BY <1>2, <1>3, <1>4 DEF IInv

LEMMA NextInv == IInv /\ [Next]_vars => IInv'
BY TypeStep, DownStep, PrimaryStep, StandbyStep, OwnerStep, AnswerStep DEF IInv

\* Whatever the two processes and their network do, the six parts hold together.
THEOREM Invariance == Spec => []IInv
<1>1. Init => IInv
  BY InitInv
<1>2. IInv /\ [Next]_vars => IInv'
  BY NextInv
<1> QED BY <1>1, <1>2, PTL DEF Spec

\* The variables stay in their ranges, for any number of boots and any threshold.
THEOREM Typing == Spec => []TypeOK
<1>1. IInv => TypeOK
  BY DEF IInv
<1> QED BY Invariance, <1>1, PTL

-----------------------------------------------------------------------------
\* Both nodes poll at once only after a timeout of the Primary's /demote, a false
\* alarm of the Standby, or a callback that was skipped or ran beside another.
THEOREM DualPollingAlwaysExplained == Spec => []DualPollingExplained
<1>1. IInv => DualPollingExplained
  <2> SUFFICES ASSUME IInv, pipes[Primary] > 0,
                      why \cap {"timeout", "alarm", "skipped", "concurrent", "race"} = {}
               PROVE  ~(pipes[Standby] > 0)
    BY DEF DualPollingExplained
  <2> USE TwoNodes DEF IInv
  <2>1. up[Primary]
    BY DEF DownIsEmpty
  <2>2. claim # "demoting"
    BY DEF PrimaryInOrder
  <2>3. ~Pending
    BY <2>1, <2>2 DEF AnswerIsKept
  <2>4. Quiet
    BY <2>1, <2>3 DEF AnswerIsKept
  <2> QED BY <2>4 DEF PipelineHasOwner, Orderly, Quiet, TypeOK
<1> QED BY Invariance, <1>1, PTL

\* With no callback under way, Manager.state of either node says whether it polls,
\* unless a callback failed, was skipped or raced.
THEOREM StateAlwaysTrue == Spec => []StateTellsTruth
<1>1. IInv => StateTellsTruth
  <2> SUFFICES ASSUME IInv, why \cap {"skipped", "race", "unstarted"} = {},
                      NEW n \in Nodes, Settled(n)
               PROVE  pipes[n] = IF state[n] = "active" THEN 1 ELSE 0
    BY DEF StateTellsTruth
  <2> USE TwoNodes DEF IInv, Settled
  <2>1. CASE n = Primary /\ ~up[Primary]
    BY <2>1 DEF DownIsEmpty
  <2>2. CASE n = Primary /\ up[Primary]
    BY <2>2 DEF PrimaryInOrder, TypeOK
  <2>3. CASE n = Standby
    BY <2>3, NodesAssumption DEF PipelineHasOwner, Orderly, TypeOK
  <2> QED BY <2>1, <2>2, <2>3
<1> QED BY Invariance, <1>1, PTL
-----------------------------------------------------------------------------
\* The two halves of HandoffOrder: a handler that answers, and main that returns.
Answers(c) == call[c] # "yielded" /\ call'[c] = "yielded"
Returns(n) == leave[n] # "stopped" /\ leave'[n] = "stopped"

\* A handler answers in three places, and main can return in two.
LEMMA WhoAnswers ==
    ASSUME IInv, [Next]_vars
    PROVE  /\ \A c \in Calls : Answers(c) => DemoteArrives(c) \/ StopEnds(c) \/ StopSkipped(c)
           /\ \A n \in Nodes : Returns(n) => (n = Primary /\ LeavePrimary) \/ (n = Standby /\ LeaveStandby)
<1> USE TwoNodes DEF stopVars, probeVars, IInv, TypeOK, Answers, Returns
<1>1. CASE BootPrimary BY <1>1 DEF BootPrimary
<1>2. CASE BootStandby BY <1>2 DEF BootStandby
<1>3. CASE ExitPrimary BY <1>3 DEF ExitPrimary, Undelivered
<1>4. CASE ExitStandby BY <1>4 DEF ExitStandby
<1>5. CASE DemoteReturns BY <1>5 DEF DemoteReturns
<1>6. CASE DemoteTimesOut BY <1>6 DEF DemoteTimesOut, Undelivered
<1>7. CASE Claim BY <1>7 DEF Claim
<1>8. CASE ClaimEnds BY <1>8 DEF ClaimEnds
<1>9. ASSUME NEW c \in Calls, DemoteArrives(c) \/ StopEnds(c) \/ StopSkipped(c)
      PROVE  /\ \A d \in Calls : Answers(d) => d = c
             /\ \A n \in Nodes : ~Returns(n)
  BY <1>9 DEF DemoteArrives, StopEnds, StopSkipped
<1>10. ASSUME NEW c \in Calls, StopBegins(c) PROVE UNCHANGED <<call, leave>>
  BY <1>10 DEF StopBegins
<1>11. CASE StopSticks BY <1>11 DEF StopSticks
<1>12. CASE StandbyBegins BY <1>12 DEF StandbyBegins
<1>13. CASE ProbeBegins BY <1>13 DEF ProbeBegins
<1>14. CASE ProbeAnswered BY <1>14 DEF ProbeAnswered
<1>15. CASE ProbeFails BY <1>15 DEF ProbeFails
<1>16. CASE Promote BY <1>16 DEF Promote
<1>17. CASE PromoteEnds BY <1>17 DEF PromoteEnds
<1>18. CASE \E n \in Nodes : Signal(n) BY <1>18 DEF Signal
<1>19. CASE \E n \in Nodes : ManagerStops(n) BY <1>19 DEF ManagerStops
<1>20. CASE LeavePrimary
  <2>1. call' = call /\ leave'[Standby] = leave[Standby]
    BY <1>20 DEF LeavePrimary
  <2> QED BY <1>20, <2>1
<1>21. CASE LeaveStandby BY <1>21 DEF LeaveStandby
<1>22. CASE Over \/ UNCHANGED vars BY <1>22 DEF Over, vars
<1> QED
  BY <1>1, <1>2, <1>3, <1>4, <1>5, <1>6, <1>7, <1>8, <1>9, <1>10, <1>11, <1>12, <1>13, <1>14, <1>15, <1>16, <1>17, <1>18, <1>19, <1>20, <1>21, <1>22
     DEF Next, RunPrimary, RunStandby, Handle, Leave

\* The pipeline is gone when a handler answers: it has stopped it, or there was none.
LEMMA AnswerInOrder ==
    ASSUME IInv, [Next]_vars, NEW c \in Calls, Answers(c)
    PROVE  pipes'[Standby] = 0 \/ why' \cap {"skipped", "concurrent", "race"} # {}
<1> USE TwoNodes DEF stopVars, probeVars, IInv
<1>1. CASE DemoteArrives(c)
  <2>1. /\ state[Standby] # "active" /\ pipes' = pipes
        /\ why' = IF Demoting THEN why \cup {"concurrent"} ELSE why
    BY <1>1 DEF DemoteArrives, Answers, TypeOK
  <2> QED BY <2>1 DEF PipelineHasOwner, Orderly, TypeOK
<1>2. CASE StopEnds(c)
  <2>1. AppStops(Standby) /\ why' = why /\ (raced => "race" \in why)
    BY <1>2 DEF StopEnds, StandbyInOrder
  <2>2. Orderly => pipes[Standby] \in 0..1
    BY DEF PipelineHasOwner
  <2> QED BY <2>1, <2>2, Stops DEF Orderly
<1>3. CASE StopSkipped(c)
  BY <1>3 DEF StopSkipped
<1> QED BY <1>1, <1>2, <1>3, WhoAnswers

\* And when main returns.
LEMMA ReturnInOrder ==
    ASSUME IInv, [Next]_vars, NEW n \in Nodes, Returns(n)
    PROVE  pipes'[n] = 0 \/ (n = Standby /\ why' \cap {"skipped", "race"} # {})
<1> USE TwoNodes DEF stopVars, probeVars, IInv
<1>1. CASE n = Primary /\ LeavePrimary
  <2>1. AppStops(Primary)
    BY <1>1 DEF LeavePrimary, Returns, TypeOK
  <2>2. pipes[Primary] \in 0..1
    BY DEF PrimaryInOrder
  <2> QED BY <1>1, <2>1, <2>2, Stops
<1>2. CASE n = Standby /\ LeaveStandby
  <2>1. \/ AppStops(Standby) /\ why' = why
        \/ /\ once = "used" /\ pipes' = pipes
           /\ why' = IF state[Standby] = "active" \/ Demoting THEN why \cup {"skipped"} ELSE why
    BY <1>2 DEF LeaveStandby, Returns, TypeOK
  <2>2. raced => "race" \in why
    BY DEF StandbyInOrder
  <2>3. Orderly => /\ pipes[Standby] \in 0..1
                   /\ pipes[Standby] > 0 => state[Standby] = "active" \/ Demoting
    BY DEF PipelineHasOwner
  <2> QED BY <1>2, <2>1, <2>2, <2>3, Stops DEF Orderly
<1> QED BY <1>1, <1>2, WhoAnswers

\* Who is told that a pipeline has ended, the Primary by the answer to its /demote or
\* the operator by the end of the process, finds it so.
THEOREM HandoffInOrder == Spec => HandoffOrder
<1>1. IInv /\ [Next]_vars =>
        [/\ \A c \in Calls : call[c] # "yielded" /\ call'[c] = "yielded"
             => pipes'[Standby] = 0 \/ why' \cap {"skipped", "concurrent", "race"} # {}
         /\ \A n \in Nodes : leave[n] # "stopped" /\ leave'[n] = "stopped"
             => pipes'[n] = 0 \/ (n = Standby /\ why' \cap {"skipped", "race"} # {})]_vars
  BY AnswerInOrder, ReturnInOrder DEF Answers, Returns
<1> QED BY Invariance, <1>1, PTL DEF Spec, HandoffOrder
=============================================================================
