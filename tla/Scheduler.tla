------------------------------ MODULE Scheduler ------------------------------
(***************************************************************************)
(* The scheduling loop of internal/scheduler/scheduler.go: a heap of       *)
(* devices by due time, a loop that sleeps until the earliest and fires    *)
(* what is due into the bounded job queue of the worker pool, and Reload,  *)
(* which replaces the heap while the loop sleeps.                          *)
(*                                                                         *)
(* Times are relative: how long until a device is due, how long until the  *)
(* loop wakes. Steps of the program take no time; time passes while the    *)
(* loop sleeps.                                                            *)
(***************************************************************************)
EXTENDS Integers, Sequences, FiniteSets, LoadConfig, ResolveJobs

CONSTANTS
    Trees,         \* what the configuration directories may hold, see LoadConfig
    IdleWait,      \* the 500 ms the loop waits while there is no entry
    JobQueueSize,  \* capacity of the job queue
    NoDevice       \* no entry is being fired

ASSUME IdleWaitAssumption  == IdleWait \in Nat \ {0}
ASSUME QueueSizeAssumption == JobQueueSize \in Nat \ {0}
\* A directory holds finitely many files, a file finitely many definitions; an
\* interval is an int.
IsSequence(s)    == s \in Seq(ToSet(s))
IsDirectory(dir) == IsSequence(dir) /\ \A i \in DOMAIN dir : /\ dir[i].ok \in BOOLEAN
                                                            /\ IsFiniteSet(DOMAIN dir[i].defs)
ASSUME TreesAssumption ==
    /\ IsFiniteSet(Trees)
    /\ \A t \in Trees :
           /\ \A dir \in {t.devices, t.deviceGroups, t.objectGroups, t.objects} : IsDirectory(dir)
           /\ \A i \in DOMAIN t.devices : \A h \in DOMAIN t.devices[i].defs :
                  LET entry == t.devices[i].defs[h]
                  IN  /\ entry = [interval |-> entry.interval, groups |-> entry.groups]
                      /\ entry.interval \in Int /\ IsSequence(entry.groups)
           /\ \A groups \in {t.deviceGroups, t.objectGroups} : \A i \in DOMAIN groups :
                  \A g \in DOMAIN groups[i].defs : IsSequence(groups[i].defs[g])
ASSUME NoDeviceAssumption  == \A t \in Trees : NoDevice \notin DOMAIN Load(t).devices

VARIABLES
    tree,       \* history: what the entries were built from
    entries,    \* s.entries, by hostname: dueIn (how long until nextRun), interval, jobs
    loop,       \* where the loop is
    wakeIn,     \* how long its timer still runs
    firing,     \* the device whose entry is popped and fired
    popped,     \* that entry
    unsent,     \* its jobs not yet given to TrySubmit
    queue,      \* how many jobs are in the job queue
    submitted,  \* history: the jobs given to TrySubmit in this firing
    overslept   \* history: a Reload came while the loop slept, until the next firing

vars == <<tree, entries, loop, wakeIn, firing, popped, unsent, queue, submitted, overslept>>

fireVars == <<firing, popped, unsent, submitted>>

\* What s.entries[0] is due in.
Earliest(es) == Min({es[h].dueIn : h \in DOMAIN es})

\* Evaluated once: what each tree comes to and the devices in it, and the longest
\* the loop ever sleeps.
Loaded       == [t \in Trees |-> Load(t)]
ScheduledIn  == [t \in Trees |-> Scheduled(Loaded[t])]
Devices      == UNION {ScheduledIn[t] : t \in Trees}
LongestSleep == Max({IdleWait} \cup UNION {{Interval(Loaded[t], h) : h \in ScheduledIn[t]} : t \in Trees})

\* buildEntries: every device with jobs is due at once.
Entries(t) ==
    LET c == Loaded[t]
    IN  [h \in ScheduledIn[t] |-> [dueIn |-> 0, interval |-> Interval(c, h), jobs |-> JobsOf(c, h)]]

-----------------------------------------------------------------------------
(* Plausible bugs: each replaces one action below, to show that a property   *)
(* notices it. None is part of the specification.                            *)

\* The loop sleeps for the entry at the wrong end of the heap.
LookLast ==
    /\ loop = "look"
    /\ DOMAIN entries # {}
    /\ \E h \in DOMAIN entries :
           /\ \A g \in DOMAIN entries : entries[g].dueIn <= entries[h].dueIn
           /\ wakeIn' = Max({entries[h].dueIn, 0})
    /\ loop' = "sleep"
    /\ UNCHANGED <<tree, entries, fireVars, queue, overslept>>

\* Reload without s.mu.
ReloadUnlocked(t) ==
    /\ tree' = t
    /\ entries' = Entries(t)
    /\ overslept' = (overslept \/ loop \in {"idle", "sleep"})
    /\ UNCHANGED <<loop, wakeIn, fireVars, queue>>

\* The heap with the popped entry in it again, due one interval from now.
WithPopped == [h \in DOMAIN entries \cup {firing} |->
                  IF h = firing THEN [popped EXCEPT !.dueIn = popped.interval] ELSE entries[h]]

\* The popped entry is pushed back only if every job of it was accepted.
PushUnlessDropped ==
    /\ firing # NoDevice
    /\ unsent = <<>>
    /\ entries' = IF queue < JobQueueSize THEN WithPopped ELSE entries
    /\ firing' = NoDevice /\ popped' = NoDevice
    /\ UNCHANGED <<tree, loop, wakeIn, unsent, submitted, queue, overslept>>

-----------------------------------------------------------------------------

Init ==
    /\ tree \in Trees
    /\ entries = Entries(tree)
    /\ loop = "look"
    /\ wakeIn = 0
    /\ firing = NoDevice
    /\ popped = NoDevice
    /\ unsent = <<>>
    /\ queue = 0
    /\ submitted = <<>>
    /\ overslept = FALSE

\* No entry: look again in half a second.
LookIdle ==
    /\ loop = "look"
    /\ DOMAIN entries = {}
    /\ loop' = "idle"
    /\ wakeIn' = IdleWait
    /\ UNCHANGED <<tree, entries, fireVars, queue, overslept>>

\* Under s.mu: the timer is set for the head of the heap, then the lock goes.
Look ==
    /\ loop = "look"
    /\ DOMAIN entries # {}
    /\ wakeIn' = Max({Earliest(entries), 0})
    /\ loop' = "sleep"
    /\ UNCHANGED <<tree, entries, fireVars, queue, overslept>>

Tick ==
    /\ loop \in {"idle", "sleep"}
    /\ wakeIn > 0
    /\ wakeIn' = wakeIn - 1
    /\ entries' = [h \in DOMAIN entries |-> [entries[h] EXCEPT !.dueIn = @ - 1]]
    /\ UNCHANGED <<tree, loop, fireVars, queue, overslept>>

\* The timer fires; "fire" is the second critical section, under s.mu.
Wake ==
    /\ loop \in {"idle", "sleep"}
    /\ wakeIn = 0
    /\ loop' = IF loop = "idle" THEN "look" ELSE "fire"
    /\ UNCHANGED <<tree, entries, wakeIn, fireVars, queue, overslept>>

\* heap.Pop of an entry that is due; ties are broken anyhow.
Pop(h) ==
    /\ loop = "fire" /\ firing = NoDevice
    /\ h \in DOMAIN entries
    /\ entries[h].dueIn <= 0 /\ entries[h].dueIn = Earliest(entries)
    /\ firing' = h
    /\ popped' = entries[h]
    /\ unsent' = entries[h].jobs
    /\ submitted' = <<>>
    /\ entries' = Restrict(entries, DOMAIN entries \ {h})
    /\ UNCHANGED <<tree, loop, wakeIn, queue, overslept>>

\* fireEntry: TrySubmit never blocks, a job that finds the queue full is dropped.
TrySubmit ==
    /\ firing # NoDevice
    /\ unsent # <<>>
    /\ queue' = IF queue < JobQueueSize THEN queue + 1 ELSE queue
    /\ submitted' = Append(submitted, Head(unsent))
    /\ unsent' = Tail(unsent)
    /\ UNCHANGED <<tree, entries, loop, wakeIn, firing, popped, overslept>>

\* heap.Push with the next due time, counted from the wake-up.
Push ==
    /\ firing # NoDevice
    /\ unsent = <<>>
    /\ entries' = WithPopped
    /\ firing' = NoDevice /\ popped' = NoDevice
    /\ UNCHANGED <<tree, loop, wakeIn, unsent, submitted, queue, overslept>>

\* Nothing more is due: s.mu is released and the loop starts again.
FireDone ==
    /\ loop = "fire" /\ firing = NoDevice
    /\ \A h \in DOMAIN entries : entries[h].dueIn > 0
    /\ loop' = "look"
    /\ overslept' = FALSE
    /\ UNCHANGED <<tree, entries, wakeIn, fireVars, queue>>

\* App.Reload hands over a new configuration; the swap waits for s.mu and does
\* not wake the loop.
Reload(t) ==
    /\ loop # "fire"
    /\ tree' = t
    /\ entries' = Entries(t)
    /\ overslept' = (overslept \/ loop \in {"idle", "sleep"})
    /\ UNCHANGED <<loop, wakeIn, fireVars, queue>>

\* A poller worker takes a job.
TakeJob ==
    /\ queue > 0
    /\ queue' = queue - 1
    /\ UNCHANGED <<tree, entries, loop, wakeIn, fireVars, overslept>>

Loop ==
    \/ LookIdle
    \/ Look
    \/ Wake
    \/ \E h \in DOMAIN entries : Pop(h)
    \/ TrySubmit
    \/ Push
    \/ FireDone

Next ==
    \/ Loop
    \/ Tick
    \/ \E t \in Trees : Reload(t)
    \/ TakeJob

Spec == Init /\ [][Next]_vars

\* The goroutine of the loop runs and time passes; nothing is said of the
\* workers or of reloads.
FairSpec == Spec /\ WF_vars(Loop) /\ WF_vars(Tick)

-----------------------------------------------------------------------------
\* Entries belong to the configuration, the timer never runs backwards and the
\* queue stays within its capacity.
TypeOK ==
    /\ tree \in Trees
    /\ DOMAIN entries \subseteq ScheduledIn[tree]
    /\ \A h \in DOMAIN entries : entries[h].dueIn \in Int
    /\ loop \in {"look", "idle", "sleep", "fire"}
    /\ wakeIn \in Nat
    /\ firing = NoDevice \/ firing \in ScheduledIn[tree] \ DOMAIN entries
    /\ queue \in 0..JobQueueSize
    /\ overslept \in BOOLEAN

\* No device waits past its due time, except after a Reload that found the loop
\* asleep; then it waits no longer than the longest sleep (scheduler.go:99-126).
OnTime ==
    \A h \in DOMAIN entries : entries[h].dueIn >= (IF overslept THEN -LongestSleep ELSE 0)

\* What the files of a directory say, said without loops: the names that some
\* file which parses defines, and the last word on a name.
Defined(files) == UNION {DOMAIN files[i].defs : i \in {j \in DOMAIN files : files[j].ok}}
LastWord(files, name) ==
    files[Max({i \in DOMAIN files : files[i].ok /\ name \in DOMAIN files[i].defs})].defs[name]

\* The objects a device should be polled for.
Meant(t, h) ==
    {o \in Defined(t.objects) :
        \E dg \in ToSet(LastWord(t.devices, h).groups) \cap Defined(t.deviceGroups) :
        \E og \in ToSet(LastWord(t.deviceGroups, dg)) \cap Defined(t.objectGroups) :
            o \in ToSet(LastWord(t.objectGroups, og))}

\* One firing of a device submits each object that the configuration files mean
\* for it exactly once, at the interval they say (or else 60 s), and a reload does not get in
\* between (loader.go:95-417, resolve.go:20-79, scheduler.go:117-126, 154-160).
FiresWhatIsMeant ==
    firing # NoDevice /\ unsent = <<>> =>
        /\ firing \in Defined(tree.devices)
        /\ LET said == LastWord(tree.devices, firing).interval
           IN  popped.interval = IF said > 0 THEN said ELSE DefaultInterval
        /\ ToSet(submitted) = Meant(tree, firing)
        /\ Len(submitted) = Cardinality(Meant(tree, firing))

\* Every device that is configured is fired again and again, however full the
\* queue is and however often the configuration is reloaded.
PolledForEver ==
    \A h \in Devices : []<>(firing = h \/ h \notin ScheduledIn[tree])
=============================================================================
