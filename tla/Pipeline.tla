------------------------------ MODULE Pipeline ------------------------------
(***************************************************************************)
(* The goroutines and channels of internal/app/app.go between the          *)
(* scheduler and the transport, with the shutdown cascade of App.Stop.     *)
(*                                                                         *)
(*    scheduler -1-> pollers -2-> decoders -3-> producers -4-> formatter   *)
(*              -5-> transport                                             *)
(*                                                                         *)
(* Channel c is the input of stage c: 1 is WorkerPool.jobs, 2 rawCh,       *)
(* 3 decodedCh, 4 metricCh, 5 formattedCh. A message is one poll job and   *)
(* what becomes of it: its result, metric and formatted bytes; what the    *)
(* bytes are does not matter here, so a stage may filter any message (a    *)
(* poll or a decode that failed with nothing to keep, an empty result).    *)
(***************************************************************************)
EXTENDS Integers, Sequences, FiniteSets

CONSTANTS
    Msgs,          \* poll jobs, each submitted at most once (bound of a run)
    Goroutines,    \* the goroutines of stages 1..5
    Stage,         \* the stage each goroutine belongs to
    Capacity,      \* capacity of each channel
    MaxRetry,      \* TransportMaxRetry
    SendMayFail,   \* whether transport.Send may return an error
    Nothing, Gone  \* what an idle and an ended goroutine hold

Stages == 1..5

ASSUME MsgsAssumption ==
    /\ Nothing \notin Msgs /\ Gone \notin Msgs /\ Nothing # Gone
ASSUME GoroutinesAssumption == Stage \in [Goroutines -> Stages]
\* A stage without a configured number of goroutines gets a default one (App's
\* withDefaults, NewWorkerPool).
ASSUME StaffedAssumption == \A s \in Stages : \E g \in Goroutines : Stage[g] = s
\* startFormatStage and startTransportStage start one goroutine each.
ASSUME SingletonAssumption ==
    \A s \in 4..5 : \E g \in Goroutines : \A k \in Goroutines : Stage[k] = s <=> k = g
ASSUME CapacityAssumption == Capacity \in [Stages -> Nat \ {0}]
ASSUME RetryAssumption == MaxRetry \in Nat \ {0} /\ SendMayFail \in BOOLEAN

VARIABLES
    chan,      \* the contents of the channels
    shut,      \* the channels that are closed
    held,      \* what each goroutine works on
    failures,  \* failed Send calls for the message the transport goroutine holds
    waiting,   \* the transport goroutine pauses before the next Send
    ctxDone,   \* the pipeline context is cancelled
    sched,     \* the scheduling loop runs
    stop,      \* how far App.Stop is
    fate       \* history: what happened to each message

vars == <<chan, shut, held, failures, waiting, ctxDone, sched, stop, fate>>

transportVars == <<failures, waiting>>
ctrlVars == <<ctxDone, sched, stop>>

\* Where a message has ended up. "new" and "moving" ones have not; "rejected"
\* by a full job queue; "filtered" by a stage on purpose; "abandoned" by a
\* poller that sees the context done; "failed" after the last retry; "lost" with
\* the transport goroutine when it returns between two retries.
Fates == {"new", "moving", "rejected", "filtered", "abandoned", "sent", "failed", "lost"}

Members(s)  == {g \in Goroutines : Stage[g] = s}
Ended(s)    == \A g \in Members(s) : held[g] = Gone
In(g)       == Stage[g]
Out(g)      == Stage[g] + 1
HasRoom(c)  == Len(chan[c]) < Capacity[c]

\* The copies of a message in the channels and in the hands of the goroutines.
Slots(m)   == UNION {{<<c, i>> : i \in {j \in 1..Len(chan[c]) : chan[c][j] = m}} : c \in Stages}
Keepers(m) == {g \in Goroutines : held[g] = m}

\* The goroutine ends its work on the message with the given fate.
Settle(g, f) ==
    /\ fate' = [fate EXCEPT ![held[g]] = f]
    /\ held' = [held EXCEPT ![g] = Nothing]

-----------------------------------------------------------------------------

Init ==
    /\ chan     = [c \in Stages |-> <<>>]
    /\ shut     = {}
    /\ held     = [g \in Goroutines |-> Nothing]
    /\ failures = 0
    /\ waiting  = FALSE
    /\ ctxDone  = FALSE
    /\ sched    = TRUE
    /\ stop     = "running"
    /\ fate     = [m \in Msgs |-> "new"]

\* The scheduler fires a job: TrySubmit never blocks and drops it on a full
\* queue. A timer may still win over ctx.Done in the loop's select.
Submit(m) ==
    /\ sched
    /\ fate[m] = "new"
    /\ \/ /\ HasRoom(1)
          /\ chan' = [chan EXCEPT ![1] = Append(@, m)]
          /\ fate' = [fate EXCEPT ![m] = "moving"]
       \/ /\ ~HasRoom(1)
          /\ fate' = [fate EXCEPT ![m] = "rejected"]
          /\ UNCHANGED chan
    /\ UNCHANGED <<shut, held, transportVars, ctrlVars>>

SchedulerExit ==
    /\ sched
    /\ ctxDone
    /\ sched' = FALSE
    /\ UNCHANGED <<chan, shut, held, transportVars, ctxDone, stop, fate>>

\* A goroutine takes the next message of its stage's input. Decoder, producer
\* and formatter know at once whether there is anything to pass on.
Receive(g) ==
    /\ held[g] = Nothing
    /\ chan[In(g)] # <<>>
    /\ \/ /\ held' = [held EXCEPT ![g] = Head(chan[In(g)])]
          /\ UNCHANGED fate
       \/ /\ Stage[g] \in 2..4
          /\ fate' = [fate EXCEPT ![Head(chan[In(g)])] = "filtered"]
          /\ UNCHANGED held
    /\ chan' = [chan EXCEPT ![In(g)] = Tail(@)]
    /\ UNCHANGED <<shut, transportVars, ctrlVars>>

\* A poll fails and leaves nothing to pass on.
PollFails(g) ==
    /\ Stage[g] = 1
    /\ held[g] \in Msgs
    /\ Settle(g, "filtered")
    /\ UNCHANGED <<chan, shut, transportVars, ctrlVars>>

\* A goroutine sends what it made of a message to the next stage; it blocks
\* while the channel is full.
Forward(g) ==
    /\ Stage[g] < 5
    /\ held[g] \in Msgs
    /\ Out(g) \notin shut
    /\ HasRoom(Out(g))
    /\ chan' = [chan EXCEPT ![Out(g)] = Append(@, held[g])]
    /\ held' = [held EXCEPT ![g] = Nothing]
    /\ UNCHANGED <<shut, transportVars, ctrlVars, fate>>

\* MUTANT: a goroutine returns as soon as its input is closed.
ReturnUndrained(g) ==
    /\ held[g] = Nothing
    /\ In(g) \in shut
    /\ held' = [held EXCEPT ![g] = Gone]
    /\ UNCHANGED <<chan, shut, transportVars, ctrlVars, fate>>

\* A goroutine returns when its input is closed and empty.
Return(g) ==
    /\ held[g] = Nothing
    /\ In(g) \in shut
    /\ chan[In(g)] = <<>>
    /\ held' = [held EXCEPT ![g] = Gone]
    /\ UNCHANGED <<chan, shut, transportVars, ctrlVars, fate>>

\* A poller returns as soon as either of its selects sees the context done:
\* the jobs still queued stay there, the result it could not send is dropped.
PollerQuits(g) ==
    /\ Stage[g] = 1
    /\ held[g] # Gone
    /\ ctxDone
    /\ held' = [held EXCEPT ![g] = Gone]
    /\ fate' = IF held[g] \in Msgs THEN [fate EXCEPT ![held[g]] = "abandoned"] ELSE fate
    /\ UNCHANGED <<chan, shut, transportVars, ctrlVars>>

\* MUTANT: a stage's output is closed when its first member returns.
CloseOutputEarly(s) ==
    /\ s \in 2..4
    /\ s + 1 \notin shut
    /\ \E g \in Members(s) : held[g] = Gone
    /\ shut' = shut \cup {s + 1}
    /\ UNCHANGED <<chan, held, transportVars, ctrlVars, fate>>

\* MUTANT: the formatter does not close formattedCh.
CloseOutputForgotten(s) ==
    /\ s \in 2..3
    /\ s + 1 \notin shut
    /\ Ended(s)
    /\ shut' = shut \cup {s + 1}
    /\ UNCHANGED <<chan, held, transportVars, ctrlVars, fate>>

\* The closer goroutine of a stage (for the formatter, its deferred close)
\* closes the stage's output once all its members have returned.
CloseOutput(s) ==
    /\ s \in 2..4
    /\ s + 1 \notin shut
    /\ Ended(s)
    /\ shut' = shut \cup {s + 1}
    /\ UNCHANGED <<chan, held, transportVars, ctrlVars, fate>>

-----------------------------------------------------------------------------
\* The transport goroutine.

Send(g) ==
    /\ Stage[g] = 5
    /\ held[g] \in Msgs
    /\ ~waiting
    /\ Settle(g, "sent")
    /\ failures' = 0
    /\ UNCHANGED <<chan, shut, waiting, ctrlVars>>

\* MUTANT: one retry too many.
SendFailsOffByOne(g) ==
    /\ Stage[g] = 5
    /\ held[g] \in Msgs
    /\ ~waiting
    /\ SendMayFail
    /\ failures' = failures + 1
    /\ waiting' = TRUE
    /\ failures <= MaxRetry
    /\ UNCHANGED <<held, fate, chan, shut, ctrlVars>>

\* MUTANT: a failed message goes back to the channel and is retried as well.
SendFailsRequeues(g) ==
    /\ Stage[g] = 5
    /\ held[g] \in Msgs
    /\ ~waiting
    /\ SendMayFail
    /\ HasRoom(5)
    /\ chan' = [chan EXCEPT ![5] = Append(@, held[g])]
    /\ waiting' = TRUE
    /\ UNCHANGED <<held, failures, fate, shut, ctrlVars>>

\* MUTANT: no limit to the retries.
SendFailsForever(g) ==
    /\ Stage[g] = 5
    /\ held[g] \in Msgs
    /\ ~waiting
    /\ SendMayFail
    /\ waiting' = TRUE
    /\ UNCHANGED <<held, failures, fate, chan, shut, ctrlVars>>

SendFails(g) ==
    /\ Stage[g] = 5
    /\ held[g] \in Msgs
    /\ ~waiting
    /\ SendMayFail
    /\ \/ /\ failures < MaxRetry
          /\ failures' = failures + 1
          /\ waiting' = TRUE
          /\ UNCHANGED <<held, fate>>
       \/ /\ failures = MaxRetry
          /\ Settle(g, "failed")
          /\ failures' = 0
          /\ UNCHANGED waiting
    /\ UNCHANGED <<chan, shut, ctrlVars>>

\* The pause before a retry ends with the timer ...
Retry(g) ==
    /\ Stage[g] = 5
    /\ waiting
    /\ waiting' = FALSE
    /\ UNCHANGED <<chan, shut, held, failures, ctrlVars, fate>>

\* ... or, once the context is done, with the goroutine itself.
QuitsRetrying(g) ==
    /\ Stage[g] = 5
    /\ waiting
    /\ ctxDone
    /\ waiting' = FALSE
    /\ failures' = 0
    /\ held' = [held EXCEPT ![g] = Gone]
    /\ fate' = [fate EXCEPT ![held[g]] = "lost"]
    /\ UNCHANGED <<chan, shut, ctrlVars>>

-----------------------------------------------------------------------------
\* App.Stop, one action per blocking step.

Cancel ==
    /\ stop = "running"
    /\ ctxDone' = TRUE
    /\ stop' = "cancelled"
    /\ UNCHANGED <<chan, shut, held, transportVars, sched, fate>>

\* sched.Stop returns, then workerPool.Stop closes the job queue.
CloseJobs ==
    /\ stop = "cancelled"
    /\ ~sched
    /\ shut' = shut \cup {1}
    /\ stop' = "joining"
    /\ UNCHANGED <<chan, held, transportVars, ctxDone, sched, fate>>

\* workerPool.Stop returns once the pollers have; then rawCh is closed.
CloseRaw ==
    /\ stop = "joining"
    /\ Ended(1)
    /\ shut' = shut \cup {2}
    /\ stop' = "draining"
    /\ UNCHANGED <<chan, held, transportVars, ctxDone, sched, fate>>

\* a.wg.Wait returns once every goroutine and closer has; the rest of Stop
\* closes the transport and the connection pool.
Finish ==
    /\ stop = "draining"
    /\ \A s \in 2..5 : Ended(s)
    /\ {3, 4, 5} \subseteq shut
    /\ stop' = "stopped"
    /\ UNCHANGED <<chan, shut, held, transportVars, ctxDone, sched, fate>>

Stopped ==
    /\ stop = "stopped"
    /\ UNCHANGED vars

Step(g) ==
    \/ Receive(g)
    \/ Forward(g)
    \/ Return(g)
    \/ PollerQuits(g)
    \/ Send(g)
    \/ SendFails(g)
    \/ Retry(g)
    \/ QuitsRetrying(g)

Stopping == CloseJobs \/ CloseRaw \/ Finish

Next ==
    \/ \E m \in Msgs : Submit(m)
    \/ SchedulerExit
    \/ \E g \in Goroutines : Step(g) \/ PollFails(g)
    \/ \E s \in Stages : CloseOutput(s)
    \/ Cancel
    \/ Stopping
    \/ Stopped

Spec == Init /\ [][Next]_vars

\* Every goroutine that can move does, and a Send returns. Nothing makes the
\* scheduler fire, a poll fail, or anybody call Stop.
Fairness ==
    /\ \A g \in Goroutines : WF_vars(Step(g))
    /\ \A s \in Stages : WF_vars(CloseOutput(s))
    /\ WF_vars(SchedulerExit)
    /\ WF_vars(Stopping)

FairSpec == Spec /\ Fairness

-----------------------------------------------------------------------------
TypeOK ==
    /\ chan \in [Stages -> Seq(Msgs)]
    /\ \A c \in Stages : Len(chan[c]) <= Capacity[c]
    /\ shut \subseteq Stages
    /\ held \in [Goroutines -> Msgs \cup {Nothing, Gone}]
    /\ failures \in 0..MaxRetry
    /\ waiting \in BOOLEAN
    /\ ctxDone \in BOOLEAN
    /\ sched \in BOOLEAN
    /\ stop \in {"running", "cancelled", "joining", "draining", "stopped"}
    /\ fate \in [Msgs -> Fates]

\* Nobody ever sends on a closed channel, which would panic the process: when a
\* channel is closed all its senders have returned (app.go:307-345, the closers
\* at 425-431, 463-469 and 478). The scheduler sends on the job queue.
NoSendOnClosed ==
    /\ 1 \in shut => ~sched
    /\ \A g \in Goroutines : Stage[g] < 5 /\ Out(g) \in shut => held[g] = Gone

\* A message is in exactly one place until it has ended up somewhere, and then
\* nowhere: no stage duplicates or forgets one on any path, shutdown included.
Conservation ==
    \A m \in Msgs :
        Cardinality(Slots(m)) + Cardinality(Keepers(m)) =
            IF fate[m] = "moving" THEN 1 ELSE 0

\* When Stop has returned and the transport goroutine did not leave early, every
\* result that got past the pollers was sent, filtered or failed; only jobs that
\* no poller took are left in the job queue (the "graceful shutdown" of app.go:295).
GracefulStop ==
    stop = "stopped" /\ (\A m \in Msgs : fate[m] # "lost")
        => \A c \in 2..5 : chan[c] = <<>>

\* While the pipeline runs, a transport that fails as often as it likes delays a
\* message but never stops the flow: each job taken off the queue ends up sent,
\* filtered or failed, unless Stop is called (app.go:494-498).
FlowGoesOn ==
    \A m \in Msgs : fate[m] = "moving" ~> (fate[m] # "moving" \/ ctxDone)

\* Stop returns, provided the transport goroutine does not leave early.
StopReturns ==
    stop = "cancelled" ~> (stop = "stopped" \/ \E m \in Msgs : fate[m] = "lost")

\* Stop returns, whatever the transport does: "5. Transport goroutine drains
\* formattedCh -> exits" (app.go:303).
StopAlwaysReturns == stop = "cancelled" ~> stop = "stopped"
=============================================================================
