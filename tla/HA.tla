--------------------------------- MODULE HA ---------------------------------
(***************************************************************************)
(* Two collectors in Active/Standby mode: the Manager of internal/ha/ha.go *)
(* on each, wired to the App as cmd/snmpcollector/main.go does.            *)
(*                                                                         *)
(* The Primary posts /demote to the Standby when it boots and then becomes *)
(* Active whatever came of it. The Standby probes the Primary's /health    *)
(* and promotes itself after Threshold failures in a row. What a node does *)
(* and what its Manager says it does are different things: pipes counts    *)
(* the pipelines an App really runs, state is Manager.state.               *)
(***************************************************************************)
EXTENDS Integers

CONSTANTS
    Primary, Standby,
    Threshold,     \* FailoverThreshold
    MaxBoots,      \* boots of each process (a bound)
    MaxSignals,    \* processes ended by a signal (a bound)
    MaxFaults,     \* probes that fail although the Primary is up (a bound)
    CallbacksRace  \* whether App.Start and a /demote may run together

ASSUME NodesAssumption     == Primary # Standby
ASSUME ThresholdAssumption == Threshold \in Nat \ {0}
ASSUME BoundsAssumption    == MaxBoots \in Nat /\ MaxSignals \in Nat /\ MaxFaults \in Nat
                              /\ CallbacksRace \in BOOLEAN

Nodes == {Primary, Standby}
Calls == 1..MaxBoots      \* the /demote call of each boot of the Primary

VARIABLES
    up,       \* the process runs and its HTTP server answers
    leave,    \* how far the shutdown after a signal is: "no", "asked" (the context is
              \* done), "stopping" (the Manager's loop has ended), "stopped", "stuck"
    boots,    \* how often each process has booted
    signals,  \* how many signals have been sent
    state,    \* Manager.state; "none" before the first transition
    pipes,    \* pipelines each App runs
    claim,    \* how far runPrimary is
    call,     \* how far each /demote call is
    once,     \* stopOnce of the Standby's process, and who runs App.Stop: a handler
              \* ("stopping") or the shutdown ("leaving")
    raced,    \* App.Start and App.Stop ran together on the Standby (same life)
    probe,    \* how far runStandby and its health check are
    snap,     \* the health check's copy of state
    fails,    \* consecutiveFails
    faults,   \* probes that have failed with the Primary up
    why       \* history: what has happened that may let both nodes poll, or none

vars == <<up, leave, boots, signals, state, pipes, claim, call, once, raced, probe, snap, fails,
          faults, why>>

stopVars  == <<once, raced>>
probeVars == <<probe, snap, fails, faults>>

\* "timeout": the Primary went on without an answer to /demote. "alarm": the
\* Standby promoted itself with the Primary up and past its /demote. "skipped":
\* a demotion found stopOnce used up. "concurrent": one was answered while
\* another was still stopping the App. "race": App.Start and App.Stop ran
\* together. "unstarted": App.Start failed. "stuck": App.Stop does not return.
Reasons == {"timeout", "alarm", "skipped", "concurrent", "race", "unstarted", "stuck"}

Init ==
    /\ up     = [n \in Nodes |-> FALSE]
    /\ leave  = [n \in Nodes |-> "no"]
    /\ boots  = [n \in Nodes |-> 0]
    /\ signals = 0
    /\ state  = [n \in Nodes |-> "none"]
    /\ pipes  = [n \in Nodes |-> 0]
    /\ claim  = "down"
    /\ call   = [c \in Calls |-> "none"]
    /\ once   = "unused"
    /\ raced  = FALSE
    /\ probe  = "down"
    /\ snap   = "none"
    /\ fails  = 0
    /\ faults = 0
    /\ why    = {}

-----------------------------------------------------------------------------
\* A process boots, or ends with all it runs (a crash, or the end of main).
\* Nothing of its state survives.

BootPrimary ==
    /\ ~up[Primary]
    /\ boots[Primary] < MaxBoots
    /\ up' = [up EXCEPT ![Primary] = TRUE]
    /\ boots' = [boots EXCEPT ![Primary] = @ + 1]
    /\ claim' = "demoting"
    /\ call' = [call EXCEPT ![boots[Primary] + 1] = "sent"]
    /\ UNCHANGED <<leave, signals, state, pipes, stopVars, probeVars, why>>

BootStandby ==
    /\ ~up[Standby]
    /\ boots[Standby] < MaxBoots
    /\ up' = [up EXCEPT ![Standby] = TRUE]
    /\ boots' = [boots EXCEPT ![Standby] = @ + 1]
    /\ probe' = "booting"
    /\ UNCHANGED <<leave, signals, state, pipes, claim, call, stopVars, snap, fails, faults, why>>

\* The Primary waits for the answer to the call.
Awaited(c) == claim = "demoting" /\ c = boots[Primary]

\* The calls when the one that is awaited is given up: it may still arrive, but
\* only if there is a process that has accepted the connection.
Undelivered(outcome) ==
    [c \in Calls |-> IF Awaited(c) /\ call[c] = "sent" /\ ~up[Standby]
                     THEN outcome ELSE call[c]]

ExitPrimary ==
    /\ up[Primary]
    /\ up' = [up EXCEPT ![Primary] = FALSE]
    /\ leave' = [leave EXCEPT ![Primary] = "no"]
    /\ state' = [state EXCEPT ![Primary] = "none"]
    /\ pipes' = [pipes EXCEPT ![Primary] = 0]
    /\ claim' = "down"
    /\ call' = Undelivered("over")
    /\ UNCHANGED <<boots, signals, stopVars, probeVars, why>>

\* The calls being handled end with the process, and those on their way from a
\* client that has given up.
ExitStandby ==
    /\ up[Standby]
    /\ up' = [up EXCEPT ![Standby] = FALSE]
    /\ leave' = [leave EXCEPT ![Standby] = "no"]
    /\ state' = [state EXCEPT ![Standby] = "none"]
    /\ pipes' = [pipes EXCEPT ![Standby] = 0]
    /\ call' = [c \in Calls |->
                    IF call[c] = "stopping" \/ (call[c] = "sent" /\ ~Awaited(c))
                    THEN "broken" ELSE call[c]]
    /\ once' = "unused"
    /\ raced' = FALSE
    /\ probe' = "down"
    /\ snap' = "none"
    /\ fails' = 0
    /\ UNCHANGED <<boots, signals, claim, faults, why>>

-----------------------------------------------------------------------------
\* runPrimary.

\* demotePeer returns: with the answer, with an error since nobody listens or the
\* connection breaks, or when DemoteTimeout is over or the context is done, whatever
\* became of the call.
DemoteReturns ==
    /\ claim = "demoting"
    /\ \/ call[boots[Primary]] \in {"yielded", "broken"}
       \/ call[boots[Primary]] = "sent" /\ ~up[Standby]
    /\ claim' = "claiming"
    /\ call' = [call EXCEPT ![boots[Primary]] = "over"]
    /\ UNCHANGED <<up, leave, boots, signals, state, pipes, stopVars, probeVars, why>>

\* MUTANT: no DemoteTimeout.
DemoteWaitsForever == FALSE /\ UNCHANGED vars

DemoteTimesOut ==
    /\ claim = "demoting"
    /\ claim' = "claiming"
    /\ call' = Undelivered("over")
    /\ why' = IF up[Standby] THEN why \cup {"timeout"} ELSE why
    /\ UNCHANGED <<up, leave, boots, signals, state, pipes, stopVars, probeVars>>

\* transitionTo(StateActive) sets the state, unlocks and calls App.Start.
Claim ==
    /\ claim = "claiming"
    /\ state' = [state EXCEPT ![Primary] = "active"]
    /\ claim' = "starting"
    /\ UNCHANGED <<up, leave, boots, signals, pipes, call, stopVars, probeVars, why>>

\* App.Start returns; its error is only logged.
AppStarts(n) ==
    \/ pipes' = [pipes EXCEPT ![n] = @ + 1] /\ UNCHANGED why
    \/ why' = why \cup {"unstarted"} /\ UNCHANGED pipes

ClaimEnds ==
    /\ claim = "starting"
    /\ AppStarts(Primary)
    /\ claim' = "active"
    /\ UNCHANGED <<up, leave, boots, signals, state, call, stopVars, probeVars>>

-----------------------------------------------------------------------------
\* The Standby's /demote handler.

\* A handler has left the lock and not answered yet.
Demoting == \E c \in Calls : call[c] = "stopping"

\* MUTANT: the handler does not call OnStopPolling.
DemoteKeepsPolling(c) ==
    /\ call[c] = "sent"
    /\ up[Standby]
    /\ state' = [state EXCEPT ![Standby] = "standby"]
    /\ call' = [call EXCEPT ![c] = "yielded"]
    /\ UNCHANGED <<up, leave, boots, signals, pipes, claim, stopVars, probeVars, why>>

\* transitionTo(StateStandby): OnStopPolling is called only by who finds the
\* state Active, and after the unlock.
DemoteArrives(c) ==
    /\ call[c] = "sent"
    /\ up[Standby]
    /\ CallbacksRace \/ probe # "starting"
    /\ state' = [state EXCEPT ![Standby] = "standby"]
    /\ IF state[Standby] = "active"
       THEN call' = [call EXCEPT ![c] = "stopping"] /\ UNCHANGED why
       ELSE /\ call' = [call EXCEPT ![c] = "yielded"]
            /\ why' = IF Demoting THEN why \cup {"concurrent"} ELSE why
    /\ UNCHANGED <<up, leave, boots, signals, pipes, claim, stopVars, probeVars>>

\* MUTANT: OnStopPolling runs in a goroutine of its own.
StopInBackground(c) ==
    /\ call[c] = "stopping"
    /\ once = "unused"
    /\ once' = "stopping"
    /\ call' = [call EXCEPT ![c] = "yielded"]
    /\ UNCHANGED <<up, leave, boots, signals, state, pipes, claim, raced, probeVars, why>>

\* stopApp: the first call of a process runs App.Stop. When App.Start still runs
\* Stop reads fields that Start is writing.
StopBegins(c) ==
    /\ call[c] = "stopping"
    /\ once = "unused"
    /\ once' = "stopping"
    /\ IF probe = "starting"
       THEN raced' = TRUE /\ why' = why \cup {"race"}
       ELSE UNCHANGED <<raced, why>>
    /\ UNCHANGED <<up, leave, boots, signals, state, pipes, claim, call, probeVars>>

\* App.Stop ends the newest pipeline; one that raced with Start may also have found
\* nothing to stop.
AppStops(n) ==
    \/ pipes[n] > 0 /\ pipes' = [pipes EXCEPT ![n] = @ - 1]
    \/ ((n = Standby /\ raced) \/ pipes[n] = 0) /\ UNCHANGED pipes

\* App.Stop returns and the handler answers.
StopEnds(c) ==
    /\ call[c] = "stopping"
    /\ once = "stopping"
    /\ AppStops(Standby)
    /\ once' = "used"
    /\ call' = [call EXCEPT ![c] = "yielded"]
    /\ UNCHANGED <<up, leave, boots, signals, state, claim, raced, probeVars, why>>

\* App.Stop waits for ever: for a formatter that cannot send (see Pipeline), or after
\* a race, for a scheduling loop that nobody has told to end.
StopSticks ==
    /\ once \in {"stopping", "leaving"}
    /\ pipes[Standby] > 0 \/ raced
    /\ once' = "stuck"
    /\ leave' = [leave EXCEPT ![Standby] = IF once = "leaving" THEN "stuck" ELSE @]
    /\ why' = why \cup {"stuck"}
    /\ UNCHANGED <<up, boots, signals, state, pipes, claim, call, raced, probeVars>>

\* Every later call of stopApp returns at once.
StopSkipped(c) ==
    /\ call[c] = "stopping"
    /\ once = "used"
    /\ call' = [call EXCEPT ![c] = "yielded"]
    /\ why' = why \cup {"skipped"}
    /\ UNCHANGED <<up, leave, boots, signals, state, pipes, claim, stopVars, probeVars>>

-----------------------------------------------------------------------------
\* runStandby and healthCheckCycle.

StandbyBegins ==
    /\ probe = "booting"
    /\ state' = [state EXCEPT ![Standby] = "standby"]
    /\ probe' = "idle"
    /\ UNCHANGED <<up, leave, boots, signals, pipes, claim, call, stopVars, snap, fails, faults, why>>

\* The state is read before the request is sent; with the context done it is not sent,
\* and counts as failed.
ProbeBegins ==
    /\ probe = "idle"
    /\ snap' = state[Standby]
    /\ probe' = "probing"
    /\ UNCHANGED <<up, leave, boots, signals, state, pipes, claim, call, stopVars, fails, faults, why>>

\* /health answers 200 as long as the process runs.
ProbeAnswered ==
    /\ probe = "probing"
    /\ up[Primary]
    /\ fails' = 0
    /\ probe' = "idle"
    /\ UNCHANGED <<up, leave, boots, signals, state, pipes, claim, call, stopVars, snap, faults, why>>

\* MUTANT: the promotion asks for the wrong state.
ProbeFailsWhenActive ==
    /\ probe = "probing"
    /\ \/ ~up[Primary] /\ UNCHANGED faults
       \/ up[Primary] /\ faults < MaxFaults /\ faults' = faults + 1
    /\ fails' = IF fails + 1 >= Threshold THEN 0 ELSE fails + 1
    /\ probe' = IF fails + 1 >= Threshold /\ snap = "active" THEN "promoting" ELSE "idle"
    /\ UNCHANGED <<up, leave, boots, signals, state, pipes, claim, call, stopVars, snap, why>>

\* The Primary is down, the context is done, or an answer does not come in time.
ProbeFails ==
    /\ probe = "probing"
    /\ \/ (~up[Primary] \/ leave[Standby] # "no") /\ UNCHANGED faults
       \/ up[Primary] /\ faults < MaxFaults /\ faults' = faults + 1
    /\ fails' = IF fails + 1 >= Threshold THEN 0 ELSE fails + 1
    /\ probe' = IF fails + 1 >= Threshold /\ snap = "standby" THEN "promoting" ELSE "idle"
    /\ UNCHANGED <<up, leave, boots, signals, state, pipes, claim, call, stopVars, snap, why>>

\* transitionTo(StateActive): the state is set before App.Start is called.
Promote ==
    /\ probe = "promoting"
    /\ CallbacksRace \/ ~Demoting
    /\ state' = [state EXCEPT ![Standby] = "active"]
    /\ probe' = "starting"
    /\ raced' = (raced \/ Demoting)
    /\ why' = why \cup (IF Demoting THEN {"race"} ELSE {})
                  \cup (IF up[Primary] /\ call[boots[Primary]] # "sent"
                        THEN {"alarm"} ELSE {})
    /\ UNCHANGED <<up, leave, boots, signals, pipes, claim, call, once, snap, fails, faults>>

PromoteEnds ==
    /\ probe = "starting"
    /\ AppStarts(Standby)
    /\ probe' = "idle"
    /\ UNCHANGED <<up, leave, boots, signals, state, claim, call, stopVars, snap, fails, faults>>

-----------------------------------------------------------------------------
\* A signal ends a process in order: main cancels the context, waits for the Manager's
\* loop, calls stopApp, and returns. The HTTP server answers until then.

Signal(n) ==
    /\ up[n] /\ leave[n] = "no"
    /\ signals < MaxSignals
    /\ signals' = signals + 1
    /\ leave' = [leave EXCEPT ![n] = "asked"]
    /\ UNCHANGED <<up, boots, state, pipes, claim, call, stopVars, probeVars, why>>

\* Manager.Stop returns: the loop has seen the end of the context.
ManagerStops(n) ==
    /\ leave[n] = "asked"
    /\ \/ n = Primary /\ claim = "active" /\ claim' = "down" /\ UNCHANGED probe
       \/ n = Standby /\ probe = "idle" /\ probe' = "down" /\ UNCHANGED claim
    /\ leave' = [leave EXCEPT ![n] = "stopping"]
    /\ UNCHANGED <<up, boots, signals, state, pipes, call, stopVars, snap, fails, faults, why>>

\* MUTANT: main returns without stopApp.
LeaveUnstopped ==
    /\ leave[Primary] = "stopping"
    /\ leave' = [leave EXCEPT ![Primary] = "stopped"]
    /\ UNCHANGED <<up, boots, signals, state, pipes, claim, call, stopVars, probeVars, why>>

\* The Primary's stopApp is called here only.
LeavePrimary ==
    /\ leave[Primary] = "stopping"
    /\ \/ AppStops(Primary) /\ leave' = [leave EXCEPT ![Primary] = "stopped"] /\ UNCHANGED why
       \/ /\ pipes[Primary] > 0
          /\ leave' = [leave EXCEPT ![Primary] = "stuck"]
          /\ why' = why \cup {"stuck"}
          /\ UNCHANGED pipes
    /\ UNCHANGED <<up, boots, signals, state, claim, call, stopVars, probeVars>>

\* The Standby's runs App.Stop, unless a handler runs it, for which it waits, or has
\* run it: then an App that has been started since is left as it is.
LeaveStandby ==
    /\ leave[Standby] = "stopping"
    /\ \/ once = "unused" /\ once' = "leaving" /\ UNCHANGED <<leave, pipes, why>>
       \/ /\ once = "leaving"
          /\ AppStops(Standby)
          /\ once' = "used"
          /\ leave' = [leave EXCEPT ![Standby] = "stopped"]
          /\ UNCHANGED why
       \/ /\ once = "used"
          /\ leave' = [leave EXCEPT ![Standby] = "stopped"]
          /\ why' = IF state[Standby] = "active" \/ Demoting THEN why \cup {"skipped"} ELSE why
          /\ UNCHANGED <<pipes, once>>
    /\ UNCHANGED <<up, boots, signals, state, claim, call, raced, probeVars>>

Leave == (\E n \in Nodes : ManagerStops(n)) \/ LeavePrimary \/ LeaveStandby

\* main returns.
Left == (leave[Primary] = "stopped" /\ ExitPrimary) \/ (leave[Standby] = "stopped" /\ ExitStandby)

-----------------------------------------------------------------------------
\* Both processes are down for good.
Over ==
    /\ \A n \in Nodes : ~up[n] /\ boots[n] = MaxBoots
    /\ UNCHANGED vars

RunPrimary == DemoteReturns \/ DemoteTimesOut \/ Claim \/ ClaimEnds
RunStandby == StandbyBegins \/ ProbeBegins \/ ProbeAnswered \/ ProbeFails
                            \/ Promote \/ PromoteEnds
Handle(c)  == StopBegins(c) \/ StopEnds(c) \/ StopSkipped(c)

Next ==
    \/ BootPrimary
    \/ BootStandby
    \/ ExitPrimary
    \/ ExitStandby
    \/ RunPrimary
    \/ RunStandby
    \/ \E c \in Calls : DemoteArrives(c) \/ Handle(c)
    \/ StopSticks
    \/ \E n \in Nodes : Signal(n)
    \/ Leave
    \/ Over

Spec == Init /\ [][Next]_vars

\* The loops of a running process go on: tickers tick and HTTP clients time out.
\* A process that has been told to end does (strong fairness: the loop's select must see
\* the end of the context although the ticker may be ready too, and Go chooses at random).
\* Nothing else makes a process boot or end, or the network deliver a /demote.
Fairness ==
    /\ WF_vars(RunPrimary)
    /\ WF_vars(RunStandby)
    /\ \A c \in Calls : WF_vars(Handle(c))
    /\ SF_vars(Leave) /\ WF_vars(Left)

FairSpec == Spec /\ Fairness

-----------------------------------------------------------------------------
TypeOK ==
    /\ up \in [Nodes -> BOOLEAN]
    /\ leave \in [Nodes -> {"no", "asked", "stopping", "stopped", "stuck"}]
    /\ boots \in [Nodes -> 0..MaxBoots]
    /\ signals \in 0..MaxSignals
    /\ state \in [Nodes -> {"none", "active", "standby"}]
    /\ pipes \in [Nodes -> Nat]
    /\ claim \in {"down", "demoting", "claiming", "starting", "active"}
    /\ call \in [Calls -> {"none", "sent", "stopping", "yielded", "broken", "over"}]
    /\ once \in {"unused", "stopping", "leaving", "stuck", "used"}
    /\ raced \in BOOLEAN
    /\ probe \in {"down", "booting", "idle", "probing", "promoting", "starting"}
    /\ snap \in {"none", "active", "standby"}
    /\ fails \in 0..(Threshold - 1)
    /\ faults \in 0..MaxFaults
    /\ why \subseteq Reasons

\* Both nodes poll at the same time only for one of these reasons; in every other
\* run the order of demotePeer, the handler and transitionTo excludes it.
DualPollingExplained ==
    pipes[Primary] > 0 /\ pipes[Standby] > 0
        => why \cap {"timeout", "alarm", "skipped", "concurrent", "race"} # {}

\* No callback of the node is under way, and it has not stopped its App to end.
Settled(n) == /\ leave[n] \in {"no", "asked"}
              /\ n = Primary => claim # "starting"
              /\ n = Standby => probe # "starting" /\ ~Demoting

\* Manager.state tells whether the node has a pipeline, when no callback is under way
\* (ha.go:436-447 sets it before), unless a callback failed, was skipped or raced.
StateTellsTruth ==
    why \cap {"skipped", "race", "unstarted"} = {}
        => \A n \in Nodes : Settled(n) => pipes[n] = IF state[n] = "active" THEN 1 ELSE 0

\* Who is told that a pipeline has ended finds it so: a /demote is answered, and main
\* returns after a signal, only when it has, as long as stopOnce was unused when the
\* App was last started, no other demotion is under way and App.Start is not either.
HandoffOrder ==
    [][/\ \A c \in Calls : call[c] # "yielded" /\ call'[c] = "yielded"
             => pipes'[Standby] = 0 \/ why' \cap {"skipped", "concurrent", "race"} # {}
       /\ \A n \in Nodes : leave[n] # "stopped" /\ leave'[n] = "stopped"
             => pipes'[n] = 0 \/ (n = Standby /\ why' \cap {"skipped", "race"} # {})]_vars

\* The handler "Calls OnStopPolling synchronously (blocks until the app stops)"
\* before it answers (ha.go:213-214), every time it is called on an Active node.
YieldedMeansStopped ==
    [][\A c \in Calls : call[c] = "stopping" /\ call'[c] = "yielded"
            => pipes'[Standby] = 0]_vars

\* After a signal no poll begins any more.
Polls(n) == pipes[n] > 0 /\ leave[n] = "no"

\* As long as one of the nodes stays up, the devices are polled again after every
\* crash and shutdown, unless App.Start failed, raced with App.Stop, or App.Stop hangs
\* (and the node goes on answering /health): no order of crashes, restarts, shutdowns,
\* demotions and probes leaves the two waiting for each other.
SomeonePolls ==
    <>[](up[Primary] \/ up[Standby])
        => <>[](Polls(Primary) \/ Polls(Standby) \/ why \cap {"race", "unstarted", "stuck"} # {})

\* A Primary that stays up becomes Active whatever its peer does with /demote,
\* even one whose App.Stop never returns.
PrimaryReclaims == <>[]up[Primary] => <>[](state[Primary] = "active")
=============================================================================
