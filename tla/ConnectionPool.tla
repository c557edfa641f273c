--------------------------- MODULE ConnectionPool ---------------------------
(***************************************************************************)
(* The pool of SNMP sessions of internal/poller/pool.go, driven by the     *)
(* workers of internal/poller/worker.go through SNMPPoller.Poll            *)
(* (internal/poller/poller.go).                                            *)
(*                                                                         *)
(* Every worker goroutine loops: take a job, Get a session for the job's   *)
(* device, run the SNMP operation, Put the session back or Discard it.     *)
(* pool.go keeps, per device, a LIFO stack of idle sessions under dp.mu    *)
(* and a buffered channel dp.sem used as a counting semaphore; the code    *)
(* between two lock, channel or network operations is one action here.     *)
(***************************************************************************)
EXTENDS Integers, Sequences, FiniteSets

CONSTANTS
    Workers,           \* worker goroutines
    Hosts,             \* device hostnames, the keys of p.pools
    Conns,             \* identities of gosnmp sessions; a closed one is recycled
    NoHost, NoConn,    \* "no device" and "no session"
    ConfiguredLimits,  \* values of DeviceConfig.MaxConcurrentPolls
    MaxIdle,           \* PoolOptions.MaxIdlePerDevice
    IdleExpires        \* whether PoolOptions.IdleTimeout > 0

ASSUME WorkersAssumption == IsFiniteSet(Workers)
ASSUME HostsAssumption   == NoHost \notin Hosts
ASSUME ConnsAssumption   == IsFiniteSet(Conns) /\ NoConn \notin Conns
ASSUME LimitsAssumption  == ConfiguredLimits \subseteq Int
ASSUME MaxIdleAssumption == MaxIdle \in Nat \ {0}
ASSUME FlagAssumption    == IdleExpires \in BOOLEAN

VARIABLES
    pc,        \* where each worker is inside Poll/Get/Put/Discard
    host,      \* the device of the job a worker runs
    hold,      \* the session a worker runs its SNMP operation on
    cap,       \* capacity of dp.sem, 0 while the device has no devicePool
    sem,       \* tokens in dp.sem
    idle,      \* dp.idle, top of the stack last
    stale,     \* how many sessions at the bottom of dp.idle outlived IdleTimeout
    home,      \* device an open session is connected to, NoHost when closed
    closer,    \* progress of ConnectionPool.Close
    undrained, \* devices whose idle stack Close has still to drain
    overtaken, \* history: Close began while some worker had not returned
    cancelled  \* the context given to the workers is done

vars == <<pc, host, hold, cap, sem, idle, stale, home, closer, undrained, overtaken, cancelled>>

callVars == <<pc, host, hold>>
poolVars == <<cap, sem, idle, stale, home>>
ctrlVars == <<closer, undrained, overtaken, cancelled>>

DefaultLimit == 4

\* Program points at which a worker owns one token of dp.sem, and those at
\* which it also owns a session.
TokenPoints   == {"pop", "dial", "poll", "put", "discard", "release"}
SessionPoints == {"poll", "put", "discard"}
Points == TokenPoints \cup {"ready", "create", "check", "acquire", "exited"}

closed     == closer # "open"
Created(h) == cap[h] > 0

Sockets(h)  == {c \in Conns : home[c] = h}
Holders(h)  == {w \in Workers : pc[w] \in TokenPoints /\ host[w] = h}
Dialling(h) == {w \in Workers : pc[w] = "dial" /\ host[w] = h}
Fresh       == {c \in Conns : home[c] = NoHost}

Goto(w, point) == pc' = [pc EXCEPT ![w] = point]

\* A call that returns without a session: the worker is back at its loop.
Fail(w) ==
    /\ Goto(w, "ready")
    /\ host' = [host EXCEPT ![w] = NoHost]
    /\ UNCHANGED hold

Capacity(m) == IF m <= 0 THEN DefaultLimit ELSE m

-----------------------------------------------------------------------------
(* Plausible bugs: each replaces one action below, to show that a property   *)
(* notices it. None is part of the specification.                            *)

\* getOrCreatePool without the second look under the write lock.
CreatePoolUnchecked(w, m) ==
    /\ pc[w] = "create"
    /\ closer # "draining"
    /\ cap'   = [cap EXCEPT ![host[w]] = Capacity(m)]
    /\ sem'   = [sem EXCEPT ![host[w]] = 0]
    /\ idle'  = [idle EXCEPT ![host[w]] = <<>>]
    /\ stale' = [stale EXCEPT ![host[w]] = 0]
    /\ Goto(w, "check")
    /\ UNCHANGED <<host, hold, home, ctrlVars>>

\* Get without the fast path.
CheckClosedSkipped(w) ==
    /\ pc[w] = "check"
    /\ Goto(w, "acquire")
    /\ UNCHANGED <<host, hold, poolVars, ctrlVars>>

\* One place too many in the semaphore.
AcquireOffByOne(w) ==
    /\ pc[w] = "acquire"
    /\ sem[host[w]] <= cap[host[w]]
    /\ sem' = [sem EXCEPT ![host[w]] = @ + 1]
    /\ Goto(w, "pop")
    /\ UNCHANGED <<host, hold, cap, idle, stale, home, ctrlVars>>

\* popIdle returns the top of the stack without looking at its age.
PopIdleAnyAge(w) ==
    LET h == host[w]
        n == Len(idle[h])
    IN  /\ pc[w] = "pop"
        /\ IF n > 0
           THEN /\ hold'  = [hold EXCEPT ![w] = idle[h][n]]
                /\ idle'  = [idle EXCEPT ![h] = SubSeq(@, 1, n - 1)]
                /\ stale' = [stale EXCEPT ![h] = IF @ < n THEN @ ELSE n - 1]
                /\ Goto(w, "poll")
           ELSE Goto(w, "dial") /\ UNCHANGED <<hold, idle, stale>>
        /\ UNCHANGED <<host, cap, sem, home, ctrlVars>>

\* A failed dial returns without <-dp.sem.
DialFailsKeepsToken(w) ==
    /\ pc[w] = "dial"
    /\ Fail(w)
    /\ UNCHANGED <<poolVars, ctrlVars>>

\* The token is given back before the session is on the idle stack.
PollEndsReleasing(w) ==
    /\ pc[w] = "poll"
    /\ sem' = [sem EXCEPT ![host[w]] = @ - 1]
    /\ Goto(w, "put")
    /\ UNCHANGED <<host, hold, cap, idle, stale, home, ctrlVars>>

\* Put without the limit on idle sessions.
PutUnlimited(w) ==
    /\ pc[w] = "put"
    /\ idle' = [idle EXCEPT ![host[w]] = Append(@, hold[w])]
    /\ hold' = [hold EXCEPT ![w] = NoConn]
    /\ Goto(w, "release")
    /\ UNCHANGED <<host, cap, sem, stale, home, ctrlVars>>

\* Put on a full stack closes the session and, for want of a return, keeps it.
PutClosedSession(w) ==
    LET h == host[w]
    IN  /\ pc[w] = "put"
        /\ home' = IF Len(idle[h]) >= MaxIdle
                   THEN [home EXCEPT ![hold[w]] = NoHost] ELSE home
        /\ idle' = [idle EXCEPT ![h] = Append(@, hold[w])]
        /\ hold' = [hold EXCEPT ![w] = NoConn]
        /\ Goto(w, "release")
        /\ UNCHANGED <<host, cap, sem, stale, ctrlVars>>

\* Put on a full stack returns without closing the session.
PutForgetsSession(w) ==
    LET h == host[w]
    IN  /\ pc[w] = "put"
        /\ IF Len(idle[h]) >= MaxIdle
           THEN UNCHANGED idle
           ELSE idle' = [idle EXCEPT ![h] = Append(@, hold[w])]
        /\ hold' = [hold EXCEPT ![w] = NoConn]
        /\ Goto(w, "release")
        /\ UNCHANGED <<host, cap, sem, stale, home, ctrlVars>>

\* Close resets the idle stacks without closing the sessions.
DrainForgets(h) ==
    /\ h \in undrained
    /\ idle'  = [idle EXCEPT ![h] = <<>>]
    /\ stale' = [stale EXCEPT ![h] = 0]
    /\ undrained' = undrained \ {h}
    /\ UNCHANGED <<callVars, cap, sem, home, closer, overtaken, cancelled>>

-----------------------------------------------------------------------------

Init ==
    /\ pc        = [w \in Workers |-> "ready"]
    /\ host      = [w \in Workers |-> NoHost]
    /\ hold      = [w \in Workers |-> NoConn]
    /\ cap       = [h \in Hosts |-> 0]
    /\ sem       = [h \in Hosts |-> 0]
    /\ idle      = [h \in Hosts |-> <<>>]
    /\ stale     = [h \in Hosts |-> 0]
    /\ home      = [c \in Conns |-> NoHost]
    /\ closer    = "open"
    /\ undrained = {}
    /\ overtaken = FALSE
    /\ cancelled = FALSE

\* A worker takes a job for h and looks the device up under p.mu.RLock. Close
\* holds p.mu while it drains.
Lookup(w, h) ==
    /\ pc[w] = "ready"
    /\ closer # "draining"
    /\ Goto(w, IF Created(h) THEN "check" ELSE "create")
    /\ host' = [host EXCEPT ![w] = h]
    /\ UNCHANGED <<hold, poolVars, ctrlVars>>

\* Under p.mu.Lock: the second look, and a new devicePool only if still absent.
CreatePool(w, m) ==
    /\ pc[w] = "create"
    /\ closer # "draining"
    /\ IF Created(host[w])
       THEN UNCHANGED <<cap, sem, idle, stale>>
       ELSE /\ cap'   = [cap EXCEPT ![host[w]] = Capacity(m)]
            /\ sem'   = [sem EXCEPT ![host[w]] = 0]
            /\ idle'  = [idle EXCEPT ![host[w]] = <<>>]
            /\ stale' = [stale EXCEPT ![host[w]] = 0]
    /\ Goto(w, "check")
    /\ UNCHANGED <<host, hold, home, ctrlVars>>

\* Fast path of Get: a closed pool rejects the call.
CheckClosed(w) ==
    /\ pc[w] = "check"
    /\ \/ closed  /\ Fail(w)
       \/ ~closed /\ Goto(w, "acquire") /\ UNCHANGED <<host, hold>>
    /\ UNCHANGED <<poolVars, ctrlVars>>

\* The three arms of Get's select; when several are ready Go picks any.
Acquire(w) ==
    /\ pc[w] = "acquire"
    /\ sem[host[w]] < cap[host[w]]
    /\ sem' = [sem EXCEPT ![host[w]] = @ + 1]
    /\ Goto(w, "pop")
    /\ UNCHANGED <<host, hold, cap, idle, stale, home, ctrlVars>>

GiveUp(w) ==
    /\ pc[w] = "acquire"
    /\ cancelled \/ closed
    /\ Fail(w)
    /\ UNCHANGED <<poolVars, ctrlVars>>

\* popIdle under dp.mu. Entries are pushed in time order, so either the top of
\* the stack is young enough and is returned, or every entry is expired and
\* the loop closes them all.
PopIdle(w) ==
    LET h == host[w]
        n == Len(idle[h])
    IN  /\ pc[w] = "pop"
        /\ IF n > stale[h]
           THEN /\ hold' = [hold EXCEPT ![w] = idle[h][n]]
                /\ idle' = [idle EXCEPT ![h] = SubSeq(@, 1, n - 1)]
                /\ Goto(w, "poll")
                /\ UNCHANGED <<stale, home>>
           ELSE /\ home'  = [c \in Conns |-> IF \E i \in 1..n : idle[h][i] = c
                                              THEN NoHost ELSE home[c]]
                /\ idle'  = [idle EXCEPT ![h] = <<>>]
                /\ stale' = [stale EXCEPT ![h] = 0]
                /\ Goto(w, "dial")
                /\ UNCHANGED hold
        /\ UNCHANGED <<host, cap, sem, ctrlVars>>

\* opts.Dial either opens a session or fails; a failure gives the token back.
Dial(w) ==
    /\ pc[w] = "dial"
    /\ \E c \in Fresh :
           /\ home' = [home EXCEPT ![c] = host[w]]
           /\ hold' = [hold EXCEPT ![w] = c]
    /\ Goto(w, "poll")
    /\ UNCHANGED <<host, cap, sem, idle, stale, ctrlVars>>

DialFails(w) ==
    /\ pc[w] = "dial"
    /\ Goto(w, "release")
    /\ UNCHANGED <<host, hold, poolVars, ctrlVars>>

\* Poll's SNMP operation ends: without error the session goes back, with one
\* (timeout, cancelled context, walk without OIDs) it is discarded.
PollEnds(w) ==
    /\ pc[w] = "poll"
    /\ \E point \in {"put", "discard"} : Goto(w, point)
    /\ UNCHANGED <<host, hold, poolVars, ctrlVars>>

\* The body of Put under dp.mu; its deferred release of the token comes after.
Put(w) ==
    LET h == host[w]
    IN  /\ pc[w] = "put"
        /\ IF Len(idle[h]) >= MaxIdle
           THEN home' = [home EXCEPT ![hold[w]] = NoHost] /\ UNCHANGED idle
           ELSE idle' = [idle EXCEPT ![h] = Append(@, hold[w])] /\ UNCHANGED home
        /\ hold' = [hold EXCEPT ![w] = NoConn]
        /\ Goto(w, "release")
        /\ UNCHANGED <<host, cap, sem, stale, ctrlVars>>

Discard(w) ==
    /\ pc[w] = "discard"
    /\ home' = [home EXCEPT ![hold[w]] = NoHost]
    /\ hold' = [hold EXCEPT ![w] = NoConn]
    /\ Goto(w, "release")
    /\ UNCHANGED <<host, cap, sem, idle, stale, ctrlVars>>

\* <-dp.sem, which would block on an empty channel.
Release(w) ==
    /\ pc[w] = "release"
    /\ sem[host[w]] > 0
    /\ sem' = [sem EXCEPT ![host[w]] = @ - 1]
    /\ Fail(w)
    /\ UNCHANGED <<cap, idle, stale, home, ctrlVars>>

\* The worker's own select sees ctx.Done before the next job.
Exit(w) ==
    /\ pc[w] = "ready"
    /\ cancelled
    /\ Goto(w, "exited")
    /\ UNCHANGED <<host, hold, poolVars, ctrlVars>>

-----------------------------------------------------------------------------

\* Time passes: the oldest idle session that was still usable expires.
Age(h) ==
    /\ IdleExpires
    /\ stale[h] < Len(idle[h])
    /\ stale' = [stale EXCEPT ![h] = @ + 1]
    /\ UNCHANGED <<callVars, cap, sem, idle, home, ctrlVars>>

\* App.Stop cancels the context of the workers.
Cancel ==
    /\ ~cancelled
    /\ cancelled' = TRUE
    /\ UNCHANGED <<callVars, poolVars, closer, undrained, overtaken>>

\* Close: close(p.closed), then p.mu.Lock, then one device after the other. It
\* may be called at any time; App.Stop calls it once the workers have returned.
CloseBegin ==
    /\ closer = "open"
    /\ closer' = "closing"
    /\ overtaken' = \E w \in Workers : pc[w] # "exited"
    /\ UNCHANGED <<callVars, poolVars, undrained, cancelled>>

CloseLock ==
    /\ closer = "closing"
    /\ closer' = "draining"
    /\ undrained' = {h \in Hosts : Created(h)}
    /\ UNCHANGED <<callVars, poolVars, overtaken, cancelled>>

Drain(h) ==
    /\ h \in undrained
    /\ home' = [c \in Conns |-> IF \E i \in 1..Len(idle[h]) : idle[h][i] = c
                                 THEN NoHost ELSE home[c]]
    /\ idle'  = [idle EXCEPT ![h] = <<>>]
    /\ stale' = [stale EXCEPT ![h] = 0]
    /\ undrained' = undrained \ {h}
    /\ UNCHANGED <<callVars, cap, sem, closer, overtaken, cancelled>>

CloseEnd ==
    /\ closer = "draining"
    /\ undrained = {}
    /\ closer' = "done"
    /\ UNCHANGED <<callVars, poolVars, undrained, overtaken, cancelled>>

\* The process ends once the pool is closed and every worker has returned.
Terminated ==
    /\ closer = "done"
    /\ \A w \in Workers : pc[w] = "exited"
    /\ UNCHANGED vars

Call(w) ==
    \/ \E m \in ConfiguredLimits : CreatePool(w, m)
    \/ CheckClosed(w)
    \/ Acquire(w)
    \/ GiveUp(w)
    \/ PopIdle(w)
    \/ Dial(w)
    \/ DialFails(w)
    \/ PollEnds(w)
    \/ Put(w)
    \/ Discard(w)
    \/ Release(w)

Closing == CloseBegin \/ CloseLock \/ (\E h \in Hosts : Drain(h)) \/ CloseEnd

Next ==
    \/ \E w \in Workers : Call(w) \/ Exit(w) \/ (\E h \in Hosts : Lookup(w, h))
    \/ \E h \in Hosts : Age(h)
    \/ Cancel
    \/ Closing
    \/ Terminated

Spec == Init /\ [][Next]_vars

\* Every call in progress keeps running (a poll ends because gosnmp times out,
\* an open dial ends either way), and a worker parked on dp.sem is served in
\* arrival order by the Go runtime, so it cannot be overtaken for ever.
Fairness ==
    /\ \A w \in Workers : WF_vars(Call(w)) /\ SF_vars(Acquire(w)) /\ WF_vars(GiveUp(w))
    /\ WF_vars(CloseLock) /\ WF_vars(CloseEnd)
    /\ \A h \in Hosts : WF_vars(Drain(h))

FairSpec == Spec /\ Fairness

-----------------------------------------------------------------------------
\* Every variable keeps its range; a devicePool has a positive capacity and an
\* idle stack never longer than MaxIdlePerDevice (Put, pool.go:145).
TypeOK ==
    /\ pc \in [Workers -> Points]
    /\ host \in [Workers -> Hosts \cup {NoHost}]
    /\ hold \in [Workers -> Conns \cup {NoConn}]
    /\ cap \in [Hosts -> Nat]
    /\ sem \in [Hosts -> Nat]
    /\ idle \in [Hosts -> Seq(Conns)]
    /\ stale \in [Hosts -> Nat]
    /\ home \in [Conns -> Hosts \cup {NoHost}]
    /\ closer \in {"open", "closing", "draining", "done"}
    /\ undrained \subseteq Hosts
    /\ overtaken \in BOOLEAN
    /\ cancelled \in BOOLEAN
    /\ \A h \in Hosts : Len(idle[h]) <= MaxIdle /\ stale[h] <= Len(idle[h])
    /\ \A w \in Workers : host[w] = NoHost <=> pc[w] \in {"ready", "exited"}

\* The tokens in a device's semaphore are exactly the calls that own one, never
\* more than its capacity: no path of Get, Put and Discard loses a token (the
\* device would end up never polled again) or returns one twice (pool.go:121-125,
\* 140, 157-165).
TokensAccounted ==
    \A h \in Hosts : sem[h] = Cardinality(Holders(h)) /\ sem[h] <= cap[h]

\* A session is never used by two workers, never used while it waits in an
\* idle stack and never in two places of the stacks; a session in use or idle
\* is open and connected to the device it is filed under. gosnmp sessions are not
\* safe for concurrent use, and a mix-up would poll the wrong device.
SessionsExclusive ==
    /\ \A w \in Workers : pc[w] \in SessionPoints <=> hold[w] # NoConn
    /\ \A w \in Workers : hold[w] # NoConn => home[hold[w]] = host[w]
    /\ \A v, w \in Workers : hold[v] = hold[w] /\ hold[v] # NoConn => v = w
    /\ \A h \in Hosts : \A i \in 1..Len(idle[h]) :
           /\ home[idle[h][i]] = h
           /\ \A w \in Workers : hold[w] # idle[h][i]
           /\ \A j \in 1..Len(idle[h]) : idle[h][i] = idle[h][j] => i = j

\* No session is lost: whatever is open is idle or in use (the leak a missing
\* Close on an error path would cause).
NoSessionLost ==
    \A c \in Conns : home[c] # NoHost =>
        \/ \E w \in Workers : hold[w] = c
        \/ \E i \in 1..Len(idle[home[c]]) : idle[home[c]][i] = c

\* A device never has more sockets open, idle ones and dials in progress
\* included, than its semaphore has places. It depends on the order of Put's
\* deferred calls: the session is on the idle stack before the token is free
\* (pool.go:140-151), so that the next caller finds it and does not dial.
SocketBound ==
    \A h \in Hosts : Cardinality(Sockets(h)) + Cardinality(Dialling(h)) <= cap[h]

\* When the workers have ended before Close starts (App.Stop, app.go:307-344)
\* Close leaves no socket behind, whatever the polls and dials ended like.
ClosedLeavesNoSocket ==
    closer = "done" /\ ~overtaken => \A h \in Hosts : Sockets(h) = {}

\* A session idle for longer than IdleTimeout is never handed out again
\* (popIdle, pool.go:239-244): it may be dead on the device's side.
NoStaleReuse ==
    [][\A w \in Workers, h \in Hosts : \A i \in 1..stale[h] :
           hold'[w] # idle[h][i]]_vars

\* A caller that waits for a token gets one, or is turned away by cancellation or
\* Close; no sequence of failures of other calls starves it (pool.go:106-112).
GetReturns ==
    \A w \in Workers : pc[w] = "acquire" ~> pc[w] # "acquire"

\* After Close no call keeps a session: those that were past the fast path
\* finish or are turned away, and later ones are rejected.
ClosedQuiesces ==
    closed ~> [](\A w \in Workers : pc[w] \notin SessionPoints)

-----------------------------------------------------------------------------

\* What a caller sees of its progress: it wants a session from the moment its
\* Get is past the fast path until the session (or the attempt) is given up.
Wants(w) == IF pc[w] \in {"acquire", "pop", "dial"} \cup SessionPoints
            THEN host[w] ELSE NoHost

Lease == INSTANCE SessionLease
         WITH limit <- cap, wants <- [w \in Workers |-> Wants(w)],
              lease <- hold, shut <- closed

\* The pool keeps the promise of SessionLease: exclusive sessions, at most
\* MaxConcurrentPolls of them per device at a time, a limit that the first call fixes,
\* and no request accepted after Close (poller/pool.go:92-94, 167).
LeaseSpec == Lease!Spec
=============================================================================
