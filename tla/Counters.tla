------------------------------ MODULE Counters ------------------------------
(***************************************************************************)
(* The counter deltas of internal/producer/metrics: CounterState           *)
(* (normalize.go) behind one mutex, called by the goroutines of the        *)
(* produce stage (app.go) through Build (poll.go), and the purger of       *)
(* app.go that forgets old entries.                                        *)
(*                                                                         *)
(* A device counter grows, wraps at its width and restarts from zero when  *)
(* the device reboots. A poll reads it, and several produce goroutines may *)
(* hand the readings to Delta in any order. The true growth is kept beside *)
(* the readings, as history the program does not have.                     *)
(***************************************************************************)
EXTENDS Integers

CONSTANTS
    Objects,       \* polled counters: one row of one object definition
    KeyOf,         \* CounterKey of an object: device, attribute name, instance
    Wraps,         \* the rollover boundaries an object may have, from its syntax
    MaxCounter32,  \* ^uint32(0)
    MaxCounter64,  \* ^uint64(0)
    Producers,     \* goroutines of the produce stage
    MaxAge,        \* three times CounterPurgeInterval
    NoSample,      \* "no entry" in the map, "no sample" in a goroutine's hands
    Increments,    \* by how much a counter grows between two polls
    MaxTotal,      \* bound: how much a counter grows altogether
    MaxBoots,      \* bound: reboots
    MaxTime        \* bound: the last instant

ASSUME WidthsAssumption ==
    /\ MaxCounter32 \in Nat /\ MaxCounter64 \in Nat
    /\ MaxCounter32 < MaxCounter64
ASSUME WrapsAssumption      == Wraps \subseteq [Objects -> {MaxCounter32, MaxCounter64}]
ASSUME IncrementsAssumption == Increments \subseteq 0..MaxCounter32
ASSUME MaxAgeAssumption     == MaxAge \in Nat
ASSUME BoundsAssumption     == {MaxTotal, MaxBoots, MaxTime} \subseteq Nat
\* "Counter64 would take ~46 years to wrap" (normalize.go:74-75).
ASSUME NoWrap64Assumption   == MaxTotal <= MaxCounter64
ASSUME NoSampleAssumption   == NoSample \notin [obj : Objects, value : 0..MaxCounter64, at : 0..MaxTime,
                                                total : 0..MaxTotal, boot : 0..MaxBoots]

VARIABLES
    wrap,      \* WrapForSyntax of each object, fixed by its definition
    now,       \* the clock
    reading,   \* what a device answers for a counter
    total,     \* by how much the counter has really grown since the start
    boots,     \* how often the device rebooted
    held,      \* the sample on its way to Delta with each produce goroutine
    entries,   \* CounterState.entries, NoSample where there is none
    credited,  \* the total at an object's first sample plus the deltas emitted
    newest,    \* history: the latest sample of an object that Delta has seen
    irregular  \* history: ways in which an object's samples were not regular

vars == <<wrap, now, reading, total, boots, held, entries, credited, newest, irregular>>

deviceVars == <<wrap, reading, total, boots>>
stateVars  == <<entries, credited, newest, irregular>>

Keys == {KeyOf[o] : o \in Objects}

Samples == [obj : Objects, value : 0..MaxCounter64, at : 0..MaxTime,
            total : 0..MaxTotal, boot : 0..MaxBoots]

\* The rollover boundary of a counter with the given syntax.
WrapForSyntax(syntax) == IF syntax = "Counter32" THEN MaxCounter32 ELSE MaxCounter64

\* Arithmetic on uint64, for a sum or difference that leaves the range once.
Uint64(n) == IF n < 0 THEN n + MaxCounter64 + 1
             ELSE IF n > MaxCounter64 THEN n - MaxCounter64 - 1 ELSE n

-----------------------------------------------------------------------------
(* Plausible bugs: each replaces one definition below, to show that a property *)
(* notices it. None is part of the specification.                              *)

\* The half-range rule applied to 64-bit counters as well.
isCounterResetHalf(prev, current, max) == Uint64(prev - current) <= max \div 2

-----------------------------------------------------------------------------
\* A decrease is a reboot, not a rollover: always for a 64-bit counter, and for
\* a 32-bit one unless it drops by more than half the range.
isCounterReset(prev, current, max) ==
    \/ max = MaxCounter64
    \/ Uint64(prev - current) <= max \div 2

\* The distance over the rollover.
Rollover(prev, current, max) == Uint64(Uint64(max - prev) + current + 1)

\* Delta without the look at the elapsed time.
EmittedAnyOrder(prev, s) ==
    IF prev = NoSample THEN 0
    ELSE IF s.value >= prev.value THEN s.value - prev.value
    ELSE IF isCounterReset(prev.value, s.value, wrap[s.obj]) THEN 0
    ELSE Rollover(prev.value, s.value, wrap[s.obj])

\* A signed difference, with no care for resets and rollovers.
EmittedSigned(prev, s) ==
    IF prev = NoSample \/ s.at <= prev.at THEN 0 ELSE s.value - prev.value

\* What Build emits for a sample, given the entry stored under its key: the
\* delta if Delta found one, 0 on a first sample, a reset or no time elapsed.
Emitted(prev, s) ==
    IF prev = NoSample \/ s.at <= prev.at THEN 0
    ELSE IF s.value >= prev.value THEN s.value - prev.value
    ELSE IF isCounterReset(prev.value, s.value, wrap[s.obj]) THEN 0
    ELSE Rollover(prev.value, s.value, wrap[s.obj])

\* The largest growth between two samples that Delta can tell from a reset.
Readable(o) == IF wrap[o] = MaxCounter64 THEN MaxCounter64 ELSE (wrap[o] + 1) \div 2

\* What makes sample s of an object irregular after its newest one. "late" is
\* judged when Delta runs: the purger goes by the clock, not by the sample.
Irregularities(s) ==
    LET n == newest[s.obj]
    IN  IF n = NoSample THEN {}
        ELSE {x \in {"order", "boot", "jump", "late"} :
                 \/ x = "order" /\ s.at <= n.at
                 \/ x = "boot"  /\ s.boot # n.boot
                 \/ x = "jump"  /\ s.total - n.total > Readable(s.obj)
                 \/ x = "late"  /\ now - n.at > MaxAge}

-----------------------------------------------------------------------------
\* The purger goes by a third of the age.
PurgeEarly ==
    LET old == {k \in Keys : entries[k] # NoSample /\ entries[k].at < now - MaxAge \div 3}
    IN  /\ old # {}
        /\ entries' = [k \in Keys |-> IF k \in old THEN NoSample ELSE entries[k]]
        /\ UNCHANGED <<now, deviceVars, held, credited, newest, irregular>>

-----------------------------------------------------------------------------

Init ==
    /\ wrap \in Wraps
    /\ now       = 0
    /\ reading   = [o \in Objects |-> 0]
    /\ total     = [o \in Objects |-> 0]
    /\ boots     = 0
    /\ held      = [p \in Producers |-> NoSample]
    /\ entries   = [k \in Keys |-> NoSample]
    /\ credited  = [o \in Objects |-> 0]
    /\ newest    = [o \in Objects |-> NoSample]
    /\ irregular = [o \in Objects |-> {}]

Tick ==
    /\ now < MaxTime
    /\ now' = now + 1
    /\ UNCHANGED <<deviceVars, held, stateVars>>

\* The reading of a counter once it has grown by d, rolling over at its width.
Advanced(o, d) == IF reading[o] + d > wrap[o] THEN reading[o] + d - wrap[o] - 1
                  ELSE reading[o] + d

\* The device reboots: all its counters restart.
Reboot ==
    /\ boots < MaxBoots
    /\ reading' = [o \in Objects |-> 0]
    /\ boots'   = boots + 1
    /\ UNCHANGED <<wrap, now, total, held, stateVars>>

\* A poll answers; result.CollectedAt is the time of the answer. Since the
\* poll before it (or the reboot) the counter grew by d. Which
\* goroutine p receives the sample from decodedCh is up to Go.
Poll(o, d, p) ==
    LET v == Advanced(o, d)
        t == total[o] + d
    IN  /\ held[p] = NoSample
        /\ t <= MaxTotal
        /\ reading' = [reading EXCEPT ![o] = v]
        /\ total'   = [total EXCEPT ![o] = t]
        /\ held'    = [held EXCEPT ![p] =
                          [obj |-> o, value |-> v, at |-> now, total |-> t, boot |-> boots]]
        /\ UNCHANGED <<wrap, now, boots, stateVars>>

\* Build calls Delta, which stores the sample before it looks at the old one.
Produce(p) ==
    LET s == held[p]
        o == s.obj
        k == KeyOf[o]
    IN  /\ s # NoSample
        /\ entries'  = [entries EXCEPT ![k] = s]
        /\ credited' = [credited EXCEPT ![o] =
                            Emitted(entries[k], s) + IF newest[o] = NoSample THEN s.total ELSE @]
        /\ held'     = [held EXCEPT ![p] = NoSample]
        /\ newest'   = [newest EXCEPT ![o] =
                            IF @ = NoSample \/ @.at <= s.at THEN s ELSE @]
        /\ irregular' = [irregular EXCEPT ![o] = @ \cup Irregularities(s)]
        /\ UNCHANGED <<now, deviceVars>>

\* One tick of the purger, at any time, under the mutex of CounterState.
Purge ==
    LET old == {k \in Keys : entries[k] # NoSample /\ entries[k].at < now - MaxAge}
    IN  /\ old # {}
        /\ entries' = [k \in Keys |-> IF k \in old THEN NoSample ELSE entries[k]]
        /\ UNCHANGED <<now, deviceVars, held, credited, newest, irregular>>

Next ==
    \/ Tick
    \/ Reboot
    \/ \E o \in Objects, d \in Increments, p \in Producers : Poll(o, d, p)
    \/ \E p \in Producers : Produce(p)
    \/ Purge

Spec == Init /\ [][Next]_vars

-----------------------------------------------------------------------------
\* Readings stay within the width of their counter and emitted deltas are
\* unsigned (DeltaResult.Delta is "always >= 0", normalize.go:51).
TypeOK ==
    /\ wrap \in Wraps
    /\ now \in 0..MaxTime
    /\ reading \in [Objects -> 0..MaxCounter64]
    /\ \A o \in Objects : reading[o] <= wrap[o]
    /\ total \in [Objects -> 0..MaxTotal]
    /\ boots \in 0..MaxBoots
    /\ held \in [Producers -> Samples \cup {NoSample}]
    /\ entries \in [Keys -> Samples \cup {NoSample}]
    /\ credited \in [Objects -> Nat]
    /\ newest \in [Objects -> Samples \cup {NoSample}]
    /\ irregular \in [Objects -> SUBSET {"order", "boot", "jump", "late"}]

\* A delta is the growth of the counter between the two samples it is computed
\* from, whatever the order in which the goroutines bring the samples, across a
\* rollover too, as long as the device did not reboot and grew by no more than
\* half the range of a 32-bit counter; a sample that is not newer than the stored
\* one counts nothing (normalize.go:85-119, 130-140).
DeltaIsGrowth ==
    [][\A p \in Producers :
          LET s      == held[p]
              prev   == entries[KeyOf[s.obj]]
              growth == s.total - prev.total
          IN  held[p] # NoSample /\ held'[p] = NoSample /\ prev # NoSample
              /\ s.boot = prev.boot /\ growth <= Readable(s.obj)
              => credited'[s.obj] - credited[s.obj] = IF s.at > prev.at THEN growth ELSE 0]_vars

\* The deltas of an object never add up to more than it grew between its first
\* and its newest sample, in spite of lost baselines, jumps and, for a 64-bit
\* counter, reboots, as long as its samples reach Delta in the order they were
\* taken ("no false spike", normalize.go:106-108). It needs the object to have its
\* key for itself ("isolated per object row", normalize.go:13-14).
NoOvercount ==
    \A o \in Objects :
        newest[o] # NoSample /\ "order" \notin irregular[o]
        /\ (wrap[o] = MaxCounter64 \/ "boot" \notin irregular[o])
        => credited[o] <= newest[o].total

\* No growth goes missing either while the samples are regular: the deltas
\* telescope, and the purger never takes the baseline of a counter whose
\* previous sample is no older than MaxAge when the next one is processed
\* (normalize.go:153-166, app.go:562-583).
NoGrowthLost ==
    \A o \in Objects :
        newest[o] # NoSample /\ irregular[o] = {}
        => credited[o] = newest[o].total
=============================================================================
