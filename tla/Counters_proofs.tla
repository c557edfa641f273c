-------------------------- MODULE Counters_proofs --------------------------
(***************************************************************************)
(* Proofs about Counters: its types, and that every delta is the growth of *)
(* the counter. The invariant they rest on relates any two samples the     *)
(* program still knows, wherever they are, and each of them to the device: *)
(* their values differ by the growth between them, less one turn of the    *)
(* counter at most, and the later one has the larger total.                *)
(***************************************************************************)
EXTENDS Counters, TLAPS

\* Every sample on its way, stored, or the newest of its object.
Known == {held[p] : p \in Producers} \cup {entries[k] : k \in Keys}
            \cup {newest[o] : o \in Objects}

\* How the values of an earlier and a later reading of one counter, of width w,
\* relate when it grew from total a to total b in between.
Agree(v, a, x, b, w) == b - a <= w => x = v + (b - a) \/ x = v + (b - a) - (w + 1)

\* Two known samples of one object: since one reboot they agree, and after a reboot
\* the later one has counted no more than the growth since the earlier.
PairsAgree ==
    \A s, t \in Known \ {NoSample} :
        s.obj = t.obj =>
            /\ s.at < t.at => s.total <= t.total /\ s.boot <= t.boot
            /\ s.boot < t.boot => t.value <= t.total - s.total
            /\ s.boot = t.boot /\ s.total <= t.total =>
                   Agree(s.value, s.total, t.value, t.total, wrap[s.obj])

\* A known sample and the device as it is now.
DeviceAgrees ==
    \A s \in Known \ {NoSample} :
        /\ s.at <= now /\ s.boot <= boots
        /\ s.total <= total[s.obj]
        /\ s.value <= s.total
        /\ s.value <= wrap[s.obj]
        /\ s.boot < boots => reading[s.obj] <= total[s.obj] - s.total
        /\ s.boot = boots => Agree(s.value, s.total, reading[s.obj], total[s.obj], wrap[s.obj])

ReadingsBounded == \A o \in Objects : reading[o] <= total[o]

\* An entry is stored under the key of its object, which Delta has seen.
KeysMatch ==
    \A k \in Keys : entries[k] # NoSample =>
        KeyOf[entries[k].obj] = k /\ newest[entries[k].obj] # NoSample

CountersInv == TypeOK /\ ReadingsBounded /\ DeviceAgrees /\ PairsAgree /\ KeysMatch

\* The newest sample of an object is its own, and while the samples come in order
\* it is the stored one, unless the purger has found it too old.
BaselineIsNewest ==
    \A o \in Objects :
        newest[o] # NoSample =>
            /\ newest[o].obj = o
            /\ "order" \notin irregular[o] =>
                   \/ entries[KeyOf[o]] = newest[o]
                   \/ entries[KeyOf[o]] = NoSample /\ newest[o].at < now - MaxAge

LedgerInv == CountersInv /\ BaselineIsNewest /\ NoOvercount /\ NoGrowthLost

-----------------------------------------------------------------------------
\* The bounds as numbers, and the widths of the counters.
LEMMA Numbers ==
    /\ MaxTotal \in Nat /\ MaxBoots \in Nat /\ MaxTime \in Nat /\ MaxAge \in Nat
    /\ MaxCounter32 \in Nat /\ MaxCounter64 \in Nat
    /\ MaxCounter32 < MaxCounter64 /\ MaxTotal <= MaxCounter64
    /\ \A d \in Increments : d \in Nat /\ d <= MaxCounter32
BY WidthsAssumption, BoundsAssumption, MaxAgeAssumption, NoWrap64Assumption,
   IncrementsAssumption

\* TypeOK, as facts about single objects, goroutines and keys.
LEMMA Typed ==
    ASSUME TypeOK
    PROVE  /\ \A o \in Objects :
                  /\ wrap[o] \in {MaxCounter32, MaxCounter64}
                  /\ wrap[o] \in Nat /\ MaxCounter32 <= wrap[o] /\ wrap[o] <= MaxCounter64
                  /\ reading[o] \in Nat /\ reading[o] <= wrap[o]
                  /\ total[o] \in Nat /\ total[o] <= MaxTotal
           /\ boots \in Nat /\ now \in Nat
           /\ \A s \in Known \ {NoSample} : s \in Samples
<1>1. \A o \in Objects : wrap[o] \in {MaxCounter32, MaxCounter64}
  BY WrapsAssumption DEF TypeOK
<1>2. \A o \in Objects : /\ reading[o] \in Nat /\ reading[o] <= wrap[o]
                         /\ total[o] \in Nat /\ total[o] <= MaxTotal
  <2>1. \A o \in Objects : reading[o] \in 0..MaxCounter64 /\ total[o] \in 0..MaxTotal
    BY DEF TypeOK
  <2>2. \A o \in Objects : reading[o] <= wrap[o]
    BY DEF TypeOK
  <2>3. \A n \in Nat : \A x \in 0..n : x \in Nat /\ x <= n
    OBVIOUS
  <2>4. \A o \in Objects : /\ reading[o] \in Nat
                           /\ total[o] \in Nat /\ total[o] <= MaxTotal
    BY <2>1, <2>3, Numbers
  <2> QED BY <2>2, <2>4
<1>3. boots \in Nat /\ now \in Nat
  BY DEF TypeOK
<1>4. \A s \in Known \ {NoSample} : s \in Samples
  BY DEF TypeOK, Known
<1> QED BY <1>1, <1>2, <1>3, <1>4, Numbers

\* The fields of a sample.
LEMMA Fields ==
    ASSUME NEW s \in Samples
    PROVE  /\ s.obj \in Objects
           /\ s.value \in Nat /\ s.value <= MaxCounter64
           /\ s.at \in Nat /\ s.total \in Nat /\ s.boot \in Nat
           /\ s # NoSample
BY Numbers, NoSampleAssumption DEF Samples

\* What Build emits is never negative.
LEMMA EmittedIsNatural ==
    ASSUME TypeOK, NEW s \in Samples, NEW prev \in Samples \cup {NoSample}
    PROVE  Emitted(prev, s) \in Nat
<1>1. CASE prev = NoSample \/ s.at <= prev.at
  BY <1>1 DEF Emitted
<1>2. CASE ~(prev = NoSample \/ s.at <= prev.at)
  <2>1. prev \in Samples /\ prev.value \in Nat /\ s.value \in Nat /\ s.obj \in Objects
        /\ prev.value <= MaxCounter64 /\ s.value <= MaxCounter64
    BY <1>2, Fields
  <2>2. wrap[s.obj] \in Nat /\ wrap[s.obj] <= MaxCounter64 /\ MaxCounter64 \in Nat
    BY <2>1, Typed, Numbers
  <2>3. s.value < prev.value => Rollover(prev.value, s.value, wrap[s.obj]) \in Nat
    BY <1>2, <2>1, <2>2 DEF Rollover, Uint64
  <2> QED BY <1>2, <2>1, <2>3 DEF Emitted
<1> QED BY <1>1, <1>2

-----------------------------------------------------------------------------
\* A step after which the program knows no new sample, with the counters as they
\* were, leaves the readings consistent.
LEMMA KnownShrinks ==
    ASSUME DeviceAgrees, PairsAgree, UNCHANGED <<wrap, reading, total, boots>>,
           now \in Nat, now' \in Nat, now <= now',
           \A s \in Known \ {NoSample} : s.at \in Nat,
           Known' \ {NoSample} \subseteq Known
    PROVE  DeviceAgrees' /\ PairsAgree'
BY DEF DeviceAgrees, PairsAgree

\* The arithmetic of a poll: a sample that agreed with the device still does
\* after the counter has grown by d and perhaps rolled over.
LEMMA GrowthAgrees ==
    ASSUME NEW v \in Nat, NEW a \in Nat, NEW x \in Nat, NEW b \in Nat, NEW w \in Nat,
           NEW d \in Nat, d <= w, v <= w, x <= w, a <= b, Agree(v, a, x, b, w)
    PROVE  Agree(v, a, IF x + d > w THEN x + d - w - 1 ELSE x + d, b + d, w)
BY DEF Agree

\* A reading equal to the total agrees with itself, and with an older one
\* when nothing was counted in between.
LEMMA Backwards ==
    ASSUME NEW v \in Nat, NEW a \in Nat, NEW x \in Nat, NEW b \in Nat, NEW w \in Nat,
           v <= w, x <= w, a <= b, b <= a, Agree(v, a, x, b, w)
    PROVE  Agree(x, b, v, a, w)
BY DEF Agree

\* No step mixes up the samples.
LEMMA AgreementStep ==
    ASSUME TypeOK, ReadingsBounded, DeviceAgrees, PairsAgree, [Next]_vars
    PROVE  ReadingsBounded' /\ DeviceAgrees' /\ PairsAgree'
<1>1. now \in Nat /\ \A s \in Known \ {NoSample} : s.at \in Nat
  BY Typed, Fields
<1>2. CASE Tick
  <2>1. Known' = Known /\ now' = now + 1 /\ UNCHANGED <<wrap, reading, total, boots>>
    BY <1>2 DEF Tick, Known, Keys, deviceVars, stateVars
  <2>2. now' \in Nat /\ now <= now'
    BY <1>1, <2>1
  <2> QED BY <1>1, <2>1, <2>2, KnownShrinks DEF ReadingsBounded
<1>3. CASE Reboot
  <2>1. /\ Known' = Known /\ boots' = boots + 1
        /\ reading' = [o \in Objects |-> 0] /\ UNCHANGED <<wrap, now, total>>
    BY <1>3 DEF Reboot, Known, Keys, stateVars
  <2>2. \A s \in Known \ {NoSample} : s.boot \in Nat /\ s.obj \in Objects /\ s.total \in Nat
    BY Typed, Fields
  <2>3. DeviceAgrees'
    BY <2>1, <2>2, Typed DEF DeviceAgrees
  <2>4. PairsAgree'
    BY <2>1 DEF PairsAgree
  <2> QED BY <2>1, <2>3, <2>4, Typed DEF ReadingsBounded
<1>4. ASSUME NEW o \in Objects, NEW d \in Increments, NEW p \in Producers, Poll(o, d, p)
      PROVE  ReadingsBounded' /\ DeviceAgrees' /\ PairsAgree'
  <2> DEFINE w == wrap[o]
             x == Advanced(o, d)
             y == total[o] + d
             t == [obj |-> o, value |-> x, at |-> now, total |-> y, boot |-> boots]
  <2>1. /\ reading' = [reading EXCEPT ![o] = x]
        /\ total' = [total EXCEPT ![o] = y]
        /\ held' = [held EXCEPT ![p] = t]
        /\ UNCHANGED <<wrap, now, boots, entries, newest>>
    BY <1>4 DEF Poll, stateVars
  <2>2. Known' \subseteq Known \cup {t}
    BY <2>1 DEF Known, Keys, TypeOK
  <2>3. /\ \A q \in Objects : reading'[q] = IF q = o THEN x ELSE reading[q]
        /\ \A q \in Objects : total'[q] = IF q = o THEN y ELSE total[q]
    BY <2>1 DEF TypeOK
  <2>4. /\ w \in Nat /\ d \in Nat /\ d <= w /\ reading[o] \in Nat /\ reading[o] <= w
        /\ total[o] \in Nat /\ reading[o] <= total[o] /\ boots \in Nat
    BY Typed, Numbers DEF ReadingsBounded
  <2>5. x \in Nat /\ x <= w /\ y \in Nat /\ x <= y /\ total[o] <= y
    BY <2>4 DEF Advanced
  <2>6. t.obj = o /\ t.value = x /\ t.at = now /\ t.total = y /\ t.boot = boots
    OBVIOUS
  <2>7. \A s \in Known \ {NoSample} :
            /\ s.obj \in Objects /\ s.value \in Nat /\ s.at \in Nat
            /\ s.total \in Nat /\ s.boot \in Nat
    BY Typed, Fields
  <2>8. \A s \in Known \ {NoSample} : s.obj = o /\ s.boot = boots =>
            Agree(s.value, s.total, x, y, w)
    BY <2>4, <2>7, GrowthAgrees DEF DeviceAgrees, Advanced
  <2>81. \A s \in Known \ {NoSample} : s.obj = o /\ s.boot < boots => x <= y - s.total
    BY <2>4, <2>7 DEF DeviceAgrees, Advanced
  <2>9. ReadingsBounded'
    BY <2>3, <2>5 DEF ReadingsBounded
  <2> HIDE DEF t, x, y, w
  <2>10. Agree(x, y, x, y, w)
    BY <2>4, <2>5 DEF Agree
  <2>11. ASSUME NEW s \in Known' \ {NoSample}
         PROVE  /\ s.at <= now' /\ s.boot <= boots'
                /\ s.total <= total'[s.obj] /\ s.value <= s.total
                /\ s.value <= wrap'[s.obj]
                /\ s.boot < boots' => reading'[s.obj] <= total'[s.obj] - s.total
                /\ s.boot = boots' =>
                     Agree(s.value, s.total, reading'[s.obj], total'[s.obj], wrap'[s.obj])
    <3>1. CASE s = t
      BY <1>1, <2>1, <2>3, <2>4, <2>5, <2>6, <2>10, <3>1 DEF w
    <3>2. CASE s \in Known /\ s.obj = o
      <4>1. s \in Known \ {NoSample} /\ s.total \in Nat /\ s.boot \in Nat
        BY <2>7, <3>2
      <4>2. /\ s.at <= now /\ s.boot <= boots /\ s.total <= total[o]
            /\ s.value <= s.total /\ s.value <= w
        BY <3>2, <4>1 DEF DeviceAgrees, w
      <4>3. s.total <= y
        BY <2>4, <2>5, <4>1, <4>2
      <4>4. /\ s.boot < boots => x <= y - s.total
            /\ s.boot = boots => Agree(s.value, s.total, x, y, w)
        BY <2>8, <2>81, <3>2, <4>1
      <4>5. /\ reading'[s.obj] = x /\ total'[s.obj] = y /\ wrap'[s.obj] = w
            /\ now' = now /\ boots' = boots
        BY <2>1, <2>3, <3>2 DEF w
      <4> QED BY <4>2, <4>3, <4>4, <4>5
    <3>3. CASE s \in Known /\ s.obj # o
      BY <2>1, <2>3, <2>7, <3>3 DEF DeviceAgrees
    <3> QED BY <2>2, <3>1, <3>2, <3>3
  <2>12. ASSUME NEW s \in Known, s # NoSample, s.obj = o
         PROVE  /\ s.at <= now /\ s.total <= y /\ s.boot <= boots
                /\ s.boot = boots /\ y <= s.total => Agree(x, y, s.value, s.total, w)
    <3>1. s.at <= now /\ s.boot <= boots /\ s.total <= total[o] /\ s.value <= w
      BY <2>12 DEF DeviceAgrees, w
    <3>2. s.total <= y
      BY <2>4, <2>5, <2>7, <2>12, <3>1
    <3> QED BY <2>5, <2>7, <2>8, <2>12, <2>4, <3>1, <3>2, Backwards
  <2>13. PairsAgree'
    <3> SUFFICES ASSUME NEW s \in Known' \ {NoSample}, NEW u \in Known' \ {NoSample}, s.obj = u.obj
                 PROVE  /\ s.at < u.at => s.total <= u.total /\ s.boot <= u.boot
                        /\ s.boot < u.boot => u.value <= u.total - s.total
                        /\ s.boot = u.boot /\ s.total <= u.total =>
                               Agree(s.value, s.total, u.value, u.total, wrap'[s.obj])
      BY DEF PairsAgree
    <3>1. CASE s = t /\ u = t
      BY <1>1, <2>1, <2>4, <2>5, <2>6, <2>10, <3>1 DEF w
    <3>2. CASE s \in Known /\ u = t
      BY <2>1, <2>6, <2>8, <2>81, <2>12, <3>2 DEF w
    <3>3. CASE s = t /\ u \in Known
      <4>1. /\ u.at <= now /\ u.boot <= boots /\ u.boot \in Nat /\ u.at \in Nat
            /\ u.boot = boots /\ y <= u.total => Agree(x, y, u.value, u.total, w)
        BY <2>6, <2>7, <2>12, <3>3
      <4> QED BY <1>1, <2>1, <2>4, <2>6, <3>3, <4>1 DEF w
    <3>4. CASE s \in Known /\ u \in Known
      BY <2>1, <3>4 DEF PairsAgree
    <3> QED BY <2>2, <3>1, <3>2, <3>3, <3>4
  <2>14. DeviceAgrees'
    BY <2>11 DEF DeviceAgrees
  <2> QED BY <2>9, <2>13, <2>14
<1>5. ASSUME NEW p \in Producers, Produce(p)
      PROVE  ReadingsBounded' /\ DeviceAgrees' /\ PairsAgree'
  <2> DEFINE s == held[p]
  <2>1. /\ entries' = [entries EXCEPT ![KeyOf[s.obj]] = s]
        /\ held' = [held EXCEPT ![p] = NoSample]
        /\ newest' = [newest EXCEPT ![s.obj] = IF @ = NoSample \/ @.at <= s.at THEN s ELSE @]
        /\ UNCHANGED <<wrap, now, reading, total, boots>>
    BY <1>5 DEF Produce, deviceVars
  <2>2. s \in Known
    BY DEF Known
  <2> HIDE DEF s
  <2>3. /\ \A q \in Producers : held'[q] \in Known \cup {NoSample}
        /\ \A k \in Keys : entries'[k] \in Known
        /\ \A o \in Objects : newest'[o] \in Known
    BY <2>1, <2>2 DEF Known, TypeOK
  <2>4. Known' \ {NoSample} \subseteq Known
    BY <2>3 DEF Known, Keys
  <2> QED BY <1>1, <2>1, <2>4, KnownShrinks DEF ReadingsBounded
<1>6. CASE Purge
  <2>1. /\ \A k \in Keys : entries'[k] \in {entries[k], NoSample}
        /\ UNCHANGED <<wrap, now, reading, total, boots, held, newest>>
    BY <1>6 DEF Purge, deviceVars
  <2>2. Known' \ {NoSample} \subseteq Known
    BY <2>1 DEF Known, Keys
  <2> QED BY <1>1, <2>1, <2>2, KnownShrinks DEF ReadingsBounded
<1>7. CASE UNCHANGED vars
  <2>1. Known' = Known /\ UNCHANGED <<wrap, now, reading, total, boots>>
    BY <1>7 DEF vars, Known, Keys
  <2> QED BY <1>1, <2>1, KnownShrinks DEF ReadingsBounded
<1> QED BY <1>2, <1>3, <1>4, <1>5, <1>6, <1>7 DEF Next

-----------------------------------------------------------------------------
\* Types are kept.
LEMMA TypeStep ==
    ASSUME TypeOK, [Next]_vars
    PROVE  TypeOK'
<1> USE DEF deviceVars, stateVars
<1>1. \A o \in Objects : reading[o] \in 0..MaxCounter64 /\ reading[o] <= wrap[o]
  BY DEF TypeOK
<1>2. CASE Tick
  <2>1. now' \in 0..MaxTime
    BY <1>2, Numbers DEF Tick, TypeOK
  <2> QED BY <1>2, <2>1 DEF Tick, TypeOK
<1>3. CASE Reboot
  <2>1. boots' \in 0..MaxBoots
    BY <1>3, Numbers DEF Reboot, TypeOK
  <2>2. /\ reading' = [o \in Objects |-> 0]
        /\ UNCHANGED <<wrap, now, total, held, entries, credited, newest, irregular>>
    BY <1>3 DEF Reboot
  <2>3. reading' \in [Objects -> 0..MaxCounter64] /\ \A o \in Objects : reading'[o] <= wrap'[o]
    BY <2>2, Typed, Numbers
  <2> QED BY <2>1, <2>2, <2>3 DEF TypeOK
<1>4. ASSUME NEW o \in Objects, NEW d \in Increments, NEW p \in Producers, Poll(o, d, p)
      PROVE  TypeOK'
  <2> DEFINE x == Advanced(o, d)
             y == total[o] + d
             t == [obj |-> o, value |-> x, at |-> now, total |-> y, boot |-> boots]
  <2>1. /\ reading' = [reading EXCEPT ![o] = x]
        /\ total' = [total EXCEPT ![o] = y] /\ y <= MaxTotal
        /\ held' = [held EXCEPT ![p] = t]
        /\ UNCHANGED <<wrap, now, boots, entries, credited, newest, irregular>>
    BY <1>4 DEF Poll
  <2>2. /\ wrap[o] \in Nat /\ wrap[o] <= MaxCounter64 /\ MaxCounter64 \in Nat /\ MaxTotal \in Nat
        /\ d \in Nat /\ d <= wrap[o]
        /\ reading[o] \in Nat /\ reading[o] <= wrap[o] /\ total[o] \in Nat
    BY Typed, Numbers
  <2>3. x \in 0..MaxCounter64 /\ x <= wrap[o] /\ y \in 0..MaxTotal
    BY <2>1, <2>2 DEF Advanced
  <2>4. t \in Samples
    BY <2>3 DEF Samples, TypeOK
  <2> HIDE DEF x, y, t
  <2>5. reading' \in [Objects -> 0..MaxCounter64] /\ \A q \in Objects : reading'[q] <= wrap'[q]
    BY <1>1, <2>1, <2>3 DEF TypeOK
  <2>6. total' \in [Objects -> 0..MaxTotal] /\ held' \in [Producers -> Samples \cup {NoSample}]
    BY <2>1, <2>3, <2>4 DEF TypeOK
  <2> QED BY <2>1, <2>5, <2>6 DEF TypeOK
<1>5. ASSUME NEW p \in Producers, Produce(p) PROVE TypeOK'
  <2> DEFINE s == held[p]
             o == s.obj
             k == KeyOf[o]
             e == Emitted(entries[k], s)
  <2>1. /\ s # NoSample
        /\ entries' = [entries EXCEPT ![k] = s]
        /\ held' = [held EXCEPT ![p] = NoSample]
        /\ UNCHANGED <<wrap, now, reading, total, boots>>
    BY <1>5 DEF Produce
  <2>2. s \in Samples /\ o \in Objects /\ s.total \in Nat
    BY <2>1, Fields DEF TypeOK
  <2>3. k \in Keys
    BY <2>2 DEF Keys
  <2>4. e \in Nat
    BY <2>2, <2>3, EmittedIsNatural DEF TypeOK
  <2>5. credited' = [credited EXCEPT ![o] = e + IF newest[o] = NoSample THEN s.total ELSE @]
    BY <1>5 DEF Produce
  <2>6. newest' = [newest EXCEPT ![o] = IF @ = NoSample \/ @.at <= s.at THEN s ELSE @]
    BY <1>5 DEF Produce
  <2>7. irregular' = [irregular EXCEPT ![o] = @ \cup Irregularities(s)]
    BY <1>5 DEF Produce
  <2>8. Irregularities(s) \subseteq {"order", "boot", "jump", "late"}
    BY DEF Irregularities
  <2> HIDE DEF s, o, k, e
  <2>9. credited[o] \in Nat /\ newest[o] \in Samples \cup {NoSample}
    BY <2>2 DEF TypeOK
  <2>10. credited' \in [Objects -> Nat]
    <3>1. e + s.total \in Nat /\ e + credited[o] \in Nat
      BY <2>2, <2>4, <2>9
    <3> QED BY <2>2, <2>5, <3>1 DEF TypeOK
  <2>11. newest' \in [Objects -> Samples \cup {NoSample}]
    BY <2>2, <2>6 DEF TypeOK
  <2>12. irregular' \in [Objects -> SUBSET {"order", "boot", "jump", "late"}]
    BY <2>7, <2>8 DEF TypeOK
  <2>13. entries' \in [Keys -> Samples \cup {NoSample}] /\ held' \in [Producers -> Samples \cup {NoSample}]
    BY <2>1, <2>2, <2>3 DEF TypeOK
  <2> QED BY <2>1, <2>10, <2>11, <2>12, <2>13 DEF TypeOK
<1>6. CASE Purge
  <2>1. /\ entries' \in [Keys -> Samples \cup {NoSample}]
        /\ UNCHANGED <<wrap, now, reading, total, boots, held, credited, newest, irregular>>
    BY <1>6 DEF Purge, TypeOK
  <2> QED BY <2>1 DEF TypeOK
<1>7. CASE UNCHANGED vars
  BY <1>7 DEF vars, TypeOK
<1> QED BY <1>2, <1>3, <1>4, <1>5, <1>6, <1>7 DEF Next

\* Entries stay under the key of their object.
LEMMA KeysStep ==
    ASSUME TypeOK, KeysMatch, [Next]_vars
    PROVE  KeysMatch'
<1>1. \A k \in Keys : entries[k] # NoSample => entries[k].obj \in Objects
  BY Fields DEF TypeOK
<1>2. ASSUME NEW p \in Producers, Produce(p) PROVE KeysMatch'
  <2> DEFINE s == held[p]
             o == s.obj
  <2>1. /\ s # NoSample
        /\ entries' = [entries EXCEPT ![KeyOf[o]] = s]
        /\ newest' = [newest EXCEPT ![o] = IF @ = NoSample \/ @.at <= s.at THEN s ELSE @]
    BY <1>2 DEF Produce
  <2>2. o \in Objects
    BY <2>1, Fields DEF TypeOK
  <2> HIDE DEF s
  <2>3. newest'[o] # NoSample /\ \A q \in Objects : q # o => newest'[q] = newest[q]
    BY <2>1, <2>2 DEF TypeOK
  <2>4. \A k \in Keys : entries'[k] = IF k = KeyOf[o] THEN s ELSE entries[k]
    BY <2>1 DEF TypeOK
  <2> QED BY <1>1, <2>1, <2>2, <2>3, <2>4 DEF KeysMatch, Keys
<1>3. CASE Purge
  <2>1. (\A k \in Keys : entries'[k] \in {entries[k], NoSample}) /\ UNCHANGED newest
    BY <1>3 DEF Purge
  <2> QED BY <2>1 DEF KeysMatch, Keys
<1>4. CASE UNCHANGED <<entries, newest>>
  BY <1>4 DEF KeysMatch, Keys
<1> QED BY <1>2, <1>3, <1>4 DEF Next, Tick, Reboot, Poll, stateVars, vars

\* CountersInv holds at the start and is kept by every step.
LEMMA Inductive ==
    /\ Init => CountersInv
    /\ CountersInv /\ [Next]_vars => CountersInv'
<1>1. ASSUME Init PROVE CountersInv
  <2>1. \A o \in Objects : wrap[o] \in {MaxCounter32, MaxCounter64}
    BY <1>1, WrapsAssumption DEF Init
  <2>2. Known \subseteq {NoSample} /\ \A k \in Keys : entries[k] = NoSample
    BY <1>1 DEF Init, Known
  <2>3. TypeOK
    BY <1>1, <2>1, Numbers DEF Init, TypeOK
  <2> QED BY <1>1, <2>2, <2>3
          DEF Init, CountersInv, ReadingsBounded, DeviceAgrees, PairsAgree, KeysMatch
<1>2. CountersInv /\ [Next]_vars => CountersInv'
  BY TypeStep, AgreementStep, KeysStep DEF CountersInv
<1> QED BY <1>1, <1>2

\* Readings stay within their width and nothing unsigned goes below zero, in
\* every run of any size (the types of normalize.go).
THEOREM Typing == Spec => []TypeOK
<1>1. CountersInv => TypeOK
  BY DEF CountersInv
<1> QED BY Inductive, <1>1, PTL DEF Spec

-----------------------------------------------------------------------------
\* The arithmetic of Delta: for two readings of one counter that agree with
\* the growth between them, what it computes is that growth.
LEMMA EmittedIsGrowth ==
    ASSUME TypeOK, DeviceAgrees, PairsAgree,
           NEW s \in Known \ {NoSample}, NEW prev \in Known \ {NoSample},
           s.obj = prev.obj, s.boot = prev.boot, s.total - prev.total <= Readable(s.obj)
    PROVE  Emitted(prev, s) = IF s.at > prev.at THEN s.total - prev.total ELSE 0
<1> DEFINE w == wrap[s.obj]
           g == s.total - prev.total
<1>1. /\ s.value \in Nat /\ s.at \in Nat /\ s.total \in Nat /\ s.obj \in Objects
      /\ prev.value \in Nat /\ prev.at \in Nat /\ prev.total \in Nat
      /\ w \in Nat /\ w <= MaxCounter64 /\ MaxCounter32 <= w
      /\ w \in {MaxCounter32, MaxCounter64}
      /\ MaxCounter64 \in Nat /\ MaxCounter32 \in Nat /\ MaxTotal \in Nat
      /\ MaxTotal <= MaxCounter64 /\ MaxCounter32 < MaxCounter64
  BY Typed, Fields, Numbers
<1>2. s.value <= w /\ prev.value <= w /\ prev.value <= prev.total /\ s.total <= MaxTotal
  BY Typed, Numbers DEF DeviceAgrees, Samples
<1>3. CASE ~(s.at > prev.at)
  BY <1>1, <1>3 DEF Emitted
<1>4. CASE s.at > prev.at
  <2>1. prev.total <= s.total
    BY <1>1, <1>4 DEF PairsAgree
  <2>2. g \in Nat /\ g <= w
    BY <1>1, <2>1 DEF Readable
  <2>3. s.value = prev.value + g \/ s.value = prev.value + g - (w + 1)
    BY <1>1, <2>1, <2>2 DEF PairsAgree, Agree
  <2>4. prev # NoSample /\ ~(s.at <= prev.at)
    BY <1>1, <1>4
  <2>5. CASE s.value = prev.value + g
    BY <1>1, <1>4, <2>2, <2>4, <2>5 DEF Emitted
  <2>6. CASE s.value = prev.value + g - (w + 1)
    <3>1. w # MaxCounter64
      BY <1>1, <1>2, <2>2, <2>6
    <3>2. g <= (w + 1) \div 2
      BY <3>1 DEF Readable
    <3>3. prev.value - s.value > w \div 2 /\ s.value < prev.value
      BY <1>1, <2>2, <2>6, <3>2
    <3>4. ~isCounterReset(prev.value, s.value, w)
      BY <1>1, <1>2, <3>1, <3>3 DEF isCounterReset, Uint64
    <3>5. Rollover(prev.value, s.value, w) = g
      BY <1>1, <1>2, <2>2, <2>6 DEF Rollover, Uint64
    <3> QED BY <1>1, <1>4, <2>4, <3>3, <3>4, <3>5 DEF Emitted
  <2> QED BY <2>3, <2>5, <2>6
<1> QED BY <1>3, <1>4

\* Whatever the order in which any number of goroutines bring the samples, and
\* across rollovers, the delta Build emits is the growth of the counter between
\* the two samples (CounterState.Delta), for all widths, when every object has
\* its own CounterKey.
THEOREM DeltaIsAlwaysGrowth ==
    ASSUME \A a, b \in Objects : KeyOf[a] = KeyOf[b] => a = b
    PROVE  Spec => DeltaIsGrowth
<1>1. ASSUME CountersInv, [Next]_vars, NEW p \in Producers, held[p] # NoSample, held'[p] = NoSample
      PROVE  Produce(p)
  <2>1. ASSUME NEW q \in Producers, Produce(q) PROVE q = p
    BY <1>1, <2>1 DEF Produce, CountersInv, TypeOK
  <2>2. ASSUME NEW o \in Objects, NEW d \in Increments, NEW q \in Producers, Poll(o, d, q)
        PROVE  FALSE
    <3> DEFINE t == [obj |-> o, value |-> Advanced(o, d), at |-> now,
                     total |-> total[o] + d, boot |-> boots]
    <3>1. held' = [held EXCEPT ![q] = t] /\ held[q] = NoSample
      BY <2>2 DEF Poll
    <3> HIDE DEF t
    <3>2. q # p
      BY <1>1, <3>1
    <3> QED BY <1>1, <3>1, <3>2 DEF CountersInv, TypeOK
  <2>3. ~UNCHANGED held
    BY <1>1
  <2> QED BY <1>1, <2>1, <2>2, <2>3
          DEF Next, Tick, Reboot, Purge, vars, stateVars, deviceVars
<1>2. ASSUME CountersInv, [Next]_vars, NEW p \in Producers, held[p] # NoSample, held'[p] = NoSample,
             NEW s, s = held[p], NEW prev, prev = entries[KeyOf[s.obj]],
             prev # NoSample, s.boot = prev.boot, s.total - prev.total <= Readable(s.obj)
      PROVE  credited'[s.obj] - credited[s.obj]
                 = IF s.at > prev.at THEN s.total - prev.total ELSE 0
  <2>1. Produce(p)
    BY <1>1, <1>2
  <2>2. s \in Known \ {NoSample} /\ s \in Samples /\ s.obj \in Objects
        /\ s.total \in Nat /\ s.at \in Nat
    BY <1>2, Typed, Fields DEF CountersInv, Known
  <2>3. KeyOf[s.obj] \in Keys
    BY <2>2 DEF Keys
  <2>4. prev \in Known \ {NoSample} /\ prev \in Samples /\ prev.obj \in Objects
        /\ prev.total \in Nat /\ prev.at \in Nat
    BY <1>2, <2>3, Typed, Fields DEF CountersInv, Known
  <2>5. prev.obj = s.obj /\ newest[s.obj] # NoSample
    BY <1>2, <2>2, <2>3, <2>4 DEF CountersInv, KeysMatch
  <2>6. Emitted(prev, s) = IF s.at > prev.at THEN s.total - prev.total ELSE 0
    BY <1>2, <2>2, <2>4, <2>5, EmittedIsGrowth DEF CountersInv
  <2>7. credited' = [credited EXCEPT ![s.obj] =
                        Emitted(prev, s) + IF newest[s.obj] = NoSample THEN s.total ELSE @]
    BY <1>2, <2>1 DEF Produce
  <2>8. credited'[s.obj] = Emitted(prev, s) + credited[s.obj] /\ credited[s.obj] \in Nat
    BY <1>2, <2>2, <2>5, <2>7 DEF CountersInv, TypeOK
  <2>9. Emitted(prev, s) \in Int
    BY <2>2, <2>4, <2>6
  <2> QED BY <2>6, <2>8, <2>9
<1>3. ASSUME CountersInv, [Next]_vars PROVE DeltaIsGrowth!1
  BY <1>2, <1>3
<1> QED BY Inductive, <1>3, PTL DEF Spec, DeltaIsGrowth

-----------------------------------------------------------------------------
\* Between two samples in order, Delta emits no more than the growth, also over a
\* jump it cannot read and, for a 64-bit counter, over a reboot.
LEMMA EmittedIsNoMore ==
    ASSUME TypeOK, DeviceAgrees, PairsAgree,
           NEW s \in Known \ {NoSample}, NEW prev \in Known \ {NoSample},
           s.obj = prev.obj, s.at > prev.at,
           wrap[s.obj] = MaxCounter64 \/ s.boot = prev.boot
    PROVE  Emitted(prev, s) <= s.total - prev.total
<1> DEFINE w == wrap[s.obj]
           g == s.total - prev.total
<1>1. /\ s.value \in Nat /\ s.at \in Nat /\ s.total \in Nat /\ s.boot \in Nat
      /\ prev.value \in Nat /\ prev.at \in Nat /\ prev.total \in Nat /\ prev.boot \in Nat
      /\ w \in Nat /\ w <= MaxCounter64 /\ MaxCounter64 \in Nat
  BY Typed, Fields, Numbers
<1>2. s.value <= w /\ prev.value <= w
  BY DEF DeviceAgrees
<1>3. prev.total <= s.total /\ prev.boot <= s.boot /\ g \in Nat
  BY <1>1 DEF PairsAgree
<1>4. Emitted(prev, s) = IF s.value >= prev.value THEN s.value - prev.value
                         ELSE IF isCounterReset(prev.value, s.value, w) THEN 0
                         ELSE Rollover(prev.value, s.value, w)
  BY <1>1 DEF Emitted
<1>5. s.value < prev.value => Rollover(prev.value, s.value, w) = w - prev.value + s.value + 1
  BY <1>1, <1>2 DEF Rollover, Uint64
<1>6. CASE s.boot = prev.boot
  <2>1. CASE g <= w
    <3>1. s.value = prev.value + g \/ s.value = prev.value + g - (w + 1)
      BY <1>1, <1>3, <1>6, <2>1 DEF PairsAgree, Agree
    <3> QED BY <1>1, <1>2, <1>3, <1>4, <1>5, <2>1, <3>1
  <2>2. CASE g > w
    BY <1>1, <1>2, <1>3, <1>4, <1>5, <2>2
  <2> QED BY <1>1, <1>3, <2>1, <2>2
<1>7. CASE s.boot # prev.boot
  <2>1. s.value <= g
    BY <1>1, <1>3, <1>7 DEF PairsAgree
  <2>2. isCounterReset(prev.value, s.value, w)
    BY <1>7 DEF isCounterReset
  <2> QED BY <1>1, <1>3, <1>4, <2>1, <2>2
<1> QED BY <1>6, <1>7

\* What Produce does to the books of its object.
LEMMA Booked ==
    ASSUME TypeOK, NEW p \in Producers, Produce(p), NEW s, s = held[p],
           NEW o, o = s.obj
    PROVE  /\ s \in Samples /\ o \in Objects /\ s \in Known \ {NoSample}
           /\ UNCHANGED <<wrap, now>>
           /\ entries'[KeyOf[o]] = s
           /\ newest'[o] = IF newest[o] = NoSample \/ newest[o].at <= s.at THEN s ELSE newest[o]
           /\ credited'[o] = Emitted(entries[KeyOf[o]], s)
                                + IF newest[o] = NoSample THEN s.total ELSE credited[o]
           /\ irregular'[o] = irregular[o] \cup Irregularities(s)
           /\ \A q \in Objects \ {o} :
                  /\ newest'[q] = newest[q] /\ credited'[q] = credited[q]
                  /\ irregular'[q] = irregular[q]
                  /\ KeyOf[q] # KeyOf[o] => entries'[KeyOf[q]] = entries[KeyOf[q]]
<1>1. s \in Samples /\ o \in Objects /\ s \in Known \ {NoSample}
  BY Fields DEF Produce, TypeOK, Known
<1>2. /\ entries' = [entries EXCEPT ![KeyOf[o]] = s]
      /\ newest' = [newest EXCEPT ![o] = IF @ = NoSample \/ @.at <= s.at THEN s ELSE @]
      /\ irregular' = [irregular EXCEPT ![o] = @ \cup Irregularities(s)]
      /\ UNCHANGED <<wrap, now>>
  BY DEF Produce, deviceVars
<1>3. credited' = [credited EXCEPT ![o] = Emitted(entries[KeyOf[o]], s)
                       + IF newest[o] = NoSample THEN s.total ELSE @]
  BY DEF Produce
<1>4. KeyOf[o] \in Keys /\ \A q \in Objects : KeyOf[q] \in Keys
  BY <1>1 DEF Keys
<1> QED BY <1>1, <1>2, <1>3, <1>4 DEF TypeOK

\* When every object has its own key, the baseline stays the newest sample and the
\* books stay right.
LEMMA LedgerStep ==
    ASSUME \A a, b \in Objects : KeyOf[a] = KeyOf[b] => a = b,
           LedgerInv, [Next]_vars
    PROVE  BaselineIsNewest' /\ NoOvercount' /\ NoGrowthLost'
<1> USE DEF LedgerInv, CountersInv
<1>1. now \in Nat /\ MaxAge \in Nat /\ \A o \in Objects : newest[o] # NoSample =>
          /\ newest[o] \in Known \ {NoSample} /\ newest[o].at \in Nat
          /\ newest[o].total \in Nat /\ newest[o].boot \in Nat
  BY Typed, Fields, Numbers DEF Known
<1>2. ASSUME NEW p \in Producers, Produce(p)
      PROVE  BaselineIsNewest' /\ NoOvercount' /\ NoGrowthLost'
  <2> DEFINE s == held[p]
             o == s.obj
             n == newest[o]
             e == Emitted(entries[KeyOf[o]], s)
  <2>1. /\ s \in Samples /\ o \in Objects /\ s \in Known \ {NoSample}
        /\ UNCHANGED <<wrap, now>> /\ entries'[KeyOf[o]] = s
        /\ newest'[o] = IF n = NoSample \/ n.at <= s.at THEN s ELSE n
        /\ credited'[o] = e + IF n = NoSample THEN s.total ELSE credited[o]
        /\ irregular'[o] = irregular[o] \cup Irregularities(s)
        /\ \A q \in Objects \ {o} :
               /\ newest'[q] = newest[q] /\ credited'[q] = credited[q]
               /\ irregular'[q] = irregular[q]
               /\ KeyOf[q] # KeyOf[o] => entries'[KeyOf[q]] = entries[KeyOf[q]]
    BY <1>2, Booked
  <2>2. s.at \in Nat /\ s.total \in Nat /\ s.boot \in Nat /\ o = s.obj /\ credited[o] \in Nat
    BY <2>1, Fields DEF TypeOK
  <2>3. n = NoSample => e = 0
    <3>1. n = NoSample => entries[KeyOf[o]] = NoSample
      <4>1. KeyOf[o] \in Keys
        BY <2>1 DEF Keys
      <4>2. entries[KeyOf[o]] # NoSample => entries[KeyOf[o]].obj \in Objects
        BY <4>1, Fields DEF TypeOK
      <4> QED BY <2>1, <4>1, <4>2 DEF KeysMatch
    <3> QED BY <3>1 DEF Emitted
  <2>4. n # NoSample => /\ n \in Known \ {NoSample} /\ n.obj = o
                        /\ n.at \in Nat /\ n.total \in Nat /\ n.boot \in Nat
    BY <1>1, <2>1 DEF BaselineIsNewest
  <2>5. n # NoSample => /\ s.at <= n.at <=> "order" \in Irregularities(s)
                        /\ s.boot # n.boot <=> "boot" \in Irregularities(s)
                        /\ s.total - n.total > Readable(o) <=> "jump" \in Irregularities(s)
                        /\ now - n.at > MaxAge <=> "late" \in Irregularities(s)
    BY DEF Irregularities
  <2>6. n # NoSample /\ "order" \notin irregular[o] =>
            \/ entries[KeyOf[o]] = n
            \/ entries[KeyOf[o]] = NoSample /\ n.at < now - MaxAge
    BY <2>1 DEF BaselineIsNewest
  <2> HIDE DEF s, o, n, e
  <2>7. n # NoSample /\ "order" \notin irregular'[o] =>
            s.at > n.at /\ n.total <= s.total /\ newest'[o] = s
    <3> SUFFICES ASSUME n # NoSample, "order" \notin irregular'[o]
                 PROVE  s.at > n.at /\ n.total <= s.total /\ newest'[o] = s
      OBVIOUS
    <3>1. s.at > n.at
      BY <2>1, <2>2, <2>4, <2>5
    <3> QED BY <2>1, <2>2, <2>4, <3>1 DEF PairsAgree
  <2>8. BaselineIsNewest'
    <3>1. newest'[o].obj = o
      BY <2>1, <2>2, <2>4
    <3>2. "order" \notin irregular'[o] => entries'[KeyOf[o]] = newest'[o]
      BY <2>1, <2>7
    <3>3. \A q \in Objects \ {o} : KeyOf[q] # KeyOf[o]
      BY <2>1
    <3> QED BY <2>1, <3>1, <3>2, <3>3 DEF BaselineIsNewest
  <2>9. ASSUME n # NoSample, "order" \notin irregular'[o],
               wrap[o] = MaxCounter64 \/ "boot" \notin irregular'[o]
        PROVE  credited'[o] <= s.total
    <3>1. credited[o] <= n.total
      BY <2>1, <2>9 DEF NoOvercount, n
    <3>2. wrap[o] = MaxCounter64 \/ s.boot = n.boot
      BY <2>1, <2>5, <2>9
    <3>3. CASE entries[KeyOf[o]] = NoSample
      <4>1. e = 0
        BY <3>3 DEF e, Emitted
      <4> QED BY <2>1, <2>2, <2>4, <2>7, <2>9, <3>1, <4>1
    <3>4. CASE entries[KeyOf[o]] = n
      <4>1. Emitted(n, s) <= s.total - n.total
        BY <2>1, <2>2, <2>4, <2>7, <2>9, <3>2, EmittedIsNoMore
      <4>2. Emitted(n, s) \in Nat /\ e = Emitted(n, s)
        BY <2>1, <2>4, <2>9, <3>4, Typed, EmittedIsNatural DEF e
      <4> QED BY <2>1, <2>2, <2>4, <2>9, <3>1, <4>1, <4>2
    <3> QED BY <2>1, <2>6, <2>9, <3>3, <3>4
  <2>10. NoOvercount'
    <3>1. n = NoSample => credited'[o] <= newest'[o].total
      BY <2>1, <2>2, <2>3
    <3>2. n # NoSample /\ "order" \notin irregular'[o]
          /\ (wrap[o] = MaxCounter64 \/ "boot" \notin irregular'[o])
          => credited'[o] <= newest'[o].total
      BY <2>7, <2>9
    <3> QED BY <2>1, <3>1, <3>2 DEF NoOvercount
  <2>11. ASSUME n # NoSample, irregular'[o] = {}
         PROVE  credited'[o] = s.total
    <3>1. irregular[o] = {} /\ Irregularities(s) = {}
      BY <2>1, <2>11
    <3>2. credited[o] = n.total
      BY <2>1, <2>11, <3>1 DEF NoGrowthLost, n
    <3>3. s.at > n.at /\ s.boot = n.boot /\ ~(now - n.at > MaxAge)
          /\ ~(s.total - n.total > Readable(o))
      BY <2>2, <2>4, <2>5, <2>11, <3>1
    <3>4. entries[KeyOf[o]] = n
      BY <1>1, <2>4, <2>6, <2>11, <3>1, <3>3
    <3>5. Readable(o) \in Int
      BY <2>1, Typed, Numbers DEF Readable
    <3>6. s.total - n.total <= Readable(o)
      BY <2>2, <2>4, <2>11, <3>3, <3>5
    <3>7. e = s.total - n.total
      BY <2>1, <2>2, <2>4, <2>11, <3>3, <3>4, <3>6, EmittedIsGrowth DEF e
    <3> QED BY <2>1, <2>2, <2>4, <2>11, <3>2, <3>7
  <2>12. NoGrowthLost'
    <3>1. n = NoSample => credited'[o] = newest'[o].total
      BY <2>1, <2>2, <2>3
    <3>2. n # NoSample /\ irregular'[o] = {} => credited'[o] = newest'[o].total
      BY <2>7, <2>11
    <3> QED BY <2>1, <3>1, <3>2 DEF NoGrowthLost
  <2> QED BY <2>8, <2>10, <2>12
<1>3. CASE Purge
  <2>1. /\ UNCHANGED <<wrap, now, credited, newest, irregular>>
        /\ \A o \in Objects :
               \/ entries'[KeyOf[o]] = entries[KeyOf[o]]
               \/ entries'[KeyOf[o]] = NoSample /\ entries[KeyOf[o]].at < now - MaxAge
    BY <1>3 DEF Purge, Keys, deviceVars
  <2>2. BaselineIsNewest'
    BY <2>1 DEF BaselineIsNewest
  <2> QED BY <2>1, <2>2 DEF NoOvercount, NoGrowthLost
<1>4. CASE UNCHANGED <<wrap, entries, credited, newest, irregular>> /\ now' \in {now, now + 1}
  <2>1. BaselineIsNewest'
    BY <1>1, <1>4 DEF BaselineIsNewest
  <2> QED BY <1>4, <2>1 DEF NoOvercount, NoGrowthLost
<1> QED BY <1>2, <1>3, <1>4 DEF Next, Tick, Reboot, Poll, stateVars, deviceVars, vars

\* The books hold at the start, and every step keeps them.
LEMMA LedgerInductive ==
    ASSUME \A a, b \in Objects : KeyOf[a] = KeyOf[b] => a = b
    PROVE  /\ Init => LedgerInv
           /\ LedgerInv /\ [Next]_vars => LedgerInv'
<1>1. Init => LedgerInv
  BY Inductive DEF Init, LedgerInv, BaselineIsNewest, NoOvercount, NoGrowthLost
<1>2. LedgerInv /\ [Next]_vars => LedgerInv'
  BY Inductive, LedgerStep DEF LedgerInv
<1> QED BY <1>1, <1>2

\* No false spike: however the purger, jumps and reboots fall, the deltas emitted for
\* an object never exceed its growth while its samples come in order (a 32-bit
\* counter must not reboot), for all widths and sets of objects (CounterState.Delta
\* and Purge, normalize.go).
THEOREM NeverOvercounts ==
    ASSUME \A a, b \in Objects : KeyOf[a] = KeyOf[b] => a = b
    PROVE  Spec => []NoOvercount
<1>1. LedgerInv => NoOvercount
  BY DEF LedgerInv
<1> QED BY LedgerInductive, <1>1, PTL DEF Spec

\* And none of the growth is lost while the samples are regular: the purger never
\* takes a baseline that the next delta needs (CounterState.Purge and its interval).
THEOREM NoGrowthEverLost ==
    ASSUME \A a, b \in Objects : KeyOf[a] = KeyOf[b] => a = b
    PROVE  Spec => []NoGrowthLost
<1>1. LedgerInv => NoGrowthLost
  BY DEF LedgerInv
<1> QED BY LedgerInductive, <1>1, PTL DEF Spec
=============================================================================
