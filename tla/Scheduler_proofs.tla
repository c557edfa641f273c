-------------------------- MODULE Scheduler_proofs --------------------------
(***************************************************************************)
(* Proofs about Scheduler: what the loops of the loader and of ResolveJobs *)
(* come to, for any tree of files; that a firing submits what the files    *)
(* mean; and that no device waits longer than it should.                   *)
(***************************************************************************)
EXTENDS Scheduler, LoopLemmas, SequenceTheorems, TLAPS

\* The loop of Merged as a function of the round.
LEMMA MergedRuns ==
    ASSUME NEW files, IsDirectory(files), NEW n \in Nat, DOMAIN files = 1..n, Len(files) = n
    PROVE  \E m : /\ m[0] = <<>>
                  /\ \A i \in 1..n : m[i] = IF files[i].ok THEN Over(files[i].defs, m[i - 1])
                                            ELSE m[i - 1]
                  /\ Merged(files) = m[n]
<1> DEFINE Names == UNION {DOMAIN files[i].defs : i \in 1..n}
           Says  == UNION {{files[i].defs[x] : x \in DOMAIN files[i].defs} : i \in 1..n}
           Maps  == UNION {[D -> Says] : D \in SUBSET Names}
           Round(i, v) == IF files[i].ok THEN Over(files[i].defs, v) ELSE v
           step  == [iv \in (1..n) \X Maps |-> Round(iv[1], iv[2])]
           Runs(m) == m = [i \in 0..n |-> IF i = 0 THEN <<>>
                                          ELSE IF files[i].ok THEN Over(files[i].defs, m[i - 1])
                                          ELSE m[i - 1]]
<1>1. \A D \in SUBSET Names : \A v \in [D -> Says] : v \in Maps
  OBVIOUS
<1>2. <<>> \in Maps
  <2>1. <<>> \in [{} -> Says]
    OBVIOUS
  <2>2. {} \in SUBSET Names
    OBVIOUS
  <2> HIDE DEF Names, Says, Maps
  <2> QED BY <1>1, <2>1, <2>2
<1>3. ASSUME NEW i \in 1..n, NEW v \in Maps PROVE Round(i, v) \in Maps
  <2>1. PICK D \in SUBSET Names : v \in [D -> Says]
    OBVIOUS
  <2>2. DOMAIN files[i].defs \subseteq Names
    OBVIOUS
  <2>3. \A x \in DOMAIN files[i].defs : files[i].defs[x] \in Says
    OBVIOUS
  <2> HIDE DEF Names, Says, Maps
  <2>4. (DOMAIN files[i].defs) \cup D \in SUBSET Names
    BY <2>1, <2>2
  <2>5. Over(files[i].defs, v) \in [(DOMAIN files[i].defs) \cup D -> Says]
    BY <2>1, <2>3 DEF Over
  <2>6. Over(files[i].defs, v) \in Maps
    BY <1>1, <2>4, <2>5
  <2> QED BY <2>6
<1> HIDE DEF Names, Says, Maps
<1>4. step \in [(1..n) \X Maps -> Maps]
  BY <1>3
<1>5. PICK f \in [0..n -> Maps] : f[0] = <<>> /\ \A i \in 1..n : f[i] = step[<<i, f[i - 1]>>]
  <2> DEFINE b == <<>>
  <2>1. b \in Maps
    BY <1>2
  <2> HIDE DEF step, b
  <2>2. HasRun(n, Maps, b, step)
    BY <1>4, <2>1, Recursion
  <2> QED BY <2>2 DEF b, HasRun
<1>6. Runs(f)
  <2>1. \A i \in 1..n : i - 1 \in 0..n /\ f[i - 1] \in Maps
    OBVIOUS
  <2>2. \A i \in 1..n : f[i] = Round(i, f[i - 1])
    BY <1>5, <2>1
  <2>3. f = [i \in 0..n |-> f[i]]
    OBVIOUS
  <2>4. \A i \in 0..n : i # 0 => i \in 1..n
    OBVIOUS
  <2> QED BY <1>5, <2>2, <2>3, <2>4
<1> DEFINE m == CHOOSE m : Runs(m)
<1>7. Runs(m)
  BY <1>6
<1>8. Merged(files) = m[n]
  BY DEF Merged
<1> HIDE DEF m
<1>9. m[0] = <<>>
  BY <1>7
<1>10. \A i \in 1..n : m[i] = IF files[i].ok THEN Over(files[i].defs, m[i - 1]) ELSE m[i - 1]
  BY <1>7
<1> QED BY <1>8, <1>9, <1>10

\* A file after the other: what Merged says of a name is the last word on it.
LEMMA MergedIsLastWord ==
    ASSUME NEW files, IsDirectory(files)
    PROVE  /\ DOMAIN Merged(files) = Defined(files)
           /\ \A x \in Defined(files) : Merged(files)[x] = LastWord(files, x)
           /\ \A x \in Defined(files) : \E i \in DOMAIN files :
                  x \in DOMAIN files[i].defs /\ LastWord(files, x) = files[i].defs[x]
<1> DEFINE n == Len(files)
           Says(i, x) == files[i].ok /\ x \in DOMAIN files[i].defs
<1>1. n \in Nat /\ DOMAIN files = 1..n
  BY LenProperties DEF IsDirectory, IsSequence
<1> HIDE DEF n
<1>2. PICK m : /\ m[0] = <<>>
               /\ \A i \in 1..n : m[i] = IF files[i].ok THEN Over(files[i].defs, m[i - 1])
                                         ELSE m[i - 1]
               /\ Merged(files) = m[n]
  BY <1>1, MergedRuns DEF n
<1> DEFINE LastIn(k, x, j) == Says(j, x) /\ \A i \in (j + 1)..k : ~Says(i, x)
           Known(k) == /\ \A x : x \in DOMAIN m[k] <=> \E i \in 1..k : Says(i, x)
                       /\ \A x \in DOMAIN m[k] : \E j \in 1..k : LastIn(k, x, j) /\ m[k][x] = files[j].defs[x]
           T == {k \in 0..n : Known(k)}
<1>3. 0 \in T
  <2>1. DOMAIN m[0] = {}
    BY <1>2
  <2> QED BY <1>1, <2>1
<1>4. ASSUME NEW k \in 1..n, k - 1 \in T PROVE k \in T
  <2>1. k \in Nat /\ Known(k - 1)
    BY <1>4
  <2>2. CASE files[k].ok
    <3> DEFINE d == files[k].defs
               p == m[k - 1]
    <3>1. /\ DOMAIN m[k] = DOMAIN d \cup DOMAIN p
          /\ \A x \in DOMAIN m[k] : m[k][x] = IF x \in DOMAIN d THEN d[x] ELSE p[x]
      BY <1>2, <2>2 DEF Over
    <3>2. \A x : x \in DOMAIN m[k] <=> \E i \in 1..k : Says(i, x)
      <4>1. \A x : x \in DOMAIN m[k] <=> Says(k, x) \/ \E i \in 1..(k - 1) : Says(i, x)
        BY <2>1, <2>2, <3>1
      <4> HIDE DEF Says
      <4> QED BY <4>1
    <3>3. ASSUME NEW x \in DOMAIN m[k]
          PROVE  \E j \in 1..k : LastIn(k, x, j) /\ m[k][x] = files[j].defs[x]
      <4>1. CASE x \in DOMAIN d
        <5>1. LastIn(k, x, k) /\ m[k][x] = files[k].defs[x]
          BY <2>1, <2>2, <3>1, <4>1
        <5> QED BY <2>1, <5>1
      <4>2. CASE x \notin DOMAIN d
        <5>1. x \in DOMAIN p /\ m[k][x] = p[x]
          BY <3>1, <4>2
        <5>2. PICK j \in 1..(k - 1) : LastIn(k - 1, x, j) /\ p[x] = files[j].defs[x]
          BY <2>1, <5>1
        <5>3. ~Says(k, x)
          BY <4>2
        <5> HIDE DEF Says, d, p
        <5>4. LastIn(k, x, j)
          BY <5>2, <5>3
        <5> QED BY <5>1, <5>2, <5>4
      <4> QED BY <4>1, <4>2
    <3> QED BY <3>2, <3>3
  <2>3. CASE ~files[k].ok
    <3>1. m[k] = m[k - 1] /\ \A x : ~Says(k, x)
      BY <1>2, <2>3
    <3> HIDE DEF Says
    <3>2. \A x : x \in DOMAIN m[k] <=> \E i \in 1..k : Says(i, x)
      BY <2>1, <3>1
    <3>3. ASSUME NEW x \in DOMAIN m[k]
          PROVE  \E j \in 1..k : LastIn(k, x, j) /\ m[k][x] = files[j].defs[x]
      <4>1. PICK j \in 1..(k - 1) : LastIn(k - 1, x, j) /\ m[k][x] = files[j].defs[x]
        BY <2>1, <3>1
      <4>2. LastIn(k, x, j)
        BY <3>1, <4>1
      <4> QED BY <4>1, <4>2
    <3> QED BY <3>2, <3>3
  <2> QED BY <2>2, <2>3
<1>5. Known(n)
  <2> HIDE DEF Known
  <2>1. \A i \in 1..n : i - 1 \in T => i \in T
    <3> HIDE DEF T
    <3> QED BY <1>4
  <2>2. \A i \in 0..n : i \in T
    <3> HIDE DEF T
    <3> QED BY <1>1, <1>3, <2>1, UpTo
  <2> QED BY <1>1, <2>2
<1>6. \A x : x \in Defined(files) <=> \E i \in 1..n : Says(i, x)
  BY <1>1 DEF Defined
<1>7. DOMAIN Merged(files) = Defined(files)
  BY <1>2, <1>5, <1>6
<1>8. ASSUME NEW x \in Defined(files)
      PROVE  \E j \in 1..n : /\ Says(j, x) /\ Merged(files)[x] = files[j].defs[x]
                             /\ LastWord(files, x) = files[j].defs[x]
  <2>1. PICK j \in 1..n : LastIn(n, x, j) /\ m[n][x] = files[j].defs[x]
    BY <1>2, <1>5, <1>7
  <2> DEFINE S == {i \in DOMAIN files : files[i].ok /\ x \in DOMAIN files[i].defs}
  <2>2. j \in S /\ \A i \in S : i <= j
    BY <1>1, <2>1
  <2>3. S \subseteq Int
    BY <1>1
  <2> HIDE DEF S
  <2>4. Max(S) = j
    BY <2>2, <2>3, MaxIs
  <2>5. LastWord(files, x) = files[j].defs[x]
    BY <2>4 DEF LastWord, S
  <2> QED BY <1>2, <2>1, <2>5
<1> QED BY <1>1, <1>7, <1>8

-----------------------------------------------------------------------------
\* What is in a concatenation, and in a sequence with an element more.
LEMMA ToSetConcat ==
    ASSUME NEW S, NEW s \in Seq(S), NEW t \in Seq(S)
    PROVE  s \o t \in Seq(S) /\ ToSet(s \o t) = ToSet(s) \cup ToSet(t)
<1>1. /\ s \o t \in Seq(S) /\ Len(s \o t) = Len(s) + Len(t) /\ Len(s) \in Nat /\ Len(t) \in Nat
      /\ \A i \in 1..(Len(s) + Len(t)) : (s \o t)[i] = IF i <= Len(s) THEN s[i] ELSE t[i - Len(s)]
  BY ConcatProperties, LenProperties
<1>2. ASSUME NEW x \in ToSet(s \o t) PROVE x \in ToSet(s) \cup ToSet(t)
  <2>1. PICK i \in 1..(Len(s) + Len(t)) : x = (s \o t)[i]
    BY <1>1, <1>2 DEF ToSet
  <2> QED BY <1>1, <2>1 DEF ToSet
<1>3. ASSUME NEW i \in 1..Len(s) PROVE s[i] \in ToSet(s \o t)
  <2>1. i \in 1..(Len(s) + Len(t)) /\ (s \o t)[i] = s[i]
    BY <1>1
  <2> QED BY <1>1, <2>1 DEF ToSet
<1>4. ASSUME NEW i \in 1..Len(t) PROVE t[i] \in ToSet(s \o t)
  <2>1. i + Len(s) \in 1..(Len(s) + Len(t)) /\ (s \o t)[i + Len(s)] = t[i]
    BY <1>1
  <2> QED BY <1>1, <2>1 DEF ToSet
<1>5. DOMAIN s = 1..Len(s) /\ DOMAIN t = 1..Len(t)
  BY LenProperties
<1> QED BY <1>1, <1>2, <1>3, <1>4, <1>5 DEF ToSet

LEMMA ToSetAppend ==
    ASSUME NEW S, NEW s \in Seq(S), NEW x \in S
    PROVE  Append(s, x) \in Seq(S) /\ ToSet(Append(s, x)) = ToSet(s) \cup {x}
<1>1. /\ Append(s, x) \in Seq(S) /\ Len(Append(s, x)) = Len(s) + 1 /\ Len(s) \in Nat
      /\ DOMAIN s = 1..Len(s) /\ DOMAIN Append(s, x) = 1..(Len(s) + 1)
      /\ \A i \in 1..Len(s) : Append(s, x)[i] = s[i]
      /\ Append(s, x)[Len(s) + 1] = x
  BY AppendProperties, LenProperties
<1> QED BY <1>1 DEF ToSet

\* The loop of Expand as a function of the round.
ExpandRun(map, keys, n, e) ==
    /\ e[0] = <<>>
    /\ \A i \in 1..n : e[i] = IF keys[i] \in DOMAIN map THEN e[i - 1] \o map[keys[i]] ELSE e[i - 1]
    /\ Expand(map, keys) = e[n]

LEMMA ExpandRuns ==
    ASSUME NEW S, NEW map, \A k \in DOMAIN map : map[k] \in Seq(S), NEW keys,
           NEW n \in Nat, DOMAIN keys = 1..n, Len(keys) = n
    PROVE  \E e : ExpandRun(map, keys, n, e)
<1> DEFINE Round(i, v) == IF keys[i] \in DOMAIN map THEN v \o map[keys[i]] ELSE v
           step  == [iv \in (1..n) \X Seq(S) |-> Round(iv[1], iv[2])]
           Runs(e) == e = [i \in 0..n |-> IF i = 0 THEN <<>>
                                          ELSE IF keys[i] \in DOMAIN map THEN e[i - 1] \o map[keys[i]]
                                          ELSE e[i - 1]]
           b == <<>>
<1>1. b \in Seq(S)
  OBVIOUS
<1>2. \A i \in 1..n : \A v \in Seq(S) : Round(i, v) \in Seq(S)
  BY ConcatProperties
<1>3. step \in [(1..n) \X Seq(S) -> Seq(S)]
  BY <1>2
<1>4. HasRun(n, Seq(S), b, step)
  <2> HIDE DEF b, step
  <2> QED BY <1>1, <1>3, Recursion
<1>5. PICK f \in [0..n -> Seq(S)] : f[0] = b /\ \A i \in 1..n : f[i] = step[<<i, f[i - 1]>>]
  BY <1>4 DEF HasRun
<1>6. Runs(f)
  <2>1. \A i \in 1..n : i - 1 \in 0..n /\ f[i - 1] \in Seq(S)
    OBVIOUS
  <2>2. \A i \in 1..n : f[i] = Round(i, f[i - 1])
    BY <1>5, <2>1
  <2>3. f = [i \in 0..n |-> f[i]]
    OBVIOUS
  <2>4. \A i \in 0..n : i # 0 => i \in 1..n
    OBVIOUS
  <2> QED BY <1>5, <2>2, <2>3, <2>4
<1> DEFINE e == CHOOSE e : Runs(e)
<1>7. Runs(e)
  BY <1>6
<1>8. Expand(map, keys) = e[n]
  BY DEF Expand
<1> HIDE DEF e
<1>9. e[0] = <<>>
  BY <1>7
<1>10. ASSUME NEW i \in 1..n
       PROVE  e[i] = IF keys[i] \in DOMAIN map THEN e[i - 1] \o map[keys[i]] ELSE e[i - 1]
  <2>1. i \in 0..n /\ i # 0
    OBVIOUS
  <2> QED BY <1>7, <2>1, Zenon
<1>11. ExpandRun(map, keys, n, e)
  BY <1>8, <1>9, <1>10, Zenon DEF ExpandRun
<1> QED BY <1>11

\* Expand reaches what is listed under the keys that exist, and nothing else.
LEMMA ExpandReaches ==
    ASSUME NEW S, NEW map, \A k \in DOMAIN map : map[k] \in Seq(S), NEW keys, IsSequence(keys)
    PROVE  /\ Expand(map, keys) \in Seq(S)
           /\ \A x : x \in ToSet(Expand(map, keys)) <=>
                  \E k \in ToSet(keys) \cap DOMAIN map : x \in ToSet(map[k])
<1> DEFINE n == Len(keys)
<1>1. n \in Nat /\ DOMAIN keys = 1..n
  BY LenProperties DEF IsSequence
<1> HIDE DEF n
<1>2. PICK e : ExpandRun(map, keys, n, e)
  BY <1>1, ExpandRuns DEF n
<1>21. /\ e[0] = <<>>
       /\ \A i \in 1..n : e[i] = IF keys[i] \in DOMAIN map THEN e[i - 1] \o map[keys[i]] ELSE e[i - 1]
       /\ Expand(map, keys) = e[n]
  BY <1>2, Zenon DEF ExpandRun
<1> DEFINE Lists(i, x) == keys[i] \in DOMAIN map /\ x \in ToSet(map[keys[i]])
           Reaches(k) == /\ e[k] \in Seq(S)
                         /\ \A x : x \in ToSet(e[k]) <=> \E i \in 1..k : Lists(i, x)
           T == {k \in 0..n : Reaches(k)}
<1>3. 0 \in T
  <2>1. e[0] \in Seq(S) /\ ToSet(e[0]) = {}
    BY <1>21 DEF ToSet
  <2> QED BY <1>1, <2>1
<1>4. ASSUME NEW k \in 1..n, k - 1 \in T PROVE k \in T
  <2>1. k \in Nat /\ Reaches(k - 1)
    BY <1>4
  <2>2. \A x : (\E i \in 1..k : Lists(i, x)) <=> Lists(k, x) \/ \E i \in 1..(k - 1) : Lists(i, x)
    <3> HIDE DEF Lists
    <3> QED BY <2>1
  <2>3. CASE keys[k] \in DOMAIN map
    <3>1. e[k] = e[k - 1] \o map[keys[k]] /\ map[keys[k]] \in Seq(S)
      BY <1>21, <2>3
    <3>2. e[k] \in Seq(S) /\ ToSet(e[k]) = ToSet(e[k - 1]) \cup ToSet(map[keys[k]])
      BY <2>1, <3>1, ToSetConcat
    <3>3. \A x : Lists(k, x) <=> x \in ToSet(map[keys[k]])
      BY <2>3
    <3> HIDE DEF Lists
    <3> QED BY <2>1, <2>2, <3>2, <3>3
  <2>4. CASE keys[k] \notin DOMAIN map
    <3>1. e[k] = e[k - 1] /\ \A x : ~Lists(k, x)
      BY <1>21, <2>4
    <3> HIDE DEF Lists
    <3> QED BY <2>1, <2>2, <3>1
  <2> QED BY <2>3, <2>4
<1>5. Reaches(n)
  <2> HIDE DEF Reaches
  <2>1. \A i \in 1..n : i - 1 \in T => i \in T
    <3> HIDE DEF T
    <3> QED BY <1>4
  <2>2. \A i \in 0..n : i \in T
    <3> HIDE DEF T
    <3> QED BY <1>1, <1>3, <2>1, UpTo
  <2> QED BY <1>1, <2>2
<1>6. \A x : (\E i \in 1..n : Lists(i, x)) <=> \E k \in ToSet(keys) \cap DOMAIN map : x \in ToSet(map[k])
  BY <1>1 DEF ToSet
<1> QED BY <1>21, <1>5, <1>6

\* The loop of Distinct as a function of the round.
DistinctRun(objects, defined, n, e) ==
    /\ e[0] = <<>>
    /\ \A i \in 1..n : e[i] = IF objects[i] \in ToSet(e[i - 1]) \/ objects[i] \notin defined
                              THEN e[i - 1] ELSE Append(e[i - 1], objects[i])
    /\ Distinct(objects, defined) = e[n]

LEMMA DistinctRuns ==
    ASSUME NEW S, NEW objects \in Seq(S), NEW defined, NEW n \in Nat, DOMAIN objects = 1..n, Len(objects) = n
    PROVE  \E e : DistinctRun(objects, defined, n, e)
<1> DEFINE Round(i, v) == IF objects[i] \in ToSet(v) \/ objects[i] \notin defined THEN v
                          ELSE Append(v, objects[i])
           step  == [iv \in (1..n) \X Seq(S) |-> Round(iv[1], iv[2])]
           Runs(e) == e = [i \in 0..n |-> IF i = 0 THEN <<>>
                                          ELSE IF objects[i] \in ToSet(e[i - 1]) \/ objects[i] \notin defined
                                          THEN e[i - 1] ELSE Append(e[i - 1], objects[i])]
           b == <<>>
<1>1. b \in Seq(S)
  OBVIOUS
<1>2. \A i \in 1..n : \A v \in Seq(S) : Round(i, v) \in Seq(S)
  BY AppendProperties
<1>3. step \in [(1..n) \X Seq(S) -> Seq(S)]
  BY <1>2
<1>4. HasRun(n, Seq(S), b, step)
  <2> HIDE DEF b, step
  <2> QED BY <1>1, <1>3, Recursion
<1>5. PICK f \in [0..n -> Seq(S)] : f[0] = b /\ \A i \in 1..n : f[i] = step[<<i, f[i - 1]>>]
  BY <1>4 DEF HasRun
<1>6. Runs(f)
  <2>1. \A i \in 1..n : i - 1 \in 0..n /\ f[i - 1] \in Seq(S)
    OBVIOUS
  <2>2. \A i \in 1..n : f[i] = Round(i, f[i - 1])
    BY <1>5, <2>1
  <2>3. f = [i \in 0..n |-> f[i]]
    OBVIOUS
  <2>4. \A i \in 0..n : i # 0 => i \in 1..n
    OBVIOUS
  <2> QED BY <1>5, <2>2, <2>3, <2>4
<1> DEFINE e == CHOOSE e : Runs(e)
<1>7. Runs(e)
  BY <1>6
<1>8. Distinct(objects, defined) = e[n]
  BY DEF Distinct
<1> HIDE DEF e
<1>9. e[0] = <<>>
  BY <1>7
<1>10. ASSUME NEW i \in 1..n
       PROVE  e[i] = IF objects[i] \in ToSet(e[i - 1]) \/ objects[i] \notin defined
                     THEN e[i - 1] ELSE Append(e[i - 1], objects[i])
  <2>1. i \in 0..n /\ i # 0
    OBVIOUS
  <2> QED BY <1>7, <2>1, Zenon
<1>11. DistinctRun(objects, defined, n, e)
  BY <1>8, <1>9, <1>10, Zenon DEF DistinctRun
<1> QED BY <1>11

\* Distinct keeps each object that is defined once.
LEMMA DistinctKeepsOne ==
    ASSUME NEW S, NEW objects \in Seq(S), NEW defined
    PROVE  /\ Distinct(objects, defined) \in Seq(S)
           /\ ToSet(Distinct(objects, defined)) = ToSet(objects) \cap defined
           /\ Len(Distinct(objects, defined)) = Cardinality(ToSet(objects) \cap defined)
           /\ IsFiniteSet(ToSet(objects) \cap defined)
<1> DEFINE n == Len(objects)
<1>1. n \in Nat /\ DOMAIN objects = 1..n /\ \A i \in 1..n : objects[i] \in S
  BY LenProperties, ElementOfSeq
<1> HIDE DEF n
<1>2. PICK e : DistinctRun(objects, defined, n, e)
  BY <1>1, DistinctRuns DEF n
<1>21. /\ e[0] = <<>>
       /\ \A i \in 1..n : e[i] = IF objects[i] \in ToSet(e[i - 1]) \/ objects[i] \notin defined
                                 THEN e[i - 1] ELSE Append(e[i - 1], objects[i])
       /\ Distinct(objects, defined) = e[n]
  BY <1>2, Zenon DEF DistinctRun
<1> DEFINE Kept(k) == {x \in defined : \E i \in 1..k : objects[i] = x}
           Once(k) == /\ e[k] \in Seq(S) /\ ToSet(e[k]) = Kept(k)
                      /\ IsFiniteSet(Kept(k)) /\ Len(e[k]) = Cardinality(Kept(k))
           T == {k \in 0..n : Once(k)}
<1>3. 0 \in T
  <2>1. e[0] \in Seq(S) /\ ToSet(e[0]) = {} /\ Len(e[0]) = 0
    BY <1>21 DEF ToSet
  <2>2. Kept(0) = {}
    OBVIOUS
  <2>3. Once(0)
    <3> HIDE DEF Kept
    <3> QED BY <2>1, <2>2, FS_EmptySet
  <2> HIDE DEF Once
  <2> QED BY <1>1, <2>3
<1>4. ASSUME NEW k \in 1..n, k - 1 \in T PROVE k \in T
  <2>1. k \in Nat /\ Once(k - 1)
    BY <1>4
  <2> DEFINE x == objects[k]
  <2>2. Kept(k) = Kept(k - 1) \cup ({x} \cap defined)
    BY <2>1
  <2>3. CASE x \in ToSet(e[k - 1]) \/ x \notin defined
    <3>1. e[k] = e[k - 1]
      BY <1>21, <2>3
    <3>2. Kept(k) = Kept(k - 1)
      <4> HIDE DEF Kept
      <4> QED BY <2>1, <2>2, <2>3
    <3> HIDE DEF Kept
    <3> QED BY <2>1, <3>1, <3>2
  <2>4. CASE x \notin ToSet(e[k - 1]) /\ x \in defined
    <3> HIDE DEF Kept
    <3>1. e[k] = Append(e[k - 1], x) /\ x \in S
      BY <1>1, <1>21, <2>4
    <3>2. Kept(k) = Kept(k - 1) \cup {x} /\ x \notin Kept(k - 1)
      BY <2>1, <2>2, <2>4
    <3>3. /\ e[k] \in Seq(S) /\ ToSet(e[k]) = ToSet(e[k - 1]) \cup {x}
          /\ Len(e[k]) = Len(e[k - 1]) + 1
      BY <2>1, <3>1, ToSetAppend, AppendProperties
    <3>4. IsFiniteSet(Kept(k)) /\ Cardinality(Kept(k)) = Cardinality(Kept(k - 1)) + 1
      <4> DEFINE A == Kept(k - 1)
      <4>1. IsFiniteSet(A)
        BY <2>1
      <4>2. Kept(k) = A \cup {x} /\ x \notin A
        BY <3>2
      <4> HIDE DEF A, x
      <4>3. IsFiniteSet(A \cup {x}) /\ Cardinality(A \cup {x}) = Cardinality(A) + 1
        BY <4>1, <4>2, FS_AddElement
      <4> QED BY <4>2, <4>3 DEF A
    <3>5. Once(k)
      BY <2>1, <3>2, <3>3, <3>4
    <3> HIDE DEF Once
    <3> QED BY <3>5
  <2> QED BY <2>3, <2>4
<1>5. Once(n)
  <2> HIDE DEF Once
  <2>1. \A i \in 1..n : i - 1 \in T => i \in T
    <3> HIDE DEF T
    <3> QED BY <1>4
  <2>2. \A i \in 0..n : i \in T
    <3> HIDE DEF T
    <3> QED BY <1>1, <1>3, <2>1, UpTo
  <2> QED BY <1>1, <2>2
<1>6. Kept(n) = ToSet(objects) \cap defined
  BY <1>1 DEF ToSet
<1> HIDE DEF Kept
<1> QED BY <1>21, <1>5, <1>6

-----------------------------------------------------------------------------
\* Sequences over one set, and over what they hold.
LEMMA SequenceOver ==
    ASSUME NEW S, NEW s \in Seq(S)
    PROVE  IsSequence(s)
<1>1. Len(s) \in Nat /\ DOMAIN s = 1..Len(s) /\ s = [i \in 1..Len(s) |-> s[i]]
  BY LenProperties
<1>2. \A i \in 1..Len(s) : s[i] \in ToSet(s)
  BY <1>1 DEF ToSet
<1>3. s \in [1..Len(s) -> ToSet(s)]
  BY <1>1, <1>2
<1> QED BY <1>1, <1>3, IsASeq DEF IsSequence

LEMMA SequencesOver ==
    ASSUME NEW map, \A k \in DOMAIN map : IsSequence(map[k])
    PROVE  \E S : \A k \in DOMAIN map : map[k] \in Seq(S)
<1> DEFINE S == UNION {ToSet(map[k]) : k \in DOMAIN map}
<1>1. ASSUME NEW k \in DOMAIN map PROVE map[k] \in Seq(S)
  <2>1. map[k] \in Seq(ToSet(map[k]))
    BY <1>1 DEF IsSequence
  <2>2. ToSet(map[k]) \subseteq S
    OBVIOUS
  <2> HIDE DEF S
  <2> QED BY <2>1, <2>2, SeqMonotonic
<1> QED BY <1>1

\* Expand on maps and keys that are sequences.
LEMMA Expanded ==
    ASSUME NEW map, \A k \in DOMAIN map : IsSequence(map[k]), NEW keys, IsSequence(keys)
    PROVE  /\ IsSequence(Expand(map, keys))
           /\ \A x : x \in ToSet(Expand(map, keys)) <=>
                  \E k \in ToSet(keys) \cap DOMAIN map : x \in ToSet(map[k])
<1>1. PICK S : \A k \in DOMAIN map : map[k] \in Seq(S)
  BY SequencesOver
<1>2. Expand(map, keys) \in Seq(S)
  BY <1>1, ExpandReaches
<1>3. \A x : x \in ToSet(Expand(map, keys)) <=> \E k \in ToSet(keys) \cap DOMAIN map : x \in ToSet(map[k])
  BY <1>1, ExpandReaches
<1> QED BY <1>2, <1>3, SequenceOver

\* What the assumption about trees says of the four directories of one.
LEMMA TreeTypes ==
    ASSUME NEW t \in Trees
    PROVE  /\ IsDirectory(t.devices) /\ IsDirectory(t.deviceGroups)
           /\ IsDirectory(t.objectGroups) /\ IsDirectory(t.objects)
           /\ \A h \in Defined(t.devices) :
                  LET entry == LastWord(t.devices, h)
                  IN  /\ entry = [interval |-> entry.interval, groups |-> entry.groups]
                      /\ entry.interval \in Int /\ IsSequence(entry.groups)
           /\ \A g \in Defined(t.deviceGroups) : IsSequence(LastWord(t.deviceGroups, g))
           /\ \A g \in Defined(t.objectGroups) : IsSequence(LastWord(t.objectGroups, g))
<1>1. /\ IsDirectory(t.devices) /\ IsDirectory(t.deviceGroups)
      /\ IsDirectory(t.objectGroups) /\ IsDirectory(t.objects)
  BY TreesAssumption
<1>2. ASSUME NEW h \in Defined(t.devices), NEW entry, entry = LastWord(t.devices, h)
      PROVE  /\ entry = [interval |-> entry.interval, groups |-> entry.groups]
             /\ entry.interval \in Int /\ IsSequence(entry.groups)
  <2>1. PICK i \in DOMAIN t.devices : h \in DOMAIN t.devices[i].defs /\ entry = t.devices[i].defs[h]
    BY <1>1, <1>2, MergedIsLastWord
  <2> QED BY <2>1, TreesAssumption
<1>3. ASSUME NEW groups \in {t.deviceGroups, t.objectGroups}, NEW g \in Defined(groups)
      PROVE  IsSequence(LastWord(groups, g))
  <2>1. PICK i \in DOMAIN groups : g \in DOMAIN groups[i].defs /\ LastWord(groups, g) = groups[i].defs[g]
    BY <1>1, <1>3, MergedIsLastWord
  <2>2. IsSequence(groups[i].defs[g])
    BY <2>1, TreesAssumption
  <2> QED BY <2>1, <2>2
<1> QED BY <1>1, <1>2, <1>3

\* What Load makes of a tree, without loops.
LEMMA LoadSays ==
    ASSUME NEW t \in Trees
    PROVE  LET c == Load(t)
           IN  /\ DOMAIN c.devices = Defined(t.devices)
               /\ \A h \in DOMAIN c.devices :
                      LET entry == LastWord(t.devices, h)
                      IN  /\ c.devices[h].groups = entry.groups
                          /\ c.devices[h].interval = IF entry.interval = 0 THEN 60 ELSE entry.interval
               /\ DOMAIN c.deviceGroups = Defined(t.deviceGroups)
               /\ \A g \in Defined(t.deviceGroups) : c.deviceGroups[g] = LastWord(t.deviceGroups, g)
               /\ DOMAIN c.objectGroups = Defined(t.objectGroups)
               /\ \A g \in Defined(t.objectGroups) : c.objectGroups[g] = LastWord(t.objectGroups, g)
               /\ LET needed == resolveNeededObjects(c.devices, c.deviceGroups, c.objectGroups)
                  IN  c.objectDefs = {o \in Defined(t.objects) : needed # {} => o \in needed}
<1> DEFINE c == Load(t)
<1>1. c = [devices      |-> loadDevices(t.devices),
           deviceGroups |-> Merged(t.deviceGroups),
           objectGroups |-> Merged(t.objectGroups),
           objectDefs   |-> loadObjectDefs(t.objects,
                                resolveNeededObjects(loadDevices(t.devices), Merged(t.deviceGroups),
                                                     Merged(t.objectGroups)))]
  BY DEF Load, loadDeviceGroups, loadObjectGroups
<1> HIDE DEF c
<1>2. /\ c.devices = loadDevices(t.devices) /\ c.deviceGroups = Merged(t.deviceGroups)
      /\ c.objectGroups = Merged(t.objectGroups)
      /\ c.objectDefs = loadObjectDefs(t.objects,
                            resolveNeededObjects(c.devices, c.deviceGroups, c.objectGroups))
  BY <1>1
<1>3. /\ DOMAIN c.deviceGroups = Defined(t.deviceGroups)
      /\ \A g \in Defined(t.deviceGroups) : c.deviceGroups[g] = LastWord(t.deviceGroups, g)
      /\ DOMAIN c.objectGroups = Defined(t.objectGroups)
      /\ \A g \in Defined(t.objectGroups) : c.objectGroups[g] = LastWord(t.objectGroups, g)
  BY <1>2, TreeTypes, MergedIsLastWord
<1>4. /\ DOMAIN Merged(t.devices) = Defined(t.devices)
      /\ \A h \in Defined(t.devices) : Merged(t.devices)[h] = LastWord(t.devices, h)
  BY TreeTypes, MergedIsLastWord
<1>5. /\ DOMAIN c.devices = Defined(t.devices)
      /\ \A h \in Defined(t.devices) : c.devices[h] = resolveDevice(LastWord(t.devices, h))
  BY <1>2, <1>4 DEF loadDevices
<1>6. ASSUME NEW h \in DOMAIN c.devices, NEW entry, entry = LastWord(t.devices, h)
      PROVE  /\ c.devices[h].groups = entry.groups
             /\ c.devices[h].interval = IF entry.interval = 0 THEN 60 ELSE entry.interval
  <2>1. entry = [interval |-> entry.interval, groups |-> entry.groups]
    BY <1>5, <1>6, TreeTypes
  <2>2. c.devices[h] = [entry EXCEPT !.interval = IF @ = 0 THEN 60 ELSE @]
    BY <1>5, <1>6 DEF resolveDevice
  <2> QED BY <2>1, <2>2
<1>7. DOMAIN Merged(t.objects) = Defined(t.objects)
  BY TreeTypes, MergedIsLastWord
<1>8. LET needed == resolveNeededObjects(c.devices, c.deviceGroups, c.objectGroups)
      IN  c.objectDefs = {o \in Defined(t.objects) : needed # {} => o \in needed}
  BY <1>2, <1>7 DEF loadObjectDefs
<1> QED BY <1>3, <1>5, <1>6, <1>8 DEF c

\* The jobs of a device are the objects that the files mean for it, each once.
LEMMA JobsAreMeant ==
    ASSUME NEW t \in Trees, NEW h \in DOMAIN Load(t).devices
    PROVE  /\ IsSequence(JobsOf(Load(t), h))
           /\ ToSet(JobsOf(Load(t), h)) = Meant(t, h)
           /\ Len(JobsOf(Load(t), h)) = Cardinality(Meant(t, h))
<1> DEFINE c == Load(t)
           groups == c.devices[h].groups
           needed == resolveNeededObjects(c.devices, c.deviceGroups, c.objectGroups)
<1>1. /\ h \in Defined(t.devices) /\ h \in DOMAIN c.devices
      /\ groups = LastWord(t.devices, h).groups
      /\ DOMAIN c.deviceGroups = Defined(t.deviceGroups)
      /\ \A g \in Defined(t.deviceGroups) : c.deviceGroups[g] = LastWord(t.deviceGroups, g)
      /\ DOMAIN c.objectGroups = Defined(t.objectGroups)
      /\ \A g \in Defined(t.objectGroups) : c.objectGroups[g] = LastWord(t.objectGroups, g)
      /\ c.objectDefs = {o \in Defined(t.objects) : needed # {} => o \in needed}
  BY LoadSays
<1>2. /\ IsSequence(groups)
      /\ \A g \in DOMAIN c.deviceGroups : IsSequence(c.deviceGroups[g])
      /\ \A g \in DOMAIN c.objectGroups : IsSequence(c.objectGroups[g])
  BY <1>1, TreeTypes
<1> HIDE DEF c, needed
<1>3. /\ IsSequence(Expand(c.deviceGroups, groups))
      /\ \A x : x \in ToSet(Expand(c.deviceGroups, groups)) <=>
             \E k \in ToSet(groups) \cap DOMAIN c.deviceGroups : x \in ToSet(c.deviceGroups[k])
  BY <1>2, Expanded
<1>4. /\ IsSequence(Reached(c, h))
      /\ \A x : x \in ToSet(Reached(c, h)) <=>
             \E k \in ToSet(Expand(c.deviceGroups, groups)) \cap DOMAIN c.objectGroups :
                 x \in ToSet(c.objectGroups[k])
  <2> DEFINE r == Expand(c.objectGroups, Expand(c.deviceGroups, groups))
  <2>1. /\ IsSequence(r)
        /\ \A x : x \in ToSet(r) <=>
               \E k \in ToSet(Expand(c.deviceGroups, groups)) \cap DOMAIN c.objectGroups :
                   x \in ToSet(c.objectGroups[k])
    BY <1>2, <1>3, Expanded
  <2>2. Reached(c, h) = r
    BY DEF Reached
  <2> HIDE DEF r
  <2> QED BY <2>1, <2>2
<1>5. \A x : x \in ToSet(Reached(c, h)) <=>
          \E dg \in ToSet(groups) \cap DOMAIN c.deviceGroups :
          \E og \in ToSet(c.deviceGroups[dg]) \cap DOMAIN c.objectGroups : x \in ToSet(c.objectGroups[og])
  <2> HIDE DEF groups
  <2> QED BY <1>3, <1>4
<1>6. \A x \in ToSet(Reached(c, h)) : x \in needed
  BY <1>1, <1>5 DEF needed, resolveNeededObjects
<1>7. ToSet(Reached(c, h)) \cap c.objectDefs = Meant(t, h)
  <2>1. ToSet(Reached(c, h)) \cap c.objectDefs = ToSet(Reached(c, h)) \cap Defined(t.objects)
    BY <1>1, <1>6
  <2>2. Meant(t, h) =
            {o \in Defined(t.objects) :
                \E dg \in ToSet(groups) \cap DOMAIN c.deviceGroups :
                \E og \in ToSet(c.deviceGroups[dg]) \cap DOMAIN c.objectGroups : o \in ToSet(c.objectGroups[og])}
    <3> HIDE DEF groups
    <3> QED BY <1>1 DEF Meant
  <2> HIDE DEF groups
  <2> QED BY <1>5, <2>1, <2>2
<1>8. /\ Distinct(Reached(c, h), c.objectDefs) \in Seq(ToSet(Reached(c, h)))
      /\ ToSet(Distinct(Reached(c, h), c.objectDefs)) = ToSet(Reached(c, h)) \cap c.objectDefs
      /\ Len(Distinct(Reached(c, h), c.objectDefs)) = Cardinality(ToSet(Reached(c, h)) \cap c.objectDefs)
  <2>1. Reached(c, h) \in Seq(ToSet(Reached(c, h)))
    BY <1>4 DEF IsSequence
  <2> QED BY <2>1, DistinctKeepsOne
<1>9. JobsOf(c, h) = Distinct(Reached(c, h), c.objectDefs)
  BY DEF JobsOf
<1>10. IsSequence(JobsOf(c, h))
  BY <1>8, <1>9, SequenceOver
<1> QED BY <1>7, <1>8, <1>9, <1>10 DEF c

\* And its interval is the one they say, or 60 s.
LEMMA IntervalIsSaid ==
    ASSUME NEW t \in Trees, NEW h \in DOMAIN Load(t).devices
    PROVE  /\ h \in Defined(t.devices)
           /\ LET said == LastWord(t.devices, h).interval
              IN  Interval(Load(t), h) = IF said > 0 THEN said ELSE DefaultInterval
           /\ Interval(Load(t), h) \in Nat \ {0}
<1> DEFINE said == LastWord(t.devices, h).interval
<1>1. h \in Defined(t.devices) /\ said \in Int
      /\ Load(t).devices[h].interval = IF said = 0 THEN 60 ELSE said
  BY LoadSays, TreeTypes
<1> HIDE DEF said
<1>2. Interval(Load(t), h) = IF said > 0 THEN said ELSE DefaultInterval
  BY <1>1 DEF Interval, DefaultInterval
<1> QED BY <1>1, <1>2 DEF said, DefaultInterval

-----------------------------------------------------------------------------
\* Directories define finitely many names.
LEMMA DefinedFinite ==
    ASSUME NEW files, IsDirectory(files)
    PROVE  IsFiniteSet(Defined(files))
<1> DEFINE I == {j \in DOMAIN files : files[j].ok}
           f == [i \in I |-> DOMAIN files[i].defs]
<1>1. IsFiniteSet(I)
  <2>1. Len(files) \in Nat /\ DOMAIN files = 1..Len(files)
    BY LenProperties DEF IsDirectory, IsSequence
  <2>2. IsFiniteSet(1..Len(files))
    BY <2>1, FS_Interval
  <2>3. I \subseteq 1..Len(files)
    BY <2>1
  <2> HIDE DEF I
  <2> QED BY <2>2, <2>3, FS_Subset
<1>2. \A i \in I : IsFiniteSet(f[i])
  BY DEF IsDirectory
<1>3. Defined(files) = UNION {f[i] : i \in I}
  BY DEF Defined
<1>4. f = [i \in I |-> f[i]]
  OBVIOUS
<1> HIDE DEF I, f
<1>5. IsFiniteSet({f[i] : i \in I})
  BY <1>1, <1>4, FiniteImage
<1>6. \A T \in {f[i] : i \in I} : IsFiniteSet(T)
  BY <1>2
<1>7. IsFiniteSet(UNION {f[i] : i \in I})
  BY <1>5, <1>6, FS_UNION
<1> QED BY <1>3, <1>7

\* LongestSleep is what its name says.
LEMMA Sleeps ==
    /\ IdleWait \in Nat /\ LongestSleep \in Nat /\ IdleWait <= LongestSleep
    /\ \A t \in Trees : \A h \in ScheduledIn[t] :
           /\ h \in DOMAIN Load(t).devices
           /\ Interval(Loaded[t], h) \in Nat \ {0} /\ Interval(Loaded[t], h) <= LongestSleep
<1> DEFINE Of(t) == {Interval(Loaded[t], h) : h \in ScheduledIn[t]}
           S == {IdleWait} \cup UNION {Of(t) : t \in Trees}
<1>1. \A t \in Trees : Loaded[t] = Load(t) /\ ScheduledIn[t] = Scheduled(Load(t))
  BY DEF Loaded, ScheduledIn
<1>2. \A t \in Trees : \A h \in ScheduledIn[t] :
          h \in DOMAIN Load(t).devices /\ Interval(Loaded[t], h) \in Nat \ {0}
  <2> TAKE t \in Trees
  <2> TAKE h \in ScheduledIn[t]
  <2>1. h \in DOMAIN Load(t).devices
    BY <1>1 DEF Scheduled
  <2>2. Interval(Load(t), h) \in Nat \ {0}
    BY <2>1, IntervalIsSaid
  <2> QED BY <1>1, <2>1, <2>2
<1>3. S \subseteq Int /\ IdleWait \in S /\ IdleWait \in Nat
  BY <1>2, IdleWaitAssumption
<1>4. ASSUME NEW t \in Trees PROVE IsFiniteSet(Of(t))
  <2> DEFINE D == ScheduledIn[t]
             f == [h \in D |-> Interval(Loaded[t], h)]
  <2>1. DOMAIN Load(t).devices = Defined(t.devices) /\ IsDirectory(t.devices)
    BY LoadSays, TreeTypes
  <2>2. IsFiniteSet(DOMAIN Load(t).devices)
    BY <2>1, DefinedFinite
  <2>3. D \subseteq DOMAIN Load(t).devices
    BY <1>2
  <2>4. IsFiniteSet(D)
    BY <2>2, <2>3, FS_Subset
  <2>5. f = [h \in D |-> f[h]] /\ Of(t) = {f[h] : h \in D}
    OBVIOUS
  <2> HIDE DEF D, f, Of
  <2> QED BY <2>4, <2>5, FiniteImage
<1>5. IsFiniteSet(S)
  <2> DEFINE f == [t \in Trees |-> Of(t)]
  <2>1. f = [t \in Trees |-> f[t]] /\ {f[t] : t \in Trees} = {Of(t) : t \in Trees}
    OBVIOUS
  <2>2. IsFiniteSet(Trees)
    BY TreesAssumption
  <2> HIDE DEF Of
  <2>3. IsFiniteSet({Of(t) : t \in Trees})
    <3>1. IsFiniteSet({f[t] : t \in Trees})
      <4> HIDE DEF f
      <4> QED BY <2>1, <2>2, FiniteImage
    <3> QED BY <2>1, <3>1
  <2>4. \A T \in {Of(t) : t \in Trees} : IsFiniteSet(T)
    BY <1>4
  <2>5. IsFiniteSet(UNION {Of(t) : t \in Trees})
    BY <2>3, <2>4, FS_UNION
  <2>6. IsFiniteSet({IdleWait})
    BY FS_Singleton
  <2> QED BY <2>5, <2>6, FS_Union
<1>6. LongestSleep = Max(S)
  BY DEF LongestSleep
<1>7. \A t \in Trees : \A h \in ScheduledIn[t] : Interval(Loaded[t], h) \in S
  OBVIOUS
<1> HIDE DEF S
<1>8. Max(S) \in S /\ \A x \in S : x <= Max(S)
  BY <1>3, <1>5, MaxFinite
<1>9. Max(S) \in Nat
  <2>1. Max(S) \in Int /\ IdleWait <= Max(S)
    BY <1>3, <1>8
  <2> QED BY <1>3, <2>1
<1> QED BY <1>2, <1>3, <1>6, <1>7, <1>8, <1>9

-----------------------------------------------------------------------------
\* An entry of the configuration, in the heap or popped.
IsEntry(e, h) ==
    /\ e = [dueIn |-> e.dueIn, interval |-> e.interval, jobs |-> e.jobs]
    /\ e.dueIn \in Int /\ e.dueIn <= LongestSleep
    /\ e.interval = Interval(Loaded[tree], h) /\ e.jobs = JobsOf(Loaded[tree], h)

EntriesRight ==
    /\ tree \in Trees
    /\ DOMAIN entries \subseteq ScheduledIn[tree]
    /\ \A h \in DOMAIN entries : IsEntry(entries[h], h)

\* While an entry is fired the loop holds the lock, and its jobs are those given to
\* TrySubmit and those still to give.
FiringRight ==
    firing # NoDevice =>
        /\ loop = "fire"
        /\ firing \in ScheduledIn[tree] \ DOMAIN entries
        /\ IsEntry(popped, firing)
        /\ submitted \in Seq(ToSet(popped.jobs)) /\ unsent \in Seq(ToSet(popped.jobs))
        /\ submitted \o unsent = popped.jobs

\* No Reload has come while the loop slept, since it last fired.
Undisturbed == overslept = FALSE

\* The loop never sleeps longer than LongestSleep, nor past an entry it has seen; one
\* that it has not seen falls behind by no more than that.
SleepRight ==
    /\ loop \in {"look", "idle", "sleep", "fire"}
    /\ wakeIn \in Nat
    /\ loop \in {"idle", "sleep"} => wakeIn <= LongestSleep
    /\ \A h \in DOMAIN entries :
           /\ entries[h].dueIn + LongestSleep >= 0
           /\ loop \in {"idle", "sleep"} => entries[h].dueIn + LongestSleep >= wakeIn
           /\ Undisturbed => loop # "idle" /\ entries[h].dueIn >= 0
           /\ Undisturbed /\ loop = "sleep" => entries[h].dueIn >= wakeIn

SchedulerInv ==
    /\ EntriesRight /\ FiringRight /\ SleepRight
    /\ queue \in 0..JobQueueSize
    /\ overslept \in BOOLEAN

\* What buildEntries makes of a configuration is due at once.
LEMMA Built ==
    ASSUME NEW t \in Trees
    PROVE  /\ DOMAIN Entries(t) = ScheduledIn[t]
           /\ \A h \in ScheduledIn[t] :
                  LET e == Entries(t)[h]
                  IN  /\ e = [dueIn |-> e.dueIn, interval |-> e.interval, jobs |-> e.jobs]
                      /\ e.dueIn = 0 /\ e.dueIn \in Int /\ e.dueIn <= LongestSleep
                      /\ e.interval = Interval(Loaded[t], h) /\ e.jobs = JobsOf(Loaded[t], h)
<1>1. /\ DOMAIN Entries(t) = ScheduledIn[t]
      /\ \A h \in ScheduledIn[t] :
             Entries(t)[h] = [dueIn |-> 0, interval |-> Interval(Loaded[t], h),
                              jobs |-> JobsOf(Loaded[t], h)]
  BY DEF Entries
<1>2. LongestSleep \in Nat
  BY Sleeps
<1>3. 0 \in Int /\ 0 <= LongestSleep
  BY <1>2
<1>4. ASSUME NEW h \in ScheduledIn[t]
      PROVE  LET e == Entries(t)[h]
             IN  /\ e = [dueIn |-> e.dueIn, interval |-> e.interval, jobs |-> e.jobs]
                 /\ e.dueIn = 0 /\ e.interval = Interval(Loaded[t], h) /\ e.jobs = JobsOf(Loaded[t], h)
  <2> DEFINE e == Entries(t)[h]
             interval == Interval(Loaded[t], h)
             jobs == JobsOf(Loaded[t], h)
  <2>1. e = [dueIn |-> 0, interval |-> interval, jobs |-> jobs]
    BY <1>1
  <2> HIDE DEF e, interval, jobs
  <2>2. /\ e = [dueIn |-> e.dueIn, interval |-> e.interval, jobs |-> e.jobs]
        /\ e.dueIn = 0 /\ e.interval = interval /\ e.jobs = jobs
    BY <2>1
  <2> QED BY <2>2 DEF e, interval, jobs
<1> QED BY <1>1, <1>3, <1>4

\* The head of the heap.
LEMMA Head_Earliest ==
    ASSUME NEW b \in Int, DOMAIN entries # {},
           \A h \in DOMAIN entries : entries[h].dueIn \in Int /\ b <= entries[h].dueIn
    PROVE  /\ \E h \in DOMAIN entries : Earliest(entries) = entries[h].dueIn
           /\ \A h \in DOMAIN entries : Earliest(entries) <= entries[h].dueIn
<1> DEFINE S == {entries[h].dueIn : h \in DOMAIN entries}
<1>1. S \subseteq Int /\ S # {} /\ \A x \in S : b <= x
  OBVIOUS
<1>2. Earliest(entries) = Min(S)
  BY DEF Earliest
<1>3. \A h \in DOMAIN entries : entries[h].dueIn \in S
  OBVIOUS
<1>4. \A x \in S : \E h \in DOMAIN entries : x = entries[h].dueIn
  OBVIOUS
<1> HIDE DEF S
<1>5. Min(S) \in S /\ \A x \in S : Min(S) <= x
  BY <1>1, MinBounded
<1> QED BY <1>2, <1>3, <1>4, <1>5

\* The greater of an integer and zero, as the timer is set.
LEMMA AtLeastZero ==
    ASSUME NEW x \in Int
    PROVE  Max({x, 0}) = IF x > 0 THEN x ELSE 0
<1> DEFINE m == IF x > 0 THEN x ELSE 0
           S == {x, 0}
<1>1. S \subseteq Int /\ m \in S /\ \A y \in S : y <= m
  OBVIOUS
<1> HIDE DEF m, S
<1>2. Max(S) = m
  BY <1>1, MaxIs
<1> QED BY <1>2 DEF m, S

\* A job more in the hands of TrySubmit.
LEMMA OneMoved ==
    ASSUME NEW S, NEW s \in Seq(S), NEW u \in Seq(S), u # <<>>
    PROVE  /\ Append(s, Head(u)) \in Seq(S) /\ Tail(u) \in Seq(S)
           /\ Append(s, Head(u)) \o Tail(u) = s \o u
<1>1. /\ Head(u) \in S /\ Tail(u) \in Seq(S) /\ Len(u) \in Nat /\ Len(u) # 0 /\ Len(s) \in Nat
      /\ Len(Tail(u)) = Len(u) - 1 /\ Head(u) = u[1]
      /\ \A i \in 1..(Len(u) - 1) : Tail(u)[i] = u[i + 1]
  BY HeadTailProperties, LenProperties, EmptySeq
<1>2. /\ Append(s, Head(u)) \in Seq(S) /\ Len(Append(s, Head(u))) = Len(s) + 1
      /\ \A i \in 1..Len(s) : Append(s, Head(u))[i] = s[i]
      /\ Append(s, Head(u))[Len(s) + 1] = u[1]
  BY <1>1, AppendProperties
<1> DEFINE a == Append(s, Head(u))
           v == Tail(u)
<1>3. /\ a \o v \in Seq(S) /\ Len(a \o v) = Len(s) + 1 + (Len(u) - 1)
      /\ \A i \in 1..(Len(a) + Len(v)) : (a \o v)[i] = IF i <= Len(a) THEN a[i] ELSE v[i - Len(a)]
  <2> HIDE DEF a, v
  <2>1. a \in Seq(S) /\ v \in Seq(S) /\ Len(a) = Len(s) + 1 /\ Len(v) = Len(u) - 1
    BY <1>1, <1>2 DEF a, v
  <2>2. /\ a \o v \in Seq(S) /\ Len(a \o v) = Len(a) + Len(v)
        /\ \A i \in 1..(Len(a) + Len(v)) : (a \o v)[i] = IF i <= Len(a) THEN a[i] ELSE v[i - Len(a)]
    BY <2>1, ConcatProperties
  <2> QED BY <2>1, <2>2
<1>4. /\ s \o u \in Seq(S) /\ Len(s \o u) = Len(s) + Len(u)
      /\ \A i \in 1..(Len(s) + Len(u)) : (s \o u)[i] = IF i <= Len(s) THEN s[i] ELSE u[i - Len(s)]
  BY ConcatProperties
<1>5. Len(a \o v) = Len(s \o u)
  BY <1>1, <1>3, <1>4
<1>6. ASSUME NEW i \in 1..(Len(s) + Len(u)) PROVE (a \o v)[i] = (s \o u)[i]
  <2>1. (a \o v)[i] = IF i <= Len(s) + 1 THEN a[i] ELSE v[i - (Len(s) + 1)]
    BY <1>1, <1>2, <1>3
  <2>2. CASE i <= Len(s)
    BY <1>1, <1>2, <1>4, <2>1, <2>2
  <2>3. CASE i = Len(s) + 1
    BY <1>1, <1>2, <1>4, <2>1, <2>3
  <2>4. CASE i > Len(s) + 1
    <3>1. i - (Len(s) + 1) \in 1..(Len(u) - 1)
      BY <1>1, <2>4
    <3>2. v[i - (Len(s) + 1)] = u[i - Len(s)]
      BY <1>1, <3>1
    <3> QED BY <1>1, <1>4, <2>1, <2>4, <3>2
  <2> QED BY <1>1, <2>2, <2>3, <2>4
<1>7. a \o v = s \o u
  <2> HIDE DEF a, v
  <2> QED BY <1>1, <1>3, <1>4, <1>5, <1>6, SeqEqual
<1> QED BY <1>1, <1>2, <1>7

\* The program starts with entries that are due.
LEMMA StartsRight == Init => SchedulerInv
<1> SUFFICES ASSUME Init PROVE SchedulerInv
  OBVIOUS
<1>1. /\ tree \in Trees /\ entries = Entries(tree) /\ loop = "look" /\ wakeIn = 0
      /\ firing = NoDevice /\ queue = 0 /\ overslept = FALSE
  BY DEF Init
<1>2. \A h \in DOMAIN entries : IsEntry(entries[h], h) /\ entries[h].dueIn = 0
  BY <1>1, Built DEF IsEntry
<1>3. EntriesRight
  BY <1>1, <1>2, Built DEF EntriesRight
<1>4. SleepRight
  <2>1. LongestSleep \in Nat /\ \A h \in DOMAIN entries : entries[h].dueIn = 0
    BY <1>2, Sleeps
  <2>2. loop = "look" /\ wakeIn = 0
    BY <1>1
  <2> QED BY <2>1, <2>2 DEF SleepRight
<1>5. overslept \in BOOLEAN
  BY <1>1
<1>6. queue \in 0..JobQueueSize
  BY <1>1, QueueSizeAssumption
<1>7. FiringRight
  BY <1>1 DEF FiringRight
<1> QED BY <1>3, <1>4, <1>5, <1>6, <1>7 DEF SchedulerInv

\* Every step keeps it.
LEMMA SchedulerStep == SchedulerInv /\ [Next]_vars => SchedulerInv'
<1> SUFFICES ASSUME SchedulerInv, [Next]_vars PROVE SchedulerInv'
  OBVIOUS
<1> USE DEF SchedulerInv
<1>1. /\ LongestSleep \in Nat /\ IdleWait \in Nat /\ IdleWait <= LongestSleep /\ JobQueueSize \in Nat
      /\ wakeIn \in Nat /\ tree \in Trees
  BY Sleeps, QueueSizeAssumption DEF SleepRight, EntriesRight
<1>2. \A h \in DOMAIN entries : entries[h].dueIn \in Int /\ entries[h].dueIn <= LongestSleep
  BY DEF EntriesRight, IsEntry
<1>3. CASE LookIdle
  <2>1. /\ loop = "look" /\ DOMAIN entries = {} /\ loop' = "idle" /\ wakeIn' = IdleWait
        /\ UNCHANGED <<tree, entries, firing, popped, unsent, submitted, queue, overslept>>
    BY <1>3 DEF LookIdle, fireVars
  <2>0. (Undisturbed' <=> Undisturbed) /\ overslept' \in BOOLEAN
    BY <2>1 DEF Undisturbed
  <2>2. EntriesRight'
    BY <2>1 DEF EntriesRight, IsEntry
  <2>3. FiringRight'
    BY <2>1 DEF FiringRight
  <2>4. SleepRight'
    BY <2>0, <1>1, <2>1 DEF SleepRight
  <2> QED BY <2>0, <2>1, <2>2, <2>3, <2>4
<1>4. CASE Look
  <2>1. /\ loop = "look" /\ DOMAIN entries # {} /\ loop' = "sleep" /\ wakeIn' = Max({Earliest(entries), 0})
        /\ UNCHANGED <<tree, entries, firing, popped, unsent, submitted, queue, overslept>>
    BY <1>4 DEF Look, fireVars
  <2>0. (Undisturbed' <=> Undisturbed) /\ overslept' \in BOOLEAN
    BY <2>1 DEF Undisturbed
  <2>2. \A h \in DOMAIN entries : -LongestSleep <= entries[h].dueIn
    BY <2>0, <1>1, <1>2 DEF SleepRight
  <2>3. /\ \E h \in DOMAIN entries : Earliest(entries) = entries[h].dueIn
        /\ \A h \in DOMAIN entries : Earliest(entries) <= entries[h].dueIn
    <3>1. -LongestSleep \in Int
      BY <1>1
    <3> QED BY <1>2, <2>1, <2>2, <3>1, Head_Earliest
  <2>4. Earliest(entries) \in Int /\ Earliest(entries) <= LongestSleep
    BY <1>2, <2>3
  <2>5. wakeIn' = IF Earliest(entries) > 0 THEN Earliest(entries) ELSE 0
    BY <2>1, <2>4, AtLeastZero
  <2>6. EntriesRight'
    BY <2>1 DEF EntriesRight, IsEntry
  <2>7. FiringRight'
    BY <2>1 DEF FiringRight
  <2>8. wakeIn' \in Nat /\ wakeIn' <= LongestSleep
    BY <1>1, <2>4, <2>5
  <2>9. ASSUME NEW h \in DOMAIN entries
        PROVE  /\ entries[h].dueIn + LongestSleep >= wakeIn'
               /\ Undisturbed => entries[h].dueIn >= wakeIn'
    <3>1. entries[h].dueIn \in Int /\ Earliest(entries) <= entries[h].dueIn
      BY <1>2, <2>3
    <3>2. entries[h].dueIn + LongestSleep >= 0
      BY DEF SleepRight
    <3>3. Undisturbed => entries[h].dueIn >= 0
      BY DEF SleepRight
    <3> QED BY <1>1, <2>4, <2>5, <3>1, <3>2, <3>3
  <2>10. SleepRight'
    BY <2>0, <2>1, <2>8, <2>9 DEF SleepRight
  <2> QED BY <2>0, <2>1, <2>6, <2>7, <2>10
<1>5. CASE Tick
  <2>1. /\ loop \in {"idle", "sleep"} /\ wakeIn > 0 /\ wakeIn' = wakeIn - 1
        /\ entries' = [h \in DOMAIN entries |-> [entries[h] EXCEPT !.dueIn = @ - 1]]
        /\ UNCHANGED <<tree, loop, firing, popped, unsent, submitted, queue, overslept>>
    BY <1>5 DEF Tick, fireVars
  <2>0. (Undisturbed' <=> Undisturbed) /\ overslept' \in BOOLEAN
    BY <2>1 DEF Undisturbed
  <2>2. DOMAIN entries' = DOMAIN entries
    BY <2>1
  <2>3. ASSUME NEW h \in DOMAIN entries
        PROVE  IsEntry(entries[h], h)' /\ entries'[h].dueIn = entries[h].dueIn - 1
    <3>1. entries'[h] = [entries[h] EXCEPT !.dueIn = @ - 1]
      BY <2>1
    <3>2. IsEntry(entries[h], h)
      BY DEF EntriesRight
    <3> QED BY <1>1, <2>1, <3>1, <3>2 DEF IsEntry
  <2>4. EntriesRight'
    BY <2>1, <2>2, <2>3 DEF EntriesRight
  <2>5. FiringRight'
    BY <2>1 DEF FiringRight
  <2>6. SleepRight'
    BY <2>0, <1>1, <1>2, <2>1, <2>2, <2>3 DEF SleepRight
  <2> QED BY <2>0, <2>1, <2>4, <2>5, <2>6
<1>6. CASE Wake
  <2>1. /\ loop \in {"idle", "sleep"} /\ wakeIn = 0
        /\ loop' = IF loop = "idle" THEN "look" ELSE "fire"
        /\ UNCHANGED <<tree, entries, wakeIn, firing, popped, unsent, submitted, queue, overslept>>
    BY <1>6 DEF Wake, fireVars
  <2>0. (Undisturbed' <=> Undisturbed) /\ overslept' \in BOOLEAN
    BY <2>1 DEF Undisturbed
  <2>2. EntriesRight'
    BY <2>1 DEF EntriesRight, IsEntry
  <2>3. FiringRight'
    BY <2>1 DEF FiringRight
  <2>4. SleepRight'
    BY <2>0, <1>1, <2>1 DEF SleepRight
  <2> QED BY <2>0, <2>1, <2>2, <2>3, <2>4
<1>7. ASSUME NEW h \in DOMAIN entries, Pop(h) PROVE SchedulerInv'
  <2>1. /\ loop = "fire" /\ firing' = h /\ popped' = entries[h] /\ unsent' = entries[h].jobs
        /\ submitted' = <<>> /\ entries' = Restrict(entries, DOMAIN entries \ {h})
        /\ UNCHANGED <<tree, loop, wakeIn, queue, overslept>>
    BY <1>7 DEF Pop
  <2>0. (Undisturbed' <=> Undisturbed) /\ overslept' \in BOOLEAN
    BY <2>1 DEF Undisturbed
  <2>2. DOMAIN entries' = DOMAIN entries \ {h} /\ \A g \in DOMAIN entries' : entries'[g] = entries[g]
    BY <2>1 DEF Restrict
  <2>3. EntriesRight'
    BY <2>1, <2>2 DEF EntriesRight, IsEntry
  <2>4. SleepRight'
    BY <2>0, <2>1, <2>2 DEF SleepRight
  <2>5. IsEntry(entries[h], h) /\ h \in ScheduledIn[tree]
    BY DEF EntriesRight
  <2>6. IsEntry(popped, firing)'
    BY <2>1, <2>5 DEF IsEntry
  <2>7. unsent' = JobsOf(Load(tree), h) /\ IsSequence(unsent')
    BY <1>1, <2>1, <2>5, Sleeps, JobsAreMeant DEF IsEntry, Loaded
  <2>8. submitted' \in Seq(ToSet(popped'.jobs)) /\ unsent' \in Seq(ToSet(popped'.jobs))
    BY <2>1, <2>7 DEF IsSequence
  <2>9. submitted' \o unsent' = unsent'
    BY <2>1, <2>7, ConcatEmptySeq DEF IsSequence
  <2>10. FiringRight'
    BY <2>1, <2>2, <2>5, <2>6, <2>7, <2>8, <2>9 DEF FiringRight
  <2> QED BY <2>0, <2>1, <2>3, <2>4, <2>10
<1>8. CASE TrySubmit
  <2>1. /\ firing # NoDevice /\ unsent # <<>>
        /\ queue' = IF queue < JobQueueSize THEN queue + 1 ELSE queue
        /\ submitted' = Append(submitted, Head(unsent)) /\ unsent' = Tail(unsent)
        /\ UNCHANGED <<tree, entries, loop, wakeIn, firing, popped, overslept>>
    BY <1>8 DEF TrySubmit
  <2>0. (Undisturbed' <=> Undisturbed) /\ overslept' \in BOOLEAN
    BY <2>1 DEF Undisturbed
  <2>2. EntriesRight' /\ SleepRight'
    BY <2>0, <2>1 DEF EntriesRight, IsEntry, SleepRight
  <2> DEFINE S == ToSet(popped.jobs)
  <2>3. submitted \in Seq(S) /\ unsent \in Seq(S) /\ S = ToSet(popped'.jobs)
    BY <2>1 DEF FiringRight
  <2> HIDE DEF S
  <2>4. submitted' \in Seq(S) /\ unsent' \in Seq(S) /\ submitted' \o unsent' = submitted \o unsent
    BY <2>1, <2>3, OneMoved
  <2>5. FiringRight'
    BY <2>1, <2>3, <2>4 DEF FiringRight, IsEntry
  <2>6. queue' \in 0..JobQueueSize
    BY <1>1, <2>1
  <2> QED BY <2>0, <2>2, <2>5, <2>6
<1>9. CASE Push
  <2>1. /\ firing # NoDevice /\ entries' = WithPopped /\ firing' = NoDevice
        /\ UNCHANGED <<tree, loop, wakeIn, unsent, submitted, queue, overslept>>
    BY <1>9 DEF Push
  <2>0. (Undisturbed' <=> Undisturbed) /\ overslept' \in BOOLEAN
    BY <2>1 DEF Undisturbed
  <2>2. loop = "fire" /\ firing \in ScheduledIn[tree] \ DOMAIN entries /\ IsEntry(popped, firing)
    BY <2>1 DEF FiringRight
  <2>3. /\ DOMAIN entries' = DOMAIN entries \cup {firing}
        /\ \A h \in DOMAIN entries : entries'[h] = entries[h]
        /\ entries'[firing] = [popped EXCEPT !.dueIn = popped.interval]
    BY <2>1, <2>2 DEF WithPopped
  <2>4. popped.interval \in Nat /\ popped.interval <= LongestSleep
    BY <1>1, <2>2, Sleeps DEF IsEntry
  <2>5. IsEntry(entries'[firing], firing) /\ entries'[firing].dueIn = popped.interval
    BY <2>2, <2>3, <2>4 DEF IsEntry
  <2>6. EntriesRight'
    BY <2>1, <2>2, <2>3, <2>5 DEF EntriesRight, IsEntry
  <2>7. SleepRight'
    <3>1. ASSUME NEW h \in DOMAIN entries'
          PROVE  /\ entries'[h].dueIn + LongestSleep >= 0
                 /\ Undisturbed => entries'[h].dueIn >= 0
      <4>1. CASE h = firing
        BY <1>1, <2>4, <2>5, <4>1
      <4>2. CASE h # firing
        <5>1. h \in DOMAIN entries /\ entries'[h] = entries[h]
          BY <2>3, <4>2
        <5> QED BY <5>1 DEF SleepRight
      <4> QED BY <4>1, <4>2
    <3>2. loop' = loop /\ wakeIn' = wakeIn
      BY <2>1
    <3> QED BY <2>0, <2>2, <3>1, <3>2 DEF SleepRight
  <2> QED BY <2>0, <2>1, <2>6, <2>7 DEF FiringRight
<1>10. CASE FireDone
  <2>1. /\ loop = "fire" /\ firing = NoDevice /\ (\A h \in DOMAIN entries : entries[h].dueIn > 0)
        /\ loop' = "look" /\ overslept' = FALSE
        /\ UNCHANGED <<tree, entries, wakeIn, firing, popped, unsent, submitted, queue>>
    BY <1>10 DEF FireDone, fireVars
  <2>2. EntriesRight'
    BY <2>1 DEF EntriesRight, IsEntry
  <2>3. FiringRight'
    BY <2>1 DEF FiringRight
  <2>4. SleepRight'
    <3>1. \A h \in DOMAIN entries : entries[h].dueIn >= 0 /\ entries[h].dueIn + LongestSleep >= 0
      BY <1>1, <1>2, <2>1
    <3> QED BY <1>1, <2>1, <3>1 DEF SleepRight
  <2> QED BY <2>1, <2>2, <2>3, <2>4
<1>11. ASSUME NEW t \in Trees, Reload(t) PROVE SchedulerInv'
  <2>1. /\ loop # "fire" /\ tree' = t /\ entries' = Entries(t)
        /\ overslept' = (overslept \/ loop \in {"idle", "sleep"})
        /\ UNCHANGED <<loop, wakeIn, firing, popped, unsent, submitted, queue>>
    BY <1>11 DEF Reload, fireVars
  <2>2. DOMAIN entries' = ScheduledIn[t]
        /\ \A h \in DOMAIN entries' : IsEntry(entries[h], h)' /\ entries'[h].dueIn = 0
    BY <2>1, Built DEF IsEntry
  <2>3. EntriesRight'
    BY <2>1, <2>2 DEF EntriesRight
  <2>4. FiringRight'
    BY <2>1 DEF FiringRight
  <2>5. SleepRight'
    <3>1. \A h \in DOMAIN entries' : entries'[h].dueIn = 0
      BY <2>2
    <3>2. Undisturbed' => loop \notin {"idle", "sleep"}
      BY <2>1 DEF Undisturbed
    <3>3. loop' \in {"idle", "sleep"} => wakeIn' <= LongestSleep
      BY <2>1 DEF SleepRight
    <3>4. loop' = loop /\ wakeIn' = wakeIn /\ loop \in {"look", "idle", "sleep", "fire"}
      BY <2>1 DEF SleepRight
    <3> QED BY <1>1, <3>1, <3>2, <3>3, <3>4 DEF SleepRight
  <2>6. overslept' \in BOOLEAN
    BY <2>1
  <2> QED BY <2>1, <2>3, <2>4, <2>5, <2>6
<1>12. CASE TakeJob
  <2>1. /\ queue > 0 /\ queue' = queue - 1
        /\ UNCHANGED <<tree, entries, loop, wakeIn, firing, popped, unsent, submitted, overslept>>
    BY <1>12 DEF TakeJob, fireVars
  <2>0. (Undisturbed' <=> Undisturbed) /\ overslept' \in BOOLEAN
    BY <2>1 DEF Undisturbed
  <2>2. EntriesRight' /\ SleepRight'
    BY <2>0, <2>1 DEF EntriesRight, IsEntry, SleepRight
  <2>3. FiringRight'
    BY <2>1 DEF FiringRight, IsEntry
  <2>4. queue' \in 0..JobQueueSize
    BY <1>1, <2>1
  <2> QED BY <2>0, <2>2, <2>3, <2>4
<1>13. CASE UNCHANGED vars
  BY <1>13 DEF vars, EntriesRight, IsEntry, SleepRight, FiringRight, Undisturbed
<1> QED BY <1>3, <1>4, <1>5, <1>6, <1>7, <1>8, <1>9, <1>10, <1>11, <1>12, <1>13 DEF Next, Loop

\* The types of the scheduler, for any number of devices and configurations.
THEOREM Typing == Spec => []TypeOK
<1>1. SchedulerInv => TypeOK
  BY DEF SchedulerInv, EntriesRight, IsEntry, FiringRight, SleepRight, TypeOK
<1> QED BY StartsRight, SchedulerStep, <1>1, PTL DEF Spec

\* No device waits past its due time, unless a Reload found the loop asleep, and then
\* no longer than the longest sleep (Scheduler.Start), for any configurations.
THEOREM AlwaysOnTime == Spec => []OnTime
<1>1. SchedulerInv => OnTime
  <2> SUFFICES ASSUME SchedulerInv, NEW h \in DOMAIN entries
               PROVE  entries[h].dueIn >= (IF overslept THEN -LongestSleep ELSE 0)
    BY DEF OnTime
  <2>1. /\ entries[h].dueIn \in Int /\ LongestSleep \in Nat /\ entries[h].dueIn + LongestSleep >= 0
        /\ Undisturbed => entries[h].dueIn >= 0
    BY Sleeps DEF SchedulerInv, EntriesRight, IsEntry, SleepRight
  <2>2. entries[h].dueIn >= -LongestSleep
    BY <2>1
  <2>3. CASE overslept = TRUE
    BY <2>2, <2>3
  <2>4. CASE overslept = FALSE
    <3>1. entries[h].dueIn >= 0
      BY <2>1, <2>4 DEF Undisturbed
    <3> QED BY <2>4, <3>1
  <2> QED BY <2>3, <2>4 DEF SchedulerInv
<1> QED BY StartsRight, SchedulerStep, <1>1, PTL DEF Spec

\* A firing of a device submits each object that the configuration files mean for it
\* once, at the interval they say, for any files (Load, ResolveJobs, fireEntry).
THEOREM AlwaysFiresWhatIsMeant == Spec => []FiresWhatIsMeant
<1>1. ASSUME SchedulerInv, firing # NoDevice, unsent = <<>>
      PROVE  /\ firing \in Defined(tree.devices)
             /\ LET said == LastWord(tree.devices, firing).interval
                IN  popped.interval = IF said > 0 THEN said ELSE DefaultInterval
             /\ ToSet(submitted) = Meant(tree, firing)
             /\ Len(submitted) = Cardinality(Meant(tree, firing))
  <2>1. /\ tree \in Trees /\ firing \in ScheduledIn[tree] /\ IsEntry(popped, firing)
        /\ submitted \o unsent = popped.jobs
    BY <1>1 DEF SchedulerInv, EntriesRight, FiringRight
  <2>2. submitted \in Seq(ToSet(popped.jobs))
    BY <1>1 DEF SchedulerInv, FiringRight
  <2>3. submitted \o unsent = submitted
    BY <1>1, <2>2, ConcatEmptySeq
  <2>4. firing \in DOMAIN Load(tree).devices /\ Loaded[tree] = Load(tree)
    BY <2>1, Sleeps DEF Loaded
  <2>5. submitted = JobsOf(Load(tree), firing) /\ popped.interval = Interval(Load(tree), firing)
    BY <2>1, <2>3, <2>4 DEF IsEntry
  <2> QED BY <2>1, <2>4, <2>5, JobsAreMeant, IntervalIsSaid
<1>2. SchedulerInv => FiresWhatIsMeant
  BY <1>1 DEF FiresWhatIsMeant
<1> QED BY StartsRight, SchedulerStep, <1>2, PTL DEF Spec
=============================================================================
