----------------------- MODULE ConnectionPool_proofs -----------------------
(***************************************************************************)
(* Proofs about ConnectionPool, for any number of workers, devices,        *)
(* sessions and configured limits.                                         *)
(***************************************************************************)
EXTENDS ConnectionPool, FiniteSetTheorems, TLAPS

USE WorkersAssumption, HostsAssumption, ConnsAssumption, LimitsAssumption,
    MaxIdleAssumption, FlagAssumption

\* The inductive invariant. No part of it is inductive alone: what Put appends
\* to a stack is a session only because SessionsExclusive holds, and CreatePool
\* loses no session only because SocketBound leaves none to a device without a
\* devicePool.
IInv ==
    /\ TypeOK
    /\ SessionsExclusive
    /\ NoSessionLost
    /\ TokensAccounted
    /\ SocketBound

\* The capacity of a new semaphore is positive (pool.go:204-206), so that a device that
\* has a devicePool can be told from one that has none.
LEMMA CapacityPositive ==
    ASSUME NEW m \in ConfiguredLimits
    PROVE  Capacity(m) \in Nat /\ Capacity(m) > 0
BY DEF Capacity, DefaultLimit

\* A worker inside a call works for a device.
LEMMA InCallHost ==
    ASSUME TypeOK, NEW w \in Workers, pc[w] \notin {"ready", "exited"}
    PROVE  host[w] \in Hosts
BY DEF TypeOK

-----------------------------------------------------------------------------
\* Every step keeps the variables in their ranges.
LEMMA TypeStep ==
    ASSUME TypeOK, SessionsExclusive, [Next]_vars
    PROVE  TypeOK'
<1> USE DEF callVars, poolVars, ctrlVars, Goto, Fail, Points, TokenPoints
<1>1. ASSUME NEW w \in Workers, NEW h \in Hosts, Lookup(w, h) PROVE TypeOK'
  BY <1>1 DEF Lookup, TypeOK
<1>2. ASSUME NEW w \in Workers, NEW m \in ConfiguredLimits, CreatePool(w, m)
      PROVE  TypeOK'
  <2>1. host[w] \in Hosts
    BY <1>2, InCallHost DEF CreatePool
  <2>2. CASE Created(host[w])
    BY <1>2, <2>2 DEF CreatePool, TypeOK
  <2>3. CASE ~Created(host[w])
    <3>1. Capacity(m) \in Nat
      BY CapacityPositive
    <3>2. /\ cap'   = [cap EXCEPT ![host[w]] = Capacity(m)]
          /\ sem'   = [sem EXCEPT ![host[w]] = 0]
          /\ idle'  = [idle EXCEPT ![host[w]] = <<>>]
          /\ stale' = [stale EXCEPT ![host[w]] = 0]
      BY <1>2, <2>3 DEF CreatePool
    <3>3. /\ cap' \in [Hosts -> Nat] /\ sem' \in [Hosts -> Nat]
          /\ idle' \in [Hosts -> Seq(Conns)] /\ stale' \in [Hosts -> Nat]
      BY <2>1, <3>1, <3>2 DEF TypeOK
    <3>4. \A h \in Hosts : Len(idle'[h]) <= MaxIdle /\ stale'[h] <= Len(idle'[h])
      BY <2>1, <3>2 DEF TypeOK
    <3> QED BY <1>2, <3>3, <3>4 DEF CreatePool, TypeOK
  <2> QED BY <2>2, <2>3
<1>3. ASSUME NEW w \in Workers, CheckClosed(w) PROVE TypeOK'
  BY <1>3 DEF CheckClosed, TypeOK
<1>4. ASSUME NEW w \in Workers, Acquire(w) PROVE TypeOK'
  <2>1. host[w] \in Hosts
    BY <1>4, InCallHost DEF Acquire
  <2> QED BY <1>4, <2>1 DEF Acquire, TypeOK
<1>5. ASSUME NEW w \in Workers, GiveUp(w) PROVE TypeOK'
  BY <1>5 DEF GiveUp, TypeOK
<1>6. ASSUME NEW w \in Workers, PopIdle(w) PROVE TypeOK'
  <2>1. host[w] \in Hosts
    BY <1>6, InCallHost DEF PopIdle
  <2>2. CASE Len(idle[host[w]]) > stale[host[w]]
    <3> DEFINE s == idle[host[w]]
               t == SubSeq(s, 1, Len(s) - 1)
    <3>1. s \in Seq(Conns) /\ Len(s) > 0 /\ stale[host[w]] \in Nat
      BY <2>1, <2>2 DEF TypeOK
    <3>2. t \in Seq(Conns) /\ Len(t) = Len(s) - 1 /\ s[Len(s)] \in Conns
      BY <3>1
    <3>3. /\ idle' = [idle EXCEPT ![host[w]] = t]
          /\ hold' = [hold EXCEPT ![w] = s[Len(s)]]
          /\ pc' = [pc EXCEPT ![w] = "poll"]
          /\ UNCHANGED <<host, cap, sem, stale, home, closer, undrained, overtaken, cancelled>>
      BY <1>6, <2>2 DEF PopIdle
    <3>4. idle' \in [Hosts -> Seq(Conns)]
      BY <3>2, <3>3 DEF TypeOK
    <3>5. \A h \in Hosts : Len(idle'[h]) <= MaxIdle /\ stale'[h] <= Len(idle'[h])
      BY <2>1, <2>2, <3>1, <3>2, <3>3 DEF TypeOK
    <3>6. pc' \in [Workers -> Points] /\ hold' \in [Workers -> Conns \cup {NoConn}]
      BY <3>2, <3>3 DEF TypeOK
    <3>7. \A v \in Workers : host'[v] = NoHost <=> pc'[v] \in {"ready", "exited"}
      BY <1>6, <2>1, <3>3 DEF TypeOK, PopIdle
    <3> HIDE DEF s, t
    <3> QED BY <3>3, <3>4, <3>5, <3>6, <3>7 DEF TypeOK
  <2>3. CASE ~(Len(idle[host[w]]) > stale[host[w]])
    <3>1. /\ home' = [c \in Conns |-> IF \E i \in 1..Len(idle[host[w]]) : idle[host[w]][i] = c
                                      THEN NoHost ELSE home[c]]
          /\ idle' = [idle EXCEPT ![host[w]] = <<>>]
          /\ stale' = [stale EXCEPT ![host[w]] = 0]
          /\ pc' = [pc EXCEPT ![w] = "dial"]
          /\ UNCHANGED <<host, hold, cap, sem, closer, undrained, overtaken, cancelled>>
      BY <1>6, <2>3 DEF PopIdle
    <3>2. home' \in [Conns -> Hosts \cup {NoHost}]
      BY <3>1 DEF TypeOK
    <3>3. idle' \in [Hosts -> Seq(Conns)] /\ stale' \in [Hosts -> Nat]
      BY <2>1, <3>1 DEF TypeOK
    <3>4. \A h \in Hosts : Len(idle'[h]) <= MaxIdle /\ stale'[h] <= Len(idle'[h])
      BY <2>1, <3>1 DEF TypeOK
    <3>5. pc' \in [Workers -> Points]
      BY <3>1 DEF TypeOK
    <3>6. \A v \in Workers : host'[v] = NoHost <=> pc'[v] \in {"ready", "exited"}
      BY <1>6, <3>1 DEF TypeOK, PopIdle
    <3> QED BY <3>1, <3>2, <3>3, <3>4, <3>5, <3>6 DEF TypeOK
  <2> QED BY <2>2, <2>3
<1>7. ASSUME NEW w \in Workers, Dial(w) PROVE TypeOK'
  <2>1. host[w] \in Hosts
    BY <1>7, InCallHost DEF Dial
  <2> QED BY <1>7, <2>1 DEF Dial, Fresh, TypeOK
<1>8. ASSUME NEW w \in Workers, DialFails(w) PROVE TypeOK'
  BY <1>8 DEF DialFails, TypeOK
<1>9. ASSUME NEW w \in Workers, PollEnds(w) PROVE TypeOK'
  BY <1>9 DEF PollEnds, TypeOK
<1>10. ASSUME NEW w \in Workers, Put(w) PROVE TypeOK'
  <2>1. host[w] \in Hosts
    BY <1>10, InCallHost DEF Put
  <2>2. hold[w] \in Conns
    BY <1>10 DEF Put, TypeOK, SessionsExclusive, SessionPoints
  <2>3. CASE Len(idle[host[w]]) >= MaxIdle
    BY <1>10, <2>1, <2>2, <2>3 DEF Put, TypeOK
  <2>4. CASE ~(Len(idle[host[w]]) >= MaxIdle)
    <3>1. idle' = [idle EXCEPT ![host[w]] = Append(idle[host[w]], hold[w])]
      BY <1>10, <2>4 DEF Put
    <3>2. idle[host[w]] \in Seq(Conns) /\ Len(idle[host[w]]) < MaxIdle
      BY <2>1, <2>4 DEF TypeOK
    <3>3. idle' \in [Hosts -> Seq(Conns)]
      BY <2>1, <2>2, <3>1, <3>2 DEF TypeOK
    <3>4. \A h \in Hosts : Len(idle'[h]) <= MaxIdle /\ stale'[h] <= Len(idle'[h])
      BY <1>10, <2>1, <2>2, <3>1, <3>2 DEF TypeOK, Put
    <3> QED BY <1>10, <2>4, <3>3, <3>4 DEF Put, TypeOK
  <2> QED BY <2>3, <2>4
<1>11. ASSUME NEW w \in Workers, Discard(w) PROVE TypeOK'
  BY <1>11 DEF Discard, TypeOK
<1>12. ASSUME NEW w \in Workers, Release(w) PROVE TypeOK'
  <2>1. host[w] \in Hosts
    BY <1>12, InCallHost DEF Release
  <2> QED BY <1>12, <2>1 DEF Release, TypeOK
<1>13. ASSUME NEW w \in Workers, Exit(w) PROVE TypeOK'
  BY <1>13 DEF Exit, TypeOK
<1>14. ASSUME NEW h \in Hosts, Age(h) PROVE TypeOK'
  BY <1>14 DEF Age, TypeOK
<1>15. CASE Cancel
  BY <1>15 DEF Cancel, TypeOK
<1>16. CASE CloseBegin
  BY <1>16 DEF CloseBegin, TypeOK
<1>17. CASE CloseLock
  BY <1>17 DEF CloseLock, TypeOK
<1>18. ASSUME NEW h \in Hosts, Drain(h) PROVE TypeOK'
  BY <1>18 DEF Drain, TypeOK
<1>19. CASE CloseEnd
  BY <1>19 DEF CloseEnd, TypeOK
<1>20. CASE UNCHANGED vars
  BY <1>20 DEF vars, TypeOK
<1> QED
  BY <1>1, <1>2, <1>3, <1>4, <1>5, <1>6, <1>7, <1>8, <1>9, <1>10, <1>11, <1>12,
     <1>13, <1>14, <1>15, <1>16, <1>17, <1>18, <1>19, <1>20
     DEF Next, Call, Closing, Terminated

-----------------------------------------------------------------------------
\* A worker that has no session disturbs nobody's while it moves on without one.
LEMMA NoSessionMove ==
    ASSUME TypeOK, SessionsExclusive, NEW w \in Workers,
           pc[w] \notin SessionPoints, pc'[w] \notin SessionPoints,
           UNCHANGED <<hold, idle, home>>,
           \A v \in Workers : v # w => pc'[v] = pc[v] /\ host'[v] = host[v]
    PROVE  SessionsExclusive'
<1>1. hold[w] = NoConn
  BY DEF SessionsExclusive
<1> QED BY <1>1 DEF SessionsExclusive

\* A worker that has a session has an open one of its device.
LEMMA HeldSession ==
    ASSUME TypeOK, SessionsExclusive, NEW w \in Workers, pc[w] \in SessionPoints
    PROVE  host[w] \in Hosts /\ hold[w] \in Conns /\ home[hold[w]] = host[w]
<1>1. hold[w] \in Conns
  BY DEF TypeOK, SessionsExclusive
<1>2. host[w] \in Hosts
  BY InCallHost DEF SessionPoints
<1> QED BY <1>1, <1>2 DEF SessionsExclusive

\* No step makes two owners of one session, or an owner of a closed one.
LEMMA SessionsStep ==
    ASSUME TypeOK, SessionsExclusive, [Next]_vars
    PROVE  SessionsExclusive'
<1> USE DEF callVars, poolVars, ctrlVars, Goto, Fail, SessionPoints
<1>1. ASSUME NEW w \in Workers, NEW h \in Hosts, Lookup(w, h)
      PROVE  SessionsExclusive'
  BY <1>1, NoSessionMove DEF Lookup, TypeOK
<1>2. ASSUME NEW w \in Workers, NEW m \in ConfiguredLimits, CreatePool(w, m)
      PROVE  SessionsExclusive'
  <2>1. host[w] \in Hosts
    BY <1>2, InCallHost DEF CreatePool
  <2>2. \A h \in Hosts : idle'[h] = idle[h] \/ idle'[h] = <<>>
    BY <1>2, <2>1 DEF CreatePool, TypeOK
  <2>3. pc' = [pc EXCEPT ![w] = "check"] /\ pc[w] = "create"
        /\ UNCHANGED <<hold, home, host>>
    BY <1>2 DEF CreatePool
  <2>4. \A v \in Workers : pc'[v] \in SessionPoints <=> pc[v] \in SessionPoints
    BY <2>3 DEF TypeOK
  <2>5. \A h \in Hosts : \A i \in 1..Len(idle'[h]) : idle'[h] = idle[h]
    BY <2>2
  <2> HIDE DEF SessionPoints
  <2> QED BY <2>3, <2>4, <2>5 DEF SessionsExclusive
<1>3. ASSUME NEW w \in Workers, CheckClosed(w) PROVE SessionsExclusive'
  BY <1>3, NoSessionMove DEF CheckClosed, TypeOK
<1>4. ASSUME NEW w \in Workers, Acquire(w) PROVE SessionsExclusive'
  BY <1>4, NoSessionMove DEF Acquire, TypeOK
<1>5. ASSUME NEW w \in Workers, GiveUp(w) PROVE SessionsExclusive'
  BY <1>5, NoSessionMove DEF GiveUp, TypeOK
<1>6. ASSUME NEW w \in Workers, PopIdle(w) PROVE SessionsExclusive'
  <2>1. host[w] \in Hosts
    BY <1>6, InCallHost DEF PopIdle
  <2>2. CASE Len(idle[host[w]]) > stale[host[w]]
    <3> DEFINE s == idle[host[w]]
               t == SubSeq(s, 1, Len(s) - 1)
    <3>1. s \in Seq(Conns) /\ Len(s) > 0 /\ stale[host[w]] \in Nat
      BY <2>1, <2>2 DEF TypeOK
    <3>2. /\ t \in Seq(Conns) /\ Len(t) = Len(s) - 1 /\ s[Len(s)] \in Conns
          /\ \A i \in 1..Len(t) : t[i] = s[i]
      BY <3>1
    <3>3. /\ idle' = [idle EXCEPT ![host[w]] = t]
          /\ hold' = [hold EXCEPT ![w] = s[Len(s)]]
          /\ pc' = [pc EXCEPT ![w] = "poll"]
          /\ pc[w] = "pop"
          /\ UNCHANGED <<host, home>>
      BY <1>6, <2>2 DEF PopIdle
    <3>4. /\ home[s[Len(s)]] = host[w]
          /\ \A v \in Workers : hold[v] # s[Len(s)]
          /\ \A i \in 1..Len(t) : t[i] # s[Len(s)]
      BY <2>1, <3>1, <3>2 DEF SessionsExclusive
    <3>5. \A h \in Hosts : \A i \in 1..Len(idle'[h]) :
             i \in 1..Len(idle[h]) /\ idle'[h][i] = idle[h][i]
      BY <2>1, <3>1, <3>2, <3>3 DEF TypeOK
    <3>6. \A h \in Hosts : \A i \in 1..Len(idle'[h]) : idle'[h][i] # s[Len(s)]
      BY <2>1, <3>1, <3>2, <3>3, <3>4 DEF TypeOK, SessionsExclusive
    <3> HIDE DEF s, t
    <3>7. \A v \in Workers : hold'[v] = IF v = w THEN s[Len(s)] ELSE hold[v]
      BY <3>3 DEF TypeOK
    <3>8. \A v \in Workers : pc'[v] = IF v = w THEN "poll" ELSE pc[v]
      BY <3>3 DEF TypeOK
    <3>9. \A v \in Workers : pc'[v] \in SessionPoints <=> hold'[v] # NoConn
      BY <3>2, <3>7, <3>8 DEF SessionsExclusive
    <3>10. \A v \in Workers : hold'[v] # NoConn => home'[hold'[v]] = host'[v]
      BY <3>3, <3>4, <3>7 DEF SessionsExclusive
    <3>11. \A u, v \in Workers : hold'[u] = hold'[v] /\ hold'[u] # NoConn => u = v
      BY <3>4, <3>7 DEF SessionsExclusive
    <3>12. \A h \in Hosts : \A i \in 1..Len(idle'[h]) :
             /\ home'[idle'[h][i]] = h
             /\ \A v \in Workers : hold'[v] # idle'[h][i]
             /\ \A j \in 1..Len(idle'[h]) : idle'[h][i] = idle'[h][j] => i = j
      BY <3>3, <3>5, <3>6, <3>7 DEF SessionsExclusive
    <3> QED BY <3>9, <3>10, <3>11, <3>12 DEF SessionsExclusive
  <2>3. CASE ~(Len(idle[host[w]]) > stale[host[w]])
    <3>1. /\ home' = [c \in Conns |-> IF \E i \in 1..Len(idle[host[w]]) : idle[host[w]][i] = c
                                      THEN NoHost ELSE home[c]]
          /\ idle' = [idle EXCEPT ![host[w]] = <<>>]
          /\ pc' = [pc EXCEPT ![w] = "dial"]
          /\ pc[w] = "pop"
          /\ UNCHANGED <<host, hold>>
      BY <1>6, <2>3 DEF PopIdle
    <3> QED BY <2>1, <3>1 DEF TypeOK, SessionsExclusive
  <2> QED BY <2>2, <2>3
<1>7. ASSUME NEW w \in Workers, Dial(w) PROVE SessionsExclusive'
  <2>1. host[w] \in Hosts /\ hold[w] = NoConn /\ pc[w] = "dial"
    <3>1. host[w] \in Hosts
      BY <1>7, InCallHost DEF Dial
    <3> QED BY <1>7, <3>1 DEF Dial, SessionsExclusive
  <2>2. PICK c \in Fresh : /\ home' = [home EXCEPT ![c] = host[w]]
                           /\ hold' = [hold EXCEPT ![w] = c]
                           /\ pc' = [pc EXCEPT ![w] = "poll"]
                           /\ UNCHANGED <<host, idle>>
    BY <1>7 DEF Dial
  <2>3. c \in Conns /\ home[c] = NoHost
    BY DEF Fresh
  <2>4. /\ \A v \in Workers : hold[v] # c
        /\ \A h \in Hosts : \A i \in 1..Len(idle[h]) : idle[h][i] # c
    <3>1. \A v \in Workers : hold[v] = c => host[v] = NoHost
      BY <2>3 DEF SessionsExclusive
    <3>2. \A v \in Workers : hold[v] = c => pc[v] \in SessionPoints
      BY <2>3 DEF SessionsExclusive
    <3> QED BY <2>3, <3>1, <3>2, InCallHost DEF SessionsExclusive
  <2>5. \A v \in Workers : /\ hold'[v] = IF v = w THEN c ELSE hold[v]
                           /\ pc'[v] = IF v = w THEN "poll" ELSE pc[v]
    BY <2>2 DEF TypeOK
  <2>6. \A d \in Conns : home'[d] = IF d = c THEN host[w] ELSE home[d]
    BY <2>2 DEF TypeOK
  <2>7. \A v \in Workers : hold'[v] # NoConn => home'[hold'[v]] = host'[v]
    BY <2>2, <2>3, <2>4, <2>5, <2>6 DEF TypeOK, SessionsExclusive
  <2>8. \A h \in Hosts : \A i \in 1..Len(idle[h]) : idle[h][i] \in Conns
    BY DEF TypeOK
  <2>9. \A h \in Hosts : \A i \in 1..Len(idle'[h]) :
           /\ home'[idle'[h][i]] = h
           /\ \A v \in Workers : hold'[v] # idle'[h][i]
           /\ \A j \in 1..Len(idle'[h]) : idle'[h][i] = idle'[h][j] => i = j
    BY <2>2, <2>4, <2>5, <2>6, <2>8 DEF SessionsExclusive
  <2>10. \A v \in Workers : pc'[v] \in SessionPoints <=> hold'[v] # NoConn
    BY <2>3, <2>5 DEF SessionsExclusive
  <2>11. \A u, v \in Workers : hold'[u] = hold'[v] /\ hold'[u] # NoConn => u = v
    BY <2>4, <2>5 DEF SessionsExclusive
  <2> QED BY <2>7, <2>9, <2>10, <2>11 DEF SessionsExclusive
<1>8. ASSUME NEW w \in Workers, DialFails(w) PROVE SessionsExclusive'
  BY <1>8, NoSessionMove DEF DialFails, TypeOK
<1>9. ASSUME NEW w \in Workers, PollEnds(w) PROVE SessionsExclusive'
  BY <1>9 DEF PollEnds, TypeOK, SessionsExclusive
<1>10. ASSUME NEW w \in Workers, Put(w) PROVE SessionsExclusive'
  <2>1. host[w] \in Hosts /\ hold[w] \in Conns /\ home[hold[w]] = host[w]
    BY <1>10, HeldSession DEF Put
  <2>2. CASE Len(idle[host[w]]) >= MaxIdle
    BY <1>10, <2>1, <2>2 DEF Put, TypeOK, SessionsExclusive
  <2>3. CASE ~(Len(idle[host[w]]) >= MaxIdle)
    <3> DEFINE s == idle[host[w]]
               t == Append(s, hold[w])
    <3>1. /\ idle' = [idle EXCEPT ![host[w]] = t]
          /\ hold' = [hold EXCEPT ![w] = NoConn]
          /\ pc' = [pc EXCEPT ![w] = "release"]
          /\ UNCHANGED <<host, home>>
      BY <1>10, <2>3 DEF Put
    <3>2. s \in Seq(Conns)
      BY <2>1 DEF TypeOK
    <3>3. /\ Len(t) = Len(s) + 1 /\ t[Len(t)] = hold[w]
          /\ \A i \in 1..Len(s) : t[i] = s[i]
      BY <2>1, <3>2
    <3>4. \A h \in Hosts : idle'[h] = IF h = host[w] THEN t ELSE idle[h]
      BY <3>1 DEF TypeOK
    <3>5. \A v \in Workers : /\ hold'[v] = IF v = w THEN NoConn ELSE hold[v]
                             /\ pc'[v] = IF v = w THEN "release" ELSE pc[v]
      BY <3>1 DEF TypeOK
    <3>6. \A h \in Hosts : \A i \in 1..Len(idle[h]) : idle[h][i] # hold[w]
      BY DEF SessionsExclusive
    <3>7. \A i \in 1..Len(t) : home'[t[i]] = host[w]
      BY <2>1, <3>1, <3>2, <3>3 DEF SessionsExclusive
    <3>8. \A i \in 1..Len(t) : \A v \in Workers : hold'[v] # t[i]
      <4>1. hold[w] # NoConn
        BY <2>1, ConnsAssumption
      <4>2. \A i \in 1..Len(s) : s[i] \in Conns
        BY <3>2
      <4>3. ASSUME NEW i \in 1..Len(s), NEW v \in Workers PROVE hold'[v] # s[i]
        <5>1. hold[v] # s[i]
          BY <2>1 DEF SessionsExclusive
        <5>2. s[i] # NoConn
          BY <4>2, ConnsAssumption
        <5> QED BY <3>5, <5>1, <5>2
      <4>4. ASSUME NEW v \in Workers PROVE hold'[v] # hold[w]
        <5>1. v # w => hold[v] # hold[w]
          BY <4>1 DEF SessionsExclusive
        <5> QED BY <3>5, <4>1, <5>1
      <4>5. Len(s) \in Nat
        BY <3>2
      <4> HIDE DEF t, s
      <4>6. \A i \in 1..Len(t) : i \in 1..Len(s) \/ i = Len(t)
        BY <3>3, <4>5
      <4>7. \A i \in 1..Len(t) : t[i] = hold[w] \/ \E j \in 1..Len(s) : t[i] = s[j]
        BY <3>3, <4>6
      <4> QED BY <4>3, <4>4, <4>7
    <3>9. \A i, j \in 1..Len(t) : t[i] = t[j] => i = j
      <4>1. Len(s) \in Nat
        BY <3>2
      <4>2. \A i \in 1..Len(s) : s[i] # hold[w]
        BY <2>1, <3>6
      <4>3. \A i, j \in 1..Len(s) : s[i] = s[j] => i = j
        BY <2>1 DEF SessionsExclusive
      <4> HIDE DEF t, s
      <4>4. \A i \in 1..Len(t) : i \in 1..Len(s) \/ i = Len(t)
        BY <3>3, <4>1
      <4>5. ASSUME NEW i \in 1..Len(t), NEW j \in 1..Len(t), t[i] = t[j] PROVE i = j
        <5>1. CASE i \in 1..Len(s) /\ j \in 1..Len(s)
          BY <3>3, <4>3, <4>5, <5>1
        <5>2. CASE i \in 1..Len(s) /\ j = Len(t)
          BY <3>3, <4>2, <4>5, <5>2
        <5>3. CASE i = Len(t) /\ j \in 1..Len(s)
          BY <3>3, <4>2, <4>5, <5>3
        <5> QED BY <4>4, <5>1, <5>2, <5>3
      <4> QED BY <4>5
    <3>10. \A h \in Hosts : \A i \in 1..Len(idle[h]) : idle[h][i] \in Conns
      BY DEF TypeOK
    <3> HIDE DEF t, s
    <3>11. \A h \in Hosts : \A i \in 1..Len(idle'[h]) :
             /\ home'[idle'[h][i]] = h
             /\ \A v \in Workers : hold'[v] # idle'[h][i]
             /\ \A j \in 1..Len(idle'[h]) : idle'[h][i] = idle'[h][j] => i = j
      BY <3>1, <3>4, <3>5, <3>7, <3>8, <3>9, <3>10 DEF SessionsExclusive
    <3>12. \A v \in Workers : pc'[v] \in SessionPoints <=> hold'[v] # NoConn
      BY <3>5 DEF SessionsExclusive
    <3>13. \A v \in Workers : hold'[v] # NoConn => home'[hold'[v]] = host'[v]
      BY <3>1, <3>5 DEF SessionsExclusive
    <3>14. \A u, v \in Workers : hold'[u] = hold'[v] /\ hold'[u] # NoConn => u = v
      BY <3>5 DEF SessionsExclusive
    <3> QED BY <3>11, <3>12, <3>13, <3>14 DEF SessionsExclusive
  <2> QED BY <2>2, <2>3
<1>11. ASSUME NEW w \in Workers, Discard(w) PROVE SessionsExclusive'
  BY <1>11 DEF Discard, TypeOK, SessionsExclusive
<1>12. ASSUME NEW w \in Workers, Release(w) PROVE SessionsExclusive'
  BY <1>12, NoSessionMove DEF Release, TypeOK
<1>13. ASSUME NEW w \in Workers, Exit(w) PROVE SessionsExclusive'
  BY <1>13, NoSessionMove DEF Exit, TypeOK
<1>14. ASSUME NEW h \in Hosts, Age(h) PROVE SessionsExclusive'
  BY <1>14 DEF Age, SessionsExclusive
<1>15. CASE Cancel
  BY <1>15 DEF Cancel, SessionsExclusive
<1>16. CASE CloseBegin
  BY <1>16 DEF CloseBegin, SessionsExclusive
<1>17. CASE CloseLock
  BY <1>17 DEF CloseLock, SessionsExclusive
<1>18. ASSUME NEW h \in Hosts, Drain(h) PROVE SessionsExclusive'
  BY <1>18 DEF Drain, TypeOK, SessionsExclusive
<1>19. CASE CloseEnd
  BY <1>19 DEF CloseEnd, SessionsExclusive
<1>20. CASE UNCHANGED vars
  BY <1>20 DEF vars, SessionsExclusive
<1> QED
  BY <1>1, <1>2, <1>3, <1>4, <1>5, <1>6, <1>7, <1>8, <1>9, <1>10, <1>11, <1>12,
     <1>13, <1>14, <1>15, <1>16, <1>17, <1>18, <1>19, <1>20
     DEF Next, Call, Closing, Terminated

-----------------------------------------------------------------------------
Using(h) == {w \in Workers : pc[w] \in SessionPoints /\ host[w] = h}

\* The sets the counts range over are finite.
LEMMA CountsFinite ==
    ASSUME NEW h \in Hosts
    PROVE  /\ IsFiniteSet(Sockets(h)) /\ Cardinality(Sockets(h)) \in Nat
           /\ IsFiniteSet(Dialling(h)) /\ Cardinality(Dialling(h)) \in Nat
           /\ IsFiniteSet(Holders(h)) /\ Cardinality(Holders(h)) \in Nat
           /\ IsFiniteSet(Using(h)) /\ Cardinality(Using(h)) \in Nat
<1>1. Sockets(h) \in SUBSET Conns
  BY DEF Sockets
<1>2. /\ Dialling(h) \in SUBSET Workers /\ Holders(h) \in SUBSET Workers
      /\ Using(h) \in SUBSET Workers
  BY DEF Dialling, Holders, Using
<1>3. /\ IsFiniteSet(Sockets(h)) /\ IsFiniteSet(Dialling(h))
      /\ IsFiniteSet(Holders(h)) /\ IsFiniteSet(Using(h))
  BY <1>1, <1>2, FS_Subset
<1> QED BY <1>3, FS_CardinalityType

\* A device without a devicePool has no session open and no call that dials.
LEMMA NoPoolNoSocket ==
    ASSUME TypeOK, SocketBound, NEW h \in Hosts, ~Created(h)
    PROVE  cap[h] = 0 /\ Sockets(h) = {}
<1>1. cap[h] = 0
  BY DEF TypeOK, Created
<1>2. Cardinality(Sockets(h)) = 0
  BY <1>1, CountsFinite DEF SocketBound
<1> QED BY <1>1, <1>2, CountsFinite, FS_EmptySet

-----------------------------------------------------------------------------
\* A step that closes every session it drops loses none.
LEMMA KeptOrClosed ==
    ASSUME NoSessionLost,
           \A c \in Conns : home'[c] # NoHost =>
               /\ home'[c] = home[c]
               /\ idle'[home[c]] = idle[home[c]]
               /\ \A v \in Workers : hold[v] = c => hold'[v] = c
    PROVE  NoSessionLost'
BY DEF NoSessionLost

\* Closing all sessions of one stack and emptying it (popIdle on expired
\* entries, Close) loses none.
LEMMA ClosedStack ==
    ASSUME TypeOK, NoSessionLost, NEW h \in Hosts, UNCHANGED hold,
           home' = [c \in Conns |-> IF \E i \in 1..Len(idle[h]) : idle[h][i] = c
                                    THEN NoHost ELSE home[c]],
           idle' = [idle EXCEPT ![h] = <<>>]
    PROVE  NoSessionLost'
<1>1. \A g \in Hosts : g # h => idle'[g] = idle[g]
  BY DEF TypeOK
<1>2. ASSUME NEW c \in Conns, home'[c] # NoHost
      PROVE  \/ \E v \in Workers : hold'[v] = c
             \/ \E i \in 1..Len(idle'[home'[c]]) : idle'[home'[c]][i] = c
  <2>1. home'[c] = home[c] /\ home[c] \in Hosts /\ ~\E i \in 1..Len(idle[h]) : idle[h][i] = c
    BY <1>2 DEF TypeOK
  <2>2. CASE home[c] = h
    BY <1>2, <2>1, <2>2 DEF NoSessionLost
  <2>3. CASE home[c] # h
    BY <1>1, <1>2, <2>1, <2>3 DEF NoSessionLost
  <2> QED BY <2>2, <2>3
<1> QED BY <1>2 DEF NoSessionLost

\* No step drops the last reference to an open session.
LEMMA SessionsKept ==
    ASSUME TypeOK, SessionsExclusive, NoSessionLost, SocketBound, [Next]_vars
    PROVE  NoSessionLost'
<1> USE DEF callVars, poolVars, ctrlVars, Goto, Fail
<1>1. ASSUME NEW w \in Workers, NEW h \in Hosts, Lookup(w, h)
      PROVE  NoSessionLost'
  BY <1>1 DEF Lookup, NoSessionLost
<1>2. ASSUME NEW w \in Workers, NEW m \in ConfiguredLimits, CreatePool(w, m)
      PROVE  NoSessionLost'
  <2>1. host[w] \in Hosts
    BY <1>2, InCallHost DEF CreatePool
  <2>2. CASE Created(host[w])
    BY <1>2, <2>2 DEF CreatePool, NoSessionLost
  <2>3. CASE ~Created(host[w])
    <3>1. Sockets(host[w]) = {}
      BY <2>1, <2>3, NoPoolNoSocket
    <3>2. idle' = [idle EXCEPT ![host[w]] = <<>>] /\ UNCHANGED <<hold, home>>
      BY <1>2, <2>3 DEF CreatePool
    <3>3. \A c \in Conns : home[c] # host[w]
      BY <3>1 DEF Sockets
    <3>4. \A c \in Conns : home[c] # NoHost => idle'[home[c]] = idle[home[c]]
      BY <3>2, <3>3 DEF TypeOK
    <3> QED BY <3>2, <3>4, KeptOrClosed
  <2> QED BY <2>2, <2>3
<1>3. ASSUME NEW w \in Workers, CheckClosed(w) PROVE NoSessionLost'
  BY <1>3 DEF CheckClosed, NoSessionLost
<1>4. ASSUME NEW w \in Workers, Acquire(w) PROVE NoSessionLost'
  BY <1>4 DEF Acquire, NoSessionLost
<1>5. ASSUME NEW w \in Workers, GiveUp(w) PROVE NoSessionLost'
  BY <1>5 DEF GiveUp, NoSessionLost
<1>6. ASSUME NEW w \in Workers, PopIdle(w) PROVE NoSessionLost'
  <2>1. host[w] \in Hosts
    BY <1>6, InCallHost DEF PopIdle
  <2>2. CASE Len(idle[host[w]]) > stale[host[w]]
    <3> DEFINE s == idle[host[w]]
               t == SubSeq(s, 1, Len(s) - 1)
    <3>1. s \in Seq(Conns) /\ Len(s) > 0 /\ stale[host[w]] \in Nat
      BY <2>1, <2>2 DEF TypeOK
    <3>2. Len(t) = Len(s) - 1 /\ \A i \in 1..Len(t) : t[i] = s[i]
      BY <3>1
    <3>3. /\ idle' = [idle EXCEPT ![host[w]] = t]
          /\ hold' = [hold EXCEPT ![w] = s[Len(s)]]
          /\ pc[w] = "pop" /\ UNCHANGED home
      BY <1>6, <2>2 DEF PopIdle
    <3>4. hold[w] = NoConn
      BY <3>3 DEF SessionsExclusive, SessionPoints
    <3>5. hold'[w] = s[Len(s)] /\ \A v \in Workers : v # w => hold'[v] = hold[v]
      BY <3>3 DEF TypeOK
    <3>6. \A h \in Hosts : idle'[h] = IF h = host[w] THEN t ELSE idle[h]
      BY <3>3 DEF TypeOK
    <3>7. ASSUME NEW c \in Conns, home[c] # NoHost
          PROVE  \/ \E v \in Workers : hold'[v] = c
                 \/ \E i \in 1..Len(idle'[home[c]]) : idle'[home[c]][i] = c
      <4>1. home[c] \in Hosts
        BY <3>7 DEF TypeOK
      <4>2. CASE \E v \in Workers : hold[v] = c
        BY <3>4, <3>5, <4>2
      <4>3. CASE \E i \in 1..Len(idle[home[c]]) : idle[home[c]][i] = c
        <5>1. PICK i \in 1..Len(idle[home[c]]) : idle[home[c]][i] = c
          BY <4>3
        <5>2. CASE home[c] = host[w] /\ i = Len(s)
          BY <3>5, <5>1, <5>2
        <5>3. CASE home[c] = host[w] /\ i # Len(s)
          <6>1. i \in 1..Len(t) /\ t[i] = s[i]
            BY <3>1, <3>2, <5>3
          <6>2. idle'[home[c]] = t
            BY <3>6, <4>1, <5>3
          <6> HIDE DEF t
          <6> QED BY <5>1, <5>3, <6>1, <6>2
        <5>4. CASE home[c] # host[w]
          BY <3>6, <4>1, <5>1, <5>4
        <5> QED BY <5>2, <5>3, <5>4
      <4> QED BY <3>7, <4>2, <4>3 DEF NoSessionLost
    <3> QED BY <3>3, <3>7 DEF NoSessionLost
  <2>3. CASE ~(Len(idle[host[w]]) > stale[host[w]])
    <3>1. /\ home' = [c \in Conns |-> IF \E i \in 1..Len(idle[host[w]]) : idle[host[w]][i] = c
                                      THEN NoHost ELSE home[c]]
          /\ idle' = [idle EXCEPT ![host[w]] = <<>>]
          /\ UNCHANGED hold
      BY <1>6, <2>3 DEF PopIdle
    <3> QED BY <2>1, <3>1, ClosedStack
  <2> QED BY <2>2, <2>3
<1>7. ASSUME NEW w \in Workers, Dial(w) PROVE NoSessionLost'
  <2>1. PICK c \in Fresh : /\ home' = [home EXCEPT ![c] = host[w]]
                           /\ hold' = [hold EXCEPT ![w] = c]
                           /\ pc[w] = "dial" /\ UNCHANGED idle
    BY <1>7 DEF Dial
  <2>2. hold[w] = NoConn
    BY <2>1 DEF SessionsExclusive, SessionPoints
  <2>3. hold'[w] = c /\ \A v \in Workers : v # w => hold'[v] = hold[v]
    BY <2>1 DEF TypeOK
  <2>4. \A d \in Conns : d # c => home'[d] = home[d]
    BY <2>1 DEF TypeOK
  <2> QED BY <2>1, <2>2, <2>3, <2>4 DEF NoSessionLost
<1>8. ASSUME NEW w \in Workers, DialFails(w) PROVE NoSessionLost'
  BY <1>8 DEF DialFails, NoSessionLost
<1>9. ASSUME NEW w \in Workers, PollEnds(w) PROVE NoSessionLost'
  BY <1>9 DEF PollEnds, NoSessionLost
<1>10. ASSUME NEW w \in Workers, Put(w) PROVE NoSessionLost'
  <2>1. host[w] \in Hosts /\ hold[w] \in Conns /\ home[hold[w]] = host[w]
    BY <1>10, HeldSession DEF Put, SessionPoints
  <2>2. \A v \in Workers : v # w => hold'[v] = hold[v]
    BY <1>10 DEF Put, TypeOK
  <2>3. CASE Len(idle[host[w]]) >= MaxIdle
    <3>1. home' = [home EXCEPT ![hold[w]] = NoHost] /\ UNCHANGED idle
      BY <1>10, <2>3 DEF Put
    <3>2. \A c \in Conns : home'[c] = IF c = hold[w] THEN NoHost ELSE home[c]
      BY <3>1 DEF TypeOK
    <3> QED BY <2>2, <3>1, <3>2, KeptOrClosed
  <2>4. CASE ~(Len(idle[host[w]]) >= MaxIdle)
    <3> DEFINE s == idle[host[w]]
               t == Append(s, hold[w])
    <3>1. idle' = [idle EXCEPT ![host[w]] = t] /\ UNCHANGED home
      BY <1>10, <2>4 DEF Put
    <3>2. s \in Seq(Conns)
      BY <2>1 DEF TypeOK
    <3>3. /\ Len(t) = Len(s) + 1 /\ t[Len(t)] = hold[w] /\ Len(t) \in 1..Len(t)
          /\ \A i \in 1..Len(s) : i \in 1..Len(t) /\ t[i] = s[i]
      BY <2>1, <3>2
    <3>4. \A h \in Hosts : idle'[h] = IF h = host[w] THEN t ELSE idle[h]
      BY <3>1 DEF TypeOK
    <3> HIDE DEF t
    <3>5. ASSUME NEW c \in Conns, home[c] # NoHost
          PROVE  \/ \E v \in Workers : hold'[v] = c
                 \/ \E i \in 1..Len(idle'[home[c]]) : idle'[home[c]][i] = c
      <4>1. home[c] \in Hosts
        BY <3>5 DEF TypeOK
      <4>2. CASE hold[w] = c
        BY <2>1, <3>3, <3>4, <4>2
      <4>3. CASE \E v \in Workers : v # w /\ hold[v] = c
        BY <2>2, <4>3
      <4>4. CASE \E i \in 1..Len(idle[home[c]]) : idle[home[c]][i] = c
        BY <3>3, <3>4, <4>1, <4>4
      <4> QED BY <3>5, <4>2, <4>3, <4>4 DEF NoSessionLost
    <3> QED BY <3>1, <3>5 DEF NoSessionLost
  <2> QED BY <2>3, <2>4
<1>11. ASSUME NEW w \in Workers, Discard(w) PROVE NoSessionLost'
  <2>1. host[w] \in Hosts /\ hold[w] \in Conns /\ home[hold[w]] = host[w]
    BY <1>11, HeldSession DEF Discard, SessionPoints
  <2>2. \A v \in Workers : v # w => hold'[v] = hold[v]
    BY <1>11 DEF Discard, TypeOK
  <2>3. home' = [home EXCEPT ![hold[w]] = NoHost] /\ UNCHANGED idle
    BY <1>11 DEF Discard
  <2>4. \A c \in Conns : home'[c] = IF c = hold[w] THEN NoHost ELSE home[c]
    BY <2>3 DEF TypeOK
  <2> QED BY <2>2, <2>3, <2>4, KeptOrClosed
<1>12. ASSUME NEW w \in Workers, Release(w) PROVE NoSessionLost'
  BY <1>12 DEF Release, NoSessionLost
<1>13. ASSUME NEW w \in Workers, Exit(w) PROVE NoSessionLost'
  BY <1>13 DEF Exit, NoSessionLost
<1>14. ASSUME NEW h \in Hosts, Age(h) PROVE NoSessionLost'
  BY <1>14 DEF Age, NoSessionLost
<1>15. CASE Cancel \/ CloseBegin \/ CloseLock \/ CloseEnd
  BY <1>15 DEF Cancel, CloseBegin, CloseLock, CloseEnd, NoSessionLost
<1>16. ASSUME NEW h \in Hosts, Drain(h) PROVE NoSessionLost'
  BY <1>16, ClosedStack DEF Drain
<1>17. CASE UNCHANGED vars
  BY <1>17 DEF vars, NoSessionLost
<1> QED
  BY <1>1, <1>2, <1>3, <1>4, <1>5, <1>6, <1>7, <1>8, <1>9, <1>10, <1>11, <1>12,
     <1>13, <1>14, <1>15, <1>16, <1>17
     DEF Next, Call, Closing, Terminated

-----------------------------------------------------------------------------
\* A step that moves no worker across the acquisition or the release of a token
\* leaves the counts of the semaphores right.
LEMMA TokensUntouched ==
    ASSUME TypeOK, TokensAccounted, UNCHANGED sem,
           \A h \in Hosts : cap'[h] >= cap[h] /\ cap'[h] \in Nat,
           \A v \in Workers : /\ pc'[v] \in TokenPoints <=> pc[v] \in TokenPoints
                              /\ pc[v] \in TokenPoints => host'[v] = host[v]
    PROVE  TokensAccounted'
<1>1. \A h \in Hosts : Holders(h)' = Holders(h)
  BY DEF Holders
<1>2. \A h \in Hosts : sem[h] \in Nat /\ cap[h] \in Nat
  BY DEF TypeOK
<1> QED BY <1>1, <1>2 DEF TokensAccounted

\* No step lets the semaphore and the calls that own a token differ.
LEMMA TokensStep ==
    ASSUME TypeOK, TokensAccounted, [Next]_vars
    PROVE  TokensAccounted'
<1> USE DEF callVars, poolVars, ctrlVars, Goto, Fail, TokenPoints
<1>1. \A h \in Hosts : cap[h] \in Nat /\ sem[h] \in Nat
  BY DEF TypeOK
<1>2. ASSUME NEW w \in Workers, NEW h \in Hosts, Lookup(w, h)
      PROVE  TokensAccounted'
  BY <1>1, <1>2, TokensUntouched DEF Lookup, TypeOK
<1>3. ASSUME NEW w \in Workers, NEW m \in ConfiguredLimits, CreatePool(w, m)
      PROVE  TokensAccounted'
  <2>1. host[w] \in Hosts
    BY <1>3, InCallHost DEF CreatePool
  <2>2. /\ pc' = [pc EXCEPT ![w] = "check"] /\ pc[w] = "create"
        /\ UNCHANGED host
    BY <1>3 DEF CreatePool
  <2>3. \A v \in Workers : pc'[v] \in TokenPoints <=> pc[v] \in TokenPoints
    BY <2>2 DEF TypeOK
  <2>4. CASE Created(host[w])
    BY <1>1, <1>3, <2>2, <2>3, <2>4, TokensUntouched DEF CreatePool
  <2>5. CASE ~Created(host[w])
    <3>1. cap[host[w]] = 0
      BY <1>1, <2>1, <2>5 DEF Created
    <3>2. sem[host[w]] = 0
      BY <1>1, <2>1, <3>1 DEF TokensAccounted
    <3>3. /\ cap' = [cap EXCEPT ![host[w]] = Capacity(m)]
          /\ sem' = [sem EXCEPT ![host[w]] = 0]
      BY <1>3, <2>5 DEF CreatePool
    <3>4. UNCHANGED sem
      BY <3>2, <3>3 DEF TypeOK
    <3>5. Capacity(m) \in Nat
      BY CapacityPositive
    <3>6. \A h \in Hosts : cap'[h] >= cap[h] /\ cap'[h] \in Nat
      BY <1>1, <2>1, <3>1, <3>3, <3>5 DEF TypeOK
    <3> QED BY <2>2, <2>3, <3>4, <3>6, TokensUntouched
  <2> QED BY <2>4, <2>5
<1>4. ASSUME NEW w \in Workers, CheckClosed(w) PROVE TokensAccounted'
  BY <1>1, <1>4, TokensUntouched DEF CheckClosed, TypeOK
<1>5. ASSUME NEW w \in Workers, Acquire(w) PROVE TokensAccounted'
  <2>1. /\ pc[w] = "acquire" /\ pc' = [pc EXCEPT ![w] = "pop"]
        /\ sem' = [sem EXCEPT ![host[w]] = sem[host[w]] + 1]
        /\ sem[host[w]] < cap[host[w]]
        /\ UNCHANGED <<host, cap>>
    BY <1>5 DEF Acquire
  <2>2. host[w] \in Hosts
    BY <2>1, InCallHost
  <2>3. \A v \in Workers : pc'[v] = IF v = w THEN "pop" ELSE pc[v]
    BY <2>1 DEF TypeOK
  <2>4. Holders(host[w])' = Holders(host[w]) \cup {w} /\ w \notin Holders(host[w])
    BY <2>1, <2>3 DEF Holders
  <2>5. \A h \in Hosts : h # host[w] => Holders(h)' = Holders(h)
    BY <2>1, <2>3 DEF Holders
  <2>6. Cardinality(Holders(host[w])') = Cardinality(Holders(host[w])) + 1
    BY <2>2, <2>4, CountsFinite, FS_AddElement
  <2>7. \A h \in Hosts : sem'[h] = IF h = host[w] THEN sem[h] + 1 ELSE sem[h]
    BY <2>1 DEF TypeOK
  <2> QED BY <1>1, <2>1, <2>2, <2>5, <2>6, <2>7 DEF TokensAccounted
<1>6. ASSUME NEW w \in Workers, GiveUp(w) PROVE TokensAccounted'
  BY <1>1, <1>6, TokensUntouched DEF GiveUp, TypeOK
<1>7. ASSUME NEW w \in Workers, PopIdle(w) PROVE TokensAccounted'
  <2>1. /\ pc[w] = "pop" /\ UNCHANGED <<host, cap, sem>>
        /\ pc' = [pc EXCEPT ![w] = "poll"] \/ pc' = [pc EXCEPT ![w] = "dial"]
    BY <1>7 DEF PopIdle
  <2> QED BY <1>1, <2>1, TokensUntouched DEF TypeOK
<1>8. ASSUME NEW w \in Workers, Dial(w) PROVE TokensAccounted'
  BY <1>1, <1>8, TokensUntouched DEF Dial, TypeOK
<1>9. ASSUME NEW w \in Workers, DialFails(w) PROVE TokensAccounted'
  BY <1>1, <1>9, TokensUntouched DEF DialFails, TypeOK
<1>10. ASSUME NEW w \in Workers, PollEnds(w) PROVE TokensAccounted'
  BY <1>1, <1>10, TokensUntouched DEF PollEnds, TypeOK
<1>11. ASSUME NEW w \in Workers, Put(w) PROVE TokensAccounted'
  BY <1>1, <1>11, TokensUntouched DEF Put, TypeOK
<1>12. ASSUME NEW w \in Workers, Discard(w) PROVE TokensAccounted'
  BY <1>1, <1>12, TokensUntouched DEF Discard, TypeOK
<1>13. ASSUME NEW w \in Workers, Release(w) PROVE TokensAccounted'
  <2>1. /\ pc[w] = "release" /\ pc' = [pc EXCEPT ![w] = "ready"]
        /\ host' = [host EXCEPT ![w] = NoHost]
        /\ sem' = [sem EXCEPT ![host[w]] = sem[host[w]] - 1]
        /\ sem[host[w]] > 0
        /\ UNCHANGED cap
    BY <1>13 DEF Release
  <2>2. PICK g \in Hosts : host[w] = g
    BY <2>1, InCallHost
  <2>3. \A v \in Workers : pc'[v] = IF v = w THEN "ready" ELSE pc[v]
    BY <2>1 DEF TypeOK
  <2>4. \A v \in Workers : v # w => host'[v] = host[v]
    BY <2>1 DEF TypeOK
  <2>5. Holders(g)' = Holders(g) \ {w} /\ w \in Holders(g)
    BY <2>1, <2>2, <2>3, <2>4 DEF Holders
  <2>6. \A h \in Hosts : h # g => Holders(h)' = Holders(h)
    BY <2>1, <2>2, <2>3, <2>4 DEF Holders
  <2>7. Cardinality(Holders(g)') = Cardinality(Holders(g)) - 1
    <3>1. IsFiniteSet(Holders(g))
      BY CountsFinite
    <3>2. Cardinality(Holders(g) \ {w}) = Cardinality(Holders(g)) - 1
      BY <2>5, <3>1, FS_RemoveElement
    <3> QED BY <2>5, <3>2
  <2>8. \A h \in Hosts : sem'[h] = IF h = g THEN sem[h] - 1 ELSE sem[h]
    BY <2>1, <2>2 DEF TypeOK
  <2>9. \A h \in Hosts : sem'[h] = Cardinality(Holders(h)')
    BY <2>6, <2>7, <2>8 DEF TokensAccounted
  <2>10. \A h \in Hosts : sem'[h] <= cap'[h]
    BY <1>1, <2>1, <2>8 DEF TokensAccounted
  <2> QED BY <2>9, <2>10 DEF TokensAccounted
<1>14. ASSUME NEW w \in Workers, Exit(w) PROVE TokensAccounted'
  BY <1>1, <1>14, TokensUntouched DEF Exit, TypeOK
<1>15. CASE Cancel \/ CloseBegin \/ CloseLock \/ CloseEnd
  <2>1. UNCHANGED <<pc, host, sem, cap>>
    BY <1>15 DEF Cancel, CloseBegin, CloseLock, CloseEnd
  <2> QED BY <1>1, <2>1, TokensUntouched
<1>16. ASSUME NEW h \in Hosts, Drain(h) \/ Age(h) PROVE TokensAccounted'
  BY <1>1, <1>16, TokensUntouched DEF Drain, Age
<1>17. CASE UNCHANGED vars
  BY <1>1, <1>17, TokensUntouched DEF vars
<1> QED
  BY <1>2, <1>3, <1>4, <1>5, <1>6, <1>7, <1>8, <1>9, <1>10, <1>11, <1>12,
     <1>13, <1>14, <1>15, <1>16, <1>17
     DEF Next, Call, Closing, Terminated

-----------------------------------------------------------------------------
\* A device whose sockets and dials a step does not add to keeps its bound.
LEMMA BoundShrinks ==
    ASSUME TypeOK, SocketBound, NEW h \in Hosts,
           Sockets(h)' \subseteq Sockets(h), Dialling(h)' \subseteq Dialling(h),
           cap'[h] \in Nat, cap'[h] >= cap[h]
    PROVE  Cardinality(Sockets(h)') + Cardinality(Dialling(h)') <= cap'[h]
<1>1. /\ IsFiniteSet(Sockets(h)') /\ Cardinality(Sockets(h)') <= Cardinality(Sockets(h))
      /\ IsFiniteSet(Dialling(h)') /\ Cardinality(Dialling(h)') <= Cardinality(Dialling(h))
  BY CountsFinite, FS_Subset
<1>2. Cardinality(Sockets(h)') \in Nat /\ Cardinality(Dialling(h)') \in Nat
  BY <1>1, FS_CardinalityType
<1> QED BY <1>1, <1>2, CountsFinite DEF SocketBound, TypeOK

\* When no session of a device is idle, each open one and each dial belongs to
\* a call that owns a token, so there are no more of them than places.
LEMMA EmptyStackBound ==
    TypeOK /\ SessionsExclusive /\ NoSessionLost /\ TokensAccounted =>
        \A h \in Hosts : idle[h] = <<>> =>
            Cardinality(Sockets(h)) + Cardinality(Dialling(h)) <= cap[h]
<1> SUFFICES ASSUME TypeOK, SessionsExclusive, NoSessionLost, TokensAccounted,
                    NEW h \in Hosts, idle[h] = <<>>
             PROVE  Cardinality(Sockets(h)) + Cardinality(Dialling(h)) <= cap[h]
  OBVIOUS
<1> DEFINE user == [c \in Sockets(h) |-> CHOOSE v \in Workers : hold[v] = c]
<1>1. ASSUME NEW c \in Sockets(h)
      PROVE  user[c] \in Using(h) /\ hold[user[c]] = c
  <2>1. c \in Conns /\ home[c] = h /\ home[c] # NoHost
    BY DEF Sockets
  <2>2. \E v \in Workers : hold[v] = c
    BY <2>1 DEF NoSessionLost
  <2>3. user[c] \in Workers /\ hold[user[c]] = c
    BY <2>2
  <2>4. pc[user[c]] \in SessionPoints /\ host[user[c]] = h
    BY <2>1, <2>3 DEF SessionsExclusive
  <2> QED BY <2>3, <2>4 DEF Using
<1>2. user \in Injection(Sockets(h), Using(h))
  <2>1. user \in [Sockets(h) -> Using(h)]
    BY <1>1
  <2>2. \A c, d \in Sockets(h) : user[c] = user[d] => c = d
    BY <1>1
  <2> HIDE DEF user
  <2> QED BY <2>1, <2>2 DEF Injection, IsInjective
<1> HIDE DEF user
<1>3. Cardinality(Sockets(h)) <= Cardinality(Using(h))
  BY <1>2, CountsFinite, FS_Injection
<1>4. Using(h) \cap Dialling(h) = {}
  BY DEF Using, Dialling, SessionPoints
<1>5. Cardinality(Using(h) \cap Dialling(h)) = 0
  BY <1>4, FS_EmptySet
<1>6. Using(h) \cup Dialling(h) \in SUBSET Holders(h)
  BY DEF Using, Dialling, Holders, SessionPoints, TokenPoints
<1>7. Cardinality(Using(h) \cup Dialling(h)) = Cardinality(Using(h)) + Cardinality(Dialling(h))
  <2>1. IsFiniteSet(Using(h)) /\ IsFiniteSet(Dialling(h))
    BY CountsFinite
  <2>2. Cardinality(Using(h) \cup Dialling(h)) =
            Cardinality(Using(h)) + Cardinality(Dialling(h)) - Cardinality(Using(h) \cap Dialling(h))
    BY <2>1, FS_Union
  <2> QED BY <1>5, <2>2, CountsFinite
<1>8. Cardinality(Using(h) \cup Dialling(h)) <= Cardinality(Holders(h))
  BY <1>6, CountsFinite, FS_Subset
<1>9. Cardinality(Holders(h)) <= cap[h] /\ cap[h] \in Nat
  BY DEF TokensAccounted, TypeOK
<1> QED BY <1>3, <1>7, <1>8, <1>9, CountsFinite

\* No step opens one socket more than a device has places.
LEMMA BoundStep ==
    ASSUME IInv, [Next]_vars, TypeOK', SessionsExclusive', NoSessionLost',
           TokensAccounted'
    PROVE  SocketBound'
<1> USE DEF callVars, poolVars, ctrlVars, Goto, Fail
<1>1. TypeOK /\ SocketBound /\ SessionsExclusive
  BY DEF IInv
<1>2. \A h \in Hosts : cap[h] \in Nat /\ cap'[h] \in Nat
  BY <1>1 DEF TypeOK
<1>3. ASSUME UNCHANGED cap,
             \A h \in Hosts : /\ Sockets(h)' \subseteq Sockets(h)
                              /\ Dialling(h)' \subseteq Dialling(h)
      PROVE  SocketBound'
  BY <1>1, <1>2, <1>3, BoundShrinks DEF SocketBound
<1>4. ASSUME UNCHANGED <<cap, home>>,
             \A v \in Workers : pc'[v] = "dial" => pc[v] = "dial" /\ host'[v] = host[v]
      PROVE  SocketBound'
  BY <1>3, <1>4 DEF Sockets, Dialling
<1>5. ASSUME UNCHANGED <<cap, pc, host>>,
             \A c \in Conns : home'[c] = home[c] \/ home'[c] = NoHost
      PROVE  SocketBound'
  BY <1>3, <1>5 DEF Sockets, Dialling
<1>6. ASSUME NEW w \in Workers, NEW h \in Hosts, Lookup(w, h) PROVE SocketBound'
  BY <1>1, <1>4, <1>6 DEF Lookup, TypeOK
<1>7. ASSUME NEW w \in Workers, NEW m \in ConfiguredLimits, CreatePool(w, m)
      PROVE  SocketBound'
  <2>1. host[w] \in Hosts
    BY <1>1, <1>7, InCallHost DEF CreatePool
  <2>2. pc' = [pc EXCEPT ![w] = "check"] /\ UNCHANGED <<host, home>>
    BY <1>7 DEF CreatePool
  <2>3. CASE Created(host[w])
    BY <1>1, <1>4, <1>7, <2>2, <2>3 DEF CreatePool, TypeOK
  <2>4. CASE ~Created(host[w])
    <3>1. cap[host[w]] = 0
      BY <1>1, <2>1, <2>4, NoPoolNoSocket
    <3>2. cap' = [cap EXCEPT ![host[w]] = Capacity(m)]
      BY <1>7, <2>4 DEF CreatePool
    <3>3. \A h \in Hosts : cap'[h] >= cap[h]
      BY <1>1, <1>2, <2>1, <3>1, <3>2 DEF TypeOK
    <3>4. \A h \in Hosts : Sockets(h)' = Sockets(h)
      BY <2>2 DEF Sockets
    <3>5. \A h \in Hosts : Dialling(h)' \subseteq Dialling(h)
      BY <1>1, <2>2 DEF Dialling, TypeOK
    <3> QED BY <1>1, <1>2, <3>3, <3>4, <3>5, BoundShrinks DEF SocketBound
  <2> QED BY <2>3, <2>4
<1>8. ASSUME NEW w \in Workers, CheckClosed(w) PROVE SocketBound'
  BY <1>1, <1>4, <1>8 DEF CheckClosed, TypeOK
<1>9. ASSUME NEW w \in Workers, Acquire(w) PROVE SocketBound'
  BY <1>1, <1>4, <1>9 DEF Acquire, TypeOK
<1>10. ASSUME NEW w \in Workers, GiveUp(w) PROVE SocketBound'
  BY <1>1, <1>4, <1>10 DEF GiveUp, TypeOK
<1>11. ASSUME NEW w \in Workers, PopIdle(w) PROVE SocketBound'
  <2>1. PICK g \in Hosts : host[w] = g
    BY <1>1, <1>11, InCallHost DEF PopIdle
  <2>2. CASE Len(idle[g]) > stale[g]
    <3>1. pc' = [pc EXCEPT ![w] = "poll"] /\ UNCHANGED <<host, home, cap>>
      BY <1>11, <2>1, <2>2 DEF PopIdle
    <3> QED BY <1>1, <1>4, <3>1 DEF TypeOK
  <2>3. CASE ~(Len(idle[g]) > stale[g])
    <3>1. /\ home' = [c \in Conns |-> IF \E i \in 1..Len(idle[g]) : idle[g][i] = c
                                      THEN NoHost ELSE home[c]]
          /\ idle' = [idle EXCEPT ![g] = <<>>]
          /\ pc' = [pc EXCEPT ![w] = "dial"]
          /\ UNCHANGED <<host, cap>>
      BY <1>11, <2>1, <2>3 DEF PopIdle
    <3>2. idle'[g] = <<>>
      BY <1>1, <3>1 DEF TypeOK
    <3>3. Cardinality(Sockets(g)') + Cardinality(Dialling(g)') <= cap'[g]
      <4>1. (TypeOK /\ SessionsExclusive /\ NoSessionLost /\ TokensAccounted =>
               \A h \in Hosts : idle[h] = <<>> =>
                   Cardinality(Sockets(h)) + Cardinality(Dialling(h)) <= cap[h])'
        BY EmptyStackBound, PTL
      <4> QED BY <3>2, <4>1
    <3>4. ASSUME NEW h \in Hosts, h # g
          PROVE  Cardinality(Sockets(h)') + Cardinality(Dialling(h)') <= cap'[h]
      <4>1. Sockets(h)' \subseteq Sockets(h)
        BY <3>1 DEF Sockets
      <4>2. Dialling(h)' \subseteq Dialling(h)
        BY <1>1, <2>1, <3>1, <3>4 DEF Dialling, TypeOK
      <4> QED BY <1>1, <1>2, <3>1, <4>1, <4>2, BoundShrinks
    <3> QED BY <3>3, <3>4 DEF SocketBound
  <2> QED BY <2>2, <2>3
<1>12. ASSUME NEW w \in Workers, Dial(w) PROVE SocketBound'
  <2>1. PICK g \in Hosts : host[w] = g
    BY <1>1, <1>12, InCallHost DEF Dial
  <2>2. PICK c \in Fresh : /\ home' = [home EXCEPT ![c] = g]
                           /\ pc' = [pc EXCEPT ![w] = "poll"] /\ pc[w] = "dial"
                           /\ UNCHANGED <<host, cap>>
    BY <1>12, <2>1 DEF Dial
  <2>3. c \in Conns /\ home[c] = NoHost
    BY DEF Fresh
  <2>4. Sockets(g)' = Sockets(g) \cup {c} /\ c \notin Sockets(g)
    BY <1>1, <2>2, <2>3 DEF Sockets, TypeOK
  <2>5. Dialling(g)' = Dialling(g) \ {w} /\ w \in Dialling(g)
    BY <1>1, <2>1, <2>2 DEF Dialling, TypeOK
  <2>6. /\ Cardinality(Sockets(g)') = Cardinality(Sockets(g)) + 1
        /\ Cardinality(Dialling(g)') = Cardinality(Dialling(g)) - 1
    <3>1. IsFiniteSet(Sockets(g)) /\ IsFiniteSet(Dialling(g))
      BY CountsFinite
    <3>2. Cardinality(Sockets(g) \cup {c}) = Cardinality(Sockets(g)) + 1
      BY <2>4, <3>1, FS_AddElement
    <3>3. Cardinality(Dialling(g) \ {w}) = Cardinality(Dialling(g)) - 1
      BY <2>5, <3>1, FS_RemoveElement
    <3> QED BY <2>4, <2>5, <3>2, <3>3
  <2>7. Cardinality(Sockets(g)') + Cardinality(Dialling(g)') <= cap'[g]
    BY <1>1, <1>2, <2>2, <2>6, CountsFinite DEF SocketBound
  <2>8. ASSUME NEW h \in Hosts, h # g
        PROVE  Cardinality(Sockets(h)') + Cardinality(Dialling(h)') <= cap'[h]
    <3>1. Sockets(h)' \subseteq Sockets(h)
      BY <1>1, <2>2, <2>3, <2>8 DEF Sockets, TypeOK
    <3>2. Dialling(h)' \subseteq Dialling(h)
      BY <1>1, <2>2 DEF Dialling, TypeOK
    <3> QED BY <1>1, <1>2, <2>2, <3>1, <3>2, BoundShrinks
  <2> QED BY <2>7, <2>8 DEF SocketBound
<1>13. ASSUME NEW w \in Workers, DialFails(w) PROVE SocketBound'
  BY <1>1, <1>4, <1>13 DEF DialFails, TypeOK
<1>14. ASSUME NEW w \in Workers, PollEnds(w) PROVE SocketBound'
  BY <1>1, <1>4, <1>14 DEF PollEnds, TypeOK
<1>15. ASSUME NEW w \in Workers, Put(w) \/ Discard(w) PROVE SocketBound'
  <2>1. /\ pc' = [pc EXCEPT ![w] = "release"] /\ UNCHANGED <<host, cap>>
        /\ \/ home' = [home EXCEPT ![hold[w]] = NoHost]
           \/ UNCHANGED home
    BY <1>15 DEF Put, Discard
  <2>2. \A c \in Conns : home'[c] = home[c] \/ home'[c] = NoHost
    BY <1>1, <2>1 DEF TypeOK
  <2>3. \A h \in Hosts : Sockets(h)' \subseteq Sockets(h)
    BY <2>2 DEF Sockets
  <2>4. \A h \in Hosts : Dialling(h)' \subseteq Dialling(h)
    BY <1>1, <2>1 DEF Dialling, TypeOK
  <2> QED BY <1>3, <2>1, <2>3, <2>4
<1>16. ASSUME NEW w \in Workers, Release(w) PROVE SocketBound'
  BY <1>1, <1>4, <1>16 DEF Release, TypeOK
<1>17. ASSUME NEW w \in Workers, Exit(w) PROVE SocketBound'
  BY <1>1, <1>4, <1>17 DEF Exit, TypeOK
<1>18. CASE Cancel \/ CloseBegin \/ CloseLock \/ CloseEnd
  BY <1>4, <1>18 DEF Cancel, CloseBegin, CloseLock, CloseEnd
<1>19. ASSUME NEW h \in Hosts, Drain(h) \/ Age(h) PROVE SocketBound'
  BY <1>5, <1>19 DEF Drain, Age
<1>20. CASE UNCHANGED vars
  BY <1>4, <1>20 DEF vars
<1> QED
  BY <1>6, <1>7, <1>8, <1>9, <1>10, <1>11, <1>12, <1>13, <1>14, <1>15, <1>16,
     <1>17, <1>18, <1>19, <1>20
     DEF Next, Call, Closing, Terminated

-----------------------------------------------------------------------------
\* Nothing is open and no token is taken when the pool is made.
LEMMA InitInv == Init => IInv
<1> SUFFICES ASSUME Init PROVE IInv
  OBVIOUS
<1>1. TypeOK
  <2>1. idle \in [Hosts -> Seq(Conns)] /\ \A h \in Hosts : idle[h] = <<>>
    BY DEF Init
  <2>2. \A h \in Hosts : Len(idle[h]) <= MaxIdle /\ stale[h] <= Len(idle[h])
    BY DEF Init
  <2>3. /\ pc \in [Workers -> Points] /\ host \in [Workers -> Hosts \cup {NoHost}]
        /\ \A w \in Workers : host[w] = NoHost <=> pc[w] \in {"ready", "exited"}
    BY DEF Init, Points
  <2> QED BY <2>1, <2>2, <2>3 DEF Init, TypeOK
<1>2. SessionsExclusive /\ NoSessionLost
  BY DEF Init, SessionsExclusive, SessionPoints, NoSessionLost
<1>3. \A h \in Hosts : Holders(h) = {} /\ Sockets(h) = {} /\ Dialling(h) = {}
  BY DEF Init, Holders, TokenPoints, Sockets, Dialling
<1>4. TokensAccounted /\ SocketBound
  <2>1. Cardinality({}) = 0
    BY FS_EmptySet
  <2>2. \A h \in Hosts : sem[h] = 0 /\ cap[h] = 0
    BY DEF Init
  <2>3. TokensAccounted
    BY <1>3, <2>1, <2>2 DEF TokensAccounted
  <2>4. SocketBound
    BY <1>3, <2>1, <2>2 DEF SocketBound
  <2> QED BY <2>3, <2>4
<1> QED BY <1>1, <1>2, <1>4 DEF IInv

\* The inductive invariant holds for ever, whatever calls, failures, expiries
\* and Close interleave.
THEOREM Invariance == Spec => []IInv
<1>1. IInv /\ [Next]_vars => IInv'
  <2> SUFFICES ASSUME IInv, [Next]_vars PROVE IInv'
    OBVIOUS
  <2>1. TypeOK /\ SessionsExclusive /\ NoSessionLost /\ TokensAccounted /\ SocketBound
    BY DEF IInv
  <2>2. TypeOK' /\ SessionsExclusive' /\ NoSessionLost' /\ TokensAccounted'
    BY <2>1, TypeStep, SessionsStep, SessionsKept, TokensStep
  <2>3. SocketBound'
    BY <2>2, BoundStep
  <2> QED BY <2>2, <2>3 DEF IInv
<1> QED BY <1>1, InitInv, PTL DEF Spec

\* Type correctness of every reachable state.
THEOREM Typing == Spec => []TypeOK
<1>1. IInv => TypeOK
  BY DEF IInv
<1> QED BY <1>1, Invariance, PTL

\* The tokens in dp.sem are always exactly those of the calls in progress
\* (Get, Put and Discard, pool.go:95-165), so none is lost or returned twice.
THEOREM TokensAlwaysAccounted == Spec => []TokensAccounted
<1>1. IInv => TokensAccounted
  BY DEF IInv
<1> QED BY <1>1, Invariance, PTL

\* No session is ever shared by two calls, or at once idle and in use.
THEOREM SessionsAlwaysExclusive == Spec => []SessionsExclusive
<1>1. IInv => SessionsExclusive
  BY DEF IInv
<1> QED BY <1>1, Invariance, PTL

\* Every open session can always be reached from a call or an idle stack.
THEOREM NoSessionEverLost == Spec => []NoSessionLost
<1>1. IInv => NoSessionLost
  BY DEF IInv
<1> QED BY <1>1, Invariance, PTL

\* A device never has more sockets open, dials included, than MaxConcurrentPolls.
THEOREM SocketsAlwaysBounded == Spec => []SocketBound
<1>1. IInv => SocketBound
  BY DEF IInv
<1> QED BY <1>1, Invariance, PTL

-----------------------------------------------------------------------------
\* A session is taken from a stack only by popIdle, from above its stale part.
LEMMA StaleStep ==
    ASSUME IInv, [Next]_vars, NEW v \in Workers, NEW g \in Hosts, NEW i \in 1..stale[g]
    PROVE  hold'[v] # idle[g][i]
<1> USE DEF callVars, poolVars, ctrlVars, Goto, Fail
<1>1. TypeOK /\ SessionsExclusive
  BY DEF IInv
<1>2. /\ idle[g] \in Seq(Conns) /\ Len(idle[g]) \in Nat /\ stale[g] \in Nat
      /\ i \in 1..Len(idle[g]) /\ idle[g][i] \in Conns
  BY <1>1 DEF TypeOK
<1>3. hold[v] # idle[g][i] /\ home[idle[g][i]] = g /\ NoConn # idle[g][i]
  BY <1>1, <1>2 DEF SessionsExclusive
<1>4. ASSUME hold'[v] = hold[v] \/ hold'[v] = NoConn
      PROVE  hold'[v] # idle[g][i]
  BY <1>3, <1>4
<1>5. ASSUME NEW w \in Workers, PopIdle(w) PROVE hold'[v] # idle[g][i]
  <2>1. host[w] \in Hosts
    BY <1>1, <1>5, InCallHost DEF PopIdle
  <2>2. CASE v = w /\ Len(idle[host[w]]) > stale[host[w]]
    <3>1. hold'[v] = idle[host[w]][Len(idle[host[w]])]
      BY <1>1, <1>5, <2>2 DEF PopIdle, TypeOK
    <3>2. /\ Len(idle[host[w]]) \in 1..Len(idle[host[w]])
          /\ stale[host[w]] \in Nat /\ Len(idle[host[w]]) \in Nat
      BY <1>1, <2>1, <2>2 DEF TypeOK
    <3>3. CASE host[w] = g
      <4>1. i # Len(idle[g])
        BY <1>2, <2>2, <3>3
      <4> QED BY <1>1, <1>2, <3>1, <3>2, <3>3, <4>1 DEF SessionsExclusive
    <3>4. CASE host[w] # g
      <4>1. home[idle[host[w]][Len(idle[host[w]])]] = host[w]
        BY <1>1, <2>1, <3>2 DEF SessionsExclusive
      <4> QED BY <1>3, <3>1, <3>4, <4>1
    <3> QED BY <3>3, <3>4
  <2>3. CASE ~(v = w /\ Len(idle[host[w]]) > stale[host[w]])
    BY <1>1, <1>4, <1>5, <2>3 DEF PopIdle, TypeOK
  <2> QED BY <2>2, <2>3
<1>6. ASSUME NEW w \in Workers, Dial(w) PROVE hold'[v] # idle[g][i]
  <2>1. PICK c \in Fresh : hold' = [hold EXCEPT ![w] = c]
    BY <1>6 DEF Dial
  <2>2. home[c] = NoHost
    BY DEF Fresh
  <2>3. c # idle[g][i]
    BY <1>3, <2>2
  <2> QED BY <1>1, <1>3, <2>1, <2>3 DEF TypeOK
<1>7. ASSUME NEW w \in Workers,
             \/ \E m \in ConfiguredLimits : CreatePool(w, m)
             \/ CheckClosed(w) \/ Acquire(w) \/ GiveUp(w) \/ DialFails(w)
             \/ PollEnds(w) \/ Put(w) \/ Discard(w) \/ Release(w) \/ Exit(w)
             \/ \E h \in Hosts : Lookup(w, h)
      PROVE  hold'[v] # idle[g][i]
  <2>1. hold' = hold \/ hold' = [hold EXCEPT ![w] = NoConn]
    BY <1>7 DEF CreatePool, CheckClosed, Acquire, GiveUp, DialFails, PollEnds, Put,
                Discard, Release, Exit, Lookup
  <2> QED BY <1>1, <1>4, <2>1 DEF TypeOK
<1>8. CASE \/ Cancel \/ CloseBegin \/ CloseLock \/ CloseEnd \/ UNCHANGED vars
           \/ \E h \in Hosts : Drain(h) \/ Age(h)
  BY <1>4, <1>8 DEF Cancel, CloseBegin, CloseLock, CloseEnd, Drain, Age, vars
<1> QED
  BY <1>5, <1>6, <1>7, <1>8 DEF Next, Call, Closing, Terminated

\* No call is ever given a session that was idle for longer than IdleTimeout.
THEOREM StaleNeverReused == Spec => NoStaleReuse
<1>1. IInv /\ [Next]_vars =>
        [\A w \in Workers, h \in Hosts : \A i \in 1..stale[h] : hold'[w] # idle[h][i]]_vars
  BY StaleStep
<1> QED BY <1>1, Invariance, PTL DEF Spec, NoStaleReuse

-----------------------------------------------------------------------------
\* What Close meets when App.Stop has waited for the workers: nobody is in a
\* call, and the stacks it has passed stay empty.
DrainedBehind ==
    ~overtaken =>
        /\ closer # "open" => \A w \in Workers : pc[w] = "exited"
        /\ closer \in {"draining", "done"} =>
               \A h \in Hosts \ undrained : Created(h) => idle[h] = <<>>
        /\ closer = "done" => undrained = {}

LEMMA DrainedStep ==
    ASSUME TypeOK, DrainedBehind, [Next]_vars
    PROVE  DrainedBehind'
<1> USE DEF callVars, poolVars, ctrlVars
<1>1. ASSUME NEW w \in Workers, Call(w) \/ Exit(w) \/ \E h \in Hosts : Lookup(w, h)
      PROVE  DrainedBehind'
  <2>1. pc[w] # "exited" /\ UNCHANGED <<closer, overtaken>>
    BY <1>1 DEF Call, Exit, Lookup, CreatePool, CheckClosed, Acquire, GiveUp, PopIdle,
                Dial, DialFails, PollEnds, Put, Discard, Release
  <2> QED BY <2>1 DEF DrainedBehind
<1>2. ASSUME NEW h \in Hosts, Age(h) PROVE DrainedBehind'
  BY <1>2 DEF Age, DrainedBehind, Created
<1>3. CASE CloseBegin
  BY <1>3 DEF CloseBegin, DrainedBehind
<1>4. CASE CloseLock
  BY <1>4 DEF CloseLock, DrainedBehind, Created
<1>5. ASSUME NEW h \in Hosts, Drain(h) PROVE DrainedBehind'
  <2>1. /\ idle' = [idle EXCEPT ![h] = <<>>] /\ undrained' = undrained \ {h}
        /\ h \in undrained /\ UNCHANGED <<pc, cap, closer, overtaken>>
    BY <1>5 DEF Drain
  <2>2. \A g \in Hosts : idle'[g] = IF g = h THEN <<>> ELSE idle[g]
    BY <2>1 DEF TypeOK
  <2> QED BY <2>1, <2>2 DEF DrainedBehind, Created
<1>6. CASE CloseEnd
  BY <1>6 DEF CloseEnd, DrainedBehind, Created
<1>7. CASE Cancel \/ UNCHANGED vars
  BY <1>7 DEF Cancel, vars, DrainedBehind, Created
<1> QED
  BY <1>1, <1>2, <1>3, <1>4, <1>5, <1>6, <1>7 DEF Next, Closing, Terminated

\* After App.Stop's Close no socket is left, for any number of workers, devices
\* and sessions and however the polls ended.
THEOREM CloseLeavesNoSocket == Spec => []ClosedLeavesNoSocket
<1>1. Init => DrainedBehind
  BY DEF Init, DrainedBehind
<1>2. IInv /\ DrainedBehind /\ [Next]_vars => DrainedBehind'
  BY DrainedStep DEF IInv
<1>3. IInv /\ DrainedBehind => ClosedLeavesNoSocket
  <2> SUFFICES ASSUME IInv, DrainedBehind, closer = "done", ~overtaken, NEW h \in Hosts
               PROVE  Sockets(h) = {}
    BY DEF ClosedLeavesNoSocket
  <2>1. TypeOK /\ SocketBound /\ NoSessionLost /\ SessionsExclusive
    BY DEF IInv
  <2>2. CASE ~Created(h)
    BY <2>1, <2>2, NoPoolNoSocket
  <2>3. CASE Created(h)
    <3>1. idle[h] = <<>> /\ \A w \in Workers : hold[w] = NoConn
      BY <2>1, <2>3 DEF DrainedBehind, SessionsExclusive, SessionPoints
    <3>2. \A c \in Conns : home[c] # h
      BY <2>1, <3>1 DEF NoSessionLost
    <3> QED BY <3>2 DEF Sockets
  <2> QED BY <2>2, <2>3
<1> QED BY <1>1, <1>2, <1>3, Invariance, PTL DEF Spec

-----------------------------------------------------------------------------
(* The pool implements SessionLease: a token of dp.sem becomes a place of the  *)
(* device's limit, and what a worker holds its lease.                          *)

Wanted == [v \in Workers |-> Wants(v)]

\* When a worker is the only one to move, at most its own wish changes.
LEMMA WantedMove ==
    ASSUME TypeOK, NEW w \in Workers,
           \A v \in Workers : v # w => pc'[v] = pc[v] /\ host'[v] = host[v]
    PROVE  /\ Wanted' = [Wanted EXCEPT ![w] = Wants(w)']
           /\ Wants(w)' = Wants(w) => Wanted' = Wanted
BY DEF Wanted, Wants

\* The instance counts as this module does.
LEMMA SameCount == \A S : Lease!Cardinality(S) = Cardinality(S)
BY DEF Lease!Cardinality, Cardinality

\* A worker that has its token and no session yet leaves a lease to be granted.
LEMMA PlaceLeft ==
    ASSUME IInv, NEW w \in Workers, pc[w] \in {"pop", "dial"}
    PROVE  Cardinality(Lease!Leased(host[w])) < cap[host[w]]
<1>1. TypeOK /\ SessionsExclusive /\ TokensAccounted
  BY DEF IInv
<1>2. PICK h \in Hosts : host[w] = h
  BY <1>1, InCallHost
<1>3. Lease!Leased(h) \in SUBSET (Holders(h) \ {w})
  <2> SUFFICES ASSUME NEW v \in Workers, hold[v] # NoConn, Wants(v) = h
               PROVE  v \in Holders(h) \ {w}
    BY DEF Lease!Leased
  <2>1. pc[v] \in SessionPoints
    BY <1>1 DEF SessionsExclusive
  <2> QED BY <2>1 DEF Holders, TokenPoints, SessionPoints, Wants
<1>4. w \in Holders(h)
  BY <1>2 DEF Holders, TokenPoints
<1>5. /\ IsFiniteSet(Holders(h) \ {w})
      /\ Cardinality(Holders(h) \ {w}) = Cardinality(Holders(h)) - 1
  BY <1>4, CountsFinite, FS_RemoveElement
<1>6. Cardinality(Lease!Leased(h)) <= Cardinality(Holders(h)) - 1
  BY <1>3, <1>5, FS_Subset
<1>7. IsFiniteSet(Lease!Leased(h)) /\ Cardinality(Lease!Leased(h)) \in Nat
  BY <1>3, <1>5, FS_Subset, FS_CardinalityType
<1>8. Cardinality(Holders(h)) <= cap[h] /\ cap[h] \in Nat
  BY <1>1 DEF TokensAccounted, TypeOK
<1> QED BY <1>2, <1>6, <1>7, <1>8, CountsFinite

\* A session handed to such a worker is granted as SessionLease does.
LEMMA GrantStep ==
    ASSUME IInv, NEW w \in Workers, pc[w] \in {"pop", "dial"}, NEW c \in Conns,
           \A v \in Workers : hold[v] # c,
           hold' = [hold EXCEPT ![w] = c], pc' = [pc EXCEPT ![w] = "poll"],
           UNCHANGED <<host, cap, closer>>
    PROVE  Lease!Grant(w, c)
<1>1. TypeOK /\ SessionsExclusive
  BY DEF IInv
<1>2. hold[w] = NoConn /\ host[w] \in Hosts
  BY <1>1, InCallHost DEF SessionsExclusive, SessionPoints
<1>3. Wants(w) = host[w] /\ Wants(w)' = Wants(w)
  BY <1>1 DEF Wants, SessionPoints, TypeOK
<1>4. Wanted' = Wanted
  BY <1>1, <1>3, WantedMove DEF TypeOK
<1>5. Wanted[w] = host[w]
  BY <1>3 DEF Wanted
<1>6. Cardinality(Lease!Leased(Wanted[w])) < cap[Wanted[w]]
  BY <1>5, PlaceLeft
<1>7. UNCHANGED closed
  BY DEF closed
<1> QED BY <1>2, <1>4, <1>5, <1>6, <1>7, SameCount DEF Lease!Grant, Wanted

\* A call that is refused, or that gives its session up, finishes its lease.
LEMMA FinishStep ==
    ASSUME IInv, NEW w \in Workers, pc[w] \in {"acquire", "dial", "put", "discard"},
           pc' = [pc EXCEPT ![w] = "release"] \/ pc' = [pc EXCEPT ![w] = "ready"],
           \A v \in Workers : v # w => host'[v] = host[v],
           hold' = [hold EXCEPT ![w] = NoConn], UNCHANGED <<cap, closer>>
    PROVE  Lease!Finish(w)
<1>1. TypeOK /\ host[w] \in Hosts
  BY InCallHost DEF IInv
<1>2. Wants(w) = host[w] /\ Wants(w)' = NoHost
  BY <1>1 DEF Wants, SessionPoints, TypeOK
<1>3. Wanted' = [Wanted EXCEPT ![w] = NoHost] /\ Wanted[w] # NoHost
  <2>1. Wanted' = [Wanted EXCEPT ![w] = Wants(w)']
    BY <1>1, WantedMove DEF TypeOK
  <2> QED BY <1>1, <1>2, <2>1 DEF Wanted
<1>4. UNCHANGED closed
  BY DEF closed
<1> QED BY <1>3, <1>4 DEF Lease!Finish, Wanted

\* Every step of the pool is a step of SessionLease or changes nothing it shows.
LEMMA LeaseStep ==
    ASSUME IInv, [Next]_vars
    PROVE  [Lease!Next]_(Lease!leaseVars)
<1> USE DEF callVars, poolVars, ctrlVars, Goto, Fail
<1>1. TypeOK /\ SessionsExclusive /\ SocketBound
  BY DEF IInv
<1>2. ASSUME Wanted' = Wanted, UNCHANGED <<cap, hold, closer>>
      PROVE  UNCHANGED Lease!leaseVars
  BY <1>2 DEF Lease!leaseVars, Wanted, closed
<1>3. ASSUME NEW w \in Workers, NEW h \in Hosts, Lookup(w, h)
      PROVE  UNCHANGED Lease!leaseVars
  <2>1. Wants(w) = NoHost /\ Wants(w)' = NoHost
    BY <1>1, <1>3 DEF Lookup, Wants, SessionPoints, TypeOK
  <2> QED BY <1>1, <1>2, <1>3, <2>1, WantedMove DEF Lookup, TypeOK
<1>4. ASSUME NEW w \in Workers, NEW m \in ConfiguredLimits, CreatePool(w, m)
      PROVE  UNCHANGED Lease!leaseVars \/ \E h \in Hosts : Lease!FixLimit(h)
  <2>1. host[w] \in Hosts
    BY <1>1, <1>4, InCallHost DEF CreatePool
  <2>2. Wanted' = Wanted
    <3>1. Wants(w) = NoHost /\ Wants(w)' = NoHost
      BY <1>1, <1>4 DEF CreatePool, Wants, SessionPoints, TypeOK
    <3> QED BY <1>1, <1>4, <3>1, WantedMove DEF CreatePool, TypeOK
  <2>3. UNCHANGED <<hold, closer>>
    BY <1>4 DEF CreatePool
  <2>4. CASE Created(host[w])
    BY <1>2, <1>4, <2>2, <2>3, <2>4 DEF CreatePool
  <2>5. CASE ~Created(host[w])
    <3>1. cap[host[w]] = 0 /\ cap' = [cap EXCEPT ![host[w]] = Capacity(m)]
      BY <1>1, <1>4, <2>1, <2>5, NoPoolNoSocket DEF CreatePool
    <3>2. Capacity(m) \in Nat /\ Capacity(m) > 0
      BY CapacityPositive
    <3>3. /\ cap' \in [Hosts -> Nat] /\ cap'[host[w]] > 0
          /\ \A g \in Hosts \ {host[w]} : cap'[g] = cap[g]
      BY <1>1, <2>1, <3>1, <3>2 DEF TypeOK
    <3> QED BY <2>1, <2>2, <2>3, <3>1, <3>3 DEF Lease!FixLimit, Wanted, closed
  <2> QED BY <2>4, <2>5
<1>5. ASSUME NEW w \in Workers, CheckClosed(w)
      PROVE  UNCHANGED Lease!leaseVars \/ \E h \in Hosts : Lease!Ask(w, h)
  <2>1. host[w] \in Hosts
    BY <1>1, <1>5, InCallHost DEF CheckClosed
  <2>2. Wanted' = [Wanted EXCEPT ![w] = Wants(w)'] /\ (Wants(w)' = Wants(w) => Wanted' = Wanted)
    BY <1>1, <1>5, WantedMove DEF CheckClosed, TypeOK
  <2>3. Wants(w) = NoHost /\ UNCHANGED <<cap, hold, closer>>
    BY <1>1, <1>5 DEF CheckClosed, Wants, SessionPoints, TypeOK
  <2>4. CASE closed
    <3>1. Wants(w)' = NoHost
      BY <1>1, <1>5, <2>4 DEF CheckClosed, Wants, SessionPoints, TypeOK
    <3> QED BY <1>2, <2>2, <2>3, <3>1
  <2>5. CASE ~closed
    <3>1. Wants(w)' = host[w]
      BY <1>1, <1>5, <2>5 DEF CheckClosed, Wants, SessionPoints, TypeOK
    <3>2. Wanted' = [Wanted EXCEPT ![w] = host[w]] /\ Wanted[w] = NoHost
      BY <2>2, <2>3, <3>1 DEF Wanted
    <3>3. UNCHANGED closed
      BY <2>3 DEF closed
    <3> QED BY <2>1, <2>3, <2>5, <3>2, <3>3 DEF Lease!Ask, Wanted
  <2> QED BY <2>4, <2>5
<1>6. ASSUME NEW w \in Workers, Acquire(w) \/ PollEnds(w) \/ Release(w) \/ Exit(w)
      PROVE  UNCHANGED Lease!leaseVars
  <2>1. Wants(w)' = Wants(w)
    BY <1>1, <1>6 DEF Acquire, PollEnds, Release, Exit, Wants, SessionPoints, TypeOK
  <2> QED BY <1>1, <1>2, <1>6, <2>1, WantedMove DEF Acquire, PollEnds, Release, Exit, TypeOK
<1>7. ASSUME NEW w \in Workers, PopIdle(w)
      PROVE  UNCHANGED Lease!leaseVars \/ \E c \in Conns : Lease!Grant(w, c)
  <2>1. host[w] \in Hosts /\ pc[w] = "pop"
    BY <1>1, <1>7, InCallHost DEF PopIdle
  <2> DEFINE s == idle[host[w]]
  <2>2. CASE Len(s) > stale[host[w]]
    <3>1. s[Len(s)] \in Conns /\ \A v \in Workers : hold[v] # s[Len(s)]
      <4>1. s \in Seq(Conns) /\ Len(s) \in 1..Len(s)
        BY <1>1, <2>1, <2>2 DEF TypeOK
      <4> QED BY <1>1, <2>1, <4>1 DEF SessionsExclusive
    <3>2. /\ hold' = [hold EXCEPT ![w] = s[Len(s)]] /\ pc' = [pc EXCEPT ![w] = "poll"]
          /\ UNCHANGED <<host, cap, closer>>
      BY <1>7, <2>2 DEF PopIdle
    <3> HIDE DEF s
    <3> QED BY <2>1, <3>1, <3>2, GrantStep
  <2>3. CASE ~(Len(s) > stale[host[w]])
    <3>1. pc' = [pc EXCEPT ![w] = "dial"] /\ UNCHANGED <<host, hold, cap, closer>>
      BY <1>7, <2>3 DEF PopIdle
    <3>2. Wants(w)' = Wants(w)
      BY <1>1, <2>1, <3>1 DEF Wants, TypeOK
    <3> QED BY <1>1, <1>2, <3>1, <3>2, WantedMove DEF TypeOK
  <2> QED BY <2>2, <2>3
<1>8. ASSUME NEW w \in Workers, Dial(w) PROVE \E c \in Conns : Lease!Grant(w, c)
  <2>1. PICK c \in Fresh : /\ hold' = [hold EXCEPT ![w] = c] /\ pc[w] = "dial"
                           /\ pc' = [pc EXCEPT ![w] = "poll"]
                           /\ UNCHANGED <<host, cap, closer>>
    BY <1>8 DEF Dial
  <2>2. c \in Conns /\ home[c] = NoHost
    BY DEF Fresh
  <2>3. ASSUME NEW v \in Workers, hold[v] = c PROVE FALSE
    <3>1. pc[v] \in SessionPoints
      BY <1>1, <2>2, <2>3 DEF SessionsExclusive
    <3> QED BY <1>1, <2>2, <2>3, <3>1, HeldSession
  <2> QED BY <2>1, <2>2, <2>3, GrantStep
<1>9. ASSUME NEW w \in Workers, GiveUp(w) \/ DialFails(w) \/ Put(w) \/ Discard(w)
      PROVE  Lease!Finish(w)
  <2>1. CASE GiveUp(w) \/ DialFails(w)
    <3>1. hold[w] = NoConn /\ UNCHANGED hold
      BY <1>1, <2>1 DEF GiveUp, DialFails, SessionsExclusive, SessionPoints
    <3>2. hold' = [hold EXCEPT ![w] = NoConn]
      BY <1>1, <3>1 DEF TypeOK
    <3> QED BY <1>1, <2>1, <3>2, FinishStep DEF GiveUp, DialFails, TypeOK
  <2>2. CASE Put(w) \/ Discard(w)
    BY <2>2, FinishStep DEF Put, Discard
  <2> QED BY <1>9, <2>1, <2>2
<1>10. CASE CloseBegin
  <2>1. ~closed /\ closed'
    BY <1>10 DEF CloseBegin, closed
  <2>2. Wanted' = Wanted /\ UNCHANGED <<cap, hold>>
    BY <1>10 DEF CloseBegin, Wanted, Wants
  <2> QED BY <2>1, <2>2 DEF Lease!Next, Lease!Shut, Wanted
<1>11. CASE \/ Cancel \/ CloseLock \/ CloseEnd \/ UNCHANGED vars
            \/ \E h \in Hosts : Drain(h) \/ Age(h)
  <2>1. UNCHANGED <<pc, host, hold, cap>> /\ UNCHANGED closed
    BY <1>11 DEF Cancel, CloseLock, CloseEnd, Drain, Age, vars, closed
  <2> QED BY <2>1 DEF Lease!leaseVars, Wants
<1> QED
  BY <1>3, <1>4, <1>5, <1>6, <1>7, <1>8, <1>9, <1>10, <1>11
     DEF Next, Call, Closing, Terminated, Lease!Next

\* The pool implements SessionLease: whatever interleaves in Get, Put, Discard and
\* Close, a caller has a session no other has, and a device never more of them
\* than MaxConcurrentPolls.
THEOREM PoolKeepsLease == Spec => LeaseSpec
<1>1. Init => Lease!Init
  BY DEF Init, Lease!Init, Wants, SessionPoints, closed
<1>2. IInv /\ [Next]_vars => [Lease!Next]_(Lease!leaseVars)
  BY LeaseStep
<1> QED BY <1>1, <1>2, Invariance, PTL DEF Spec, LeaseSpec, Lease!Spec
=============================================================================
