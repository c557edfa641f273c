-------------------------- MODULE Pipeline_proofs ---------------------------
(***************************************************************************)
(* Proofs about Pipeline for any number of goroutines and messages and any *)
(* channel capacities: no goroutine ever sends on a closed channel, each   *)
(* message is in one place until it ends up somewhere, and a stop leaves   *)
(* no result behind.                                                       *)
(***************************************************************************)
EXTENDS Pipeline, SequenceTheorems, FiniteSetTheorems, TLAPS

IInv == TypeOK /\ NoSendOnClosed

\* A channel that gets a message has had room for it, so its bound still holds.
LEMMA AppendFits ==
    ASSUME TypeOK, NEW c \in Stages, NEW m \in Msgs, HasRoom(c)
    PROVE  /\ [chan EXCEPT ![c] = Append(@, m)] \in [Stages -> Seq(Msgs)]
           /\ \A d \in Stages :
                Len([chan EXCEPT ![c] = Append(@, m)][d]) <= Capacity[d]
<1>1. /\ chan[c] \in Seq(Msgs)
      /\ Len(chan[c]) \in Nat
      /\ Len(Append(chan[c], m)) = Len(chan[c]) + 1
      /\ Append(chan[c], m) \in Seq(Msgs)
  BY DEF TypeOK
<1>2. Len(chan[c]) + 1 <= Capacity[c]
  BY <1>1, CapacityAssumption DEF HasRoom
<1> QED
  BY <1>1, <1>2 DEF TypeOK

\* Taking a message off a channel leaves a channel.
LEMMA TailFits ==
    ASSUME TypeOK, NEW c \in Stages, chan[c] # <<>>
    PROVE  /\ Head(chan[c]) \in Msgs
           /\ [chan EXCEPT ![c] = Tail(@)] \in [Stages -> Seq(Msgs)]
           /\ \A d \in Stages : Len([chan EXCEPT ![c] = Tail(@)][d]) <= Capacity[d]
<1>1. /\ chan[c] \in Seq(Msgs)
      /\ Capacity[c] \in Nat
      /\ Len(chan[c]) <= Capacity[c]
  BY CapacityAssumption DEF TypeOK
<1>2. /\ Head(chan[c]) \in Msgs
      /\ Tail(chan[c]) \in Seq(Msgs)
      /\ Len(chan[c]) \in Nat
      /\ Len(Tail(chan[c])) = Len(chan[c]) - 1
  BY <1>1
<1>3. Len(Tail(chan[c])) <= Capacity[c]
  BY <1>1, <1>2
<1> QED
  BY <1>2, <1>3 DEF TypeOK

LEMMA TypeStep == ASSUME TypeOK, [Next]_vars PROVE TypeOK'
<1> USE DEF Stages
<1>1. CASE \E m \in Msgs : Submit(m)
  <2> PICK m \in Msgs : Submit(m)
    BY <1>1
  <2>1. CASE HasRoom(1) /\ chan' = [chan EXCEPT ![1] = Append(@, m)]
                        /\ fate' = [fate EXCEPT ![m] = "moving"]
    <3>1. chan' \in [Stages -> Seq(Msgs)] /\ \A d \in Stages : Len(chan'[d]) <= Capacity[d]
      BY <2>1, AppendFits, 1 \in Stages
    <3>2. fate' \in [Msgs -> Fates]
      BY <2>1 DEF TypeOK, Fates
    <3> QED
      BY <3>1, <3>2, <2>1 DEF TypeOK, Submit, transportVars, ctrlVars
  <2>2. CASE UNCHANGED chan /\ fate' = [fate EXCEPT ![m] = "rejected"]
    BY <2>2 DEF TypeOK, Submit, transportVars, ctrlVars, Fates
  <2> QED
    BY <2>1, <2>2 DEF Submit
<1>2. CASE SchedulerExit
  BY <1>2 DEF TypeOK, SchedulerExit, transportVars
<1>3. ASSUME NEW g \in Goroutines, Receive(g) PROVE TypeOK'
  <2>1. In(g) \in Stages
    BY GoroutinesAssumption DEF In
  <2>2. /\ Head(chan[In(g)]) \in Msgs
        /\ chan' \in [Stages -> Seq(Msgs)]
        /\ \A d \in Stages : Len(chan'[d]) <= Capacity[d]
    BY <2>1, <1>3, TailFits DEF Receive
  <2>3. /\ held' \in [Goroutines -> Msgs \cup {Nothing, Gone}]
        /\ fate' \in [Msgs -> Fates]
    BY <2>2, <1>3 DEF TypeOK, Receive, Fates
  <2> QED
    BY <2>2, <2>3, <1>3 DEF TypeOK, Receive, transportVars, ctrlVars
<1>4. ASSUME NEW g \in Goroutines, PollFails(g) PROVE TypeOK'
  BY <1>4 DEF TypeOK, PollFails, Settle, Fates, transportVars, ctrlVars
<1>5. ASSUME NEW g \in Goroutines, Forward(g) PROVE TypeOK'
  <2>1. Out(g) \in Stages
    BY <1>5, GoroutinesAssumption DEF Out, Forward
  <2>2. /\ chan' \in [Stages -> Seq(Msgs)]
        /\ \A d \in Stages : Len(chan'[d]) <= Capacity[d]
    BY <2>1, <1>5, AppendFits DEF Forward
  <2> QED
    BY <2>2, <1>5 DEF TypeOK, Forward, transportVars, ctrlVars
<1>6. ASSUME NEW g \in Goroutines, Return(g) PROVE TypeOK'
  BY <1>6 DEF TypeOK, Return, transportVars, ctrlVars
<1>7. ASSUME NEW g \in Goroutines, PollerQuits(g) PROVE TypeOK'
  BY <1>7 DEF TypeOK, PollerQuits, Fates, transportVars, ctrlVars
<1>8. ASSUME NEW g \in Goroutines, Send(g) PROVE TypeOK'
  BY <1>8, RetryAssumption DEF TypeOK, Send, Settle, Fates, ctrlVars
<1>9. ASSUME NEW g \in Goroutines, SendFails(g) PROVE TypeOK'
  <2>1. failures' \in 0..MaxRetry
    BY <1>9, RetryAssumption DEF TypeOK, SendFails
  <2> QED
    BY <2>1, <1>9 DEF TypeOK, SendFails, Settle, Fates, ctrlVars
<1>10. ASSUME NEW g \in Goroutines, Retry(g) PROVE TypeOK'
  BY <1>10 DEF TypeOK, Retry, ctrlVars
<1>11. ASSUME NEW g \in Goroutines, QuitsRetrying(g) PROVE TypeOK'
  <2>1. failures' \in 0..MaxRetry
    BY <1>11, RetryAssumption DEF QuitsRetrying
  <2> QED
    BY <2>1, <1>11 DEF TypeOK, QuitsRetrying, Fates, ctrlVars
<1>12. ASSUME NEW s \in Stages, CloseOutput(s) PROVE TypeOK'
  BY <1>12 DEF TypeOK, CloseOutput, transportVars, ctrlVars
<1>13. CASE Cancel
  BY <1>13 DEF TypeOK, Cancel, transportVars
<1>14. CASE Stopping
  <2>1. CASE CloseJobs
    BY <2>1 DEF TypeOK, CloseJobs, transportVars
  <2>2. CASE CloseRaw
    BY <2>2 DEF TypeOK, CloseRaw, transportVars
  <2>3. CASE Finish
    BY <2>3 DEF TypeOK, Finish, transportVars
  <2> QED
    BY <1>14, <2>1, <2>2, <2>3 DEF Stopping
<1>15. CASE Stopped \/ UNCHANGED vars
  BY <1>15 DEF TypeOK, Stopped, vars
<1>16. ASSUME NEW g \in Goroutines, Step(g) \/ PollFails(g) PROVE TypeOK'
  BY <1>16, <1>3, <1>4, <1>5, <1>6, <1>7, <1>8, <1>9, <1>10, <1>11 DEF Step
<1> HIDE DEF Stages
<1> QED
  BY <1>1, <1>2, <1>12, <1>13, <1>14, <1>15, <1>16, Zenon DEF Next

\* What a step that closes no channel and revives nobody does to the invariant.
LEMMA NoSendMove ==
    ASSUME NoSendOnClosed, shut' = shut, sched' => sched,
           \A g \in Goroutines : held[g] = Gone => held'[g] = Gone
    PROVE  NoSendOnClosed'
BY DEF NoSendOnClosed, Out

LEMMA NoSendStep == ASSUME IInv, [Next]_vars PROVE NoSendOnClosed'
<1> USE DEF IInv
<1>1. CASE \E m \in Msgs : Submit(m)
  BY <1>1, NoSendMove DEF Submit, ctrlVars
<1>2. CASE SchedulerExit
  BY <1>2, NoSendMove DEF SchedulerExit
<1>3. ASSUME NEW g \in Goroutines, Step(g) \/ PollFails(g) PROVE NoSendOnClosed'
  <2>1. shut' = shut /\ sched' = sched
    BY <1>3 DEF Step, Receive, PollFails, Forward, Return, PollerQuits, Send,
                SendFails, Retry, QuitsRetrying, ctrlVars
  <2>2. /\ \A k \in Goroutines : k # g => held'[k] = held[k]
        /\ held[g] = Gone => held'[g] = Gone
    <3>1. held \in [Goroutines -> Msgs \cup {Nothing, Gone}]
      BY DEF TypeOK
    <3> QED
      BY <1>3, <3>1, MsgsAssumption
         DEF Step, Receive, PollFails, Forward, Return, PollerQuits, Send,
             SendFails, Retry, QuitsRetrying, Settle
  <2> QED
    BY <2>1, <2>2, NoSendMove
\* The closer of stage s closes the channel that only stage s sends on.
<1>4. ASSUME NEW s \in Stages, CloseOutput(s) PROVE NoSendOnClosed'
  <2>1. \A g \in Goroutines : Out(g) = s + 1 => held[g] = Gone
    BY <1>4, GoroutinesAssumption DEF CloseOutput, Ended, Members, Out, Stages
  <2>2. /\ shut' = shut \cup {s + 1} /\ s + 1 # 1
        /\ held' = held /\ sched' = sched
    BY <1>4 DEF CloseOutput, ctrlVars
  <2> QED
    BY <2>1, <2>2 DEF NoSendOnClosed, Out
<1>5. CASE Cancel
  BY <1>5, NoSendMove DEF Cancel
\* workerPool.Stop is called after sched.Stop has returned.
<1>6. CASE CloseJobs
  <2>1. \A g \in Goroutines : Out(g) # 1
    BY GoroutinesAssumption DEF Out, Stages
  <2> QED
    BY <2>1, <1>6 DEF CloseJobs, NoSendOnClosed, Out
\* rawCh is closed after the pollers have returned.
<1>7. CASE CloseRaw
  <2>1. \A g \in Goroutines : Out(g) = 2 => held[g] = Gone
    BY <1>7, GoroutinesAssumption DEF CloseRaw, Ended, Members, Out, Stages
  <2> QED
    BY <2>1, <1>7 DEF CloseRaw, NoSendOnClosed, Out
<1>8. CASE Finish
  BY <1>8, NoSendMove DEF Finish
<1>9. CASE Stopped \/ UNCHANGED vars
  BY <1>9, NoSendMove DEF Stopped, vars
<1>10. CASE Stopping
  BY <1>6, <1>7, <1>8, <1>10 DEF Stopping
<1> QED
  BY <1>1, <1>2, <1>3, <1>4, <1>5, <1>10, <1>9, Zenon DEF Next

LEMMA InitInv == Init => IInv
<1> SUFFICES ASSUME Init PROVE IInv
  OBVIOUS
<1>1. \A c \in Stages : chan[c] \in Seq(Msgs) /\ Len(chan[c]) <= Capacity[c]
  BY CapacityAssumption DEF Init
<1>2. chan \in [Stages -> Seq(Msgs)]
  BY <1>1 DEF Init
<1>3. failures \in 0..MaxRetry
  BY RetryAssumption DEF Init
<1>4. TypeOK
  BY <1>1, <1>2, <1>3 DEF Init, TypeOK, Fates
<1> QED
  BY <1>4 DEF Init, NoSendOnClosed, IInv

\* The invariant holds in every state: induction on the steps of Spec.
THEOREM Invariance == Spec => []IInv
<1>1. IInv /\ [Next]_vars => IInv'
  BY TypeStep, NoSendStep DEF IInv
<1> QED
  BY InitInv, <1>1, PTL DEF Spec

\* Every channel keeps within its capacity and every variable in its type.
THEOREM Typing == Spec => []TypeOK
BY Invariance, PTL DEF IInv

\* Nobody ever sends on a closed channel: App.Stop's cascade and the closer
\* goroutines close a channel only after its last sender has returned.
THEOREM ClosedAfterLastSender == Spec => []NoSendOnClosed
BY Invariance, PTL DEF IInv

-----------------------------------------------------------------------------
(* Where the messages are. A message that is on its way is in one place: on  *)
(* one channel once, or with one goroutine. The counts of Conservation       *)
(* follow; they are not inductive by themselves, since they do not say that  *)
(* what a goroutine holds is on its way.                                     *)

Elems(s)    == {s[i] : i \in 1..Len(s)}
Distinct(s) == \A i, j \in 1..Len(s) : s[i] = s[j] => i = j

Queued(m)  == \E c \in Stages : m \in Elems(chan[c])
InHand(m)  == \E g \in Goroutines : held[g] = m

OnePlace ==
    /\ \A c \in Stages : Distinct(chan[c])
    /\ \A c, d \in Stages : \A m \in Elems(chan[c]) : m \in Elems(chan[d]) => c = d
    /\ \A g, k \in Goroutines : held[g] \in Msgs /\ held[g] = held[k] => g = k
    /\ \A c \in Stages, g \in Goroutines : held[g] \notin Elems(chan[c])
    /\ \A m \in Msgs : fate[m] = "moving" <=> Queued(m) \/ InHand(m)

\* The transport goroutine pauses only with a message to send again.
PauseHolds == waiting => \A g \in Goroutines : Stage[g] = 5 => held[g] \in Msgs

LEMMA AppendElems ==
    ASSUME NEW s \in Seq(Msgs), NEW m \in Msgs
    PROVE  /\ Elems(Append(s, m)) = Elems(s) \cup {m}
           /\ Distinct(s) /\ m \notin Elems(s) => Distinct(Append(s, m))
<1> DEFINE t == Append(s, m)
<1>1. /\ Len(s) \in Nat /\ Len(t) = Len(s) + 1 /\ t[Len(t)] = m
      /\ \A i \in 1..Len(s) : t[i] = s[i]
  OBVIOUS
<1> HIDE DEF t
<1>2. \A i \in 1..Len(t) : i \in 1..Len(s) \/ i = Len(t)
  BY <1>1
<1>3. \A i \in 1..Len(s) : i \in 1..Len(t)
  BY <1>1
<1>4. Len(t) \in 1..Len(t)
  BY <1>1
<1>5. Elems(t) = Elems(s) \cup {m}
  BY <1>1, <1>2, <1>3, <1>4 DEF Elems
<1>6. ASSUME Distinct(s), m \notin Elems(s) PROVE Distinct(t)
  <2> SUFFICES ASSUME NEW i \in 1..Len(t), NEW j \in 1..Len(t), t[i] = t[j]
               PROVE  i = j
    BY DEF Distinct
  <2>1. \A k \in 1..Len(s) : t[k] # m
    BY <1>1, <1>6 DEF Elems
  <2> QED BY <1>1, <1>2, <1>6, <2>1 DEF Distinct
<1> QED BY <1>5, <1>6 DEF t

LEMMA TailElems ==
    ASSUME NEW s \in Seq(Msgs), s # <<>>, Distinct(s)
    PROVE  /\ Head(s) \in Elems(s) /\ Head(s) \in Msgs
           /\ Elems(Tail(s)) = Elems(s) \ {Head(s)}
           /\ Distinct(Tail(s))
<1> DEFINE t == Tail(s)
<1>1. /\ Len(s) \in Nat /\ Len(s) > 0 /\ Len(t) = Len(s) - 1 /\ Head(s) = s[1]
      /\ \A i \in 1..Len(t) : t[i] = s[i + 1]
      /\ s[1] \in Msgs
  OBVIOUS
<1> HIDE DEF t
<1>2. 1 \in 1..Len(s) /\ \A i \in 1..Len(t) : i + 1 \in 1..Len(s) /\ i + 1 # 1
  BY <1>1
<1>3. \A i \in 1..Len(s) : i # 1 => i - 1 \in 1..Len(t) /\ t[i - 1] = s[i]
  BY <1>1
<1>4. Elems(t) = Elems(s) \ {s[1]}
  <2>1. ASSUME NEW m \in Elems(t) PROVE m \in Elems(s) \ {s[1]}
    <3>1. PICK i \in 1..Len(t) : m = s[i + 1]
      BY <1>1 DEF Elems
    <3>2. s[i + 1] # s[1]
      BY <1>2 DEF Distinct
    <3> QED BY <1>2, <3>1, <3>2 DEF Elems
  <2>2. ASSUME NEW m \in Elems(s) \ {s[1]} PROVE m \in Elems(t)
    BY <1>3 DEF Elems
  <2> QED BY <2>1, <2>2
<1>5. Distinct(t)
  <2> SUFFICES ASSUME NEW i \in 1..Len(t), NEW j \in 1..Len(t), t[i] = t[j]
               PROVE  i = j
    BY DEF Distinct
  <2>1. i + 1 = j + 1
    BY <1>1, <1>2 DEF Distinct
  <2> QED BY <2>1
<1>6. s[1] \in Elems(s)
  BY <1>2 DEF Elems
<1> QED BY <1>1, <1>4, <1>5, <1>6 DEF t

\* A message appended to one channel is there and nowhere else new.
LEMMA ChannelGains ==
    ASSUME TypeOK, OnePlace, NEW c \in Stages, NEW m \in Msgs, ~Queued(m),
           chan' = [chan EXCEPT ![c] = Append(@, m)]
    PROVE  /\ \A d \in Stages : Distinct(chan'[d])
           /\ \A d \in Stages :
                Elems(chan'[d]) = IF d = c THEN Elems(chan[c]) \cup {m} ELSE Elems(chan[d])
<1>1. chan[c] \in Seq(Msgs)
  BY DEF TypeOK
<1>2. \A d \in Stages : chan'[d] = IF d = c THEN Append(chan[c], m) ELSE chan[d]
  BY DEF TypeOK
<1>3. m \notin Elems(chan[c]) /\ \A d \in Stages : Distinct(chan[d])
  BY DEF Queued, OnePlace
<1>4. Distinct(Append(chan[c], m)) /\ Elems(Append(chan[c], m)) = Elems(chan[c]) \cup {m}
  BY <1>1, <1>3, AppendElems
<1>5. ASSUME NEW d \in Stages
      PROVE  /\ Distinct(chan'[d])
             /\ Elems(chan'[d]) = IF d = c THEN Elems(chan[c]) \cup {m} ELSE Elems(chan[d])
  <2>1. CASE d = c
    <3>1. chan'[d] = Append(chan[c], m)
      BY <1>2, <2>1
    <3> QED BY <1>4, <2>1, <3>1
  <2>2. CASE d # c
    <3>1. chan'[d] = chan[d]
      BY <1>2, <2>2
    <3> QED BY <1>3, <2>2, <3>1
  <2> QED BY <2>1, <2>2
<1> QED BY <1>5

\* A message taken off a channel is not there any more.
LEMMA ChannelLoses ==
    ASSUME TypeOK, OnePlace, NEW c \in Stages, chan[c] # <<>>,
           chan' = [chan EXCEPT ![c] = Tail(@)]
    PROVE  /\ Head(chan[c]) \in Elems(chan[c]) /\ Head(chan[c]) \in Msgs
           /\ \A d \in Stages : Distinct(chan'[d])
           /\ \A d \in Stages :
                Elems(chan'[d]) = IF d = c THEN Elems(chan[c]) \ {Head(chan[c])}
                                  ELSE Elems(chan[d])
<1>1. chan[c] \in Seq(Msgs) /\ \A d \in Stages : Distinct(chan[d])
  BY DEF TypeOK, OnePlace
<1>2. \A d \in Stages : chan'[d] = IF d = c THEN Tail(chan[c]) ELSE chan[d]
  BY DEF TypeOK
<1>3. /\ Head(chan[c]) \in Elems(chan[c]) /\ Head(chan[c]) \in Msgs
      /\ Distinct(Tail(chan[c])) /\ Elems(Tail(chan[c])) = Elems(chan[c]) \ {Head(chan[c])}
  BY <1>1, TailElems
<1>4. ASSUME NEW d \in Stages
      PROVE  /\ Distinct(chan'[d])
             /\ Elems(chan'[d]) = IF d = c THEN Elems(chan[c]) \ {Head(chan[c])}
                                  ELSE Elems(chan[d])
  <2>1. CASE d = c
    <3>1. chan'[d] = Tail(chan[c])
      BY <1>2, <2>1
    <3> QED BY <1>3, <2>1, <3>1
  <2>2. CASE d # c
    <3>1. chan'[d] = chan[d]
      BY <1>2, <2>2
    <3> QED BY <1>1, <2>2, <3>1
  <2> QED BY <2>1, <2>2
<1> QED BY <1>3, <1>4

\* A goroutine that had a message has it no more, and the message has ended up.
LEMMA HandEmptied ==
    ASSUME TypeOK, OnePlace, NEW g \in Goroutines, held[g] \in Msgs, NEW f \in Fates,
           f # "moving", NEW x \in {Nothing, Gone}, UNCHANGED chan,
           held' = [held EXCEPT ![g] = x], fate' = [fate EXCEPT ![held[g]] = f]
    PROVE  OnePlace'
<1>1. \A k \in Goroutines : held'[k] = IF k = g THEN x ELSE held[k]
  BY DEF TypeOK
<1>2. \A m \in Msgs : fate'[m] = IF m = held[g] THEN f ELSE fate[m]
  BY DEF TypeOK
<1>3. \A c \in Stages : Elems(chan[c]) \subseteq Msgs
  BY DEF TypeOK, Elems
<1>4. x \notin Msgs
  BY MsgsAssumption
<1>5. ASSUME NEW m \in Msgs
      PROVE  fate'[m] = "moving" <=> Queued(m)' \/ InHand(m)'
  <2>1. CASE m = held[g]
    <3>1. ~Queued(m)' /\ fate'[m] # "moving"
      BY <1>2, <2>1 DEF OnePlace, Queued
    <3>2. \A k \in Goroutines : held'[k] # m
      BY <1>1, <1>4, <2>1 DEF OnePlace
    <3> QED BY <3>1, <3>2 DEF InHand
  <2>2. CASE m # held[g]
    <3>1. InHand(m)' <=> InHand(m)
      BY <1>1, <1>4, <2>2 DEF InHand
    <3>2. Queued(m)' <=> Queued(m)
      BY DEF Queued
    <3> QED BY <1>2, <2>2, <3>1, <3>2 DEF OnePlace
  <2> QED BY <2>1, <2>2
<1>6. \A c \in Stages, k \in Goroutines : held'[k] \notin Elems(chan'[c])
  BY <1>1, <1>3, <1>4 DEF OnePlace
<1>7. \A j, k \in Goroutines : held'[j] \in Msgs /\ held'[j] = held'[k] => j = k
  BY <1>1, <1>4 DEF OnePlace
<1> QED BY <1>5, <1>6, <1>7 DEF OnePlace

\* No step copies a message or forgets one.
LEMMA OnePlaceStep ==
    ASSUME TypeOK, OnePlace, PauseHolds, [Next]_vars
    PROVE  OnePlace'
<1>1. ASSUME UNCHANGED <<chan, fate>>,
             \A g \in Goroutines : held'[g] = held[g] \/
                 (held[g] \notin Msgs /\ held'[g] \in {Nothing, Gone})
      PROVE  OnePlace'
  <2>1. \A c \in Stages : Elems(chan[c]) \subseteq Msgs
    BY DEF TypeOK, Elems
  <2>2. \A m \in Msgs : InHand(m)' <=> InHand(m)
    BY <1>1, MsgsAssumption DEF InHand
  <2>3. \A m \in Msgs : Queued(m)' <=> Queued(m)
    BY <1>1 DEF Queued
  <2>4. \A m \in Msgs : fate'[m] = "moving" <=> Queued(m)' \/ InHand(m)'
    BY <1>1, <2>2, <2>3 DEF OnePlace
  <2>5. \A c \in Stages, g \in Goroutines : held'[g] \notin Elems(chan'[c])
    BY <1>1, <2>1, MsgsAssumption DEF OnePlace
  <2>6. \A g, k \in Goroutines : held'[g] \in Msgs /\ held'[g] = held'[k] => g = k
    BY <1>1, MsgsAssumption DEF OnePlace
  <2> QED BY <1>1, <2>4, <2>5, <2>6 DEF OnePlace
<1>2. ASSUME UNCHANGED <<chan, held, fate>> PROVE OnePlace'
  BY <1>1, <1>2
<1>3. \A c \in Stages : Elems(chan[c]) \subseteq Msgs
  BY DEF TypeOK, Elems
<1>4. ASSUME NEW m \in Msgs, Submit(m) PROVE OnePlace'
  <2>1. fate[m] = "new" /\ UNCHANGED held
    BY <1>4 DEF Submit
  <2>2. ~Queued(m) /\ ~InHand(m)
    BY <2>1 DEF OnePlace
  <2>3. CASE UNCHANGED chan /\ fate' = [fate EXCEPT ![m] = "rejected"]
    <3>1. \A n \in Msgs : fate'[n] = "moving" <=> fate[n] = "moving"
      BY <2>1, <2>3 DEF TypeOK
    <3> QED BY <2>1, <2>3, <3>1 DEF OnePlace, Queued, InHand
  <2>4. CASE chan' = [chan EXCEPT ![1] = Append(@, m)] /\ fate' = [fate EXCEPT ![m] = "moving"]
    <3>1. 1 \in Stages
      BY DEF Stages
    <3>2. /\ \A d \in Stages : Distinct(chan'[d])
          /\ \A d \in Stages :
               Elems(chan'[d]) = IF d = 1 THEN Elems(chan[1]) \cup {m} ELSE Elems(chan[d])
      BY <2>2, <2>4, <3>1, ChannelGains
    <3>3. \A n \in Msgs : fate'[n] = IF n = m THEN "moving" ELSE fate[n]
      BY <2>4 DEF TypeOK
    <3>4. \A n \in Msgs : Queued(n)' <=> Queued(n) \/ n = m
      BY <3>1, <3>2 DEF Queued
    <3>5. \A n \in Msgs : InHand(n)' <=> InHand(n)
      BY <2>1 DEF InHand
    <3>6. \A n \in Msgs : fate'[n] = "moving" <=> Queued(n)' \/ InHand(n)'
      BY <3>3, <3>4, <3>5 DEF OnePlace
    <3>7. \A c, d \in Stages : \A n \in Elems(chan'[c]) : n \in Elems(chan'[d]) => c = d
      BY <2>2, <3>2 DEF OnePlace, Queued
    <3>8. \A c \in Stages, g \in Goroutines : held'[g] \notin Elems(chan'[c])
      BY <2>1, <2>2, <3>2 DEF OnePlace, InHand
    <3> QED BY <2>1, <3>2, <3>6, <3>7, <3>8 DEF OnePlace
  <2> QED BY <1>4, <2>3, <2>4 DEF Submit
<1>5. ASSUME NEW g \in Goroutines, Receive(g) PROVE OnePlace'
  <2>1. PICK c \in Stages : c = In(g)
    BY GoroutinesAssumption DEF In
  <2> DEFINE m == Head(chan[c])
  <2>2. held[g] = Nothing /\ chan[c] # <<>> /\ chan' = [chan EXCEPT ![c] = Tail(@)]
    BY <1>5, <2>1 DEF Receive
  <2>3. /\ m \in Elems(chan[c]) /\ m \in Msgs
        /\ \A d \in Stages : Distinct(chan'[d])
        /\ \A d \in Stages :
             Elems(chan'[d]) = IF d = c THEN Elems(chan[c]) \ {m} ELSE Elems(chan[d])
    BY <2>2, ChannelLoses
  <2>4. /\ \/ held' = [held EXCEPT ![g] = m] /\ UNCHANGED fate
           \/ fate' = [fate EXCEPT ![m] = "filtered"] /\ UNCHANGED held
    BY <1>5, <2>1 DEF Receive
  <2> HIDE DEF m
  <2>5. \A d \in Stages : m \notin Elems(chan'[d])
    BY <2>3 DEF OnePlace
  <2>6. \A n \in Msgs : Queued(n)' <=> Queued(n) /\ n # m
    BY <2>3, <2>5 DEF Queued
  <2>7. \A d, e \in Stages : \A n \in Elems(chan'[d]) : n \in Elems(chan'[e]) => d = e
    BY <2>3 DEF OnePlace
  <2>8. Queued(m) /\ ~InHand(m)
    BY <2>3 DEF OnePlace, Queued, InHand
  <2>9. CASE held' = [held EXCEPT ![g] = m] /\ UNCHANGED fate
    <3>1. \A k \in Goroutines : held'[k] = IF k = g THEN m ELSE held[k]
      BY <2>9 DEF TypeOK
    <3>2. \A n \in Msgs : InHand(n)' <=> InHand(n) \/ n = m
      BY <2>2, <3>1, MsgsAssumption DEF InHand
    <3>3. \A n \in Msgs : fate'[n] = "moving" <=> Queued(n)' \/ InHand(n)'
      BY <2>6, <2>8, <2>9, <3>2 DEF OnePlace
    <3>4. \A d \in Stages, k \in Goroutines : held'[k] \notin Elems(chan'[d])
      BY <2>3, <2>5, <3>1 DEF OnePlace
    <3>5. \A j, k \in Goroutines : held'[j] \in Msgs /\ held'[j] = held'[k] => j = k
      BY <2>8, <3>1 DEF OnePlace, InHand
    <3> QED BY <2>3, <2>7, <3>3, <3>4, <3>5 DEF OnePlace
  <2>10. CASE fate' = [fate EXCEPT ![m] = "filtered"] /\ UNCHANGED held
    <3>1. \A n \in Msgs : fate'[n] = IF n = m THEN "filtered" ELSE fate[n]
      BY <2>10 DEF TypeOK
    <3>2. \A n \in Msgs : InHand(n)' <=> InHand(n)
      BY <2>10 DEF InHand
    <3>3. \A n \in Msgs : fate'[n] = "moving" <=> Queued(n)' \/ InHand(n)'
      BY <2>6, <2>8, <3>1, <3>2 DEF OnePlace
    <3>4. \A d \in Stages, k \in Goroutines : held'[k] \notin Elems(chan'[d])
      BY <2>3, <2>10 DEF OnePlace
    <3> QED BY <2>3, <2>7, <2>10, <3>3, <3>4 DEF OnePlace
  <2> QED BY <2>4, <2>9, <2>10
<1>6. ASSUME NEW g \in Goroutines, Forward(g) PROVE OnePlace'
  <2>1. PICK c \in Stages : c = Out(g)
    BY <1>6, GoroutinesAssumption DEF Out, Forward, Stages
  <2>2. PICK m \in Msgs : m = held[g]
    BY <1>6 DEF Forward
  <2>3. /\ chan' = [chan EXCEPT ![c] = Append(@, m)]
        /\ held' = [held EXCEPT ![g] = Nothing] /\ UNCHANGED fate
    BY <1>6, <2>1, <2>2 DEF Forward
  <2>4. ~Queued(m) /\ fate[m] = "moving"
    BY <2>2 DEF OnePlace, Queued, InHand
  <2>5. /\ \A d \in Stages : Distinct(chan'[d])
        /\ \A d \in Stages :
             Elems(chan'[d]) = IF d = c THEN Elems(chan[c]) \cup {m} ELSE Elems(chan[d])
    BY <2>3, <2>4, ChannelGains
  <2>6. \A k \in Goroutines : held'[k] = IF k = g THEN Nothing ELSE held[k]
    BY <2>3 DEF TypeOK
  <2>7. \A k \in Goroutines : held'[k] # m
    BY <2>2, <2>6, MsgsAssumption DEF OnePlace
  <2>8. \A n \in Msgs : InHand(n)' <=> InHand(n) /\ n # m
    BY <2>2, <2>6, <2>7, MsgsAssumption DEF InHand
  <2>9. \A n \in Msgs : Queued(n)' <=> Queued(n) \/ n = m
    BY <2>5 DEF Queued
  <2>10. \A n \in Msgs : fate'[n] = "moving" <=> Queued(n)' \/ InHand(n)'
    BY <2>3, <2>4, <2>8, <2>9 DEF OnePlace
  <2>11. \A d, e \in Stages : \A n \in Elems(chan'[d]) : n \in Elems(chan'[e]) => d = e
    BY <2>4, <2>5 DEF OnePlace, Queued
  <2>12. \A d \in Stages, k \in Goroutines : held'[k] \notin Elems(chan'[d])
    BY <1>3, <2>5, <2>6, <2>7, MsgsAssumption DEF OnePlace
  <2>13. \A j, k \in Goroutines : held'[j] \in Msgs /\ held'[j] = held'[k] => j = k
    BY <2>6, MsgsAssumption DEF OnePlace
  <2> QED BY <2>5, <2>10, <2>11, <2>12, <2>13 DEF OnePlace
<1>7. ASSUME NEW g \in Goroutines, PollFails(g) \/ Send(g) PROVE OnePlace'
  <2>1. "filtered" \in Fates /\ "sent" \in Fates
    BY DEF Fates
  <2> QED BY <1>7, <2>1, HandEmptied DEF PollFails, Send, Settle
<1>8. ASSUME NEW g \in Goroutines, SendFails(g) PROVE OnePlace'
  <2>1. "failed" \in Fates
    BY DEF Fates
  <2>2. UNCHANGED chan /\ held[g] \in Msgs
    BY <1>8 DEF SendFails
  <2>3. UNCHANGED <<held, fate>> \/ Settle(g, "failed")
    BY <1>8 DEF SendFails
  <2> QED BY <1>2, <2>1, <2>2, <2>3, HandEmptied DEF Settle
<1>9. ASSUME NEW g \in Goroutines, Return(g) PROVE OnePlace'
  BY <1>1, <1>9, MsgsAssumption DEF Return, TypeOK
<1>10. ASSUME NEW g \in Goroutines, PollerQuits(g) PROVE OnePlace'
  <2>1. "abandoned" \in Fates
    BY DEF Fates
  <2>2. CASE held[g] \in Msgs
    BY <1>10, <2>1, <2>2, HandEmptied DEF PollerQuits
  <2>3. CASE held[g] \notin Msgs
    BY <1>1, <1>10, <2>3 DEF PollerQuits, TypeOK
  <2> QED BY <2>2, <2>3
<1>11. ASSUME NEW g \in Goroutines, QuitsRetrying(g) PROVE OnePlace'
  <2>1. held[g] \in Msgs /\ "lost" \in Fates
    BY <1>11 DEF QuitsRetrying, PauseHolds, Fates
  <2> QED BY <1>11, <2>1, HandEmptied DEF QuitsRetrying
<1>12. ASSUME NEW g \in Goroutines, Retry(g) PROVE OnePlace'
  BY <1>2, <1>12 DEF Retry
<1>13. ASSUME NEW s \in Stages, CloseOutput(s) PROVE OnePlace'
  BY <1>2, <1>13 DEF CloseOutput
<1>14. CASE SchedulerExit \/ Cancel \/ Stopping \/ Stopped \/ UNCHANGED vars
  BY <1>2, <1>14 DEF SchedulerExit, Cancel, Stopping, CloseJobs, CloseRaw, Finish, Stopped, vars
<1> QED
  BY <1>4, <1>5, <1>6, <1>7, <1>8, <1>9, <1>10, <1>11, <1>12, <1>13, <1>14
     DEF Next, Step

\* The transport goroutine keeps its message while it pauses.
LEMMA PauseStep ==
    ASSUME TypeOK, PauseHolds, [Next]_vars
    PROVE  PauseHolds'
<1>1. ASSUME waiting' => waiting,
             \A g \in Goroutines : Stage[g] = 5 /\ held[g] \in Msgs => held'[g] = held[g]
      PROVE  PauseHolds'
  BY <1>1 DEF PauseHolds
<1>2. ASSUME NEW g \in Goroutines, Receive(g) \/ Return(g) PROVE PauseHolds'
  BY <1>1, <1>2, MsgsAssumption DEF Receive, Return, transportVars, TypeOK
<1>3. ASSUME NEW g \in Goroutines, PollFails(g) \/ Forward(g) \/ PollerQuits(g)
      PROVE  PauseHolds'
  <2>1. Stage[g] # 5 /\ UNCHANGED waiting
    BY <1>3, GoroutinesAssumption DEF PollFails, Forward, PollerQuits, transportVars, Stages
  <2>2. \A k \in Goroutines : k # g => held'[k] = held[k]
    BY <1>3 DEF PollFails, Forward, PollerQuits, Settle, TypeOK
  <2> QED BY <1>1, <2>1, <2>2
<1>4. ASSUME NEW g \in Goroutines, Send(g) \/ Retry(g) \/ QuitsRetrying(g)
      PROVE  PauseHolds'
  <2>1. ~waiting'
    BY <1>4 DEF Send, Retry, QuitsRetrying
  <2> QED BY <2>1 DEF PauseHolds
<1>5. ASSUME NEW g \in Goroutines, SendFails(g) PROVE PauseHolds'
  <2>1. \A k \in Goroutines : Stage[k] = 5 => k = g
    BY <1>5, SingletonAssumption DEF SendFails
  <2> QED BY <1>5, <2>1 DEF SendFails, PauseHolds, Settle
<1>6. CASE \/ SchedulerExit \/ Cancel \/ Stopping \/ Stopped \/ UNCHANGED vars
           \/ \E s \in Stages : CloseOutput(s)
           \/ \E m \in Msgs : Submit(m)
  BY <1>1, <1>6 DEF SchedulerExit, Cancel, Stopping, CloseJobs, CloseRaw, Finish, Stopped,
                    vars, CloseOutput, Submit, transportVars
<1> QED
  BY <1>2, <1>3, <1>4, <1>5, <1>6 DEF Next, Step

\* Every message is in one place as long as it is on its way, in every state.
LEMMA Placed == Spec => [](OnePlace /\ PauseHolds)
<1>1. Init => OnePlace /\ PauseHolds
  <2> SUFFICES ASSUME Init PROVE OnePlace /\ PauseHolds
    OBVIOUS
  <2>1. \A c \in Stages : Elems(chan[c]) = {} /\ Distinct(chan[c])
    BY DEF Init, Elems, Distinct
  <2>2. \A m \in Msgs : ~Queued(m) /\ ~InHand(m) /\ fate[m] # "moving"
    BY <2>1, MsgsAssumption DEF Init, Queued, InHand
  <2>3. \A g \in Goroutines : held[g] \notin Msgs
    BY MsgsAssumption DEF Init
  <2> QED BY <2>1, <2>2, <2>3 DEF Init, OnePlace, PauseHolds
<1>2. IInv /\ OnePlace /\ PauseHolds /\ [Next]_vars => OnePlace' /\ PauseHolds'
  BY OnePlaceStep, PauseStep DEF IInv
<1> QED BY <1>1, <1>2, Invariance, PTL DEF Spec

\* No message is ever duplicated or forgotten by a stage, shutdown included, for any
\* number of goroutines and messages and any capacities.
THEOREM AlwaysConserved == Spec => []Conservation
<1>1. TypeOK /\ OnePlace => Conservation
  <2> SUFFICES ASSUME TypeOK, OnePlace, NEW m \in Msgs
               PROVE  Cardinality(Slots(m)) + Cardinality(Keepers(m)) =
                          IF fate[m] = "moving" THEN 1 ELSE 0
    BY DEF Conservation
  <2>1. ~Queued(m) => Cardinality(Slots(m)) = 0
    <3>1. ~Queued(m) => Slots(m) = {}
      BY DEF Queued, Slots, Elems
    <3> QED BY <3>1, FS_EmptySet
  <2>2. ~InHand(m) => Cardinality(Keepers(m)) = 0
    <3>1. ~InHand(m) => Keepers(m) = {}
      BY DEF InHand, Keepers
    <3> QED BY <3>1, FS_EmptySet
  <2>3. ASSUME Queued(m) PROVE Cardinality(Slots(m)) = 1 /\ ~InHand(m)
    <3>1. PICK c \in Stages : m \in Elems(chan[c])
      BY <2>3 DEF Queued
    <3>2. PICK i \in 1..Len(chan[c]) : chan[c][i] = m
      BY <3>1 DEF Elems
    <3>3. ASSUME NEW d \in Stages, NEW j \in 1..Len(chan[d]), chan[d][j] = m
          PROVE  d = c /\ j = i
      <4>1. m \in Elems(chan[d])
        BY <3>3 DEF Elems
      <4>2. d = c
        BY <3>1, <4>1 DEF OnePlace
      <4> QED BY <3>2, <3>3, <4>2 DEF OnePlace, Distinct
    <3>4. Slots(m) = {<<c, i>>}
      BY <3>2, <3>3 DEF Slots
    <3>5. ~InHand(m)
      BY <3>1 DEF OnePlace, InHand
    <3> QED BY <3>4, <3>5, FS_Singleton
  <2>4. ASSUME InHand(m) PROVE Cardinality(Keepers(m)) = 1
    <3>1. PICK g \in Goroutines : held[g] = m
      BY <2>4 DEF InHand
    <3>2. Keepers(m) = {g}
      BY <3>1 DEF Keepers, OnePlace
    <3> QED BY <3>2, FS_Singleton
  <2>5. fate[m] = "moving" <=> Queued(m) \/ InHand(m)
    BY DEF OnePlace
  <2>6. CASE Queued(m)
    BY <2>2, <2>3, <2>5, <2>6
  <2>7. CASE InHand(m) /\ ~Queued(m)
    BY <2>1, <2>4, <2>5, <2>7
  <2>8. CASE ~InHand(m) /\ ~Queued(m)
    BY <2>1, <2>2, <2>5, <2>8
  <2> QED BY <2>6, <2>7, <2>8
<1> QED BY <1>1, Invariance, Placed, PTL DEF IInv

-----------------------------------------------------------------------------
\* A goroutine behind rawCh returns when its input is closed and empty; only the
\* transport goroutine may return before, and then its message is lost.
LostOne == \E m \in Msgs : fate[m] = "lost"

DrainedInput(s) == s \in shut /\ chan[s] = <<>>

GoneDrained ==
    \A g \in Goroutines : held[g] = Gone /\ Stage[g] # 1
        => DrainedInput(Stage[g]) \/ LostOne

\* The channels of a stage that has drained its input stay as they are: their
\* senders have all returned.
LEMMA StaysDrained ==
    ASSUME IInv, [Next]_vars, NEW s \in 2..5, DrainedInput(s)
    PROVE  DrainedInput(s)'
<1>1. s \in Stages /\ s # 1
  BY DEF Stages
<1>2. TypeOK /\ s \in shut /\ chan[s] = <<>>
  BY DEF IInv, DrainedInput
<1>3. ASSUME shut \subseteq shut', chan'[s] = chan[s] PROVE DrainedInput(s)'
  BY <1>2, <1>3 DEF DrainedInput
<1>4. ASSUME NEW g \in Goroutines, Receive(g) PROVE DrainedInput(s)'
  <2>1. In(g) # s /\ chan' = [chan EXCEPT ![In(g)] = Tail(@)] /\ UNCHANGED shut
    BY <1>2, <1>4 DEF Receive
  <2> QED BY <1>1, <1>2, <1>3, <2>1 DEF TypeOK
<1>5. ASSUME NEW g \in Goroutines, Forward(g) PROVE DrainedInput(s)'
  <2>1. Out(g) # s /\ chan' = [chan EXCEPT ![Out(g)] = Append(@, held[g])] /\ UNCHANGED shut
    BY <1>2, <1>5 DEF Forward
  <2> QED BY <1>1, <1>2, <1>3, <2>1 DEF TypeOK
<1>6. ASSUME NEW m \in Msgs, Submit(m) PROVE DrainedInput(s)'
  <2>1. UNCHANGED shut /\ (UNCHANGED chan \/ chan' = [chan EXCEPT ![1] = Append(@, m)])
    BY <1>6 DEF Submit
  <2> QED BY <1>1, <1>2, <1>3, <2>1 DEF TypeOK
<1>7. ASSUME NEW g \in Goroutines,
             PollFails(g) \/ Return(g) \/ PollerQuits(g) \/ Send(g) \/ SendFails(g)
                 \/ Retry(g) \/ QuitsRetrying(g)
      PROVE  DrainedInput(s)'
  BY <1>3, <1>7 DEF PollFails, Return, PollerQuits, Send, SendFails, Retry, QuitsRetrying
<1>8. CASE \/ SchedulerExit \/ Cancel \/ Stopping \/ Stopped \/ UNCHANGED vars
           \/ \E t \in Stages : CloseOutput(t)
  BY <1>3, <1>8 DEF SchedulerExit, Cancel, Stopping, CloseJobs, CloseRaw, Finish, Stopped,
                    vars, CloseOutput
<1> QED
  BY <1>4, <1>5, <1>6, <1>7, <1>8 DEF Next, Step

\* A message that is lost stays lost.
LEMMA StaysLost ==
    ASSUME TypeOK, OnePlace, PauseHolds, [Next]_vars, LostOne
    PROVE  LostOne'
<1>1. PICK m \in Msgs : fate[m] = "lost"
  BY DEF LostOne
<1>2. ~Queued(m) /\ ~InHand(m)
  BY <1>1 DEF OnePlace
<1>3. ASSUME UNCHANGED fate \/ \E n \in Msgs, f \in Fates : n # m /\ fate' = [fate EXCEPT ![n] = f]
      PROVE  LostOne'
  BY <1>1, <1>3 DEF LostOne, TypeOK
<1>4. ASSUME NEW n \in Msgs, Submit(n) PROVE LostOne'
  BY <1>1, <1>3, <1>4 DEF Submit, Fates
<1>5. ASSUME NEW g \in Goroutines, Receive(g) PROVE LostOne'
  <2>1. PICK c \in Stages : c = In(g)
    BY GoroutinesAssumption DEF In
  <2>2. /\ Head(chan[c]) \in Elems(chan[c]) /\ Head(chan[c]) \in Msgs
    BY <1>5, <2>1, ChannelLoses DEF Receive
  <2>3. Head(chan[c]) # m
    BY <1>2, <2>2 DEF Queued
  <2> QED BY <1>3, <1>5, <2>1, <2>2, <2>3 DEF Receive, Fates
<1>6. ASSUME NEW g \in Goroutines, PollFails(g) \/ Send(g) \/ SendFails(g) PROVE LostOne'
  <2>1. held[g] \in Msgs /\ held[g] # m
    BY <1>2, <1>6 DEF PollFails, Send, SendFails, InHand
  <2> QED BY <1>3, <1>6, <2>1 DEF PollFails, Send, SendFails, Settle, Fates
<1>7. ASSUME NEW g \in Goroutines, PollerQuits(g) PROVE LostOne'
  <2>1. held[g] # m
    BY <1>2 DEF InHand
  <2> QED BY <1>3, <1>7, <2>1 DEF PollerQuits, Fates
<1>8. ASSUME NEW g \in Goroutines, QuitsRetrying(g) PROVE LostOne'
  <2>1. held[g] \in Msgs /\ held[g] # m
    BY <1>2, <1>8 DEF QuitsRetrying, PauseHolds, InHand
  <2> QED BY <1>3, <1>8, <2>1 DEF QuitsRetrying, Fates
<1>9. ASSUME NEW g \in Goroutines, Forward(g) \/ Return(g) \/ Retry(g) PROVE LostOne'
  BY <1>3, <1>9 DEF Forward, Return, Retry
<1>10. CASE \/ SchedulerExit \/ Cancel \/ Stopping \/ Stopped \/ UNCHANGED vars
            \/ \E t \in Stages : CloseOutput(t)
  BY <1>3, <1>10 DEF SchedulerExit, Cancel, Stopping, CloseJobs, CloseRaw, Finish, Stopped,
                     vars, CloseOutput
<1> QED
  BY <1>4, <1>5, <1>6, <1>7, <1>8, <1>9, <1>10 DEF Next, Step

LEMMA GoneStep ==
    ASSUME IInv, OnePlace, PauseHolds, GoneDrained, [Next]_vars
    PROVE  GoneDrained'
<1> USE DEF IInv
<1> SUFFICES ASSUME NEW g \in Goroutines, held'[g] = Gone, Stage[g] # 1
             PROVE  DrainedInput(Stage[g])' \/ LostOne'
  BY DEF GoneDrained
<1>1. PICK s \in 2..5 : s = Stage[g]
  BY GoroutinesAssumption DEF Stages
<1>2. CASE held[g] = Gone
  BY <1>1, <1>2, StaysDrained, StaysLost DEF GoneDrained
<1>3. CASE held[g] # Gone
  <2>1. ASSUME NEW k \in Goroutines, Step(k) \/ PollFails(k)
        PROVE  Return(g) \/ QuitsRetrying(g)
    <3>1. k = g
      BY <1>3, <2>1 DEF Step, Receive, Forward, Return, PollerQuits, Send, SendFails, Retry,
                        QuitsRetrying, PollFails, Settle, TypeOK
    <3>2. ~PollerQuits(g)
      BY DEF PollerQuits
    <3>3. ~Receive(g)
      <4>1. Receive(g) => Head(chan[In(g)]) \in Msgs
        BY GoroutinesAssumption, TailFits DEF Receive, In
      <4> QED BY <1>3, <4>1, MsgsAssumption DEF Receive, TypeOK
    <3>4. /\ ~PollFails(g) /\ ~Forward(g) /\ ~Send(g) /\ ~SendFails(g) /\ ~Retry(g)
      BY <1>3, MsgsAssumption
         DEF PollFails, Forward, Send, SendFails, Retry, Settle, TypeOK
    <3> QED BY <2>1, <3>1, <3>2, <3>3, <3>4 DEF Step
  <2>2. CASE Return(g)
    BY <1>1, <2>2 DEF Return, DrainedInput, In
  <2>3. CASE QuitsRetrying(g)
    <3>1. held[g] \in Msgs
      BY <2>3 DEF QuitsRetrying, PauseHolds
    <3> QED BY <2>3, <3>1 DEF QuitsRetrying, LostOne, TypeOK
  <2>4. \E k \in Goroutines : Step(k) \/ PollFails(k)
    BY <1>3 DEF Next, Submit, SchedulerExit, CloseOutput, Cancel, Stopping, CloseJobs, CloseRaw,
                Finish, Stopped, vars
  <2> QED BY <2>1, <2>2, <2>3, <2>4
<1> QED BY <1>2, <1>3

\* Once App.Stop has waited, whatever is left over is on no channel: all stages have
\* ended, each on a closed and empty input.
StoppedAllGone == stop = "stopped" => \A s \in 2..5 : Ended(s)

LEMMA StoppedStep ==
    ASSUME IInv, StoppedAllGone, [Next]_vars
    PROVE  StoppedAllGone'
<1>1. \A g \in Goroutines : held[g] = Gone => held'[g] = Gone
  BY MsgsAssumption
     DEF IInv, TypeOK, Next, Submit, SchedulerExit, CloseOutput, Cancel, Stopping, CloseJobs,
         CloseRaw, Finish, Stopped, vars, Step, Receive, Forward, Return, PollerQuits, Send,
         SendFails, Retry, QuitsRetrying, PollFails, Settle
<1>2. stop' = "stopped" => stop = "stopped" \/ \A s \in 2..5 : Ended(s)
  BY DEF Next, Submit, SchedulerExit, CloseOutput, Cancel, Stopping, CloseJobs,
         CloseRaw, Finish, Stopped, vars, Step, Receive, Forward, Return, PollerQuits, Send,
         SendFails, Retry, QuitsRetrying, PollFails, ctrlVars
<1> QED BY <1>1, <1>2 DEF StoppedAllGone, Ended, Members

\* When App.Stop has returned and the transport goroutine did not leave early, no result
\* is left on any channel.
THEOREM StopsGracefully == Spec => []GracefulStop
<1>1. Init => GoneDrained /\ StoppedAllGone
  BY MsgsAssumption DEF Init, GoneDrained, StoppedAllGone
<1>2. IInv /\ OnePlace /\ PauseHolds /\ GoneDrained /\ StoppedAllGone /\ [Next]_vars
        => GoneDrained' /\ StoppedAllGone'
  BY GoneStep, StoppedStep
<1>3. GoneDrained /\ StoppedAllGone => GracefulStop
  <2> SUFFICES ASSUME GoneDrained, StoppedAllGone, stop = "stopped",
                      \A m \in Msgs : fate[m] # "lost", NEW c \in 2..5
               PROVE  chan[c] = <<>>
    BY DEF GracefulStop
  <2>1. PICK g \in Goroutines : Stage[g] = c
    BY StaffedAssumption DEF Stages
  <2>2. held[g] = Gone
    BY <2>1 DEF StoppedAllGone, Ended, Members
  <2> QED BY <2>1, <2>2 DEF GoneDrained, DrainedInput, LostOne
<1> QED BY <1>1, <1>2, <1>3, Invariance, Placed, PTL DEF Spec
=============================================================================
