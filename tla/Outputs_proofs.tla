---------------------------- MODULE Outputs_proofs ----------------------------
(***************************************************************************)
(* Proofs about Outputs, for any settings, any number of messages and of   *)
(* launches: the Kafka transport implements Outbox, every process runs     *)
(* with the settings meant, and the rotating files hold what was written   *)
(* last.                                                                   *)
(***************************************************************************)
EXTENDS Outputs, LoopLemmas, SequenceTheorems, TLAPS

Numbers == 1..MaxMessages

-----------------------------------------------------------------------------
(* The inductive invariant.                                                  *)

TypeOK ==
    /\ ch \in Seq(Numbers) /\ batch \in Seq(Numbers)
    /\ settled \in Seq(Numbers) /\ accepted \in Seq(Numbers)
    /\ worker \in {"none", "run", "flush", "drain", "lastFlush", "done", "closed"}
    /\ quit \in BOOLEAN
    /\ app \in {"off", "idle", "sending", "closing"}
    /\ app # "off" => conf.kind \in {"kafka", "file", "stdout"}
    /\ message \in Nat \ {0}

\* App and the worker agree: it runs while App sends to Kafka, and is told to end
\* only when App sends no more.
WorkerInOrder ==
    /\ app = "off"  => worker = "none"
    /\ app = "idle" => worker \in {"none", "closed"}
    /\ app = "sending" /\ conf.kind = "kafka" => ~quit /\ worker \in {"run", "flush"}
    /\ app = "sending" /\ conf.kind # "kafka" => worker \in {"none", "closed"}
    /\ app = "closing" => /\ quit /\ conf.kind = "kafka"
                          /\ worker \in {"run", "flush", "drain", "lastFlush", "done"}

\* What Send accepted has been settled, or is in the batch, or in the channel, in
\* this order; the drain leaves the channel empty, and the last flush the batch.
NoneBetween ==
    /\ accepted = (settled \o batch) \o ch
    /\ worker \in {"lastFlush", "done", "closed"} => ch = <<>>
    /\ worker \in {"done", "closed"} => batch = <<>>
    /\ worker = "none" => accepted = <<>> /\ settled = <<>>

KafkaInv == TypeOK /\ WorkerInOrder /\ NoneBetween
-----------------------------------------------------------------------------
\* What sequences do: nothing is nothing, a message sent comes last, and one that
\* moves from the head of the channel to the end of the batch keeps its place.
LEMMA NoMessages ==
    /\ \A S : <<>> \in Seq(S)
    /\ (<<>> \o <<>>) \o <<>> = <<>>
OBVIOUS

LEMMA SentLast ==
    ASSUME NEW s \in Seq(Numbers), NEW b \in Seq(Numbers), NEW c \in Seq(Numbers), NEW m \in Numbers
    PROVE  Append((s \o b) \o c, m) = (s \o b) \o Append(c, m)
<1>1. s \o b \in Seq(Numbers) /\ <<m>> \in Seq(Numbers)
  OBVIOUS
<1>2. (s \o b) \o c \in Seq(Numbers)
  BY <1>1
<1>3. Append((s \o b) \o c, m) = ((s \o b) \o c) \o <<m>>
  BY <1>2, AppendIsConcat
<1>4. Append(c, m) = c \o <<m>>
  BY AppendIsConcat
<1>5. ((s \o b) \o c) \o <<m>> = (s \o b) \o (c \o <<m>>)
  BY <1>1, ConcatAssociative
<1> QED BY <1>3, <1>4, <1>5

LEMMA HeadMoves ==
    ASSUME NEW s \in Seq(Numbers), NEW b \in Seq(Numbers), NEW c \in Seq(Numbers), c # <<>>
    PROVE  (s \o Append(b, Head(c))) \o Tail(c) = (s \o b) \o c
<1>1. Head(c) \in Numbers /\ Tail(c) \in Seq(Numbers) /\ <<Head(c)>> \in Seq(Numbers) /\ s \o b \in Seq(Numbers)
  BY HeadTailProperties
<1>2. c = <<Head(c)>> \o Tail(c)
  OBVIOUS
<1>3. s \o Append(b, Head(c)) = (s \o b) \o <<Head(c)>>
  <2>1. Append(b, Head(c)) = b \o <<Head(c)>>
    BY <1>1, AppendIsConcat
  <2>2. (s \o b) \o <<Head(c)>> = s \o (b \o <<Head(c)>>)
    BY <1>1, ConcatAssociative
  <2> QED BY <2>1, <2>2
<1>4. ((s \o b) \o <<Head(c)>>) \o Tail(c) = (s \o b) \o (<<Head(c)>> \o Tail(c))
  BY <1>1, ConcatAssociative
<1> QED BY <1>2, <1>3, <1>4

\* What a launch runs with is one of the three outputs.
LEMMA OneOutput ==
    ASSUME NEW l, conf' = Configured(l)
    PROVE  conf'.kind \in {"kafka", "file", "stdout"}
BY DEF Configured, Kind

\* Building a transport gives Kafka a new worker, or leaves Kafka alone.
LEMMA OpensKafka ==
    ASSUME NEW c, c.kind \in {"kafka", "file", "stdout"}, Opens(c)
    PROVE  IF c.kind = "kafka" THEN KafkaOpen ELSE UNCHANGED kafkaVars
BY DEF Opens

\* The actions with their effect on the Kafka transport.
LEMMA LaunchStep ==
    ASSUME KafkaInv, NEW l \in Launches, Launch(l)
    PROVE  KafkaInv'
<1>1. /\ app = "off" /\ worker = "none" /\ conf' = Configured(l)
      /\ conf'.kind \in {"kafka", "file", "stdout"} /\ UNCHANGED message
  BY OneOutput DEF Launch, sendVars, KafkaInv, WorkerInOrder
<1>2. CASE app' = "idle" /\ UNCHANGED kafkaVars
  BY <1>1, <1>2 DEF KafkaInv, TypeOK, WorkerInOrder, NoneBetween, kafkaVars
<1>3. CASE app' = "sending" /\ Opens(conf')
  <2>1. CASE conf'.kind = "kafka"
    <3>1. KafkaOpen
      BY <1>1, <1>3, <2>1, OpensKafka
    <3> QED BY <1>1, <1>3, <2>1, <3>1, NoMessages
            DEF KafkaInv, TypeOK, WorkerInOrder, NoneBetween, KafkaOpen, Renewed
  <2>2. CASE conf'.kind # "kafka"
    <3>1. UNCHANGED kafkaVars
      BY <1>1, <1>3, <2>2, OpensKafka
    <3> QED BY <1>1, <1>3, <2>2, <3>1 DEF KafkaInv, TypeOK, WorkerInOrder, NoneBetween, kafkaVars
  <2> QED BY <2>1, <2>2
<1> QED BY <1>1, <1>2, <1>3 DEF Launch

LEMMA StartStep ==
    ASSUME KafkaInv, Start
    PROVE  KafkaInv'
<1>1. /\ app = "idle" /\ app' = "sending" /\ worker \in {"none", "closed"} /\ Opens(conf)
      /\ conf.kind \in {"kafka", "file", "stdout"} /\ UNCHANGED <<conf, message>>
  BY DEF Start, sendVars, KafkaInv, TypeOK, WorkerInOrder
<1>2. CASE conf.kind = "kafka"
  <2>1. KafkaOpen
    BY <1>1, <1>2, OpensKafka
  <2> QED BY <1>1, <1>2, <2>1, NoMessages
          DEF KafkaInv, TypeOK, WorkerInOrder, NoneBetween, KafkaOpen, Renewed
<1>3. CASE conf.kind # "kafka"
  <2>1. UNCHANGED kafkaVars
    BY <1>1, <1>3, OpensKafka
  <2> QED BY <1>1, <1>3, <2>1 DEF KafkaInv, TypeOK, WorkerInOrder, NoneBetween, kafkaVars
<1> QED BY <1>2, <1>3

LEMMA SendStep ==
    ASSUME KafkaInv, SendToKafka \/ SendToFile \/ SendToStdout
    PROVE  KafkaInv'
<1>1. app = "sending" /\ message \in Numbers /\ UNCHANGED <<app, conf>>
  BY DEF SendToKafka, SendToFile, SendToStdout, Pending, procVars, KafkaInv, TypeOK, Numbers
<1>2. message' \in Nat \ {0}
  BY DEF SendToKafka, SendToFile, SendToStdout, Sent, Refused, KafkaInv, TypeOK
<1>3. CASE SendToKafka
  <2>1. /\ conf.kind = "kafka" /\ Enqueue(message, conf.bufferSize)
        /\ worker \in {"run", "flush"} /\ ~quit
    BY <1>1, <1>3 DEF SendToKafka, KafkaInv, WorkerInOrder
  <2>2. /\ ch' = Append(ch, message) /\ accepted' = Append(accepted, message)
        /\ UNCHANGED <<batch, worker, quit, settled>>
    BY <2>1 DEF Enqueue
  <2>3. TypeOK'
    BY <1>1, <1>2, <2>2 DEF KafkaInv, TypeOK
  <2>4. accepted' = (settled' \o batch') \o ch'
    <3>1. Append((settled \o batch) \o ch, message) = (settled \o batch) \o Append(ch, message)
      <4>1. ch \in Seq(Numbers) /\ batch \in Seq(Numbers) /\ settled \in Seq(Numbers)
        BY DEF KafkaInv, TypeOK
      <4> QED BY <1>1, <4>1, SentLast
    <3> QED BY <2>2, <3>1 DEF KafkaInv, NoneBetween
  <2> QED BY <1>1, <2>1, <2>2, <2>3, <2>4 DEF KafkaInv, WorkerInOrder, NoneBetween
<1>4. CASE SendToFile \/ SendToStdout
  <2>1. UNCHANGED kafkaVars
    BY <1>4 DEF SendToFile, SendToStdout
  <2> QED BY <1>1, <1>2, <2>1 DEF KafkaInv, TypeOK, WorkerInOrder, NoneBetween, kafkaVars
<1> QED BY <1>3, <1>4

LEMMA WorkerStep ==
    ASSUME KafkaInv, KafkaWorks
    PROVE  KafkaInv'
<1>1. app # "off" /\ conf.kind = "kafka" /\ UNCHANGED <<app, conf, message>>
  BY DEF KafkaWorks, procVars, sendVars
<1>2. CASE Collects(conf.maxEvents)
  <2>1. /\ ch # <<>> /\ batch' = Append(batch, Head(ch)) /\ ch' = Tail(ch)
        /\ worker = "run" /\ worker' \in {"run", "flush"} /\ UNCHANGED <<quit, settled, accepted>>
    BY <1>2 DEF Collects
  <2>2. TypeOK'
    BY <1>1, <2>1 DEF KafkaInv, TypeOK
  <2>3. accepted' = (settled' \o batch') \o ch'
    <3>1. (settled \o Append(batch, Head(ch))) \o Tail(ch) = (settled \o batch) \o ch
      <4>1. ch \in Seq(Numbers) /\ batch \in Seq(Numbers) /\ settled \in Seq(Numbers)
        BY DEF KafkaInv, TypeOK
      <4> QED BY <2>1, <4>1, HeadMoves
    <3> QED BY <2>1, <3>1 DEF KafkaInv, NoneBetween
  <2> QED BY <1>1, <2>1, <2>2, <2>3 DEF KafkaInv, WorkerInOrder, NoneBetween
<1>3. CASE Ticker(conf.maxEvents) \/ SeesQuit
  <2>1. /\ worker = "run" /\ worker' \in {"flush", "drain"}
        /\ worker' = "drain" => quit
        /\ UNCHANGED <<ch, batch, quit, settled, accepted>>
    BY <1>3 DEF Ticker, SeesQuit
  <2>2. TypeOK'
    BY <1>1, <2>1 DEF KafkaInv, TypeOK
  <2>3. WorkerInOrder'
    BY <1>1, <2>1 DEF KafkaInv, TypeOK, WorkerInOrder
  <2>4. NoneBetween'
    BY <2>1 DEF KafkaInv, NoneBetween
  <2> QED BY <2>2, <2>3, <2>4 DEF KafkaInv
<1>4. CASE Drain
  <2>1. CASE ch # <<>>
    <3>1. /\ batch' = Append(batch, Head(ch)) /\ ch' = Tail(ch)
          /\ worker = "drain" /\ UNCHANGED <<worker, quit, settled, accepted>>
      BY <1>4, <2>1 DEF Drain
    <3>2. TypeOK'
      BY <1>1, <2>1, <3>1 DEF KafkaInv, TypeOK
    <3>3. accepted' = (settled' \o batch') \o ch'
      <4>1. (settled \o Append(batch, Head(ch))) \o Tail(ch) = (settled \o batch) \o ch
        <5>1. ch \in Seq(Numbers) /\ batch \in Seq(Numbers) /\ settled \in Seq(Numbers)
          BY DEF KafkaInv, TypeOK
        <5> QED BY <2>1, <5>1, HeadMoves
      <4> QED BY <3>1, <4>1 DEF KafkaInv, NoneBetween
    <3> QED BY <1>1, <3>1, <3>2, <3>3 DEF KafkaInv, WorkerInOrder, NoneBetween
  <2>2. CASE ch = <<>>
    BY <1>1, <1>4, <2>2 DEF Drain, KafkaInv, TypeOK, WorkerInOrder, NoneBetween
  <2> QED BY <2>1, <2>2
<1>5. CASE Flush
  <2>1. /\ settled' = settled \o batch /\ batch' = <<>> /\ UNCHANGED <<ch, quit, accepted>>
        /\ \/ worker = "flush" /\ worker' = "run"
           \/ worker = "lastFlush" /\ worker' = "done"
    BY <1>5 DEF Flush
  <2>2. TypeOK'
    BY <1>1, <2>1 DEF KafkaInv, TypeOK
  <2>3. accepted' = (settled' \o batch') \o ch'
    BY <2>1 DEF KafkaInv, TypeOK, NoneBetween
  <2> QED BY <1>1, <2>1, <2>2, <2>3 DEF KafkaInv, WorkerInOrder, NoneBetween
<1> QED BY <1>2, <1>3, <1>4, <1>5 DEF KafkaWorks, Worker

LEMMA StopStep ==
    ASSUME KafkaInv, Stop
    PROVE  KafkaInv'
<1>1. app = "sending" /\ conf.kind \in {"kafka", "file", "stdout"} /\ UNCHANGED conf
  BY DEF Stop, KafkaInv, TypeOK
<1>2. message' \in Nat \ {0}
  BY DEF Stop, KafkaInv, TypeOK
<1>3. CASE conf.kind = "kafka"
  BY <1>1, <1>2, <1>3 DEF Stop, SignalQuit, KafkaInv, TypeOK, WorkerInOrder, NoneBetween
<1>4. CASE conf.kind # "kafka"
  <2>1. app' = "idle" /\ UNCHANGED kafkaVars
    BY <1>1, <1>4 DEF Stop
  <2> QED BY <1>1, <1>2, <1>4, <2>1 DEF KafkaInv, TypeOK, WorkerInOrder, NoneBetween, kafkaVars
<1> QED BY <1>3, <1>4

LEMMA NextInv == KafkaInv /\ [Next]_vars => KafkaInv'
<1> SUFFICES ASSUME KafkaInv, [Next]_vars PROVE KafkaInv'
  OBVIOUS
<1>1. CASE \E l \in Launches : Launch(l)
  BY <1>1, LaunchStep
<1>2. CASE Start
  BY <1>2, StartStep
<1>3. CASE SendToKafka \/ SendToFile \/ SendToStdout
  BY <1>3, SendStep
<1>4. CASE KafkaWorks
  BY <1>4, WorkerStep
<1>5. CASE Stop
  BY <1>5, StopStep
<1>6. CASE CloseReturns
  BY <1>6 DEF CloseReturns, KafkaClosed, sendVars, KafkaInv, TypeOK, WorkerInOrder, NoneBetween
<1>7. CASE Ends
  BY <1>7, NoMessages DEF Ends, KafkaGone, Renewed, KafkaInv, TypeOK, WorkerInOrder, NoneBetween
<1>8. CASE UNCHANGED vars
  BY <1>8 DEF vars, kafkaVars, procVars, sendVars, KafkaInv, TypeOK, WorkerInOrder, NoneBetween
<1> QED BY <1>1, <1>2, <1>3, <1>4, <1>5, <1>6, <1>7, <1>8 DEF Next

\* App and the worker keep their order, and no message is between the channel, the
\* batch and what is settled, whatever the settings.
THEOREM KafkaInOrder == Spec => []KafkaInv
<1>1. Init => KafkaInv
  <2> SUFFICES ASSUME Init PROVE KafkaInv
    OBVIOUS
  <2>1. TypeOK
    <3>1. /\ ch = <<>> /\ batch = <<>> /\ settled = <<>> /\ accepted = <<>>
          /\ worker = "none" /\ quit = FALSE /\ app = "off"
      BY DEF Init, KafkaInit
    <3>2. <<>> \in Seq(Numbers) /\ message \in Nat \ {0}
      BY NoMessages DEF Init
    <3> QED BY <3>1, <3>2 DEF TypeOK
  <2>2. WorkerInOrder
    BY DEF Init, KafkaInit, WorkerInOrder
  <2>3. NoneBetween
    BY NoMessages DEF Init, KafkaInit, NoneBetween
  <2> QED BY <2>1, <2>2, <2>3 DEF KafkaInv
<1> QED BY <1>1, NextInv, PTL DEF Spec

-----------------------------------------------------------------------------
(* The refinement: Outbox sees neither the channel nor the batch.            *)

\* Two halves of a sequence: the first is a prefix of the whole.
LEMMA FirstIsPrefix ==
    ASSUME NEW S, NEW s \in Seq(S), NEW t \in Seq(S)
    PROVE  Promised!IsPrefix(s, s \o t)
<1>1. /\ s \o t \in Seq(S) /\ Len(s \o t) = Len(s) + Len(t)
      /\ \A i \in 1..Len(s) : (s \o t)[i] = s[i]
  BY ConcatProperties
<1>2. SubSeq(s, 1, Len(s)) = SubSeq(s \o t, 1, Len(s))
  BY <1>1
<1> QED BY <1>1, <1>2 DEF Promised!IsPrefix

\* A transport that is built is opened, and one that is not changes nothing.
LEMMA OpenStep ==
    ASSUME KafkaInv, (\E l \in Launches : Launch(l)) \/ Start
    PROVE  Promised!Open \/ UNCHANGED <<Mode, accepted, settled>>
<1>1. /\ worker \in {"none", "closed"}
      /\ UNCHANGED kafkaVars \/ KafkaOpen
  <2>1. ASSUME NEW l \in Launches, Launch(l)
        PROVE  UNCHANGED kafkaVars \/ KafkaOpen
    BY <2>1, OneOutput, OpensKafka DEF Launch
  <2>2. ASSUME Start
        PROVE  UNCHANGED kafkaVars \/ KafkaOpen
    <3>1. Opens(conf) /\ conf.kind \in {"kafka", "file", "stdout"}
      BY <2>2 DEF Start, KafkaInv, TypeOK
    <3> QED BY <3>1, OpensKafka
  <2>3. app \in {"off", "idle"}
    BY DEF Launch, Start
  <2> QED BY <2>1, <2>2, <2>3 DEF KafkaInv, WorkerInOrder
<1>2. CASE UNCHANGED kafkaVars
  BY <1>2 DEF kafkaVars, Mode
<1>3. CASE KafkaOpen
  BY <1>1, <1>3 DEF KafkaOpen, Renewed, Mode, Promised!Open
<1> QED BY <1>1, <1>2, <1>3

LEMMA AcceptStep ==
    ASSUME KafkaInv, SendToKafka
    PROVE  \E m \in Numbers : Promised!Accept(m)
<1>1. message \in Numbers /\ worker \in {"run", "flush"}
  BY DEF SendToKafka, Pending, KafkaInv, TypeOK, WorkerInOrder, Numbers
<1>2. Promised!Accept(message)
  BY <1>1 DEF SendToKafka, Enqueue, Mode, Promised!Accept
<1> QED BY <1>1, <1>2

LEMMA SettleStep ==
    ASSUME KafkaInv, KafkaWorks
    PROVE  Promised!Settle \/ UNCHANGED <<Mode, accepted, settled>>
<1>1. worker \notin {"none", "closed"} /\ worker' \notin {"none", "closed"} /\ UNCHANGED accepted
  BY DEF KafkaWorks, Worker, Collects, Ticker, SeesQuit, Drain, Flush
<1>2. Mode = "open" /\ Mode' = "open"
  BY <1>1 DEF Mode
<1>3. CASE Flush
  <2>1. settled' = settled \o batch
    BY <1>3 DEF Flush
  <2>2. settled \in Seq(Numbers) /\ batch \in Seq(Numbers) /\ ch \in Seq(Numbers)
    BY DEF KafkaInv, TypeOK
  <2>3. Promised!IsPrefix(settled, settled')
    BY <2>1, <2>2, FirstIsPrefix
  <2>4. settled' \in Seq(Numbers) /\ accepted = settled' \o ch
    BY <2>1, <2>2 DEF KafkaInv, NoneBetween
  <2>5. Promised!IsPrefix(settled', accepted)
    BY <2>2, <2>4, FirstIsPrefix
  <2> QED BY <1>1, <1>2, <2>3, <2>5 DEF Promised!Settle
<1>4. CASE UNCHANGED settled
  BY <1>1, <1>2, <1>4
<1> QED BY <1>3, <1>4 DEF KafkaWorks, Worker, Collects, Ticker, SeesQuit, Drain

LEMMA CloseStep ==
    ASSUME KafkaInv, CloseReturns
    PROVE  Promised!Close
<1>1. /\ worker = "done" /\ worker' = "closed" /\ batch = <<>> /\ ch = <<>>
      /\ UNCHANGED <<accepted, settled>>
  BY DEF CloseReturns, KafkaClosed, KafkaInv, NoneBetween
<1>2. settled = accepted
  BY <1>1, ConcatEmptySeq DEF KafkaInv, TypeOK, NoneBetween
<1> QED BY <1>1, <1>2 DEF Mode, Promised!Close

\* Every step of the collector is one of Outbox, or none as far as Outbox sees.
LEMMA OutboxStep ==
    ASSUME KafkaInv, [Next]_vars
    PROVE  [Promised!Next]_(Promised!outboxVars)
<1> USE DEF Promised!Next, Promised!outboxVars
<1>1. CASE (\E l \in Launches : Launch(l)) \/ Start
  BY <1>1, OpenStep
<1>2. CASE SendToKafka
  BY <1>2, AcceptStep DEF Numbers
<1>3. CASE KafkaWorks
  BY <1>3, SettleStep
<1>4. CASE CloseReturns
  BY <1>4, CloseStep
<1>5. CASE Ends
  BY <1>5 DEF Ends, KafkaGone, Renewed, Mode, Promised!End
<1>6. CASE Stop
  <2>1. UNCHANGED <<worker, accepted, settled>>
    BY <1>6 DEF Stop, SignalQuit, kafkaVars, KafkaInv, TypeOK
  <2> QED BY <2>1 DEF Mode
<1>7. CASE SendToFile \/ SendToStdout \/ UNCHANGED vars
  BY <1>7 DEF SendToFile, SendToStdout, vars, kafkaVars, Mode
<1> QED BY <1>1, <1>2, <1>3, <1>4, <1>5, <1>6, <1>7 DEF Next

\* The Kafka transport is an Outbox: over all settings, launches, stops and deaths it
\* settles what it accepted, each message once and in order, and all of it before
\* Close returns.
THEOREM KafkaIsOutbox == Spec => OutboxSpec
<1>1. Init => Promised!Init
  BY DEF Init, KafkaInit, Mode, Promised!Init, Promised!Empty
<1>2. KafkaInv /\ [Next]_vars => [Promised!Next]_(Promised!outboxVars)
  BY OutboxStep
<1> QED BY KafkaInOrder, <1>1, <1>2, PTL DEF Spec, OutboxSpec, Promised!Spec

-----------------------------------------------------------------------------
(* The settings of a process.                                                *)

LEMMA AllKeys ==
    /\ Keys = {"log", "ha", "peer", "stdoutOn", "fileOn", "kafkaOn", "sendRetry", "path", "maxBytes",
               "maxBackups", "brokers", "topic", "maxEvents", "bufferSize", "flush", "version", "tls",
               "clientCert", "clientKey", "sasl", "mechanism"}
    /\ DefaultCollectorConfig = [k \in Keys |-> DefaultCollectorConfig[k]]
<1> DEFINE K == {"log", "ha", "peer", "stdoutOn", "fileOn", "kafkaOn", "sendRetry", "path", "maxBytes",
                 "maxBackups", "brokers", "topic", "maxEvents", "bufferSize", "flush", "version", "tls",
                 "clientCert", "clientKey", "sasl", "mechanism"}
<1>1. Keys = K
  BY DEF Keys, DefaultCollectorConfig
<1>2. DefaultCollectorConfig = [k \in DOMAIN DefaultCollectorConfig |-> DefaultCollectorConfig[k]]
  BY DEF DefaultCollectorConfig
<1> QED BY <1>1, <1>2 DEF Keys

LEMMA DefaultsGiven == IsGiven(DefaultCollectorConfig)
<1> DEFINE D == DefaultCollectorConfig
           switches == {"log", "ha", "peer", "stdoutOn", "fileOn", "kafkaOn", "path", "brokers", "topic",
                        "version", "tls", "clientCert", "clientKey", "sasl"}
<1>1. /\ D.sendRetry = 3 /\ D.maxBytes = 50 * 1024 * 1024 /\ D.maxBackups = 5
      /\ D.maxEvents = 1000 /\ D.bufferSize = 10000 /\ D.flush = 10
      /\ D.mechanism = "PLAIN"
  BY DEF DefaultCollectorConfig
<1>2. /\ D.log = TRUE /\ D.ha = FALSE /\ D.peer = FALSE /\ D.stdoutOn = FALSE /\ D.fileOn = FALSE
      /\ D.kafkaOn = FALSE /\ D.path = FALSE /\ D.brokers = FALSE /\ D.topic = FALSE
      /\ D.version = TRUE /\ D.tls = FALSE /\ D.clientCert = FALSE /\ D.clientKey = FALSE
      /\ D.sasl = FALSE
  BY DEF DefaultCollectorConfig
<1>3. Keys = Counts \cup {"mechanism"} \cup switches /\ Counts \cap switches = {} /\ "mechanism" \notin Counts
  BY AllKeys DEF Counts
<1>4. DOMAIN D = Keys
  BY DEF Keys
<1> HIDE DEF D
<1>5. ASSUME NEW k \in Counts PROVE Fits(k, D[k])
  BY <1>1 DEF Counts, Fits
<1>6. Fits("mechanism", D.mechanism)
  BY <1>1, <1>3 DEF Fits
<1>7. ASSUME NEW k \in switches PROVE Fits(k, D[k])
  <2>1. D[k] \in BOOLEAN
    BY <1>2, Zenon
  <2> QED BY <1>3, <2>1 DEF Fits
<1> QED BY <1>3, <1>4, <1>5, <1>6, <1>7 DEF IsGiven, D

\* Settings that are complete and of the right types.
Complete(s) == IsGiven(s) /\ s = [k \in Keys |-> s[k]]

LEMMA OverComplete ==
    ASSUME NEW given, IsGiven(given), NEW s, Complete(s)
    PROVE  /\ Complete(Over(given, s))
           /\ \A k \in Keys : Over(given, s)[k] = IF k \in DOMAIN given THEN given[k] ELSE s[k]
<1> DEFINE o == Over(given, s)
<1>1. DOMAIN given \subseteq Keys /\ DOMAIN s = Keys
  BY DEF Complete, IsGiven
<1>2. DOMAIN given \cup DOMAIN s = Keys
  BY <1>1
<1>3. o = [k \in Keys |-> IF k \in DOMAIN given THEN given[k] ELSE s[k]]
  BY <1>2 DEF Over
<1> HIDE DEF o
<1>4. \A k \in Keys : o[k] = IF k \in DOMAIN given THEN given[k] ELSE s[k]
  BY <1>3
<1>5. DOMAIN o = Keys /\ o = [k \in Keys |-> o[k]]
  BY <1>3
<1>6. IsGiven(o)
  <2>1. ASSUME NEW k \in Keys
        PROVE  Fits(k, o[k])
    <3>1. CASE k \in DOMAIN given
      <4>1. o[k] = given[k]
        BY <1>4, <3>1
      <4>2. Fits(k, given[k])
        BY <3>1 DEF IsGiven
      <4> QED BY <4>1, <4>2
    <3>2. CASE k \notin DOMAIN given
      <4>1. o[k] = s[k]
        BY <1>4, <3>2
      <4>2. Fits(k, s[k])
        BY <1>1 DEF Complete, IsGiven
      <4> QED BY <4>1, <4>2
    <3> QED BY <3>1, <3>2
  <2> QED BY <1>5, <2>1 DEF IsGiven
<1> QED BY <1>4, <1>5, <1>6 DEF Complete, o

LEMMA FlushComplete ==
    ASSUME NEW s, Complete(s), NEW n \in Int
    PROVE  /\ Complete([s EXCEPT !.flush = n])
           /\ \A k \in Keys : [s EXCEPT !.flush = n][k] = IF k = "flush" THEN n ELSE s[k]
<1> DEFINE e == [s EXCEPT !.flush = n]
<1>1. s = [k \in Keys |-> s[k]] /\ DOMAIN s = Keys /\ IsGiven(s)
  BY DEF Complete
<1>2. "flush" \in Keys
  BY AllKeys
<1>3. /\ e = [k \in Keys |-> e[k]] /\ DOMAIN e = Keys
      /\ \A k \in Keys : e[k] = IF k = "flush" THEN n ELSE s[k]
  BY <1>1, <1>2
<1> HIDE DEF e
<1>4. IsGiven(e)
  <2>1. ASSUME NEW k \in Keys
        PROVE  Fits(k, e[k])
    <3>1. CASE k = "flush"
      BY <1>3, <3>1 DEF Counts, Fits
    <3>2. CASE k # "flush"
      <4>1. e[k] = s[k]
        BY <1>3, <3>2
      <4>2. Fits(k, s[k])
        BY <1>1 DEF IsGiven
      <4> QED BY <4>1, <4>2
    <3> QED BY <3>1, <3>2
  <2> QED BY <1>3, <2>1 DEF IsGiven
<1> QED BY <1>3, <1>4 DEF Complete, e

LEMMA RightTypes ==
    ASSUME NEW s, Complete(s)
    PROVE  /\ \A k \in Counts : s[k] \in Int
           /\ \A k \in Keys \ (Counts \cup {"mechanism"}) : s[k] \in BOOLEAN
<1>1. Counts \subseteq Keys /\ "mechanism" \notin Counts
  BY AllKeys DEF Counts
<1>2. \A k \in Keys : Fits(k, s[k])
  BY DEF Complete, IsGiven
<1>3. ASSUME NEW k \in Counts PROVE s[k] \in Int
  <2>1. Fits(k, s[k])
    BY <1>1, <1>2
  <2> QED BY <2>1 DEF Fits
<1>4. ASSUME NEW k \in Keys \ (Counts \cup {"mechanism"}) PROVE s[k] \in BOOLEAN
  <2>1. Fits(k, s[k])
    BY <1>2
  <2> QED BY <2>1 DEF Fits
<1> QED BY <1>3, <1>4

LEMMA FileRead ==
    ASSUME NEW l \in Launches
    PROVE  /\ Complete(LoadCollectorConfig(l))
           /\ \A k \in Keys : LoadCollectorConfig(l)[k] =
                  IF l.config = "read" /\ k \in DOMAIN l.yaml THEN l.yaml[k] ELSE DefaultCollectorConfig[k]
<1>1. Complete(DefaultCollectorConfig)
  BY AllKeys, DefaultsGiven DEF Complete
<1>2. IsGiven(l.yaml)
  BY OutputsAssumption
<1>3. CASE l.config = "read"
  <2>1. LoadCollectorConfig(l) = Over(l.yaml, DefaultCollectorConfig)
    BY <1>3 DEF LoadCollectorConfig
  <2> QED BY <1>1, <1>2, <1>3, <2>1, OverComplete
<1>4. CASE l.config # "read"
  <2>1. LoadCollectorConfig(l) = DefaultCollectorConfig
    BY <1>4 DEF LoadCollectorConfig
  <2> QED BY <1>1, <1>4, <2>1
<1> QED BY <1>3, <1>4

LEMMA FlagsParsed ==
    ASSUME NEW l \in Launches
    PROVE  /\ Complete(ParsedFlags(l))
           /\ \A k \in Keys : ParsedFlags(l)[k] =
                  IF k \in DOMAIN l.flags THEN l.flags[k]
                  ELSE IF k = "flush" THEN durToSec(LoadCollectorConfig(l).flush)
                  ELSE LoadCollectorConfig(l)[k]
<1> DEFINE cc == LoadCollectorConfig(l)
           n == durToSec(cc.flush)
<1>1. Complete(cc) /\ IsGiven(l.flags)
  BY FileRead, OutputsAssumption
<1>2. n \in Int
  <2>1. cc.flush \in Int
    BY <1>1, RightTypes DEF Counts
  <2> HIDE DEF cc
  <2> QED BY <2>1 DEF durToSec
<1>3. ParsedFlags(l) = Over(l.flags, [cc EXCEPT !.flush = n])
  BY DEF ParsedFlags
<1> HIDE DEF cc, n
<1>4. /\ Complete([cc EXCEPT !.flush = n])
      /\ \A k \in Keys : [cc EXCEPT !.flush = n][k] = IF k = "flush" THEN n ELSE cc[k]
  BY <1>1, <1>2, FlushComplete
<1> DEFINE e == [cc EXCEPT !.flush = n]
<1> HIDE DEF e
<1>5. Complete(e) /\ \A k \in Keys : e[k] = IF k = "flush" THEN n ELSE cc[k]
  BY <1>4 DEF e
<1>6. /\ Complete(Over(l.flags, e))
      /\ \A k \in Keys : Over(l.flags, e)[k] = IF k \in DOMAIN l.flags THEN l.flags[k] ELSE e[k]
  BY <1>1, <1>5, OverComplete
<1> QED BY <1>3, <1>5, <1>6 DEF e, n, cc

\* A number that is not positive is replaced.
LEMMA Positive ==
    ASSUME NEW s, Complete(s)
    PROVE  LET d == applyDefaults(s)
           IN  /\ d.maxEvents = Sane(s.maxEvents, 1000) /\ d.bufferSize = Sane(s.bufferSize, 10000)
               /\ d.flush = Sane(s.flush, 10)
               /\ d.maxBytes = s.maxBytes /\ d.maxBackups = s.maxBackups
               /\ d.tls = s.tls /\ d.sasl = s.sasl
<1>1. DOMAIN s = Keys /\ s.maxEvents \in Int /\ s.bufferSize \in Int /\ s.flush \in Int
  <2>1. DOMAIN s = Keys
    BY DEF Complete
  <2> QED BY <2>1, RightTypes DEF Counts
<1>2. {"maxEvents", "bufferSize", "flush", "maxBytes", "maxBackups", "tls", "sasl"} \subseteq DOMAIN s
  BY <1>1, AllKeys
<1> QED BY <1>1, <1>2 DEF applyDefaults, Sane

\* What the documents promise of a setting is what the parsed flags or, if no flag
\* gives it, the file says.
LEMMA MeantKeys ==
    ASSUME NEW l \in Launches, NEW k \in Keys
    PROVE  /\ k # "flush" => Meant(l)[k] = ParsedFlags(l)[k]
           /\ k \notin DOMAIN l.flags => Meant(l)[k] = LoadCollectorConfig(l)[k]
           /\ k = "flush" => Meant(l)[k] = IF k \in DOMAIN l.flags THEN l.flags[k]
                                           ELSE LoadCollectorConfig(l)[k]
<1> DEFINE cc == LoadCollectorConfig(l)
<1>1. Meant(l)[k] = IF k \in DOMAIN l.flags THEN l.flags[k] ELSE cc[k]
  <2>1. cc[k] = IF l.config = "read" /\ k \in DOMAIN l.yaml THEN l.yaml[k] ELSE DefaultCollectorConfig[k]
    BY FileRead
  <2>2. Meant(l)[k] = IF k \in DOMAIN l.flags THEN l.flags[k]
                      ELSE IF l.config = "read" /\ k \in DOMAIN l.yaml THEN l.yaml[k]
                      ELSE DefaultCollectorConfig[k]
    BY DEF Meant
  <2> QED BY <2>1, <2>2
<1>2. k # "flush" => ParsedFlags(l)[k] = IF k \in DOMAIN l.flags THEN l.flags[k] ELSE cc[k]
  BY FlagsParsed
<1> HIDE DEF cc
<1> QED BY <1>1, <1>2 DEF cc

\* Two blocks of the file that are both enabled are refused.
LEMMA OneEnabled ==
    ASSUME NEW l \in Launches, l.config = "read", ~TwoOutputs(l),
           NEW a \in YAMLOnly, NEW b \in YAMLOnly, a # b, LoadCollectorConfig(l)[a]
    PROVE  ~LoadCollectorConfig(l)[b]
<1> DEFINE E == Enabled(LoadCollectorConfig(l))
<1> SUFFICES ASSUME LoadCollectorConfig(l)[b] PROVE FALSE
  OBVIOUS
<1>1. {a, b} \subseteq E /\ E \subseteq YAMLOnly
  BY DEF Enabled
<1>2. IsFiniteSet(YAMLOnly)
  <2>1. YAMLOnly = {"stdoutOn"} \cup {"fileOn"} \cup {"kafkaOn"}
    BY DEF YAMLOnly
  <2> QED BY <2>1, FS_Singleton, FS_Union
<1>3. IsFiniteSet(E) /\ Cardinality({a, b}) <= Cardinality(E)
  BY <1>1, <1>2, FS_Subset
<1>4. Cardinality({a, b}) = 2
  <2>1. {a, b} = {a} \cup {b}
    OBVIOUS
  <2>2. Cardinality({a}) = 1 /\ IsFiniteSet({a})
    BY FS_Singleton
  <2>3. Cardinality({a} \cup {b}) = Cardinality({a}) + 1
    BY <2>2, FS_AddElement
  <2> QED BY <2>1, <2>2, <2>3
<1>5. Cardinality(E) \in Nat
  BY <1>3, FS_CardinalityType
<1> HIDE DEF E
<1>6. Cardinality(E) > 1
  BY <1>3, <1>4, <1>5
<1> QED BY <1>6 DEF TwoOutputs, E

\* What a process that starts has of each kind of setting.
LEMMA RunsAsMeant ==
    ASSUME NEW l \in Launches, ~Refuses(l)
    PROVE  AsMeant(Configured(l), l)
<1> DEFINE cc == LoadCollectorConfig(l)
           f == ParsedFlags(l)
           m == Meant(l)
           s == OutputSettings(l)
           c == Configured(l)
           byFile == l.config = "read"
           g == IF byFile THEN [cc EXCEPT !.flush = f.flush] ELSE f
<1>1. /\ c.kind = Kind(l) /\ c.ha = f.ha /\ c.retry = withDefaults(f.sendRetry)
      /\ c.maxBytes = s.maxBytes /\ c.maxBackups = s.maxBackups /\ c.maxEvents = s.maxEvents
      /\ c.bufferSize = s.bufferSize /\ c.flush = s.flush /\ c.tls = s.tls /\ c.sasl = s.sasl
  BY DEF Configured
<1>2. Complete(cc) /\ Complete(f) /\ f.flush \in Int /\ cc.flush \in Int
  BY FileRead, FlagsParsed, RightTypes DEF Counts
<1>3. Complete(g) /\ (byFile => \A k \in Keys : g[k] = IF k = "flush" THEN f.flush ELSE cc[k]) /\ (~byFile => g = f)
  <2>1. CASE byFile
    <3>1. g = [cc EXCEPT !.flush = f.flush]
      BY <2>1
    <3> HIDE DEF cc, f, g
    <3> QED BY <1>2, <2>1, <3>1, FlushComplete
  <2>2. CASE ~byFile
    BY <1>2, <2>2
  <2> QED BY <2>1, <2>2
<1>4. s = applyDefaults(g)
  BY DEF OutputSettings
<1> HIDE DEF g
<1>5. /\ s.maxEvents = Sane(g.maxEvents, 1000) /\ s.bufferSize = Sane(g.bufferSize, 10000)
      /\ s.flush = Sane(g.flush, 10) /\ s.maxBytes = g.maxBytes /\ s.maxBackups = g.maxBackups
      /\ s.tls = g.tls /\ s.sasl = g.sasl
  BY <1>3, <1>4, Positive
<1>6. /\ m.log /\ m.ha = f.ha /\ (m.ha => m.peer) /\ m.sendRetry = f.sendRetry
  <2>1. {"log", "ha", "peer", "sendRetry"} \subseteq Keys
    BY AllKeys
  <2>2. m.log = f.log /\ m.ha = f.ha /\ m.peer = f.peer /\ m.sendRetry = f.sendRetry
    BY <2>1, MeantKeys
  <2>3. f.log /\ (f.ha => f.peer)
    BY DEF Refuses, NoPeer
  <2> QED BY <2>2, <2>3
\* Zero retries excepted.
<1>7. RetriesAnyhow(m) \/ c.retry = Retries(m.sendRetry)
  <2>1. f.sendRetry \in Int
    BY <1>2, RightTypes DEF Counts
  <2>2. DefaultCollectorConfig.sendRetry = 3
    BY DEF DefaultCollectorConfig
  <2> HIDE DEF f, m, c
  <2> QED BY <1>1, <1>6, <2>1, <2>2 DEF withDefaults, Retries, RetriesAnyhow
\* The settings of the output are those meant, unless a flag beside a file gives them.
<1>8. ASSUME NEW k \in {"maxEvents", "bufferSize", "tls", "sasl", "maxBytes", "maxBackups"},
             byFile => k \notin DOMAIN l.flags
      PROVE  g[k] = m[k]
  <2>1. k \in Keys /\ k # "flush"
    BY AllKeys
  <2> HIDE DEF cc, f, m
  <2> QED BY <1>3, <1>8, <2>1, MeantKeys DEF cc, f, m
<1>9. ASSUME NEW k \in SettingsOf(c.kind), byFile => k \notin DOMAIN l.flags
      PROVE  Runs(c, m, k)
  <2>1. k \in {"maxEvents", "bufferSize", "tls", "sasl", "maxBytes", "maxBackups"}
    <3>1. c.kind \in {"kafka", "file", "stdout"}
      BY <1>1 DEF Kind
    <3> HIDE DEF c
    <3> QED BY <1>9, <3>1 DEF SettingsOf
  <2>2. g[k] = m[k]
    BY <1>8, <1>9, <2>1
  <2>3. DefaultCollectorConfig.maxEvents = 1000 /\ DefaultCollectorConfig.bufferSize = 10000
    BY DEF DefaultCollectorConfig
  <2> HIDE DEF c, m, s
  <2>4. c[k] = IF k \in {"maxEvents", "bufferSize"} THEN Sane(g[k], DefaultCollectorConfig[k]) ELSE g[k]
    BY <1>1, <1>5, <2>1, <2>3
  <2> QED BY <2>2, <2>4 DEF Runs
\* Of the interval a fraction of a second is lost, half a second altogether.
<1>10. c.flush > 0 /\ (AgesLonger(m) \/ c.flush \in {m.flush - 1, Sane(m.flush, DefaultCollectorConfig.flush)})
  <2>1. "flush" \in Keys /\ g.flush = f.flush /\ DefaultCollectorConfig.flush = 10
    BY <1>3, AllKeys DEF DefaultCollectorConfig
  <2>2. /\ f.flush = IF "flush" \in DOMAIN l.flags THEN l.flags["flush"] ELSE durToSec(cc.flush)
        /\ m.flush = IF "flush" \in DOMAIN l.flags THEN l.flags["flush"] ELSE cc.flush
    BY <2>1, MeantKeys, FlagsParsed
  <2> HIDE DEF cc, f, m, c, s
  <2>3. durToSec(cc.flush) \in {cc.flush, cc.flush - 1} /\ (cc.flush \in {0, 1} <=> durToSec(cc.flush) = 0)
    BY <1>2 DEF durToSec
  <2>4. f.flush \in {m.flush, m.flush - 1} /\ f.flush \in Int /\ m.flush \in Int
    BY <1>2, <2>2, <2>3
  <2>5. m.flush # 1 => (m.flush > 0 <=> f.flush > 0)
    BY <1>2, <2>2, <2>3
  <2>6. c.flush = IF f.flush > 0 THEN f.flush ELSE 10
    BY <1>1, <1>5, <2>1 DEF Sane
  <2> QED BY <2>1, <2>4, <2>5, <2>6 DEF Sane, AgesLonger
\* One output.
<1>11. Selected(c, l)
  <2>1. CASE byFile
    <3>1. \A k \in YAMLOnly : m[k] = cc[k] /\ cc[k] \in BOOLEAN
      <4>1. \A k \in YAMLOnly : k \in Keys /\ k \notin DOMAIN l.flags /\ k # "flush"
        BY AllKeys, OutputsAssumption DEF YAMLOnly
      <4>2. \A k \in YAMLOnly : k \in Keys \ (Counts \cup {"mechanism"})
        BY AllKeys DEF YAMLOnly, Counts
      <4> QED BY <1>2, <4>1, <4>2, MeantKeys, RightTypes
    <3>2. \A a, b \in YAMLOnly : a # b /\ cc[a] => ~cc[b]
      BY <2>1, OneEnabled DEF Refuses
    <3>3. c.kind = IF cc.kafkaOn THEN "kafka" ELSE IF cc.fileOn THEN "file" ELSE "stdout"
      BY <1>1, <2>1 DEF Kind
    <3> HIDE DEF c, m, cc
    <3>4. /\ m.kafkaOn = cc.kafkaOn /\ m.fileOn = cc.fileOn /\ m.stdoutOn = cc.stdoutOn
          /\ cc.kafkaOn \in BOOLEAN /\ cc.fileOn \in BOOLEAN /\ cc.stdoutOn \in BOOLEAN
      BY <3>1 DEF YAMLOnly
    <3>5. (cc.kafkaOn => ~cc.fileOn /\ ~cc.stdoutOn) /\ (cc.fileOn => ~cc.stdoutOn)
      BY <3>2 DEF YAMLOnly
    <3>6. (c.kind = "kafka" <=> m.kafkaOn) /\ (c.kind = "file" <=> m.fileOn) /\ (m.stdoutOn => c.kind = "stdout")
      BY <3>3, <3>4, <3>5
    <3> QED BY <2>1, <3>6 DEF Selected, m
  <2>2. CASE ~byFile
    <3>1. m.brokers = f.brokers /\ m.path = f.path
      BY AllKeys, MeantKeys
    <3>2. c.kind = IF f.brokers THEN "kafka" ELSE IF f.path THEN "file" ELSE "stdout"
      BY <1>1, <2>2 DEF Kind
    <3> HIDE DEF c, m, f
    <3> QED BY <2>2, <3>1, <3>2 DEF Selected, m
  <2> QED BY <2>1, <2>2
<1>12. m.log /\ c.ha = m.ha /\ (m.ha => m.peer)
  BY <1>1, <1>6
<1>13. \A k \in SettingsOf(c.kind) : FlagIgnored(l, k) \/ Runs(c, m, k)
  BY <1>9 DEF FlagIgnored
<1> HIDE DEF c
<1>14. AsMeant(c, l)
  <2> HIDE DEF m
  <2> QED BY <1>7, <1>10, <1>11, <1>12, <1>13 DEF AsMeant, m
<1> QED BY <1>14 DEF c

\* For any YAML files and flags: no process runs with other settings than the
\* documents promise (main.go:50-355), but for an output's flags beside a file, zero
\* retries and an interval of half a second, where the code departs from them.
THEOREM AlwaysLaunchedAsMeant == Spec => LaunchedAsMeant
<1>1. ASSUME NEW l \in Launches, Launch(l)
      PROVE  l.config # "broken" /\ AsMeant(conf', l)
  <2>1. ~Refuses(l) /\ conf' = Configured(l)
    BY <1>1 DEF Launch
  <2>2. AsMeant(conf', l)
    BY <2>1, RunsAsMeant
  <2> QED BY <2>1, <2>2 DEF Refuses
<1>2. [Next]_vars => [\A l \in Launches : Launch(l) => l.config # "broken" /\ AsMeant(conf', l)]_vars
  BY <1>1
<1> QED BY <1>2, PTL DEF Spec, LaunchedAsMeant

-----------------------------------------------------------------------------
(* The rotating file.                                                        *)

\* What Bytes adds up, as a function along the content.
Sums(content, f) ==
    /\ f = [i \in 0..Len(content) |-> f[i]]
    /\ f[0] = 0
    /\ \A i \in 1..Len(content) : f[i] = f[i - 1] + content[i].bytes

Pieces == UNION {{Piece(n), Torn(n), Newline(n)} : n \in 1..MaxMessages}

LEMMA PieceBytes == \A p \in Pieces : p.bytes \in Nat
BY RotateAssumption DEF Pieces, Piece, Torn, Newline

\* Bytes is the last of these sums.
LEMMA BytesSums ==
    ASSUME NEW content \in Seq(Pieces)
    PROVE  \E f : Sums(content, f) /\ Bytes(content) = f[Len(content)]
<1> DEFINE n == Len(content)
           step == [q \in (1..n) \X Int |-> q[2] + content[q[1]].bytes]
<1>1. n \in Nat /\ \A i \in 1..n : content[i] \in Pieces
  BY LenProperties, ElementOfSeq
<1>2. step \in [(1..n) \X Int -> Int]
  BY <1>1, PieceBytes
<1>3. HasRun(n, Int, 0, step)
  <2>1. 0 \in Int /\ n \in Nat
    BY <1>1
  <2> DEFINE I == Int
  <2>2. step \in [(1..n) \X I -> I] /\ 0 \in I
    BY <1>2
  <2> HIDE DEF n, step, I
  <2>3. HasRun(n, I, 0, step)
    BY <2>1, <2>2, Recursion
  <2> QED BY <2>3 DEF I
<1>4. PICK f \in [0..n -> Int] : f[0] = 0 /\ \A i \in 1..n : f[i] = step[<<i, f[i - 1]>>]
  BY <1>3 DEF HasRun
<1>5. ASSUME NEW i \in 1..n PROVE f[i] = f[i - 1] + content[i].bytes
  <2>1. i - 1 \in 0..n
    OBVIOUS
  <2>2. f[i - 1] \in Int
    BY <1>4, <2>1
  <2>3. step[<<i, f[i - 1]>>] = f[i - 1] + content[i].bytes
    BY <2>2
  <2> QED BY <1>4, <2>3
<1> HIDE DEF n, step
<1>6. f = [i \in 0..n |-> IF i = 0 THEN 0 ELSE f[i - 1] + content[i].bytes]
  <2>1. f = [i \in 0..n |-> f[i]]
    BY <1>4
  <2>2. ASSUME NEW i \in 0..n PROVE f[i] = IF i = 0 THEN 0 ELSE f[i - 1] + content[i].bytes
    <3>1. i # 0 => i \in 1..n
      BY <1>1
    <3> QED BY <1>4, <1>5, <3>1
  <2> QED BY <2>1, <2>2
<1> DEFINE F(g) == g = [i \in 0..n |-> IF i = 0 THEN 0 ELSE g[i - 1] + content[i].bytes]
<1>7. \E g : F(g)
  BY <1>6
<1> DEFINE h == CHOOSE g : F(g)
<1>8. F(h)
  BY <1>7
<1>9. Bytes(content) = h[n]
  BY DEF Bytes, n
<1> HIDE DEF h
<1>10. Sums(content, h)
  <2>1. h = [i \in 0..n |-> IF i = 0 THEN 0 ELSE h[i - 1] + content[i].bytes]
    BY <1>8
  <2>2. h[0] = 0 /\ \A i \in 1..n : h[i] = h[i - 1] + content[i].bytes
    BY <1>1, <2>1
  <2> QED BY <2>1, <2>2 DEF Sums, n
<1> QED BY <1>9, <1>10 DEF n

LEMMA BytesAppend ==
    ASSUME NEW content \in Seq(Pieces), NEW p \in Pieces
    PROVE  Bytes(Append(content, p)) = Bytes(content) + p.bytes
<1> DEFINE longer == Append(content, p)
           n == Len(content)
<1>1. /\ longer \in Seq(Pieces) /\ Len(longer) = n + 1 /\ longer[n + 1] = p /\ n \in Nat
      /\ \A i \in 1..n : longer[i] = content[i]
  BY AppendProperties, LenProperties
<1>2. PICK f : Sums(content, f) /\ Bytes(content) = f[n]
  BY BytesSums
<1> HIDE DEF longer
<1>3. PICK g : Sums(longer, g) /\ Bytes(longer) = g[n + 1]
  BY <1>1, BytesSums
<1>4. f[0] = 0 /\ \A i \in 1..n : f[i] = f[i - 1] + content[i].bytes
  BY <1>2 DEF Sums
<1>5. g[0] = 0 /\ \A i \in 1..(n + 1) : g[i] = g[i - 1] + longer[i].bytes
  BY <1>1, <1>3 DEF Sums
<1> DEFINE T == {i \in 0..n : f[i] = g[i]}
<1>6. 0 \in T
  BY <1>1, <1>4, <1>5
<1>7. ASSUME NEW i \in 1..n, i - 1 \in T PROVE i \in T
  <2>1. f[i] = f[i - 1] + content[i].bytes /\ g[i] = g[i - 1] + longer[i].bytes
    BY <1>1, <1>4, <1>5
  <2>2. longer[i] = content[i] /\ f[i - 1] = g[i - 1] /\ i \in 0..n
    BY <1>1, <1>7
  <2> QED BY <2>1, <2>2
<1>8. \A i \in 0..n : i \in T
  <2> HIDE DEF T, n
  <2> QED BY <1>1, <1>6, <1>7, UpTo
<1>9. f[n] = g[n]
  BY <1>1, <1>8
<1>10. g[n + 1] = g[n] + p.bytes
  <2>1. n + 1 \in 1..(n + 1) /\ (n + 1) - 1 = n
    BY <1>1
  <2> QED BY <1>1, <1>5, <2>1
<1> QED BY <1>2, <1>3, <1>9, <1>10 DEF longer

\* Adjacent stretches of w, one after another, are a stretch of w.
LEMMA Flattened ==
    ASSUME NEW w \in Seq(Pieces), NEW k \in Nat \ {0}, NEW bs, Len(bs) = k, NEW cut \in [0..k -> 0..Len(w)],
           \A i \in 1..k : cut[i - 1] <= cut[i] /\ bs[i] = SubSeq(w, cut[i - 1] + 1, cut[i])
    PROVE  FlattenSeq(bs) = SubSeq(w, cut[0] + 1, cut[k]) /\ cut[0] <= cut[k]
<1> DEFINE F(g) == g = [i \in 1..k |-> IF i = 1 THEN bs[i] ELSE g[i - 1] \o bs[i]]
           upTo == [i \in 1..k |-> SubSeq(w, cut[0] + 1, cut[i])]
           T == {i \in 0..k : cut[0] <= cut[i]}
<1>1. Len(w) \in Nat /\ \A i \in 0..k : cut[i] \in 0..Len(w)
  BY LenProperties
<1>2. \A i \in 0..k : cut[0] <= cut[i]
  <2>1. 0 \in T
    BY <1>1
  <2>2. ASSUME NEW i \in 1..k, i - 1 \in T PROVE i \in T
    <3>1. i - 1 \in 0..k /\ i \in 0..k /\ 0 \in 0..k
      OBVIOUS
    <3> QED BY <1>1, <2>2, <3>1
  <2>3. \A i \in 0..k : i \in T
    <3> HIDE DEF T
    <3> QED BY <2>1, <2>2, UpTo
  <2> QED BY <2>3
<1>3. ASSUME NEW i \in 1..k, i # 1
      PROVE  SubSeq(w, cut[0] + 1, cut[i]) = SubSeq(w, cut[0] + 1, cut[i - 1]) \o bs[i]
  <2>1. i - 1 \in 0..k /\ i \in 0..k /\ 0 \in 0..k
    OBVIOUS
  <2>2. /\ cut[0] + 1 \in 1..Len(w) + 1 /\ cut[i - 1] \in (cut[0] + 1) - 1..Len(w)
        /\ cut[i] \in cut[i - 1]..Len(w)
    <3> DEFINE a == cut[0]
               b == cut[i - 1]
               c == cut[i]
               n == Len(w)
    <3>1. a \in 0..n /\ b \in 0..n /\ c \in 0..n /\ n \in Nat
      BY <1>1, <2>1
    <3>2. a <= b /\ b <= c
      BY <1>2, <2>1
    <3> HIDE DEF a, b, c, n
    <3>3. a + 1 \in 1..n + 1 /\ b \in (a + 1) - 1..n /\ c \in b..n
      BY <3>1, <3>2
    <3> QED BY <3>3 DEF a, b, c, n
  <2>3. SubSeq(w, cut[0] + 1, cut[i - 1]) \o SubSeq(w, cut[i - 1] + 1, cut[i]) = SubSeq(w, cut[0] + 1, cut[i])
    BY <2>2, ConcatAdjacentSubSeq
  <2> QED BY <2>3
<1>4. F(upTo)
  <2>1. ASSUME NEW i \in 1..k PROVE upTo[i] = IF i = 1 THEN bs[i] ELSE upTo[i - 1] \o bs[i]
    <3>1. CASE i = 1
      BY <3>1
    <3>2. CASE i # 1
      <4>1. i - 1 \in 1..k
        BY <3>2
      <4> QED BY <1>3, <3>2, <4>1
    <3> QED BY <3>1, <3>2
  <2> QED BY <2>1
<1> DEFINE h == CHOOSE g : F(g)
<1>5. F(h)
  BY <1>4
<1>6. FlattenSeq(bs) = h[k]
  BY DEF FlattenSeq
<1> DEFINE U == {i \in 0..k : i = 0 \/ h[i] = upTo[i]}
<1> HIDE DEF h, upTo
<1>7. ASSUME NEW i \in 1..k, i - 1 \in U PROVE i \in U
  <2>1. /\ h[i] = IF i = 1 THEN bs[i] ELSE h[i - 1] \o bs[i]
        /\ upTo[i] = IF i = 1 THEN bs[i] ELSE upTo[i - 1] \o bs[i]
    BY <1>4, <1>5
  <2>2. i = 1 \/ h[i - 1] = upTo[i - 1]
    BY <1>7
  <2> QED BY <2>1, <2>2
<1>8. \A i \in 0..k : i \in U
  <2>1. 0 \in U
    OBVIOUS
  <2> HIDE DEF U
  <2> QED BY <2>1, <1>7, UpTo
<1>9. h[k] = upTo[k]
  BY <1>8
<1>10. k \in 0..k /\ k \in 1..k
  OBVIOUS
<1> QED BY <1>2, <1>6, <1>9, <1>10 DEF upTo

\* The end of w is a suffix of it.
LEMMA EndIsSuffix ==
    ASSUME NEW w \in Seq(Pieces), NEW a \in 0..Len(w)
    PROVE  IsSuffix(SubSeq(w, a + 1, Len(w)), w)
<1> DEFINE n == Len(w)
           s == SubSeq(w, a + 1, n)
           rs == Reverse(s)
           rw == Reverse(w)
           back == [i \in 1..(n - a) |-> w[(n - i) + 1]]
<1>1. n \in Nat /\ a \in Nat /\ a <= n /\ \A i \in 1..n : w[i] \in Pieces
  BY LenProperties, ElementOfSeq
<1>2. /\ s \in Seq(Pieces) /\ Len(s) = n - a
      /\ \A i \in 1..(n - a) : s[i] = w[a + i]
  <2>1. \A i \in (a + 1)..n : w[i] \in Pieces
    BY <1>1
  <2>2. /\ s \in Seq(Pieces) /\ Len(s) = IF a + 1 <= n THEN n - (a + 1) + 1 ELSE 0
        /\ \A i \in 1..(n - (a + 1) + 1) : s[i] = w[(a + 1) + i - 1]
    <3>1. a + 1 \in Int /\ n \in Int
      BY <1>1
    <3> HIDE DEF n
    <3> QED BY <2>1, <3>1, SubSeqProperties
  <2> HIDE DEF s, n
  <2>3. Len(s) = n - a
    BY <1>1, <2>2
  <2>4. ASSUME NEW i \in 1..(n - a) PROVE s[i] = w[a + i]
    <3>1. i \in 1..(n - (a + 1) + 1) /\ (a + 1) + i - 1 = a + i
      BY <1>1
    <3> QED BY <2>2, <3>1
  <2> QED BY <2>2, <2>3, <2>4
<1> HIDE DEF s, n
<1>3. /\ rw = [i \in 1..n |-> w[(n - i) + 1]] /\ rw \in Seq(Pieces) /\ Len(rw) = n
      /\ \A i \in 1..n : rw[i] = w[(n - i) + 1]
  <2>1. rw = [i \in 1..n |-> w[(n - i) + 1]]
    BY DEF Reverse, n
  <2>2. \A i \in 1..n : w[(n - i) + 1] \in Pieces
    BY <1>1
  <2> QED BY <1>1, <2>1, <2>2
<1>4. /\ rs \in Seq(Pieces) /\ Len(rs) = n - a
      /\ \A i \in 1..(n - a) : rs[i] = w[(n - i) + 1]
  <2>1. rs = [i \in 1..(n - a) |-> s[((n - a) - i) + 1]]
    BY <1>2 DEF Reverse
  <2>2. ASSUME NEW i \in 1..(n - a) PROVE s[((n - a) - i) + 1] = w[(n - i) + 1] /\ w[(n - i) + 1] \in Pieces
    <3>1. ((n - a) - i) + 1 \in 1..(n - a) /\ a + (((n - a) - i) + 1) = (n - i) + 1 /\ (n - i) + 1 \in 1..n
      BY <1>1
    <3> QED BY <1>1, <1>2, <3>1
  <2>3. n - a \in Nat
    BY <1>1
  <2> QED BY <2>1, <2>2, <2>3
<1> HIDE DEF rs, rw
<1>5. SubSeq(rs, 1, Len(rs)) = rs
  BY <1>4, SubSeqFull
<1>6. SubSeq(rw, 1, n - a) = rs
  <2>1. \A i \in 1..(n - a) : rw[i] \in Pieces /\ rw[i] = rs[i]
    BY <1>1, <1>3, <1>4
  <2>2. /\ SubSeq(rw, 1, n - a) \in Seq(Pieces)
        /\ Len(SubSeq(rw, 1, n - a)) = IF 1 <= n - a THEN (n - a) - 1 + 1 ELSE 0
        /\ \A i \in 1..((n - a) - 1 + 1) : SubSeq(rw, 1, n - a)[i] = rw[1 + i - 1]
    <3>1. 1 \in Int /\ n - a \in Int
      BY <1>1
    <3> QED BY <2>1, <3>1, SubSeqProperties
  <2> DEFINE v == SubSeq(rw, 1, n - a)
  <2>3. Len(v) = n - a /\ \A i \in 1..(n - a) : v[i] = rs[i]
    BY <1>1, <2>1, <2>2
  <2> HIDE DEF v
  <2>4. v \in Seq(Pieces)
    BY <2>2 DEF v
  <2>5. v = rs
    BY <1>4, <2>3, <2>4, SeqEqual
  <2> QED BY <2>5 DEF v
<1>7. IsPrefix(rs, rw)
  BY <1>1, <1>3, <1>4, <1>5, <1>6 DEF IsPrefix
<1> QED BY <1>7 DEF IsSuffix, rs, rw, s, n

\* The files of disk d divide the end of w among them: the active file begins behind
\* start[0], the backup .i behind start[i].
Divided(d, w, start) ==
    /\ start \in [0..Len(d.backups) -> 0..Len(w)]
    /\ d.active = SubSeq(w, start[0] + 1, Len(w))
    /\ \A i \in 1..Len(d.backups) :
           start[i] <= start[i - 1] /\ d.backups[i] = SubSeq(w, start[i] + 1, start[i - 1])

\* The files hold the end of w, and all of it as long as there are less than l backups.
InOrder(d, w, l) ==
    \E start : /\ Divided(d, w, start)
               /\ l = 0 \/ Len(d.backups) < l => start[Len(d.backups)] = 0

IsDisk(d) ==
    /\ d = [active |-> d.active, backups |-> d.backups, open |-> d.open, size |-> d.size]
    /\ d.active \in Seq(Pieces) /\ d.backups \in Seq(Seq(Pieces))

\* With a negative l nothing is said of the order.
Kept(d, w, l) == IsDisk(d) /\ (l >= 0 => InOrder(d, w, l))

SizeKnown(d) == d.open => d.size = Bytes(d.active)

\* Then the files one after another are that end.
LEMMA FilesInOrder ==
    ASSUME NEW d, NEW w \in Seq(Pieces), d.backups \in Seq(Seq(Pieces)), NEW start, Divided(d, w, start)
    PROVE  /\ start[Len(d.backups)] \in 0..Len(w)
           /\ FlattenSeq(Reverse(d.backups)) \o d.active = SubSeq(w, start[Len(d.backups)] + 1, Len(w))
<1> DEFINE k == Len(d.backups)
           n == Len(w)
           r == Reverse(d.backups)
           cut == [i \in 0..k |-> start[k - i]]
<1>1. /\ k \in Nat /\ n \in Nat /\ \A i \in 0..k : start[i] \in 0..n
      /\ d.active = SubSeq(w, start[0] + 1, n)
      /\ \A i \in 1..k : start[i] <= start[i - 1] /\ d.backups[i] = SubSeq(w, start[i] + 1, start[i - 1])
  BY LenProperties DEF Divided
<1>2. Len(r) = k /\ r = [i \in 1..k |-> d.backups[(k - i) + 1]]
  BY <1>1 DEF Reverse
<1> HIDE DEF k, n, r
<1>3. CASE k = 0
  <2>1. FlattenSeq(r) = <<>>
    BY <1>2, <1>3 DEF FlattenSeq
  <2>2. d.active \in Seq(Pieces)
    <3>1. \A i \in (start[0] + 1)..n : w[i] \in Pieces
      BY <1>1, ElementOfSeq DEF n
    <3> QED BY <1>1, <3>1, SubSeqProperties
  <2>3. <<>> \o d.active = d.active
    BY <2>2, ConcatEmptySeq
  <2> QED BY <1>1, <1>3, <2>1, <2>3 DEF k, n, r
<1>4. CASE k # 0
  <2>1. k \in Nat \ {0} /\ cut \in [0..k -> 0..n]
    <3>1. \A i \in 0..k : k - i \in 0..k
      BY <1>1
    <3> QED BY <1>1, <1>4, <3>1
  <2>2. ASSUME NEW i \in 1..k
        PROVE  cut[i - 1] <= cut[i] /\ r[i] = SubSeq(w, cut[i - 1] + 1, cut[i])
    <3> DEFINE j == (k - i) + 1
    <3>1. j \in 1..k /\ j - 1 = k - i /\ k - (i - 1) = j /\ i \in 0..k /\ i - 1 \in 0..k
      BY <1>1
    <3>2. cut[i - 1] = start[j] /\ cut[i] = start[j - 1] /\ r[i] = d.backups[j]
      BY <1>2, <3>1
    <3> HIDE DEF j, cut
    <3> QED BY <1>1, <3>1, <3>2
  <2>3. cut[0] = start[k] /\ cut[k] = start[0]
    BY <1>1
  <2> HIDE DEF cut
  <2>4. FlattenSeq(r) = SubSeq(w, cut[0] + 1, cut[k]) /\ cut[0] <= cut[k]
    <3>1. \A i \in 1..k : cut[i - 1] <= cut[i] /\ r[i] = SubSeq(w, cut[i - 1] + 1, cut[i])
      BY <2>2
    <3>2. cut \in [0..k -> 0..Len(w)] /\ Len(r) = k
      BY <1>2, <2>1 DEF n
    <3> QED BY <2>1, <3>1, <3>2, Flattened, Zenon
  <2>5. start[k] \in 0..n /\ start[0] \in 0..n /\ start[k] <= start[0]
    BY <1>1, <2>3, <2>4
  <2>6. SubSeq(w, start[k] + 1, start[0]) \o SubSeq(w, start[0] + 1, n) = SubSeq(w, start[k] + 1, n)
    <3> DEFINE a == start[k]
               b == start[0]
    <3>1. a + 1 \in 1..n + 1 /\ b \in (a + 1) - 1..n /\ n \in b..n
      <4>1. a \in 0..n /\ b \in 0..n /\ a <= b
        BY <2>5
      <4> HIDE DEF a, b
      <4> QED BY <1>1, <4>1
    <3> HIDE DEF a, b
    <3>2. SubSeq(w, a + 1, b) \o SubSeq(w, b + 1, n) = SubSeq(w, a + 1, n)
      BY <3>1, ConcatAdjacentSubSeq DEF n
    <3> QED BY <3>2 DEF a, b
  <2> QED BY <1>1, <2>3, <2>4, <2>5, <2>6 DEF k, n, r
<1> QED BY <1>3, <1>4

\* Where a divided w ends, and that nothing comes before its beginning.
LEMMA Boundaries ==
    ASSUME NEW d, NEW w \in Seq(Pieces), NEW start, Divided(d, w, start), d.backups \in Seq(Seq(Pieces))
    PROVE  Len(w) \in Nat /\ Len(d.backups) \in Nat /\ \A i \in 0..Len(d.backups) : start[i] \in 0..Len(w)
<1> DEFINE k == Len(d.backups)
           n == Len(w)
<1>1. k \in Nat /\ n \in Nat
  BY LenProperties
<1>2. start \in [0..k -> 0..n]
  BY DEF Divided
<1> HIDE DEF k, n
<1>3. \A i \in 0..k : start[i] \in 0..n
  BY <1>2
<1> QED BY <1>1, <1>3 DEF k, n

\* A piece that is written to the active file comes last.
LEMMA AppendFields ==
    ASSUME NEW d, IsDisk(d), NEW p \in Pieces
    PROVE  /\ IsDisk(Appended(d, p))
           /\ Appended(d, p).active = Append(d.active, p)
           /\ Appended(d, p).backups = d.backups
           /\ SizeKnown(d) /\ d.open => SizeKnown(Appended(d, p))
<1> DEFINE e == Appended(d, p)
<1>1. /\ d = [active |-> d.active, backups |-> d.backups, open |-> d.open, size |-> d.size]
      /\ d.active \in Seq(Pieces) /\ d.backups \in Seq(Seq(Pieces))
  BY DEF IsDisk
<1>2. /\ e = [active |-> e.active, backups |-> e.backups, open |-> e.open, size |-> e.size]
      /\ e.active = Append(d.active, p) /\ e.backups = d.backups /\ e.open = d.open
      /\ e.size = d.size + p.bytes
  <2> DEFINE a == d.active
             b == d.backups
             o == d.open
             z == d.size
  <2>1. d = [active |-> a, backups |-> b, open |-> o, size |-> z]
    BY <1>1
  <2>2. e = [d EXCEPT !.active = Append(a, p), !.size = z + p.bytes]
    BY DEF Appended
  <2> HIDE DEF a, b, o, z, e
  <2>3. e = [active |-> Append(a, p), backups |-> b, open |-> o, size |-> z + p.bytes]
    BY <2>1, <2>2
  <2>4. e = [active |-> e.active, backups |-> e.backups, open |-> e.open, size |-> e.size]
        /\ e.active = Append(a, p) /\ e.backups = b /\ e.open = o /\ e.size = z + p.bytes
    BY <2>3
  <2> QED BY <2>4 DEF a, b, o, z
<1>3. e.active \in Seq(Pieces) /\ e.backups \in Seq(Seq(Pieces))
  BY <1>1, <1>2, AppendProperties
<1> HIDE DEF e
<1>4. SizeKnown(d) /\ d.open => SizeKnown(e)
  <2>1. Bytes(Append(d.active, p)) = Bytes(d.active) + p.bytes
    BY <1>1, BytesAppend
  <2>2. ASSUME d.size = Bytes(d.active) PROVE e.size = Bytes(e.active)
    BY <1>2, <2>1, <2>2
  <2> QED BY <2>2, Zenon DEF SizeKnown
<1>5. IsDisk(e)
  BY <1>2, <1>3 DEF IsDisk
<1> QED BY <1>2, <1>4, <1>5 DEF e

LEMMA AppendInOrder ==
    ASSUME NEW d, IsDisk(d), NEW w \in Seq(Pieces), NEW l, InOrder(d, w, l), NEW p \in Pieces
    PROVE  InOrder(Appended(d, p), Append(w, p), l)
<1> DEFINE e == Appended(d, p)
           v == Append(w, p)
           n == Len(w)
           k == Len(d.backups)
<1>1. d.active \in Seq(Pieces) /\ d.backups \in Seq(Seq(Pieces))
  BY DEF IsDisk
<1>2. PICK start : Divided(d, w, start) /\ (l = 0 \/ Len(d.backups) < l => start[Len(d.backups)] = 0)
  BY DEF InOrder
<1>3. e.active = Append(d.active, p) /\ e.backups = d.backups
  BY AppendFields
<1>4. v \in Seq(Pieces) /\ Len(v) = n + 1 /\ v[n + 1] = p /\ \A i \in 1..n : v[i] = w[i]
  BY AppendProperties
<1>5. n \in Nat /\ k \in Nat /\ \A i \in 0..k : start[i] \in 0..n
  BY <1>1, <1>2, Boundaries
<1>6. ASSUME NEW a \in 0..n, NEW b \in 0..n PROVE SubSeq(v, a + 1, b) = SubSeq(w, a + 1, b)
  <2> DEFINE x == SubSeq(v, a + 1, b)
             y == SubSeq(w, a + 1, b)
  <2>1. \A i \in (a + 1)..b : w[i] \in Pieces /\ v[i] = w[i]
    BY <1>4, <1>5, ElementOfSeq
  <2>2. a + 1 \in Int /\ b \in Int
    BY <1>5
  <2>3. /\ y \in Seq(Pieces) /\ Len(y) = IF a + 1 <= b THEN b - (a + 1) + 1 ELSE 0
        /\ \A i \in 1..(b - (a + 1) + 1) : y[i] = w[(a + 1) + i - 1]
    BY <2>1, <2>2, SubSeqProperties
  <2>4. /\ x \in Seq(Pieces) /\ Len(x) = IF a + 1 <= b THEN b - (a + 1) + 1 ELSE 0
        /\ \A i \in 1..(b - (a + 1) + 1) : x[i] = v[(a + 1) + i - 1]
    <3>1. \A i \in (a + 1)..b : v[i] \in Pieces
      BY <2>1
    <3> HIDE DEF v
    <3> QED BY <2>2, <3>1, SubSeqProperties
  <2> HIDE DEF x, y, v
  <2>5. ASSUME NEW i \in 1..Len(x) PROVE x[i] = y[i]
    <3>1. i \in 1..(b - (a + 1) + 1) /\ (a + 1) + i - 1 \in (a + 1)..b
      BY <1>5, <2>2, <2>4
    <3> QED BY <2>1, <2>3, <2>4, <3>1
  <2> QED BY <2>3, <2>4, <2>5, SeqEqual DEF x, y
<1>7. Append(d.active, p) = SubSeq(v, start[0] + 1, n + 1)
  <2> DEFINE a == start[0]
  <2>1. a \in 0..n /\ d.active = SubSeq(w, a + 1, n)
    BY <1>2, <1>5 DEF Divided
  <2> HIDE DEF a, v, n
  <2>2. SubSeq(v, a + 1, n + 1) = SubSeq(v, a + 1, n) \o <<v[n + 1]>>
    <3>1. a + 1 \in 1..Len(v) /\ n + 1 \in (a + 1)..Len(v) /\ (n + 1) - 1 = n
      BY <1>4, <1>5, <2>1
    <3> QED BY <1>4, <3>1, SubSeqRecursiveSecond
  <2>3. SubSeq(v, a + 1, n) = d.active
    <3>1. n \in 0..n
      BY <1>5
    <3> QED BY <1>6, <2>1, <3>1
  <2>4. Append(d.active, p) = d.active \o <<p>>
    BY <1>1, AppendIsConcat
  <2> QED BY <1>4, <2>2, <2>3, <2>4 DEF a
<1> HIDE DEF e, v
<1>8. Divided(e, v, start)
  <2>1. start \in [0..k -> 0..n + 1]
    BY <1>2, <1>5 DEF Divided
  <2>2. ASSUME NEW i \in 1..k
        PROVE  start[i] <= start[i - 1] /\ d.backups[i] = SubSeq(v, start[i] + 1, start[i - 1])
    <3>1. start[i] <= start[i - 1] /\ d.backups[i] = SubSeq(w, start[i] + 1, start[i - 1])
      BY <1>2 DEF Divided
    <3>2. start[i] \in 0..n /\ start[i - 1] \in 0..n
      BY <1>5
    <3> QED BY <1>6, <3>1, <3>2
  <2> QED BY <1>3, <1>4, <1>7, <2>1, <2>2 DEF Divided
<1> QED BY <1>2, <1>3, <1>8 DEF InOrder, e, v

LEMMA AppendKeeps ==
    ASSUME NEW d, NEW w \in Seq(Pieces), NEW l, Kept(d, w, l), NEW p \in Pieces
    PROVE  /\ Append(w, p) \in Seq(Pieces)
           /\ Kept(Appended(d, p), Append(w, p), l)
           /\ SizeKnown(d) /\ d.open => SizeKnown(Appended(d, p))
<1>1. Append(w, p) \in Seq(Pieces)
  BY AppendProperties
<1>2. IsDisk(d) /\ (l >= 0 => InOrder(d, w, l))
  BY DEF Kept
<1>3. IsDisk(Appended(d, p)) /\ (SizeKnown(d) /\ d.open => SizeKnown(Appended(d, p)))
  BY <1>2, AppendFields, Zenon
<1>4. l >= 0 => InOrder(Appended(d, p), Append(w, p), l)
  BY <1>2, AppendInOrder
<1> QED BY <1>1, <1>3, <1>4, Zenon DEF Kept

\* A limit of m backups is no less than the least limit l there has been.
Allows(m, l) ==
    /\ m \in Int /\ l \in Int
    /\ m < 0 => l < 0
    /\ m > 0 /\ l >= 0 => l > 0 /\ l <= m

\* The backups that a limit of m leaves of all are the first ones, as many as it allows.
First(kept, all, m) ==
    /\ Len(kept) \in 1..Len(all)
    /\ m = 0 => Len(kept) = Len(all)
    /\ Len(kept) < Len(all) => m <= Len(kept)
    /\ \A i \in 1..Len(kept) : kept[i] = all[i]

LEMMA ShiftBackups ==
    ASSUME NEW all \in Seq(Seq(Pieces)), Len(all) > 0, NEW m \in Nat
    PROVE  LET kept == IF m = 0 THEN all ELSE SubSeq(all, 1, Min({m, Len(all)}))
           IN  kept \in Seq(Seq(Pieces)) /\ First(kept, all, m)
<1> DEFINE n == Len(all)
           kept == IF m = 0 THEN all ELSE SubSeq(all, 1, Min({m, n}))
<1>1. n \in Nat /\ n > 0
  BY LenProperties
<1>2. CASE m = 0
  <2>1. kept = all
    BY <1>2
  <2> HIDE DEF kept
  <2> QED BY <1>1, <1>2, <2>1 DEF First, kept
<1>3. CASE m # 0
  <2> DEFINE S == {m, n}
             j == IF m < n THEN m ELSE n
  <2>1. S \subseteq Int /\ j \in S /\ \A x \in S : j <= x
    BY <1>1
  <2>2. j \in 1..n /\ (j < n => m <= j)
    BY <1>1, <1>3
  <2> HIDE DEF S, j, n
  <2>3. Min(S) = j
    BY <2>1, MinIs
  <2>4. kept = SubSeq(all, 1, j)
    BY <1>3, <2>3 DEF S
  <2> HIDE DEF kept
  <2>5. \A i \in 1..j : all[i] \in Seq(Pieces)
    BY <1>1, <2>2, ElementOfSeq DEF n
  <2>6. /\ kept \in Seq(Seq(Pieces)) /\ Len(kept) = IF 1 <= j THEN j - 1 + 1 ELSE 0
        /\ \A i \in 1..(j - 1 + 1) : kept[i] = all[1 + i - 1]
    <3>1. 1 \in Int /\ j \in Int
      BY <1>1, <2>2
    <3> QED BY <2>4, <2>5, <3>1, SubSeqProperties
  <2>7. Len(kept) = j /\ \A i \in 1..j : kept[i] = all[i]
    <3>1. j - 1 + 1 = j /\ 1 <= j /\ \A i \in 1..j : i \in 1..(j - 1 + 1) /\ 1 + i - 1 = i
      BY <1>1, <2>2
    <3> QED BY <2>6, <3>1
  <2>8. First(kept, all, m)
    BY <1>1, <1>3, <2>2, <2>7 DEF First, n
  <2> QED BY <2>6, <2>8 DEF kept, n
<1> QED BY <1>2, <1>3

LEMMA ShiftFields ==
    ASSUME NEW d, IsDisk(d), NEW m \in Int
    PROVE  /\ IsDisk(Shifted(d, m)) /\ Shifted(d, m).active = <<>>
           /\ m >= 0 => First(Shifted(d, m).backups, <<d.active>> \o d.backups, m)
<1> DEFINE a == d.active
           b == d.backups
           o == d.open
           z == d.size
           e == Shifted(d, m)
           all == <<a>> \o b
           over == IF b = <<>> THEN <<a>> ELSE [b EXCEPT ![1] = a]
           kept == IF m = 0 THEN all ELSE SubSeq(all, 1, Min({m, Len(all)}))
           c == IF m < 0 THEN over ELSE kept
<1>1. d = [active |-> a, backups |-> b, open |-> o, size |-> z] /\ a \in Seq(Pieces) /\ b \in Seq(Seq(Pieces))
  BY DEF IsDisk
<1>2. e = [d EXCEPT !.backups = c, !.active = <<>>]
  <2>1. CASE m < 0
    BY <2>1 DEF Shifted, Overwritten
  <2>2. CASE ~(m < 0)
    BY <2>2 DEF Shifted
  <2> QED BY <2>1, <2>2
<1>3. c \in Seq(Seq(Pieces)) /\ (m >= 0 => First(c, all, m))
  <2>1. CASE m < 0
    <3>1. over \in Seq(Seq(Pieces))
      <4>1. CASE b = <<>>
        BY <1>1, <4>1
      <4>2. CASE b # <<>>
        <5> HIDE DEF a, b
        <5>1. [b EXCEPT ![1] = a] \in Seq(Seq(Pieces))
          BY <1>1, <4>2, ExceptSeq
        <5> QED BY <4>2, <5>1
      <4> QED BY <4>1, <4>2
    <3>2. c = over
      BY <2>1
    <3> HIDE DEF c, over
    <3> QED BY <2>1, <3>1, <3>2
  <2>2. CASE ~(m < 0)
    <3> HIDE DEF a, b
    <3>1. all \in Seq(Seq(Pieces)) /\ Len(all) > 0
      BY <1>1, LenProperties
    <3>2. m \in Nat
      BY <2>2
    <3> HIDE DEF all
    <3>3. kept \in Seq(Seq(Pieces)) /\ First(kept, all, m)
      BY <3>1, <3>2, ShiftBackups
    <3>4. c = kept
      BY <2>2
    <3> HIDE DEF c, kept
    <3> QED BY <3>3, <3>4
  <2> QED BY <2>1, <2>2
<1> HIDE DEF a, b, o, z, c, e, all
<1>4. e = [active |-> <<>>, backups |-> c, open |-> o, size |-> z]
  BY <1>1, <1>2
<1>5. e = [active |-> e.active, backups |-> e.backups, open |-> e.open, size |-> e.size]
      /\ e.active = <<>> /\ e.backups = c
  BY <1>4
<1>6. IsDisk(e)
  BY <1>3, <1>5 DEF IsDisk
<1> QED BY <1>3, <1>5, <1>6 DEF e, all, a, b

\* The rename of all files keeps what the limit allows.
LEMMA ShiftInOrder ==
    ASSUME NEW d, IsDisk(d), NEW w \in Seq(Pieces), NEW l, InOrder(d, w, l), NEW m, Allows(m, l), l >= 0
    PROVE  InOrder(Shifted(d, m), w, l)
<1> DEFINE e == Shifted(d, m)
           all == <<d.active>> \o d.backups
           n == Len(w)
           k == Len(d.backups)
           j == Len(e.backups)
<1>1. d.active \in Seq(Pieces) /\ d.backups \in Seq(Seq(Pieces))
  BY DEF IsDisk
<1>2. PICK start : Divided(d, w, start) /\ (l = 0 \/ Len(d.backups) < l => start[Len(d.backups)] = 0)
  BY DEF InOrder
<1>3. n \in Nat /\ k \in Nat /\ \A i \in 0..k : start[i] \in 0..n
  BY <1>1, <1>2, Boundaries
<1>4. /\ all \in Seq(Seq(Pieces)) /\ Len(all) = k + 1 /\ all[1] = d.active
      /\ \A i \in 2..(k + 1) : all[i] = d.backups[i - 1]
  BY <1>1, <1>3
<1>5. m \in Nat /\ l \in Nat /\ (m > 0 => l > 0 /\ l <= m)
  BY DEF Allows
<1>6. e.active = <<>> /\ First(e.backups, all, m)
  BY <1>5, ShiftFields
<1>7. /\ Len(e.backups) = j /\ j \in 1..(k + 1) /\ (j < k + 1 => l > 0 /\ l <= j)
      /\ \A i \in 1..j : e.backups[i] = all[i]
  <2> HIDE DEF all, e
  <2>1. /\ j \in 1..(k + 1) /\ (m = 0 => j = k + 1) /\ (j < k + 1 => m <= j)
        /\ \A i \in 1..j : e.backups[i] = all[i]
    BY <1>4, <1>6 DEF First
  <2>2. Len(e.backups) = j
    OBVIOUS
  <2> HIDE DEF j, k
  <2> QED BY <1>3, <1>5, <2>1, <2>2
<1> DEFINE begin == [i \in 0..j |-> IF i = 0 THEN n ELSE start[i - 1]]
<1> HIDE DEF e, all, j
<1>8. /\ begin \in [0..j -> 0..n] /\ begin[0] = n /\ begin[j] = start[j - 1]
      /\ \A i \in 1..j : begin[i] = start[i - 1]
  <2>1. \A i \in 0..j : i # 0 => i - 1 \in 0..k
    BY <1>3, <1>5, <1>7
  <2> QED BY <1>3, <1>5, <1>7, <2>1
<1>9. Divided(e, w, begin)
  <2>1. e.active = SubSeq(w, begin[0] + 1, n)
    <3>1. SubSeq(w, n + 1, n) = <<>>
      <4>1. n + 1 \in Int /\ n \in Int /\ n < n + 1
        BY <1>3
      <4> QED BY <4>1, SubSeqEmpty
    <3> QED BY <1>6, <1>8, <3>1
  <2>2. ASSUME NEW i \in 1..j
        PROVE  begin[i] <= begin[i - 1] /\ e.backups[i] = SubSeq(w, begin[i] + 1, begin[i - 1])
    <3>1. i - 1 \in 0..k /\ i \in 1..(k + 1)
      BY <1>3, <1>5, <1>7
    <3>2. CASE i = 1
      <4>1. begin[i] = start[0] /\ begin[i - 1] = n /\ e.backups[i] = d.active
        BY <1>4, <1>7, <1>8, <3>2
      <4>2. start[0] <= n /\ d.active = SubSeq(w, start[0] + 1, n)
        BY <1>2, <1>3 DEF Divided
      <4> QED BY <4>1, <4>2
    <3>3. CASE i # 1
      <4>1. i - 1 \in 1..k /\ i - 1 \in 1..j /\ i \in 2..(k + 1)
        BY <1>3, <1>5, <1>7, <3>1, <3>3
      <4>2. begin[i] = start[i - 1] /\ begin[i - 1] = start[(i - 1) - 1] /\ e.backups[i] = d.backups[i - 1]
        BY <1>4, <1>7, <1>8, <4>1
      <4>3. /\ start[i - 1] <= start[(i - 1) - 1]
            /\ d.backups[i - 1] = SubSeq(w, start[i - 1] + 1, start[(i - 1) - 1])
        BY <1>2, <4>1 DEF Divided
      <4> QED BY <4>2, <4>3
    <3> QED BY <3>2, <3>3
  <2> HIDE DEF begin
  <2> QED BY <1>7, <1>8, <2>1, <2>2 DEF Divided
<1>10. l = 0 \/ Len(e.backups) < l => begin[Len(e.backups)] = 0
  <2> HIDE DEF begin
  <2> SUFFICES ASSUME l = 0 \/ j < l PROVE begin[j] = 0
    BY <1>7
  <2>1. j = k + 1
    BY <1>3, <1>5, <1>7
  <2>2. start[k] = 0
    BY <1>2, <1>3, <1>5, <1>7, <2>1
  <2> QED BY <1>3, <1>8, <2>1, <2>2
<1> HIDE DEF begin
<1> QED BY <1>9, <1>10 DEF InOrder, e

LEMMA ShiftKeeps ==
    ASSUME NEW d, NEW w \in Seq(Pieces), NEW l, Kept(d, w, l), NEW m, Allows(m, l)
    PROVE  Kept(Shifted(d, m), w, l)
<1>1. IsDisk(d) /\ (l >= 0 => InOrder(d, w, l)) /\ m \in Int
  BY DEF Kept, Allows
<1>2. IsDisk(Shifted(d, m))
  BY <1>1, ShiftFields
<1>3. l >= 0 => InOrder(Shifted(d, m), w, l)
  BY <1>1, ShiftInOrder
<1> QED BY <1>2, <1>3 DEF Kept

\* A file that is closed or opened keeps its content; opened, its size is known.
LEMMA ReopenKeeps ==
    ASSUME NEW d, NEW w, NEW l, Kept(d, w, l)
    PROVE  /\ Kept(Opened(d), w, l) /\ SizeKnown(Opened(d))
           /\ Kept(Shut(d), w, l) /\ SizeKnown(Shut(d))
<1> DEFINE a == d.active
           b == d.backups
           o == d.open
           z == d.size
           y == Bytes(d.active)
<1>1. d = [active |-> a, backups |-> b, open |-> o, size |-> z]
  BY DEF Kept, IsDisk
<1>2. Opened(d) = [d EXCEPT !.open = TRUE, !.size = y] /\ Shut(d) = [d EXCEPT !.open = FALSE, !.size = 0]
  BY DEF Opened, Shut
<1> HIDE DEF a, b, o, z, y
<1>3. /\ Opened(d) = [active |-> a, backups |-> b, open |-> TRUE, size |-> y]
      /\ Shut(d) = [active |-> a, backups |-> b, open |-> FALSE, size |-> 0]
  BY <1>1, <1>2
<1> DEFINE op == Opened(d)
           sh == Shut(d)
<1> HIDE DEF op, sh
<1>4. /\ op = [active |-> op.active, backups |-> op.backups, open |-> op.open, size |-> op.size]
      /\ op.active = a /\ op.backups = b /\ op.size = y
      /\ sh = [active |-> sh.active, backups |-> sh.backups, open |-> sh.open, size |-> sh.size]
      /\ sh.active = a /\ sh.backups = b /\ sh.open = FALSE
  BY <1>3 DEF op, sh
<1>5. Kept(op, w, l) /\ Kept(sh, w, l)
  BY <1>4 DEF Kept, IsDisk, InOrder, Divided, a, b
<1>6. SizeKnown(op)
  BY <1>4 DEF SizeKnown, y, a
<1>7. SizeKnown(sh)
  BY <1>4, Zenon DEF SizeKnown
<1> QED BY <1>5, <1>6, <1>7 DEF op, sh

\* So does a rotation, whatever fails in it.
LEMMA RotateKeeps ==
    ASSUME NEW d, NEW w \in Seq(Pieces), NEW l, Kept(d, w, l), NEW c, Allows(c.maxBackups, l),
           NEW e \in Rotated(d, c)
    PROVE  Kept(e, w, l) /\ SizeKnown(e)
<1>1. Kept(Shifted(d, c.maxBackups), w, l)
  BY ShiftKeeps
<1>2. PICK f \in {d, Shifted(d, c.maxBackups)} : e = Opened(f) \/ e = Shut(f)
  BY DEF Rotated
<1>3. Kept(f, w, l)
  BY <1>1, <1>2
<1> QED BY <1>2, <1>3, ReopenKeeps

\* What one write leaves behind.
Wrote(o, w, l) ==
    /\ o.out \in Seq(Pieces) /\ w \o o.out \in Seq(Pieces)
    /\ Kept(o.disk, w \o o.out, l) /\ SizeKnown(o.disk)

LEMMA WriteKeeps ==
    ASSUME NEW d, NEW w \in Seq(Pieces), NEW l, Kept(d, w, l), SizeKnown(d),
           NEW c, Allows(c.maxBackups, l),
           NEW p \in Pieces, p.part = "whole" => Torn(p.msg) \in Pieces,
           NEW o \in Write(d, p, c)
    PROVE  /\ o = [disk |-> o.disk, ok |-> o.ok, out |-> o.out]
           /\ Wrote(o, w, l)
           /\ o.ok => o.out = <<p>>
<1>1. PICK e \in (IF NeedsRotation(d, p, c) THEN Rotated(d, c) ELSE {d}) :
          \/ o = [disk |-> e, ok |-> FALSE, out |-> <<>>]
          \/ e.open /\ o = [disk |-> Appended(e, p), ok |-> TRUE, out |-> <<p>>]
          \/ e.open /\ p.part = "whole" /\ o = [disk |-> Appended(e, Torn(p.msg)), ok |-> FALSE, out |-> <<Torn(p.msg)>>]
  BY DEF Write
<1>2. Kept(e, w, l) /\ SizeKnown(e)
  BY <1>1, RotateKeeps
<1>3. ASSUME NEW x \in Pieces, e.open
      PROVE  /\ <<x>> \in Seq(Pieces) /\ w \o <<x>> \in Seq(Pieces)
             /\ Kept(Appended(e, x), w \o <<x>>, l) /\ SizeKnown(Appended(e, x))
  <2>1. w \o <<x>> = Append(w, x)
    BY AppendIsConcat
  <2>2. Append(w, x) \in Seq(Pieces) /\ Kept(Appended(e, x), Append(w, x), l)
    BY <1>2, AppendKeeps
  <2>3. SizeKnown(Appended(e, x))
    BY <1>2, <1>3, AppendKeeps, Zenon
  <2>4. <<x>> \in Seq(Pieces)
    OBVIOUS
  <2> QED BY <2>1, <2>2, <2>3, <2>4
<1>4. CASE o = [disk |-> e, ok |-> FALSE, out |-> <<>>]
  <2>1. <<>> \in Seq(Pieces) /\ w \o <<>> = w
    BY ConcatEmptySeq
  <2>2. o.disk = e /\ o.out = <<>> /\ o = [disk |-> o.disk, ok |-> o.ok, out |-> o.out] /\ o.ok = FALSE
    BY <1>4
  <2>3. Wrote(o, w, l)
    BY <1>2, <2>1, <2>2 DEF Wrote
  <2> QED BY <2>2, <2>3, Zenon
<1>5. CASE e.open /\ o = [disk |-> Appended(e, p), ok |-> TRUE, out |-> <<p>>]
  <2>1. o.disk = Appended(e, p) /\ o.out = <<p>> /\ o = [disk |-> o.disk, ok |-> o.ok, out |-> o.out]
    <3> DEFINE x == Appended(e, p)
    <3> HIDE DEF x
    <3>1. o = [disk |-> x, ok |-> TRUE, out |-> <<p>>]
      BY <1>5 DEF x
    <3>2. o.disk = x /\ o.out = <<p>> /\ o = [disk |-> o.disk, ok |-> o.ok, out |-> o.out]
      BY <3>1
    <3> QED BY <3>2 DEF x
  <2>2. Wrote(o, w, l)
    BY <1>3, <1>5, <2>1, Zenon DEF Wrote
  <2> QED BY <2>1, <2>2
<1>6. CASE /\ e.open /\ p.part = "whole"
           /\ o = [disk |-> Appended(e, Torn(p.msg)), ok |-> FALSE, out |-> <<Torn(p.msg)>>]
  <2> DEFINE t == Torn(p.msg)
  <2>1. t \in Pieces
    BY <1>6
  <2>2. o.disk = Appended(e, t) /\ o.out = <<t>> /\ o.ok = FALSE /\ o = [disk |-> o.disk, ok |-> o.ok, out |-> o.out]
    <3> DEFINE x == Appended(e, t)
    <3> HIDE DEF x
    <3>1. o = [disk |-> x, ok |-> FALSE, out |-> <<t>>]
      BY <1>6 DEF x
    <3> HIDE DEF t
    <3>2. o.disk = x /\ o.out = <<t>> /\ o.ok = FALSE /\ o = [disk |-> o.disk, ok |-> o.ok, out |-> o.out]
      BY <3>1
    <3> QED BY <3>2 DEF x
  <2> HIDE DEF t
  <2>3. Wrote(o, w, l)
    BY <1>3, <1>6, <2>1, <2>2, Zenon DEF Wrote
  <2> QED BY <2>2, <2>3, Zenon
<1> QED BY <1>1, <1>4, <1>5, <1>6

\* What was written remains so.
LEMMA RemainsWritten ==
    ASSUME NEW w \in Seq(Pieces), NEW out \in Seq(Pieces), NEW p \in ToSet(w)
    PROVE  p \in ToSet(w \o out)
<1> DEFINE u == w \o out
<1>1. /\ u \in Seq(Pieces) /\ Len(w) \in Nat /\ Len(out) \in Nat /\ Len(u) = Len(w) + Len(out)
      /\ \A i \in 1..(Len(w) + Len(out)) : u[i] = IF i <= Len(w) THEN w[i] ELSE out[i - Len(w)]
  BY ConcatProperties, LenProperties
<1>2. PICK i \in 1..Len(w) : p = w[i]
  BY LenProperties DEF ToSet
<1> HIDE DEF u
<1>3. i \in 1..Len(u) /\ u[i] = p
  BY <1>1, <1>2
<1>4. ToSet(u) = {u[q] : q \in 1..Len(u)}
  BY <1>1, LenProperties DEF ToSet
<1> QED BY <1>3, <1>4 DEF u

\* And one call of Send: if it returns nil the message was written whole.
LEMMA SendKeeps ==
    ASSUME NEW l, written \in Seq(Pieces), Kept(disk, written, l), SizeKnown(disk),
           NEW c, Allows(c.maxBackups, l),
           NEW m \in 1..MaxMessages, NEW o \in SendOutcomes(m, c)
    PROVE  /\ Wrote(o, written, l)
           /\ o.ok => Piece(m) \in ToSet(written \o o.out)
<1>1. /\ Piece(m) \in Pieces /\ Newline(m) \in Pieces
      /\ Piece(m).part = "whole" => Torn(Piece(m).msg) \in Pieces
      /\ Newline(m).part = "whole" => Torn(Newline(m).msg) \in Pieces
  BY DEF Pieces, Piece, Newline, Torn
<1>2. PICK v \in Write(disk, Piece(m), c) :
          o \in IF ~v.ok THEN {v} ELSE {[n EXCEPT !.out = v.out \o n.out] : n \in Write(v.disk, Newline(m), c)}
  BY DEF SendOutcomes
<1>3. Wrote(v, written, l) /\ (v.ok => v.out = <<Piece(m)>>)
  BY <1>1, WriteKeeps
<1>4. CASE ~v.ok
  <2>1. o = v
    BY <1>2, <1>4, Zenon
  <2> QED BY <1>3, <1>4, <2>1, Zenon
<1>5. CASE v.ok
  <2>1. PICK n \in Write(v.disk, Newline(m), c) : o = [n EXCEPT !.out = v.out \o n.out]
    BY <1>2, <1>5, Zenon
  <2> DEFINE w == written \o v.out
  <2>2. /\ v.out \in Seq(Pieces) /\ w \in Seq(Pieces) /\ Kept(v.disk, w, l) /\ SizeKnown(v.disk)
        /\ v.out = <<Piece(m)>>
    BY <1>3, <1>5, Zenon DEF Wrote
  <2> HIDE DEF w
  <2>3. /\ n = [disk |-> n.disk, ok |-> n.ok, out |-> n.out]
        /\ Wrote(n, w, l)
    BY <1>1, <2>2, WriteKeeps
  <2>4. o.disk = n.disk /\ o.out = v.out \o n.out
    <3> DEFINE i == n.disk
               j == n.ok
               k == n.out
               x == v.out
    <3>1. n = [disk |-> i, ok |-> j, out |-> k] /\ o = [n EXCEPT !.out = x \o k]
      BY <2>1, <2>3
    <3> HIDE DEF i, j, k, x
    <3>2. o.disk = i /\ o.out = x \o k
      BY <3>1
    <3> QED BY <3>2 DEF i, k, x
  <2>5. n.out \in Seq(Pieces) /\ w \o n.out \in Seq(Pieces) /\ Kept(n.disk, w \o n.out, l) /\ SizeKnown(n.disk)
    BY <2>3 DEF Wrote
  <2>6. w \o n.out = written \o o.out /\ o.out \in Seq(Pieces)
    <3> DEFINE x == v.out
               y == n.out
    <3>1. x \in Seq(Pieces) /\ y \in Seq(Pieces) /\ o.out = x \o y
      BY <2>2, <2>4, <2>5
    <3> HIDE DEF x, y
    <3>2. (written \o x) \o y = written \o (x \o y) /\ x \o y \in Seq(Pieces)
      BY <3>1, ConcatAssociative, ConcatProperties
    <3> QED BY <3>1, <3>2 DEF w, x, y
  <2>7. Piece(m) \in ToSet(w \o n.out)
    <3> DEFINE u == w \o n.out
               i == Len(written) + 1
    <3>1. w = Append(written, Piece(m))
      BY <1>1, <2>2, AppendIsConcat DEF w
    <3>2. Len(written) \in Nat /\ Len(w) = i /\ w[i] = Piece(m)
      BY <1>1, <3>1, AppendProperties, LenProperties
    <3>3. /\ u \in Seq(Pieces) /\ Len(u) = Len(w) + Len(n.out) /\ Len(n.out) \in Nat
          /\ \A q \in 1..(Len(w) + Len(n.out)) : u[q] = IF q <= Len(w) THEN w[q] ELSE n.out[q - Len(w)]
      BY <2>2, <2>5, ConcatProperties, LenProperties
    <3> HIDE DEF u, i
    <3>4. i \in 1..Len(u) /\ u[i] = w[i]
      <4> DEFINE b == Len(n.out)
                 a == Len(written)
      <4>1. a \in Nat /\ b \in Nat /\ Len(u) = i + b /\ Len(w) = i /\ i = a + 1
        BY <3>2, <3>3 DEF i
      <4>2. \A q \in 1..(i + b) : u[q] = IF q <= i THEN w[q] ELSE n.out[q - i]
        BY <3>3, <4>1
      <4> HIDE DEF a, b
      <4>3. i \in 1..(i + b) /\ i <= i
        BY <4>1
      <4> QED BY <4>1, <4>2, <4>3
    <3>5. ToSet(u) = {u[q] : q \in DOMAIN u} /\ DOMAIN u = 1..Len(u)
      BY <3>3, LenProperties DEF ToSet
    <3> QED BY <3>2, <3>4, <3>5 DEF u
  <2> QED BY <2>4, <2>5, <2>6, <2>7 DEF Wrote
<1> QED BY <1>4, <1>5

LEMMA LimitConfigured ==
    ASSUME NEW l \in Launches
    PROVE  Configured(l).maxBackups \in Int
<1> DEFINE cc == LoadCollectorConfig(l)
           f == ParsedFlags(l)
<1>1. Complete(cc) /\ Complete(f) /\ f.flush \in Int
  BY FileRead, FlagsParsed, RightTypes DEF Counts
<1>2. Complete([cc EXCEPT !.flush = f.flush])
  <2> HIDE DEF cc, f
  <2> QED BY <1>1, FlushComplete
<1>3. PICK g : OutputSettings(l) = applyDefaults(g) /\ Complete(g)
  BY <1>1, <1>2 DEF OutputSettings
<1>4. OutputSettings(l).maxBackups = g.maxBackups /\ g.maxBackups \in Int
  BY <1>3, Positive, RightTypes DEF Counts
<1> QED BY <1>4 DEF Configured

-----------------------------------------------------------------------------
\* The files hold what was written, for the limits of all processes so far, and
\* every message that was accepted is among it.
LogInv ==
    /\ written \in Seq(Pieces) /\ least \in Int
    /\ Kept(disk, written, least) /\ SizeKnown(disk)
    /\ app # "off" /\ conf.kind = "file" => Allows(conf.maxBackups, least)
    /\ \A n \in sent : Piece(n) \in ToSet(written)

\* A smaller limit asks for less, and allows what it has been narrowed to.
LEMMA KeptWithLess ==
    ASSUME NEW d, NEW w, NEW l \in Int, NEW m \in Int, Kept(d, w, l),
           m >= 0 => l >= 0 /\ (l = 0 \/ (m > 0 /\ m <= l))
    PROVE  Kept(d, w, m)
<1>1. IsDisk(d) /\ (l >= 0 => InOrder(d, w, l)) /\ Len(d.backups) \in Nat
  BY LenProperties DEF Kept, IsDisk
<1>2. ASSUME m >= 0 PROVE InOrder(d, w, m)
  <2>1. m = 0 \/ Len(d.backups) < m => l = 0 \/ Len(d.backups) < l
    BY <1>1, <1>2
  <2>2. InOrder(d, w, l)
    BY <1>1, <1>2
  <2> QED BY <2>1, <2>2 DEF InOrder
<1> QED BY <1>1, <1>2 DEF Kept

LEMMA NarrowedRight ==
    ASSUME NEW l \in Int, l = least, NEW m \in Int
    PROVE  /\ Narrowed(m) \in Int /\ Allows(m, Narrowed(m))
           /\ Narrowed(m) >= 0 => l >= 0 /\ (l = 0 \/ (Narrowed(m) > 0 /\ Narrowed(m) <= l))
<1>1. CASE m < 0 \/ l < 0
  <2>1. Narrowed(m) = -1
    BY <1>1 DEF Narrowed
  <2> QED BY <2>1 DEF Allows
<1>2. CASE m = 0 /\ l >= 0
  <2>1. Narrowed(m) = l
    BY <1>2 DEF Narrowed
  <2> QED BY <1>2, <2>1 DEF Allows
<1>3. CASE m > 0 /\ l >= 0
  <2> DEFINE S == {m} \cup ({l} \ {0})
             lesser == IF l = 0 \/ m <= l THEN m ELSE l
  <2>1. S \subseteq Int /\ lesser \in S /\ \A x \in S : lesser <= x
    BY <1>3
  <2>2. Narrowed(m) = Min(S)
    BY <1>3 DEF Narrowed
  <2> HIDE DEF S, lesser
  <2>3. Narrowed(m) = lesser
    BY <2>1, <2>2, MinIs
  <2> QED BY <1>3, <2>3 DEF lesser, Allows
<1> QED BY <1>1, <1>2, <1>3

LEMMA LogStarts == Init => LogInv
<1> SUFFICES ASSUME Init PROVE LogInv
  OBVIOUS
<1>1. /\ disk = [active |-> <<>>, backups |-> <<>>, open |-> FALSE, size |-> 0] /\ written = <<>>
      /\ app = "off" /\ sent = {} /\ least = 0
  BY DEF Init, FileInit, EmptyDisk
<1>2. disk.active = <<>> /\ disk.backups = <<>> /\ disk.open = FALSE
      /\ disk = [active |-> disk.active, backups |-> disk.backups, open |-> disk.open, size |-> disk.size]
  BY <1>1
<1>3. SizeKnown(disk)
  BY <1>2, Zenon DEF SizeKnown
<1>4. Divided(disk, written, [i \in 0..0 |-> 0])
  <2>1. SubSeq(<<>>, 1, 0) = <<>> /\ Len(<<>>) = 0
    BY SubSeqEmpty
  <2> QED BY <1>1, <1>2, <2>1 DEF Divided
<1>5. Kept(disk, written, least)
  <2>1. Len(disk.backups) = 0 /\ disk.active \in Seq(Pieces) /\ disk.backups \in Seq(Seq(Pieces))
    BY <1>2
  <2>2. [i \in 0..0 |-> 0][Len(disk.backups)] = 0
    BY <2>1
  <2> QED BY <1>2, <1>4, <2>1, <2>2 DEF Kept, IsDisk, InOrder
<1> QED BY <1>1, <1>3, <1>5 DEF LogInv

\* Building a transport leaves the files as they are, or opens the active one.
LEMMA OpensFile ==
    ASSUME NEW c, c.kind \in {"kafka", "file", "stdout"}, Opens(c)
    PROVE  disk' \in {disk, Opened(disk)} /\ written' = written
BY DEF Opens, fileVars

LEMMA LaunchLog ==
    ASSUME LogInv, NEW l \in Launches, Launch(l)
    PROVE  LogInv'
<1>1. /\ conf' = Configured(l) /\ conf'.kind \in {"kafka", "file", "stdout"} /\ conf'.maxBackups \in Int
      /\ sent' = sent
      /\ least' = IF conf'.kind = "file" THEN Narrowed(conf'.maxBackups) ELSE least
  BY OneOutput, LimitConfigured DEF Launch, sendVars
<1>2. disk' \in {disk, Opened(disk)} /\ written' = written
  BY <1>1, OpensFile DEF Launch, fileVars
<1>3. written \in Seq(Pieces) /\ least \in Int /\ Kept(disk', written, least) /\ SizeKnown(disk')
  BY <1>2, ReopenKeeps DEF LogInv
<1>4. CASE conf'.kind = "file"
  <2> DEFINE m == conf'.maxBackups
             n == Narrowed(m)
  <2>1. least' = n /\ m \in Int
    BY <1>1, <1>4
  <2>2. n \in Int /\ Allows(m, n) /\ (n >= 0 => least >= 0 /\ (least = 0 \/ (n > 0 /\ n <= least)))
    <3> HIDE DEF m
    <3> QED BY <1>3, <2>1, NarrowedRight
  <2> HIDE DEF m, n
  <2>3. Kept(disk', written, n)
    BY <1>3, <2>2, KeptWithLess
  <2> QED BY <1>1, <1>2, <1>3, <2>1, <2>2, <2>3 DEF LogInv, m
<1>5. CASE conf'.kind # "file"
  <2>1. least' = least
    BY <1>1, <1>5
  <2> QED BY <1>1, <1>2, <1>3, <1>5, <2>1 DEF LogInv
<1> QED BY <1>4, <1>5

LEMMA LogStep == KafkaInv /\ LogInv /\ [Next]_vars => LogInv'
<1> SUFFICES ASSUME KafkaInv, LogInv, [Next]_vars PROVE LogInv'
  OBVIOUS
<1>1. ASSUME disk' \in {disk, Opened(disk), Shut(disk)}, written' = written, sent' = sent, least' = least,
             app' = "off" \/ (app # "off" /\ conf' = conf)
      PROVE  LogInv'
  BY <1>1, ReopenKeeps DEF LogInv
<1>2. CASE \E l \in Launches : Launch(l)
  BY <1>2, LaunchLog
<1>3. CASE Start
  <2>1. /\ app # "off" /\ conf.kind \in {"kafka", "file", "stdout"} /\ conf' = conf /\ Opens(conf)
        /\ sent' = sent /\ least' = least
    BY <1>3 DEF Start, sendVars, KafkaInv, TypeOK
  <2> QED BY <1>1, <2>1, OpensFile
<1>4. CASE SendToFile
  <2>1. /\ app = "sending" /\ conf.kind = "file" /\ message \in 1..MaxMessages
        /\ UNCHANGED <<app, conf, least>>
    BY <1>4, OutputsAssumption DEF SendToFile, Pending, procVars, KafkaInv, TypeOK
  <2>2. PICK o \in SendOutcomes(message, conf) :
            /\ disk' = o.disk /\ written' = written \o o.out
            /\ sent' = sent \/ (o.ok /\ sent' = sent \cup {message})
    BY <1>4 DEF SendToFile, SendsTo
  <2>3. Allows(conf.maxBackups, least)
    BY <2>1 DEF LogInv
  <2>4. Wrote(o, written, least) /\ (o.ok => Piece(message) \in ToSet(written \o o.out))
    BY <2>1, <2>3, SendKeeps DEF LogInv
  <2>5. \A n \in sent : Piece(n) \in ToSet(written')
    <3>1. written \in Seq(Pieces) /\ o.out \in Seq(Pieces) /\ \A n \in sent : Piece(n) \in ToSet(written)
      BY <2>4 DEF Wrote, LogInv
    <3> QED BY <2>2, <3>1, RemainsWritten
  <2>6. \A n \in sent' : Piece(n) \in ToSet(written')
    BY <2>2, <2>4, <2>5, Zenon
  <2>7. /\ written' \in Seq(Pieces) /\ Kept(disk', written', least) /\ SizeKnown(disk')
    BY <2>2, <2>4 DEF Wrote
  <2> QED BY <2>1, <2>3, <2>6, <2>7 DEF LogInv
<1>5. CASE SendToKafka \/ SendToStdout \/ KafkaWorks
  <2>1. app # "off" /\ UNCHANGED <<disk, written, app, conf, sent, least>>
    BY <1>5 DEF SendToKafka, SendToStdout, KafkaWorks, Pending, fileVars, procVars, sendVars
  <2> QED BY <1>1, <2>1
<1>6. CASE Stop
  <2>1. /\ app # "off" /\ conf.kind \in {"kafka", "file", "stdout"} /\ UNCHANGED <<conf, sent, least, written>>
        /\ disk' \in {disk, Shut(disk)}
    BY <1>6 DEF Stop, fileVars, KafkaInv, TypeOK
  <2> QED BY <1>1, <2>1
<1>7. CASE CloseReturns
  <2>1. app # "off" /\ UNCHANGED <<disk, written, conf, sent, least>>
    BY <1>7 DEF CloseReturns, fileVars, sendVars
  <2> QED BY <1>1, <2>1
<1>8. CASE Ends
  <2>1. app' = "off" /\ disk' = Shut(disk) /\ UNCHANGED <<written, sent, least>>
    BY <1>8 DEF Ends
  <2> QED BY <1>1, <2>1
<1>9. CASE UNCHANGED vars
  BY <1>9 DEF vars, fileVars, procVars, sendVars, LogInv
<1> QED BY <1>2, <1>3, <1>4, <1>5, <1>6, <1>7, <1>8, <1>9 DEF Next

\* The files hold what was written last, in order, and all of it until there are as
\* many backups as the least limit allows (rotate.go), for any limits, sizes and
\* number of processes; with a negative limit, still whole messages and a known size.
THEOREM LogAlwaysKept == Spec => []LogIsKept
<1>1. LogInv => LogIsKept
  <2> SUFFICES ASSUME LogInv PROVE LogIsKept
    OBVIOUS
  <2>1. /\ written \in Seq(Pieces) /\ disk.backups \in Seq(Seq(Pieces))
        /\ SizeKnown(disk) /\ \A n \in sent : Piece(n) \in ToSet(written)
    BY DEF LogInv, Kept, IsDisk
  <2>2. ASSUME least >= 0
        PROVE  IsSuffix(OnDisk, written) /\ (least = 0 \/ Len(disk.backups) < least => OnDisk = written)
    <3>1. PICK start : /\ Divided(disk, written, start)
                       /\ least = 0 \/ Len(disk.backups) < least => start[Len(disk.backups)] = 0
      BY <2>2 DEF LogInv, Kept, InOrder
    <3> DEFINE a == start[Len(disk.backups)]
    <3>2. a \in 0..Len(written) /\ OnDisk = SubSeq(written, a + 1, Len(written))
      BY <2>1, <3>1, FilesInOrder DEF OnDisk
    <3>3. IsSuffix(OnDisk, written)
      <4> HIDE DEF a
      <4> QED BY <2>1, <3>2, EndIsSuffix
    <3>4. least = 0 \/ Len(disk.backups) < least => OnDisk = written
      BY <2>1, <3>1, <3>2, SubSeqFull
    <3> QED BY <3>3, <3>4
  <2> QED BY <2>1, <2>2, Zenon DEF LogIsKept, SizeKnown
<1> QED BY <1>1, LogStarts, LogStep, KafkaInOrder, PTL DEF Spec
=============================================================================
