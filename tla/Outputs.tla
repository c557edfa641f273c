------------------------------ MODULE Outputs ------------------------------
(***************************************************************************)
(* The transport of the collector, from cmd/snmpcollector/main.go, which   *)
(* selects and builds it, through the retry loop of internal/app/app.go to *)
(* Close at the end of App.Stop, over several processes on one host: they  *)
(* are launched with other settings, stopped, or die. With HA App may also *)
(* be stopped and started within a process (see HA for when).              *)
(***************************************************************************)
EXTENDS Settings, KafkaTransport, RotatingFile

CONSTANTS
    Launches,     \* how the collector may be launched, see Settings
    MaxLaunches,  \* bound: launches of a run
    MaxMessages   \* bound: messages of a run, numbered from 1

ASSUME OutputsAssumption ==
    /\ {MaxLaunches, MaxMessages} \subseteq Nat
    /\ \A l \in Launches :
           IsGiven(l.yaml) /\ IsGiven(l.flags) /\ DOMAIN l.flags \cap YAMLOnly = {}

VARIABLES
    launched,   \* number of launches
    conf,       \* what the process runs with
    app,        \* "off" without a process, "idle" without a pipeline, "sending", "closing"
    stopOnce,   \* whether the process has stopped App before
    message,    \* the message being sent
    failures,   \* its failed attempts
    sent,       \* history: messages for which the file's Send returned nil
    least       \* history: the least limit of backups so far, 0 for none, and -1
                \* from a negative one on

procVars == <<launched, conf, app, stopOnce>>
sendVars == <<message, failures, sent>>
vars     == <<kafkaVars, fileVars, procVars, sendVars, least>>

-----------------------------------------------------------------------------
(* Plausible bug: it replaces one definition below, to show that a property  *)
(* notices it. It is no part of the specification.                           *)

\* A file that is opened anew counts from zero.
OpensAtZero(c) ==
    /\ c.buildable
    /\ CASE c.kind = "kafka"  -> KafkaOpen /\ UNCHANGED fileVars
         [] c.kind = "file"   -> /\ disk' = [disk EXCEPT !.open = TRUE, !.size = 0]
                                 /\ UNCHANGED <<kafkaVars, written>>
         [] c.kind = "stdout" -> UNCHANGED <<kafkaVars, fileVars>>

-----------------------------------------------------------------------------
NoConf == [ha |-> FALSE]

Init ==
    /\ KafkaInit
    /\ FileInit
    /\ launched = 0
    /\ conf = NoConf
    /\ app = "off"
    /\ stopOnce = FALSE
    /\ message = 1 /\ failures = 0 /\ sent = {}
    /\ least = 0

\* kafka.New, file.New or newWriterTransport. That of Kafka or of the file may
\* also fail: then this does not happen.
Opens(c) ==
    /\ c.buildable
    /\ CASE c.kind = "kafka"  -> KafkaOpen /\ UNCHANGED fileVars
         [] c.kind = "file"   -> disk' = Opened(disk) /\ UNCHANGED <<kafkaVars, written>>
         [] c.kind = "stdout" -> UNCHANGED <<kafkaVars, fileVars>>

\* The least limit, once there has been m too.
Narrowed(m) ==
    IF m < 0 \/ least < 0 THEN -1
    ELSE IF m = 0 THEN least ELSE Min({m} \cup ({least} \ {0}))

\* The process starts: with its transport, or with HA and without one.
Launch(l) ==
    /\ app = "off" /\ launched < MaxLaunches
    /\ ~Refuses(l)
    /\ launched' = launched + 1
    /\ conf' = Configured(l)
    /\ stopOnce' = FALSE
    /\ \/ /\ conf'.ha
          /\ app' = "idle"
          /\ UNCHANGED <<kafkaVars, fileVars>>
       \/ /\ ~conf'.ha
          /\ app' = "sending"
          /\ Opens(conf')
    /\ least' = IF conf'.kind = "file" THEN Narrowed(conf'.maxBackups) ELSE least
    /\ UNCHANGED sendVars

\* HA starts App, which builds a transport. If that fails, an error is logged.
Start ==
    /\ app = "idle" /\ conf.ha
    /\ Opens(conf)
    /\ app' = "sending"
    /\ UNCHANGED <<launched, conf, stopOnce, sendVars, least>>

Pending == app = "sending" /\ message <= MaxMessages

\* Send returned nil.
Sent ==
    /\ message' = message + 1
    /\ failures' = 0

\* Send returned an error: another attempt, or the message is dropped.
Refused ==
    IF failures < conf.retry
    THEN failures' = failures + 1 /\ UNCHANGED message
    ELSE failures' = 0 /\ message' = message + 1

SendToKafka ==
    /\ Pending /\ conf.kind = "kafka"
    /\ Enqueue(message, conf.bufferSize)
    /\ Sent
    /\ UNCHANGED <<fileVars, procVars, sent, least>>

SendToFile ==
    /\ Pending /\ conf.kind = "file"
    /\ \E o \in SendOutcomes(message, conf) :
           /\ SendsTo(o)
           /\ IF o.ok THEN Sent /\ sent' = sent \cup {message}
                      ELSE Refused /\ UNCHANGED sent
    /\ UNCHANGED <<kafkaVars, procVars, least>>

SendToStdout ==
    /\ Pending /\ conf.kind = "stdout"
    /\ Sent \/ Refused
    /\ UNCHANGED <<kafkaVars, fileVars, procVars, sent, least>>

KafkaWorks ==
    /\ app # "off"
    /\ conf.kind = "kafka" /\ Worker(conf.maxEvents)
    /\ UNCHANGED <<fileVars, procVars, sendVars, least>>

\* App.Stop, once in a process, calls Close when the transport goroutine has
\* returned. The goroutine gives up a message that it would have to retry.
Stop ==
    /\ app = "sending" /\ ~stopOnce
    /\ stopOnce' = TRUE
    /\ CASE conf.kind = "kafka"  -> app' = "closing" /\ SignalQuit /\ UNCHANGED fileVars
         [] conf.kind = "file"   -> /\ app' = "idle" /\ disk' = Shut(disk)
                                    /\ UNCHANGED <<kafkaVars, written>>
         [] conf.kind = "stdout" -> app' = "idle" /\ UNCHANGED <<kafkaVars, fileVars>>
    /\ failures' = 0
    /\ message' = IF failures = 0 THEN message ELSE message + 1
    /\ UNCHANGED <<launched, conf, sent, least>>

CloseReturns ==
    /\ app = "closing"
    /\ KafkaClosed
    /\ app' = "idle"
    /\ UNCHANGED <<fileVars, launched, conf, stopOnce, sendVars, least>>

\* The process exits or dies. It exits without a Stop if App runs for the second
\* time, for stopOnce is used up.
Ends ==
    /\ app # "off"
    /\ app' = "off" /\ conf' = NoConf /\ stopOnce' = FALSE
    /\ failures' = 0
    /\ KafkaGone
    /\ disk' = Shut(disk)
    /\ UNCHANGED <<written, launched, message, sent, least>>

Next ==
    \/ \E l \in Launches : Launch(l)
    \/ Start
    \/ SendToKafka
    \/ SendToFile
    \/ SendToStdout
    \/ KafkaWorks
    \/ Stop
    \/ CloseReturns
    \/ Ends

Spec == Init /\ [][Next]_vars

\* The worker of the Kafka transport goes on, its ticker too, and Close takes
\* note of its end. Nothing makes App start, send, stop or end.
FairSpec == Spec /\ WF_vars(KafkaWorks) /\ WF_vars(CloseReturns)

-----------------------------------------------------------------------------
\* Kafka: messages are settled (delivered, or logged as failed) in the order in
\* which Send accepted them, none is lost or settled twice on the way through
\* channel and batch, and once Close has returned all are: "no messages are
\* dropped on graceful shutdown, even mid-batch" (docs/kafka-transport.md:87,
\* kafka.go:304-345), whatever the sizes, and again with every new transport.
Mode == CASE worker = "none"   -> "none"
          [] worker = "closed" -> "closed"
          [] OTHER             -> "open"

Promised == INSTANCE Outbox WITH Messages <- 1..MaxMessages, mode <- Mode

OutboxSpec == Promised!Spec

\* Kafka: no message waits for ever in a channel or a batch that does not fill, and
\* Close returns, unless the process ends (kafka.go:326-330, 263-284). That needs a
\* ticker with an interval.
FlushedInTheEnd ==
    /\ \A n \in 1..MaxMessages : Len(accepted) >= n ~> Len(settled) >= n \/ app = "off"
    /\ app = "closing" ~> app # "closing"

\* What the files hold, from the oldest backup to the active file.
OnDisk == FlattenSeq(Reverse(disk.backups)) \o disk.active

\* File: whatever opens and writes fail in rotations and retries, and the renames of
\* a rotation with them (all or none, see RotatingFile), and whatever limits the processes that wrote it had, the files hold what was written
\* last, in order, and all of it until there are as many backups as the least limit
\* allows (nothing is said of the order once a limit was negative); a message that
\* Send accepted was written whole; and as long as the file is open its size is
\* known, so that a rotation is not late (rotate.go:80-181).
LogIsKept ==
    /\ least >= 0 =>
           /\ IsSuffix(OnDisk, written)
           /\ least = 0 \/ Len(disk.backups) < least => OnDisk = written
    /\ \A n \in sent : Piece(n) \in ToSet(written)
    /\ disk.open => disk.size = Bytes(disk.active)

\* The comment in Write: after a failed rotation "Continue writing to the current
\* file rather than losing data" (rotate.go:89): there is a file to write to.
KeepsAFile == app = "sending" /\ conf.kind = "file" => disk.open

\* What the documentation says of a setting: "CLI flag > YAML file > hardcoded
\* default" (main.go:50).
Meant(l) == [k \in Keys |-> IF k \in DOMAIN l.flags THEN l.flags[k]
                            ELSE IF l.config = "read" /\ k \in DOMAIN l.yaml THEN l.yaml[k]
                            ELSE DefaultCollectorConfig[k]]

\* A size or an interval below one is none: the default counts (kafka.go:52-67).
Sane(n, default) == IF n > 0 THEN n ELSE default

\* Retries may be zero in number, but not less.
Retries(n) == IF n >= 0 THEN n ELSE DefaultCollectorConfig.sendRetry

\* The settings that a transport of each kind has, its ticker's interval excepted.
SettingsOf(kind) ==
    CASE kind = "kafka"  -> {"maxEvents", "bufferSize", "tls", "sasl"}
      [] kind = "file"   -> {"maxBytes", "maxBackups"}
      [] kind = "stdout" -> {}

\* The process runs with the value that m has for setting k.
Runs(c, m, k) ==
    c[k] = IF k \in {"maxEvents", "bufferSize"} THEN Sane(m[k], DefaultCollectorConfig[k]) ELSE m[k]

\* With a file the output is the block that it enables (docs/plugin.md:193), without
\* one the first that the flags describe (docs/plugin.md:194). Of a file
\* docs/configuration.md:327 says what line 194 says of flags; that is not so.
Selected(c, l) ==
    LET m == Meant(l)
    IN  IF l.config = "read"
        THEN /\ c.kind = "kafka" <=> m.kafkaOn
             /\ c.kind = "file"  <=> m.fileOn
             /\ m.stdoutOn => c.kind = "stdout"
        ELSE c.kind = IF m.brokers THEN "kafka" ELSE IF m.path THEN "file" ELSE "stdout"

\* Where the code departs from the documents, for k a setting of an output:
\* "A CLI flag set explicitly always overrides whatever is in the YAML file"
\* (docs/configuration.md:46), but those of an output do not (main.go:237-283).
FlagIgnored(l, k) == l.config = "read" /\ k \in DOMAIN l.flags

\* "0 means no retries" (app.go:104), but then there are three (app.go:136-138).
RetriesAnyhow(m) == m.sendRetry = 0

\* A Kafka batch may age for the interval given (kafka.go:59-60), but half a second is
\* cut off to zero (main.go:474), which means five seconds (kafka.go:150-152).
AgesLonger(m) == m.flush = 1

AsMeant(c, l) ==
    LET m == Meant(l)
    IN  /\ m.log /\ c.ha = m.ha /\ (m.ha => m.peer)
        /\ Selected(c, l)
        /\ \A k \in SettingsOf(c.kind) : FlagIgnored(l, k) \/ Runs(c, m, k)
        /\ RetriesAnyhow(m) \/ c.retry = Retries(m.sendRetry)
        /\ c.kind = "kafka" =>
              /\ c.flush > 0
              /\ AgesLonger(m) \/ c.flush \in {m.flush - 1, Sane(m.flush, DefaultCollectorConfig.flush)}

\* A process runs with the settings that the documents promise its launch: a flag
\* wins over the file and the file over the default, one output is selected, and no
\* number that would stop a worker or a flush gets through (main.go:50-355,
\* app.go:120-144, kafka.go:143-162), except in the three cases above, where the code
\* does not keep the promise. Other intervals only lose their fraction of a second.
LaunchedAsMeant ==
    [][\A l \in Launches : Launch(l) => l.config # "broken" /\ AsMeant(conf', l)]_vars
=============================================================================
