------------------------------ MODULE Settings ------------------------------
(***************************************************************************)
(* What cmd/snmpcollector/main.go makes of its YAML file and its flags, as *)
(* far as the output is concerned, with the defaults that the config, app  *)
(* and kafka packages fill in.                                             *)
(*                                                                         *)
(* A launch is a record [config, yaml, flags]: whether -config names a     *)
(* file ("none", "broken" or "read"), and the settings that its YAML and   *)
(* the flags give, functions from some of the keys. Of a string only its   *)
(* presence counts (brokers, topic, path, peer, the client's certificate   *)
(* and key), of log and version that they are known ones; files that the   *)
(* TLS settings name can be read. The unit of time is half a second.       *)
(***************************************************************************)
EXTENDS Integers, FiniteSets

DefaultCollectorConfig ==
    [log |-> TRUE, ha |-> FALSE, peer |-> FALSE,
     stdoutOn |-> FALSE, fileOn |-> FALSE, kafkaOn |-> FALSE,
     sendRetry |-> 3,
     path |-> FALSE, maxBytes |-> 50 * 1024 * 1024, maxBackups |-> 5,
     brokers |-> FALSE, topic |-> FALSE, maxEvents |-> 1000, bufferSize |-> 10000, flush |-> 10,
     version |-> TRUE, tls |-> FALSE, clientCert |-> FALSE, clientKey |-> FALSE,
     sasl |-> FALSE, mechanism |-> "PLAIN"]

\* No flag selects an output directly.
YAMLOnly == {"stdoutOn", "fileOn", "kafkaOn"}
Keys     == DOMAIN DefaultCollectorConfig

\* The fields of type int; the others are switches, but for the mechanism.
Counts == {"sendRetry", "maxBytes", "maxBackups", "maxEvents", "bufferSize", "flush"}

\* What a file or flags may give.
Fits(k, v) == IF k \in Counts THEN v \in Int ELSE k = "mechanism" \/ v \in BOOLEAN

IsGiven(given) == DOMAIN given \subseteq Keys /\ \A k \in DOMAIN given : Fits(k, given[k])

\* What is given, over what holds otherwise.
Over(given, otherwise) ==
    [k \in DOMAIN given \cup DOMAIN otherwise |-> IF k \in DOMAIN given THEN given[k] ELSE otherwise[k]]

-----------------------------------------------------------------------------
(* Plausible bug: it replaces one definition below, to show that a property  *)
(* notices it. It is no part of the specification.                           *)

\* The flags are parsed before the file is read, and the file wins.
FileOverFlags(launch) == Over(launch.yaml, Over(launch.flags, DefaultCollectorConfig))

-----------------------------------------------------------------------------
\* The file is decoded over the defaults, so that missing keys keep them.
LoadCollectorConfig(launch) ==
    IF launch.config = "read" THEN Over(launch.yaml, DefaultCollectorConfig)
    ELSE DefaultCollectorConfig

\* Only whole seconds count.
durToSec(d) == 2 * (d \div 2)

\* The flags as flag.Parse leaves them, the file's values being their defaults.
ParsedFlags(launch) ==
    Over(launch.flags, [LoadCollectorConfig(launch) EXCEPT !.flush = durToSec(@)])

\* kafka.New fills in what is not positive.
applyDefaults(s) ==
    [s EXCEPT !.maxEvents  = IF @ <= 0 THEN 1000 ELSE @,
              !.bufferSize = IF @ <= 0 THEN 10000 ELSE @,
              !.flush      = IF @ <= 0 THEN 10 ELSE @]

\* app.New does so with the retries, too: no number below one is possible.
withDefaults(retries) == IF retries <= 0 THEN 3 ELSE retries

Enabled(s) == {o \in YAMLOnly : s[o]}

\* MUTANT: the blocks of the file do not select the output.
KindByFlags(launch) ==
    IF ParsedFlags(launch).brokers THEN "kafka" ELSE IF ParsedFlags(launch).path THEN "file" ELSE "stdout"

\* The output: with a file the block that it enables, without one the first that
\* the flags describe. buildTransport is nil for stdout.
Kind(launch) ==
    LET cc == LoadCollectorConfig(launch)
        f  == ParsedFlags(launch)
    IN  IF launch.config = "read"
        THEN IF cc.kafkaOn THEN "kafka" ELSE IF cc.fileOn THEN "file" ELSE "stdout"
        ELSE IF f.brokers  THEN "kafka" ELSE IF f.path    THEN "file" ELSE "stdout"

\* With a file the settings of the output come from it alone, the interval of
\* Kafka's ticker excepted.
OutputSettings(launch) ==
    LET f == ParsedFlags(launch)
    IN  applyDefaults(IF launch.config = "read"
                      THEN [LoadCollectorConfig(launch) EXCEPT !.flush = f.flush]
                      ELSE f)

\* A certificate without its key, or a key without its certificate, is refused.
buildTLSConfig(s) == s.clientCert = s.clientKey

applySASL(s) == s.mechanism \in {"", "PLAIN", "SCRAM-SHA-256", "SCRAM-SHA-512"}

buildSaramaConfig(s) ==
    /\ s.version
    /\ s.tls => buildTLSConfig(s)
    /\ s.sasl => applySASL(s)

\* kafka.New and file.New refuse to build a transport without these.
Buildable(kind, s) ==
    CASE kind = "kafka"  -> s.brokers /\ s.topic /\ buildSaramaConfig(s)
      [] kind = "file"   -> s.path
      [] kind = "stdout" -> TRUE

\* What the process runs with.
Configured(launch) ==
    LET f == ParsedFlags(launch)
        s == OutputSettings(launch)
    IN  [kind |-> Kind(launch), ha |-> f.ha, retry |-> withDefaults(f.sendRetry),
         buildable |-> Buildable(Kind(launch), s),
         maxBytes |-> s.maxBytes, maxBackups |-> s.maxBackups,
         maxEvents |-> s.maxEvents, bufferSize |-> s.bufferSize, flush |-> s.flush,
         tls |-> s.tls, sasl |-> s.sasl]

TwoOutputs(launch) ==
    launch.config = "read" /\ Cardinality(Enabled(LoadCollectorConfig(launch))) > 1

\* Without HA the transport is built at once, with HA in App.Start.
NoTransport(launch) == ~ParsedFlags(launch).ha /\ ~Configured(launch).buildable

NoPeer(launch) == ParsedFlags(launch).ha /\ ~ParsedFlags(launch).peer

\* run returns an error before it starts anything.
Refuses(launch) ==
    \/ launch.config = "broken"
    \/ ~ParsedFlags(launch).log
    \/ TwoOutputs(launch)
    \/ NoTransport(launch)
    \/ NoPeer(launch)
=============================================================================
