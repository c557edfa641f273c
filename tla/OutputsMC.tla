----------------------------- MODULE OutputsMC -----------------------------
(* Small limits and the ways to launch the collector for Outputs. *)
EXTENDS Outputs

Kafka(events, buffer) ==
    [brokers |-> TRUE, topic |-> TRUE, maxEvents |-> events, bufferSize |-> buffer]
File(bytes, backups) == [path |-> TRUE, maxBytes |-> bytes, maxBackups |-> backups]
Enabling(output)     == output :> TRUE
HA                   == [ha |-> TRUE, peer |-> TRUE]
Once                 == [sendRetry |-> 1]
Secured(mechanism)   ==
    [tls |-> TRUE, clientCert |-> TRUE, clientKey |-> TRUE, sasl |-> TRUE, mechanism |-> mechanism]
Nothing              == <<>>

ByFile(yaml, flags) == [config |-> "read", yaml |-> yaml, flags |-> flags]
ByFlags(flags)      == [config |-> "none", yaml |-> Nothing, flags |-> flags]

MCLaunches == {
    \* one output, by the file or by flags, alone or with HA
    ByFile(Enabling("kafkaOn") @@ Kafka(2, 2) @@ Once, Nothing),
    ByFile(Enabling("kafkaOn") @@ Kafka(3, 1) @@ [flush |-> 1] @@ Secured("SCRAM-SHA-256"), HA),
    ByFile(Enabling("fileOn") @@ File(6, 2) @@ Once, Nothing),
    ByFile(Enabling("fileOn") @@ File(6, 0) @@ Once, HA),
    ByFlags(Kafka(2, 1)),
    ByFlags(File(6, 1) @@ Once),
    ByFlags(File(6, -1) @@ Once),
    ByFlags([sendRetry |-> 0]),
    \* flags against the file: those that win, and those that are ignored
    ByFile(Enabling("kafkaOn") @@ Kafka(2, 2) @@ [flush |-> 6], [flush |-> 0, sendRetry |-> 2]),
    ByFile(Enabling("fileOn") @@ File(6, 2) @@ [sendRetry |-> 3], Once @@ File(4, 1) @@ Kafka(1, 1)),
    ByFile(Nothing, File(6, 2) @@ Once),
    \* refused: two outputs, no topic, no path, no peer, an unknown mechanism, a file
    \* that does not parse
    ByFile(Enabling("kafkaOn") @@ Enabling("fileOn") @@ Kafka(2, 2) @@ File(6, 2), Nothing),
    ByFlags([brokers |-> TRUE]),
    ByFile(Enabling("fileOn"), Nothing),
    ByFlags(File(6, 2) @@ [ha |-> TRUE]),
    ByFlags(Kafka(2, 2) @@ Secured("GSSAPI")),
    [config |-> "broken", yaml |-> Nothing, flags |-> Kafka(2, 2)] }
=============================================================================
