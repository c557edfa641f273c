--------------------------- MODULE KafkaTransport ---------------------------
(***************************************************************************)
(* internal/plugin/transport/kafka: Send puts a message into a buffered    *)
(* channel, a single worker collects batches and flushes them to the       *)
(* brokers, Close has the worker drain the channel and waits for it.       *)
(***************************************************************************)
EXTENDS Integers, SequencesExt

VARIABLES
    ch,         \* the buffered channel
    batch,      \* the batch, owned by the worker
    worker,     \* "run", "flush", "drain", "lastFlush", "done"; "closed" once Close has
                \* returned, "none" while the process has no transport
    quit,       \* closed by Close
    settled,    \* history: messages delivered or logged as failed, in order
    accepted    \* history: messages for which Send returned nil, in order

kafkaVars == <<ch, batch, worker, quit, settled, accepted>>

KafkaInit ==
    /\ ch = <<>> /\ batch = <<>>
    /\ worker = "none"
    /\ quit = FALSE
    /\ settled = <<>> /\ accepted = <<>>

-----------------------------------------------------------------------------
(* Plausible bugs: each replaces one action below, to show that a property   *)
(* notices it. None is part of the specification.                            *)

\* The worker leaves on quit without a look at the channel.
SeesQuitUndrained ==
    /\ worker = "run" /\ quit
    /\ worker' = "lastFlush"
    /\ UNCHANGED <<ch, batch, quit, settled, accepted>>

\* The ticker flushes full batches only.
TickerFullBatch(maxEvents) ==
    /\ worker = "run" /\ Len(batch) >= maxEvents
    /\ worker' = "flush"
    /\ UNCHANGED <<ch, batch, quit, settled, accepted>>

-----------------------------------------------------------------------------
Renewed ==
    /\ ch' = <<>> /\ batch' = <<>>
    /\ quit' = FALSE
    /\ settled' = <<>> /\ accepted' = <<>>

\* New: a channel, an empty batch, a worker.
KafkaOpen == worker' = "run" /\ Renewed

\* The process ends, and channel, batch and worker with it.
KafkaGone == worker' = "none" /\ Renewed

\* Send: blocks while the channel is full. App calls no Send once it calls Close.
Enqueue(m, bufferSize) ==
    /\ ~quit
    /\ Len(ch) < bufferSize
    /\ ch' = Append(ch, m)
    /\ accepted' = Append(accepted, m)
    /\ UNCHANGED <<batch, worker, quit, settled>>

\* A message joins the batch, which is flushed once it is full.
Collects(maxEvents) ==
    /\ worker = "run" /\ ch # <<>>
    /\ batch' = Append(batch, Head(ch))
    /\ ch' = Tail(ch)
    /\ worker' = IF Len(batch') >= maxEvents THEN "flush" ELSE "run"
    /\ UNCHANGED <<quit, settled, accepted>>

Ticker(maxEvents) ==
    /\ worker = "run" /\ batch # <<>>
    /\ worker' = "flush"
    /\ UNCHANGED <<ch, batch, quit, settled, accepted>>

SeesQuit ==
    /\ worker = "run" /\ quit
    /\ worker' = "drain"
    /\ UNCHANGED <<ch, batch, quit, settled, accepted>>

\* The drain takes what is buffered, whatever the size of the batch.
Drain ==
    /\ worker = "drain"
    /\ IF ch # <<>>
       THEN /\ batch' = Append(batch, Head(ch))
            /\ ch' = Tail(ch)
            /\ UNCHANGED worker
       ELSE /\ worker' = "lastFlush"
            /\ UNCHANGED <<ch, batch>>
    /\ UNCHANGED <<quit, settled, accepted>>

\* SendMessages: some messages of the batch may fail, which is logged; the batch
\* starts anew either way.
Flush ==
    /\ worker \in {"flush", "lastFlush"}
    /\ settled' = settled \o batch
    /\ batch' = <<>>
    /\ worker' = IF worker = "flush" THEN "run" ELSE "done"
    /\ UNCHANGED <<ch, quit, accepted>>

\* Close signals the worker.
SignalQuit ==
    /\ ~quit
    /\ quit' = TRUE
    /\ UNCHANGED <<ch, batch, worker, settled, accepted>>

\* Close returns once the worker is done.
KafkaClosed ==
    /\ worker = "done"
    /\ worker' = "closed"
    /\ UNCHANGED <<ch, batch, quit, settled, accepted>>

Worker(maxEvents) == Collects(maxEvents) \/ Ticker(maxEvents) \/ SeesQuit \/ Drain \/ Flush
=============================================================================
