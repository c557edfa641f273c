------------------------------- MODULE Outbox -------------------------------
(***************************************************************************)
(* What a transport that queues promises: it settles (delivers, or gives   *)
(* up for good) the messages it has accepted, each once and in their       *)
(* order, and has settled all of them when Close returns. Only the end of  *)
(* its process, not a Close, may lose what is under way. KafkaTransport    *)
(* implements it: channel, batch and worker are invisible here.            *)
(***************************************************************************)
EXTENDS Integers, SequencesExt

CONSTANT Messages

VARIABLES
    mode,      \* "none", "open", "closed"
    accepted,  \* what Send took since the transport was opened
    settled    \* what it is done with

outboxVars == <<mode, accepted, settled>>

Empty == accepted = <<>> /\ settled = <<>>

Init == mode = "none" /\ Empty

Open ==
    /\ mode # "open"
    /\ mode' = "open"
    /\ accepted' = <<>> /\ settled' = <<>>

Accept(m) ==
    /\ mode = "open"
    /\ accepted' = Append(accepted, m)
    /\ UNCHANGED <<mode, settled>>

\* Some more messages are settled, in their order.
Settle ==
    /\ mode = "open"
    /\ settled' # settled
    /\ IsPrefix(settled, settled') /\ IsPrefix(settled', accepted)
    /\ UNCHANGED <<mode, accepted>>

Close ==
    /\ mode = "open"
    /\ settled = accepted
    /\ mode' = "closed"
    /\ UNCHANGED <<accepted, settled>>

\* The process ends.
End ==
    /\ mode' = "none"
    /\ accepted' = <<>> /\ settled' = <<>>

Next ==
    \/ Open
    \/ \E m \in Messages : Accept(m)
    \/ Settle
    \/ Close
    \/ End

Spec == Init /\ [][Next]_outboxVars
=============================================================================
