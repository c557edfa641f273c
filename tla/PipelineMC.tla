----------------------------- MODULE PipelineMC -----------------------------
(***************************************************************************)
(* A small instance of Pipeline: two decoders, so that a closer has to     *)
(* wait for the slower one, one goroutine in every other stage, channels   *)
(* of one place, and as many messages as it takes to have the transport    *)
(* goroutine, formattedCh and the formatter each hold one.                 *)
(***************************************************************************)
EXTENDS Pipeline

CONSTANTS poller, decoder1, decoder2, producer, formatter, sender, m1, m2, m3

MCMsgs == {m1, m2, m3}
MCGoroutines == {poller, decoder1, decoder2, producer, formatter, sender}
MCStage == [g \in MCGoroutines |->
                CASE g = poller    -> 1
                  [] g = producer  -> 3
                  [] g = formatter -> 4
                  [] g = sender    -> 5
                  [] OTHER         -> 2]
MCCapacity == [c \in Stages |-> 1]
=============================================================================
