--------------------------- MODULE AppLifecycleMC ---------------------------
(***************************************************************************)
(* A small instance of AppLifecycle: two reloads, so that a pool made by a *)
(* reload is itself replaced, with two workers and queues of one job.      *)
(***************************************************************************)
EXTENDS AppLifecycle

CONSTANTS w1, w2

MCWorkers == {w1, w2}
=============================================================================
