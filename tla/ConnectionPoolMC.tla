-------------------------- MODULE ConnectionPoolMC --------------------------
(***************************************************************************)
(* A small instance of ConnectionPool: two workers that contend for two    *)
(* devices, one place of which is taken by the other worker.               *)
(***************************************************************************)
EXTENDS ConnectionPool

CONSTANTS w1, w2, h1, h2, c1, c2

MCWorkers == {w1, w2}
MCHosts   == {h1, h2}
MCConns   == {c1, c2}

\* 0 (not configured) stands for the default of four, more than there are
\* workers; 1 makes the workers wait for each other.
MCLimits == {0, 1}
=============================================================================
