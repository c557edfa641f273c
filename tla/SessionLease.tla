---------------------------- MODULE SessionLease ----------------------------
(***************************************************************************)
(* What a pool of SNMP sessions promises its callers, without saying how:  *)
(* a caller asks for a session of a device and is granted one that no      *)
(* other caller has, at most MaxConcurrentPolls callers have a session of  *)
(* one device at a time, and once the pool is closed it takes no new       *)
(* request.                                                                *)
(*                                                                         *)
(* ConnectionPool implements this specification.                           *)
(***************************************************************************)
EXTENDS Integers, FiniteSets

CONSTANTS Workers, Hosts, Conns, NoHost, NoConn

VARIABLES
    limit,   \* places of each device, 0 until the first request fixes it
    wants,   \* the device a caller waits for or has a session of
    lease,   \* the session granted to a caller
    shut     \* the pool is closed

leaseVars == <<limit, wants, lease, shut>>

Leased(h) == {w \in Workers : lease[w] # NoConn /\ wants[w] = h}

Init ==
    /\ limit = [h \in Hosts |-> 0]
    /\ wants = [w \in Workers |-> NoHost]
    /\ lease = [w \in Workers |-> NoConn]
    /\ shut  = FALSE

\* The limit of a device is fixed once, by the first caller that names it.
FixLimit(h) ==
    /\ limit[h] = 0
    /\ limit' \in [Hosts -> Nat]
    /\ limit'[h] > 0
    /\ \A g \in Hosts \ {h} : limit'[g] = limit[g]
    /\ UNCHANGED <<wants, lease, shut>>

Ask(w, h) ==
    /\ ~shut
    /\ wants[w] = NoHost
    /\ wants' = [wants EXCEPT ![w] = h]
    /\ UNCHANGED <<limit, lease, shut>>

Grant(w, c) ==
    /\ wants[w] # NoHost
    /\ lease[w] = NoConn
    /\ \A v \in Workers : lease[v] # c
    /\ Cardinality(Leased(wants[w])) < limit[wants[w]]
    /\ lease' = [lease EXCEPT ![w] = c]
    /\ UNCHANGED <<limit, wants, shut>>

\* The caller is refused, or gives its session back.
Finish(w) ==
    /\ wants[w] # NoHost
    /\ wants' = [wants EXCEPT ![w] = NoHost]
    /\ lease' = [lease EXCEPT ![w] = NoConn]
    /\ UNCHANGED <<limit, shut>>

Shut ==
    /\ ~shut
    /\ shut' = TRUE
    /\ UNCHANGED <<limit, wants, lease>>

Next ==
    \/ \E h \in Hosts : FixLimit(h)
    \/ \E w \in Workers, h \in Hosts : Ask(w, h)
    \/ \E w \in Workers, c \in Conns : Grant(w, c)
    \/ \E w \in Workers : Finish(w)
    \/ Shut

Spec == Init /\ [][Next]_leaseVars
=============================================================================
