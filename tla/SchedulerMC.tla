----------------------------- MODULE SchedulerMC -----------------------------
(* Four trees of configuration files to reload between: two devices, one of   *)
(* which reaches an object along two paths; one of them in a file that does   *)
(* not parse, and the other with other groups and another interval in a later *)
(* file; an object group redefined, with an object that is not defined, and a *)
(* device that leaves its interval out; no device with a job, so that the     *)
(* filter of needed objects finds none.                                       *)
EXTENDS Scheduler, TLC

CONSTANTS r1, r2, core, edge, ifs, sys, cpu, ifEntry, sysUp, cpuLoad

Good(defs)   == [ok |-> TRUE, defs |-> defs]
Broken(defs) == [ok |-> FALSE, defs |-> defs]

Tree(devices, ogroups) ==
    [devices      |-> devices,
     deviceGroups |-> <<Good((core :> <<ifs, sys, sys>>) @@ (edge :> <<sys, cpu>>))>>,
     objectGroups |-> ogroups,
     objects      |-> <<Good(ifEntry :> "table"), Good((sysUp :> "scalars") @@ (cpuLoad :> "scalars"))>>]

Groups    == Good((ifs :> <<ifEntry, sysUp>>) @@ (sys :> <<sysUp>>))
SysLater  == Good(sys :> <<cpuLoad, "notDefined">>)

R1        == Good(r1 :> [interval |-> 2, groups |-> <<core, edge>>])
R1Later   == Good(r1 :> [interval |-> 4, groups |-> <<edge>>])
R1NoInterval == Good(r1 :> [interval |-> 0, groups |-> <<edge>>])
R2        == r2 :> [interval |-> 3, groups |-> <<edge, ifs>>]
R2NoGroup == Good(r2 :> [interval |-> 2, groups |-> <<cpu>>])

MCTrees == {Tree(<<R1, Good(R2)>>, <<Groups>>),
            Tree(<<R1, Broken(R2), R1Later>>, <<Groups>>),
            Tree(<<R1NoInterval>>, <<Groups, SysLater>>),
            Tree(<<R2NoGroup>>, <<>>)}
=============================================================================
