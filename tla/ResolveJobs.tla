----------------------------- MODULE ResolveJobs -----------------------------
(***************************************************************************)
(* How internal/scheduler/resolve.go turns a loaded configuration into     *)
(* poll jobs: device -> device groups -> object groups -> objects, with    *)
(* groups and objects that are not defined skipped, and an object reached  *)
(* along several paths polled once.                                        *)
(*                                                                         *)
(* A configuration (see LoadConfig) is a record of functions over the      *)
(* names it defines:                                                       *)
(*   devices      : hostname     -> [interval, groups]                     *)
(*   deviceGroups : name         -> sequence of object group names         *)
(*   objectGroups : name         -> sequence of object keys                *)
(*   objectDefs   : the set of defined object keys                         *)
(***************************************************************************)
EXTENDS Integers, SequencesExt

\* The value of a map under each of the keys that it has, one after the other.
Expand(map, keys) ==
    LET expanded[i \in 0..Len(keys)] ==
            IF i = 0 THEN <<>>
            ELSE IF keys[i] \in DOMAIN map THEN expanded[i - 1] \o map[keys[i]]
            ELSE expanded[i - 1]
    IN  expanded[Len(keys)]

\* Every object a device reaches, in the order of the loops, repetitions included.
Reached(cfg, h) ==
    Expand(cfg.objectGroups, Expand(cfg.deviceGroups, cfg.devices[h].groups))

\* The object keys of a device's jobs: those defined, the first occurrence only.
Distinct(objects, defined) ==
    LET seen[i \in 0..Len(objects)] ==
            IF i = 0 THEN <<>>
            ELSE IF objects[i] \in ToSet(seen[i - 1]) \/ objects[i] \notin defined
            THEN seen[i - 1] ELSE Append(seen[i - 1], objects[i])
    IN  seen[Len(objects)]

JobsOf(cfg, h) == Distinct(Reached(cfg, h), cfg.objectDefs)

\* The devices that get an entry in the scheduler (buildEntries skips a device
\* without jobs), and the interval of one; 60 s unless configured.
DefaultInterval == 60
Scheduled(cfg) == {h \in DOMAIN cfg.devices : JobsOf(cfg, h) # <<>>}
Interval(cfg, h) == IF cfg.devices[h].interval <= 0 THEN DefaultInterval
                    ELSE cfg.devices[h].interval
=============================================================================
