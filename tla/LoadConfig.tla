----------------------------- MODULE LoadConfig -----------------------------
(***************************************************************************)
(* How internal/config/loader.go makes a configuration of four directories *)
(* of YAML files. A tree is a record of the files in each directory, in    *)
(* the order of their paths:                                               *)
(*   devices      : hostname   -> [interval, groups]                       *)
(*   deviceGroups : group name -> sequence of object group names           *)
(*   objectGroups : group name -> sequence of object keys                  *)
(*   objects      : object key -> its definition                           *)
(* A file is [ok, defs]: whether it parses, and what it defines. A         *)
(* directory that does not exist has no files; one that cannot be listed   *)
(* makes Load fail, and nothing is reloaded.                               *)
(***************************************************************************)
EXTENDS Integers, SequencesExt

\* What either map says, the first one first.
Over(f, g) == [n \in DOMAIN f \cup DOMAIN g |-> IF n \in DOMAIN f THEN f[n] ELSE g[n]]

-----------------------------------------------------------------------------
(* Plausible bug: it replaces one definition below, to show that a property  *)
(* notices it. It is no part of the specification.                           *)

\* The first file wins.
MergedFirst(files) ==
    LET merged[i \in 0..Len(files)] ==
            IF i = 0 THEN <<>>
            ELSE IF files[i].ok THEN Over(merged[i - 1], files[i].defs) ELSE merged[i - 1]
    IN  merged[Len(files)]

-----------------------------------------------------------------------------
\* The definitions of the files that parse; a later file replaces what an earlier
\* one says of a name. Files that do not parse are skipped with a warning, empty
\* ones in silence.
Merged(files) ==
    LET merged[i \in 0..Len(files)] ==
            IF i = 0 THEN <<>>
            ELSE IF files[i].ok THEN Over(files[i].defs, merged[i - 1]) ELSE merged[i - 1]
    IN  merged[Len(files)]

\* resolveDevice: fall-backs for what a device leaves out, here its poll interval.
resolveDevice(entry) == [entry EXCEPT !.interval = IF @ = 0 THEN 60 ELSE @]

loadDevices(files) ==
    LET raw == Merged(files)
    IN  [h \in DOMAIN raw |-> resolveDevice(raw[h])]

loadDeviceGroups(files) == Merged(files)

loadObjectGroups(files) == Merged(files)

\* The object keys that some device refers to, through groups that exist.
resolveNeededObjects(devices, dgroups, ogroups) ==
    {key \in UNION {ToSet(ogroups[og]) : og \in DOMAIN ogroups} :
        \E h \in DOMAIN devices : \E dg \in ToSet(devices[h].groups) \cap DOMAIN dgroups :
            \E og \in ToSet(dgroups[dg]) \cap DOMAIN ogroups : key \in ToSet(ogroups[og])}

\* loadObjectDefs keeps the objects that are needed, or all if none is.
loadObjectDefs(files, needed) ==
    {key \in DOMAIN Merged(files) : needed # {} => key \in needed}

\* Load, as far as it decides what is polled when (see ResolveJobs).
Load(tree) ==
    LET devices == loadDevices(tree.devices)
        dgroups == loadDeviceGroups(tree.deviceGroups)
        ogroups == loadObjectGroups(tree.objectGroups)
    IN  [devices      |-> devices,
         deviceGroups |-> dgroups,
         objectGroups |-> ogroups,
         objectDefs   |-> loadObjectDefs(tree.objects, resolveNeededObjects(devices, dgroups, ogroups))]
=============================================================================
