------------------------------- MODULE Enums -------------------------------
(***************************************************************************)
(* Labels for values: the enum files (loadEnums, internal/config/          *)
(* loader.go) and EnumRegistry (internal/producer/metrics/enrich.go).      *)
(*                                                                         *)
(* A file is a record: whether it parses, and its entries by OID. An entry *)
(* is [type |-> "oid", label], or [type |-> "ints", values] with labels by *)
(* number, or [type |-> "unfit"] when a key of it is no number or it is    *)
(* neither text nor a mapping.                                             *)
(*                                                                         *)
(* A value is a record [kind, value]; value is a sequence, of the number   *)
(* or of the OID's numbers, or it has the labels by their numbers.         *)
(***************************************************************************)
EXTENDS Integers, SequencesExt

NewEnumRegistry == [ints |-> <<>>, oids |-> <<>>]

bitmapOIDs(defs) ==
    UNION {{oid \in DOMAIN d.attributes : d.attributes[oid].syntax = "EnumBitmap"} : d \in defs}

Entries(file, type) == {oid \in DOMAIN file.enums : file.enums[oid].type = type}

\* A file's entries replace those of the same type and OID read before.
Registered(registry, file, bitmaps) ==
    LET ints == Entries(file, "ints")
        oids == Entries(file, "oid")
    IN  [ints |-> [oid \in DOMAIN registry.ints \cup ints |->
                      IF oid \in ints
                      THEN [isBitmap |-> oid \in bitmaps, values |-> file.enums[oid].values]
                      ELSE registry.ints[oid]],
         oids |-> [oid \in DOMAIN registry.oids \cup oids |->
                      IF oid \in oids THEN file.enums[oid].label ELSE registry.oids[oid]]]

\* The files in the order of their paths; one that does not parse is skipped.
loadEnums(files, defs) ==
    LET after[n \in 0..Len(files)] ==
            IF n = 0 THEN NewEnumRegistry
            ELSE IF files[n].parses THEN Registered(after[n - 1], files[n], bitmapOIDs(defs))
                 ELSE after[n - 1]
    IN  after[Len(files)]

Labels(labels) == [kind |-> "label", value |-> labels]

\* Bit b of a number in two's complement.
IsSet(number, b) == (number \div 2^b) % 2 = 1

\* The labels of the bits that are set, or the number as it is.
resolveBitmap(values, v) ==
    LET active == {b \in DOMAIN values \cap (0..63) : IsSet(Head(v.value), b)}
    IN  IF active = {} THEN v ELSE Labels([b \in active |-> values[b]])

\* EnumRegistry.Resolve: a label of the OID itself, or of the OID that is the value, comes
\* before those of its numbers; what has no label stays as it is.
Resolve(registry, oid, v) ==
    CASE oid \in DOMAIN registry.oids ->
             Labels(<<registry.oids[oid]>>)
      [] oid \notin DOMAIN registry.oids /\ v.kind = "oid" /\ v.value \in DOMAIN registry.oids ->
             Labels(<<registry.oids[v.value]>>)
      [] oid \in DOMAIN registry.ints \ DOMAIN registry.oids /\ v.kind \in {"number", "negative"} ->
             LET enum == registry.ints[oid]
             IN  IF enum.isBitmap THEN resolveBitmap(enum.values, v)
                 ELSE IF Head(v.value) \in DOMAIN enum.values
                      THEN Labels([n \in {Head(v.value)} |-> enum.values[n]])
                      ELSE v
      [] OTHER -> v
=============================================================================
