------------------------------- MODULE Decode -------------------------------
(***************************************************************************)
(* What becomes of the answer of a device: internal/decoder (varbind.go,   *)
(* decoder.go) and Build of internal/producer/metrics/poll.go, without the *)
(* counter deltas (see Counters), and the OID a table is walked from       *)
(* (LowestCommonOID, poller.go).                                           *)
(*                                                                         *)
(* An OID is a sequence of numbers. A PDU says where a value is, of what   *)
(* kind it is, which decides whether it converts to an attribute's syntax, *)
(* and what it is where it may have a label (see Enums). The factors       *)
(* between units and how text looks are left out.                          *)
(*                                                                         *)
(* An object definition is a record: table, whether it has an index, and   *)
(* attributes, from OID to [name, syntax, isTag].                          *)
(***************************************************************************)
EXTENDS Enums

\* "none" stands for NoSuchObject, NoSuchInstance, EndOfMibView and Null, "huge"
\* for a number beyond an int64, "number" for the others that are not negative,
\* "nan" for a float that is no finite number.
Kinds == {"number", "negative", "huge", "float", "nan", "octets", "oid", "none"}

SignedSyntaxes ==
    {"Integer", "Integer32", "InterfaceIndex", "InterfaceIndexOrZero", "TruthValue",
     "RowStatus", "TimeStamp", "TimeInterval", "EnumInteger", "EnumIntegerKeepID", "EnumBitmap"}

UnsignedSyntaxes ==
    {"Unsigned32", "Gauge32", "Counter32", "Counter64", "TimeTicks", "Opaque", "BytesB",
     "TicksSec", "TicksMilliSec", "TicksMicroSec"}

TextSyntaxes ==
    {"DisplayString", "OctetString", "DateAndTime", "PhysAddress", "MacAddress",
     "IpAddress", "IpAddressNoSuffix"}

OidSyntaxes == {"ObjectIdentifier", "EnumObjectIdentifier", "EnumObjectIdentifierKeepOID"}

FloatSyntaxes ==
    {"BandwidthBits", "BandwidthKBits", "BandwidthMBits", "BandwidthGBits",
     "BytesKB", "BytesMB", "BytesGB", "BytesTB", "BytesKiB", "BytesMiB", "BytesGiB",
     "TemperatureC", "TemperatureDeciC", "TemperatureCentiC",
     "PowerWatt", "PowerMilliWatt", "PowerKiloWatt",
     "CurrentAmp", "CurrentMilliAmp", "CurrentMicroAmp",
     "VoltageVolt", "VoltageMilliVolt", "VoltageMicroVolt",
     "FreqHz", "FreqKHz", "FreqMHz", "FreqGHz", "Percent1", "Percent100", "PercentDeci100"}

\* The kinds of value these conversions take.
toInt64   == {"number", "negative"}
toUint64  == {"number", "huge"}
toFloat64 == {"number", "negative", "huge", "float", "nan"}

\* ConvertValue finds a native value. Text and OIDs are made of any value, and a
\* syntax it does not know takes the value as it comes.
Converts(syntax, kind) ==
    /\ kind # "none"
    /\ syntax \in SignedSyntaxes   => kind \in toInt64
    /\ syntax \in UnsignedSyntaxes => kind \in toUint64
    /\ syntax \in FloatSyntaxes    => kind \in toFloat64

\* The native value. The number 5 as an OID is the text "5".
ConvertValue(syntax, pdu) ==
    [kind  |-> CASE syntax \in TextSyntaxes -> "text"
                 [] syntax \in OidSyntaxes /\ pdu.kind \in {"oid", "number"} -> "oid"
                 [] syntax \in OidSyntaxes /\ pdu.kind \notin {"oid", "number"} -> "text"
                 [] syntax \in FloatSyntaxes /\ pdu.kind # "nan" -> "float"
                 [] OTHER -> pdu.kind,
     value |-> pdu.value]

IsErrorType(pdu) == pdu.kind = "none"

isScalar(def) == ~def.table

\* The root of a walk: the longest OID above all attributes.
LowestCommonOID(def) == LongestCommonPrefix(DOMAIN def.attributes)

\* What a walk returns: the variables below the root, which lie together as the MIB
\* is in the order of OIDs.
Walk(mib, root) ==
    LET below == {i \in DOMAIN mib : IsPrefix(root, mib[i].oid)}
    IN  IF below = {} THEN <<>> ELSE SubSeq(mib, Min(below), Max(below))

-----------------------------------------------------------------------------
(* Plausible bugs: each replaces one definition below, to show that a property *)
(* notices it. None is part of the specification.                              *)

\* Only the last number is taken for the instance.
InstanceLast(def, oid, n) == IF n = Len(oid) THEN <<0>> ELSE <<Last(oid)>>

\* The labels are looked up under the OID of the varbind.
BaseOIDKept(vb) == vb.oid

-----------------------------------------------------------------------------
\* matchAttribute: the lengths of the prefixes of an OID that are attributes.
Matches(def, oid) == {n \in 1..Len(oid) : SubSeq(oid, 1, n) \in DOMAIN def.attributes}

\* What follows the attribute's OID; 0 for a scalar defined with its ".0".
Instance(def, oid, n) == IF n = Len(oid) THEN <<0>> ELSE SubSeq(oid, n + 1, Len(oid))

\* The attribute with the longest of these prefixes.
Attribute(def, oid) == def.attributes[SubSeq(oid, 1, Max(Matches(def, oid)))]

\* A decoded varbind.
Varbind(def, pdu) ==
    LET n == Max(Matches(def, pdu.oid))
        a == Attribute(def, pdu.oid)
    IN  [oid |-> pdu.oid, name |-> a.name, instance |-> Instance(def, pdu.oid, n),
         value |-> ConvertValue(a.syntax, pdu), syntax |-> a.syntax, isTag |-> a.isTag]

\* VarbindParser.Parse: PDUs without a value or an attribute are skipped; the
\* first value that cannot be converted ends the loop with an error, and what was
\* decoded before it is returned. A varbind keeps the number of its PDU.
Parse(def, pdus) ==
    LET polled  == {i \in DOMAIN pdus : ~IsErrorType(pdus[i]) /\ Matches(def, pdus[i].oid) # {}}
        unfit   == {i \in polled : ~Converts(Attribute(def, pdus[i].oid).syntax, pdus[i].kind)}
        decoded == {i \in polled : \A j \in unfit : i < j}
    IN  [varbinds |-> [i \in decoded |-> Varbind(def, pdus[i])], error |-> unfit # {}]

syntaxPriority(s) ==
    CASE s = "Counter64"      -> 20
      [] s = "BandwidthGBits" -> 14
      [] s = "BandwidthMBits" -> 13
      [] s = "BandwidthKBits" -> 12
      [] s \in {"BandwidthBits", "Gauge32"} -> 11
      [] s = "Counter32"      -> 10
      [] OTHER                -> 0

\* Override resolution: the first of the candidates with the highest priority.
Winner(vbs, cands) ==
    Min({i \in cands : \A j \in cands :
             syntaxPriority(vbs[j].syntax) <= syntaxPriority(vbs[i].syntax)})

\* The tags of an instance: under each name the OID of the last varbind that
\* carries it.
TagsOf(vbs, instance) ==
    LET tags == {i \in DOMAIN vbs : vbs[i].isTag /\ vbs[i].instance = instance}
    IN  [n \in {vbs[i].name : i \in tags} |-> vbs[Max({i \in tags : vbs[i].name = n})].oid]

isEnumSyntax(s) == s \in {"EnumInteger", "EnumIntegerKeepID", "EnumBitmap",
                           "EnumObjectIdentifier", "EnumObjectIdentifierKeepOID"}

\* The OID a label is looked up under: without the instance.
BaseOID(vb) == IF IsSuffix(vb.instance, vb.oid)
               THEN SubSeq(vb.oid, 1, Len(vb.oid) - Len(vb.instance))
               ELSE vb.oid

\* The metric of a varbind, with the labels of its value.
Metric(vbs, vb, registry) ==
    [name |-> vb.name, instance |-> vb.instance, oid |-> vb.oid, syntax |-> vb.syntax,
     value |-> IF isEnumSyntax(vb.syntax) THEN Resolve(registry, BaseOID(vb), vb.value)
               ELSE vb.value,
     tags  |-> TagsOf(vbs, vb.instance)]

\* The varbinds that compete with one for its metric, itself included.
Candidates(vbs, i) == {j \in DOMAIN vbs : /\ ~vbs[j].isTag
                                          /\ vbs[j].instance = vbs[i].instance
                                          /\ vbs[j].name = vbs[i].name}

\* Build: one metric for each instance and name.
Build(vbs, registry) ==
    {Metric(vbs, vbs[Winner(vbs, Candidates(vbs, i))], registry) :
        i \in {j \in DOMAIN vbs : ~vbs[j].isTag}}

\* JSON has no numeral for it, and then there is no message at all.
Formats(metrics) == \A m \in metrics : m.value.kind # "nan"
=============================================================================
