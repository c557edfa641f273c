------------------------------ MODULE Collect ------------------------------
(***************************************************************************)
(* One poll job from the request to the message: SNMPPoller.Poll with     *)
(* doGet and doWalk (internal/poller/poller.go), the worker that hands on  *)
(* the answer (worker.go), the stages that decode, build and format        *)
(* (app.go, see Decode), and the labels read at the start (see Enums).     *)
(*                                                                         *)
(* doGet asks for the scalars in batches. Some agents cannot answer a      *)
(* batch with an unknown OID in it; then each OID is asked for alone.      *)
(* Requests may time out at any point.                                     *)
(***************************************************************************)
EXTENDS Integers, Sequences, FiniteSets, Decode

CONSTANTS
    ObjectDefs,  \* object definitions, see Decode
    EnumFiles,   \* the files of labels, see Enums
    MIBs,        \* devices: sequences of [column, index, kind, value] in the order of OIDs
    MaxOids      \* how many OIDs a request may hold

ASSUME MaxOidsAssumption == MaxOids \in Nat \ {0}

ASSUME ObjectDefsAssumption == \A d \in ObjectDefs :
    /\ d.table \in BOOLEAN
    /\ IsFiniteSet(DOMAIN d.attributes)
    /\ \A o \in DOMAIN d.attributes :
           o \in Seq(Nat) \ {<<>>} /\ d.attributes[o].isTag \in BOOLEAN

ASSUME EnumFilesAssumption == Len(EnumFiles) \in Nat /\ DOMAIN EnumFiles = 1..Len(EnumFiles)

\* Under one OID a device has one variable, and nothing below it.
ASSUME MIBsAssumption == \A m \in MIBs :
    /\ Len(m) \in Nat /\ DOMAIN m = 1..Len(m)
    /\ \A i \in DOMAIN m : /\ m[i].column \in Seq(Nat) /\ m[i].index \in Seq(Nat)
                           /\ m[i].kind \in Kinds \ {"none"}
    /\ \A i, j \in DOMAIN m :
           IsPrefix(m[i].column \o m[i].index, m[j].column \o m[j].index) => i = j

\* Devices and definitions keep to the SMI. Below a column there is no other: the longest
\* attribute above a variable is its column. A scalar has the instance 0; its column
\* is written with it where the definition does that.
ASSUME ColumnsAssumption == \A d \in ObjectDefs : \A m \in MIBs : \A i \in DOMAIN m :
    LET c == m[i]
        matches == Matches(d, c.column \o c.index)
    IN  /\ matches # {} => Max(matches) = Len(c.column)
        /\ c.column \in DOMAIN d.attributes =>
               /\ c.index = <<>> => Last(c.column) = 0
               /\ isScalar(d) => c.index = IF Last(c.column) = 0 THEN <<>> ELSE <<0>>

VARIABLES
    def,      \* the object polled
    mib,      \* the variables of the device
    registry, \* the labels of the producer
    agent,    \* how the device answers a batch with an unknown OID
    phase,    \* where the poll is
    todo,     \* OIDs doGet has yet to ask for
    singles,  \* OIDs of an unusable batch, to be asked for one by one
    pdus,     \* the answer so far
    missed,   \* history: OIDs whose single request failed
    status,   \* PollStatus, "none" until the poll is over
    message   \* what is passed on for the transport, NoMessage until then

vars == <<def, mib, registry, agent, phase, todo, singles, pdus, missed, status, message>>

world == <<def, mib, registry, agent>>

NoMessage == [status |-> "none", metrics |-> {}]

Agents == {"answers", "empty", "allErrors"}

\* The variables of the device as a walk returns them.
Variables == [i \in DOMAIN mib |-> [oid   |-> mib[i].column \o mib[i].index,
                                   kind  |-> mib[i].kind,
                                   value |-> mib[i].value]]

Known(oid) == \E i \in DOMAIN Variables : Variables[i].oid = oid

NoSuchObject(oid) == [oid |-> oid, kind |-> "none", value |-> <<>>]

\* The answer of the device for one OID, and for a request.
Answer(oid) == IF Known(oid) THEN CHOOSE v \in ToSet(Variables) : v.oid = oid
               ELSE NoSuchObject(oid)

Reply(oids) ==
    IF agent = "answers" \/ \A i \in DOMAIN oids : Known(oids[i])
    THEN [i \in DOMAIN oids |-> Answer(oids[i])]
    ELSE IF agent = "empty" THEN <<>>
         ELSE [i \in DOMAIN oids |-> NoSuchObject(oids[i])]

batchIsUnusable(reply) == \A i \in DOMAIN reply : IsErrorType(reply[i])

\* The OID that a column's labels are given for: a scalar's is written without its ".0".
Labelled(c) == IF c.index = <<>> THEN Front(c.column) ELSE c.column

\* The files have no text for the OID of a column, which would label whatever is in
\* it, and the column that has names of bits is an EnumBitmap under the same OID.
ASSUME LabelsAssumption ==
    \A d \in ObjectDefs : \A m \in MIBs : \A i \in DOMAIN m : \A f \in DOMAIN EnumFiles :
        LET c == m[i]
        IN  /\ c.column \in DOMAIN d.attributes
            /\ isEnumSyntax(d.attributes[c.column].syntax)
            /\ EnumFiles[f].parses
            => /\ Labelled(c) \notin Entries(EnumFiles[f], "oid")
               /\ Labelled(c) \in Entries(EnumFiles[f], "ints") =>
                      (Labelled(c) \in bitmapOIDs(ObjectDefs)
                           <=> d.attributes[c.column].syntax = "EnumBitmap")

\* The OIDs doGet asks for: ".0" is appended unless it is there.
ScalarOids(d) == {IF Last(oid) = 0 THEN oid ELSE Append(oid, 0) : oid \in DOMAIN d.attributes}

NextBatch == SubSeq(todo, 1, Min({MaxOids, Len(todo)}))
Rest      == SubSeq(todo, Len(NextBatch) + 1, Len(todo))

-----------------------------------------------------------------------------
(* Plausible bugs: each replaces one definition below, to show that a property *)
(* notices it. None is part of the specification.                              *)

\* No fall-back to single requests.
GetBatchNoFallback ==
    /\ phase = "get" /\ singles = <<>> /\ todo # <<>>
    /\ todo' = Rest
    /\ pdus' = pdus \o Reply(NextBatch)
    /\ UNCHANGED <<world, phase, singles, missed, status, message>>

-----------------------------------------------------------------------------

\* Labels may be switched off.
Registries == {NewEnumRegistry, loadEnums(EnumFiles, ObjectDefs)}

Init ==
    /\ def \in ObjectDefs
    /\ mib \in MIBs
    /\ registry \in Registries
    /\ agent \in Agents
    /\ phase = "start"
    /\ todo = <<>> /\ singles = <<>> /\ pdus = <<>>
    /\ missed = {}
    /\ status = "none"
    /\ message = NoMessage

\* doGet collects the OIDs; the attributes are a Go map, so in any order.
StartGet ==
    /\ phase = "start" /\ isScalar(def)
    /\ todo' \in SetToSeqs(ScalarOids(def))
    /\ phase' = "get"
    /\ UNCHANGED <<world, singles, pdus, missed, status, message>>

\* A batch is answered; an unusable answer to several OIDs is thrown away.
GetBatch ==
    /\ phase = "get" /\ singles = <<>> /\ todo # <<>>
    /\ todo' = Rest
    /\ IF Len(NextBatch) > 1 /\ batchIsUnusable(Reply(NextBatch))
       THEN singles' = NextBatch /\ UNCHANGED pdus
       ELSE pdus' = pdus \o Reply(NextBatch) /\ UNCHANGED singles
    /\ UNCHANGED <<world, phase, missed, status, message>>

\* A batch times out: the poll ends with what there is, and the session goes.
GetFails ==
    /\ phase = "get" /\ singles = <<>> /\ todo # <<>>
    /\ phase' = "polled"
    /\ status' = "error"
    /\ UNCHANGED <<world, todo, singles, pdus, missed, message>>

\* A single request is answered, or fails and is passed over in silence.
GetSingle ==
    /\ singles # <<>>
    /\ \/ pdus' = pdus \o Reply(<<Head(singles)>>) /\ UNCHANGED missed
       \/ missed' = missed \cup {Head(singles)} /\ UNCHANGED pdus
    /\ singles' = Tail(singles)
    /\ UNCHANGED <<world, phase, todo, status, message>>

GetDone ==
    /\ phase = "get" /\ singles = <<>> /\ todo = <<>>
    /\ phase' = "polled"
    /\ status' = "success"
    /\ UNCHANGED <<world, todo, singles, pdus, missed, message>>

\* Without attributes there is nothing to walk.
WalkFails ==
    /\ phase = "start" /\ ~isScalar(def) /\ DOMAIN def.attributes = {}
    /\ phase' = "polled"
    /\ status' = "error"
    /\ UNCHANGED <<world, todo, singles, pdus, missed, message>>

\* A table is walked, to its end or to a time-out on the way.
WalkTable ==
    /\ phase = "start" /\ ~isScalar(def) /\ DOMAIN def.attributes # {}
    /\ LET all == Walk(Variables, LowestCommonOID(def))
       IN  \/ pdus' = all /\ status' = "success"
           \/ \E n \in 0..Len(all) : pdus' = SubSeq(all, 1, n) /\ status' = "error"
    /\ phase' = "polled"
    /\ UNCHANGED <<world, todo, singles, missed, message>>

\* SNMPDecoder.Decode with the stage around it: an error with nothing decoded ends
\* it, and so does a success with nothing decoded.
Decoded ==
    LET parsed == Parse(def, pdus)
    IN  [varbinds |-> parsed.varbinds,
         dropped  |-> parsed.varbinds = <<>> /\ (parsed.error \/ status = "success")]

\* MetricsProducer.Produce, its stage, and the formatter's: a success without
\* metrics is dropped, and so is what cannot be formatted.
Message(varbinds) ==
    LET metrics == Build(varbinds, registry)
    IN  IF (metrics = {} /\ status = "success") \/ ~Formats(metrics) THEN NoMessage
        ELSE [status |-> status, metrics |-> metrics]

\* The worker drops a failed poll without PDUs; the stages follow.
Process ==
    /\ phase = "polled"
    /\ message' = IF (status = "error" /\ pdus = <<>>) \/ Decoded.dropped THEN NoMessage
                  ELSE Message(Decoded.varbinds)
    /\ phase' = "done"
    /\ UNCHANGED <<world, todo, singles, pdus, missed, status>>

\* The next job.
NextJob ==
    /\ phase = "done"
    /\ def' \in ObjectDefs
    /\ phase' = "start"
    /\ pdus' = <<>> /\ todo' = <<>> /\ missed' = {} /\ status' = "none"
    /\ message' = NoMessage
    /\ UNCHANGED <<mib, registry, agent, singles>>

Next ==
    \/ StartGet
    \/ GetBatch
    \/ GetFails
    \/ GetSingle
    \/ GetDone
    \/ WalkFails
    \/ WalkTable
    \/ Process
    \/ NextJob

Spec == Init /\ [][Next]_vars

-----------------------------------------------------------------------------
\* What the device has of the object, column by column, said without a look at
\* prefixes: the variables of its columns, except those that were missed.
Cells == {c \in ToSet(mib) : /\ c.column \in DOMAIN def.attributes
                             /\ c.column \o c.index \notin missed}
Attr(c)     == def.attributes[c.column]
Fits(c)     == Converts(Attr(c).syntax, c.kind)
RowOf(c)    == IF c.index = <<>> THEN <<0>> ELSE c.index
TagCells(c) == {t \in Cells : Attr(t).isTag /\ RowOf(t) = RowOf(c)}
Rivals(c)   == {d \in Cells : /\ ~Attr(d).isTag
                              /\ Attr(d).name = Attr(c).name /\ RowOf(d) = RowOf(c)}
\* The cell is the most precise source of its metric.
Best(c)     == \A d \in Rivals(c) : syntaxPriority(Attr(d).syntax) <= syntaxPriority(Attr(c).syntax)

\* The definition tells which column a metric and a tag come from: of the columns
\* of one name each has a precision of its own, and there is one tag column of a name.
Unambiguous == \A o1, o2 \in DOMAIN def.attributes :
    LET a1 == def.attributes[o1]
        a2 == def.attributes[o2]
    IN  /\ a1.name = a2.name /\ a1.isTag = a2.isTag
        /\ a1.isTag \/ syntaxPriority(a1.syntax) = syntaxPriority(a2.syntax)
        => o1 = o2

\* The files that can be read and say something of a type about an OID; the last one counts.
Sources(oid, type) == {i \in DOMAIN EnumFiles : EnumFiles[i].parses /\ oid \in Entries(EnumFiles[i], type)}
Entry(oid, type)   == EnumFiles[Max(Sources(oid, type))].enums[oid]

\* The numbers with a name that a cell's number stands for: itself, or the bits set in it.
Named(c, names) == {n \in DOMAIN names :
                       IF Attr(c).syntax = "EnumBitmap" THEN n \in 0..63 /\ IsSet(Head(c.value), n)
                       ELSE n = Head(c.value)}

\* The labels the files have for what a cell's value is as its syntax has it.
LabelsFor(c) ==
    LET v == ConvertValue(Attr(c).syntax, c)
    IN  CASE v.kind = "oid" /\ Sources(v.value, "oid") # {} ->
                 <<Entry(v.value, "oid").label>>
          [] v.kind \in {"number", "negative"} /\ Sources(Labelled(c), "ints") # {} ->
                 LET names == Entry(Labelled(c), "ints").values
                 IN  [n \in Named(c, names) |-> names[n]]
          [] OTHER -> <<>>

Meaning(c) == IF registry # NewEnumRegistry /\ isEnumSyntax(Attr(c).syntax) /\ DOMAIN LabelsFor(c) # {}
              THEN Labels(LabelsFor(c))
              ELSE ConvertValue(Attr(c).syntax, c)

MetricOf(c) == [name |-> Attr(c).name, instance |-> RowOf(c), oid |-> c.column \o c.index,
                value |-> Meaning(c), syntax |-> Attr(c).syntax,
                tags |-> [n \in {Attr(t).name : t \in TagCells(c)} |->
                             LET t == CHOOSE t \in TagCells(c) : Attr(t).name = n
                             IN  t.column \o t.index]]

\* A successful poll yields each cell of the object's rows, from its most precise
\* column, with the label the files have for its value and with its own row's tags,
\* however the agent answers batches and however the batches fall; what is missing was
\* missed by a single request (poller.go:126-180, poll.go:60-163, enrich.go:72-124). It
\* holds when the definition is unambiguous, every value converts and none is a NaN,
\* which costs the whole message.
CollectsEverything ==
    phase = "done" /\ status = "success" /\ Unambiguous /\ (\A c \in Cells : Fits(c) /\ c.kind # "nan")
    => message.metrics = {MetricOf(c) : c \in {d \in Cells : ~Attr(d).isTag /\ Best(d)}}

\* Nothing is made up, failures, partial answers and values that do not convert included: each
\* metric comes from a cell of the object, under that cell's name and row and with its
\* meaning, only one for a name and row, and its tags come from the same row.
NothingMadeUp ==
    /\ \A m \in message.metrics : \E c \in Cells :
           /\ Fits(c) /\ ~Attr(c).isTag
           /\ m.oid = c.column \o c.index /\ m.value = Meaning(c)
           /\ m.name = Attr(c).name /\ m.instance = RowOf(c) /\ m.syntax = Attr(c).syntax
           /\ \A n \in DOMAIN m.tags : \E t \in TagCells(c) :
                  Attr(t).name = n /\ m.tags[n] = t.column \o t.index
    /\ \A m1, m2 \in message.metrics : m1.name = m2.name /\ m1.instance = m2.instance => m1 = m2
=============================================================================
