--------------------------- MODULE Collect_proofs ---------------------------
(***************************************************************************)
(* Proofs about Collect, for any definitions, devices and files of labels  *)
(* that keep to the assumptions there, and any size of batch.              *)
(*                                                                         *)
(* They go along the way of an answer. Each PDU that matters is a cell of  *)
(* the object, and its varbind says so (VarbindsAreCells); what was        *)
(* received is decoded if it converts (CellsAreVarbinds). The loop over    *)
(* the files leaves what the last of them says (RegistryHas), and Resolve  *)
(* makes of a value what it means (MeaningIs). So whatever is built is     *)
(* grounded in the cells (BuildIsGrounded), and if all was received,       *)
(* everything is built (AllBuilt). That a successful poll has received all *)
(* that it has not missed is the part about the requests: the inductive    *)
(* invariant IInv, whose heart is Asking.                                  *)
(***************************************************************************)
EXTENDS Collect, LoopLemmas, SequenceTheorems, TLAPS

OidOf(c) == c.column \o c.index
VarOf(c) == [oid |-> OidOf(c), kind |-> c.kind, value |-> c.value]

\* What a poll may get: a variable of the device, or that there is none.
Answers == ToSet(Variables) \cup [oid : Seq(Nat), kind : {"none"}, value : {<<>>}]

World ==
    /\ def \in ObjectDefs
    /\ mib \in MIBs
    /\ registry \in Registries
    /\ agent \in Agents

\* The device's variables, as the model's cells and as a walk has them.
LEMMA MIBIs ==
    ASSUME World
    PROVE  /\ Len(mib) \in Nat /\ DOMAIN mib = 1..Len(mib)
           /\ \A i \in DOMAIN mib : /\ mib[i].column \in Seq(Nat) /\ mib[i].index \in Seq(Nat)
                                    /\ OidOf(mib[i]) \in Seq(Nat)
                                    /\ mib[i].kind \in Kinds \ {"none"}
                                    /\ Variables[i] = VarOf(mib[i])
           /\ Variables = [i \in DOMAIN mib |-> VarOf(mib[i])]
BY MIBsAssumption DEF World, Variables, VarOf, OidOf

\* A cell is a variable of the device in a column of the object.
LEMMA CellIs ==
    ASSUME NEW c \in Cells, World
    PROVE  /\ c \in ToSet(mib)
           /\ c.column \in DOMAIN def.attributes
           /\ OidOf(c) \notin missed
           /\ c.column \in Seq(Nat) /\ c.index \in Seq(Nat) /\ OidOf(c) \in Seq(Nat)
           /\ c.column # <<>>
           /\ c.kind \in Kinds \ {"none"}
           /\ VarOf(c) \in ToSet(Variables)
BY MIBIs, ObjectDefsAssumption DEF Cells, ToSet, OidOf, World

\* A sequence is a prefix of itself.
LEMMA PrefixOfItself == ASSUME NEW s \in Seq(Nat) PROVE IsPrefix(s, s)
BY DEF IsPrefix

\* Under one OID there is one variable.
LEMMA OneVariable ==
    ASSUME NEW c \in ToSet(mib), NEW d \in ToSet(mib), World, OidOf(c) = OidOf(d)
    PROVE  c = d
<1>1. PICK i \in DOMAIN mib : mib[i] = c
  BY DEF ToSet
<1>2. PICK j \in DOMAIN mib : mib[j] = d
  BY DEF ToSet
<1>3. IsPrefix(OidOf(c), OidOf(d))
  BY <1>1, MIBIs, PrefixOfItself
<1>4. i = j
  BY <1>1, <1>2, <1>3, MIBsAssumption DEF World, OidOf
<1> QED BY <1>1, <1>2, <1>4

\* A sequence is a prefix of what it begins.
LEMMA PrefixOfConcat == ASSUME NEW s \in Seq(Nat), NEW t \in Seq(Nat) PROVE IsPrefix(s, s \o t)
<1>1. s \o t \in Seq(Nat) /\ Len(s \o t) = Len(s) + Len(t) /\ Len(s) \in Nat /\ Len(t) \in Nat
  BY ConcatProperties, LenProperties
<1>2. \A i \in 1..Len(s) : (s \o t)[i] = s[i]
  BY ConcatProperties
<1>3. SubSeq(s \o t, 1, Len(s)) = [i \in 1..Len(s) |-> (s \o t)[i]]
  BY <1>1, SubSeqProperties
<1>4. SubSeq(s, 1, Len(s)) = [i \in 1..Len(s) |-> s[i]]
  BY <1>1, SubSeqProperties
<1> QED BY <1>1, <1>2, <1>3, <1>4 DEF IsPrefix

\* A concatenation can be cut where it was joined.
LEMMA ColumnBegins ==
    ASSUME NEW s \in Seq(Nat), NEW t \in Seq(Nat)
    PROVE  /\ SubSeq(s \o t, 1, Len(s)) = s
           /\ SubSeq(s \o t, Len(s) + 1, Len(s \o t)) = t
           /\ Len(s \o t) = Len(s) + Len(t)
           /\ Len(s) \in Nat /\ Len(t) \in Nat
BY SubSeqOfConcat1, SubSeqOfConcat2, ConcatProperties, LenProperties, SubSeqFull

\* In a row a column has one variable.
LEMMA OneCell ==
    ASSUME NEW c \in Cells, NEW d \in Cells, World, c.column = d.column, RowOf(c) = RowOf(d)
    PROVE  c = d
<1>1. CASE c.index = d.index
  BY <1>1, CellIs, OneVariable DEF OidOf
<1>2. CASE c.index # d.index
  <2>1. ASSUME NEW a \in Cells, NEW b \in Cells, a.column = b.column, a.index = <<>> PROVE a = b
    <3>1. OidOf(a) = a.column
      BY <2>1, CellIs, ConcatEmptySeq DEF OidOf
    <3>2. IsPrefix(OidOf(a), OidOf(b))
      BY <2>1, <3>1, CellIs, PrefixOfConcat DEF OidOf
    <3>3. PICK i \in DOMAIN mib, j \in DOMAIN mib : mib[i] = a /\ mib[j] = b
      BY CellIs DEF ToSet
    <3>4. i = j
      BY <3>2, <3>3, MIBsAssumption DEF World, OidOf
    <3> QED BY <3>3, <3>4
  <2>2. c.index = <<>> \/ d.index = <<>>
    BY <1>2 DEF RowOf
  <2> QED BY <2>1, <2>2
<1> QED BY <1>1, <1>2

\* The longest attribute above an OID exists if there is any.
LEMMA Matching ==
    ASSUME NEW oid \in Seq(Nat), World
    PROVE  /\ Matches(def, oid) \subseteq 1..Len(oid)
           /\ Len(oid) \in Nat
           /\ Matches(def, oid) # {} => Max(Matches(def, oid)) \in Matches(def, oid)
<1>1. Len(oid) \in Nat /\ Matches(def, oid) \subseteq 1..Len(oid)
  BY LenProperties DEF Matches
<1> HIDE DEF World
<1>2. \A x \in Matches(def, oid) : x <= Len(oid) /\ x \in Int
  BY <1>1
<1> QED BY <1>1, <1>2, MaxBounded

\* A variable belongs to an attribute exactly if it is in one of the object's columns.
LEMMA MatchesColumn ==
    ASSUME NEW c \in ToSet(mib), World
    PROVE  /\ c.column \in DOMAIN def.attributes <=> Matches(def, OidOf(c)) # {}
           /\ c.column \in DOMAIN def.attributes => Max(Matches(def, OidOf(c))) = Len(c.column)
<1>1. PICK i \in DOMAIN mib : mib[i] = c
  BY DEF ToSet
<1>2. c.column \in Seq(Nat) /\ c.index \in Seq(Nat) /\ OidOf(c) \in Seq(Nat)
  BY <1>1, MIBIs
<1>3. SubSeq(OidOf(c), 1, Len(c.column)) = c.column
  BY <1>2, ColumnBegins DEF OidOf
<1>4. Len(OidOf(c)) = Len(c.column) + Len(c.index) /\ Len(c.column) \in Nat /\ Len(c.index) \in Nat
  BY <1>2, ColumnBegins DEF OidOf
<1>5. Matches(def, OidOf(c)) # {} => Max(Matches(def, OidOf(c))) = Len(c.column)
  BY <1>1, ColumnsAssumption DEF World, OidOf
<1>6. ASSUME Matches(def, OidOf(c)) # {} PROVE c.column \in DOMAIN def.attributes
  <2>1. Len(c.column) \in Matches(def, OidOf(c))
    BY <1>2, <1>5, <1>6, Matching
  <2> QED BY <1>3, <2>1 DEF Matches
<1>7. ASSUME c.column \in DOMAIN def.attributes PROVE Matches(def, OidOf(c)) # {}
  <2>1. c.column # <<>>
    BY <1>7, ObjectDefsAssumption DEF World
  <2>2. Len(c.column) # 0
    BY <1>2, <2>1, EmptySeq
  <2> DEFINE n == Len(c.column)
             k == Len(OidOf(c))
             m == Len(c.index)
  <2>3. n \in 1..k
    <3>1. n \in Nat /\ n # 0 /\ m \in Nat /\ k = n + m
      BY <1>4, <2>2
    <3> HIDE DEF n, m, k
    <3> QED BY <3>1
  <2> QED BY <1>3, <1>7, <2>3 DEF Matches
<1> QED BY <1>5, <1>6, <1>7

-----------------------------------------------------------------------------
\* The varbind that a cell becomes.
VarbindOf(c) == [oid |-> OidOf(c), name |-> Attr(c).name, instance |-> RowOf(c),
                 value |-> ConvertValue(Attr(c).syntax, c),
                 syntax |-> Attr(c).syntax, isTag |-> Attr(c).isTag]

\* The attribute and the row that are found for a cell's OID are its own.
LEMMA CellMatches ==
    ASSUME NEW c \in Cells, World
    PROVE  /\ Matches(def, OidOf(c)) # {}
           /\ Attribute(def, OidOf(c)) = Attr(c)
           /\ Instance(def, OidOf(c), Max(Matches(def, OidOf(c)))) = RowOf(c)
<1>1. c \in ToSet(mib) /\ c.column \in DOMAIN def.attributes
      /\ c.column \in Seq(Nat) /\ c.index \in Seq(Nat) /\ OidOf(c) \in Seq(Nat)
  BY CellIs
<1>2. Matches(def, OidOf(c)) # {} /\ Max(Matches(def, OidOf(c))) = Len(c.column)
  BY <1>1, MatchesColumn
<1>3. SubSeq(OidOf(c), 1, Len(c.column)) = c.column
      /\ SubSeq(OidOf(c), Len(c.column) + 1, Len(OidOf(c))) = c.index
      /\ Len(OidOf(c)) = Len(c.column) + Len(c.index) /\ Len(c.column) \in Nat /\ Len(c.index) \in Nat
  BY <1>1, ColumnBegins DEF OidOf
<1>4. Attribute(def, OidOf(c)) = Attr(c)
  BY <1>2, <1>3 DEF Attribute, Attr
<1>5. Len(c.index) = 0 <=> c.index = <<>>
  BY <1>1, EmptySeq
<1> DEFINE n == Len(c.column)
           k == Len(OidOf(c))
           m == Len(c.index)
<1>6. n = k <=> m = 0
  <2>1. n \in Nat /\ m \in Nat /\ k = n + m
    BY <1>3
  <2> HIDE DEF n, m, k
  <2> QED BY <2>1
<1> QED BY <1>2, <1>3, <1>4, <1>5, <1>6 DEF Instance, RowOf

\* Decoding the PDU of a cell gives its varbind.
LEMMA VarbindIs ==
    ASSUME NEW c \in Cells, World
    PROVE  Varbind(def, VarOf(c)) = VarbindOf(c)
<1>1. VarOf(c).oid = OidOf(c) /\ VarOf(c).kind = c.kind /\ VarOf(c).value = c.value
  BY DEF VarOf
<1>2. ConvertValue(Attr(c).syntax, VarOf(c)) = ConvertValue(Attr(c).syntax, c)
  BY <1>1 DEF ConvertValue
<1> QED BY <1>1, <1>2, CellMatches DEF Varbind, VarbindOf

-----------------------------------------------------------------------------
\* The PDUs that come from cells.
Fresh == /\ pdus \in Seq(Answers)
         /\ \A v \in ToSet(pdus) : v.kind # "none" => v.oid \notin missed

\* The PDUs lie at 1 to their number.
LEMMA PdusAre ==
    ASSUME Fresh
    PROVE  /\ Len(pdus) \in Nat /\ DOMAIN pdus = 1..Len(pdus)
           /\ \A i \in DOMAIN pdus : pdus[i] \in Answers
BY LenProperties, ElementOfSeq DEF Fresh

Varbinds == Parse(def, pdus).varbinds

IsFrom(i, c) == pdus[i] = VarOf(c) /\ Fits(c) /\ Varbinds[i] = VarbindOf(c)

\* A PDU with a value and an attribute is a cell's.
LEMMA PduOfCell ==
    ASSUME World, Fresh, NEW i \in DOMAIN pdus, pdus[i].kind # "none", Matches(def, pdus[i].oid) # {}
    PROVE  \E c \in Cells : pdus[i] = VarOf(c)
<1>1. pdus[i] \in ToSet(Variables)
  BY PdusAre DEF Answers
<1>2. PICK k \in DOMAIN mib : pdus[i] = VarOf(mib[k])
  BY <1>1, MIBIs DEF ToSet
<1>3. mib[k] \in ToSet(mib) /\ pdus[i].oid = OidOf(mib[k])
  BY <1>2 DEF ToSet, VarOf
<1>4. mib[k].column \in DOMAIN def.attributes
  BY <1>3, MatchesColumn
<1>5. mib[k] \in Cells
  BY <1>3, <1>4 DEF Cells, Fresh, OidOf, ToSet
<1> QED BY <1>2, <1>5

\* Whatever is decoded is a cell that converts.
LEMMA VarbindsAreCells ==
    ASSUME World, Fresh
    PROVE  /\ DOMAIN Varbinds \subseteq 1..Len(pdus)
           /\ \A i \in DOMAIN Varbinds : \E c \in Cells : IsFrom(i, c)
<1> DEFINE polled  == {i \in DOMAIN pdus : ~IsErrorType(pdus[i]) /\ Matches(def, pdus[i].oid) # {}}
           unfit   == {i \in polled : ~Converts(Attribute(def, pdus[i].oid).syntax, pdus[i].kind)}
           decoded == {i \in polled : \A j \in unfit : i < j}
<1>1. Varbinds = [i \in decoded |-> Varbind(def, pdus[i])]
  BY DEF Varbinds, Parse
<1>2. DOMAIN pdus = 1..Len(pdus) /\ Len(pdus) \in Nat
  BY PdusAre
<1>3. ASSUME NEW i \in decoded PROVE \E c \in Cells : IsFrom(i, c)
  <2>1. PICK c \in Cells : pdus[i] = VarOf(c)
    BY PduOfCell DEF IsErrorType
  <2>2. i \notin unfit
    BY <1>2
  <2>3. Fits(c)
    BY <2>1, <2>2, CellMatches DEF Fits, VarOf
  <2>4. Varbinds[i] = VarbindOf(c)
    BY <1>1, <2>1, VarbindIs
  <2> QED BY <2>1, <2>3, <2>4 DEF IsFrom
<1> QED BY <1>1, <1>2, <1>3

\* If everything converts every cell that was received is decoded.
LEMMA CellsAreVarbinds ==
    ASSUME World, Fresh, \A c \in Cells : Fits(c), NEW c \in Cells, VarOf(c) \in ToSet(pdus)
    PROVE  \E i \in DOMAIN Varbinds : IsFrom(i, c)
<1> DEFINE polled  == {i \in DOMAIN pdus : ~IsErrorType(pdus[i]) /\ Matches(def, pdus[i].oid) # {}}
           unfit   == {i \in polled : ~Converts(Attribute(def, pdus[i].oid).syntax, pdus[i].kind)}
           decoded == {i \in polled : \A j \in unfit : i < j}
<1>1. Varbinds = [i \in decoded |-> Varbind(def, pdus[i])]
  BY DEF Varbinds, Parse
<1>2. PICK i \in DOMAIN pdus : pdus[i] = VarOf(c)
  BY DEF ToSet
<1>3. unfit = {}
  <2> SUFFICES ASSUME NEW j \in unfit PROVE FALSE
    OBVIOUS
  <2>1. PICK d \in Cells : pdus[j] = VarOf(d)
    BY PduOfCell DEF IsErrorType
  <2> QED BY <2>1, CellMatches DEF Fits, VarOf
<1>4. i \in polled
  BY <1>2, CellMatches, CellIs DEF VarOf, IsErrorType
<1>5. i \in DOMAIN Varbinds /\ Varbinds[i] = Varbind(def, pdus[i])
  BY <1>1, <1>3, <1>4
<1> QED BY <1>2, <1>5, VarbindIs DEF IsFrom

-----------------------------------------------------------------------------
(* The labels: what the loop over the files computes, said without a loop. *)

\* Of the first n files those that say something of a type about an OID.
Which(n, oid, type) == {k \in 1..n : EnumFiles[k].parses /\ oid \in Entries(EnumFiles[k], type)}

Said(n, type) == UNION {Entries(EnumFiles[k], type) : k \in {j \in 1..n : EnumFiles[j].parses}}

Registry(n) ==
    [ints |-> [oid \in Said(n, "ints") |->
                  [isBitmap |-> oid \in bitmapOIDs(ObjectDefs),
                   values   |-> EnumFiles[Max(Which(n, oid, "ints"))].enums[oid].values]],
     oids |-> [oid \in Said(n, "oid") |-> EnumFiles[Max(Which(n, oid, "oid"))].enums[oid].label]]

\* An OID is among those that are spoken of if a file speaks of it.
LEMMA SaidIs == ASSUME NEW n \in Nat, NEW type
                PROVE  \A oid : oid \in Said(n, type) <=> Which(n, oid, type) # {}
BY DEF Said, Which

\* The last file that says something about an OID, after one more file.
LEMMA OneMore ==
    ASSUME NEW n \in Nat, n # 0, NEW type, NEW oid
    PROVE  /\ ~EnumFiles[n].parses \/ oid \notin Entries(EnumFiles[n], type)
                  => Which(n, oid, type) = Which(n - 1, oid, type)
           /\ EnumFiles[n].parses /\ oid \in Entries(EnumFiles[n], type) => Max(Which(n, oid, type)) = n
<1>1. 1..n = (1..(n - 1)) \cup {n}
  OBVIOUS
<1>2. ~EnumFiles[n].parses \/ oid \notin Entries(EnumFiles[n], type)
         => Which(n, oid, type) = Which(n - 1, oid, type)
  BY <1>1 DEF Which
<1>3. ASSUME EnumFiles[n].parses, oid \in Entries(EnumFiles[n], type) PROVE Max(Which(n, oid, type)) = n
  <2>1. Which(n, oid, type) \subseteq Int /\ n \in Which(n, oid, type) /\ \A x \in Which(n, oid, type) : x <= n
    BY <1>3 DEF Which
  <2> QED BY <2>1, MaxIs
<1> QED BY <1>2, <1>3

\* The OIDs that are spoken of, after one more file.
LEMMA SaidMore ==
    ASSUME NEW n \in Nat, n # 0, NEW type
    PROVE  Said(n, type) = IF EnumFiles[n].parses THEN Said(n - 1, type) \cup Entries(EnumFiles[n], type)
                           ELSE Said(n - 1, type)
<1>1. 1..n = (1..(n - 1)) \cup {n}
  OBVIOUS
<1> QED BY <1>1 DEF Said

\* One turn of the loop over the files.
LEMMA RegistryStep ==
    ASSUME NEW n \in Nat, n # 0
    PROVE  Registry(n) = IF EnumFiles[n].parses
                         THEN Registered(Registry(n - 1), EnumFiles[n], bitmapOIDs(ObjectDefs))
                         ELSE Registry(n - 1)
<1> DEFINE old == Registry(n - 1)
           bitmaps == bitmapOIDs(ObjectDefs)
           file == EnumFiles[n]
<1>1. CASE ~file.parses
  <2>1. \A type, oid : Which(n, oid, type) = Which(n - 1, oid, type)
    BY <1>1, OneMore
  <2>2. \A type : Said(n, type) = Said(n - 1, type)
    BY <1>1, SaidMore
  <2>3. /\ \A oid : Which(n, oid, "ints") = Which(n - 1, oid, "ints")
        /\ \A oid : Which(n, oid, "oid") = Which(n - 1, oid, "oid")
        /\ Said(n, "ints") = Said(n - 1, "ints") /\ Said(n, "oid") = Said(n - 1, "oid")
    BY <2>1, <2>2
  <2>4. Registry(n) = Registry(n - 1)
    BY <2>3 DEF Registry
  <2> QED BY <1>1, <2>4
<1>2. CASE file.parses
  <2> DEFINE new == Registered(old, file, bitmaps)
  <2>1. \A type : Said(n, type) = Said(n - 1, type) \cup Entries(file, type)
    BY <1>2, SaidMore
  <2>2. /\ DOMAIN old.ints = Said(n - 1, "ints") /\ DOMAIN old.oids = Said(n - 1, "oid")
        /\ \A oid \in Said(n - 1, "ints") : old.ints[oid] =
               [isBitmap |-> oid \in bitmaps,
                values   |-> EnumFiles[Max(Which(n - 1, oid, "ints"))].enums[oid].values]
        /\ \A oid \in Said(n - 1, "oid") :
               old.oids[oid] = EnumFiles[Max(Which(n - 1, oid, "oid"))].enums[oid].label
    BY DEF Registry
  <2>3. \A type, oid : /\ oid \notin Entries(file, type) => Which(n, oid, type) = Which(n - 1, oid, type)
                       /\ oid \in Entries(file, type) => Max(Which(n, oid, type)) = n
    BY <1>2, OneMore
  <2> HIDE DEF old, bitmaps
  <2>4. new.ints = [oid \in Said(n, "ints") |->
                  [isBitmap |-> oid \in bitmaps,
                   values   |-> EnumFiles[Max(Which(n, oid, "ints"))].enums[oid].values]]
    BY <2>1, <2>2, <2>3 DEF Registered
  <2>5. new.oids = [oid \in Said(n, "oid") |-> EnumFiles[Max(Which(n, oid, "oid"))].enums[oid].label]
    BY <2>1, <2>2, <2>3 DEF Registered
  <2>6. new = [ints |-> new.ints, oids |-> new.oids]
    BY DEF Registered
  <2> HIDE DEF new
  <2>7. Registry(n) = new
    BY <2>4, <2>5, <2>6 DEF Registry, bitmaps
  <2> QED BY <1>2, <2>7 DEF new, old, bitmaps
<1> QED BY <1>1, <1>2

\* There is one function with nothing in its domain.
LEMMA NoFunction == ASSUME NEW f, f = [x \in {} |-> f[x]] PROVE f = <<>>
<1>1. f = [x \in {} |-> 0]
  OBVIOUS
<1> QED BY <1>1

\* loadEnums keeps of each OID what the last file says of it.
LEMMA RegistryIs == loadEnums(EnumFiles, ObjectDefs) = Registry(Len(EnumFiles))
<1> DEFINE n == Len(EnumFiles)
           bitmaps == bitmapOIDs(ObjectDefs)
           After(g) == g = [i \in 0..n |->
               IF i = 0 THEN NewEnumRegistry
               ELSE IF EnumFiles[i].parses THEN Registered(g[i - 1], EnumFiles[i], bitmaps) ELSE g[i - 1]]
           r == [i \in 0..n |-> Registry(i)]
<1>1. n \in Nat
  BY EnumFilesAssumption
<1>2. Registry(0) = NewEnumRegistry
  <2>1. Said(0, "ints") = {} /\ Said(0, "oid") = {}
    BY DEF Said
  <2> DEFINE ints == Registry(0).ints
             oids == Registry(0).oids
  <2>2. ints = [x \in {} |-> ints[x]] /\ oids = [x \in {} |-> oids[x]]
    BY <2>1 DEF Registry
  <2>3. Registry(0) = [ints |-> ints, oids |-> oids]
    BY DEF Registry
  <2> HIDE DEF ints, oids
  <2>4. ints = <<>> /\ oids = <<>>
    BY <2>2, NoFunction
  <2> QED BY <2>3, <2>4 DEF NewEnumRegistry
<1>3. After(r)
  <2>1. ASSUME NEW i \in 0..n
        PROVE  r[i] = IF i = 0 THEN NewEnumRegistry
                      ELSE IF EnumFiles[i].parses THEN Registered(r[i - 1], EnumFiles[i], bitmaps) ELSE r[i - 1]
    <3>1. i # 0 => r[i - 1] = Registry(i - 1)
      BY <1>1
    <3>2. r[i] = Registry(i) /\ i \in Nat
      BY <1>1
    <3> HIDE DEF r
    <3> QED BY <1>2, <3>1, <3>2, RegistryStep
  <2>2. r = [i \in 0..n |-> r[i]]
    OBVIOUS
  <2> HIDE DEF r, n, bitmaps
  <2>3. [i \in 0..n |-> r[i]] = [i \in 0..n |->
               IF i = 0 THEN NewEnumRegistry
               ELSE IF EnumFiles[i].parses THEN Registered(r[i - 1], EnumFiles[i], bitmaps) ELSE r[i - 1]]
    BY <2>1
  <2> QED BY <2>2, <2>3
<1> DEFINE h == CHOOSE g : After(g)
<1>4. After(h)
  <2> HIDE DEF After, r
  <2> QED BY <1>3
<1>5. loadEnums(EnumFiles, ObjectDefs) = h[n]
  BY DEF loadEnums
<1> HIDE DEF h
<1> DEFINE T == {i \in 0..n : h[i] = Registry(i)}
<1>6. 0 \in T
  BY <1>1, <1>2, <1>4
<1>7. \A i \in 1..n : i - 1 \in T => i \in T
  <2> SUFFICES ASSUME NEW i \in 1..n, i - 1 \in T PROVE h[i] = Registry(i)
    BY <1>1
  <2>1. h[i] = IF EnumFiles[i].parses THEN Registered(h[i - 1], EnumFiles[i], bitmaps) ELSE h[i - 1]
    BY <1>1, <1>4
  <2>2. h[i - 1] = Registry(i - 1)
    OBVIOUS
  <2> QED BY <1>1, <2>1, <2>2, RegistryStep
<1>8. \A i \in 0..n : i \in T
  <2> HIDE DEF T, n
  <2> QED BY <1>1, <1>6, <1>7, UpTo
<1>9. h[n] = Registry(n)
  BY <1>1, <1>8
<1> QED BY <1>5, <1>9

\* What the registry has, in the terms of the files.
LEMMA RegistryHas ==
    ASSUME NEW reg, reg = loadEnums(EnumFiles, ObjectDefs)
    PROVE  /\ \A oid : oid \in DOMAIN reg.oids <=> Sources(oid, "oid") # {}
           /\ \A oid : oid \in DOMAIN reg.ints <=> Sources(oid, "ints") # {}
           /\ \A oid \in DOMAIN reg.oids : reg.oids[oid] = Entry(oid, "oid").label
           /\ \A oid \in DOMAIN reg.ints : /\ reg.ints[oid].values = Entry(oid, "ints").values
                                           /\ reg.ints[oid].isBitmap = (oid \in bitmapOIDs(ObjectDefs))
<1> DEFINE n == Len(EnumFiles)
<1>1. n \in Nat /\ \A oid, type : Which(n, oid, type) = Sources(oid, type)
  BY EnumFilesAssumption DEF Which, Sources
<1>2. reg = Registry(n)
  BY RegistryIs
<1> HIDE DEF n
<1>3. /\ reg.ints = [oid \in Said(n, "ints") |->
                  [isBitmap |-> oid \in bitmapOIDs(ObjectDefs),
                   values   |-> EnumFiles[Max(Which(n, oid, "ints"))].enums[oid].values]]
      /\ reg.oids = [oid \in Said(n, "oid") |-> EnumFiles[Max(Which(n, oid, "oid"))].enums[oid].label]
  BY <1>2 DEF Registry
<1> QED BY <1>1, <1>3, SaidIs DEF Entry

\* A sequence is a suffix of what it ends.
LEMMA SuffixOfConcat ==
    ASSUME NEW s \in Seq(Nat), NEW t \in Seq(Nat)
    PROVE  IsSuffix(t, s \o t)
<1> DEFINE u == s \o t
<1>1. u \in Seq(Nat) /\ Len(u) = Len(s) + Len(t) /\ Len(s) \in Nat /\ Len(t) \in Nat
      /\ \A i \in 1..(Len(s) + Len(t)) : u[i] = IF i <= Len(s) THEN s[i] ELSE t[i - Len(s)]
  BY ConcatProperties, LenProperties
<1> HIDE DEF u
<1>2. Reverse(u) = [i \in 1..Len(u) |-> u[(Len(u) - i) + 1]]
      /\ Reverse(t) = [i \in 1..Len(t) |-> t[(Len(t) - i) + 1]]
  BY DEF Reverse
<1>3. Len(Reverse(u)) = Len(u) /\ Len(Reverse(t)) = Len(t)
  BY <1>1, <1>2
<1>4. ASSUME NEW i \in 1..Len(t) PROVE Reverse(u)[i] = Reverse(t)[i]
  <2>1. (Len(u) - i) + 1 \in 1..(Len(s) + Len(t)) /\ (Len(u) - i) + 1 > Len(s)
        /\ ((Len(u) - i) + 1) - Len(s) = (Len(t) - i) + 1 /\ i \in 1..Len(u)
    BY <1>1
  <2> DEFINE k == (Len(u) - i) + 1
             j == (Len(t) - i) + 1
  <2>2. Reverse(u)[i] = u[k] /\ Reverse(t)[i] = t[j]
    BY <1>2, <2>1
  <2>3. k \in 1..(Len(s) + Len(t)) /\ ~(k <= Len(s)) /\ k - Len(s) = j
    BY <1>1
  <2> HIDE DEF k, j
  <2>4. u[k] = t[k - Len(s)]
    BY <1>1, <2>3
  <2> QED BY <2>2, <2>3, <2>4
<1>5. SubSeq(Reverse(u), 1, Len(t)) = [i \in 1..Len(t) |-> Reverse(u)[i]]
      /\ SubSeq(Reverse(t), 1, Len(t)) = [i \in 1..Len(t) |-> Reverse(t)[i]]
  <2>1. Reverse(u) \in Seq(Nat) /\ Reverse(t) \in Seq(Nat)
    <3>1. \A i \in 1..Len(u) : u[(Len(u) - i) + 1] \in Nat
      BY <1>1, ElementOfSeq
    <3>2. \A i \in 1..Len(t) : t[(Len(t) - i) + 1] \in Nat
      BY <1>1, ElementOfSeq
    <3> QED BY <1>1, <1>2, <3>1, <3>2
  <2> DEFINE ru == Reverse(u)
             rt == Reverse(t)
  <2>2. 1 \in 1..(Len(ru) + 1) /\ Len(t) \in 0..Len(ru) /\ Len(t) \in 0..Len(rt)
    BY <1>1, <1>3
  <2> HIDE DEF ru, rt
  <2> QED BY <1>1, <2>1, <2>2, SubSeqProperties DEF ru, rt
<1>6. SubSeq(Reverse(u), 1, Len(t)) = SubSeq(Reverse(t), 1, Len(t))
  BY <1>4, <1>5
<1>7. IsPrefix(Reverse(t), Reverse(u))
  BY <1>1, <1>3, <1>6 DEF IsPrefix
<1> QED BY <1>7 DEF IsSuffix, u

\* The labels of a cell are looked up under the OID they are given for.
LEMMA BaseIs ==
    ASSUME NEW c \in Cells, World
    PROVE  BaseOID(VarbindOf(c)) = Labelled(c)
<1>1. /\ c \in ToSet(mib) /\ c.column \in DOMAIN def.attributes /\ c.column # <<>>
      /\ c.column \in Seq(Nat) /\ c.index \in Seq(Nat) /\ OidOf(c) \in Seq(Nat)
  BY CellIs
<1>2. VarbindOf(c).oid = OidOf(c) /\ VarbindOf(c).instance = RowOf(c)
  BY DEF VarbindOf
<1>3. CASE c.index # <<>>
  <2>1. RowOf(c) = c.index
    BY <1>3 DEF RowOf
  <2>2. IsSuffix(c.index, OidOf(c))
    BY <1>1, SuffixOfConcat DEF OidOf
  <2>3. SubSeq(OidOf(c), 1, Len(c.column)) = c.column
        /\ Len(OidOf(c)) = Len(c.column) + Len(c.index) /\ Len(c.column) \in Nat /\ Len(c.index) \in Nat
    BY <1>1, ColumnBegins DEF OidOf
  <2>4. Len(OidOf(c)) - Len(c.index) = Len(c.column)
    BY <2>3
  <2> QED BY <1>2, <1>3, <2>1, <2>2, <2>3, <2>4 DEF BaseOID, Labelled
<1>4. CASE c.index = <<>>
  <2>1. RowOf(c) = <<0>> /\ OidOf(c) = c.column
    BY <1>1, <1>4, ConcatEmptySeq DEF RowOf, OidOf
  <2>2. Last(c.column) = 0
    BY <1>1, <1>4, ColumnsAssumption DEF World, ToSet
  <2>3. Len(c.column) \in Nat /\ Len(c.column) # 0 /\ Len(<<0>>) = 1
    BY <1>1, EmptySeq, LenProperties
  <2> DEFINE front == SubSeq(c.column, 1, Len(c.column) - 1)
  <2>4. front \in Seq(Nat) /\ Len(front) = Len(c.column) - 1
        /\ \A i \in 1..(Len(c.column) - 1) : front[i] = c.column[i]
    BY <1>1, <2>3, SubSeqProperties
  <2> HIDE DEF front
  <2> DEFINE zero == <<0>>
  <2>5. zero \in Seq(Nat) /\ Len(zero) = 1 /\ zero[1] = 0
    OBVIOUS
  <2> HIDE DEF zero
  <2>6. c.column = front \o zero
    <3>1. front \o zero \in Seq(Nat) /\ Len(front \o zero) = Len(front) + Len(zero)
          /\ \A i \in 1..(Len(front) + Len(zero)) :
                (front \o zero)[i] = IF i <= Len(front) THEN front[i] ELSE zero[i - Len(front)]
      BY <2>4, <2>5, ConcatProperties
    <3>2. Len(front) + Len(zero) = Len(c.column)
      BY <2>3, <2>4, <2>5
    <3>3. ASSUME NEW i \in 1..Len(c.column) PROVE c.column[i] = (front \o zero)[i]
      <4>1. CASE i = Len(c.column)
        <5>1. i - Len(front) = 1 /\ ~(i <= Len(front))
          BY <2>3, <2>4, <4>1
        <5>2. (front \o zero)[i] = zero[1]
          BY <3>1, <3>2, <5>1
        <5> QED BY <2>2, <2>5, <4>1, <5>2 DEF Last
      <4>2. CASE i # Len(c.column)
        <5>1. i \in 1..(Len(c.column) - 1) /\ i <= Len(front)
          BY <2>3, <2>4, <4>2
        <5> QED BY <2>4, <3>1, <3>2, <5>1
      <4> QED BY <4>1, <4>2
    <3> QED BY <1>1, <3>1, <3>2, <3>3, SeqEqual
  <2>8. IsSuffix(zero, c.column)
    BY <2>4, <2>5, <2>6, SuffixOfConcat
  <2>7. BaseOID(VarbindOf(c)) = SubSeq(c.column, 1, Len(c.column) - 1)
    BY <1>2, <2>1, <2>3, <2>8 DEF BaseOID, zero
  <2> QED BY <1>4, <2>7 DEF Labelled, Front
<1> QED BY <1>3, <1>4

\* What Build makes of a cell's value is what the files mean it to be.
LEMMA MeaningIs ==
    ASSUME NEW c \in Cells, World
    PROVE  Meaning(c) = IF isEnumSyntax(Attr(c).syntax)
                        THEN Resolve(registry, BaseOID(VarbindOf(c)), VarbindOf(c).value)
                        ELSE VarbindOf(c).value
<1> DEFINE v == ConvertValue(Attr(c).syntax, c)
           base == Labelled(c)
<1>1. VarbindOf(c).value = v /\ BaseOID(VarbindOf(c)) = base
  BY BaseIs DEF VarbindOf
<1>2. CASE ~isEnumSyntax(Attr(c).syntax)
  BY <1>1, <1>2 DEF Meaning
<1>3. CASE isEnumSyntax(Attr(c).syntax) /\ registry = NewEnumRegistry
  <2>1. DOMAIN registry.oids = {} /\ DOMAIN registry.ints = {}
    BY <1>3 DEF NewEnumRegistry
  <2> HIDE DEF v, base
  <2>2. Resolve(registry, base, v) = v
    BY <2>1 DEF Resolve
  <2> QED BY <1>1, <1>3, <2>2 DEF Meaning, v
<1>4. CASE isEnumSyntax(Attr(c).syntax) /\ registry # NewEnumRegistry
  <2>1. registry = loadEnums(EnumFiles, ObjectDefs)
    BY <1>4 DEF World, Registries
  <2>2. /\ \A oid : oid \in DOMAIN registry.oids <=> Sources(oid, "oid") # {}
        /\ \A oid : oid \in DOMAIN registry.ints <=> Sources(oid, "ints") # {}
        /\ \A oid \in DOMAIN registry.oids : registry.oids[oid] = Entry(oid, "oid").label
        /\ \A oid \in DOMAIN registry.ints :
               /\ registry.ints[oid].values = Entry(oid, "ints").values
               /\ registry.ints[oid].isBitmap = (oid \in bitmapOIDs(ObjectDefs))
    BY <2>1, RegistryHas
  <2>3. c \in ToSet(mib) /\ c.column \in DOMAIN def.attributes
    BY CellIs
  <2>4. /\ base \notin DOMAIN registry.oids
        /\ base \in DOMAIN registry.ints =>
              (registry.ints[base].isBitmap <=> Attr(c).syntax = "EnumBitmap")
    <3>1. PICK i \in DOMAIN mib : mib[i] = c
      BY <2>3 DEF ToSet
    <3>2. ASSUME NEW f \in DOMAIN EnumFiles, EnumFiles[f].parses
          PROVE  /\ base \notin Entries(EnumFiles[f], "oid")
                 /\ base \in Entries(EnumFiles[f], "ints") =>
                       (base \in bitmapOIDs(ObjectDefs) <=> Attr(c).syntax = "EnumBitmap")
      BY <1>4, <2>3, <3>1, <3>2, LabelsAssumption DEF World, Attr
    <3> HIDE DEF base
    <3>3. base \notin DOMAIN registry.oids
      BY <2>2, <3>2 DEF Sources
    <3>4. base \in DOMAIN registry.ints => (base \in bitmapOIDs(ObjectDefs) <=> Attr(c).syntax = "EnumBitmap")
      BY <2>2, <3>2 DEF Sources
    <3> QED BY <2>2, <3>3, <3>4
  <2>5. v.value = c.value
    BY DEF ConvertValue
  <2> HIDE DEF v, base
  <2>6. CASE v.kind = "oid" /\ v.value \in DOMAIN registry.oids
    <3>1. Resolve(registry, base, v) = Labels(<<registry.oids[v.value]>>)
      BY <2>4, <2>6 DEF Resolve
    <3>2. LabelsFor(c) = <<Entry(v.value, "oid").label>>
      BY <2>2, <2>6 DEF LabelsFor, v
    <3>3. DOMAIN LabelsFor(c) # {}
      BY <3>2
    <3> QED BY <1>1, <1>4, <2>2, <2>6, <3>1, <3>2, <3>3 DEF Meaning
  <2>7. CASE ~(v.kind = "oid" /\ v.value \in DOMAIN registry.oids)
             /\ v.kind \in {"number", "negative"} /\ base \in DOMAIN registry.ints
    <3> DEFINE enum == registry.ints[base]
               names == Entry(base, "ints").values
               labels == [n \in Named(c, names) |-> names[n]]
    <3>1. Resolve(registry, base, v) = IF enum.isBitmap THEN resolveBitmap(enum.values, v)
                                       ELSE IF Head(v.value) \in DOMAIN enum.values
                                            THEN Labels([n \in {Head(v.value)} |-> enum.values[n]])
                                            ELSE v
      BY <2>4, <2>7 DEF Resolve
    <3>2. LabelsFor(c) = labels
      BY <2>2, <2>7 DEF LabelsFor, v, base
    <3>3. enum.values = names
      BY <2>2, <2>7
    <3>4. DOMAIN LabelsFor(c) = Named(c, names)
      BY <3>2
    <3>5. Meaning(c) = IF Named(c, names) # {} THEN Labels(labels) ELSE v
      BY <1>4, <3>2, <3>4 DEF Meaning, v
    <3> HIDE DEF enum, names
    <3>6. CASE enum.isBitmap
      <4>1. Attr(c).syntax = "EnumBitmap"
        BY <2>4, <2>7, <3>6 DEF enum
      <4>2. Named(c, names) = {b \in DOMAIN names \cap (0..63) : IsSet(Head(v.value), b)}
        BY <2>5, <4>1 DEF Named
      <4>3. Resolve(registry, base, v) = IF Named(c, names) = {} THEN v ELSE Labels(labels)
        BY <3>1, <3>3, <3>6, <4>2 DEF resolveBitmap
      <4> QED BY <1>1, <1>4, <3>5, <4>3
    <3>7. CASE ~enum.isBitmap
      <4>1. Attr(c).syntax # "EnumBitmap"
        BY <2>4, <2>7, <3>7 DEF enum
      <4>2. Named(c, names) = {n \in DOMAIN names : n = Head(v.value)}
        BY <2>5, <4>1 DEF Named
      <4>3. CASE Head(v.value) \in DOMAIN names
        <5>1. Named(c, names) = {Head(v.value)}
          BY <4>2, <4>3
        <5> QED BY <1>1, <1>4, <3>1, <3>3, <3>5, <3>7, <4>3, <5>1
      <4>4. CASE Head(v.value) \notin DOMAIN names
        <5>1. Named(c, names) = {}
          BY <4>2, <4>4
        <5> QED BY <1>1, <1>4, <3>1, <3>3, <3>5, <3>7, <4>4, <5>1
      <4> QED BY <4>3, <4>4
    <3> QED BY <3>6, <3>7
  <2>8. CASE ~(v.kind = "oid" /\ v.value \in DOMAIN registry.oids)
             /\ ~(v.kind \in {"number", "negative"} /\ base \in DOMAIN registry.ints)
    <3>1. Resolve(registry, base, v) = v
      BY <2>4, <2>8 DEF Resolve
    <3>2. LabelsFor(c) = <<>>
      BY <2>2, <2>8 DEF LabelsFor, v, base
    <3>3. DOMAIN LabelsFor(c) = {}
      BY <3>2
    <3> QED BY <1>1, <1>4, <3>1, <3>3 DEF Meaning, v
  <2> QED BY <2>6, <2>7, <2>8
<1> QED BY <1>2, <1>3, <1>4

-----------------------------------------------------------------------------
Prio(i) == syntaxPriority(Varbinds[i].syntax)

\* Priorities are small numbers.
LEMMA PriorityIs == \A s : syntaxPriority(s) \in 0..20
BY DEF syntaxPriority

\* The candidate that is chosen has the highest priority.
LEMMA WinnerWins ==
    ASSUME World, Fresh, NEW i \in DOMAIN Varbinds, ~Varbinds[i].isTag
    PROVE  /\ i \in Candidates(Varbinds, i)
           /\ Winner(Varbinds, Candidates(Varbinds, i)) \in Candidates(Varbinds, i)
           /\ \A j \in Candidates(Varbinds, i) :
                  Prio(j) <= Prio(Winner(Varbinds, Candidates(Varbinds, i)))
<1> DEFINE C == Candidates(Varbinds, i)
           P == {Prio(j) : j \in C}
           B == {k \in C : \A j \in C : Prio(j) <= Prio(k)}
<1>1. C \subseteq 1..Len(pdus) /\ i \in C /\ Len(pdus) \in Nat
  BY VarbindsAreCells, PdusAre DEF Candidates
<1>2. \A j \in C : Prio(j) \in 0..20
  BY PriorityIs DEF Prio
<1> HIDE DEF C
<1>3. PICK top \in Int : P \subseteq Int /\ P # {} /\ \A x \in P : x <= top
  <2>1. P \subseteq Int /\ P # {} /\ \A x \in P : x <= 20
    BY <1>1, <1>2
  <2> HIDE DEF P
  <2>2. 20 \in Int
    OBVIOUS
  <2> QED BY <2>1, <2>2
<1>4. Max(P) \in P /\ \A x \in P : x <= Max(P)
  <2> HIDE DEF P
  <2> QED BY <1>3, MaxBounded
<1>5. PICK k \in C : Prio(k) = Max(P)
  BY <1>4
<1>6. k \in B
  <2>1. \A j \in C : Prio(j) \in P
    OBVIOUS
  <2> HIDE DEF P
  <2> QED BY <1>4, <1>5, <2>1
<1>7. PICK bottom \in Int : B \subseteq Int /\ \A x \in B : bottom <= x
  BY <1>1
<1>8. Min(B) \in B
  <2> HIDE DEF B
  <2> QED BY <1>6, <1>7, MinBounded
<1>9. Winner(Varbinds, C) = Min(B)
  BY DEF Winner, Prio
<1> DEFINE w == Min(B)
<1>10. w \in C /\ \A j \in C : Prio(j) <= Prio(w)
  BY <1>8
<1> HIDE DEF w
<1> QED BY <1>1, <1>9, <1>10 DEF C, w

\* The tags of a row are those of varbinds in it.
LEMMA TagsFrom ==
    ASSUME World, Fresh, NEW row, NEW T, T = TagsOf(Varbinds, row)
    PROVE  /\ T = [n \in DOMAIN T |-> T[n]]
           /\ \A i \in DOMAIN Varbinds : Varbinds[i].isTag /\ Varbinds[i].instance = row
                  => Varbinds[i].name \in DOMAIN T
           /\ \A n \in DOMAIN T : \E k \in DOMAIN Varbinds :
                  /\ Varbinds[k].isTag /\ Varbinds[k].instance = row /\ Varbinds[k].name = n
                  /\ T[n] = Varbinds[k].oid
<1> DEFINE tags == {i \in DOMAIN Varbinds : Varbinds[i].isTag /\ Varbinds[i].instance = row}
           names == {Varbinds[i].name : i \in tags}
           of(n) == {i \in tags : Varbinds[i].name = n}
<1>1. T = [n \in names |-> Varbinds[Max({i \in tags : Varbinds[i].name = n})].oid]
  BY DEF TagsOf
<1>2. tags \subseteq 1..Len(pdus) /\ Len(pdus) \in Nat
  BY VarbindsAreCells, PdusAre
<1>3. DOMAIN T = names /\ \A n \in names : T[n] = Varbinds[Max(of(n))].oid
  BY <1>1
<1>4. ASSUME NEW n \in names PROVE Max(of(n)) \in of(n)
  <2>1. of(n) # {} /\ of(n) \subseteq Int /\ \A x \in of(n) : x <= Len(pdus)
    BY <1>2
  <2> HIDE DEF of
  <2> QED BY <1>2, <2>1, MaxBounded
<1> QED BY <1>1, <1>3, <1>4

\* What one cell becomes.
LEMMA MetricHas ==
    ASSUME NEW c \in Cells, World, NEW m, m = Metric(Varbinds, VarbindOf(c), registry)
    PROVE  /\ m.oid = OidOf(c) /\ m.value = Meaning(c) /\ m.syntax = Attr(c).syntax
           /\ m.name = Attr(c).name /\ m.instance = RowOf(c)
           /\ m.tags = TagsOf(Varbinds, RowOf(c))
           /\ m = [name |-> Attr(c).name, instance |-> RowOf(c), oid |-> OidOf(c),
                   value |-> Meaning(c), syntax |-> Attr(c).syntax, tags |-> m.tags]
<1> DEFINE vb == VarbindOf(c)
<1>1. vb.oid = OidOf(c) /\ vb.name = Attr(c).name /\ vb.instance = RowOf(c) /\ vb.syntax = Attr(c).syntax
  BY DEF VarbindOf
<1> HIDE DEF vb
<1>2. m = [name |-> vb.name, instance |-> vb.instance, oid |-> vb.oid, syntax |-> vb.syntax,
           value |-> IF isEnumSyntax(vb.syntax) THEN Resolve(registry, BaseOID(vb), vb.value) ELSE vb.value,
           tags  |-> TagsOf(Varbinds, vb.instance)]
  BY DEF Metric, vb
<1>3. Meaning(c) = IF isEnumSyntax(vb.syntax) THEN Resolve(registry, BaseOID(vb), vb.value) ELSE vb.value
  BY <1>1, MeaningIs DEF vb
<1> QED BY <1>1, <1>2, <1>3

\* A metric comes from the cell that wins among those of its name and row.
LEMMA MetricFrom ==
    ASSUME World, Fresh, NEW m \in Build(Varbinds, registry)
    PROVE  \E i, k \in DOMAIN Varbinds, c \in Cells :
               /\ ~Varbinds[i].isTag /\ k = Winner(Varbinds, Candidates(Varbinds, i))
               /\ k \in Candidates(Varbinds, i)
               /\ IsFrom(k, c) /\ ~Attr(c).isTag
               /\ m = Metric(Varbinds, VarbindOf(c), registry)
<1>1. PICK i \in {j \in DOMAIN Varbinds : ~Varbinds[j].isTag} :
          m = Metric(Varbinds, Varbinds[Winner(Varbinds, Candidates(Varbinds, i))], registry)
  BY DEF Build
<1> DEFINE k == Winner(Varbinds, Candidates(Varbinds, i))
<1>2. k \in Candidates(Varbinds, i)
  BY WinnerWins
<1> HIDE DEF k
<1>3. k \in DOMAIN Varbinds /\ ~Varbinds[k].isTag
  BY <1>2 DEF Candidates
<1>4. PICK c \in Cells : IsFrom(k, c)
  BY <1>3, VarbindsAreCells
<1>5. Varbinds[k] = VarbindOf(c) /\ VarbindOf(c).isTag = Attr(c).isTag
  BY <1>4 DEF IsFrom, VarbindOf
<1> QED BY <1>1, <1>2, <1>3, <1>4, <1>5 DEF k

\* NothingMadeUp of a set of metrics.
Grounded(metrics) ==
    /\ \A m \in metrics : \E c \in Cells :
           /\ Fits(c) /\ ~Attr(c).isTag
           /\ m.oid = c.column \o c.index /\ m.value = Meaning(c)
           /\ m.name = Attr(c).name /\ m.instance = RowOf(c) /\ m.syntax = Attr(c).syntax
           /\ \A n \in DOMAIN m.tags : \E t \in TagCells(c) :
                  Attr(t).name = n /\ m.tags[n] = t.column \o t.index
    /\ \A m1, m2 \in metrics : m1.name = m2.name /\ m1.instance = m2.instance => m1 = m2

\* Nothing that is built is made up.
LEMMA BuildIsGrounded ==
    ASSUME World, Fresh
    PROVE  Grounded(Build(Varbinds, registry))
<1>1. ASSUME NEW m \in Build(Varbinds, registry)
      PROVE  \E c \in Cells :
                 /\ Fits(c) /\ ~Attr(c).isTag
                 /\ m.oid = c.column \o c.index /\ m.value = Meaning(c)
                 /\ m.name = Attr(c).name /\ m.instance = RowOf(c) /\ m.syntax = Attr(c).syntax
                 /\ \A n \in DOMAIN m.tags : \E t \in TagCells(c) :
                        Attr(t).name = n /\ m.tags[n] = t.column \o t.index
  <2>1. PICK k \in DOMAIN Varbinds, c \in Cells :
            IsFrom(k, c) /\ ~Attr(c).isTag /\ m = Metric(Varbinds, VarbindOf(c), registry)
    BY MetricFrom
  <2>2. /\ m.oid = c.column \o c.index /\ m.value = Meaning(c)
        /\ m.name = Attr(c).name /\ m.instance = RowOf(c) /\ m.syntax = Attr(c).syntax
        /\ m.tags = TagsOf(Varbinds, RowOf(c))
    BY <2>1, MetricHas DEF OidOf
  <2>3. ASSUME NEW n \in DOMAIN m.tags
        PROVE  \E t \in TagCells(c) : Attr(t).name = n /\ m.tags[n] = t.column \o t.index
    <3>1. PICK j \in DOMAIN Varbinds :
              /\ Varbinds[j].isTag /\ Varbinds[j].instance = RowOf(c) /\ Varbinds[j].name = n
              /\ m.tags[n] = Varbinds[j].oid
      BY <2>2, TagsFrom
    <3>2. PICK t \in Cells : Varbinds[j] = VarbindOf(t)
      BY VarbindsAreCells DEF IsFrom
    <3>3. /\ VarbindOf(t).isTag = Attr(t).isTag /\ VarbindOf(t).instance = RowOf(t)
          /\ VarbindOf(t).name = Attr(t).name /\ VarbindOf(t).oid = t.column \o t.index
      BY DEF VarbindOf, OidOf
    <3>4. /\ Attr(t).isTag /\ RowOf(t) = RowOf(c) /\ Attr(t).name = n
          /\ m.tags[n] = t.column \o t.index
      BY <3>1, <3>2, <3>3
    <3> QED BY <3>4 DEF TagCells
  <2> QED BY <2>1, <2>2, <2>3 DEF IsFrom
<1>2. ASSUME NEW m1 \in Build(Varbinds, registry), NEW m2 \in Build(Varbinds, registry),
             m1.name = m2.name, m1.instance = m2.instance
      PROVE  m1 = m2
  <2>1. ASSUME NEW m \in Build(Varbinds, registry)
        PROVE  \E i \in DOMAIN Varbinds :
                   /\ m.name = Varbinds[i].name /\ m.instance = Varbinds[i].instance
                   /\ m = Metric(Varbinds, Varbinds[Winner(Varbinds, Candidates(Varbinds, i))], registry)
    <3>1. PICK i \in {j \in DOMAIN Varbinds : ~Varbinds[j].isTag} :
              m = Metric(Varbinds, Varbinds[Winner(Varbinds, Candidates(Varbinds, i))], registry)
      BY DEF Build
    <3> DEFINE k == Winner(Varbinds, Candidates(Varbinds, i))
    <3>2. k \in Candidates(Varbinds, i)
      BY WinnerWins
    <3> HIDE DEF k
    <3>3. Varbinds[k].name = Varbinds[i].name /\ Varbinds[k].instance = Varbinds[i].instance
      BY <3>2 DEF Candidates
    <3>4. m.name = Varbinds[k].name /\ m.instance = Varbinds[k].instance
      BY <3>1 DEF Metric, k
    <3> QED BY <3>1, <3>3, <3>4 DEF k
  <2>2. PICK i \in DOMAIN Varbinds :
            /\ m1.name = Varbinds[i].name /\ m1.instance = Varbinds[i].instance
            /\ m1 = Metric(Varbinds, Varbinds[Winner(Varbinds, Candidates(Varbinds, i))], registry)
    BY <2>1
  <2>3. PICK j \in DOMAIN Varbinds :
            /\ m2.name = Varbinds[j].name /\ m2.instance = Varbinds[j].instance
            /\ m2 = Metric(Varbinds, Varbinds[Winner(Varbinds, Candidates(Varbinds, j))], registry)
    BY <2>1
  <2>4. Candidates(Varbinds, i) = Candidates(Varbinds, j)
    BY <1>2, <2>2, <2>3 DEF Candidates
  <2> QED BY <2>2, <2>3, <2>4
<1> QED BY <1>1, <1>2 DEF Grounded

-----------------------------------------------------------------------------
\* The whole object was received and converts.
Received == \A c \in Cells : Fits(c) /\ VarOf(c) \in ToSet(pdus)

\* A cell of an object that was received has a varbind.
LEMMA Position ==
    ASSUME World, Fresh, Received, NEW c \in Cells
    PROVE  \E i \in DOMAIN Varbinds :
               /\ Varbinds[i] = VarbindOf(c)
               /\ Varbinds[i].oid = c.column \o c.index /\ Varbinds[i].name = Attr(c).name
               /\ Varbinds[i].instance = RowOf(c) /\ Varbinds[i].syntax = Attr(c).syntax
               /\ Varbinds[i].isTag = Attr(c).isTag
<1>1. PICK i \in DOMAIN Varbinds : Varbinds[i] = VarbindOf(c)
  BY CellsAreVarbinds DEF IsFrom, Received
<1>2. /\ VarbindOf(c).oid = c.column \o c.index /\ VarbindOf(c).name = Attr(c).name
      /\ VarbindOf(c).instance = RowOf(c) /\ VarbindOf(c).syntax = Attr(c).syntax
      /\ VarbindOf(c).isTag = Attr(c).isTag
  BY DEF VarbindOf, OidOf
<1> QED BY <1>1, <1>2

\* A varbind has a cell.
LEMMA CellOf ==
    ASSUME World, Fresh, NEW i \in DOMAIN Varbinds
    PROVE  \E c \in Cells :
               /\ Varbinds[i] = VarbindOf(c)
               /\ Varbinds[i].oid = c.column \o c.index /\ Varbinds[i].name = Attr(c).name
               /\ Varbinds[i].instance = RowOf(c) /\ Varbinds[i].syntax = Attr(c).syntax
               /\ Varbinds[i].isTag = Attr(c).isTag
<1>1. PICK c \in Cells : Varbinds[i] = VarbindOf(c)
  BY VarbindsAreCells DEF IsFrom
<1>2. /\ VarbindOf(c).oid = c.column \o c.index /\ VarbindOf(c).name = Attr(c).name
      /\ VarbindOf(c).instance = RowOf(c) /\ VarbindOf(c).syntax = Attr(c).syntax
      /\ VarbindOf(c).isTag = Attr(c).isTag
  BY DEF VarbindOf, OidOf
<1> QED BY <1>1, <1>2

\* isTag is a flag.
LEMMA TagIsBoolean == ASSUME World, NEW c \in Cells PROVE Attr(c).isTag \in BOOLEAN
BY CellIs, ObjectDefsAssumption DEF World, Attr

\* The tags of a row that was received are those of its tag cells.
LEMMA TagsAre ==
    ASSUME World, Fresh, Received, Unambiguous, NEW c \in Cells
    PROVE  TagsOf(Varbinds, RowOf(c)) = MetricOf(c).tags
<1> DEFINE T == TagsOf(Varbinds, RowOf(c))
           names == {Attr(t).name : t \in TagCells(c)}
           tag(n) == CHOOSE t \in TagCells(c) : Attr(t).name = n
<1>1. /\ T = [n \in DOMAIN T |-> T[n]]
      /\ \A i \in DOMAIN Varbinds : Varbinds[i].isTag /\ Varbinds[i].instance = RowOf(c)
             => Varbinds[i].name \in DOMAIN T
      /\ \A n \in DOMAIN T : \E k \in DOMAIN Varbinds :
             /\ Varbinds[k].isTag /\ Varbinds[k].instance = RowOf(c) /\ Varbinds[k].name = n
             /\ T[n] = Varbinds[k].oid
  BY TagsFrom
<1> HIDE DEF T
<1>2. ASSUME NEW n \in DOMAIN T
      PROVE  n \in names /\ T[n] = tag(n).column \o tag(n).index
  <2>1. PICK k \in DOMAIN Varbinds :
            /\ Varbinds[k].isTag /\ Varbinds[k].instance = RowOf(c) /\ Varbinds[k].name = n
            /\ T[n] = Varbinds[k].oid
    BY <1>1
  <2>2. PICK t \in Cells :
            /\ Varbinds[k].oid = t.column \o t.index /\ Varbinds[k].name = Attr(t).name
            /\ Varbinds[k].instance = RowOf(t) /\ Varbinds[k].isTag = Attr(t).isTag
    BY CellOf
  <2>3. t \in TagCells(c) /\ Attr(t).name = n
    BY <2>1, <2>2 DEF TagCells
  <2>4. tag(n) \in TagCells(c) /\ Attr(tag(n)).name = n
    BY <2>3
  <2> HIDE DEF tag
  <2>5. /\ t \in Cells /\ tag(n) \in Cells /\ RowOf(tag(n)) = RowOf(t)
        /\ Attr(t).isTag = TRUE /\ Attr(tag(n)).isTag = TRUE
    BY <2>3, <2>4, TagIsBoolean DEF TagCells
  <2>6. t.column = tag(n).column
    BY <2>3, <2>4, <2>5, CellIs DEF Unambiguous, Attr
  <2>7. t = tag(n)
    BY <2>5, <2>6, OneCell
  <2> QED BY <2>1, <2>2, <2>3, <2>7
<1>3. ASSUME NEW t \in TagCells(c) PROVE Attr(t).name \in DOMAIN T
  <2>1. t \in Cells /\ Attr(t).isTag /\ RowOf(t) = RowOf(c)
    BY DEF TagCells
  <2>2. PICK i \in DOMAIN Varbinds :
            /\ Varbinds[i].name = Attr(t).name /\ Varbinds[i].instance = RowOf(t)
            /\ Varbinds[i].isTag = Attr(t).isTag
    BY <2>1, Position
  <2> QED BY <1>1, <2>1, <2>2
<1>4. T = [n \in names |-> tag(n).column \o tag(n).index]
  <2>1. DOMAIN T = names
    BY <1>2, <1>3
  <2> HIDE DEF names, tag
  <2> QED BY <1>1, <1>2, <2>1
<1>5. MetricOf(c).tags = [n \in names |-> tag(n).column \o tag(n).index]
  BY DEF MetricOf
<1> HIDE DEF names, tag
<1> QED BY <1>4, <1>5 DEF T

\* The metric of a cell, where all was received.
LEMMA MetricIs ==
    ASSUME World, Fresh, Received, Unambiguous, NEW c \in Cells
    PROVE  Metric(Varbinds, VarbindOf(c), registry) = MetricOf(c)
<1> DEFINE m == Metric(Varbinds, VarbindOf(c), registry)
<1>1. m.tags = MetricOf(c).tags
  BY MetricHas, TagsAre
<1>2. m = [name |-> Attr(c).name, instance |-> RowOf(c), oid |-> OidOf(c),
           value |-> Meaning(c), syntax |-> Attr(c).syntax, tags |-> m.tags]
  BY MetricHas
<1>3. MetricOf(c) = [name |-> Attr(c).name, instance |-> RowOf(c), oid |-> OidOf(c),
                     value |-> Meaning(c), syntax |-> Attr(c).syntax, tags |-> MetricOf(c).tags]
  BY DEF MetricOf, OidOf
<1> QED BY <1>1, <1>2, <1>3

\* The most precise cell of a metric gives it.
LEMMA BestWins ==
    ASSUME World, Fresh, Received, Unambiguous, NEW c \in Cells, ~Attr(c).isTag, Best(c)
    PROVE  MetricOf(c) \in Build(Varbinds, registry)
<1>1. PICK i \in DOMAIN Varbinds :
          /\ Varbinds[i].name = Attr(c).name /\ Varbinds[i].instance = RowOf(c)
          /\ Varbinds[i].syntax = Attr(c).syntax /\ Varbinds[i].isTag = Attr(c).isTag
  BY Position
<1> DEFINE k == Winner(Varbinds, Candidates(Varbinds, i))
<1>2. k \in Candidates(Varbinds, i) /\ Prio(i) <= Prio(k)
  BY <1>1, WinnerWins
<1>3. Metric(Varbinds, Varbinds[k], registry) \in Build(Varbinds, registry)
  BY <1>1 DEF Build
<1> HIDE DEF k
<1>4. /\ k \in DOMAIN Varbinds /\ ~Varbinds[k].isTag
      /\ Varbinds[k].instance = RowOf(c) /\ Varbinds[k].name = Attr(c).name
  BY <1>1, <1>2 DEF Candidates
<1>5. PICK d \in Cells :
          /\ Varbinds[k] = VarbindOf(d) /\ Varbinds[k].name = Attr(d).name
          /\ Varbinds[k].instance = RowOf(d) /\ Varbinds[k].syntax = Attr(d).syntax
          /\ Varbinds[k].isTag = Attr(d).isTag
  BY <1>4, CellOf
<1>6. d \in Rivals(c)
  BY <1>4, <1>5 DEF Rivals
<1>7. syntaxPriority(Attr(d).syntax) = syntaxPriority(Attr(c).syntax)
  <2>1. syntaxPriority(Attr(d).syntax) <= syntaxPriority(Attr(c).syntax)
    BY <1>6 DEF Best
  <2>2. syntaxPriority(Attr(c).syntax) <= syntaxPriority(Attr(d).syntax)
    BY <1>1, <1>2, <1>5 DEF Prio
  <2> DEFINE x == syntaxPriority(Attr(d).syntax)
             y == syntaxPriority(Attr(c).syntax)
  <2>3. x \in Int /\ y \in Int
    BY PriorityIs
  <2> HIDE DEF x, y
  <2>4. x <= y /\ y <= x
    BY <2>1, <2>2 DEF x, y
  <2>5. x = y
    BY <2>3, <2>4
  <2> QED BY <2>5 DEF x, y
<1>8. Attr(c).isTag = FALSE /\ Attr(d).isTag = FALSE
  BY <1>4, <1>5, TagIsBoolean
<1>9. d.column = c.column
  BY <1>4, <1>5, <1>7, <1>8, CellIs DEF Unambiguous, Attr
<1>10. d = c
  BY <1>4, <1>5, <1>9, OneCell
<1> QED BY <1>3, <1>5, <1>10, MetricIs

\* No other cell does.
LEMMA OnlyBest ==
    ASSUME World, Fresh, Received, Unambiguous, NEW m \in Build(Varbinds, registry)
    PROVE  \E c \in Cells : ~Attr(c).isTag /\ Best(c) /\ m = MetricOf(c)
<1>1. PICK i, k \in DOMAIN Varbinds, c \in Cells :
          /\ ~Varbinds[i].isTag /\ k = Winner(Varbinds, Candidates(Varbinds, i))
          /\ k \in Candidates(Varbinds, i)
          /\ IsFrom(k, c) /\ ~Attr(c).isTag
          /\ m = Metric(Varbinds, VarbindOf(c), registry)
  BY MetricFrom
<1>2. \A j \in Candidates(Varbinds, i) : Prio(j) <= Prio(k)
  BY <1>1, WinnerWins
<1>3. /\ Varbinds[i].name = Varbinds[k].name /\ Varbinds[i].instance = Varbinds[k].instance
  BY <1>1 DEF Candidates
<1>4. /\ Varbinds[k].name = Attr(c).name /\ Varbinds[k].instance = RowOf(c)
      /\ Varbinds[k].syntax = Attr(c).syntax
  BY <1>1 DEF IsFrom, VarbindOf
<1>5. ASSUME NEW d \in Rivals(c)
      PROVE  syntaxPriority(Attr(d).syntax) <= syntaxPriority(Attr(c).syntax)
  <2>1. d \in Cells /\ ~Attr(d).isTag /\ Attr(d).name = Attr(c).name /\ RowOf(d) = RowOf(c)
    BY DEF Rivals
  <2>2. PICK j \in DOMAIN Varbinds :
            /\ Varbinds[j].name = Attr(d).name /\ Varbinds[j].instance = RowOf(d)
            /\ Varbinds[j].syntax = Attr(d).syntax /\ Varbinds[j].isTag = Attr(d).isTag
    BY <2>1, Position
  <2>3. j \in Candidates(Varbinds, i)
    BY <1>3, <1>4, <2>1, <2>2 DEF Candidates
  <2> QED BY <1>2, <1>4, <2>2, <2>3 DEF Prio
<1>6. Best(c)
  BY <1>5 DEF Best
<1> QED BY <1>1, <1>6, MetricIs

\* All is built, where all was received.
LEMMA AllBuilt ==
    ASSUME World, Fresh, Received, Unambiguous
    PROVE  Build(Varbinds, registry) = {MetricOf(c) : c \in {d \in Cells : ~Attr(d).isTag /\ Best(d)}}
<1> DEFINE built == Build(Varbinds, registry)
           all == {MetricOf(c) : c \in {d \in Cells : ~Attr(d).isTag /\ Best(d)}}
<1>1. \A m \in built : m \in all
  BY OnlyBest
<1>2. \A m \in all : m \in built
  BY BestWins
<1> HIDE DEF built, all
<1>3. built = all
  BY <1>1, <1>2
<1> QED BY <1>3 DEF built, all

-----------------------------------------------------------------------------
(* Sequences. *)

\* The elements of a concatenation.
LEMMA ConcatElements ==
    ASSUME NEW S, NEW s \in Seq(S), NEW t \in Seq(S)
    PROVE  s \o t \in Seq(S) /\ ToSet(s \o t) = ToSet(s) \cup ToSet(t)
<1> DEFINE u == s \o t
           n == Len(s)
           m == Len(t)
<1>1. /\ u \in Seq(S) /\ Len(u) = n + m /\ n \in Nat /\ m \in Nat
      /\ DOMAIN s = 1..n /\ DOMAIN t = 1..m
      /\ \A i \in 1..(n + m) : u[i] = IF i <= n THEN s[i] ELSE t[i - n]
  BY ConcatProperties, LenProperties
<1>2. DOMAIN u = 1..(n + m)
  BY <1>1, LenProperties
<1> HIDE DEF u, n, m
<1>3. \A i \in 1..n : i \in DOMAIN u /\ u[i] = s[i]
  BY <1>1, <1>2
<1>4. ASSUME NEW i \in 1..m PROVE \E k \in DOMAIN u : u[k] = t[i]
  <2>1. i + n \in 1..(n + m) /\ ~(i + n <= n) /\ (i + n) - n = i
    BY <1>1
  <2>2. u[i + n] = t[i]
    BY <1>1, <2>1
  <2> QED BY <1>2, <2>1, <2>2
<1>5. ASSUME NEW k \in DOMAIN u PROVE (\E i \in 1..n : u[k] = s[i]) \/ (\E i \in 1..m : u[k] = t[i])
  <2>1. k \in 1..(n + m) /\ (k <= n => k \in 1..n) /\ (~(k <= n) => k - n \in 1..m)
    BY <1>1, <1>2
  <2> QED BY <1>1, <2>1
<1>6. ToSet(u) = ToSet(s) \cup ToSet(t)
  <2>1. \A x : x \in ToSet(s) <=> \E i \in 1..n : x = s[i]
    BY <1>1 DEF ToSet
  <2>2. \A x : x \in ToSet(t) <=> \E i \in 1..m : x = t[i]
    BY <1>1 DEF ToSet
  <2>3. \A x : x \in ToSet(u) <=> \E i \in DOMAIN u : x = u[i]
    BY DEF ToSet
  <2>4. ASSUME NEW x \in ToSet(s) \cup ToSet(t) PROVE x \in ToSet(u)
    BY <1>3, <1>4, <2>1, <2>2, <2>3
  <2>5. ASSUME NEW x \in ToSet(u) PROVE x \in ToSet(s) \cup ToSet(t)
    BY <1>5, <2>1, <2>2, <2>3
  <2> QED BY <2>4, <2>5
<1> QED BY <1>1, <1>6 DEF u

\* No element twice.
Distinct(s) == \A i, j \in DOMAIN s : s[i] = s[j] => i = j

\* What a sequence is cut into.
LEMMA Cut ==
    ASSUME NEW S, NEW s \in Seq(S), NEW n \in 0..Len(s)
    PROVE  LET a == SubSeq(s, 1, n)
               b == SubSeq(s, n + 1, Len(s))
           IN
           /\ a \in Seq(S) /\ b \in Seq(S) /\ Len(a) = n
           /\ \A i \in 1..n : a[i] = s[i]
           /\ ToSet(a) \cup ToSet(b) = ToSet(s)
           /\ Distinct(s) => Distinct(a) /\ Distinct(b) /\ ToSet(a) \cap ToSet(b) = {}
<1> DEFINE k == Len(s)
           a == SubSeq(s, 1, n)
           b == SubSeq(s, n + 1, Len(s))
<1>1. k \in Nat /\ DOMAIN s = 1..k /\ n \in 0..k /\ \A i \in 1..k : s[i] \in S
  BY LenProperties, ElementOfSeq
<1>2. n \in Int /\ n + 1 \in Int /\ 1 \in Int /\ k \in Int
      /\ (\A i \in 1..n : s[i] \in S) /\ (\A i \in (n + 1)..k : s[i] \in S)
  <2> HIDE DEF k
  <2> QED BY <1>1
<1>3. a \in Seq(S) /\ Len(a) = (IF 1 <= n THEN (n - 1) + 1 ELSE 0)
      /\ \A i \in 1..((n - 1) + 1) : a[i] = s[(1 + i) - 1]
  BY <1>2, SubSeqProperties
<1>4. b \in Seq(S) /\ Len(b) = (IF n + 1 <= k THEN (k - (n + 1)) + 1 ELSE 0)
      /\ \A i \in 1..((k - (n + 1)) + 1) : b[i] = s[((n + 1) + i) - 1]
  BY <1>2, SubSeqProperties
<1> HIDE DEF a, b
<1>5. DOMAIN a = 1..Len(a) /\ DOMAIN b = 1..Len(b)
  BY <1>3, <1>4, LenProperties
<1> HIDE DEF k
<1>6. Len(a) = n /\ DOMAIN a = 1..n /\ \A i \in 1..n : a[i] = s[i]
  <2>1. Len(a) = n /\ (n - 1) + 1 = n
    BY <1>1, <1>3
  <2>2. \A i \in 1..n : (1 + i) - 1 = i
    BY <1>1
  <2> QED BY <1>3, <1>5, <2>1, <2>2
<1>7. DOMAIN b = 1..(k - n) /\ \A i \in 1..(k - n) : b[i] = s[n + i]
  <2>1. Len(b) = k - n /\ (k - (n + 1)) + 1 = k - n
    BY <1>1, <1>4
  <2>2. \A i \in 1..(k - n) : ((n + 1) + i) - 1 = n + i
    BY <1>1
  <2> QED BY <1>4, <1>5, <2>1, <2>2
<1>8. \A i \in 1..n : i \in 1..k
  BY <1>1
<1>9. \A i \in 1..(k - n) : n + i \in 1..k /\ n + i > n
  BY <1>1
<1>10. ASSUME NEW i \in 1..k PROVE i \in 1..n \/ (i - n \in 1..(k - n) /\ n + (i - n) = i)
  BY <1>1
<1>11. ToSet(a) \cup ToSet(b) = ToSet(s)
  <2>1. \A x : x \in ToSet(s) <=> \E i \in 1..k : x = s[i]
    BY <1>1 DEF ToSet
  <2>2. \A x : x \in ToSet(a) <=> \E i \in 1..n : x = a[i]
    BY <1>6 DEF ToSet
  <2>3. \A x : x \in ToSet(b) <=> \E i \in 1..(k - n) : x = b[i]
    BY <1>7 DEF ToSet
  <2>4. \A x \in ToSet(a) : x \in ToSet(s)
    BY <1>6, <1>8, <2>1, <2>2
  <2>5. \A x \in ToSet(b) : x \in ToSet(s)
    BY <1>7, <1>9, <2>1, <2>3
  <2>6. ASSUME NEW i \in 1..k PROVE s[i] \in ToSet(a) \cup ToSet(b)
    BY <1>6, <1>7, <1>10, <2>2, <2>3
  <2> QED BY <2>1, <2>4, <2>5, <2>6
<1>12. ASSUME Distinct(s) PROVE Distinct(a) /\ Distinct(b) /\ ToSet(a) \cap ToSet(b) = {}
  <2>1. Distinct(a)
    BY <1>1, <1>6, <1>8, <1>12 DEF Distinct
  <2>2. Distinct(b)
    <3> SUFFICES ASSUME NEW i \in 1..(k - n), NEW j \in 1..(k - n), b[i] = b[j] PROVE i = j
      BY <1>7 DEF Distinct
    <3>1. n + i = n + j
      BY <1>1, <1>7, <1>9, <1>12 DEF Distinct
    <3> QED BY <1>1, <3>1
  <2>3. ASSUME NEW i \in 1..n, NEW j \in 1..(k - n) PROVE a[i] # b[j]
    <3>1. s[i] # s[n + j]
      <4>1. i # n + j
        BY <1>1, <1>9
      <4> QED BY <1>1, <1>8, <1>9, <1>12, <4>1 DEF Distinct
    <3> QED BY <1>6, <1>7, <3>1
  <2>4. ToSet(a) \cap ToSet(b) = {}
    <3> SUFFICES ASSUME NEW x \in ToSet(a), x \in ToSet(b) PROVE FALSE
      OBVIOUS
    <3>1. PICK i \in 1..n : x = a[i]
      BY <1>6 DEF ToSet
    <3>2. PICK j \in 1..(k - n) : x = b[j]
      BY <1>7 DEF ToSet
    <3> QED BY <2>3, <3>1, <3>2
  <2> QED BY <2>1, <2>2, <2>4
<1> QED BY <1>3, <1>4, <1>6, <1>11, <1>12 DEF a, b

\* The first element and the rest.
LEMMA HeadCut ==
    ASSUME NEW S, NEW s \in Seq(S), s # <<>>
    PROVE  /\ Head(s) \in S /\ Tail(s) \in Seq(S)
           /\ {Head(s)} \cup ToSet(Tail(s)) = ToSet(s)
           /\ Distinct(s) => Distinct(Tail(s)) /\ Head(s) \notin ToSet(Tail(s))
<1> DEFINE k == Len(s)
           one == 1
           a == SubSeq(s, 1, one)
           b == SubSeq(s, one + 1, Len(s))
<1>1. k \in Nat /\ k # 0
  BY EmptySeq, LenProperties
<1>2. one \in 0..k
  <2> HIDE DEF k
  <2> QED BY <1>1
<1>3. Tail(s) = b
  BY TailIsSubSeq
<1>4. /\ a \in Seq(S) /\ b \in Seq(S) /\ Len(a) = one
      /\ \A i \in 1..one : a[i] = s[i]
      /\ ToSet(a) \cup ToSet(b) = ToSet(s)
      /\ Distinct(s) => Distinct(b) /\ ToSet(a) \cap ToSet(b) = {}
  <2> HIDE DEF one
  <2> QED BY <1>2, Cut
<1> HIDE DEF a, b
<1>5. DOMAIN a = 1..1 /\ one = 1
  BY <1>4, LenProperties
<1>6. a[1] = s[1] /\ 1 \in DOMAIN a /\ \A i \in DOMAIN a : i = 1
  BY <1>4, <1>5
<1>7. Head(s) = s[1] /\ Head(s) \in S
  BY HeadTailProperties
<1>8. ToSet(a) = {Head(s)}
  BY <1>6, <1>7 DEF ToSet
<1> QED BY <1>3, <1>4, <1>7, <1>8

\* The elements of a set in any order.
LEMMA AnyOrder ==
    ASSUME NEW S, IsFiniteSet(S), NEW s \in SetToSeqs(S)
    PROVE  s \in Seq(S) /\ Distinct(s) /\ ToSet(s) = S
<1> DEFINE n == Cardinality(S)
<1>1. n \in Nat
  BY FS_CardinalityType
<1>2. s \in [1..n -> S] /\ \A i, j \in 1..n : i # j => s[i] # s[j]
  BY DEF SetToSeqs
<1>3. s \in Injection(1..n, S)
  BY <1>2 DEF Injection, IsInjective
<1>4. Cardinality(1..n) = n
  <2> HIDE DEF n
  <2>1. 1 \in Int /\ n \in Int
    BY <1>1
  <2>2. Cardinality(1..n) = IF 1 > n THEN 0 ELSE (n - 1) + 1
    BY <2>1, FS_Interval
  <2> QED BY <1>1, <2>2
<1>5. s \in Surjection(1..n, S)
  BY <1>3, <1>4, FS_Injection
<1>6. DOMAIN s = 1..n
  BY <1>2
<1>7. s \in Seq(S)
  BY <1>1, <1>2
<1> QED BY <1>2, <1>5, <1>6, <1>7 DEF Distinct, ToSet, Surjection

-----------------------------------------------------------------------------
\* The device answers for an OID with the variable it has there.
LEMMA AnswerIs ==
    ASSUME World, NEW oid \in Seq(Nat)
    PROVE  /\ Answer(oid) \in Answers /\ Answer(oid).oid = oid
           /\ \A c \in ToSet(mib) : OidOf(c) = oid => Known(oid) /\ Answer(oid) = VarOf(c)
<1>1. ASSUME NEW c \in ToSet(mib), OidOf(c) = oid PROVE Known(oid) /\ Answer(oid) = VarOf(c)
  <2>1. VarOf(c) \in ToSet(Variables) /\ VarOf(c).oid = oid
    BY <1>1, MIBIs DEF ToSet, VarOf
  <2>2. Known(oid)
    BY <2>1 DEF Known, ToSet
  <2>3. ASSUME NEW v \in ToSet(Variables), v.oid = oid PROVE v = VarOf(c)
    <3>1. PICK d \in ToSet(mib) : v = VarOf(d)
      BY MIBIs DEF ToSet
    <3>2. OidOf(d) = oid
      BY <2>3, <3>1 DEF VarOf
    <3> QED BY <1>1, <3>1, <3>2, OneVariable
  <2> QED BY <2>1, <2>2, <2>3 DEF Answer
<1>2. CASE Known(oid)
  <2>1. \E v \in ToSet(Variables) : v.oid = oid
    BY <1>2 DEF Known, ToSet
  <2>2. Answer(oid) \in ToSet(Variables) /\ Answer(oid).oid = oid
    BY <1>2, <2>1 DEF Answer
  <2> QED BY <1>1, <2>2 DEF Answers
<1>3. CASE ~Known(oid)
  <2>1. Answer(oid) = [oid |-> oid, kind |-> "none", value |-> <<>>]
    BY <1>3 DEF Answer, NoSuchObject
  <2> QED BY <1>1, <1>3, <2>1 DEF Answers
<1> QED BY <1>2, <1>3

\* The answer to a request: for nothing but what was asked, and, if it is used, with
\* all the device has of it.
LEMMA ReplyIs ==
    ASSUME World, NEW oids \in Seq(Seq(Nat))
    PROVE  LET r == Reply(oids)
           IN  /\ r \in Seq(Answers)
               /\ \A v \in ToSet(r) : v.oid \in ToSet(oids)
               /\ Len(oids) = 1 \/ ~batchIsUnusable(r) =>
                      \A c \in ToSet(mib) : OidOf(c) \in ToSet(oids) => VarOf(c) \in ToSet(r)
<1> DEFINE r == Reply(oids)
           n == Len(oids)
<1>1. n \in Nat /\ DOMAIN oids = 1..n /\ \A i \in 1..n : oids[i] \in Seq(Nat)
  BY LenProperties, ElementOfSeq
<1> HIDE DEF n
<1>2. CASE agent = "answers" \/ \A i \in DOMAIN oids : Known(oids[i])
  <2>1. r = [i \in 1..n |-> Answer(oids[i])]
    BY <1>1, <1>2 DEF Reply
  <2> HIDE DEF r
  <2>2. \A i \in 1..n : Answer(oids[i]) \in Answers /\ Answer(oids[i]).oid = oids[i]
    BY <1>1, AnswerIs
  <2>3. r \in Seq(Answers)
    BY <1>1, <2>1, <2>2
  <2>4. \A v \in ToSet(r) : v.oid \in ToSet(oids)
    BY <1>1, <2>1, <2>2 DEF ToSet
  <2>5. ASSUME NEW c \in ToSet(mib), OidOf(c) \in ToSet(oids) PROVE VarOf(c) \in ToSet(r)
    <3>1. PICK i \in 1..n : oids[i] = OidOf(c)
      BY <1>1, <2>5 DEF ToSet
    <3>2. r[i] = VarOf(c) /\ i \in DOMAIN r
      BY <1>1, <2>1, <3>1, AnswerIs
    <3> QED BY <3>2 DEF ToSet
  <2> QED BY <2>3, <2>4, <2>5 DEF r
<1>3. CASE ~(agent = "answers" \/ \A i \in DOMAIN oids : Known(oids[i]))
  <2>1. r = <<>> \/ r = [i \in 1..n |-> NoSuchObject(oids[i])]
    BY <1>1, <1>3 DEF Reply
  <2> HIDE DEF r
  <2>2. /\ r \in Seq(Answers) /\ DOMAIN r \subseteq 1..n
        /\ \A i \in DOMAIN r : r[i] = NoSuchObject(oids[i])
    <3>1. CASE r = <<>>
      <4>1. r \in Seq(Answers) /\ Len(r) = 0
        BY <3>1, EmptySeq
      <4>2. DOMAIN r = 1..Len(r)
        BY <4>1, LenProperties
      <4>3. DOMAIN r = {}
        BY <4>1, <4>2
      <4> QED BY <4>1, <4>3
    <3>2. CASE r = [i \in 1..n |-> NoSuchObject(oids[i])]
      <4>1. \A i \in 1..n : NoSuchObject(oids[i]) \in Answers
        BY <1>1 DEF NoSuchObject, Answers
      <4> QED BY <1>1, <3>2, <4>1
    <3> QED BY <2>1, <3>1, <3>2
  <2>3. \A v \in ToSet(r) : v.oid \in ToSet(oids)
    BY <1>1, <2>2 DEF ToSet, NoSuchObject
  <2>4. batchIsUnusable(r)
    BY <2>2 DEF batchIsUnusable, IsErrorType, NoSuchObject
  <2>5. ASSUME n = 1, NEW c \in ToSet(mib), OidOf(c) \in ToSet(oids) PROVE FALSE
    <3>1. PICK i \in 1..n : oids[i] = OidOf(c)
      BY <1>1, <2>5 DEF ToSet
    <3>2. Known(oids[i])
      BY <1>1, <3>1, AnswerIs
    <3>3. \A j \in 1..n : j = i
      BY <2>5
    <3> QED BY <1>1, <1>3, <3>2, <3>3
  <2> QED BY <2>2, <2>3, <2>4, <2>5 DEF r, n
<1> QED BY <1>2, <1>3

\* The OIDs of a group of scalars are finitely many and are where its cells are.
LEMMA ScalarOidsAre ==
    ASSUME World
    PROVE  /\ IsFiniteSet(ScalarOids(def))
           /\ ScalarOids(def) \subseteq Seq(Nat)
           /\ isScalar(def) => \A c \in Cells : OidOf(c) \in ScalarOids(def)
<1> DEFINE f == [oid \in DOMAIN def.attributes |-> IF Last(oid) = 0 THEN oid ELSE Append(oid, 0)]
<1>1. IsFiniteSet(DOMAIN def.attributes) /\ \A o \in DOMAIN def.attributes : o \in Seq(Nat) \ {<<>>}
  BY ObjectDefsAssumption DEF World
<1>2. f \in Surjection(DOMAIN def.attributes, ScalarOids(def))
  BY DEF ScalarOids, Surjection
<1>3. IsFiniteSet(ScalarOids(def))
  <2> HIDE DEF f
  <2> QED BY <1>1, <1>2, FS_Surjection
<1>4. ScalarOids(def) \subseteq Seq(Nat)
  BY <1>1, AppendProperties DEF ScalarOids
<1>5. ASSUME isScalar(def), NEW c \in Cells PROVE OidOf(c) \in ScalarOids(def)
  <2>1. /\ c \in ToSet(mib) /\ c.column \in DOMAIN def.attributes
        /\ c.column \in Seq(Nat) /\ c.index \in Seq(Nat)
    BY CellIs
  <2>2. c.index = IF Last(c.column) = 0 THEN <<>> ELSE <<0>>
    BY <1>5, <2>1, ColumnsAssumption DEF World, ToSet
  <2>3. c.column \o <<>> = c.column
    BY <2>1, ConcatEmptySeq
  <2>4. Append(c.column, 0) = c.column \o <<0>>
    BY <2>1, AppendIsConcat
  <2>5. OidOf(c) = IF Last(c.column) = 0 THEN c.column ELSE Append(c.column, 0)
    BY <2>2, <2>3, <2>4 DEF OidOf
  <2> QED BY <2>1, <2>5 DEF ScalarOids
<1> QED BY <1>3, <1>4, <1>5

-----------------------------------------------------------------------------
\* The empty sequence begins every one.
LEMMA EmptyPrefix == ASSUME NEW s \in Seq(Nat) PROVE IsPrefix(<<>>, s) /\ <<>> \in Prefixes(s)
<1>1. Len(s) \in Nat /\ 0 \in 0..Len(s)
  BY LenProperties
<1>2. SubSeq(s, 1, 0) = <<>>
  BY SubSeqEmpty
<1>3. SubSeq(<<>>, 1, 0) = <<>>
  BY SubSeqEmpty
<1> QED BY <1>1, <1>2, <1>3 DEF IsPrefix, Prefixes

\* The prefixes of a sequence are not longer than it is.
LEMMA PrefixesAre == ASSUME NEW s \in Seq(Nat), NEW p \in Prefixes(s) PROVE p \in Seq(Nat) /\ Len(p) <= Len(s)
<1> DEFINE k == Len(s)
<1>1. PICK n \in 0..Len(s) : p = SubSeq(s, 1, n)
  BY DEF Prefixes
<1>2. k \in Nat
  BY LenProperties
<1>3. p \in Seq(Nat) /\ Len(p) = n
  BY <1>1, Cut
<1> HIDE DEF k
<1>4. n <= k
  BY <1>1, <1>2 DEF k
<1> QED BY <1>3, <1>4 DEF k

\* What begins the beginning of a sequence begins the sequence.
LEMMA PrefixOfPrefix ==
    ASSUME NEW p \in Seq(Nat), NEW s \in Seq(Nat), NEW t \in Seq(Nat), IsPrefix(p, s)
    PROVE  IsPrefix(p, s \o t)
<1> DEFINE n == Len(p)
           k == Len(s)
           m == Len(t)
           u == s \o t
<1>1. /\ u \in Seq(Nat) /\ Len(u) = k + m /\ n \in Nat /\ k \in Nat /\ m \in Nat
      /\ \A i \in 1..(k + m) : u[i] = IF i <= k THEN s[i] ELSE t[i - k]
  BY ConcatProperties, LenProperties
<1>2. n <= k /\ SubSeq(p, 1, n) = SubSeq(s, 1, n)
  BY DEF IsPrefix
<1> HIDE DEF n, k, m, u
<1>3. n \in 0..k /\ n \in 0..(k + m) /\ n <= k + m
  BY <1>1, <1>2
<1>4. \A i \in 1..n : u[i] = s[i]
  <2>1. \A i \in 1..n : i \in 1..(k + m) /\ i <= k
    BY <1>1, <1>3
  <2> QED BY <1>1, <2>1
<1>5. /\ SubSeq(s, 1, n) \in Seq(Nat) /\ Len(SubSeq(s, 1, n)) = n
      /\ \A i \in 1..n : SubSeq(s, 1, n)[i] = s[i]
  BY <1>3, Cut DEF k
<1>6. /\ SubSeq(u, 1, n) \in Seq(Nat) /\ Len(SubSeq(u, 1, n)) = n
      /\ \A i \in 1..n : SubSeq(u, 1, n)[i] = u[i]
  BY <1>1, <1>3, Cut
<1> DEFINE a == SubSeq(s, 1, n)
           b == SubSeq(u, 1, n)
<1>7. a = b
  <2>1. a \in Seq(Nat) /\ b \in Seq(Nat) /\ Len(a) = n /\ Len(b) = n /\ \A i \in 1..n : a[i] = b[i]
    BY <1>4, <1>5, <1>6
  <2> HIDE DEF a, b
  <2> QED BY <2>1, SeqEqual
<1> QED BY <1>1, <1>2, <1>3, <1>7 DEF IsPrefix, n, u

\* The root of a walk is above all columns.
LEMMA RootIs ==
    ASSUME World, DOMAIN def.attributes # {}
    PROVE  /\ LowestCommonOID(def) \in Seq(Nat)
           /\ \A t \in DOMAIN def.attributes : IsPrefix(LowestCommonOID(def), t)
<1> DEFINE S == DOMAIN def.attributes
           C == CommonPrefixes(S)
           L == {Len(p) : p \in C}
<1>1. \A t \in S : t \in Seq(Nat)
  BY ObjectDefsAssumption DEF World
<1>2. PICK s \in S : TRUE
  OBVIOUS
<1> HIDE DEF S
<1>3. C = {p \in UNION {Prefixes(t) : t \in S} : \A t \in S : IsPrefix(p, t)}
  BY DEF CommonPrefixes
<1>4. <<>> \in C
  BY <1>1, <1>2, <1>3, EmptyPrefix
<1>5. ASSUME NEW p \in C PROVE p \in Seq(Nat) /\ Len(p) \in Nat /\ Len(p) <= Len(s) /\ Len(p) \in L
  <2>1. PICK t \in S : p \in Prefixes(t)
    BY <1>3
  <2>2. p \in Seq(Nat) /\ Len(p) \in Nat
    BY <1>1, <2>1, PrefixesAre, LenProperties
  <2>3. Len(p) <= Len(s)
    BY <1>2, <1>3 DEF IsPrefix
  <2> QED BY <2>2, <2>3
<1>6. Len(s) \in Int
  BY <1>1, <1>2, LenProperties
<1>7. L \subseteq Int /\ L # {} /\ \A x \in L : x <= Len(s)
  <2> HIDE DEF C
  <2>1. \A x \in L : \E p \in C : x = Len(p)
    OBVIOUS
  <2> HIDE DEF L
  <2> QED BY <1>4, <1>5, <2>1
<1>8. PICK p \in C : \A q \in C : Len(q) <= Len(p)
  <2>1. Max(L) \in L /\ \A x \in L : x <= Max(L)
    <3> HIDE DEF L
    <3> QED BY <1>6, <1>7, MaxBounded
  <2>2. PICK p \in C : Len(p) = Max(L)
    BY <2>1
  <2> HIDE DEF C, L
  <2> QED BY <1>5, <2>1, <2>2
<1>9. LongestCommonPrefix(S) \in C
  BY <1>8 DEF LongestCommonPrefix
<1> QED BY <1>3, <1>5, <1>9 DEF LowestCommonOID, S

\* A walk that comes to its end returns all cells, and nothing but variables.
LEMMA WalkIs ==
    ASSUME World, DOMAIN def.attributes # {}
    PROVE  LET all == Walk(Variables, LowestCommonOID(def))
           IN  /\ all \in Seq(ToSet(Variables))
               /\ \A c \in Cells : VarOf(c) \in ToSet(all)
<1> DEFINE n == Len(mib)
           root == LowestCommonOID(def)
           below == {i \in DOMAIN Variables : IsPrefix(root, Variables[i].oid)}
           all == Walk(Variables, root)
<1>1. n \in Nat /\ Variables = [i \in 1..n |-> VarOf(mib[i])] /\ DOMAIN mib = 1..n
  BY MIBIs
<1>2. DOMAIN Variables = 1..n /\ \A i \in 1..n : Variables[i] = VarOf(mib[i]) /\ Variables[i] \in ToSet(Variables)
  BY <1>1 DEF ToSet
<1>3. all = IF below = {} THEN <<>> ELSE SubSeq(Variables, Min(below), Max(below))
  BY DEF Walk
<1>4. ASSUME NEW c \in Cells PROVE \E i \in below : Variables[i] = VarOf(c)
  <2>1. PICK i \in 1..n : mib[i] = c
    BY <1>1, CellIs DEF ToSet
  <2>2. c.column \in DOMAIN def.attributes /\ c.column \in Seq(Nat) /\ c.index \in Seq(Nat)
    BY CellIs
  <2>3. IsPrefix(root, OidOf(c))
    BY <2>2, RootIs, PrefixOfPrefix DEF OidOf
  <2>4. Variables[i] = VarOf(c) /\ Variables[i].oid = OidOf(c)
    BY <1>2, <2>1 DEF VarOf
  <2> QED BY <1>2, <2>3, <2>4
<1>5. CASE below = {}
  <2>1. all = <<>>
    BY <1>3, <1>5
  <2> QED BY <1>4, <1>5, <2>1, EmptySeq
<1>6. CASE below # {}
  <2> DEFINE lo == Min(below)
             hi == Max(below)
             bottom == 1
  <2>1. \A i \in below : i \in 1..n /\ bottom <= i /\ i <= n /\ i \in Int
    <3> HIDE DEF n
    <3> QED BY <1>1, <1>2
  <2>0. bottom \in Int /\ n \in Int
    BY <1>1
  <2> HIDE DEF bottom
  <2> HIDE DEF below
  <2>2. lo \in below /\ hi \in below /\ \A i \in below : lo <= i /\ i <= hi
    <3>1. below \subseteq Int
      BY <2>1
    <3> QED BY <1>6, <2>0, <2>1, <3>1, MinBounded, MaxBounded
  <2>3. all = SubSeq(Variables, lo, hi)
    BY <1>3, <1>6
  <2> HIDE DEF lo, hi, all, n
  <2>4. lo \in 1..n /\ hi \in 1..n /\ lo \in Int /\ hi \in Int /\ lo <= hi
    BY <2>1, <2>2
  <2>5. \A i \in lo..hi : i \in 1..n
    BY <1>1, <2>4
  <2>6. \A i \in lo..hi : Variables[i] \in ToSet(Variables)
    BY <1>2, <2>5
  <2>7. /\ all \in Seq(ToSet(Variables)) /\ Len(all) = (hi - lo) + 1
        /\ \A i \in 1..((hi - lo) + 1) : all[i] = Variables[(lo + i) - 1]
    BY <2>3, <2>4, <2>6, SubSeqProperties
  <2>8. DOMAIN all = 1..((hi - lo) + 1)
    BY <2>7, LenProperties
  <2>9. ASSUME NEW i \in below PROVE Variables[i] \in ToSet(all)
    <3>1. (i - lo) + 1 \in 1..((hi - lo) + 1) /\ (lo + ((i - lo) + 1)) - 1 = i
      BY <2>1, <2>2, <2>4
    <3>2. all[(i - lo) + 1] = Variables[i]
      BY <2>7, <3>1
    <3> QED BY <2>8, <3>1, <3>2 DEF ToSet
  <2> QED BY <1>4, <2>7, <2>9 DEF all
<1> QED BY <1>5, <1>6

-----------------------------------------------------------------------------
(* The inductive invariant. *)

Typing ==
    /\ World
    /\ phase \in {"start", "get", "polled", "done"}
    /\ status \in {"none", "success", "error"}
    /\ todo \in Seq(Seq(Nat)) /\ singles \in Seq(Seq(Nat))
    /\ missed \subseteq Seq(Nat)

\* Each poll begins with nothing.
Idle ==
    /\ phase = "start" => todo = <<>> /\ pdus = <<>> /\ missed = {}
    /\ phase # "get" => singles = <<>>

\* What doGet has yet to ask for.
Pending == ToSet(todo) \cup ToSet(singles)

\* doGet asks once for each of the OIDs. What it has asked for was answered with what the
\* device has, if anything, or missed.
Asking == phase = "get" =>
    /\ isScalar(def)
    /\ Pending \subseteq ScalarOids(def)
    /\ Distinct(todo) /\ Distinct(singles) /\ ToSet(todo) \cap ToSet(singles) = {}
    /\ Pending \cap missed = {}
    /\ \A v \in ToSet(pdus) : v.kind # "none" => v.oid \notin Pending
    /\ \A c \in ToSet(mib) : OidOf(c) \in ScalarOids(def) =>
           OidOf(c) \in Pending \cup missed \/ VarOf(c) \in ToSet(pdus)

\* A successful poll has all cells.
Complete == phase \in {"polled", "done"} /\ status = "success"
                => \A c \in Cells : VarOf(c) \in ToSet(pdus)

\* The message is what the stages make of the answer.
Sent == message = IF phase # "done" \/ (status = "error" /\ pdus = <<>>) \/ Decoded.dropped
                  THEN NoMessage ELSE Message(Decoded.varbinds)

IInv == Typing /\ Fresh /\ Idle /\ Asking /\ Complete /\ Sent

-----------------------------------------------------------------------------
\* The empty sequence.
LEMMA NoElements == /\ \A S : <<>> \in Seq(S)
                    /\ ToSet(<<>>) = {} /\ Distinct(<<>>)
<1>1. <<>> \in Seq({}) /\ Len(<<>>) = 0
  BY EmptySeq
<1>2. DOMAIN <<>> = {}
  BY <1>1, LenProperties
<1> QED BY <1>2, EmptySeq DEF ToSet, Distinct

\* What does not change within a poll.
LEMMA SameWorld ==
    ASSUME world' = world
    PROVE  /\ def' = def /\ mib' = mib /\ registry' = registry /\ agent' = agent
           /\ World => World'
           /\ Answers' = Answers /\ ScalarOids(def)' = ScalarOids(def)
           /\ missed' = missed => Cells' = Cells
BY DEF world, World, Answers, Variables, ScalarOids, Cells, Registries

\* The invariant holds at the start.
LEMMA InitInv == Init => IInv
<1> SUFFICES ASSUME Init PROVE IInv
  OBVIOUS
<1> USE DEF Init
<1>1. Typing
  BY NoElements DEF Typing, World
<1>2. Fresh
  BY NoElements DEF Fresh
<1> QED BY <1>1, <1>2 DEF IInv, Idle, Asking, Complete, Sent

\* doGet has to ask for all scalars.
LEMMA StartGetInv == ASSUME IInv, StartGet PROVE IInv'
<1>1. /\ phase = "start" /\ isScalar(def) /\ phase' = "get"
      /\ todo' \in SetToSeqs(ScalarOids(def))
      /\ world' = world /\ singles' = singles /\ pdus' = pdus /\ missed' = missed
      /\ status' = status /\ message' = message
  BY DEF StartGet
<1>2. /\ World /\ Fresh /\ singles = <<>> /\ pdus = <<>> /\ missed = {} /\ message = NoMessage
      /\ status \in {"none", "success", "error"}
  BY <1>1 DEF IInv, Typing, Idle, Sent
<1>3. IsFiniteSet(ScalarOids(def)) /\ ScalarOids(def) \subseteq Seq(Nat)
  BY <1>2, ScalarOidsAre
<1>4. todo' \in Seq(ScalarOids(def)) /\ Distinct(todo') /\ ToSet(todo') = ScalarOids(def)
  BY <1>1, <1>3, AnyOrder
<1>5. todo' \in Seq(Seq(Nat))
  BY <1>3, <1>4, SeqMonotonic
<1>6. Typing'
  BY <1>1, <1>2, <1>5, SameWorld, NoElements DEF Typing
<1>7. Fresh'
  BY <1>1, <1>2, SameWorld DEF Fresh
<1>8. Pending' = ScalarOids(def)
  BY <1>1, <1>2, <1>4, NoElements DEF Pending
<1>9. Asking'
  BY <1>1, <1>2, <1>4, <1>8, SameWorld, NoElements DEF Asking, isScalar
<1> QED BY <1>1, <1>2, <1>6, <1>7, <1>9 DEF IInv, Idle, Complete, Sent

\* The batch and what is left are what there was.
LEMMA BatchIs ==
    ASSUME todo \in Seq(Seq(Nat)), todo # <<>>
    PROVE  /\ NextBatch \in Seq(Seq(Nat)) /\ Rest \in Seq(Seq(Nat)) /\ Len(NextBatch) \in Nat \ {0}
           /\ ToSet(NextBatch) \cup ToSet(Rest) = ToSet(todo)
           /\ Distinct(todo) => /\ Distinct(NextBatch) /\ Distinct(Rest)
                                /\ ToSet(NextBatch) \cap ToSet(Rest) = {}
<1> DEFINE k == Len(todo)
           n == Min({MaxOids, k})
<1>1. k \in Nat /\ k # 0 /\ MaxOids \in Nat /\ MaxOids # 0
  BY EmptySeq, LenProperties, MaxOidsAssumption
<1> HIDE DEF k
<1>2. n \in {MaxOids, k} /\ n <= k
  <2> DEFINE S == {MaxOids, k}
             zero == 0
  <2>1. S \subseteq Int /\ S # {} /\ zero \in Int /\ \A x \in S : zero <= x
    BY <1>1
  <2>2. k \in S
    OBVIOUS
  <2> HIDE DEF S, zero
  <2>3. Min(S) \in S /\ \A x \in S : Min(S) <= x
    BY <2>1, MinBounded
  <2> QED BY <2>2, <2>3 DEF S
<1>3. NextBatch = SubSeq(todo, 1, n)
  BY DEF NextBatch, k
<1> HIDE DEF n
<1>4. n \in 0..k /\ n \in Nat /\ n # 0
  BY <1>1, <1>2
<1>5. Len(NextBatch) = n
  BY <1>3, <1>4, Cut DEF k
<1>6. Rest = SubSeq(todo, n + 1, Len(todo))
  BY <1>5 DEF Rest
<1>7. n \in 0..Len(todo)
  BY <1>4 DEF k
<1> QED BY <1>3, <1>4, <1>5, <1>6, <1>7, Cut

\* A batch that is used brings its cells; one that is not is asked for again, one by one.
LEMMA GetBatchInv == ASSUME IInv, GetBatch PROVE IInv'
<1> DEFINE r == Reply(NextBatch)
<1>1. /\ phase = "get" /\ singles = <<>> /\ todo # <<>> /\ todo' = Rest
      /\ \/ singles' = NextBatch /\ pdus' = pdus
         \/ /\ pdus' = pdus \o r /\ singles' = singles
            /\ ~(Len(NextBatch) > 1 /\ batchIsUnusable(r))
      /\ world' = world /\ phase' = phase /\ missed' = missed /\ status' = status /\ message' = message
  BY DEF GetBatch
<1>2. /\ World /\ todo \in Seq(Seq(Nat)) /\ missed \subseteq Seq(Nat)
      /\ status \in {"none", "success", "error"} /\ message = NoMessage
      /\ pdus \in Seq(Answers) /\ \A v \in ToSet(pdus) : v.kind # "none" => v.oid \notin missed
  BY <1>1 DEF IInv, Typing, Fresh, Sent
<1>3. ToSet(singles) = {} /\ Pending = ToSet(todo)
  BY <1>1, NoElements DEF Pending
<1>4. /\ isScalar(def) /\ ToSet(todo) \subseteq ScalarOids(def) /\ Distinct(todo)
      /\ ToSet(todo) \cap missed = {}
      /\ \A v \in ToSet(pdus) : v.kind # "none" => v.oid \notin ToSet(todo)
      /\ \A c \in ToSet(mib) : OidOf(c) \in ScalarOids(def) =>
             OidOf(c) \in ToSet(todo) \cup missed \/ VarOf(c) \in ToSet(pdus)
  BY <1>1, <1>3 DEF IInv, Asking
<1>5. /\ NextBatch \in Seq(Seq(Nat)) /\ Rest \in Seq(Seq(Nat)) /\ Len(NextBatch) \in Nat \ {0}
      /\ ToSet(NextBatch) \cup ToSet(Rest) = ToSet(todo)
      /\ Distinct(NextBatch) /\ Distinct(Rest) /\ ToSet(NextBatch) \cap ToSet(Rest) = {}
  BY <1>1, <1>2, <1>4, BatchIs
<1>6. /\ r \in Seq(Answers)
      /\ \A v \in ToSet(r) : v.oid \in ToSet(NextBatch)
      /\ Len(NextBatch) = 1 \/ ~batchIsUnusable(r) =>
             \A c \in ToSet(mib) : OidOf(c) \in ToSet(NextBatch) => VarOf(c) \in ToSet(r)
  BY <1>2, <1>5, ReplyIs
<1> HIDE DEF r
<1>7. CASE singles' = NextBatch /\ pdus' = pdus
  <2>1. Pending' = ToSet(todo)
    BY <1>1, <1>5, <1>7 DEF Pending
  <2>2. Typing'
    BY <1>1, <1>2, <1>5, <1>7, SameWorld DEF Typing
  <2>3. Fresh'
    BY <1>1, <1>2, <1>7, SameWorld DEF Fresh
  <2>4. Asking'
    BY <1>1, <1>4, <1>5, <1>7, <2>1, SameWorld DEF Asking, isScalar
  <2> QED BY <1>1, <1>2, <2>2, <2>3, <2>4 DEF IInv, Idle, Complete, Sent
<1>8. CASE /\ pdus' = pdus \o r /\ singles' = singles
           /\ ~(Len(NextBatch) > 1 /\ batchIsUnusable(r))
  <2>1. pdus' \in Seq(Answers) /\ ToSet(pdus') = ToSet(pdus) \cup ToSet(r)
    BY <1>2, <1>6, <1>8, ConcatElements
  <2>2. Pending' = ToSet(Rest)
    BY <1>1, <1>3, <1>8 DEF Pending
  <2>3. Len(NextBatch) = 1 \/ ~batchIsUnusable(r)
    <3> DEFINE n == Len(NextBatch)
    <3>1. n \in Nat \ {0} /\ ~(n > 1 /\ batchIsUnusable(r))
      BY <1>5, <1>8
    <3> HIDE DEF n
    <3>2. n = 1 \/ n > 1
      BY <3>1
    <3> QED BY <3>1, <3>2 DEF n
  <2>4. Typing'
    BY <1>1, <1>2, <1>5, <1>8, SameWorld, NoElements DEF Typing
  <2>5. Fresh'
    BY <1>1, <1>2, <1>4, <1>5, <1>6, <2>1, SameWorld DEF Fresh
  <2>6. \A c \in ToSet(mib) : OidOf(c) \in ScalarOids(def) =>
            OidOf(c) \in ToSet(Rest) \cup missed \/ VarOf(c) \in ToSet(pdus')
    BY <1>4, <1>5, <1>6, <2>1, <2>3
  <2>7. \A v \in ToSet(pdus') : v.kind # "none" => v.oid \notin ToSet(Rest)
    BY <1>4, <1>5, <1>6, <2>1
  <2>8. Asking'
    <3>1. Distinct(todo)' /\ Distinct(singles)' /\ ToSet(singles)' = {}
      BY <1>1, <1>3, <1>5, <1>8, NoElements
    <3>2. Pending' \subseteq ScalarOids(def) /\ Pending' \cap missed = {}
      BY <1>4, <1>5, <2>2
    <3> QED BY <1>1, <1>4, <2>2, <2>6, <2>7, <3>1, <3>2, SameWorld DEF Asking, isScalar
  <2> QED BY <1>1, <1>2, <2>4, <2>5, <2>8 DEF IInv, Idle, Complete, Sent
<1> QED BY <1>1, <1>7, <1>8

\* A single request brings its cell or it is missed.
LEMMA GetSingleInv == ASSUME IInv, GetSingle PROVE IInv'
<1> DEFINE h == Head(singles)
           one == <<h>>
           r == Reply(one)
           rest == Tail(singles)
<1>1. /\ singles # <<>> /\ singles' = rest /\ todo' = todo
      /\ \/ pdus' = pdus \o r /\ missed' = missed
         \/ missed' = missed \cup {h} /\ pdus' = pdus
      /\ world' = world /\ phase' = phase /\ status' = status /\ message' = message
  BY DEF GetSingle
<1>2. /\ phase = "get"
      /\ World /\ todo \in Seq(Seq(Nat)) /\ singles \in Seq(Seq(Nat)) /\ missed \subseteq Seq(Nat)
      /\ status \in {"none", "success", "error"} /\ message = NoMessage
      /\ pdus \in Seq(Answers) /\ \A v \in ToSet(pdus) : v.kind # "none" => v.oid \notin missed
  BY <1>1 DEF IInv, Typing, Fresh, Sent, Idle
<1>3. h \in Seq(Nat) /\ rest \in Seq(Seq(Nat)) /\ {h} \cup ToSet(rest) = ToSet(singles)
      /\ (Distinct(singles) => Distinct(rest) /\ h \notin ToSet(rest))
  BY <1>1, <1>2, HeadCut
<1> HIDE DEF h, rest
<1>4. one \in Seq(Seq(Nat)) /\ Len(one) = 1 /\ ToSet(one) = {h}
  BY <1>3 DEF ToSet
<1> HIDE DEF one
<1>5. /\ isScalar(def) /\ Pending = ToSet(todo) \cup ToSet(singles) /\ Pending \subseteq ScalarOids(def)
      /\ Distinct(todo) /\ Distinct(singles) /\ ToSet(todo) \cap ToSet(singles) = {}
      /\ Pending \cap missed = {}
      /\ \A v \in ToSet(pdus) : v.kind # "none" => v.oid \notin Pending
      /\ \A c \in ToSet(mib) : OidOf(c) \in ScalarOids(def) =>
             OidOf(c) \in Pending \cup missed \/ VarOf(c) \in ToSet(pdus)
  BY <1>2 DEF IInv, Asking, Pending
<1>6. /\ r \in Seq(Answers)
      /\ \A v \in ToSet(r) : v.oid = h
      /\ \A c \in ToSet(mib) : OidOf(c) = h => VarOf(c) \in ToSet(r)
  BY <1>2, <1>4, ReplyIs
<1> HIDE DEF r
<1>7. Pending' = ToSet(todo) \cup ToSet(rest) /\ Pending = Pending' \cup {h} /\ h \notin Pending'
  BY <1>1, <1>3, <1>5 DEF Pending
<1>8. /\ Typing' /\ Distinct(rest) /\ ToSet(todo) \cap ToSet(rest) = {} /\ Pending' \subseteq ScalarOids(def)
  BY <1>1, <1>2, <1>3, <1>5, <1>7, SameWorld DEF Typing
<1>9. CASE pdus' = pdus \o r /\ missed' = missed
  <2>1. pdus' \in Seq(Answers) /\ ToSet(pdus') = ToSet(pdus) \cup ToSet(r)
    BY <1>2, <1>6, <1>9, ConcatElements
  <2>2. Fresh'
    BY <1>1, <1>2, <1>5, <1>6, <1>7, <1>9, <2>1, SameWorld DEF Fresh
  <2>3. \A c \in ToSet(mib) : OidOf(c) \in ScalarOids(def) =>
            OidOf(c) \in Pending' \cup missed \/ VarOf(c) \in ToSet(pdus')
    BY <1>5, <1>6, <1>7, <2>1
  <2>4. \A v \in ToSet(pdus') : v.kind # "none" => v.oid \notin Pending'
    BY <1>5, <1>6, <1>7, <2>1
  <2>5. Pending' \cap missed = {}
    BY <1>5, <1>7
  <2>6. Asking'
    BY <1>1, <1>5, <1>8, <1>9, <2>3, <2>4, <2>5, SameWorld DEF Asking, isScalar
  <2> QED BY <1>1, <1>2, <1>8, <2>2, <2>6 DEF IInv, Idle, Complete, Sent
<1>10. CASE missed' = missed \cup {h} /\ pdus' = pdus
  <2>1. \A v \in ToSet(pdus) : v.kind # "none" => v.oid \notin missed'
    BY <1>2, <1>5, <1>7, <1>10
  <2>2. Fresh'
    BY <1>1, <1>2, <1>10, <2>1, SameWorld DEF Fresh
  <2>3. \A c \in ToSet(mib) : OidOf(c) \in ScalarOids(def) =>
            OidOf(c) \in Pending' \cup missed' \/ VarOf(c) \in ToSet(pdus)
    BY <1>5, <1>7, <1>10
  <2>4. Pending' \cap missed' = {}
    BY <1>5, <1>7, <1>10
  <2>5. \A v \in ToSet(pdus) : v.kind # "none" => v.oid \notin Pending'
    BY <1>5, <1>7
  <2>6. Asking'
    BY <1>1, <1>5, <1>8, <1>10, <2>3, <2>4, <2>5, SameWorld DEF Asking, isScalar
  <2> QED BY <1>1, <1>2, <1>8, <2>2, <2>6 DEF IInv, Idle, Complete, Sent
<1> QED BY <1>1, <1>9, <1>10

\* When nothing is left to ask for, all cells are there.
LEMMA GetEndsInv == ASSUME IInv, GetFails \/ GetDone PROVE IInv'
<1>1. /\ phase = "get" /\ singles = <<>> /\ phase' = "polled"
      /\ \/ status' = "error"
         \/ status' = "success" /\ todo = <<>>
      /\ world' = world /\ todo' = todo /\ singles' = singles /\ pdus' = pdus
      /\ missed' = missed /\ message' = message
  BY DEF GetFails, GetDone
<1>2. World /\ message = NoMessage /\ status' \in {"none", "success", "error"}
  BY <1>1 DEF IInv, Typing, Sent
<1>3. Typing' /\ Fresh' /\ Idle'
  BY <1>1, <1>2, SameWorld DEF IInv, Typing, Fresh, Idle
<1>4. Complete'
  <2> SUFFICES ASSUME status' = "success", NEW c \in Cells PROVE VarOf(c) \in ToSet(pdus)
    BY <1>1, SameWorld DEF Complete
  <2>1. Pending = {} /\ isScalar(def)
    BY <1>1, NoElements DEF Pending, IInv, Asking
  <2>2. c \in ToSet(mib) /\ OidOf(c) \in ScalarOids(def) /\ OidOf(c) \notin missed
    BY <1>2, <2>1, ScalarOidsAre, CellIs
  <2> QED BY <1>1, <2>1, <2>2 DEF IInv, Asking
<1> QED BY <1>1, <1>2, <1>3, <1>4 DEF IInv, Asking, Sent

\* A walk without a root brings nothing.
LEMMA WalkFailsInv == ASSUME IInv, WalkFails PROVE IInv'
<1>1. /\ phase = "start" /\ phase' = "polled" /\ status' = "error"
      /\ world' = world /\ todo' = todo /\ singles' = singles /\ pdus' = pdus
      /\ missed' = missed /\ message' = message
  BY DEF WalkFails
<1>2. Typing' /\ Fresh' /\ Idle' /\ message = NoMessage
  BY <1>1, SameWorld DEF IInv, Typing, Fresh, Idle, Sent
<1> QED BY <1>1, <1>2 DEF IInv, Asking, Complete, Sent

\* A walk brings all cells, or some before it fails.
LEMMA WalkTableInv == ASSUME IInv, WalkTable PROVE IInv'
<1> DEFINE all == Walk(Variables, LowestCommonOID(def))
<1>1. /\ phase = "start" /\ DOMAIN def.attributes # {} /\ phase' = "polled"
      /\ \/ pdus' = all /\ status' = "success"
         \/ \E n \in 0..Len(all) : pdus' = SubSeq(all, 1, n) /\ status' = "error"
      /\ world' = world /\ todo' = todo /\ singles' = singles
      /\ missed' = missed /\ message' = message
  BY DEF WalkTable
<1>2. World /\ message = NoMessage /\ missed = {} /\ singles = <<>>
  BY <1>1 DEF IInv, Typing, Sent, Idle
<1>3. all \in Seq(ToSet(Variables)) /\ \A c \in Cells : VarOf(c) \in ToSet(all)
  BY <1>1, <1>2, WalkIs
<1> HIDE DEF all
<1>4. pdus' \in Seq(ToSet(Variables)) /\ status' \in {"success", "error"}
      /\ (status' = "success" => pdus' = all)
  BY <1>1, <1>3, Cut
<1>5. pdus' \in Seq(Answers)
  BY <1>4, SeqMonotonic DEF Answers
<1>6. Typing' /\ Fresh' /\ Idle'
  BY <1>1, <1>2, <1>4, <1>5, SameWorld DEF IInv, Typing, Fresh, Idle
<1>7. Complete'
  BY <1>1, <1>3, <1>4, SameWorld DEF Complete
<1> QED BY <1>1, <1>2, <1>6, <1>7 DEF IInv, Asking, Sent

\* The answer becomes the message.
LEMMA ProcessInv == ASSUME IInv, Process PROVE IInv'
<1>1. /\ phase = "polled" /\ phase' = "done"
      /\ message' = IF (status = "error" /\ pdus = <<>>) \/ Decoded.dropped THEN NoMessage
                    ELSE Message(Decoded.varbinds)
      /\ world' = world /\ todo' = todo /\ singles' = singles /\ pdus' = pdus
      /\ missed' = missed /\ status' = status
  BY DEF Process
<1>2. Typing' /\ Fresh' /\ Idle'
  BY <1>1, SameWorld DEF IInv, Typing, Fresh, Idle
<1>3. Complete'
  BY <1>1, SameWorld DEF IInv, Complete
<1>4. Decoded' = Decoded
  BY <1>1, SameWorld DEF Decoded
<1>5. \A varbinds : Message(varbinds)' = Message(varbinds)
  BY <1>1, SameWorld DEF Message
<1>6. Sent'
  BY <1>1, <1>4, <1>5 DEF Sent, Message
<1> QED BY <1>1, <1>2, <1>3, <1>6 DEF IInv, Asking

\* The next poll begins with nothing.
LEMMA NextJobInv == ASSUME IInv, NextJob PROVE IInv'
<1>1. /\ phase = "done" /\ phase' = "start" /\ def' \in ObjectDefs
      /\ pdus' = <<>> /\ todo' = <<>> /\ missed' = {} /\ status' = "none" /\ message' = NoMessage
      /\ mib' = mib /\ registry' = registry /\ agent' = agent /\ singles' = singles
  BY DEF NextJob
<1>2. World'
  BY <1>1 DEF IInv, Typing, World, Registries
<1>3. Typing'
  BY <1>1, <1>2, NoElements DEF IInv, Typing
<1>4. Fresh'
  BY <1>1, NoElements DEF Fresh
<1>5. Idle'
  BY <1>1 DEF IInv, Idle
<1> QED BY <1>1, <1>3, <1>4, <1>5 DEF IInv, Asking, Complete, Sent

\* Nothing changes.
LEMMA StutterInv == ASSUME IInv, UNCHANGED vars PROVE IInv'
<1>1. /\ world' = world /\ phase' = phase /\ todo' = todo /\ singles' = singles /\ pdus' = pdus
      /\ missed' = missed /\ status' = status /\ message' = message
  BY DEF vars, world
<1>2. Typing' /\ Fresh' /\ Idle' /\ Complete'
  BY <1>1, SameWorld DEF IInv, Typing, Fresh, Idle, Complete
<1>3. Asking'
  BY <1>1, SameWorld DEF IInv, Asking, Pending, isScalar
<1>4. Decoded' = Decoded
  BY <1>1, SameWorld DEF Decoded
<1>5. Sent'
  BY <1>1, <1>4, SameWorld DEF IInv, Sent, Message
<1> QED BY <1>2, <1>3, <1>5 DEF IInv

\* Every step keeps the invariant.
LEMMA NextInv == IInv /\ [Next]_vars => IInv'
BY StartGetInv, GetBatchInv, GetSingleInv, GetEndsInv, WalkFailsInv, WalkTableInv, ProcessInv,
   NextJobInv, StutterInv DEF Next

-----------------------------------------------------------------------------
\* The message has the metrics that are built, or none.
LEMMA MessageIs ==
    ASSUME IInv, message.metrics # {}
    PROVE  message.metrics = Build(Varbinds, registry)
<1>1. message # NoMessage
  BY DEF NoMessage
<1>2. message = Message(Varbinds)
  BY <1>1 DEF IInv, Sent, Decoded, Varbinds
<1>3. message = [status |-> status, metrics |-> Build(Varbinds, registry)]
  BY <1>1, <1>2 DEF Message
<1> QED BY <1>3

\* What is sent is grounded.
LEMMA GroundedMessage == IInv => NothingMadeUp
<1> SUFFICES ASSUME IInv PROVE NothingMadeUp
  OBVIOUS
<1>1. Grounded(message.metrics)
  <2>1. CASE message.metrics = {}
    BY <2>1 DEF Grounded
  <2>2. CASE message.metrics # {}
    BY <2>2, MessageIs, BuildIsGrounded DEF IInv, Typing
  <2> QED BY <2>1, <2>2
<1> DEFINE metrics == message.metrics
<1> HIDE DEF metrics
<1>2. Grounded(metrics)
  BY <1>1 DEF metrics
<1> QED BY <1>2 DEF Grounded, NothingMadeUp, metrics

\* What is sent is all there is.
LEMMA FullMessage == IInv => CollectsEverything
<1> SUFFICES ASSUME IInv, phase = "done", status = "success", Unambiguous,
                    \A c \in Cells : Fits(c) /\ c.kind # "nan"
             PROVE  message.metrics = {MetricOf(c) : c \in {d \in Cells : ~Attr(d).isTag /\ Best(d)}}
  BY DEF CollectsEverything
<1> DEFINE all == {MetricOf(c) : c \in {d \in Cells : ~Attr(d).isTag /\ Best(d)}}
<1>1. World /\ Fresh /\ Received
  BY DEF IInv, Typing, Complete, Received
<1>2. Build(Varbinds, registry) = all
  BY <1>1, AllBuilt
<1>3. CASE Decoded.dropped
  <2>1. message.metrics = {}
    BY <1>3 DEF IInv, Sent, NoMessage
  <2>2. Varbinds = <<>>
    BY <1>3 DEF Decoded, Varbinds
  <2>3. DOMAIN Varbinds = {}
    BY <2>2
  <2>4. Cells = {}
    BY <1>1, <2>3, Position
  <2> QED BY <2>1, <2>4
<1>4. CASE ~Decoded.dropped
  <2>1. message = Message(Varbinds)
    BY <1>4 DEF IInv, Sent, Decoded, Varbinds
  <2>2. Formats(Build(Varbinds, registry))
    <3> SUFFICES ASSUME NEW c \in Cells PROVE MetricOf(c).value.kind # "nan"
      BY <1>2 DEF Formats
    <3>1. MetricOf(c).value = Meaning(c)
      BY DEF MetricOf
    <3>2. ConvertValue(Attr(c).syntax, c).kind # "nan"
      BY DEF ConvertValue
    <3>3. \A labels : Labels(labels).kind # "nan"
      BY DEF Labels
    <3> QED BY <3>1, <3>2, <3>3 DEF Meaning
  <2>3. CASE Build(Varbinds, registry) = {}
    BY <1>2, <2>1, <2>3 DEF Message, NoMessage
  <2>4. CASE Build(Varbinds, registry) # {}
    BY <1>2, <2>1, <2>2, <2>4 DEF Message
  <2> QED BY <2>3, <2>4
<1> QED BY <1>3, <1>4

\* The invariant always holds.
LEMMA Inductive == Spec => []IInv
BY InitInv, NextInv, PTL DEF Spec

\* Every variable keeps its type, and the poll goes on with the job it began with.
THEOREM AlwaysTyped == Spec => []Typing
BY Inductive, PTL DEF IInv

\* doGet has asked for each OID once, and for an OID of an unusable batch once more: what it
\* is done with was answered with what the device has, if anything, or missed (poller.go:126-180).
THEOREM AlwaysAsksOnce == Spec => []Asking
BY Inductive, PTL DEF IInv

\* A successful poll yields every cell of an unambiguous object's rows from its most precise
\* column, with its label and its row's tags, if all values convert (poller.go, poll.go, enrich.go).
THEOREM AlwaysCollectsEverything == Spec => []CollectsEverything
BY Inductive, FullMessage, PTL

\* Every metric comes from a cell of the object, under its name and row and with its meaning
\* and the tags of its row, whatever fails on the way.
THEOREM NothingEverMadeUp == Spec => []NothingMadeUp
BY Inductive, GroundedMessage, PTL
=============================================================================
