----------------------------- MODULE CollectMC -----------------------------
(* A table with a two-number index, a tag column, two columns that give one   *)
(* name to a counter of either width, and columns with labels for numbers,    *)
(* bits and OIDs; a group of scalars, one of them defined with its ".0";      *)
(* devices that lack columns, rows or scalars, or hold a value that has no    *)
(* label, does not convert or cannot be formatted.                            *)
EXTENDS Collect, TLC

\* Labels.
CONSTANTS up, down, enabled, unknown, duplex, vlans, router, cold

Column(name, syntax, isTag) == [name |-> name, syntax |-> syntax, isTag |-> isTag]

Table == [table |-> TRUE,
          attributes |-> (<<1, 1>> :> Column("descr", "DisplayString", TRUE))
                      @@ (<<1, 2>> :> Column("bytes", "Counter32", FALSE))
                      @@ (<<1, 3>> :> Column("bytes", "Counter64", FALSE))
                      @@ (<<1, 4>> :> Column("status", "EnumInteger", FALSE))
                      @@ (<<1, 5>> :> Column("features", "EnumBitmap", FALSE))
                      @@ (<<1, 6>> :> Column("type", "EnumObjectIdentifier", FALSE))]

Scalars == [table |-> FALSE,
            attributes |-> (<<2, 1>>    :> Column("name", "DisplayString", TRUE))
                        @@ (<<2, 2, 0>> :> Column("start", "EnumInteger", FALSE))
                        @@ (<<2, 3>>    :> Column("load", "Gauge32", FALSE))
                        @@ (<<2, 4>>    :> Column("load", "BandwidthMBits", FALSE))]

\* Definitions that do not tell which of two columns counts, one of them with tags.
TwoTags == [table |-> TRUE, attributes |-> (<<1, 1>> :> Column("descr", "DisplayString", TRUE))
                                        @@ (<<1, 6>> :> Column("descr", "ObjectIdentifier", TRUE))
                                        @@ (<<1, 4>> :> Column("status", "EnumInteger", FALSE))]
TwoLoads == [table |-> FALSE, attributes |-> (<<2, 3>> :> Column("load", "Gauge32", FALSE))
                                          @@ (<<2, 4>> :> Column("load", "Gauge32", FALSE))]

\* The last object has no attributes.
MCObjectDefs == {Table, Scalars, TwoTags, TwoLoads, [table |-> TRUE, attributes |-> <<>>]}

\* The second file does not parse, the third has other labels for the status and
\* none that can be used for the features. Names of numbers mean nothing for a column of OIDs.
Numbers(values) == [type |-> "ints", values |-> values]
Text(label)     == [type |-> "oid", label |-> label]

MCEnumFiles == <<
    [parses |-> TRUE,
     enums  |-> (<<1, 4>> :> Numbers((1 :> up) @@ (2 :> down)))
             @@ (<<1, 5>> :> Numbers((0 :> duplex) @@ (2 :> vlans)))
             @@ (<<1, 6>> :> Numbers(1 :> cold))
             @@ (<<2, 2>> :> Numbers(1 :> cold))
             @@ (<<9, 1>> :> Text(router))],
    [parses |-> FALSE, enums |-> <<1, 4>> :> Numbers(1 :> down)],
    [parses |-> TRUE,  enums |-> (<<1, 4>> :> Numbers((1 :> enabled) @@ ((-1) :> unknown)))
                     @@ (<<1, 5>> :> [type |-> "unfit"])] >>

Cell(column, index, kind, value) ==
    [column |-> column, index |-> index, kind |-> kind, value |-> value]

\* In the order of OIDs; <<1, 2, 9, ...>> and <<1, 9>> belong to no row of Table.
Full == << Cell(<<1, 1>>, <<1, 4>>, "octets", <<>>), Cell(<<1, 1>>, <<2, 4>>, "octets", <<>>),
           Cell(<<1, 2>>, <<1, 4>>, "number", <<7>>), Cell(<<1, 2>>, <<2, 4>>, "number", <<8>>),
           Cell(<<1, 3>>, <<1, 4>>, "number", <<7>>),
           Cell(<<1, 4>>, <<1, 4>>, "number", <<1>>), Cell(<<1, 4>>, <<2, 4>>, "number", <<2>>),
           Cell(<<1, 5>>, <<1, 4>>, "number", <<5>>), Cell(<<1, 5>>, <<2, 4>>, "number", <<8>>),
           Cell(<<1, 6>>, <<1, 4>>, "oid", <<9, 1>>), Cell(<<1, 6>>, <<2, 4>>, "oid", <<9, 2>>),
           Cell(<<1, 9>>, <<1, 4>>, "number", <<1>>),
           Cell(<<2, 1>>, <<0>>, "octets", <<>>), Cell(<<2, 2, 0>>, <<>>, "number", <<1>>),
           Cell(<<2, 3>>, <<0>>, "number", <<3>>), Cell(<<2, 4>>, <<0>>, "number", <<4>>) >>

\* The device without the cells of a set, or with another value in a cell: one that
\* does not convert in a column or a scalar, or a large or negative number that does.
Without(gone) == SelectSeq(Full, LAMBDA c : c \notin gone)
With(cell, kind, value) ==
    [i \in DOMAIN Full |-> IF Full[i] = cell THEN [cell EXCEPT !.kind = kind, !.value = value] ELSE Full[i]]

MCMIBs ==
    {Without(gone) : gone \in SUBSET {Full[3], Full[13], Full[14], Full[15], Full[16]}}
    \cup {With(Full[3], "octets", <<>>), With(Full[4], "negative", <<-1>>), With(Full[5], "huge", <<>>),
          With(Full[6], "negative", <<-1>>), With(Full[8], "octets", <<>>), With(Full[8], "number", <<4>>),
          With(Full[8], "number", <<0>>), With(Full[8], "negative", <<-1>>),
          With(Full[10], "number", <<1>>),
          With(Full[14], "float", <<>>), With(Full[14], "number", <<2>>),
          With(Full[15], "negative", <<-1>>), With(Full[16], "negative", <<-1>>), With(Full[16], "nan", <<>>)}
=============================================================================
