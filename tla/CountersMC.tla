----------------------------- MODULE CountersMC -----------------------------
(* Counters of one device, shrunk to widths that a few steps can roll over.   *)
(* Which counters there are, under which keys and with which widths, follows  *)
(* from object definitions and what the device has (see Decode). The          *)
(* definitions are cut from config/objects/ietf/IF-MIB.yml: packets received, *)
(* in 32 bits in ifEntry and in 64 bits in ifXEntry, under one name.          *)
EXTENDS Counters, Decode, TLC

CONSTANTS router, row, xrow

Column(syntax) == [name |-> "netif.packets.ucast.in", syntax |-> syntax, isTag |-> FALSE]

ifInUcastPkts   == <<2, 11>> :> Column("Counter32")
ifHCInUcastPkts == <<31, 7>> :> Column("Counter64")

ifEntry  == [table |-> TRUE, attributes |-> ifInUcastPkts]
ifXEntry == [table |-> TRUE, attributes |-> ifHCInUcastPkts]
\* Both columns in one object: Build keeps the better one.
both     == [table |-> TRUE, attributes |-> ifInUcastPkts @@ ifHCInUcastPkts]

\* Devices with one interface: one without 64-bit counters, one with.
Variable(column) == [oid |-> Append(column, 5), kind |-> "number", value |-> <<0>>]
Old == << Variable(<<2, 11>>) >>
New == << Variable(<<2, 11>>), Variable(<<31, 7>>) >>

\* The key of a counter, for the only interface.
Key(name) == [device |-> router, attribute |-> name, instance |-> <<5>>]

\* One object with its key for itself, of either width.
OneObject   == row :> Key("netif.packets.ucast.in")
EitherWidth == {row :> MaxCounter32, row :> MaxCounter64}

\* Both objects of IF-MIB, which share a key.
IfMib      == (row :> Key("netif.packets.ucast.in")) @@ (xrow :> Key("netif.packets.ucast.in"))
IfMibWidth == {(row :> MaxCounter32) @@ (xrow :> MaxCounter64)}

\* That is what polling, decoding and building come to: one metric with this key,
\* 64 bits wide if the object and the device have the wide column.
Yields(def, mib, wrap64) ==
    LET metrics == Build(Parse(def, Walk(mib, LowestCommonOID(def))).varbinds, NewEnumRegistry)
    IN  /\ Cardinality(metrics) = 1
        /\ \A m \in metrics :
               /\ [device |-> router, attribute |-> m.name, instance |-> m.instance]
                      = Key("netif.packets.ucast.in")
               /\ WrapForSyntax(m.syntax) = IF wrap64 THEN MaxCounter64 ELSE MaxCounter32

ASSUME DecodedAssumption ==
    /\ Yields(both, Old, FALSE) /\ Yields(both, New, TRUE)
    /\ Yields(ifEntry, New, FALSE) /\ Yields(ifXEntry, New, TRUE)

\* The goroutines of the produce stage are interchangeable.
GoroutinesAlike == Permutations(Producers)
=============================================================================
