---------------------------- MODULE RotatingFile ----------------------------
(***************************************************************************)
(* internal/plugin/transport/file: Send writes a message and a newline to  *)
(* a file that rotates by size (rotate.go), under the locks of Transport   *)
(* and RotatingFile. The operators below give the outcomes of a call: the  *)
(* disk decides whether a rename, an open or a write succeeds. c is the    *)
(* configuration: c.maxBytes, the size that triggers a rotation (0: never; *)
(* not below a message), and c.maxBackups, the backups to keep (0: all;    *)
(* nothing refuses a negative number).                                     *)
(*                                                                         *)
(* Contents are sequences of pieces, [msg, part, bytes]: a whole message,  *)
(* a torn one, or a newline.                                               *)
(***************************************************************************)
EXTENDS Integers, SequencesExt

CONSTANTS
    MessageBytes,  \* size of a message; a newline has one byte
    OpenMayFail    \* whether the file may fail to open

ASSUME RotateAssumption ==
    /\ MessageBytes \in Nat \ {0, 1}
    /\ OpenMayFail \in BOOLEAN

VARIABLES
    disk,     \* [active, backups, open, size]: .1 is the first of backups;
              \* open and size are rf.file and rf.size
    written   \* history: every piece that reached the disk, in order

fileVars == <<disk, written>>

Piece(m)   == [msg |-> m, part |-> "whole",   bytes |-> MessageBytes]
Torn(m)    == [msg |-> m, part |-> "torn",    bytes |-> 1]
Newline(m) == [msg |-> m, part |-> "newline", bytes |-> 1]

Bytes(content) ==
    LET upTo[i \in 0..Len(content)] == IF i = 0 THEN 0 ELSE upTo[i - 1] + content[i].bytes
    IN  upTo[Len(content)]

EmptyDisk == [active |-> <<>>, backups |-> <<>>, open |-> FALSE, size |-> 0]

FileInit ==
    /\ disk = EmptyDisk
    /\ written = <<>>

\* openFile: at the end of what an earlier process left.
Opened(d) == [d EXCEPT !.open = TRUE, !.size = Bytes(d.active)]

\* Closed: rf.file and rf.size mean nothing.
Shut(d) == [d EXCEPT !.open = FALSE, !.size = 0]

\* The active file becomes .1 and no other moves.
Overwritten(d) ==
    [d EXCEPT !.backups = IF @ = <<>> THEN <<d.active>> ELSE [@ EXCEPT ![1] = d.active],
              !.active  = <<>>]

-----------------------------------------------------------------------------
(* Plausible bug: it replaces one definition below, to show that a property  *)
(* notices it. It is no part of the specification.                           *)

\* The backups are not shifted before the active file becomes .1.
ShiftedOver(d, maxBackups) == Overwritten(d)

-----------------------------------------------------------------------------
\* The others move up and the active file becomes .1; beyond maxBackups, backups go,
\* those of a larger setting too. With a negative number the loop that moves them
\* does nothing.
Shifted(d, maxBackups) ==
    LET all == <<d.active>> \o d.backups
    IN  IF maxBackups < 0 THEN Overwritten(d)
        ELSE [d EXCEPT !.backups = IF maxBackups = 0 THEN all
                                   ELSE SubSeq(all, 1, Min({maxBackups, Len(all)})),
                       !.active = <<>>]

\* rotate: the file is closed and opened again, after the renames (all refused,
\* as in a directory that lost its permissions, or none). A file that does not
\* open leaves rf.file nil and rf.size zero.
Rotated(d, c) ==
    LET Renamed == {d, Shifted(d, c.maxBackups)}
    IN  {Opened(e) : e \in Renamed} \cup IF OpenMayFail THEN {Shut(e) : e \in Renamed} ELSE {}

NeedsRotation(d, p, c) == c.maxBytes > 0 /\ d.size + p.bytes > c.maxBytes

Appended(d, p) == [d EXCEPT !.active = Append(@, p), !.size = @ + p.bytes]

\* RotatingFile.Write: the outcomes as [disk, ok, out], out being what reached
\* the disk. A write fails altogether (always, without a file) or, if it is a
\* message, after its first byte.
Write(d, p, c) ==
    UNION {
        {[disk |-> e, ok |-> FALSE, out |-> <<>>]}
        \cup IF e.open THEN {[disk |-> Appended(e, p), ok |-> TRUE, out |-> <<p>>]} ELSE {}
        \cup IF e.open /\ p.part = "whole"
             THEN {[disk |-> Appended(e, Torn(p.msg)), ok |-> FALSE, out |-> <<Torn(p.msg)>>]}
             ELSE {}
        : e \in IF NeedsRotation(d, p, c) THEN Rotated(d, c) ELSE {d}}

\* Transport.Send: the message, then the newline, each with a rotation of its own.
SendOutcomes(m, c) ==
    UNION {
        IF ~w.ok THEN {w}
        ELSE {[n EXCEPT !.out = w.out \o n.out] : n \in Write(w.disk, Newline(m), c)}
        : w \in Write(disk, Piece(m), c)}

\* One call of Send that has outcome o.
SendsTo(o) ==
    /\ disk' = o.disk
    /\ written' = written \o o.out
=============================================================================
