------------------------------ MODULE Records ------------------------------
(***************************************************************************)
(* Records and slots as the two files hold them (src/src/format.rs,        *)
(* data.rs) and the walk over a data file (src/src/recovery.rs), for every *)
(* model of a heap.  A data file is a function from cells to contents; a   *)
(* record occupies one or more cells, the first of which holds its header. *)
(* A record has at least the fields id, ver, len (in cells) and tag (its   *)
(* payload).  An index is a function from record numbers to slots.         *)
(***************************************************************************)
EXTENDS Integers, Sequences, SequencesExt

Zero == [rec |-> [id |-> 0, ver |-> 0, len |-> 0, tag |-> 0], k |-> 0]

CellsOf(r) == [k \in 1 .. r.len |-> [rec |-> r, k |-> k]]

Empty == [st |-> "empty", off |-> 0, len |-> 0]
Live(off, len) == [st |-> "live", off |-> off, len |-> len]
\* Variant: the tombstone loses the location of the record.
BareTombstone(slot) == [slot EXCEPT !.st = "deleted", !.off = 0]
Tombstone(slot) == [slot EXCEPT !.st = "deleted"]

\* RecordHeader::decode succeeds at p: the header cell is intact.
HeaderAt(d, p) == p \in DOMAIN d /\ d[p].k = 1

\* The payload checksum matches: every cell of the record is this record's.
PayloadAt(d, p) ==
    LET r == d[p].rec
    IN  /\ p + r.len - 1 \in DOMAIN d
        /\ \A k \in 1 .. r.len : d[p + k - 1] = [rec |-> r, k |-> k]

RecordAt(d, p) == HeaderAt(d, p) /\ PayloadAt(d, p)

\* read_header succeeds: at p is the header of some version of id.
ReadHeader(d, p, id) == HeaderAt(d, p) /\ d[p].rec.id = id

\* What reading record id returns: its payload, or one of
NotFound == 0
Corrupt == -1

Read(d, i, id) ==
    LET slot == i[id]
    IN  IF slot.st # "live" THEN NotFound
        ELSE IF /\ RecordAt(d, slot.off)
                /\ d[slot.off].rec.id = id
                /\ d[slot.off].rec.len = slot.len
             THEN d[slot.off].rec.tag
             ELSE Corrupt

-----------------------------------------------------------------------------
(* walk, by the offsets of the records with a valid payload it visits. *)

\* There is a header at p whose record ends at or before end.
HeaderWithin(d, p, end) == HeaderAt(d, p) /\ p + d[p].rec.len <= end

\* Without resync: the records that follow each other from start; the first bad
\* header or payload ends it.
Walk(d, start, end) ==
    LET from[p \in start .. end] ==
            IF HeaderWithin(d, p, end) /\ PayloadAt(d, p) THEN <<p>> \o from[p + d[p].rec.len]
            ELSE <<>>
    IN  from[start]

\* Variant: a bad header ends the walk.
WalkStops(d, start, end) ==
    LET from[p \in start .. end] ==
            IF ~HeaderWithin(d, p, end) THEN <<>>
            ELSE (IF PayloadAt(d, p) THEN <<p>> ELSE <<>>) \o from[p + d[p].rec.len]
    IN  from[start]

\* With resync, and a visitor that goes on: a record with a bad payload is passed
\* over; behind a bad header the next header is searched for.
WalkAll(d, start, end) ==
    LET from[p \in start .. end] ==
            IF p = end THEN <<>>
            ELSE IF ~HeaderWithin(d, p, end) THEN from[p + 1]
            ELSE (IF PayloadAt(d, p) THEN <<p>> ELSE <<>>) \o from[p + d[p].rec.len]
    IN  from[start]

\* found with the record at p, unless it holds a newer version of its number (of
\* equal versions the last counts).
Newest(d, found, p) ==
    LET r == d[p].rec
        entry == [off |-> p, ver |-> r.ver, len |-> r.len]
    IN  IF r.id \notin DOMAIN found \/ r.ver >= found[r.id].ver
        THEN [id \in DOMAIN found \union {r.id} |-> IF id = r.id THEN entry ELSE found[id]]
        ELSE found

\* The newest version of every number among the records at the given offsets.
Latest(d, offs) == FoldLeft(LAMBDA found, p : Newest(d, found, p), <<>>, offs)
=============================================================================
