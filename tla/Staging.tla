------------------------------ MODULE Staging ------------------------------
(***************************************************************************)
(* The write-staging rules of PagedFile (src/src/data.rs), shared by every *)
(* model of a paged file.  A staged write is a record with a field start   *)
(* (where its own bytes begin) and a field vals (the bytes themselves);    *)
(* the buffer of the code is vals preceded by the head of the first page.  *)
(* A "byte" is whatever unit the instantiating module addresses: bytes of  *)
(* a small page, slots of the index, cells of the data file.               *)
(***************************************************************************)
EXTENDS Format, Sequences, FiniteSets, SequencesExt

CONSTANT MAX_STAGED_WRITES   \* staged writes kept before a forced flush

ASSUME StagingAssumption == MAX_STAGED_WRITES \in Nat \ {0}

Base(w) == PageDown(w.start)

End(w) == w.start + Len(w.vals)

\* The pages of w meet the page range [base, newEnd).
Overlaps(w, base, newEnd) == Base(w) < newEnd /\ base < PageUp(End(w))

\* Position of the first staged write that ends exactly at off; 0 if none.
OpenWrite(ws, off) == SelectInSeq(ws, LAMBDA w : End(w) = off)

\* Variant: the open write grows whatever lies behind it.
ExtendBlindly(ws, off, len) == OpenWrite(ws, off) > 0

\* The open write may grow by len without reaching a page of another write.
CanExtend(ws, off, len) ==
    LET i == OpenWrite(ws, off)
    IN  /\ i > 0
        /\ \A j \in DOMAIN ws \ {i} : ~Overlaps(ws[j], Base(ws[i]), PageUp(off + len))

\* Variant: the number of staged writes is not limited.
OverlapOnly(ws, off, len) ==
    /\ ~CanExtend(ws, off, len)
    /\ \E i \in DOMAIN ws : Overlaps(ws[i], PageDown(off), PageUp(off + len))

\* stage has to flush before it can take a write of len units at off.
MustFlush(ws, off, len) ==
    /\ ~CanExtend(ws, off, len)
    /\ \/ Len(ws) >= MAX_STAGED_WRITES
       \/ \E i \in DOMAIN ws : Overlaps(ws[i], PageDown(off), PageUp(off + len))

\* The staged writes after vals is appended to the open write at off.
Extend(ws, off, vals) == [ws EXCEPT ![OpenWrite(ws, off)].vals = @ \o vals]

\* The staged writes after vals is staged at off, when stage need not flush first.
Staged(ws, off, vals) == IF CanExtend(ws, off, Len(vals)) THEN Extend(ws, off, vals)
                         ELSE Append(ws, [start |-> off, vals |-> vals])

\* What a reader would see of content once every staged write is flushed.
Overlay(content, ws) ==
    [x \in DOMAIN content |->
        IF \E i \in DOMAIN ws : x >= ws[i].start /\ x < End(ws[i])
        THEN LET i == CHOOSE i \in DOMAIN ws : x >= ws[i].start /\ x < End(ws[i])
             IN  ws[i].vals[x - ws[i].start + 1]
        ELSE content[x]]

\* The page numbers a write covers, in the order they go to the file.
PagesOf(w) == [k \in 1 .. (PageUp(End(w)) - Base(w)) \div PAGE |->
                  Base(w) \div PAGE + k - 1]

\* The pages of a whole flush: one request per staged write, in staging order.
FlushPages(ws) == FlattenSeq([i \in DOMAIN ws |-> PagesOf(ws[i])])

\* new on the given pages, old elsewhere.
OnPages(old, new, pages) ==
    [x \in DOMAIN old |-> IF x \div PAGE \in pages THEN new[x] ELSE old[x]]
=============================================================================
