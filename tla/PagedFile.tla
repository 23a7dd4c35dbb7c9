----------------------------- MODULE PagedFile -----------------------------
(***************************************************************************)
(* PagedFile (src/src/data.rs): writes of any offset and length are staged *)
(* and go to the file in whole pages.  The part of a first or last page    *)
(* that a write does not cover comes from the page the write started in    *)
(* (head), from the cache of partly filled last pages (tail_pages), or     *)
(* from the file.  An I/O error may hit the reads and writes of a flush.   *)
(***************************************************************************)
EXTENDS Staging

CONSTANTS Pages,       \* pages in the file
          Lens,        \* lengths of staged writes
          MaxStaged,   \* bound on staged writes over a run
          MaxFaults    \* bound on I/O errors

ASSUME PagedAssumption == /\ Pages \in Nat \ {0}
                          /\ Lens \subseteq Nat \ {0}
                          /\ MaxStaged \in Nat /\ MaxFaults \in Nat

VARIABLES disk,            \* the bytes of the file
          staged_writes,   \* start, vals, head (<<>> for None)
          tail_pages,      \* page start -> bytes of the page
          pending_bytes,
          count, faults    \* writes staged and errors so far

vars == <<disk, staged_writes, tail_pages, pending_bytes, count, faults>>

Offsets == 0 .. Pages * PAGE - 1

Init == /\ disk = [x \in Offsets |-> 0]
        /\ staged_writes = <<>>
        /\ tail_pages = <<>>
        /\ pending_bytes = 0
        /\ count = 0 /\ faults = 0

\* The page at p, as bytes 1 .. PAGE, of content d.
PageBytes(d, p) == [k \in 1 .. PAGE |-> d[p + k - 1]]

\* The page a write starts in, as far as the file knows it.
HeadPage(d, tails, p) == IF p \in DOMAIN tails THEN tails[p] ELSE PageBytes(d, p)

-----------------------------------------------------------------------------
(* flush *)

\* The page that provides the bytes behind the end of w in its last page.
Suffix(w, tails) ==
    LET last == PageDown(End(w))
    IN  IF last = Base(w) /\ w.head # <<>> THEN w.head
        ELSE HeadPage(disk, tails, last)

\* The bytes a flush writes for w: whole pages.
Image(w, tails) ==
    [x \in Base(w) .. PageUp(End(w)) - 1 |->
        IF x < w.start THEN w.head[x - Base(w) + 1]
        ELSE IF x < End(w) THEN w.vals[x - w.start + 1]
        ELSE Suffix(w, tails)[x - PageDown(End(w)) + 1]]

\* Variant: pages that a flush completed stay in the cache.
KeepTail(tails, w) ==
    LET last == PageDown(End(w))
    IN  [p \in DOMAIN tails \union ({last} \ {End(w)}) |->
            IF p = last /\ last # End(w) THEN PageBytes(Image(w, tails), last) ELSE tails[p]]

\* tail_pages after w: none of its pages but the last, if partly filled.
NextTail(tails, w) ==
    LET last == PageDown(End(w))
        keep == {p \in DOMAIN tails : p < Base(w) \/ p >= PageUp(End(w))}
    IN  [p \in keep \union ({last} \ {End(w)}) |->
            IF p = last /\ last # End(w) THEN PageBytes(Image(w, tails), last) ELSE tails[p]]

TailAfter(n) == FoldLeft(NextTail, tail_pages, SubSeq(staged_writes, 1, n))

\* The file once the pages in the set have been written.
DiskWith(pages) ==
    [x \in Offsets |->
        IF /\ x \div PAGE \in pages
           /\ \E i \in DOMAIN staged_writes :
                 x >= Base(staged_writes[i]) /\ x < PageUp(End(staged_writes[i]))
        THEN LET i == CHOOSE i \in DOMAIN staged_writes :
                        x >= Base(staged_writes[i]) /\ x < PageUp(End(staged_writes[i]))
             IN  Image(staged_writes[i], TailAfter(i - 1))[x]
        ELSE disk[x]]

AllPages == 0 .. Pages - 1

\* flush, for flush itself and for read_aligned and walk, which begin with it.
Flush ==
    /\ staged_writes # <<>>
    /\ disk' = DiskWith(AllPages)
    /\ tail_pages' = TailAfter(Len(staged_writes))
    /\ staged_writes' = <<>>
    /\ pending_bytes' = 0
    /\ UNCHANGED <<count, faults>>

\* What an error leaves: the staged writes are gone and pending_bytes stands.
\* Either the read of a last page failed, and the file is as it was, or the
\* write did, after some pages.
FlushError ==
    /\ faults < MaxFaults /\ staged_writes # <<>>
    /\ \/ /\ \E i \in DOMAIN staged_writes :
                LET w == staged_writes[i]
                    last == PageDown(End(w))
                IN  /\ last # End(w)
                    /\ ~(last = Base(w) /\ w.head # <<>>)
                    /\ last \notin DOMAIN TailAfter(i - 1)
                    /\ tail_pages' = TailAfter(i - 1)
          /\ UNCHANGED disk
       \/ /\ \E pages \in SUBSET Range(FlushPages(staged_writes)) : disk' = DiskWith(pages)
          /\ tail_pages' = TailAfter(Len(staged_writes))
    /\ staged_writes' = <<>>
    /\ faults' = faults + 1
    /\ UNCHANGED <<pending_bytes, count>>

-----------------------------------------------------------------------------
(* stage *)

\* Every write of the model is one byte value, different each time.
Vals(len) == [k \in 1 .. len |-> count + 1]

\* Variant: the rest of the first page is not kept.
PushBare(ws, d, tails, off, len) ==
    Append(ws, [start |-> off, vals |-> Vals(len),
                head |-> IF off = PageDown(off) THEN <<>> ELSE [k \in 1 .. PAGE |-> 0]])

\* The staged writes after a push; a write that starts inside a page keeps it.
Push(ws, d, tails, off, len) ==
    Append(ws, [start |-> off, vals |-> Vals(len),
                head |-> IF off = PageDown(off) THEN <<>>
                         ELSE HeadPage(d, tails, PageDown(off))])

Stage(off, len) ==
    /\ count < MaxStaged /\ off + len <= Pages * PAGE
    /\ \/ /\ CanExtend(staged_writes, off, len)
          /\ staged_writes' = Extend(staged_writes, off, Vals(len))
          /\ pending_bytes' = pending_bytes + len
          /\ UNCHANGED <<disk, tail_pages>>
       \/ /\ MustFlush(staged_writes, off, len)
          /\ disk' = DiskWith(AllPages)
          /\ tail_pages' = TailAfter(Len(staged_writes))
          /\ staged_writes' = Push(<<>>, disk', tail_pages', off, len)
          /\ pending_bytes' = len
       \/ /\ ~CanExtend(staged_writes, off, len) /\ ~MustFlush(staged_writes, off, len)
          /\ staged_writes' = Push(staged_writes, disk, tail_pages, off, len)
          /\ pending_bytes' = pending_bytes + len
          /\ UNCHANGED <<disk, tail_pages>>
    /\ count' = count + 1
    /\ UNCHANGED faults

Next == \/ \E off \in Offsets, len \in Lens : Stage(off, len)
        \/ Flush
        \/ FlushError

Spec == Init /\ [][Next]_vars

-----------------------------------------------------------------------------
(* Properties. *)

Bytes == 0 .. MaxStaged

\* Type invariant: staged writes lie in the file, and cached pages are whole.
TypeOK ==
    /\ DOMAIN disk = Offsets /\ Range(disk) \subseteq Bytes
    /\ Len(staged_writes) <= MAX_STAGED_WRITES
    /\ \A i \in DOMAIN staged_writes :
          /\ staged_writes[i].start \in Offsets
          /\ End(staged_writes[i]) <= Pages * PAGE
          /\ Len(staged_writes[i].head) \in {0, PAGE}
    /\ \A p \in DOMAIN tail_pages : p = PageDown(p) /\ DOMAIN tail_pages[p] = 1 .. PAGE
    /\ pending_bytes \in Nat

\* No page is in two staged writes, so the order in which they reach the file
\* does not matter and neither writes back an old copy of the other's bytes.
StagedApart ==
    \A i, j \in DOMAIN staged_writes :
        i # j => Range(PagesOf(staged_writes[i])) \intersect Range(PagesOf(staged_writes[j])) = {}

Logical == INSTANCE LogicalFile WITH content <- Overlay(disk, staged_writes)

\* Reading (which flushes first) returns what was staged, whatever was flushed,
\* cached and merged in between: until a flush fails, staging is a write of the
\* logical file and a flush is invisible.
FileContents ==
    /\ Logical!Init
    /\ [][faults' = 0 => Logical!Next \/ UNCHANGED <<Overlay(disk, staged_writes), count>>]_vars

\* The first flush that fails loses or keeps what was staged; it damages nothing else.
ErrorLosesOnlyStaged ==
    [][faults = 0 /\ faults' > 0 => \A x \in Offsets :
          disk'[x] # disk[x] =>
             \E i \in DOMAIN staged_writes :
                 x >= staged_writes[i].start /\ x < End(staged_writes[i])]_vars
=============================================================================
