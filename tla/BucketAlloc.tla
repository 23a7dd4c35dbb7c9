---------------------------- MODULE BucketAlloc ----------------------------
(***************************************************************************)
(* The allocator of BucketPlacement (src/src/bucket.rs): buckets own       *)
(* extents of the data file and regions of record numbers; grant_extent    *)
(* takes a new extent from the free tail of another bucket's last extent   *)
(* or grows the file; every grant is a registry row, and open replays the  *)
(* rows.  Crashes and lost rows are not here: rows are all there at open.  *)
(*                                                                         *)
(* states[i].data of the code is the subsequence of ext whose owner is     *)
(* order[i], and states[i].slots that of reg.                              *)
(***************************************************************************)
EXTENDS Format, Sequences, FiniteSets, SequencesExt

CONSTANTS
    Buckets,          \* bucket numbers callers use
    Lens,             \* record lengths callers use
    initial_size, growth, min_extent,   \* of HeapConfig, in the units of PAGE
    region_slots,
    DiskMayFill,      \* fallocate may fail
    MaxPlaced,        \* bound on records placed
    MaxGrants         \* bound on the grant counter at the start of a call

ASSUME BucketAssumption ==
    /\ Lens \subseteq Nat \ {0}
    /\ initial_size \in Nat /\ initial_size >= PAGE
    /\ growth \in Nat /\ min_extent \in Nat
    /\ region_slots \in Nat \ {0}
    /\ DiskMayFill \in BOOLEAN
    /\ MaxPlaced \in Nat /\ MaxGrants \in Nat

VARIABLES
    order,        \* states: the buckets in the order they were created
    ext,          \* every extent granted: owner, start, size, used
    reg,          \* every region granted: owner, start, used
    grantCount,   \* extent_grant_count
    fileSize,     \* file_size
    allocEnd,     \* allocated_end of the data file (its real size)
    nextRegion,   \* next_region
    rows,         \* the registry: D rows (extents) and S rows (regions)
    pc, call,     \* where the running alloc or alloc_update stands
    placed,       \* history: the bytes given to records
    numbers       \* history: the record numbers given out

allocator == <<order, ext, reg, grantCount, fileSize, allocEnd, nextRegion, rows>>
history == <<placed, numbers>>
vars == <<allocator, pc, call, history>>

NoCall == [kind |-> "none", bucket |-> 0, len |-> 0]

\* ensure_alloc(upto, chunk)
EnsureAlloc(upto, chunk) ==
    IF upto <= allocEnd THEN allocEnd
    ELSE PageUp(IF upto > allocEnd + chunk THEN upto ELSE allocEnd + chunk)

\* Where the file of a new store ends: a header page, then ensure_alloc(initial_size,
\* growth).
NewEnd == IF initial_size <= PAGE THEN PAGE
          ELSE PageUp(IF initial_size > PAGE + growth THEN initial_size ELSE PAGE + growth)

\* open of a new store.
Init ==
    /\ order = <<>> /\ ext = <<>> /\ reg = <<>> /\ rows = <<>>
    /\ grantCount = 0 /\ nextRegion = 0
    /\ fileSize = initial_size /\ allocEnd = NewEnd
    /\ pc = "idle" /\ call = NoCall
    /\ placed = <<>> /\ numbers = <<>>

Known == Range(order)

Owned(b) == {i \in DOMAIN ext : ext[i].owner = b}
LastExtent(b) == CHOOSE i \in Owned(b) : \A j \in Owned(b) : j <= i
LastRegion(b) == LET R == {i \in DOMAIN reg : reg[i].owner = b}
                 IN  CHOOSE i \in R : \A j \in R : j <= i

ExtentEnd(e) == e.start + e.size

required_extent_size(len) == IF PageUp(len) > min_extent THEN PageUp(len) ELSE min_extent

need == required_extent_size(call.len)

-----------------------------------------------------------------------------
(* alloc and alloc_update up to the placement of the bytes. *)

\* alloc: an unknown bucket is created and gets an extent and a region first.
Insert(b, len) ==
    /\ pc = "idle" /\ Len(placed) < MaxPlaced /\ grantCount < MaxGrants
    /\ call' = [kind |-> "insert", bucket |-> b, len |-> len]
    /\ IF b \in Known THEN pc' = "place" /\ UNCHANGED order
                      ELSE pc' = "grant_new" /\ order' = Append(order, b)
    /\ UNCHANGED <<ext, reg, grantCount, fileSize, allocEnd, nextRegion, rows, history>>

\* alloc_update: an unknown bucket is an error.
Update(b, len) ==
    /\ pc = "idle" /\ Len(placed) < MaxPlaced /\ grantCount < MaxGrants
    /\ b \in Known
    /\ call' = [kind |-> "update", bucket |-> b, len |-> len]
    /\ pc' = "place"
    /\ UNCHANGED <<allocator, history>>

\* place_bytes when the last extent has room for the record.
Place ==
    LET i == LastExtent(call.bucket)
    IN  /\ pc = "place" /\ Owned(call.bucket) # {}
        /\ ext[i].used + call.len <= ext[i].size
        /\ ext' = [ext EXCEPT ![i].used = @ + call.len]
        /\ placed' = Append(placed, [off |-> ext[i].start + ext[i].used, len |-> call.len])
        /\ pc' = "number"
        /\ UNCHANGED <<order, reg, grantCount, fileSize, allocEnd, nextRegion, rows,
                       call, numbers>>

PlaceFull ==
    LET i == LastExtent(call.bucket)
    IN  /\ pc = "place" /\ Owned(call.bucket) # {}
        /\ ext[i].used + call.len > ext[i].size
        /\ pc' = "grant_more"
        /\ UNCHANGED <<allocator, call, history>>

-----------------------------------------------------------------------------
(* grant_extent: one action per turn of its loop. *)

\* The buckets are taken in turn, section by section: grants 2^k .. 2^(k+1) - 1
\* start again from the first bucket.
SectionBase(g) == CHOOSE p \in 1 .. g : g < 2 * p /\ \E k \in 0 .. g : p = 2^k
Victim(g) == g - SectionBase(g) + 1

PushRow(kind, start, size) ==
    rows' = Append(rows, [kind |-> kind, bucket |-> call.bucket, start |-> start, size |-> size])

\* The new extent is recorded, in the registry and for its owner.  place_bytes
\* uses it at once (the caller of bucket_index does so only after the region).
Grant(victims, e) ==
    LET used == IF pc = "grant_more" THEN call.len ELSE 0
    IN  /\ ext' = Append(victims, [owner |-> call.bucket, start |-> e.start,
                                   size |-> e.size, used |-> used])
        /\ PushRow("D", e.start, e.size)
        /\ grantCount' = grantCount + 1
        /\ IF pc = "grant_more"
           THEN /\ placed' = Append(placed, [off |-> e.start, len |-> call.len])
                /\ pc' = "number"
           ELSE pc' = "region" /\ UNCHANGED placed
        /\ UNCHANGED <<order, reg, nextRegion, call, numbers>>

Granting == pc \in {"grant_new", "grant_more"}

FirstGrant ==
    /\ Granting /\ grantCount = 0
    /\ Grant(ext, [start |-> PAGE, size |-> fileSize - PAGE])
    /\ UNCHANGED <<fileSize, allocEnd>>

\* No bucket is left in the section: the file grows.
grow == IF need > growth THEN need ELSE growth

Grow ==
    /\ Granting /\ grantCount > 0 /\ Victim(grantCount) \notin DOMAIN order
    /\ Grant(ext, [start |-> fileSize, size |-> grow])
    /\ fileSize' = fileSize + grow
    /\ allocEnd' = EnsureAlloc(fileSize + grow, grow)

\* ... or fallocate fails, and with it the call; only the counter has moved.
GrowFails ==
    /\ Granting /\ grantCount > 0 /\ Victim(grantCount) \notin DOMAIN order
    /\ DiskMayFill /\ fileSize + grow > allocEnd
    /\ grantCount' = grantCount + 1
    /\ pc' = "idle" /\ call' = NoCall
    /\ UNCHANGED <<order, ext, reg, fileSize, allocEnd, nextRegion, rows, history>>

\* The bucket whose turn it is.
victim == order[Victim(grantCount)]

\* Variant: bytes in use count as free.
AllFree(e) == e.size

Free(e) == IF e.size > PageUp(e.used) THEN e.size - PageUp(e.used) ELSE 0

\* The tail of its last extent is big enough: it is cut.
Cut(free) == IF PageDown(free \div 2) > need THEN PageDown(free \div 2) ELSE need

\* Variant: the victim keeps the tail that is given away.
SplitShared ==
    LET v == LastExtent(victim)
        cut == Cut(Free(ext[v]))
    IN  /\ Granting /\ grantCount > 0 /\ Victim(grantCount) \in DOMAIN order
        /\ Owned(victim) # {}
        /\ Free(ext[v]) >= need
        /\ Grant(ext, [start |-> ext[v].start + ext[v].size - cut, size |-> cut])
        /\ UNCHANGED <<fileSize, allocEnd>>

Split ==
    LET v == LastExtent(victim)
        cut == Cut(Free(ext[v]))
    IN  /\ Granting /\ grantCount > 0 /\ Victim(grantCount) \in DOMAIN order
        /\ Owned(victim) # {}
        /\ Free(ext[v]) >= need
        /\ Grant([ext EXCEPT ![v].size = @ - cut],
                 [start |-> ext[v].start + ext[v].size - cut, size |-> cut])
        /\ UNCHANGED <<fileSize, allocEnd>>

\* Variant: the counter only counts the grants made.
SkipSame ==
    /\ Granting /\ grantCount > 0 /\ Victim(grantCount) \in DOMAIN order
    /\ Owned(victim) # {}
    /\ Free(ext[LastExtent(victim)]) < need
    /\ UNCHANGED vars

\* It is not: the next turn looks at the next bucket.
Skip ==
    /\ Granting /\ grantCount > 0 /\ Victim(grantCount) \in DOMAIN order
    /\ Owned(victim) # {}
    /\ Free(ext[LastExtent(victim)]) < need
    /\ grantCount' = grantCount + 1
    /\ UNCHANGED <<order, ext, reg, fileSize, allocEnd, nextRegion, rows, pc, call, history>>

\* expect("bucket without extent"), in grant_extent and in place_bytes.
NoExtent ==
    /\ \/ /\ Granting /\ grantCount > 0 /\ Victim(grantCount) \in DOMAIN order
          /\ Owned(victim) = {}
       \/ pc = "place" /\ Owned(call.bucket) = {}
    /\ pc' = "panicked"
    /\ UNCHANGED <<allocator, call, history>>

-----------------------------------------------------------------------------
(* Regions and record numbers. *)

\* Variant: the registry is not told of the region.
UnrecordedRegion(used) ==
    /\ reg' = Append(reg, [owner |-> call.bucket, start |-> nextRegion, used |-> used])
    /\ nextRegion' = nextRegion + region_slots
    /\ UNCHANGED <<order, ext, grantCount, fileSize, allocEnd, rows>>

\* grant_region, with the first number of the region used or not.
NewRegion(used) ==
    /\ reg' = Append(reg, [owner |-> call.bucket, start |-> nextRegion, used |-> used])
    /\ PushRow("S", nextRegion, region_slots)
    /\ nextRegion' = nextRegion + region_slots
    /\ UNCHANGED <<order, ext, grantCount, fileSize, allocEnd>>

GrantRegion ==
    /\ pc = "region"
    /\ NewRegion(0)
    /\ pc' = "place"
    /\ UNCHANGED <<call, history>>

\* The end of alloc_update, or of alloc once the number is chosen.
Return == pc' = "idle" /\ call' = NoCall /\ UNCHANGED placed

UpdateReturns == /\ pc = "number" /\ call.kind = "update"
                 /\ Return
                 /\ UNCHANGED <<allocator, numbers>>

\* Variant: one number too many.
RegionHasOneMore(r) == r.used <= region_slots

RegionHasRoom(r) == r.used < region_slots

\* Variant: the slot is not counted as used.
NumberAgain ==
    LET i == LastRegion(call.bucket)
    IN  /\ pc = "number" /\ call.kind = "insert"
        /\ RegionHasRoom(reg[i])
        /\ numbers' = Append(numbers, reg[i].start + reg[i].used)
        /\ Return
        /\ UNCHANGED allocator

Number ==
    LET i == LastRegion(call.bucket)
    IN  /\ pc = "number" /\ call.kind = "insert"
        /\ \/ /\ RegionHasRoom(reg[i])
              /\ reg' = [reg EXCEPT ![i].used = @ + 1]
              /\ numbers' = Append(numbers, reg[i].start + reg[i].used)
              /\ UNCHANGED <<order, ext, grantCount, fileSize, allocEnd, nextRegion, rows>>
           \/ /\ ~RegionHasRoom(reg[i])
              /\ NewRegion(1)
              /\ numbers' = Append(numbers, nextRegion)
        /\ Return

-----------------------------------------------------------------------------
(* open on an existing store, after a clean close. *)

\* Variant: a cut extent keeps its size.
NoShrink(x, row) == x

\* The extent that contains the one of the row, if any, loses its tail to it; the
\* first in the order of the buckets, should there be several.
Shrink(x, row) ==
    LET C == {i \in DOMAIN x.ext : /\ row.start >= x.ext[i].start
                                   /\ row.start + row.size <= ExtentEnd(x.ext[i])}
        At(i) == CHOOSE n \in DOMAIN x.order : x.order[n] = x.ext[i].owner
        first == CHOOSE i \in C : \A j \in C : At(i) < At(j) \/ (At(i) = At(j) /\ i <= j)
    IN  IF C = {} THEN x
        ELSE [x EXCEPT !.ext[first].size = row.start - x.ext[first].start]

ReplayRow(x, row) ==
    LET end == row.start + row.size
        y == [x EXCEPT !.count = @ + 1,
                       !.order = IF row.bucket \in Range(@) THEN @ ELSE Append(@, row.bucket)]
    IN  IF row.kind = "D"
        THEN [Shrink(y, row) EXCEPT
                 !.fileSize = IF end > @ THEN end ELSE @,
                 !.ext = Append(@, [owner |-> row.bucket, start |-> row.start,
                                    size |-> row.size, used |-> 0])]
        ELSE [y EXCEPT
                 !.nextRegion = IF end > @ THEN end ELSE @,
                 !.reg = Append(@, [owner |-> row.bucket, start |-> row.start, used |-> 0])]

Replay(rs) ==
    FoldLeft(ReplayRow, [order |-> <<>>, ext |-> <<>>, reg |-> <<>>, count |-> 0,
                         fileSize |-> initial_size, nextRegion |-> 0], rs)

Replayed == Replay(rows)

\* The furthest use of a range of length size from start, and of all of it.
UsedUpTo(ends, start, size) ==
    Max({0} \union {n - start : n \in {m \in ends : m > start /\ m <= start + size}})

\* What open finds in use: in the last extent of a bucket the end of the last
\* record, in its last region the last slot, elsewhere everything.
Recover(x) ==
    LET ends == {placed[n].off + placed[n].len : n \in DOMAIN placed}
        taken == {numbers[n] + 1 : n \in DOMAIN numbers}
        LastOf(s, i) == \A j \in DOMAIN s : s[j].owner = s[i].owner => j <= i
    IN  [x EXCEPT
           !.ext = [i \in DOMAIN @ |-> [@[i] EXCEPT !.used =
                        IF LastOf(x.ext, i)
                        THEN UsedUpTo(ends, x.ext[i].start, x.ext[i].size)
                        ELSE x.ext[i].size]],
           !.reg = [i \in DOMAIN @ |-> [@[i] EXCEPT !.used =
                        IF LastOf(x.reg, i)
                        THEN UsedUpTo(taken, x.reg[i].start, region_slots)
                        ELSE region_slots]]]

Reopen ==
    LET x == Recover(Replayed)
    IN  /\ pc = "idle"
        /\ order' = x.order /\ ext' = x.ext /\ reg' = x.reg
        /\ grantCount' = x.count
        /\ nextRegion' = x.nextRegion
        /\ fileSize' = IF allocEnd > x.fileSize THEN allocEnd ELSE x.fileSize
        /\ allocEnd' = fileSize'
        /\ UNCHANGED <<rows, pc, call, history>>

-----------------------------------------------------------------------------
GrantStep == FirstGrant \/ Grow \/ GrowFails \/ Split \/ Skip \/ NoExtent

Step == \/ GrantStep \/ Place \/ PlaceFull
        \/ GrantRegion \/ Number \/ UpdateReturns

Alloc == \/ \E b \in Buckets, len \in Lens : Insert(b, len) \/ Update(b, len)
         \/ Step

Next == Alloc \/ Reopen

Spec == Init /\ [][Next]_vars

\* A call, once begun, runs to its end.
FairSpec == Spec /\ WF_vars(Step)

-----------------------------------------------------------------------------
(* Properties. *)

ExtentType == [owner : Buckets, start : Nat, size : Nat, used : Nat]
RegionType == [owner : Buckets, start : Nat, used : 0 .. region_slots]

\* Type invariant of BucketPlacement and of the running call.
TypeOK ==
    /\ order \in Seq(Buckets) /\ ext \in Seq(ExtentType) /\ reg \in Seq(RegionType)
    /\ rows \in Seq([kind : {"D", "S"}, bucket : Buckets, start : Nat, size : Nat])
    /\ grantCount \in Nat /\ fileSize \in Nat /\ allocEnd \in Nat /\ nextRegion \in Nat
    /\ pc \in {"idle", "grant_new", "grant_more", "region", "place", "number", "panicked"}
    /\ call = NoCall \/ call \in [kind : {"insert", "update"}, bucket : Buckets, len : Lens]
    /\ pc \in {"grant_new", "grant_more", "region", "place", "number"} => call # NoCall
    /\ placed \in Seq([off : Nat, len : Lens]) /\ numbers \in Seq(Nat)

Apart(start1, end1, start2, end2) == end1 <= start2 \/ end2 <= start1

\* No byte of the data file belongs to two extents, however often extents are cut
\* and the store is reopened.
ExtentsDisjoint ==
    \A i, j \in DOMAIN ext :
        i # j => Apart(ext[i].start, ExtentEnd(ext[i]), ext[j].start, ExtentEnd(ext[j]))

\* No two records are given the same byte: a cut never takes bytes in use, and a
\* reopened extent continues behind its last record.
RecordsDisjoint ==
    \A m, n \in DOMAIN placed :
        m # n => Apart(placed[m].off, placed[m].off + placed[m].len,
                       placed[n].off, placed[n].off + placed[n].len)

\* No record number is given out twice, in one run or after a reopen.
NumbersUnique == \A m, n \in DOMAIN numbers : m # n => numbers[m] # numbers[n]

\* The registry alone gives back the extents and regions, with the cuts.
ReplayFaithful ==
    pc = "idle" =>
        /\ Len(Replayed.ext) = Len(ext) /\ Len(Replayed.reg) = Len(reg)
        /\ \A i \in DOMAIN ext : LET e == Replayed.ext[i]
                                 IN  /\ e.owner = ext[i].owner
                                     /\ e.start = ext[i].start /\ e.size = ext[i].size
        /\ \A i \in DOMAIN reg : /\ Replayed.reg[i].owner = reg[i].owner
                                 /\ Replayed.reg[i].start = reg[i].start
        /\ Replayed.fileSize <= fileSize /\ Replayed.nextRegion = nextRegion

\* Every search for an extent ends: some section runs out of buckets.
GrantEnds == Granting ~> ~Granting
=============================================================================
