----------------------------- MODULE BucketHeap -----------------------------
(***************************************************************************)
(* Heap<I, BucketPlacement> (src/src/heap.rs over bucket.rs): the          *)
(* allocator of BucketAlloc composed with the three files it lives in, one *)
(* caller, kills at any step, the recovery of BucketPlacement::open, and   *)
(* the rebuild of lost metadata (src/src/recovery.rs).                     *)
(*                                                                         *)
(* rows of BucketAlloc is the registry as the process sees it; the rows    *)
(* from rDone on are staged.  Kills only, no power loss: a sync changes    *)
(* nothing and has no step of its own.  pending_limit and the wrapping     *)
(* counters are in AppendHeap, the flushes inside a long rebuild in        *)
(* StoreOpen.                                                              *)
(***************************************************************************)
EXTENDS BucketAlloc, Records

CONSTANTS
    SyncEvery,        \* n of SyncPolicy::EveryN(n)
    SLOTS_PER_PAGE,   \* slots in an index page
    ROWS_PER_PAGE,    \* rows in a registry page
    MAX_STAGED_WRITES,
    InOrder,          \* TRUE: pages reach a file in request order; FALSE: in any
    Kinds,            \* calls besides insert that the caller uses
    MaxOps,           \* bound on writing operations
    MaxIds,           \* bound on record numbers
    MaxRows,          \* bound on registry rows
    MaxCell,          \* bound on the data file, in cells
    MaxFaults,        \* bound on kills and losses of metadata together
    MaxLosses         \* bound on losses of metadata

ASSUME BucketHeapAssumption ==
    /\ SyncEvery \in Nat \ {0}
    /\ SLOTS_PER_PAGE \in Nat \ {0} /\ ROWS_PER_PAGE \in Nat \ {0}
    /\ MAX_STAGED_WRITES \in Nat \ {0}
    /\ InOrder \in BOOLEAN
    /\ Kinds \subseteq {"read", "update", "delete", "flush", "close"}
    /\ MaxOps \in Nat /\ MaxIds \in Nat /\ MaxRows \in Nat /\ MaxCell \in Nat
    /\ MaxFaults \in Nat /\ MaxLosses \in Nat
    /\ NewEnd <= MaxCell                \* the bounds hold a new store
    /\ MaxIds % region_slots = 0        \* ... and whole regions

VARIABLES
    dDisk, dRuns,     \* data file as a reader of the file sees it; staged writes
    iDisk, iRuns,     \* the same for the index
    rDisk, rDone,     \* rows in the registry file; number of rows not staged
    iFile, rFile,     \* a sound header, or broken (missing or without one)
    sinceSync,        \* operations_since_sync
    hpc, op,          \* where the running heap call or open stands
    at, upd,          \* open: bucket being recovered; slots left to restore
    allowed,          \* history: outcomes of each record since the last commit
    ops, crashes, losses,
    rebuilt, cut      \* history: metadata was rebuilt; a kill cut a rebuild short

files == <<dDisk, iDisk, rDisk, iFile, rFile>>
staged == <<dRuns, iRuns, rDone>>
opening == <<at, upd>>
heapHistory == <<allowed, ops, crashes, losses, rebuilt, cut>>
heapVars == <<vars, files, staged, sinceSync, hpc, op, opening, heapHistory>>

Data == INSTANCE Staging
Index == INSTANCE Staging WITH PAGE <- SLOTS_PER_PAGE

Ids == 0 .. MaxIds - 1
Cells == PAGE .. MaxCell - 1

NoRow == [kind |-> "none", bucket |-> 0, start |-> 0, size |-> 0]
BadRow == [NoRow EXCEPT !.kind = "bad"]

dView == Data!Overlay(dDisk, dRuns)
iView == Index!Overlay(iDisk, iRuns)
rView == [n \in 1 .. MaxRows |-> IF n > rDone /\ n <= Len(rows) THEN rows[n] ELSE rDisk[n]]

\* What a read of each record returns.
View == LET d == dView  i == iView IN [id \in Ids |-> Read(d, i, id)]

FlushData == dDisk' = dView /\ dRuns' = <<>>
FlushIndex == iDisk' = iView /\ iRuns' = <<>>
FlushRegistry == rDisk' = rView /\ rDone' = Len(rows)

\* The rows of the registry file, up to the first that is blank.
RowsOf(r) == SelectInSeq(r, LAMBDA row : row = NoRow)
DiskRows == IF RowsOf(rDisk) = 0 THEN rDisk ELSE SubSeq(rDisk, 1, RowsOf(rDisk) - 1)

\* A row that is not blank and does not decode: the replay returns Corrupt.
RowsCorrupt == BadRow \in Range(DiskRows)

MetadataSound == iFile = "sound" /\ rFile = "sound" /\ ~RowsCorrupt

-----------------------------------------------------------------------------
(* The calls. *)

NoOp == [kind |-> "none", id |-> 0, bucket |-> 0, len |-> 0, ver |-> 0, slot |-> Empty]

HeapInit ==
    /\ Init
    /\ dDisk = [p \in Cells |-> Zero] /\ dRuns = <<>>
    /\ iDisk = [id \in Ids |-> Empty] /\ iRuns = <<>>
    /\ rDisk = [n \in 1 .. MaxRows |-> NoRow] /\ rDone = 0
    /\ iFile = "sound" /\ rFile = "sound"
    /\ sinceSync = 0 /\ hpc = "idle" /\ op = NoOp
    /\ at = 0 /\ upd = <<>>
    /\ allowed = [id \in Ids |-> {NotFound}]
    /\ ops = 0 /\ crashes = 0 /\ losses = 0 /\ rebuilt = FALSE /\ cut = FALSE

\* The bounds leave room for a call: rows, numbers and cells of one more grant.
RoomFor(len) ==
    LET g == Max({required_extent_size(len), growth})
    IN  /\ ops < MaxOps
        /\ Len(rows) + 3 <= MaxRows
        /\ nextRegion + region_slots <= MaxIds
        /\ DiskMayFill \/ EnsureAlloc(fileSize + g, g) <= MaxCell

\* insert_into up to the placement.
BeginInsert(b, len) ==
    /\ hpc = "idle" /\ RoomFor(len)
    /\ Insert(b, len)
    /\ hpc' = "alloc"
    /\ op' = [NoOp EXCEPT !.kind = "insert", !.bucket = b, !.len = len, !.ver = 1]
    /\ UNCHANGED <<files, staged, sinceSync, opening, heapHistory>>

\* read, update and delete begin by reading the slot.
Begin(kind, id, len) ==
    /\ hpc = "idle" /\ kind \in Kinds
    /\ kind # "read" => RoomFor(len)
    /\ hpc' = "slot_read"
    /\ op' = [NoOp EXCEPT !.kind = kind, !.id = id, !.len = len]
    /\ UNCHANGED <<vars, files, staged, sinceSync, opening, heapHistory>>

Returns == hpc' = "idle" /\ op' = NoOp

\* IndexFile::read_slot flushes the index.
ReadSlot ==
    LET slot == iView[op.id]
    IN  /\ hpc = "slot_read"
        /\ FlushIndex
        /\ \/ slot.st # "live" /\ Returns
           \/ /\ slot.st = "live" /\ op.kind = "delete"
              /\ hpc' = "slot_stage" /\ op' = [op EXCEPT !.slot = Tombstone(slot)]
           \/ /\ slot.st = "live" /\ op.kind # "delete"
              /\ hpc' = "record_read" /\ op' = [op EXCEPT !.slot = slot]
        /\ UNCHANGED <<vars, dDisk, rDisk, iFile, rFile, dRuns, rDone, sinceSync, opening,
                       heapHistory>>

\* read_record flushes the data file and ends the read.
ReadRecord ==
    /\ hpc = "record_read" /\ op.kind = "read"
    /\ FlushData
    /\ Returns
    /\ UNCHANGED <<vars, iDisk, rDisk, iFile, rFile, iRuns, rDone, sinceSync, opening,
                   heapHistory>>

\* update: read_header, then alloc_update in the bucket of the old record.  A bad
\* header and a bucket without rows end the call with an error.
UpdateRecord ==
    LET old == dView[op.slot.off].rec
        sound == ReadHeader(dView, op.slot.off, op.id)
    IN  /\ hpc = "record_read" /\ op.kind = "update"
        /\ FlushData
        /\ \/ /\ sound /\ Update(old.bucket, op.len)
              /\ hpc' = "alloc"
              /\ op' = [op EXCEPT !.bucket = old.bucket, !.ver = old.ver + 1]
           \/ /\ sound => old.bucket \notin Known
              /\ Returns
              /\ UNCHANGED vars
        /\ UNCHANGED <<iDisk, rDisk, iFile, rFile, iRuns, rDone, sinceSync, opening,
                       heapHistory>>

\* alloc and alloc_update: they stage rows and extend the file.
Allocate ==
    /\ hpc = "alloc" /\ pc \notin {"idle", "panicked"}
    /\ Step
    /\ allocEnd' <= MaxCell
    /\ UNCHANGED <<files, staged, sinceSync, hpc, op, opening, heapHistory>>

AllocFails ==
    /\ hpc = "alloc" /\ pc = "idle" /\ placed = <<>>
    /\ Returns
    /\ UNCHANGED <<vars, files, staged, sinceSync, opening, heapHistory>>

\* A panic unwinds: Drop flushes the heap.
Unwind ==
    /\ hpc = "alloc" /\ pc = "panicked"
    /\ pc' = "idle" /\ call' = NoCall
    /\ hpc' = "commit_registry" /\ op' = [NoOp EXCEPT !.kind = "close"]
    /\ UNCHANGED <<allocator, history, files, staged, sinceSync, opening, heapHistory>>

\* stage_record at the place the allocator chose; stage may have to flush first.
StageRecord ==
    LET id == IF op.kind = "insert" THEN Last(numbers) ELSE op.id
        off == Last(placed).off
        r == [id |-> id, ver |-> op.ver, len |-> op.len, tag |-> ops + 1, bucket |-> op.bucket]
    IN  /\ hpc = "alloc" /\ pc = "idle" /\ placed # <<>>
        /\ IF Data!MustFlush(dRuns, off, op.len)
           THEN dDisk' = dView /\ dRuns' = Data!Staged(<<>>, off, CellsOf(r))
           ELSE dDisk' = dDisk /\ dRuns' = Data!Staged(dRuns, off, CellsOf(r))
        /\ hpc' = "slot_stage"
        /\ op' = [op EXCEPT !.id = id, !.slot = Live(off, op.len)]
        /\ placed' = <<>> /\ numbers' = <<>>
        /\ UNCHANGED <<allocator, pc, call, iDisk, rDisk, iFile, rFile, iRuns, rDone,
                       sinceSync, opening, heapHistory>>

\* Staging a slot, after a flush if there has to be one.
StageSlot(id, slot) ==
    IF Index!MustFlush(iRuns, id, 1)
    THEN iDisk' = iView /\ iRuns' = Index!Staged(<<>>, id, <<slot>>)
    ELSE iDisk' = iDisk /\ iRuns' = Index!Staged(iRuns, id, <<slot>>)

\* stage_slot or stage_tombstone, then after_write.
SlotStage ==
    LET outcome == IF op.kind = "delete" THEN NotFound ELSE ops + 1
    IN  /\ hpc = "slot_stage"
        /\ StageSlot(op.id, op.slot)
        /\ sinceSync' = (sinceSync + 1) % SyncEvery
        /\ IF sinceSync' = 0 THEN hpc' = "commit_registry" /\ UNCHANGED op ELSE Returns
        /\ allowed' = [allowed EXCEPT ![op.id] = @ \union {outcome}]
        /\ ops' = ops + 1
        /\ UNCHANGED <<vars, dDisk, rDisk, iFile, rFile, dRuns, rDone, opening, crashes,
                       losses, rebuilt, cut>>

\* flush, and the flush of Drop.
BeginFlush(kind) ==
    /\ hpc = "idle" /\ kind \in Kinds
    /\ hpc' = "commit_registry"
    /\ op' = [NoOp EXCEPT !.kind = kind]
    /\ UNCHANGED <<vars, files, staged, sinceSync, opening, heapHistory>>

\* Variant: the rows stay staged.
SkipRegistry ==
    /\ hpc = "commit_registry"
    /\ hpc' = "commit_data"
    /\ UNCHANGED <<vars, files, staged, sinceSync, op, opening, heapHistory>>

\* commit: the registry if rows are staged, the data file, the index.
CommitRegistry ==
    /\ hpc = "commit_registry"
    /\ FlushRegistry
    /\ hpc' = "commit_data"
    /\ UNCHANGED <<vars, dDisk, iDisk, iFile, rFile, dRuns, iRuns, sinceSync, op, opening,
                   heapHistory>>

CommitData ==
    /\ hpc = "commit_data"
    /\ FlushData
    /\ hpc' = "commit_index"
    /\ UNCHANGED <<vars, iDisk, rDisk, iFile, rFile, iRuns, rDone, sinceSync, op, opening,
                   heapHistory>>

\* What is gone when the process is; the size of the data file is not.
LoseMemory ==
    /\ order' = <<>> /\ ext' = <<>> /\ reg' = <<>> /\ rows' = <<>>
    /\ grantCount' = 0 /\ nextRegion' = 0 /\ fileSize' = initial_size
    /\ pc' = "idle" /\ call' = NoCall /\ placed' = <<>> /\ numbers' = <<>>
    /\ dRuns' = <<>> /\ iRuns' = <<>> /\ rDone' = 0
    /\ sinceSync' = 0 /\ op' = NoOp /\ at' = 0 /\ upd' = <<>>
    /\ UNCHANGED allocEnd

\* After the flush of Drop the heap is closed.
CommitIndex ==
    /\ hpc = "commit_index"
    /\ iDisk' = iView
    /\ allowed' = LET v == View IN [id \in Ids |-> {v[id]}]
    /\ IF op.kind = "close"
       THEN hpc' = "down" /\ LoseMemory
       ELSE Returns /\ iRuns' = <<>> /\ UNCHANGED <<vars, dRuns, rDone, sinceSync, opening>>
    /\ UNCHANGED <<dDisk, rDisk, iFile, rFile, ops, crashes, losses, rebuilt, cut>>

-----------------------------------------------------------------------------
(* BucketPlacement::open on existing files. *)

\* Replay of the rows in the file; then the buckets are recovered in turn.
Open ==
    LET x == Replay(DiskRows)
    IN  /\ hpc = "down" /\ MetadataSound
        /\ order' = x.order /\ ext' = x.ext /\ reg' = x.reg
        /\ grantCount' = x.count /\ nextRegion' = x.nextRegion
        /\ rows' = DiskRows /\ rDone' = Len(DiskRows)
        /\ fileSize' = Max({x.fileSize, allocEnd}) /\ allocEnd' = fileSize'
        /\ hpc' = "recover" /\ at' = 1
        /\ UNCHANGED <<pc, call, history, files, dRuns, iRuns, sinceSync, op, upd, heapHistory>>

RegionsOf(b) == {i \in DOMAIN reg : reg[i].owner = b}
InRegion(id, r) == id >= r.start /\ id < r.start + region_slots

\* Variant: deleted records are not known.
LiveIds(b) == {id \in Ids : iView[id].st = "live" /\ \E i \in RegionsOf(b) : InRegion(id, reg[i])}

\* The numbers of b's regions whose slots are not empty.
KnownIds(b) == {id \in Ids : iView[id].st # "empty" /\ \E i \in RegionsOf(b) : InRegion(id, reg[i])}

\* In the last extent e of b: the records the walk finds, and the end of the last
\* record, found or known, that lies in it.
Found(e) == Walk(dDisk, e.start, ExtentEnd(e))
KnownEnds(b, e) == {iView[id].off + iView[id].len :
                       id \in {x \in KnownIds(b) : /\ iView[x].off >= e.start
                                                   /\ iView[x].off + iView[x].len <= ExtentEnd(e)}}

\* Variants: what the walk found does not count; the use is not relative to the extent.
KnownUse(b, e) == Max({e.start} \union KnownEnds(b, e)) - e.start
AbsoluteUse(b, e) == Max({e.start} \union KnownEnds(b, e)
                                   \union {p + dDisk[p].rec.len : p \in Range(Found(e))})

LastUse(b, e) == Max({e.start} \union KnownEnds(b, e)
                               \union {p + dDisk[p].rec.len : p \in Range(Found(e))}) - e.start

\* The slot of id is deleted, or already has this version or a newer one.  Only the
\* bucket's own regions count as known.
Superseded(b, id, u) ==
    LET slot == iView[id]
    IN  /\ id \in KnownIds(b)
        /\ \/ slot.st = "deleted"
           \/ slot.off = u.off
           \/ ReadHeader(dDisk, slot.off, id) /\ dDisk[slot.off].rec.ver >= u.ver

\* What is in use of the bucket's regions and extents, and the slots to restore.
ReadBucket ==
    LET b == order[at]
        best == IF Owned(b) = {} THEN <<>> ELSE Latest(dDisk, Found(ext[LastExtent(b)]))
        seen == KnownIds(b) \union DOMAIN best
        Slots(r) == Max({0} \union {id - r.start + 1 : id \in {x \in KnownIds(b) : InRegion(x, r)}})
        Seen(r) == Max({0} \union {id - r.start + 1 : id \in {Max(seen \union {0})} \intersect seen})
    IN  /\ hpc = "recover" /\ at \in DOMAIN order
        /\ IF RegionsOf(b) = {} THEN UNCHANGED <<iDisk, iRuns>> ELSE FlushIndex
        /\ reg' = [i \in DOMAIN reg |->
                      IF reg[i].owner # b THEN reg[i]
                      ELSE IF i # LastRegion(b) THEN [reg[i] EXCEPT !.used = region_slots]
                      ELSE [reg[i] EXCEPT !.used = IF Owned(b) = {} THEN Slots(reg[i])
                                                   ELSE Max({Slots(reg[i]), Seen(reg[i])})]]
        /\ ext' = [i \in DOMAIN ext |->
                      IF ext[i].owner # b THEN ext[i]
                      ELSE IF i # LastExtent(b) THEN [ext[i] EXCEPT !.used = ext[i].size]
                      ELSE [ext[i] EXCEPT !.used = LastUse(b, ext[i])]]
        /\ upd' = [id \in {x \in DOMAIN best : ~Superseded(b, x, best[x])} |-> best[id]]
        /\ hpc' = "restore"
        /\ UNCHANGED <<order, grantCount, fileSize, allocEnd, nextRegion, rows, pc, call, history,
                       dDisk, rDisk, iFile, rFile, dRuns, rDone, sinceSync, op, at, heapHistory>>

\* One slot is restored; their order is that of a hash map.
RestoreSlot(id) ==
    /\ hpc = "restore"
    /\ StageSlot(id, Live(upd[id].off, upd[id].len))
    /\ upd' = [x \in DOMAIN upd \ {id} |-> upd[x]]
    /\ UNCHANGED <<vars, dDisk, rDisk, iFile, rFile, dRuns, rDone, sinceSync, hpc, op, at,
                   heapHistory>>

\* unwrap of the last region of a bucket that has an extent: the open panics, and
\* what it staged is gone.
EndBucket ==
    /\ hpc = "restore" /\ DOMAIN upd = {}
    /\ IF Owned(order[at]) # {} /\ RegionsOf(order[at]) = {}
       THEN hpc' = "dead" /\ LoseMemory
       ELSE /\ hpc' = "recover" /\ at' = at + 1
            /\ UNCHANGED <<vars, staged, sinceSync, op, upd>>
    /\ UNCHANGED <<files, heapHistory>>

\* What was restored is flushed; the heap is open, and shows what is there.
EndOpen ==
    /\ hpc = "recover" /\ at \notin DOMAIN order
    /\ FlushIndex
    /\ hpc' = "idle" /\ at' = 0
    /\ allowed' = LET v == View IN [id \in Ids |-> {v[id]}]
    /\ rebuilt' = FALSE
    /\ UNCHANGED <<vars, dDisk, rDisk, iFile, rFile, dRuns, rDone, sinceSync, op, upd,
                   ops, crashes, losses, cut>>

OpenAgain == hpc = "dead" /\ hpc' = "down"
             /\ UNCHANGED <<vars, files, staged, sinceSync, op, opening, heapHistory>>

-----------------------------------------------------------------------------
(* rebuild, when the index or the registry has no sound header, or BucketPlacement *)
(* could not read a row.                                                           *)

\* Variant: the walk ends at the first gap.
FirstRecords == Walk(dDisk, PAGE, allocEnd)

AllRecords == WalkAll(dDisk, PAGE, allocEnd)

\* Each file is created anew: emptied first, then given a header.
BeginRebuild ==
    /\ hpc = "down" /\ ~MetadataSound
    /\ iDisk' = [id \in Ids |-> Empty] /\ iFile' = "broken"
    /\ upd' = Latest(dDisk, AllRecords)
    /\ hpc' = "rebuild_header" /\ rebuilt' = TRUE
    /\ UNCHANGED <<vars, dDisk, rDisk, rFile, staged, sinceSync, op, at, allowed, ops, crashes,
                   losses, cut>>

RebuildHeader ==
    /\ hpc = "rebuild_header"
    /\ iFile' = "sound" /\ hpc' = "rebuild_index"
    /\ UNCHANGED <<vars, dDisk, iDisk, rDisk, rFile, staged, sinceSync, op, opening, heapHistory>>

\* The slots, in the order of their numbers.
RebuildSlot ==
    LET id == Min(DOMAIN upd)
    IN  /\ hpc = "rebuild_index" /\ DOMAIN upd # {}
        /\ StageSlot(id, Live(upd[id].off, upd[id].len))
        /\ upd' = [x \in DOMAIN upd \ {id} |-> upd[x]]
        /\ UNCHANGED <<vars, dDisk, rDisk, iFile, rFile, dRuns, rDone, sinceSync, hpc, op, at,
                       heapHistory>>

RebuildFlush ==
    /\ hpc = "rebuild_index" /\ DOMAIN upd = {}
    /\ FlushIndex
    /\ rDisk' = [n \in 1 .. MaxRows |-> NoRow] /\ rFile' = "broken"
    /\ hpc' = "rebuild_registry"
    /\ UNCHANGED <<vars, dDisk, iFile, dRuns, rDone, sinceSync, op, opening, heapHistory>>

\* bucket_runs: the stretches of records of one bucket.
BucketRuns ==
    FoldLeft(LAMBDA runs, p :
                LET r == dDisk[p].rec
                IN  IF runs # <<>> /\ Last(runs).bucket = r.bucket /\ Last(runs).end = p
                    THEN [runs EXCEPT ![Len(runs)].end = p + r.len]
                    ELSE Append(runs, [bucket |-> r.bucket, start |-> p, end |-> p + r.len]),
             <<>>, AllRecords)

RunRow(run) == [kind |-> "D", bucket |-> run.bucket, start |-> PageDown(run.start),
                size |-> PageUp(run.end) - PageDown(run.start)]

\* region_buckets: the regions with a record, each owned by the bucket of one of its
\* records (which one, the order of a hash map decides).
RebuildRegistry ==
    LET latest == Latest(dDisk, AllRecords)
        RegionOf(id) == id - (id % region_slots)
        starts == {RegionOf(id) : id \in DOMAIN latest}
        BucketsIn(s) == {dDisk[latest[id].off].rec.bucket : id \in {x \in DOMAIN latest : RegionOf(x) = s}}
    IN  /\ hpc = "rebuild_registry"
        /\ \E owner \in [starts -> Buckets], sorted \in [1 .. Cardinality(starts) -> starts] :
              /\ \A s \in starts : owner[s] \in BucketsIn(s)
              /\ \A m, n \in DOMAIN sorted : m < n => sorted[m] < sorted[n]
              /\ rows' = [n \in DOMAIN BucketRuns |-> RunRow(BucketRuns[n])]
                         \o [n \in DOMAIN sorted |-> [kind |-> "S", bucket |-> owner[sorted[n]],
                                                      start |-> sorted[n], size |-> region_slots]]
        /\ Len(rows') <= MaxRows
        /\ rFile' = "sound" /\ hpc' = "rebuild_rows"
        /\ UNCHANGED <<order, ext, reg, grantCount, fileSize, allocEnd, nextRegion, pc, call, history,
                       dDisk, iDisk, rDisk, iFile, staged, sinceSync, op, opening, heapHistory>>

RebuildRows ==
    /\ hpc = "rebuild_rows"
    /\ rDisk' = rView
    /\ hpc' = "down"
    /\ LoseMemory
    /\ UNCHANGED <<dDisk, iDisk, iFile, rFile, heapHistory>>

-----------------------------------------------------------------------------
(* What happens to the process and to the files. *)

\* The sets of pages that may have been written when a flush is cut short.
TornPages(pages) ==
    IF InOrder THEN {{pages[k] : k \in 1 .. n} : n \in 0 .. Len(pages)}
    ELSE SUBSET Range(pages)

DataTorn ==
    IF \/ hpc \in {"record_read", "commit_data"}
       \/ /\ hpc = "alloc" /\ pc = "idle" /\ placed # <<>>
          /\ Data!MustFlush(dRuns, Last(placed).off, op.len)
    THEN {Data!OnPages(dDisk, dView, s) : s \in TornPages(Data!FlushPages(dRuns))}
    ELSE {dDisk}

IndexTorn ==
    IF \/ hpc \in {"slot_read", "commit_index", "restore", "rebuild_index"}
       \/ hpc = "recover" /\ (at \in DOMAIN order => RegionsOf(order[at]) # {})
       \/ hpc = "slot_stage" /\ Index!MustFlush(iRuns, op.id, 1)
    THEN {Index!OnPages(iDisk, iView, s) : s \in TornPages(Index!FlushPages(iRuns))}
    ELSE {iDisk}

RegistryTorn ==
    LET RowPage(n) == (n - 1) \div ROWS_PER_PAGE
        pages == IF rDone = Len(rows) THEN <<>>
                 ELSE [k \in 1 .. RowPage(Len(rows)) - RowPage(rDone + 1) + 1 |->
                          RowPage(rDone + 1) + k - 1]
    IN  IF hpc \in {"commit_registry", "rebuild_rows"}
        THEN {[n \in 1 .. MaxRows |-> IF RowPage(n) \in s THEN rView[n] ELSE rDisk[n]] :
                 s \in TornPages(pages)}
        ELSE {rDisk}

\* A rebuild is cut short when what is left of it looks sound to the next open.
Kill ==
    /\ crashes + losses < MaxFaults /\ hpc \notin {"down", "dead"}
    /\ dDisk' \in DataTorn /\ iDisk' \in IndexTorn /\ rDisk' \in RegistryTorn
    /\ hpc' = "down" /\ LoseMemory
    /\ crashes' = crashes + 1
    /\ cut' = \/ cut \/ hpc = "rebuild_rows"
              \/ hpc = "rebuild_index" /\ rFile = "sound" /\ ~RowsCorrupt
    /\ UNCHANGED <<iFile, rFile, allowed, ops, losses, rebuilt>>

\* index.hs or registry.hs is lost while the store is closed.
LoseIndex ==
    /\ hpc = "down" /\ losses < MaxLosses /\ crashes + losses < MaxFaults
    /\ iFile' = "broken" /\ iDisk' = [id \in Ids |-> Empty]
    /\ losses' = losses + 1
    /\ UNCHANGED <<vars, dDisk, rDisk, rFile, staged, sinceSync, hpc, op, opening, allowed, ops,
                   crashes, rebuilt, cut>>

LoseRegistry ==
    /\ hpc = "down" /\ losses < MaxLosses /\ crashes + losses < MaxFaults
    /\ rFile' = "broken" /\ rDisk' = [n \in 1 .. MaxRows |-> NoRow]
    /\ losses' = losses + 1
    /\ UNCHANGED <<vars, dDisk, iDisk, iFile, staged, sinceSync, hpc, op, opening, allowed, ops,
                   crashes, rebuilt, cut>>

\* A row of the registry is damaged.
DamageRow(n) ==
    /\ hpc = "down" /\ losses < MaxLosses /\ crashes + losses < MaxFaults
    /\ rDisk' = [rDisk EXCEPT ![n] = BadRow]
    /\ losses' = losses + 1
    /\ UNCHANGED <<vars, dDisk, iDisk, iFile, rFile, staged, sinceSync, hpc, op, opening, allowed,
                   ops, crashes, rebuilt, cut>>

-----------------------------------------------------------------------------
Calls == \/ \E b \in Buckets, len \in Lens : BeginInsert(b, len)
         \/ \E id \in Ids : Begin("read", id, 0) \/ Begin("delete", id, 0)
         \/ \E id \in Ids, len \in Lens : Begin("update", id, len)
         \/ \E kind \in {"flush", "close"} : BeginFlush(kind)
         \/ ReadSlot \/ ReadRecord \/ UpdateRecord \/ Allocate \/ AllocFails \/ Unwind
         \/ StageRecord \/ SlotStage \/ CommitRegistry \/ CommitData \/ CommitIndex

Opening == \/ Open \/ ReadBucket \/ EndBucket \/ EndOpen \/ OpenAgain
           \/ \E id \in DOMAIN upd : RestoreSlot(id)
           \/ BeginRebuild \/ RebuildHeader \/ RebuildSlot \/ RebuildFlush
           \/ RebuildRegistry \/ RebuildRows

HeapNext == Calls \/ Opening \/ Kill \/ LoseIndex \/ LoseRegistry
            \/ \E n \in DOMAIN DiskRows : DamageRow(n)

HeapSpecification == HeapInit /\ [][HeapNext]_heapVars

-----------------------------------------------------------------------------
(* Properties. *)

IsCell(c) == c = Zero \/ (c.rec.id \in Ids /\ c.rec.bucket \in Buckets /\ c.k \in 1 .. c.rec.len)
IsSlot(s) == s = Empty \/ (s.st \in {"live", "deleted"} /\ s.off \in Cells /\ s.len \in Lens)

\* Type invariant of Heap with BucketPlacement: extents, regions and rows lie within
\* the files, and the files hold cells, slots and rows.
BucketTypeOK ==
    /\ \A i \in DOMAIN ext : /\ ext[i].start >= PAGE /\ ExtentEnd(ext[i]) <= fileSize
                             /\ ext[i].used \in 0 .. ext[i].size
    /\ fileSize <= allocEnd /\ allocEnd <= MaxCell
    /\ \A c \in Range(dView) : IsCell(c)
    /\ \A s \in Range(iView) : IsSlot(s)
    /\ rDone \in 0 .. Len(rows) /\ Len(rows) <= MaxRows
    /\ hpc \in {"idle", "slot_read", "record_read", "alloc", "slot_stage", "commit_registry",
                "commit_data", "commit_index", "down", "recover", "restore", "dead",
                "rebuild_header", "rebuild_index", "rebuild_registry", "rebuild_rows"}
    /\ DOMAIN upd \subseteq Ids

\* The heap is open to calls.
Up == hpc \in {"idle", "slot_read", "record_read", "alloc", "slot_stage", "commit_registry",
               "commit_data", "commit_index"}

Abstract == INSTANCE HeapSpec WITH
    Outcomes <- 0 .. MaxOps, up <- Up,
    view <- IF Up THEN View ELSE [id \in Ids |-> NotFound]

\* As long as no metadata is lost, the heap with buckets keeps the promise of HeapSpec
\* through kills at any step of its calls and of its recovery: a call changes the
\* record it is about and no other, and an open gives back what was committed.
MapContract == [][losses' = 0 => [Abstract!Next]_(Abstract!vars)]_heapVars

\* A kill left a record with a sound header and not all of its payload.
TornRecord == \E p \in Cells : HeaderAt(dDisk, p) /\ ~PayloadAt(dDisk, p)

\* An open that succeeds gives each record its last committed outcome or a later one,
\* whatever the kills tore.  A rebuild knows no tombstones: a deleted record may be
\* back; and one that was cut short, or that meets a torn record, is left out.
KillsKeepCommitted ==
    [][~Up /\ Up' /\ ~cut /\ ~(rebuilt /\ TornRecord) =>
          \A id \in Ids : \/ View'[id] \in allowed[id]
                          \/ rebuilt /\ NotFound \in allowed[id]]_heapVars

\* The allocator is ahead of everything the index refers to: every record lies in the
\* used part of an extent and its number in that of a region, after any recovery, and
\* neither is in the free part of another one, where it would be given out again.
AllocatorFresh ==
    Up /\ ~cut => LET slots == iView IN \A id \in Ids :
        LET slot == slots[id]
        IN  slot.st # "empty" =>
                /\ \E i \in DOMAIN ext : /\ slot.off >= ext[i].start
                                         /\ slot.off + slot.len <= ext[i].start + ext[i].used
                /\ \E i \in DOMAIN reg : id >= reg[i].start /\ id < reg[i].start + reg[i].used
                /\ \A i \in DOMAIN ext : \/ slot.off + slot.len <= ext[i].start + ext[i].used
                                         \/ slot.off >= ExtentEnd(ext[i])
                /\ \A i \in DOMAIN reg : InRegion(id, reg[i]) => id < reg[i].start + reg[i].used

\* In the files nothing runs ahead of what it depends on: a slot that is not empty
\* refers to bytes and has a number that rows in the registry file account for, and a
\* live one to a whole record.
RegistryFirst ==
    ~cut /\ MetadataSound /\ hpc # "rebuild_rows" =>
        LET its == Range(DiskRows) IN \A id \in Ids :
            LET slot == iDisk[id]
            IN  slot.st # "empty" =>
                    /\ Read(dDisk, iDisk, id) # Corrupt
                    /\ \E row \in its : /\ row.kind = "D" /\ slot.off >= row.start
                                         /\ slot.off + slot.len <= row.start + row.size
                    /\ \E row \in its : /\ row.kind = "S" /\ id >= row.start
                                         /\ id < row.start + row.size

\* An open panics only over a half bucket: kills have left it the row of its first
\* extent and none of a region.  No bucket that is further on comes to this.
PanicsOnlyAtHalfBucket ==
    hpc = "dead" /\ ~cut =>
        \E n \in DOMAIN DiskRows :
            /\ DiskRows[n].kind = "D"
            /\ \A m \in DOMAIN DiskRows : DiskRows[m].bucket = DiskRows[n].bucket => m = n
=============================================================================
