----------------------------- MODULE AppendHeap -----------------------------
(***************************************************************************)
(* Heap<I, AppendPlacement> (src/src/heap.rs, append.rs, with the parts of *)
(* index.rs, data.rs, recovery.rs and format.rs it calls): one caller      *)
(* inserts, updates, deletes and reads records; the process is killed or   *)
(* the power fails at any point; the next open recovers.                   *)
(*                                                                         *)
(* The data file is an array of cells.  A record occupies one or more      *)
(* cells; its first cell holds the record header.  The index file is an    *)
(* array of slots.  Both are written through staged writes (Staging) in    *)
(* whole pages, and a page is the unit a crash tears a flush at.  Cells    *)
(* below DATA_PAGE stand for the header page, which is never rewritten.    *)
(* Not here: the rebuild of a missing index (StoreOpen), I/O errors.       *)
(***************************************************************************)
EXTENDS Records, FiniteSets

CONSTANTS
    SyncEvery,          \* n of SyncPolicy::EveryN(n); 0 for SyncPolicy::None
    PendingLimit,       \* config.pending_limit, in cells and slots
    Lens,               \* record lengths a caller uses, in cells
    DATA_PAGE,          \* cells in a data page
    SLOTS_PER_PAGE,     \* slots in an index page
    MAX_STAGED_WRITES,
    VersionMod,         \* 2^16 in the code: versions wrap
    CounterMod,         \* 2^32 in the code: operations_since_sync wraps
    InOrder,            \* TRUE: SyncIo (pages reach the file in request order)
                        \* FALSE: UringIo (in any order)
    CrashKinds,         \* subset of {"kill", "power"}
    MaxOps,             \* bound on writing operations
    MaxIds,             \* bound on record numbers
    MaxCell,            \* bound on the data file, in cells
    MaxCrashes          \* bound on crashes

ASSUME AppendAssumption ==
    /\ SyncEvery \in Nat /\ PendingLimit \in Nat
    /\ Lens \subseteq Nat \ {0}
    /\ DATA_PAGE \in Nat \ {0} /\ SLOTS_PER_PAGE \in Nat \ {0}
    /\ MAX_STAGED_WRITES \in Nat \ {0}
    /\ VersionMod \in Nat \ {0} /\ CounterMod \in Nat \ {0}
    /\ InOrder \in BOOLEAN
    /\ CrashKinds \subseteq {"kill", "power"}
    /\ MaxOps \in Nat /\ MaxIds \in Nat /\ MaxCrashes \in Nat
    /\ MaxCell \in Nat /\ MaxCell >= DATA_PAGE

VARIABLES
    dDisk, dRuns,    \* data file as a reader of the file sees it; staged writes
    iDisk, iRuns,    \* the same for the index file
    dStable, iStable,\* contents as of the last fdatasync of each file
    cursor, nextId,  \* AppendPlacement
    sinceSync,       \* operations_since_sync
    pc, call,        \* where the running call stands, and its arguments
    upd, restored,   \* open: updates left to restore; something was restored
    allowed,         \* history: outcomes of each record since the last commit
    unsynced,        \* history: writing operations since the last commit
    ops, crashes     \* operations and crashes so far

files == <<dDisk, iDisk, dStable, iStable>>
placement == <<cursor, nextId>>
opening == <<upd, restored>>
history == <<allowed, unsynced, ops, crashes>>
vars == <<files, dRuns, iRuns, placement, sinceSync, pc, call, opening, history>>

Data == INSTANCE Staging WITH PAGE <- DATA_PAGE
Index == INSTANCE Staging WITH PAGE <- SLOTS_PER_PAGE

-----------------------------------------------------------------------------
(* Contents of the two files, and what a reader sees of them. *)

Ids == 0 .. MaxIds - 1
Cells == DATA_PAGE .. MaxCell - 1

\* A record: its number, version, total length and payload (the number of the
\* operation that wrote it, so that every payload is different).
Record == [id : Ids, ver : 0 .. VersionMod - 1, len : Lens, tag : 1 .. MaxOps]

dView == Data!Overlay(dDisk, dRuns)
iView == Index!Overlay(iDisk, iRuns)

Lookup(id) == Read(dView, iView, id)

-----------------------------------------------------------------------------
(* Staging and flushing. *)

StageSlot(runs, id, slot) == Index!Staged(runs, id, <<slot>>)

FlushData == dDisk' = dView /\ dRuns' = <<>>
FlushIndex == iDisk' = iView /\ iRuns' = <<>>

\* pending_bytes of both files.
PendingBytes(dr, ir) ==
    LET Size(runs) == FoldLeft(LAMBDA n, w : n + Len(w.vals), 0, runs)
    IN  Size(dr) + Size(ir)

-----------------------------------------------------------------------------
(* The calls. *)

NoCall == [kind |-> "none", id |-> 0, len |-> 0, slot |-> Empty]

\* A store without records.
NewStore ==
    /\ dDisk = [p \in Cells |-> Zero] /\ dStable = dDisk /\ dRuns = <<>>
    /\ iDisk = [id \in Ids |-> Empty] /\ iStable = iDisk /\ iRuns = <<>>
    /\ cursor = DATA_PAGE /\ nextId = 0
    /\ sinceSync = 0
    /\ call = NoCall
    /\ upd = <<>> /\ restored = FALSE
    /\ allowed = [id \in Ids |-> {NotFound}]
    /\ unsynced = 0 /\ ops = 0 /\ crashes = 0

Init == NewStore /\ pc = "idle"

\* AppendPlacement: bytes come from the end of the file, numbers in turn.
AllocUpdate(len) == cursor + len <= MaxCell /\ cursor' = cursor + len
Alloc(len) == AllocUpdate(len) /\ nextId < MaxIds /\ nextId' = nextId + 1

\* insert_into: alloc, then stage_record; the slot is staged next.  The data file
\* is only appended to, so stage always finds the open write, or none at all.
Insert(len) ==
    LET r == [id |-> nextId, ver |-> 1 % VersionMod, len |-> len, tag |-> ops + 1]
    IN  /\ pc = "idle" /\ ops < MaxOps
        /\ Alloc(len)
        /\ ~Data!MustFlush(dRuns, cursor, len)
        /\ dRuns' = Data!Staged(dRuns, cursor, CellsOf(r))
        /\ call' = [kind |-> "insert", id |-> nextId, len |-> len,
                    slot |-> Live(cursor, len)]
        /\ pc' = "slot_stage"
        /\ UNCHANGED <<files, iRuns, sinceSync, opening, history>>

\* read, update and delete begin by reading the slot.
BeginRead(id) ==
    /\ pc = "idle"
    /\ pc' = "slot_read"
    /\ call' = [NoCall EXCEPT !.kind = "read", !.id = id]
    /\ UNCHANGED <<files, dRuns, iRuns, placement, sinceSync, opening, history>>

BeginUpdate(id, len) ==
    /\ pc = "idle" /\ ops < MaxOps /\ cursor + len <= MaxCell
    /\ pc' = "slot_read"
    /\ call' = [NoCall EXCEPT !.kind = "update", !.id = id, !.len = len]
    /\ UNCHANGED <<files, dRuns, iRuns, placement, sinceSync, opening, history>>

BeginDelete(id) ==
    /\ pc = "idle" /\ ops < MaxOps
    /\ pc' = "slot_read"
    /\ call' = [NoCall EXCEPT !.kind = "delete", !.id = id]
    /\ UNCHANGED <<files, dRuns, iRuns, placement, sinceSync, opening, history>>

\* IndexFile::read_slot: read_aligned flushes the index, whatever the state of
\* the data file.  A slot that is not live ends the call with NotFound.
ReadSlot ==
    LET slot == iView[call.id]
    IN  /\ pc = "slot_read"
        /\ FlushIndex
        /\ \/ /\ slot.st # "live"
              /\ pc' = "idle" /\ call' = NoCall
           \/ /\ slot.st = "live" /\ call.kind = "delete"
              /\ pc' = "slot_stage" /\ call' = [call EXCEPT !.slot = Tombstone(slot)]
           \/ /\ slot.st = "live" /\ call.kind # "delete"
              /\ pc' = "record_read" /\ call' = [call EXCEPT !.slot = slot]
        /\ UNCHANGED <<dDisk, dStable, iStable, dRuns, placement, sinceSync,
                       opening, history>>

\* DataFile::read_record: flushes the data file, then reads.
ReadRecord ==
    /\ pc = "record_read" /\ call.kind = "read"
    /\ FlushData
    /\ pc' = "idle" /\ call' = NoCall
    /\ UNCHANGED <<iDisk, dStable, iStable, iRuns, placement, sinceSync,
                   opening, history>>

\* update after its slot was read: read_header (which flushes the data file),
\* alloc_update, stage_record.  A bad header ends the call with Corrupt.
UpdateRecord ==
    LET old == dView[call.slot.off].rec
        r == [id |-> call.id, ver |-> (old.ver + 1) % VersionMod,
              len |-> call.len, tag |-> ops + 1]
    IN  /\ pc = "record_read" /\ call.kind = "update"
        /\ dDisk' = dView
        /\ \/ /\ ~ReadHeader(dView, call.slot.off, call.id)
              /\ pc' = "idle" /\ call' = NoCall /\ dRuns' = <<>>
              /\ UNCHANGED cursor
           \/ /\ ReadHeader(dView, call.slot.off, call.id)
              /\ AllocUpdate(call.len)
              /\ dRuns' = <<[start |-> cursor, vals |-> CellsOf(r)]>>
              /\ call' = [call EXCEPT !.slot = Live(cursor, call.len)]
              /\ pc' = "slot_stage"
        /\ UNCHANGED <<iDisk, dStable, iStable, iRuns, nextId, sinceSync,
                       opening, history>>

\* stage_slot and stage_tombstone when PagedFile::stage has to flush first.
SlotFlush ==
    /\ pc = "slot_stage"
    /\ Index!MustFlush(iRuns, call.id, 1)
    /\ FlushIndex
    /\ UNCHANGED <<dDisk, dStable, iStable, dRuns, placement, sinceSync, pc, call,
                   opening, history>>

\* Variant: one operation too many before a commit.
LateCommitDue(count, dr, ir) ==
    \/ SyncEvery > 0 /\ count % (SyncEvery + 1) = 0
    \/ PendingBytes(dr, ir) > PendingLimit

\* after_write commits: the sync interval is reached or too much is pending.
CommitDue(count, dr, ir) ==
    \/ SyncEvery > 0 /\ count % SyncEvery = 0
    \/ PendingBytes(dr, ir) > PendingLimit

\* stage_slot or stage_tombstone, then after_write up to its commit.
SlotStage ==
    LET count == (sinceSync + 1) % CounterMod
        runs == StageSlot(iRuns, call.id, call.slot)
        outcome == IF call.kind = "delete" THEN NotFound ELSE ops + 1
    IN  /\ pc = "slot_stage"
        /\ ~Index!MustFlush(iRuns, call.id, 1)
        /\ iRuns' = runs
        /\ sinceSync' = count
        /\ IF CommitDue(count, dRuns, runs)
           THEN pc' = "commit_data" /\ UNCHANGED call
           ELSE pc' = "idle" /\ call' = NoCall
        /\ allowed' = [allowed EXCEPT ![call.id] = @ \union {outcome}]
        /\ unsynced' = unsynced + 1
        /\ ops' = ops + 1
        /\ UNCHANGED <<files, dRuns, placement, opening, crashes>>

\* flush, and the flush of Drop.
BeginFlush(kind) ==
    /\ pc = "idle"
    /\ pc' = "commit_data"
    /\ call' = [NoCall EXCEPT !.kind = kind]
    /\ UNCHANGED <<files, dRuns, iRuns, placement, sinceSync, opening, history>>

\* Variant: the index goes first.
IndexFirst ==
    /\ pc = "commit_data"
    /\ FlushIndex
    /\ pc' = "commit_sync"
    /\ UNCHANGED <<dDisk, dStable, iStable, dRuns, placement, sinceSync, call,
                   opening, history>>

\* commit, in its three steps: data flush, data sync, index flush.
CommitData ==
    /\ pc = "commit_data"
    /\ FlushData
    /\ pc' = "commit_sync"
    /\ UNCHANGED <<iDisk, dStable, iStable, iRuns, placement, sinceSync, call,
                   opening, history>>

\* Variant: the data file is not synced.
SkipSync ==
    /\ pc = "commit_sync"
    /\ pc' = "commit_index"
    /\ UNCHANGED <<files, dRuns, iRuns, placement, sinceSync, call, opening, history>>

CommitSync ==
    /\ pc = "commit_sync"
    /\ dStable' = dDisk
    /\ pc' = "commit_index"
    /\ UNCHANGED <<dDisk, iDisk, iStable, dRuns, iRuns, placement, sinceSync, call,
                   opening, history>>

\* Variant: the index stays staged.
SkipIndex ==
    /\ pc = "commit_index"
    /\ IF call.kind \in {"flush", "close"}
       THEN pc' = "index_sync" /\ UNCHANGED call
       ELSE pc' = "idle" /\ call' = NoCall
    /\ allowed' = [id \in Ids |-> {Lookup(id)}]
    /\ unsynced' = 0
    /\ UNCHANGED <<files, dRuns, iRuns, placement, sinceSync, opening, ops, crashes>>

CommitIndex ==
    /\ pc = "commit_index"
    /\ FlushIndex
    /\ IF call.kind \in {"flush", "close"}
       THEN pc' = "index_sync" /\ UNCHANGED call
       ELSE pc' = "idle" /\ call' = NoCall
    /\ allowed' = [id \in Ids |-> {Lookup(id)}]
    /\ unsynced' = 0
    /\ UNCHANGED <<dDisk, dStable, iStable, dRuns, placement, sinceSync, opening,
                   ops, crashes>>

\* What is gone when the process is: staged writes and the placement.
LoseMemory == /\ dRuns' = <<>> /\ iRuns' = <<>>
              /\ cursor' = DATA_PAGE /\ nextId' = 0
              /\ sinceSync' = 0
              /\ pc' = "down" /\ call' = NoCall
              /\ upd' = <<>> /\ restored' = FALSE
              /\ unsynced' = 0

\* The sync that ends flush; after that of Drop the heap is closed.
IndexSync ==
    /\ pc = "index_sync"
    /\ iStable' = iDisk
    /\ \/ /\ call.kind = "flush"
          /\ pc' = "idle" /\ call' = NoCall
          /\ UNCHANGED <<dRuns, iRuns, placement, sinceSync, opening, unsynced>>
       \/ call.kind = "close" /\ LoseMemory
    /\ UNCHANGED <<dDisk, iDisk, dStable, allowed, ops, crashes>>

-----------------------------------------------------------------------------
(* Crashes. *)

\* The sets of pages that may have been written when a flush is cut short.
TornPages(pages) ==
    IF InOrder THEN {{pages[k] : k \in 1 .. n} : n \in 0 .. Len(pages)}
    ELSE SUBSET Range(pages)

\* Contents of each file after the process dies during the step at pc.
DataTorn ==
    IF pc \in {"commit_data", "record_read"}
    THEN {Data!OnPages(dDisk, dView, s) : s \in TornPages(Data!FlushPages(dRuns))}
    ELSE {dDisk}

IndexTorn ==
    IF \/ pc \in {"slot_read", "commit_index", "restore", "restore_flush"}
       \/ pc = "slot_stage" /\ Index!MustFlush(iRuns, call.id, 1)
    THEN {Index!OnPages(iDisk, iView, s) : s \in TornPages(Index!FlushPages(iRuns))}
    ELSE {iDisk}

Kill == /\ "kill" \in CrashKinds /\ crashes < MaxCrashes /\ pc # "down"
        /\ dDisk' \in DataTorn
        /\ iDisk' \in IndexTorn
        /\ LoseMemory
        /\ crashes' = crashes + 1
        /\ UNCHANGED <<dStable, iStable, allowed, ops>>

\* A page written since the last fdatasync of its file may or may not be there.
PowerLoss ==
    /\ "power" \in CrashKinds /\ crashes < MaxCrashes /\ pc # "down"
    /\ \E d \in DataTorn, i \in IndexTorn,
          dp \in SUBSET {p \div DATA_PAGE : p \in Cells},
          ip \in SUBSET {id \div SLOTS_PER_PAGE : id \in Ids} :
          /\ dDisk' = Data!OnPages(d, dStable, dp)
          /\ iDisk' = Index!OnPages(i, iStable, ip)
    /\ dStable' = dDisk' /\ iStable' = iDisk'
    /\ LoseMemory
    /\ crashes' = crashes + 1
    /\ UNCHANGED <<allowed, ops>>

-----------------------------------------------------------------------------
(* AppendPlacement::open on existing files. *)

\* Variant: deleted slots do not count.
LiveOnly == {id \in Ids : iDisk[id].st = "live"}
Used == {id \in Ids : iDisk[id].st # "empty"}

\* The scan of the index: the number after the last used slot, and the end of
\* the furthest record a slot, live or deleted, refers to.
ScanNextId == IF Used = {} THEN 0 ELSE Max(Used) + 1

\* Variant: only the slot of the greatest number counts.
LastSlotEnd == IF Used = {} THEN DATA_PAGE
               ELSE iDisk[Max(Used)].off + iDisk[Max(Used)].len

ScanEnd == Max({DATA_PAGE} \union {iDisk[id].off + iDisk[id].len : id \in Used})

\* One record of the walk: the next new number is inserted, an older number
\* is remembered as an update, and a gap in the numbers ends the restore.
FoldTail(acc, p) ==
    LET r == dDisk[p].rec
    IN  IF acc.gap \/ r.id > acc.next THEN [acc EXCEPT !.gap = TRUE]
        ELSE IF r.id = acc.next
        THEN [acc EXCEPT !.next = @ + 1,
                         !.runs = StageSlot(@, r.id, Live(p, r.len))]
        ELSE [acc EXCEPT !.upd = Newest(dDisk, @, p)]

\* Where open goes when nothing is left to restore from the tail.
AfterRestore(some) == IF some THEN "restore_flush" ELSE "idle"

\* The history a completed open starts: what it shows is what is there.
Recovered == allowed' = [id \in Ids |-> {Lookup(id)'}]

Open ==
    LET found == Walk(dDisk, ScanEnd, MaxCell)
        tail == FoldLeft(FoldTail, [next |-> ScanNextId, runs |-> <<>>,
                                    upd |-> <<>>, gap |-> FALSE], found)
        some == tail.runs # <<>>
    IN  /\ pc = "down"
        /\ cursor' = IF found = <<>> THEN ScanEnd
                     ELSE Last(found) + dDisk[Last(found)].rec.len
        /\ nextId' = tail.next
        /\ iRuns' = tail.runs
        /\ upd' = tail.upd
        /\ restored' = some
        /\ pc' = IF DOMAIN tail.upd # {} THEN "restore" ELSE AfterRestore(some)
        /\ UNCHANGED <<files, dRuns, sinceSync, call, unsynced, ops, crashes>>
        /\ IF pc' = "idle" THEN Recovered ELSE UNCHANGED allowed

\* The slot of id already has this version, or a newer one, or is deleted.
Superseded(id, u) ==
    LET slot == iView[id]
    IN  \/ slot.st = "deleted"
        \/ slot.st = "live" /\ slot.off = u.off
        \/ /\ slot.st = "live"
           /\ ReadHeader(dDisk, slot.off, id)
           /\ dDisk[slot.off].rec.ver >= u.ver

\* Variant: an update stays in the list after its turn.
RestoreAgain(id) ==
    LET u == upd[id]
        skip == Superseded(id, u)
    IN  /\ pc = "restore"
        /\ iDisk' = iView
        /\ iRuns' = IF skip THEN <<>> ELSE StageSlot(<<>>, id, Live(u.off, u.len))
        /\ restored' = (restored \/ ~skip)
        /\ UNCHANGED <<dDisk, dStable, iStable, dRuns, placement, sinceSync, pc, call,
                       upd, history>>

\* One turn of the loop over updates, whose order is that of a hash map.
RestoreUpdate(id) ==
    LET u == upd[id]
        skip == Superseded(id, u)
        some == restored \/ ~skip
        left == DOMAIN upd \ {id}
    IN  /\ pc = "restore"
        /\ iDisk' = iView
        /\ iRuns' = IF skip THEN <<>> ELSE StageSlot(<<>>, id, Live(u.off, u.len))
        /\ upd' = [x \in left |-> upd[x]]
        /\ restored' = some
        /\ pc' = IF left # {} THEN "restore" ELSE AfterRestore(some)
        /\ UNCHANGED <<dDisk, dStable, iStable, dRuns, placement, sinceSync, call,
                       unsynced, ops, crashes>>
        /\ IF pc' = "idle" THEN Recovered ELSE UNCHANGED allowed

RestoreFlush ==
    /\ pc = "restore_flush"
    /\ FlushIndex
    /\ pc' = "restore_sync"
    /\ UNCHANGED <<dDisk, dStable, iStable, dRuns, placement, sinceSync, call,
                   opening, history>>

RestoreSync ==
    /\ pc = "restore_sync"
    /\ iStable' = iDisk
    /\ pc' = "idle"
    /\ restored' = FALSE
    /\ UNCHANGED <<dDisk, iDisk, dStable, dRuns, iRuns, placement, sinceSync, call,
                   upd, unsynced, ops, crashes>>
    /\ Recovered

-----------------------------------------------------------------------------
Begin == \/ \E len \in Lens : Insert(len)
         \/ \E id \in Ids : BeginRead(id)
         \/ \E id \in Ids, len \in Lens : BeginUpdate(id, len)
         \/ \E id \in Ids : BeginDelete(id)
         \/ \E kind \in {"flush", "close"} : BeginFlush(kind)

Proceed == \/ ReadSlot \/ ReadRecord \/ UpdateRecord \/ SlotFlush \/ SlotStage
           \/ CommitData \/ CommitSync \/ CommitIndex \/ IndexSync
           \/ RestoreFlush \/ RestoreSync
           \/ \E id \in DOMAIN upd : RestoreUpdate(id)

Continue == Proceed \/ Open

Next == Begin \/ Continue \/ Kill \/ PowerLoss

Spec == Init /\ [][Next]_vars

\* The program keeps running once a call or an open has begun.
FairSpec == Spec /\ WF_vars(Continue)

-----------------------------------------------------------------------------
(* Properties. *)

Slots == {Empty} \union [st : {"live", "deleted"}, off : Cells, len : Lens]
IsCell(c) == c = Zero \/ (c.rec \in Record /\ c.k \in 1 .. c.rec.len)

\* Type invariant: the state of Heap, AppendPlacement and the two files stays in
\* range, and staged writes only ever hold cells and slots of the files.
TypeOK ==
    /\ \A d \in {dDisk, dStable} : DOMAIN d = Cells /\ \A p \in Cells : IsCell(d[p])
    /\ \A i \in {iDisk, iStable} : DOMAIN i = Ids /\ \A id \in Ids : i[id] \in Slots
    /\ \A n \in DOMAIN dRuns : /\ dRuns[n].start \in Cells
                               /\ \A c \in Range(dRuns[n].vals) : IsCell(c)
    /\ \A n \in DOMAIN iRuns : /\ iRuns[n].start \in Ids
                               /\ Range(iRuns[n].vals) \subseteq Slots
    /\ cursor \in DATA_PAGE .. MaxCell /\ nextId \in 0 .. MaxIds
    /\ sinceSync \in 0 .. CounterMod - 1
    /\ pc \in {"idle", "slot_read", "record_read", "slot_stage", "commit_data",
               "commit_sync", "commit_index", "index_sync", "down", "restore",
               "restore_flush", "restore_sync"}
    /\ DOMAIN upd \subseteq Ids /\ restored \in BOOLEAN
    /\ unsynced \in 0 .. MaxOps /\ ops \in 0 .. MaxOps /\ crashes \in 0 .. MaxCrashes

\* The heap is open to calls.
Up == pc \notin {"down", "restore", "restore_flush", "restore_sync"}

Abstract == INSTANCE HeapSpec WITH
    Outcomes <- 0 .. MaxOps, up <- Up,
    view <- [id \in Ids |-> IF Up THEN Lookup(id) ELSE NotFound]

\* The heap keeps its promise: every call, flush, commit and crash with the
\* following recovery is a step of the abstract map, so a read returns the last
\* write, and a recovery returns for each record the committed outcome or a
\* later one.
Contract == Abstract!Spec

\* A live slot in the index file always refers to a whole record in the data
\* file, whatever reaches the files first (the ordering commit is about).
IndexNeverAheadOfData == \A id \in Ids : Read(dDisk, iDisk, id) # Corrupt

\* Between calls fewer than SyncEvery operations are uncommitted, also when the
\* counter of after_write wraps around and when other commits come in between.
SyncWindow == pc = "idle" /\ SyncEvery > 0 => unsynced < SyncEvery

\* The allocator is ahead of everything the index refers to: the next number has
\* no slot, and the next record overwrites none that a slot refers to.
AllocatorFresh ==
    Up => \A id \in Ids :
            iView[id].st # "empty" =>
                /\ id < nextId
                /\ iView[id].off + iView[id].len <= cursor

\* A recovery never returns a superseded value: each record has an outcome written
\* since the last commit, or the committed one, or is reported corrupt.
NoStaleValue ==
    [][~Up /\ Up' => \A id \in Ids : Lookup(id)' \in allowed[id] \union {Corrupt}]_vars

\* A record whose existence is committed can still be read after a recovery: group
\* sync may lose the last SyncEvery - 1 operations, not the record they were on.
CommittedStaysReadable ==
    [][~Up /\ Up' => \A id \in Ids : NotFound \notin allowed[id] => Lookup(id)' # Corrupt]_vars

\* Every call returns and every open ends, whatever crashes come in between.
CallsReturn == pc # "idle" ~> pc = "idle"
=============================================================================
