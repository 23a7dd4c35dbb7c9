# Heap table storage: TLA+ models, checks and proofs

The repository is a heap-table storage engine in Rust: records of any length in a
data file, an index of fixed-size slots, two ways to place records (append and
buckets), two I/O backends (blocking calls and io_uring), and recovery after a
process kill, a power loss or the loss of the metadata. It is a library used by one
caller at a time; the hard behaviour is what reaches the files in which order, and
what the next open makes of it. Paths below are relative to the repository's `src/`.

## 1. Inventory

| Component | State | Operations | Talks to | Hard behaviour |
|---|---|---|---|---|
| `heap.rs` Heap | `operations_since_sync`, the files, the placement | open, insert, read, read_batch, update, delete, flush, commit, Drop | all below | order of data and index at a commit; commits every N operations; crash at any step |
| `append.rs` AppendPlacement | `cursor`, `next_id` | alloc, alloc_update, open (scan, tail walk, restore) | index, data, recovery | recovery from what a crash left; a second crash while recovering |
| `bucket.rs` BucketPlacement | extents and regions of every bucket, grant counter, file size, registry | alloc, alloc_update, grant_extent, grant_region, open (replay, recovery) | data, registry | long sequences of cuts and grants; replay; crash between rows |
| `data.rs` PagedFile | staged writes, `tail_pages`, `pending_bytes`, `allocated_end` | create, open, stage, flush, read_aligned, ensure_alloc | io | merging partial pages; stale cache; a flush that fails half way |
| `data.rs`, `index.rs` DataFile, IndexFile | none of their own | stage_record, read_record, read_header, read_many; stage_slot, stage_tombstone, read_slot(s) | PagedFile | a read flushes what is staged |
| `recovery.rs` | none | walk (with resync), rebuild | data, index, registry | damaged records; a crash in the middle of a rebuild |
| `io/uring.rs` UringIo | ring, segments, pending | run, split | kernel | completions in any order, short, failed; queue full |
| `io/sync.rs` SyncIo | counters | read_vec, write_vec, sync | kernel | short transfers |
| `format.rs`, `crc32.rs` | none | encode, decode, checksum | - | what a damaged record looks like |
| `bin/crash.rs` | the child's log, the parent's counts | child, kill_rounds, corruption scenarios, costs | Heap | a kill between the heap's commit and the log's, or in the middle of a log line |
| `bin/bench.rs`, `measure.rs`, `rng.rs` | - | measurements | Heap | none |

`store.rs`, `io_mode.rs`, `uring_io.rs`, `uring_access.rs`, `block_io.rs`,
`io_access.rs` and `main.rs` are an earlier design that `lib.rs` does not declare.

What makes each component correct:

* **Heap**: a read returns the last write; after a crash each record has its last
  committed outcome or a later one; no superseded value returns; at most N - 1
  operations are uncommitted between calls; every call ends.
* **Allocation**: a byte or a number in use is never given out again, in one run or
  after an open.
* **PagedFile**: writing in whole pages is invisible: the file is an array of bytes.
* **Open and rebuild**: a store that was open can be opened; lost metadata is restored
  from the data.
* **walk, read_batch**: reading in pieces is invisible: the records of a stretch are
  found wherever the chunks end, and a batch returns what single reads return.
* **Crash test**: it blames no heap that keeps its promise, and looks at enough.
* **io_uring**: everything is transferred once or an error is reported, and no
  buffer is left with the kernel.

The hazards, each with its line and its properties, are in `PROJECT.json`.

## 2. Modules

| Module | Models | Built on |
|---|---|---|
| `Format` | `page_down`, `page_up` | |
| `Staging` | the rules of `PagedFile::stage`: when a write extends another, when a flush is forced, which pages a flush writes in which order | Format |
| `LogicalFile` | abstract: an array of bytes | |
| `PagedFile` | stage and flush byte by byte, `tail_pages`, `head`, failing flushes | Staging; refines LogicalFile |
| `HeapSpec` | abstract: a map from record numbers to outcomes with commit, stop and recover | |
| `Records` | records, slots, `parse`, `read_header`, and what `walk` finds in a data file | |
| `AppendHeap` | Heap with AppendPlacement and everything it calls, kills and power losses | Records, Staging (twice: data and index); refines HeapSpec |
| `StoreOpen` | all of `Heap::open`: creation of the files, `metadata_is_broken`, rebuild, with kills, a lost index, a damaged record | AppendHeap |
| `BucketAlloc` | the allocator of BucketPlacement, its registry and its replay | Format |
| `BucketHeap` | Heap with BucketPlacement: calls, commit over three files, kills, recovery, loss of metadata and rebuild | BucketAlloc, Records, Staging; steps of HeapSpec until metadata is lost |
| `Walk` | the loop of `walk`: bytes, chunks, buffer, resync | |
| `ReadPlan` | `read_batch`, `read_slots`, `read_many`, `split` | Format |
| `CrashHarness` | child and parent of the kill test | HeapSpec |
| `UringRun` | `UringIo::run` and the kernel side of the ring | |
| `MCUringRun`, `MCBucketHeap`, `MCReads` | segment sizes; symmetry of the buckets; either a walk or a batch, for TLC | |
| `UringRunProofs`, `PagedFileProofs`, `HeapProofs`, `BucketProofs`, `WalkProofs`, `CrashHarnessProofs` | theorems about UringRun, PagedFile, AppendHeap and StoreOpen, BucketAlloc and BucketHeap, Walk and ReadPlan, CrashHarness | the module each is about, DataInduction |
| `DataInduction` | lemmas: induction over numbers, folds and recursive functions | |
| `RecordsProofs` | lemmas about Records and Staging for HeapProofs and BucketProofs | Records, Staging, DataInduction |

Definitions named in a comment as a *variant* are plausible mistakes (a dropped
guard, a swapped order). No specification uses them; substituted for the definition
that follows them, each makes the run report the property `PROJECT.json` names, which
shows that the property depends on the code being as it is.

### AppendHeap

The data file is an array of *cells*; a record takes one or more, its first carries
the header. A cell knows its record, so "the checksum matches" is "all cells of the
record are there". The index is an array of slots (empty, live, deleted). `dDisk`
and `iDisk` are the files as a reader sees them, `dRuns` and `iRuns` what is staged,
`dStable` and `iStable` the contents at the last `fdatasync`. A payload is the number
of the operation that wrote it (`tag`), so two writes are never confused.

A call is a sequence of steps (`pc`), cut wherever the code writes to or syncs a
file, because a crash may come there: insert and update stage the record, then the
slot (`SlotStage`, possibly after a forced flush, `SlotFlush`), then run
`after_write`: `CommitDue` decides about `CommitData`, `CommitSync`, `CommitIndex`.
`ReadSlot` and `ReadRecord` flush first, as `read_aligned` does. A kill during a
flush leaves the pages written so far: a prefix of the requests for `SyncIo`
(`InOrder`), any subset for `UringIo`. A power loss keeps, for each page, the synced
content or the current one. `Open` scans the index and walks the tail; the
`Restore` actions write back what was found, in any order (a `HashMap` is iterated).
Widths that wrap (versions, the counter of `after_write`) are `VersionMod` and
`CounterMod`.

`allowed`, `unsynced`, `ops` and `crashes` are history: the outcomes of each record
since its last commit, and counts.

### StoreOpen

Adds the state of the two files (`absent`, `blank`: without a header, `sound`) and
`stage`, where an open stands. `PagedFile::create` is two steps, as a kill may come
between the truncation and the header. `rebuild` is: walk with resync, create,
one step per slot, a flush when too much is staged or `stage` forces one, the final
flush and the sync. The second call of `rebuild` in `Heap::open` (`heap.rs:130`) needs
a `Corrupt` from the placement; `AppendPlacement::open` never returns one.

### PagedFile

Bytes of a file of a few pages; the n-th write writes the value n. A failing flush
is `FlushError`: it loses the staged writes after any subset of the pages, or after
reading a last page failed.

### BucketAlloc

`ext` and `reg` hold all extents and regions with their owner, `order` the buckets by
creation. One action per turn of the loop of `grant_extent`: `FirstGrant`, `Grow`,
`Split`, `Skip`, and the panic (`NoExtent`) and error (`GrowFails`) exits. `Reopen` is
open after a clean close: replay of the rows and what recovery finds in use.

### BucketHeap

Composes the allocator with the files it lives in: `rows` of BucketAlloc is the
registry as the process sees it, `rDisk` the registry file, `rDone` how many rows are
not staged. A call runs the allocator (`Allocate`), stages the record and the slot,
and commits registry, data and index in this order, each a step a kill may cut short
with some pages written. `LoseMemory` is what goes with the process. `Open` replays
the rows; then, bucket by bucket, `ReadBucket` finds what is in use of regions and
extents (slots of the bucket's own regions, records of its last extent), `RestoreSlot`
writes back the slots of records the index missed, in the order of a `HashMap`, and
`EndBucket` panics where the code unwraps a region that is not there: the open is
`dead`. Metadata without a header, or a registry with a damaged row, leads to
`rebuild`, which empties and refills the index and then the registry, again in steps.
`cut` records that a kill hit a rebuild after the new file looked sound: what the next
open makes of that is the finding of `store_cut` and is excluded here.

### Walk

A file is a sequence of bytes: those of the magic, lengths (which stand for the rest
of a sound header) and others. `Fill` is a turn of `ensure_available`, `Top` and
`Search` drain the buffer, `Scan` searches it for the magic, `Visit` calls the visitor,
which may end the walk. `Found` is the reference: the records found with the whole
stretch in memory.

### ReadPlan

A byte of the data file is its own offset, so a payload cut from the wrong place is
seen. `PageGroups` and `Join` are the two groupings, `Buffer` what the segments of
`split` bring, `SlotFrom` and `Parse` what is cut out of it.

### CrashHarness

The heap is HeapSpec itself. The child's steps are the insert, the commit inside it,
the line and the write of the log; a kill leaves of the lines being written a prefix,
the last perhaps torn, and a torn number is a prefix of its digits (`Base` 2 instead of
10, so that short numbers have prefixes). The parent reads the lines, opens the heap
(`Recover`: any outcome the promise allows) and counts.

### UringRun

One request per segment at a time, with its state (`st`): submission queue, kernel,
completion queue, collected batch. The kernel takes any part of the queue, completes
in any order and returns any length, an error, or zero.

## 3. Runs

| Run | Module, configuration | Result |
|---|---|---|
| `append_every1` | AppendHeap, commit after each operation, pages in any order, two kills | passes: `TypeOK`, `IndexNeverAheadOfData`, `Contract` (refines HeapSpec), `CallsReturn` |
| `append_group` | AppendHeap, commit every 2nd operation, counter modulo 3, versions modulo 2, in-order pages, two kills | passes: `SyncWindow`, `AllocatorFresh`, `NoStaleValue` |
| `append_power` | AppendHeap, commit after each operation, two power losses | passes: `IndexNeverAheadOfData` |
| `append_group_loss` | as append_group, one kill | **violation** of `CommittedStaysReadable` |
| `store_open` | StoreOpen, versions modulo 3, one kill, one lost index, one damaged cell | passes: `StaysOpenable`, `RebuildComplete` |
| `store_cut` | StoreOpen, one kill, one lost index | **violation** of `SourceOfTruth` |
| `paged_file` | PagedFile, one failing flush | passes: `TypeOK`, `StagedApart`, `FileContents` (refines LogicalFile until a fault), `ErrorLosesOnlyStaged` |
| `bucket_alloc` | BucketAlloc, three buckets, reopens, failing fallocate | passes: `TypeOK`, `ExtentsDisjoint`, `RecordsDisjoint`, `NumbersUnique`, `ReplayFaithful`, `GrantEnds` |
| `bucket_heap` | BucketHeap, commit after each operation, two buckets, pages in any order, a disk that may be full, two faults (kill, lost or damaged metadata) | passes: `BucketTypeOK`, `AllocatorFresh`, `RegistryFirst`, `PanicsOnlyAtHalfBucket`, `MapContract`, `KillsKeepCommitted` |
| `uring_run` | UringRun, four segments, queue of two | passes: all seven properties |
| `reads_in_pieces` | Walk over all files of 6 bytes, chunks of 1 and 2; ReadPlan with all batches of up to three numbers over small indexes | passes: `VisitsWhatIsThere`, `BufferInPlace`, `BufferBounded`, `WalkEnds`; `BatchAsSingles` |
| `crash_harness` | CrashHarness, policies 1 to 3, four inserts | passes: `NoFalseAlarm`, `ChecksAllButLast` |

What the violations show (each is a finding in `PROJECT.json`, with the line it
contradicts):

* `append_group_loss`: with group sync, `read_slot` flushes the index alone. Insert,
  commit, update, read, kill: the slot points at a record that was never written, and
  the committed record is `Corrupt`, although group sync is to lose at most N - 1
  *operations* (`tests/recovery.rs:280`).
* `store_cut`: `rebuild` creates `index.hs` with a valid header before filling it; a
  kill in between leaves an index that the next open takes for sound.

### Bounds, and why they are enough

* *Operations* (3 to 5), *numbers* (2 or 3), *record lengths* (1 or 2 cells) and
  *pages* of 2 cells: a record crosses a page and shares one, a page holds two
  records, a flush has several pages, an update moves a record and shortens it.
  `MaxCell` cuts off calls that would make the file larger.
* *Crashes* (two where recovery itself is the question): one to leave a torn state,
  one to hit the recovery or what was written after it. The violations above need
  at most two.
* `MAX_STAGED_WRITES` of 1 or 2 (64 in the code) and `PendingLimit` of 5 in
  `append_group` make forced flushes happen; `VersionMod` = 2 and `CounterMod` = 3 make
  the wraps happen; so does `VersionMod` = 3 in `store_open`, where the first update still
  has the greater version. In the other runs they are out of reach, and BucketHeap's versions
  do not wrap at all.
* `store_open` has one slot per index page and `RebuildLimit` = 2, so a rebuild
  flushes in the middle and a kill can leave some slots.
* `paged_file`: three pages of three bytes, writes of one and four bytes, two staged
  writes, four writes: heads, tails, cached pages and merges all occur.
* `bucket_alloc`: four records in three buckets of extents of a few pages; the first
  extent is cut, the file grows, sections of the victim order wrap. `MaxGrants`
  bounds the counter at the start of a call.
* `bucket_heap`: three operations in two buckets with records of one and two cells,
  pages of two cells, one row per registry page, regions of two numbers: extents are
  cut and grown, a record crosses a page, a bucket needs a second region, a kill parts
  the rows of one grant. `MaxFaults` = 2 covers a kill during the recovery from a kill,
  a kill before a loss and one in the rebuild. The buckets are symmetric.
* `reads_in_pieces`: with `DrainFactor` 1 (8 in the code), chunks of one and two bytes
  and a magic of two, every piece of the loop is used: draining, magic across chunks,
  headers that promise more than there is. Batches have four numbers on three index
  pages, two of them adjacent, records of one and three bytes on pages of two.
* `crash_harness`: four inserts give the longest interval a second, unfinished one;
  five numbers leave the heap a choice.
* `uring_run`: more segments than the queue, lengths up to 2, so that short
  completions and refills meet.

`CHECK_DEADLOCK FALSE` is set where the model really stops: a finished `run`, a
panicked allocator, a paged file whose writes are used up, a walk or batch that is done,
a bucket store whose bounds are used up. AppendHeap, StoreOpen and CrashHarness are
checked for deadlock: a closed store can always be opened, an open one read or closed.

### Fairness

* AppendHeap: `WF(Continue)`: the caller's thread goes on with a call or an open it
  began; the library has no locks or waits besides I/O. No fairness for new calls.
  Kills are bounded by `MaxCrashes`.
* BucketAlloc: `WF(Step)`, the same for `alloc` and `alloc_update`.
* Walk: `WF(WalkNext)`: the loop runs in the opening thread and waits for nothing.
* UringRun: `WF(Run)`, and the kernel completes every request it took.

## 4. Proofs

Checked by TLAPS for every value of the constants that satisfies the named `ASSUME`s.

**UringRunProofs.** For any number and length of segments and any depth not above the
queue size (`UringAssumption`), the
inductive invariant `IInv` is `TypeOK` and

* `Accounted`: what a request still covers, what was moved and the result of a
  completion not yet processed add up to the segment, whatever state it is in;
* `Unsubmitted`: segments from `next` on have no request, those before have had one;
* `Counted`: `pending` is the number of outstanding requests;
* `Drained`: at the end nothing is outstanding and, without error, nothing is left.

None of the properties is inductive alone: `OkMeansAll` needs the accounting, `NothingInFlight`
and `SqHasRoom` need `Counted`. From `IInv`: `TypeCorrect`, `ReturnsDrained`,
`OkIsComplete`, `NoByteTwice`, `PushFits`, and the action property `ErrorDrains`.

**DataInduction.** Replay, recovery and the walk compute with folds (`FoldLeft`) and
recursive functions, and what they return is only known by induction on the data. The
library's induction theorems take an operator as a parameter, which no backend can
instantiate; here each is stated with a *set* instead: `SetInduction` for a set of numbers,
`FoldExists` for the function a fold is defined by, `WalkExists` and `WalkInduction` for a
recursive function whose argument grows up to a bound. To use one, take the set of the
values that have the property. That the functions the definitions choose exist at all is
part of these lemmas.

**PagedFileProofs.** For every page size, file size and limit on staged writes. `PInv`:
staged writes are whole and on disjoint pages, and (`InMemoryAgrees`) until an I/O error
the `head` every staged write keeps and every page in `tail_pages` agree with the file.
Without that last part the refinement is not inductive: a flush writes pages that are
merged from heads, cached pages and the file, and only their agreement makes the flush
invisible. From it: `PagedTypeCorrect`, `NoSharedPages`, the action property
`ErrorsLoseOnlyStaged`, and `StagingIsTransparent`, the refinement of LogicalFile: a stage
is a write of the logical file and a flush a stuttering step.

**HeapProofs.** For every sync interval, page size, set of record lengths and bound
(`AppendAssumption`, `StoreAssumption`).

* `WindowHolds`: `WindowInv` bounds the operations since the last commit by the counter
  of `after_write` modulo the interval, also where the counter wraps (`NextRemainder`).
* `Reopens`: `OpenInv` ties the stage of an open to the state of the data file.
* `HeapInvariance`, `HeapTypeCorrect`, `AllocatorAhead`: `HInv` says that files, staged
  writes, the running call and the updates an open has left to restore are well formed, and
  that from the scan of an open on, cursor and next number are ahead of every slot. It
  holds through every torn flush since a flush only moves staged slots, which are
  ahead too (`RunsOK`), and after an open since the scan takes the furthest of all
  slots and the walk goes on from there (`ScanIs`, `GatherAll`, an induction on the
  records that are found).
* `DataBeforeIndex`: `OrderInv` says that only the call that stores a record has staged
  data, that slots in the file refer to whole records below `Floor` (the
  start of the record being stored, else the cursor) and staged ones to whole records that
  may be staged, and, where the power can fail, that what is below `Floor` is synced.
  Its hypotheses are real limits of the code, not of the proof: with group sync, and
  with kills followed by power losses, the invariant is false (section 5, `append.rs:150`).
* `HeapKeepsPromise`: with a commit after every operation and kills only, AppendHeap
  implements HeapSpec (`Contract`): an operation is a `Write` when its slot is staged, the
  flush of the index is the `Commit`, a kill or a close is `Stop`, and the step of an open
  after which the heap is up is `Recover`; everything else is a stutter, because staged and
  torn bytes change nothing a reader sees. `PromiseInv` says what an open would find at
  every point (`Restorable`): the slots in the file are those of the numbers below some n,
  the furthest of their records ends at some c (`Tight`), no header is behind c
  (`NoneBehind`), every slot reads as an allowed outcome, and if there is a whole record at
  c it is the one of the operation under way, newer than the slot of its number
  (`Waits`). Hence a torn flush leaves either the files as they were or exactly one record
  for the next open (`TornRestorable`), which the walk finds (`WalkOne`), the fold over the
  tail takes up (`OpenTakes`) and the loop over updates does not skip (`RestorePromise`).
* `RecoveryReturnsAllowed`: hence, under the same conditions, a recovery returns no
  superseded value (`NoStaleValue`) and a record whose existence is committed never turns
  corrupt (`CommittedStaysReadable`, which `append_group_loss` shows is lost with group sync).
  Power losses are excluded since `Contract` is then false (a committed slot may be undone,
  section 5, `heap.rs:303`). That there are fewer operations than versions
  (`MaxOps < VersionMod`) is a limit of the proof: where a version wraps to a smaller one,
  a restore drops the record under way, which is allowed but leaves it behind the
  index, and `PromiseInv` has room for one such record. With the bounds of `append_every1` and
  `VersionMod` = 2, TLC finds no violation of `Contract`.

**BucketProofs**, about BucketAlloc. For any page size, configuration, buckets and record
lengths (`PageAssumption`, `BucketAssumption`), over any sequence of calls and reopens. The
invariant has two parts that need each other.

* `BInv`: the extents are sound (disjoint, in the file, not overfull), every record lies
  in the used part of some extent, records are apart, nothing was granted while the
  counter is 0, and a placement that asks for another extent already had one. The free
  tail computed by `grant_extent` starts at the page behind the used part (`CutFits`), so
  cutting it keeps soundness and covers no record (`CutTail`); a grown extent starts at
  the end of the file; a new extent is at least as long as the record that asked for it
  (`NeedCovers`); a record placed behind the used part of one extent is apart from
  everything covered (`FreshRecord`).
* `RInv`: the replay of the rows so far matches the allocator (`Matches`), every number
  is of the used part of a region, regions are apart and below `next_region`, and who owns
  an extent owns a region, but for the bucket being created. `ReplayAppend` makes a row
  more one step more of the replay. `shrink_extent` then cuts the right
  extent: a grown or first extent is contained in none (`MatchesNew`), a cut one only in
  its victim (`MatchesCut`), because extents are disjoint and no cut is empty.

A reopen (`ReopenStep`) replaces the allocator by the replay, which is the same by `RInv`,
with the use found by scanning, which covers every record by `BInv` and every number by
`RInv`. Hence `BucketTypeCorrect`, `NoSharedBytes`, `NoSharedRecords`, `NoSharedNumbers`
and `RegistryFaithful`.

**BucketProofs**, about BucketHeap. For any sync interval, page, slot and row counts,
buckets, lengths and bounds (`BucketHeapAssumption`: the bounds have room for a new store,
`NewEnd`, and for whole regions), with kills, lost or damaged metadata and rebuilds at any step.

* `HeapTypesInvariant`, `BucketHeapTypes`: what a kill leaves of the three files replays,
  walks and rebuilds to a well-formed allocator, whatever the order of the pages. That
  extents stay in the data file is not inductive alone: rows in the registry *file*
  have to lie in it as well (`RegistryTypes`), staged ones, torn ones and those behind a gap
  included, since the next open replays them. A number can only be chosen if the bucket has a
  region, hence `OwnersHoused`: who owns an extent owns a region, once the bucket is
  recovered or created. `RoomLeft` follows the rows a call still has to write through
  `alloc`; `CallTypes` and `OpTypes` tie the allocator's call to that of the heap;
  `UpdTypes` says that what the walk found, as folded into the newest record of each number,
  is in the file. `ReplayIn`, `NewestOf`, `Continue` are what the folds of replay, of the
  records found and of `bucket_runs` keep.
* `PanicIsHalfBucket`: an open panics only over a half bucket. `RowsInv`: an extent's row
  follows a region's row of its bucket or comes directly before the first one (`Paired`,
  which every prefix inherits: `PairedPrefix`), the file holds a prefix of the rows
  (`FileHolds`, through every torn flush), and extents and regions belong to exactly the
  buckets that have rows for them (`Mirrored`, through the replay: so a bucket without a
  region has no region row). That pages are written in order is
  a real hypothesis: with any order and group sync the property is false (section 5,
  `bucket.rs:462`). That no metadata is lost is a limit of the proof: a rebuild writes its
  rows in an order of its own, all extents first, so `Paired` does not hold; TLC finds no
  violation with losses.

**WalkProofs.** For every file, magic, chunk size and stretch (`WalkAssumption`, which asks
that the chunks that are kept are no shorter than the magic without its last byte, as the
code's 8 chunks are: the search steps back that far). `WalkInv` is `Place` (the buffer is a
window of the file and bounded), `LoopInv` (each part of the loop finds the bytes it
indexes in the buffer, and what the search has passed holds no magic) and `VisitInv` (what
was visited and what is found from here on are together what is found from the start,
for the function that reads the file byte by byte). Hence
`BufferStaysInPlace`, `BufferStaysBounded` and `WalkVisits`.

About ReadPlan, for every index, damage, batch, page size, slot size and segment size:
`BatchesAsSingles`. `PlanInv` says that the slots read in pages are those of the index;
that the groups `read_many` makes are contiguous, hold whole records and together
exactly the items of the batch; and that each item parsed so far gave what a single read
gives. The slots need that a page of the index is cut where the slot is; the items need
that sorting is a permutation and that the segments of `split` are joined without a gap.

**CrashHarnessProofs.** For every sync interval, base, set of numbers and number of inserts,
over every heap that behaves as HeapSpec. `HarnessInv`: while the child runs, the lines
written out are those of all but the current interval (`Counts` counts the records up to each line)
and the records they confirm are committed; while the parent parses
(`ParsedUpTo`), the lines it read are confirmed or in the tail, whatever the cut left of
the last line; while it reads, what was confirmed is there. Hence `NoFalseAlarms` and
`ChecksEnough`.

Only model-checked:

* liveness (`CallsReturn`, `GrantEnds`, `Terminates`, `WalkEnds`), which needs fairness and
  ENABLED;
* `NoStaleValue` with group sync, where several records wait behind the index and their slots
  may be torn apart, and what an open or a rebuild of StoreOpen restores;
* of BucketHeap: `AllocatorFresh`, `RegistryFirst`, `MapContract` and `KillsKeepCommitted`,
  and `PanicsOnlyAtHalfBucket` with losses or, for a commit after each operation, with
  pages in any order. The first four relate the slots, the records that fill the used
  parts of the extents, the torn record each extent may have behind them, and the extents of
  every prefix of the rows a kill may leave; `BInv` and `RInv` speak of a registry that is
  whole and of records that are all known.

## 5. Known deviations that are not runs

Found with TLC on these models, by a property that no longer is part of a run or by
other bounds; each says how to see it.

* *Page writes in any order* (`append.rs:99`). AppendHeap with the bounds of
  `append_group` and `InOrder` FALSE violates `NoStaleValue`: a torn flush leaves a valid
  record behind a gap; after a recovery new records fill the gap, and after the next
  crash the tail walk reaches the old record and restores it, although the comment says
  that "only a contiguous tail is safe to restore."
* *A delete is not synced* (`heap.rs:303`). `commit` syncs the data file only. With
  EveryN(1) and one power loss, `Lookup(id)' = NotFound` does not hold for an id with
  `allowed[id] = {NotFound}`, although `format.rs:165` says "tombstones prevent deleted
  records from returning."
* *The bucket being created is picked* (`bucket.rs:108`). It is in `states` before it has
  an extent, and `grant_extent` may come to it: `pc = "panicked"` is reachable in
  BucketAlloc without any failure. BucketHeap has the panic as `Unwind`.
* *Half a bucket* (`bucket.rs:462`). A kill between the pages of a new bucket's D row and
  S row leaves an extent without a region, and every later open panics (`hpc = "dead"`
  in BucketHeap). `PanicsOnlyAtHalfBucket` says this is the only way.
* *Rows behind a gap* (`bucket.rs:462`). With group sync and pages in any order this is not
  the only way: a kill may leave later rows in the file behind a blank page, and a
  later process writes rows up to the gap, so that the old ones join. With `SyncEvery` = 9,
  pages of one cell and one row, records of one cell, an initial size of 2, growth and
  smallest extent 1, regions of four numbers, eight operations and one kill,
  `PanicsOnlyAtHalfBucket` fails: two extent rows of a bucket and no region row.
* *A torn record hides its neighbours from a rebuild* (`recovery.rs:151`). A kill in
  `CommitData` may leave a sound header without its payload; the walk of a rebuild
  steps over the length it states, and with it over a committed record of another bucket
  whose extent was cut there. `KillsKeepCommitted` without its `TornRecord` exclusion
  fails with three operations, one kill and one lost index, although `heap.rs:90` says
  "data remains the source of truth after metadata loss."
* *Rows behind data and index* (`heap.rs:292`). With `SyncEvery` = 2 a read flushes data
  and index before the registry. After a kill the rows are gone, the numbers are given
  out again by another bucket, and the next recovery walks the old record in a last
  extent and restores it over the committed one, as only the bucket's own regions are
  known (`bucket.rs:438`). `MapContract` fails with `SyncEvery` = 2, records and pages of
  one cell, regions of one number, eight operations and two kills, although
  `tests/recovery.rs:280` has group sync lose the last N - 1 operations only.
* `AppendPlacement::open` syncs restored slots (`append.rs:150`) but not the records
  they refer to: kill, open, power loss leaves slots without records. `append_power`
  therefore has power losses only.
* After a failed flush `tail_pages` keeps pages the file never got (`data.rs:292`); a
  later write in such a page writes the lost bytes. `FileContents` is stated up to
  the first fault and `ErrorLosesOnlyStaged` for the fault itself.
* Replay adds one to the grant counter for every row, regions included
  (`bucket.rs:302`), so after a reopen the victims are taken in another order than
  without it, although `bucket.rs:251` speaks of reproducible decisions.
* A kill while the very first open creates `data.hs` leaves a file without a header
  that every later open refuses; `StaysOpenable` is about stores that were open once.
* *A rebuild after versions have wrapped* (`recovery.rs:205`). A rebuild keeps the record
  with the greatest version, and `update` writes `old.version.wrapping_add(1)`
  (`heap.rs:251`). A record updated until its version wraps, then closed and rebuilt from the data
  file, has a superseded value again, and the walk of the tail that follows does not mend it,
  since it compares with `>=` too; the comment at `recovery.rs:197` says "the newest
  valid version wins during rebuilding." `SourceOfTruth` fails with `VersionMod` = 3, three
  operations, no kill and one lost index (insert, two updates, close). `RebuildComplete`
  excludes exactly the numbers whose last whole record does not have their greatest
  version (`Outranked`), once an index was lost, and asks that they have one of their values.
  With buckets the code is the same, and BucketHeap leaves the wrap out.
* A rebuild brings deleted records back: tombstones are only in the index.
  `RebuildComplete` speaks of records that are not deleted.

## 6. Not modelled

* `integrity` = false: without payload checksums a torn payload is taken for whole, and
  none of the properties about torn records is meant for it. The models are of the
  default, `integrity` = true.
* Bytes, checksums and encodings (`crc32.rs`, most of `format.rs`): a checksum is what
  it detects.
* Counters, statistics and measurements, the benchmark programs, the cost and
  corruption commands of `bin/crash.rs`: fixed sequences of calls without choices.
* I/O errors above PagedFile other than a full disk: a failed flush is modelled where
  it bites (`PagedFile`), not again in the heaps.
* Power loss of a bucket store: `commit` is the code `append_power` checks.
* The abort of `run` when `submit` fails; the retry loop of `SyncIo`.
* The prototype that is not part of the crate.

## 7. Plan

1. Proofs: `AllocatorFresh` and `RegistryFirst` of BucketHeap for a commit after each
   operation; `PromiseInv` with more than one record behind the index, for versions that wrap.
2. I/O errors in the heap: `operations_since_sync`, `cursor` and the index after an
   operation that failed half way.
