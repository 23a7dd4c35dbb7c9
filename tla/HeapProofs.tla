------------------------------ MODULE HeapProofs ------------------------------
(***************************************************************************)
(* Proofs about the append heap and about opening a store, for every sync  *)
(* interval, page size, record length and bound: the sync window, the      *)
(* allocator ahead of the index, the data written before the index, and,   *)
(* for a commit after every operation, that the heap implements HeapSpec.  *)
(***************************************************************************)
EXTENDS StoreOpen, RecordsProofs

-----------------------------------------------------------------------------
(* The sync window. *)

\* A commit is under way.
Committing == pc \in {"commit_data", "commit_sync", "commit_index"}

\* Outside of a commit the counter of after_write bounds the operations since the
\* last commit.
WindowInv ==
    /\ sinceSync \in 0 .. CounterMod - 1 /\ unsynced \in Nat
    /\ SyncEvery > 0 /\ ~Committing => unsynced <= sinceSync % SyncEvery

\* The counter after one more operation, when that does not make a commit due.
LEMMA CountStep ==
    ASSUME WindowInv, SyncEvery > 0, ~Committing,
           NEW c, c = (sinceSync + 1) % CounterMod, c % SyncEvery # 0
    PROVE  unsynced + 1 <= c % SyncEvery
<1>1. /\ CounterMod \in Nat \ {0} /\ SyncEvery \in Nat \ {0} /\ sinceSync \in Nat
      /\ sinceSync < CounterMod
  BY AppendAssumption DEF WindowInv
<1>2. 0 % SyncEvery = 0
  BY <1>1
<1>3. c # 0
  BY <1>2
<1>4. c = (sinceSync % CounterMod) + 1
  BY <1>1, <1>3, NextRemainder, Zenon
<1>5. sinceSync % CounterMod = sinceSync
  BY <1>1
<1>6. (sinceSync + 1) % SyncEvery = (sinceSync % SyncEvery) + 1 /\ sinceSync % SyncEvery \in Nat
  BY <1>1, <1>4, <1>5, NextRemainder, Zenon
<1>7. unsynced <= sinceSync % SyncEvery /\ unsynced \in Nat
  BY DEF WindowInv
<1> QED  BY <1>4, <1>5, <1>6, <1>7

\* Every step of the heap, and a kill, keeps the bound.
LEMMA StepWindow ==
    ASSUME WindowInv, Next
    PROVE  WindowInv'
<1>0. 0 \in 0 .. CounterMod - 1 /\ SyncEvery \in Nat /\ (SyncEvery > 0 => 0 % SyncEvery = 0)
  BY AppendAssumption
<1>1. ASSUME UNCHANGED <<sinceSync, unsynced>>, Committing' \/ ~Committing PROVE WindowInv'
  BY <1>1 DEF WindowInv
<1>2. ASSUME sinceSync' = 0, unsynced' = 0 PROVE WindowInv'
  BY <1>0, <1>2 DEF WindowInv
<1>3. CASE Begin
  <2>1. UNCHANGED <<sinceSync, unsynced>> /\ pc = "idle"
    BY <1>3, Zenon DEF Begin, Insert, BeginRead, BeginUpdate, BeginDelete, BeginFlush, history
  <2> QED  BY <1>1, <2>1 DEF Committing
<1>4. CASE ReadSlot \/ ReadRecord \/ UpdateRecord \/ SlotFlush
  <2>1. UNCHANGED <<sinceSync, unsynced>> /\ pc \in {"slot_read", "record_read", "slot_stage"}
    BY <1>4 DEF ReadSlot, ReadRecord, UpdateRecord, SlotFlush, history
  <2> QED  BY <1>1, <2>1 DEF Committing
<1>5. CASE SlotStage
  <2> DEFINE c == (sinceSync + 1) % CounterMod
             due == CommitDue(c, dRuns, StageSlot(iRuns, call.id, call.slot))
  <2>1. /\ pc = "slot_stage" /\ sinceSync' = c /\ unsynced' = unsynced + 1
        /\ due => pc' = "commit_data"
    BY <1>5 DEF SlotStage
  <2>2. c \in 0 .. CounterMod - 1
    BY AppendAssumption DEF WindowInv
  <2>3. ~due /\ SyncEvery > 0 => c % SyncEvery # 0
    BY DEF CommitDue
  <2> HIDE DEF c, due
  <2>4. SyncEvery > 0 /\ ~Committing' => unsynced' <= sinceSync' % SyncEvery
    <3> SUFFICES ASSUME SyncEvery > 0, ~Committing' PROVE unsynced + 1 <= c % SyncEvery
      BY <2>1
    <3>1. ~due
      BY <2>1 DEF Committing
    <3>2. c % SyncEvery # 0 /\ ~Committing
      BY <2>1, <2>3, <3>1 DEF Committing
    <3> QED  BY <3>2, CountStep DEF c
  <2> QED  BY <2>1, <2>2, <2>4 DEF WindowInv
<1>6. CASE CommitData \/ CommitSync
  <2>1. UNCHANGED <<sinceSync, unsynced>> /\ pc' \in {"commit_sync", "commit_index"}
    BY <1>6 DEF CommitData, CommitSync, history
  <2> QED  BY <1>1, <2>1 DEF Committing
<1>7. CASE CommitIndex
  <2>1. UNCHANGED sinceSync /\ unsynced' = 0
    BY <1>7 DEF CommitIndex
  <2>2. SyncEvery > 0 => sinceSync % SyncEvery \in Nat
    BY <1>0 DEF WindowInv
  <2> QED  BY <2>1, <2>2 DEF WindowInv
<1>8. CASE IndexSync
  <2>1. CASE LoseMemory
    BY <1>2, <2>1 DEF LoseMemory
  <2>2. CASE ~LoseMemory
    <3>1. UNCHANGED <<sinceSync, unsynced>> /\ pc = "index_sync"
      BY <1>8, <2>2 DEF IndexSync
    <3> QED  BY <1>1, <3>1 DEF Committing
  <2> QED  BY <2>1, <2>2
<1>9. CASE RestoreFlush \/ RestoreSync \/ Open \/ \E id \in DOMAIN upd : RestoreUpdate(id)
  <2>1. UNCHANGED <<sinceSync, unsynced>>
        /\ pc \in {"down", "restore", "restore_flush", "restore_sync"}
    BY <1>9, Zenon DEF RestoreFlush, RestoreSync, Open, RestoreUpdate, history
  <2> QED  BY <1>1, <2>1 DEF Committing
<1>10. CASE Kill \/ PowerLoss
  BY <1>2, <1>10 DEF Kill, PowerLoss, LoseMemory
<1> QED  BY <1>3, <1>4, <1>5, <1>6, <1>7, <1>8, <1>9, <1>10 DEF Next, Continue, Proceed

\* Between calls fewer than SyncEvery operations are uncommitted, for every interval and
\* every width of the counter of after_write.
THEOREM WindowHolds == Spec => []SyncWindow
<1>1. Init => WindowInv
  <2> SUFFICES ASSUME Init PROVE WindowInv
    OBVIOUS
  <2>1. sinceSync = 0 /\ unsynced = 0
    BY DEF Init, NewStore
  <2>2. 0 \in 0 .. CounterMod - 1 /\ (SyncEvery > 0 => 0 % SyncEvery = 0)
    BY AppendAssumption
  <2> QED  BY <2>1, <2>2 DEF WindowInv
<1>2. WindowInv /\ [Next]_vars => WindowInv'
  <2>1. ASSUME WindowInv, UNCHANGED vars PROVE WindowInv'
    BY <2>1 DEF vars, history, WindowInv, Committing
  <2> QED  BY <2>1, StepWindow
<1>3. WindowInv => SyncWindow
  <2> SUFFICES ASSUME WindowInv, pc = "idle", SyncEvery > 0 PROVE unsynced < SyncEvery
    BY DEF SyncWindow
  <2>1. sinceSync % SyncEvery < SyncEvery /\ sinceSync % SyncEvery \in Nat
    BY AppendAssumption DEF WindowInv
  <2>2. unsynced <= sinceSync % SyncEvery /\ unsynced \in Nat
    BY DEF WindowInv, Committing
  <2> QED  BY <2>1, <2>2, AppendAssumption
<1> QED  BY <1>1, <1>2, <1>3, PTL DEF Spec

-----------------------------------------------------------------------------
(* Opening a store. *)

\* Where an open can stand: the data file is created before the index, and once it has
\* its header it keeps it.
OpenInv ==
    /\ stage = "open" <=> pc # "down"
    /\ everUp => dFile = "sound" /\ stage # "failed"
    /\ stage \in {"create_index", "rebuild_header", "rebuild", "rebuild_sync", "open"}
          => dFile = "sound"

\* A store that was open once can be opened again: the only open that fails is one that
\* finds a data file without a header, and then no open has ever succeeded.
THEOREM Reopens == StoreSpec => []StaysOpenable
<1>1. StoreInit => OpenInv
  BY DEF StoreInit, OpenInv
<1>2. OpenInv /\ [StoreNext]_storeVars => OpenInv'
  <2> SUFFICES ASSUME OpenInv, [StoreNext]_storeVars PROVE OpenInv'
    OBVIOUS
  <2>1. CASE Calls
    <3>1. pc # "down"
      BY <2>1, Zenon DEF Calls, Begin, Insert, BeginRead, BeginUpdate, BeginDelete, BeginFlush,
                  Proceed, ReadSlot, ReadRecord, UpdateRecord, SlotFlush, SlotStage, CommitData,
                  CommitSync, CommitIndex, IndexSync, RestoreFlush, RestoreSync, RestoreUpdate
    <3>2. /\ stage' = IF pc' = "down" THEN "closed" ELSE "open"
          /\ UNCHANGED <<dFile, everUp>>
      BY <2>1 DEF Calls
    <3> QED  BY <3>1, <3>2, SMTT(30) DEF OpenInv
  <2>2. CASE CreateData \/ CreateIndex \/ Created
    BY <2>2 DEF CreateData, CreateIndex, Created, OpenInv, vars
  <2>3. CASE OpenFails
    <3>1. dFile # "sound"
      BY <2>3 DEF OpenFails, metadata_is_broken
    <3> QED  BY <2>3, <3>1 DEF OpenFails, OpenInv, vars
  <2>4. CASE OpenAgain \/ BeginRebuild \/ RebuildHeader \/ RebuildSlot \/ RebuildFlush \/ RebuildSync
    BY <2>4 DEF OpenAgain, BeginRebuild, RebuildHeader, RebuildSlot, RebuildFlush, RebuildSync,
                OpenInv, vars, otherVars, opened
  <2>5. CASE OpenFiles
    <3>1. pc' # "down"
      BY <2>5 DEF OpenFiles, Open, AfterRestore
    <3> QED  BY <2>5, <3>1 DEF OpenFiles, OpenInv
  <2>6. CASE KillOpen
    <3>1. pc # "down" /\ pc' = "down"
      BY <2>6 DEF KillOpen, Kill, LoseMemory
    <3> QED  BY <2>6, <3>1 DEF KillOpen, OpenInv
  <2>7. CASE KillOpening
    BY <2>7 DEF KillOpening, OpenInv
  <2>8. CASE LoseIndex \/ \E p \in Cells : Damage(p)
    BY <2>8 DEF LoseIndex, Damage, OpenInv, otherVars
  <2>9. CASE UNCHANGED storeVars
    BY <2>9 DEF storeVars, opened, vars, OpenInv
  <2> QED  BY <2>1, <2>2, <2>3, <2>4, <2>5, <2>6, <2>7, <2>8, <2>9 DEF StoreNext, Opening
<1>3. OpenInv => StaysOpenable
  BY DEF OpenInv, StaysOpenable
<1> QED  BY <1>1, <1>2, <1>3, PTL DEF StoreSpec

-----------------------------------------------------------------------------
(* The type invariant and the allocator. *)

\* What a cell of the data file can hold.
AllCells == {c \in [rec : Record \union {Zero.rec}, k : Nat] : IsCell(c)}

DataPairs == Cells \X AllCells

\* The slots of numbers below next whose records end at most at c, and empty slots.
FreshPairs(next, c) ==
    {x \in Ids \X Slots : x[2].st # "empty" => x[1] < next /\ x[2].off + x[2].len <= c}

\* The slots that are not live, and those that refer to a whole record of their number in
\* the data file d.
WholePairs(d) ==
    {x \in Ids \X Slots :
        x[2].st = "live" => /\ RecordAt(d, x[2].off)
                            /\ d[x[2].off].rec.id = x[1] /\ d[x[2].off].rec.len = x[2].len}

FilesOK ==
    /\ dDisk \in [Cells -> AllCells] /\ dStable \in [Cells -> AllCells]
    /\ iDisk \in [Ids -> Slots] /\ Holds(iDisk, FreshPairs(MaxIds, MaxCell))
    /\ iStable \in [Ids -> Slots] /\ Holds(iStable, FreshPairs(MaxIds, MaxCell))

RunsOK ==
    /\ dRuns \in Seq(Runs(AllCells)) /\ Within(dRuns, DataPairs)
    /\ iRuns \in Seq(Runs(Slots)) /\ Within(iRuns, FreshPairs(nextId, cursor))

\* The placement is ahead of every slot, from the end of the scan of an open on.
PlaceOK ==
    /\ cursor \in DATA_PAGE .. MaxCell /\ nextId \in 0 .. MaxIds
    /\ pc # "down" => Holds(iDisk, FreshPairs(nextId, cursor))

\* The updates an open has left to restore are whole slots behind the placement.
UpdOK ==
    /\ DOMAIN upd \subseteq Ids
    /\ \A id \in DOMAIN upd : <<id, Live(upd[id].off, upd[id].len)>> \in FreshPairs(nextId, cursor)

Calling == {"slot_read", "record_read", "slot_stage"}

\* The arguments of the running call.
CallOK ==
    /\ pc \in Calling => call.id \in Ids
    /\ pc \in {"slot_read", "record_read"} /\ call.kind = "update" => call.len \in Lens
    /\ pc \in Calling /\ call.kind # "read" => ops < MaxOps
    /\ pc = "slot_stage" => call.kind # "read"
    /\ pc \in {"record_read", "slot_stage"} =>
          <<call.id, call.slot>> \in FreshPairs(nextId, cursor) /\ call.slot.st # "empty"
    /\ call \in [kind : {"none", "read", "insert", "update", "delete", "flush", "close"},
                 id : Nat, len : Nat, slot : Slots]

CountOK ==
    /\ sinceSync \in 0 .. CounterMod - 1
    /\ pc \in {"idle", "slot_read", "record_read", "slot_stage", "commit_data",
               "commit_sync", "commit_index", "index_sync", "down", "restore",
               "restore_flush", "restore_sync"}
    /\ restored \in BOOLEAN
    /\ unsynced \in Nat /\ ops \in 0 .. MaxOps /\ unsynced <= ops /\ crashes \in 0 .. MaxCrashes

HInv == FilesOK /\ RunsOK /\ PlaceOK /\ UpdOK /\ CallOK /\ CountOK

\* The numbers of cells and slots.
LEMMA CellNumbers ==
    /\ Cells \subseteq Nat /\ Ids \subseteq Nat /\ DATA_PAGE \in Nat /\ MaxCell \in Nat
    /\ MaxIds \in Nat /\ DATA_PAGE <= MaxCell /\ Lens \subseteq Nat \ {0}
    /\ \A p : p \in Cells <=> p \in Nat /\ p >= DATA_PAGE /\ p < MaxCell
    /\ \A id : id \in Ids <=> id \in Nat /\ id < MaxIds
BY AppendAssumption DEF Cells, Ids

\* A record has at least one cell.
LEMMA LengthsAre == \A n \in Lens : n \in Nat /\ n > 0
<1>1. Lens \subseteq Nat \ {0}
  BY AppendAssumption
<1> QED  BY <1>1

\* A slot that is not empty refers to cells of the file.
LEMMA SlotIs ==
    ASSUME NEW s \in Slots, s.st # "empty"
    PROVE  /\ s.off \in Cells /\ s.len \in Lens /\ s.off \in Nat /\ s.len \in Nat /\ s.len > 0
           /\ s \in [st : {"live", "deleted"}, off : Cells, len : Lens]
<1>1. s # Empty
  BY DEF Empty
<1>2. s \in [st : {"live", "deleted"}, off : Cells, len : Lens]
  BY <1>1 DEF Slots
<1>3. s.off \in Cells /\ s.len \in Lens
  BY <1>2
<1>4. s.off \in Nat
  BY <1>3, AppendAssumption DEF Cells
<1>5. s.len \in Nat /\ s.len > 0
  BY <1>3, LengthsAre
<1> QED  BY <1>2, <1>3, <1>4, <1>5

\* The views are Shown of the files.
LEMMA ViewsAre == dView = Shown(dDisk, dRuns) /\ iView = Shown(iDisk, iRuns)
BY DEF dView, iView, Data!Overlay, Data!End, Index!Overlay, Index!End, Shown

\* More room for the placement, more pairs.
LEMMA FreshMore ==
    ASSUME NEW a \in Nat, NEW b \in Nat, NEW c \in Nat, NEW d \in Nat, a <= b, c <= d
    PROVE  FreshPairs(a, c) \subseteq FreshPairs(b, d)
<1> SUFFICES ASSUME NEW x \in FreshPairs(a, c), x[2].st # "empty"
             PROVE  x[1] < b /\ x[2].off + x[2].len <= d
  BY DEF FreshPairs
<1>1. x \in Ids \X Slots /\ x[1] < a /\ x[2].off + x[2].len <= c
  BY DEF FreshPairs
<1>2. x[1] \in Nat
  BY <1>1, AppendAssumption DEF Ids
<1>3. x[2].off \in Nat /\ x[2].len \in Nat
  BY <1>1, SlotIs
<1> QED  BY <1>1, <1>2, <1>3

\* A larger set of pairs holds what a smaller one does.
LEMMA LargerSet ==
    ASSUME NEW R, NEW Q, R \subseteq Q
    PROVE  /\ \A ws : Within(ws, R) => Within(ws, Q)
           /\ \A f : Holds(f, R) => Holds(f, Q)
BY DEF Within, Holds

\* What a reader sees of the two files.
LEMMA ViewTypes ==
    ASSUME HInv
    PROVE  /\ dView \in [Cells -> AllCells]
           /\ iView \in [Ids -> Slots] /\ Holds(iView, FreshPairs(MaxIds, MaxCell))
           /\ pc # "down" => Holds(iView, FreshPairs(nextId, cursor))
<1>1. /\ cursor \in Nat /\ nextId \in Nat /\ cursor <= MaxCell /\ nextId <= MaxIds
      /\ MaxCell \in Nat /\ MaxIds \in Nat
  BY CellNumbers DEF HInv, PlaceOK
<1>2. FreshPairs(nextId, cursor) \subseteq FreshPairs(MaxIds, MaxCell)
  BY <1>1, FreshMore
<1>3. DOMAIN dDisk = Cells /\ DOMAIN iDisk = Ids /\ Cells \subseteq Nat /\ Ids \subseteq Nat
  BY CellNumbers DEF HInv, FilesOK
<1>4. Holds(dDisk, DataPairs)
  BY DEF HInv, FilesOK, Holds, DataPairs
<1>5. DOMAIN dView = Cells /\ Holds(dView, DataPairs)
  BY <1>3, <1>4, ViewsAre, ShownWithin, Zenon DEF HInv, RunsOK
<1>6. DOMAIN iView = Ids /\ Holds(iView, FreshPairs(MaxIds, MaxCell))
  <2>1. Within(iRuns, FreshPairs(MaxIds, MaxCell))
    BY <1>2, LargerSet, Zenon DEF HInv, RunsOK
  <2> QED  BY <1>3, <2>1, ViewsAre, ShownWithin, Zenon DEF HInv, RunsOK, FilesOK
<1>7. pc # "down" => Holds(iView, FreshPairs(nextId, cursor))
  BY <1>3, ViewsAre, ShownWithin DEF HInv, RunsOK, PlaceOK
<1>8. dView \in [Cells -> AllCells]
  <2>1. dView = [x \in Cells |-> dView[x]]
    BY <1>3 DEF dView, Data!Overlay
  <2>2. \A x \in Cells : dView[x] \in AllCells
    BY <1>5, Zenon DEF Holds, DataPairs
  <2> QED  BY <2>1, <2>2
<1>9. iView \in [Ids -> Slots]
  <2>1. iView = [x \in Ids |-> iView[x]]
    BY <1>3 DEF iView, Index!Overlay
  <2>2. \A x \in Ids : iView[x] \in Slots
    BY <1>6, Zenon DEF Holds, FreshPairs
  <2> QED  BY <2>1, <2>2
<1> QED  BY <1>6, <1>7, <1>8, <1>9

\* A slot that is staged is either appended to the open write or a write of its own.
LEMMA StageSlotIs ==
    ASSUME NEW ws \in Seq(Runs(Slots)), NEW R, Within(ws, R),
           NEW id \in Ids, NEW slot \in Slots, <<id, slot>> \in R
    PROVE  StageSlot(ws, id, slot) \in Seq(Runs(Slots)) /\ Within(StageSlot(ws, id, slot), R)
           /\ StageSlot(ws, id, slot) # <<>>
<1> DEFINE vals == <<slot>>
           o == Index!OpenWrite(ws, id)
<1>1. vals \in Seq(Slots) /\ vals # <<>> /\ Len(vals) = 1 /\ vals[1] = slot /\ id \in Nat
  BY CellNumbers
<1>2. \A k \in 1 .. Len(vals) : id + k - 1 = id /\ vals[k] = slot
  BY <1>1
<1>3. StageSlot(ws, id, slot) = IF Index!CanExtend(ws, id, Len(vals))
                                THEN Index!Extend(ws, id, vals)
                                ELSE Append(ws, [start |-> id, vals |-> vals])
  BY DEF StageSlot, Index!Staged
<1>4. CASE ~Index!CanExtend(ws, id, Len(vals))
  <2>1. \A k \in 1 .. Len(vals) : <<id + k - 1, vals[k]>> \in R
    BY <1>2
  <2> HIDE DEF vals
  <2> QED  BY <1>1, <1>3, <1>4, <2>1, AppendWithin, Zenon
<1>5. CASE Index!CanExtend(ws, id, Len(vals))
  <2> DEFINE I == {i \in 1 .. Len(ws) : Index!End(ws[i]) = id}
  <2>1. o > 0
    BY <1>5 DEF Index!CanExtend
  <2>2. o = IF I # {} THEN Index!Min(I) ELSE 0
    BY DEF Index!OpenWrite, Index!SelectInSeq
  <2>3. I # {} /\ I \subseteq Nat
    BY <2>1, <2>2
  <2>4. o \in I
    <3> HIDE DEF I, o
    <3>1. \E x \in I : \A y \in I : x =< y
      BY <2>3, LeastNat, Zenon
    <3>2. Index!Min(I) \in I
      BY <3>1, Zenon DEF Index!Min
    <3> QED  BY <2>2, <2>3, <3>2
  <2>5. o \in DOMAIN ws /\ Index!End(ws[o]) = id
    BY <2>4
  <2> HIDE DEF o, I
  <2>6. ws[o].start + Len(ws[o].vals) = id
    BY <2>5 DEF Index!End
  <2>7. \A k \in 1 .. Len(vals) : <<ws[o].start + Len(ws[o].vals) + k - 1, vals[k]>> \in R
    BY <1>2, <2>6
  <2>8. StageSlot(ws, id, slot) = [ws EXCEPT ![o].vals = @ \o vals]
    BY <1>3, <1>5 DEF Index!Extend, o
  <2>9. [ws EXCEPT ![o].vals = @ \o vals] \in Seq(Runs(Slots))
        /\ [ws EXCEPT ![o].vals = @ \o vals] # <<>>
        /\ Within([ws EXCEPT ![o].vals = @ \o vals], R)
    <3> HIDE DEF vals
    <3> QED  BY <1>1, <2>5, <2>7, GrowWithin, Zenon
  <2> QED  BY <2>8, <2>9
<1> QED  BY <1>4, <1>5

\* The cells of a record.
LEMMA CellsAre ==
    ASSUME NEW r \in Record, NEW off \in Nat, off >= DATA_PAGE, off + r.len <= MaxCell
    PROVE  /\ CellsOf(r) \in Seq(AllCells) /\ CellsOf(r) # <<>> /\ Len(CellsOf(r)) = r.len
           /\ r.len \in Nat /\ r.len > 0
           /\ \A k \in 1 .. Len(CellsOf(r)) : /\ CellsOf(r)[k] = [rec |-> r, k |-> k]
                                              /\ <<off + k - 1, CellsOf(r)[k]>> \in DataPairs
<1>1. r.len \in Nat /\ r.len > 0
  BY LengthsAre DEF Record
<1>2. ASSUME NEW k \in 1 .. r.len PROVE [rec |-> r, k |-> k] \in AllCells
  BY <1>1 DEF AllCells, IsCell
<1>3. CellsOf(r) \in Seq(AllCells) /\ Len(CellsOf(r)) = r.len /\ CellsOf(r) # <<>>
      /\ \A k \in 1 .. r.len : CellsOf(r)[k] = [rec |-> r, k |-> k]
  BY <1>1, <1>2 DEF CellsOf
<1>4. ASSUME NEW k \in 1 .. r.len PROVE off + k - 1 \in Cells
  BY <1>1, CellNumbers
<1> QED  BY <1>1, <1>2, <1>3, <1>4 DEF DataPairs

\* A record that is staged is either appended to the open write or a write of its own.
LEMMA StageRecordIs ==
    ASSUME NEW ws \in Seq(Runs(AllCells)), NEW R, Within(ws, R), NEW r \in Record,
           NEW off \in Nat, off >= DATA_PAGE, off + r.len <= MaxCell,
           \A k \in 1 .. r.len : <<off + k - 1, CellsOf(r)[k]>> \in R
    PROVE  Data!Staged(ws, off, CellsOf(r)) \in Seq(Runs(AllCells))
           /\ Within(Data!Staged(ws, off, CellsOf(r)), R)
<1> DEFINE vals == CellsOf(r)
           o == Data!OpenWrite(ws, off)
           new == Data!Staged(ws, off, vals)
<1>1. vals \in Seq(AllCells) /\ vals # <<>> /\ Len(vals) = r.len /\ r.len \in Nat /\ r.len > 0
  BY CellsAre
<1>3. new = IF Data!CanExtend(ws, off, Len(vals)) THEN Data!Extend(ws, off, vals)
            ELSE Append(ws, [start |-> off, vals |-> vals])
  BY DEF Data!Staged
<1>4. CASE ~Data!CanExtend(ws, off, Len(vals))
  <2> HIDE DEF vals, new
  <2> QED  BY <1>1, <1>3, <1>4, AppendWithin, Zenon DEF new, vals
<1>5. CASE Data!CanExtend(ws, off, Len(vals))
  <2> DEFINE I == {i \in 1 .. Len(ws) : Data!End(ws[i]) = off}
  <2>1. o > 0
    BY <1>5 DEF Data!CanExtend
  <2>2. o = IF I # {} THEN Data!Min(I) ELSE 0
    BY DEF Data!OpenWrite, Data!SelectInSeq
  <2>3. I # {} /\ I \subseteq Nat
    BY <2>1, <2>2
  <2>4. o \in I
    <3> HIDE DEF I, o
    <3>1. \E x \in I : \A y \in I : x =< y
      BY <2>3, LeastNat, Zenon
    <3>2. Data!Min(I) \in I
      BY <3>1, Zenon DEF Data!Min
    <3> QED  BY <2>2, <2>3, <3>2
  <2>5. o \in DOMAIN ws /\ Data!End(ws[o]) = off
    BY <2>4
  <2> HIDE DEF o, I
  <2>6. ws[o].start + Len(ws[o].vals) = off
    BY <2>5 DEF Data!End
  <2>7. \A k \in 1 .. Len(vals) : <<ws[o].start + Len(ws[o].vals) + k - 1, vals[k]>> \in R
    BY <1>1, <2>6
  <2>8. new = [ws EXCEPT ![o].vals = @ \o vals]
    BY <1>3, <1>5 DEF Data!Extend, o
  <2> HIDE DEF vals, new
  <2>9. new \in Seq(Runs(AllCells)) /\ Within(new, R)
    BY <1>1, <2>5, <2>7, <2>8, GrowWithin, Zenon
  <2> QED  BY <2>9 DEF new, vals
<1> QED  BY <1>4, <1>5

-----------------------------------------------------------------------------
(* Recovery: the scan of the index and the walk behind it. *)

\* The data file is one the walk can go over, and its headers are those of records.
LEMMA HeadersAre ==
    ASSUME NEW d \in [Cells -> AllCells]
    PROVE  /\ DataFile(d, Cells)
           /\ \A p : HeaderAt(d, p) => /\ p \in Cells /\ p \in Nat /\ d[p].rec \in Record
                                      /\ d[p].rec.id \in Ids /\ d[p].rec.len \in Lens
                                      /\ d[p].rec.id \in Nat /\ d[p].rec.ver \in Nat
                                      /\ d[p].rec.len \in Nat /\ d[p].rec.len > 0
<1>1. Zero.k = 0 /\ Zero.rec = [id |-> 0, ver |-> 0, len |-> 0, tag |-> 0]
  BY DEF Zero
<1>2. ASSUME NEW r \in Record
      PROVE  /\ r \in [id : Nat, ver : Nat, len : Nat, tag : Nat] /\ r.len > 0
             /\ r.id \in Ids /\ r.len \in Lens
  <2>1. r \in [id : Ids, ver : 0 .. VersionMod - 1, len : Lens, tag : 1 .. MaxOps]
    BY DEF Record
  <2>2. r.id \in Nat /\ r.ver \in Nat /\ r.tag \in Nat
    BY <2>1, AppendAssumption DEF Ids
  <2>3. r.len \in Nat /\ r.len > 0
    BY <2>1, LengthsAre
  <2> QED  BY <2>1, <2>2, <2>3
<1>3. ASSUME NEW c \in AllCells
      PROVE  /\ c \in [rec : [id : Nat, ver : Nat, len : Nat, tag : Nat], k : Nat]
             /\ c.k # 0 => c.rec \in Record
  <2>1. Zero.rec \in [id : Nat, ver : Nat, len : Nat, tag : Nat]
    BY <1>1
  <2>2. c \in [rec : Record \union {Zero.rec}, k : Nat] /\ IsCell(c)
    BY DEF AllCells
  <2>3. c.rec \in [id : Nat, ver : Nat, len : Nat, tag : Nat]
    BY <1>2, <2>1, <2>2
  <2>4. c.k # 0 => c.rec \in Record
    BY <1>1, <2>2 DEF IsCell
  <2> QED  BY <2>2, <2>3, <2>4
<1>4. DataFile(d, Cells)
  BY <1>2, <1>3 DEF DataFile
<1>5. ASSUME NEW p, HeaderAt(d, p) PROVE p \in Cells /\ p \in Nat /\ d[p].rec \in Record
  <2>1. p \in Cells /\ d[p].k = 1 /\ d[p] \in AllCells
    BY <1>5 DEF HeaderAt
  <2> QED  BY <1>3, <2>1, CellNumbers
<1> QED  BY <1>2, <1>4, <1>5

\* The outcomes of the scan: numbers and cells behind everything the index refers to.
LEMMA ScanIs ==
    ASSUME FilesOK
    PROVE  /\ ScanNextId \in 0 .. MaxIds /\ ScanEnd \in DATA_PAGE .. MaxCell
           /\ Holds(iDisk, FreshPairs(ScanNextId, ScanEnd))
<1> DEFINE Ends == {iDisk[id].off + iDisk[id].len : id \in Used}
           E == {DATA_PAGE} \union Ends
<1>1. ASSUME NEW id \in Used
      PROVE  /\ id \in Ids /\ iDisk[id] \in Slots /\ iDisk[id].st # "empty"
             /\ iDisk[id].off + iDisk[id].len \in DATA_PAGE .. MaxCell
  <2>1. id \in Ids /\ iDisk[id] \in Slots /\ iDisk[id].st # "empty"
    BY DEF Used, FilesOK
  <2>2. <<id, iDisk[id]>> \in FreshPairs(MaxIds, MaxCell)
    BY <2>1 DEF FilesOK, Holds
  <2>3. iDisk[id].off + iDisk[id].len <= MaxCell
    BY <2>1, <2>2 DEF FreshPairs
  <2>4. iDisk[id].off \in Nat /\ iDisk[id].off >= DATA_PAGE /\ iDisk[id].len \in Nat
    BY <2>1, SlotIs, CellNumbers
  <2> QED  BY <2>1, <2>3, <2>4, CellNumbers
<1>2. E \subseteq DATA_PAGE .. MaxCell /\ E # {}
  BY <1>1, CellNumbers
<1>3. E \subseteq 0 .. MaxCell
  BY <1>2, CellNumbers
<1>4. ScanEnd = Max(E)
  BY DEF ScanEnd
<1> HIDE DEF E
<1>5. ScanEnd \in E /\ \A y \in E : y <= ScanEnd
  BY <1>2, <1>3, <1>4, MaxIsGreatest, CellNumbers, Zenon
<1>6. ScanEnd \in DATA_PAGE .. MaxCell
  BY <1>2, <1>5
<1>7. ScanNextId \in 0 .. MaxIds /\ \A id \in Used : id < ScanNextId
  <2>1. CASE Used = {}
    BY <2>1, CellNumbers DEF ScanNextId
  <2>2. CASE Used # {}
    <3>1. Used \subseteq 0 .. MaxIds
      BY <1>1, CellNumbers
    <3>2. Max(Used) \in Used /\ \A y \in Used : y <= Max(Used)
      BY <2>2, <3>1, MaxIsGreatest, CellNumbers, Zenon
    <3>3. Max(Used) \in Nat /\ Max(Used) < MaxIds
      BY <1>1, <3>2, CellNumbers
    <3>4. \A id \in Used : id \in Nat
      BY <1>1, CellNumbers
    <3>5. ScanNextId = Max(Used) + 1
      BY <2>2 DEF ScanNextId
    <3> QED  BY <3>2, <3>3, <3>4, <3>5, CellNumbers
  <2> QED  BY <2>1, <2>2
<1>8. Holds(iDisk, FreshPairs(ScanNextId, ScanEnd))
  <2> SUFFICES ASSUME NEW id \in Ids PROVE <<id, iDisk[id]>> \in FreshPairs(ScanNextId, ScanEnd)
    BY DEF Holds, FilesOK
  <2>1. iDisk[id] \in Slots
    BY DEF FilesOK
  <2>2. ASSUME iDisk[id].st # "empty"
        PROVE  id < ScanNextId /\ iDisk[id].off + iDisk[id].len <= ScanEnd
    <3>1. id \in Used
      BY <2>2 DEF Used
    <3>2. iDisk[id].off + iDisk[id].len \in E
      BY <3>1 DEF E
    <3> QED  BY <1>5, <1>7, <3>1, <3>2
  <2> QED  BY <2>1, <2>2 DEF FreshPairs
<1> QED  BY <1>6, <1>7, <1>8

\* What the restore has gathered: the next number, staged slots and updates, all of whole
\* records within the part of the data file that ends at c.
Gathered(lo, c) ==
    {a \in [next : 0 .. MaxIds, runs : Seq(Runs(Slots)),
            upd : UNION {[D -> [off : Nat, ver : Nat, len : Nat]] : D \in SUBSET Ids},
            gap : BOOLEAN] :
        /\ a.next >= lo
        /\ Within(a.runs, FreshPairs(a.next, c))
        /\ Within(a.runs, WholePairs(dDisk))
        /\ \A id \in DOMAIN a.upd :
              <<id, Live(a.upd[id].off, a.upd[id].len)>> \in FreshPairs(a.next, c) \intersect WholePairs(dDisk)}

\* One record more keeps it so.
LEMMA GatherStep ==
    ASSUME dDisk \in [Cells -> AllCells], NEW lo \in Nat, NEW c \in Nat, c <= MaxCell,
           NEW acc \in Gathered(lo, c),
           NEW p, RecordAt(dDisk, p), p + dDisk[p].rec.len <= c
    PROVE  FoldTail(acc, p) \in Gathered(lo, c)
<1> DEFINE r == dDisk[p].rec
           live == Live(p, r.len)
<1>1. /\ p \in Cells /\ p \in Nat /\ r.id \in Ids /\ r.len \in Lens /\ r.id \in Nat
      /\ r.ver \in Nat /\ r.len \in Nat /\ r.len > 0
  BY HeadersAre DEF RecordAt
<1>2. live \in Slots /\ live.st = "live" /\ live.off = p /\ live.len = r.len
  BY <1>1 DEF Live, Slots
<1>3. /\ acc.next \in Nat /\ acc.next <= MaxIds /\ MaxIds \in Nat /\ acc.next \in 0 .. MaxIds
      /\ acc.next >= lo
  BY CellNumbers DEF Gathered
<1>4. ASSUME NEW m \in Nat, r.id < m PROVE <<r.id, live>> \in FreshPairs(m, c)
  BY <1>1, <1>2, <1>4 DEF FreshPairs
<1>8. <<r.id, live>> \in WholePairs(dDisk)
  BY <1>1, <1>2 DEF WholePairs
<1> HIDE DEF live
<1>5. CASE acc.gap \/ r.id > acc.next
  <2>1. FoldTail(acc, p) = [acc EXCEPT !.gap = TRUE]
    BY <1>5 DEF FoldTail
  <2> QED  BY <2>1, Zenon DEF Gathered
<1>6. CASE ~acc.gap /\ r.id = acc.next
  <2> DEFINE m == acc.next + 1
             runs == StageSlot(acc.runs, r.id, live)
  <2>1. FoldTail(acc, p) = [acc EXCEPT !.next = m, !.runs = runs]
    BY <1>1, <1>3, <1>6 DEF FoldTail, live
  <2>2. m \in 0 .. MaxIds /\ m \in Nat /\ acc.next <= m /\ r.id < m /\ m >= lo
    BY <1>1, <1>3, <1>6, CellNumbers
  <2>3. FreshPairs(acc.next, c) \subseteq FreshPairs(m, c)
    BY <1>3, <2>2, FreshMore
  <2>4. <<r.id, live>> \in FreshPairs(m, c)
    BY <1>4, <2>2
  <2>5. acc.runs \in Seq(Runs(Slots)) /\ Within(acc.runs, FreshPairs(m, c))
    BY <2>3, LargerSet, Zenon DEF Gathered
  <2>6. runs \in Seq(Runs(Slots)) /\ Within(runs, FreshPairs(m, c))
    BY <1>1, <1>2, <2>4, <2>5, StageSlotIs, Zenon
  <2>10. Within(runs, WholePairs(dDisk))
    <3>1. Within(acc.runs, WholePairs(dDisk))
      BY DEF Gathered
    <3> QED  BY <1>1, <1>2, <1>8, <2>5, <3>1, StageSlotIs
  <2> HIDE DEF m, runs
  <2> DEFINE new == [acc EXCEPT !.next = m, !.runs = runs]
  <2>7. /\ new.next = m /\ new.runs = runs /\ new.upd = acc.upd /\ new.gap = acc.gap
        /\ new \in [next : 0 .. MaxIds, runs : Seq(Runs(Slots)),
                    upd : UNION {[D -> [off : Nat, ver : Nat, len : Nat]] : D \in SUBSET Ids},
                    gap : BOOLEAN]
    BY <2>2, <2>6, Zenon DEF Gathered
  <2>8. \A id \in DOMAIN acc.upd :
           <<id, Live(acc.upd[id].off, acc.upd[id].len)>> \in FreshPairs(m, c) \intersect WholePairs(dDisk)
    BY <2>3 DEF Gathered
  <2> HIDE DEF new
  <2>9. new \in Gathered(lo, c)
    BY <2>2, <2>6, <2>7, <2>8, <2>10 DEF Gathered
  <2> QED  BY <2>1, <2>9 DEF new
<1>7. CASE ~acc.gap /\ ~(r.id > acc.next) /\ r.id # acc.next
  <2> DEFINE u == Newest(dDisk, acc.upd, p)
             U == UNION {[D -> [off : Nat, ver : Nat, len : Nat]] : D \in SUBSET Ids}
             entry == [off |-> p, ver |-> r.ver, len |-> r.len]
  <2>1. FoldTail(acc, p) = [acc EXCEPT !.upd = u]
    BY <1>7 DEF FoldTail
  <2>2. r.id < acc.next
    BY <1>1, <1>3, <1>7
  <2>3. acc.upd \in U
    BY DEF Gathered
  <2>4. PICK D \in SUBSET Ids : acc.upd \in [D -> [off : Nat, ver : Nat, len : Nat]]
    BY <2>3, Zenon
  <2>5. u = acc.upd \/ u = [id \in D \union {r.id} |-> IF id = r.id THEN entry ELSE acc.upd[id]]
    BY <2>4 DEF Newest
  <2>6. entry \in [off : Nat, ver : Nat, len : Nat] /\ entry.off = p /\ entry.len = r.len
    BY <1>1
  <2> HIDE DEF entry, u
  <2>7. u \in U
    <3>1. CASE u = acc.upd
      BY <2>3, <3>1
    <3>2. CASE u = [id \in D \union {r.id} |-> IF id = r.id THEN entry ELSE acc.upd[id]]
      <4>1. D \union {r.id} \in SUBSET Ids
        BY <1>1
      <4>2. u \in [D \union {r.id} -> [off : Nat, ver : Nat, len : Nat]]
        BY <2>4, <2>6, <3>2
      <4> QED  BY <4>1, <4>2
    <3> QED  BY <2>5, <3>1, <3>2
  <2> HIDE DEF U
  <2>8. ASSUME NEW id \in DOMAIN u
        PROVE  <<id, Live(u[id].off, u[id].len)>> \in FreshPairs(acc.next, c) \intersect WholePairs(dDisk)
    <3>1. CASE id \in DOMAIN acc.upd /\ u[id] = acc.upd[id]
      BY <3>1 DEF Gathered
    <3>2. CASE id = r.id /\ u[id] = entry
      BY <1>3, <1>4, <1>8, <2>2, <2>6, <3>2 DEF live
    <3> QED  BY <2>4, <2>5, <3>1, <3>2
  <2> DEFINE new == [acc EXCEPT !.upd = u]
  <2>9. /\ new.next = acc.next /\ new.runs = acc.runs /\ new.upd = u
        /\ new \in [next : 0 .. MaxIds, runs : Seq(Runs(Slots)), upd : U, gap : BOOLEAN]
    BY <2>7, Zenon DEF Gathered, U
  <2> HIDE DEF new
  <2>10. new \in Gathered(lo, c)
    BY <1>3, <2>8, <2>9 DEF Gathered, U
  <2> QED  BY <2>1, <2>10 DEF new
<1> QED  BY <1>5, <1>6, <1>7

\* The restore from all of the records a walk found.
LEMMA GatherAll ==
    ASSUME dDisk \in [Cells -> AllCells], NEW lo \in Nat, NEW c \in Nat, c <= MaxCell,
           NEW base \in Gathered(lo, c),
           NEW found \in Seq(Nat),
           \A i \in 1 .. Len(found) : RecordAt(dDisk, found[i])
                                      /\ found[i] + dDisk[found[i]].rec.len <= c
    PROVE  FoldLeft(FoldTail, base, found) \in Gathered(lo, c)
<1> DEFINE n == Len(found)
           V == Gathered(lo, c)
           step == [k \in 1 .. n |-> [v \in V |-> FoldTail(v, found[k])]]
           Eq(it) == it = [s \in SUBSET (1 .. n) |->
                              IF s = {} THEN base ELSE FoldTail(it[s \ {Max(s)}], found[Max(s)])]
           it == CHOOSE it : Eq(it)
<1>1. n \in Nat /\ DOMAIN found = 1 .. n
  OBVIOUS
<1>2. FoldLeft(FoldTail, base, found) = it[1 .. n]
  BY <1>1, Zenon DEF FoldLeft, MapThenFoldSet
<1>3. ASSUME NEW k \in 1 .. n, NEW v \in V PROVE FoldTail(v, found[k]) \in V
  BY GatherStep, Zenon
<1>4. step \in [1 .. n -> [V -> V]]
  <2> HIDE DEF V
  <2> QED  BY <1>3
<1> HIDE DEF V
<1>5. \E g : Eq(g)
  <2>1. PICK g \in [SUBSET (1 .. n) -> V] : IsFold(g, n, base, step)
    <3>1. base \in V
      BY DEF V
    <3> HIDE DEF step
    <3> QED  BY <1>1, <1>4, <3>1, FoldExists, Zenon
  <2>2. ASSUME NEW s \in SUBSET (1 .. n), s # {}
        PROVE  step[Max(s)][g[s \ {Max(s)}]] = FoldTail(g[s \ {Max(s)}], found[Max(s)])
    <3>0. s \subseteq 0 .. n
      OBVIOUS
    <3>1. Max(s) \in 1 .. n
      BY <1>1, <2>2, <3>0, MaxIsGreatest, Zenon
    <3>2. g[s \ {Max(s)}] \in V
      BY Zenon
    <3> QED  BY <3>1, <3>2
  <2> HIDE DEF step
  <2>3. Eq(g)
    BY <2>1, <2>2, Zenon DEF IsFold
  <2> QED  BY <2>3, Zenon
<1>6. Eq(it)
  <2> HIDE DEF Eq
  <2> QED  BY <1>5, Zenon
<1> HIDE DEF it
<1> DEFINE S == {k \in Nat : k <= n => it[1 .. k] \in V}
<1>7. 0 \in S
  <2>1. 1 .. 0 = {}
    OBVIOUS
  <2>2. it[{}] = base
    BY <1>6
  <2> QED  BY <2>1, <2>2 DEF V
<1>8. ASSUME NEW k \in Nat, k \in S PROVE k + 1 \in S
  <2> SUFFICES ASSUME k + 1 <= n PROVE it[1 .. k + 1] \in V
    OBVIOUS
  <2> DEFINE m == k + 1
  <2>1. it[1 .. k] \in V /\ m \in 1 .. n /\ m \in Nat \ {0} /\ m - 1 = k
    BY <1>8
  <2>2. Max(1 .. m) = m /\ (1 .. m) \ {m} = 1 .. k
    <3> HIDE DEF m
    <3> QED  BY <2>1, MaxOfPrefix
  <2>3. 1 .. m \in SUBSET (1 .. n) /\ 1 .. m # {}
    <3>1. 1 \in 1 .. m /\ \A j \in 1 .. m : j \in 1 .. n
      BY <1>1, <2>1
    <3> QED  BY <3>1
  <2>4. it[1 .. m] = FoldTail(it[1 .. k], found[m])
    <3> HIDE DEF m
    <3> QED  BY <1>6, <2>2, <2>3, Zenon
  <2> QED  BY <1>3, <2>1, <2>4
<1>9. n \in S
  <2> HIDE DEF S
  <2> QED  BY <1>1, <1>7, <1>8, SetInduction, Zenon
<1> QED  BY <1>1, <1>2, <1>9 DEF V

\* An open leaves the placement ahead of every slot, in the file or restored.
LEMMA OpenStep ==
    ASSUME HInv, Open
    PROVE  /\ HInv'
           /\ Within(iRuns', WholePairs(dDisk))
           /\ \A id \in DOMAIN upd' : <<id, Live(upd'[id].off, upd'[id].len)>> \in WholePairs(dDisk)
<1> DEFINE found == Walk(dDisk, ScanEnd, MaxCell)
           base == [next |-> ScanNextId, runs |-> <<>>, upd |-> <<>>, gap |-> FALSE]
           tail == FoldLeft(FoldTail, base, found)
           c == IF found = <<>> THEN ScanEnd ELSE Last(found) + dDisk[Last(found)].rec.len
           U == UNION {[D -> [off : Nat, ver : Nat, len : Nat]] : D \in SUBSET Ids}
           lo == ScanNextId
<1>1. /\ ScanNextId \in 0 .. MaxIds /\ ScanEnd \in DATA_PAGE .. MaxCell
      /\ Holds(iDisk, FreshPairs(ScanNextId, ScanEnd)) /\ dDisk \in [Cells -> AllCells]
  BY ScanIs DEF HInv, FilesOK
<1>2. FoundFrom(dDisk, ScanEnd, MaxCell, found)
  <2>1. /\ ScanEnd \in Nat /\ MaxCell \in Nat /\ ScanEnd <= MaxCell
        /\ Cells \subseteq Nat /\ DataFile(dDisk, Cells)
    BY <1>1, HeadersAre, CellNumbers
  <2> QED  BY <2>1, WalkFinds, Zenon
<1> HIDE DEF found
<1>3. /\ found \in Seq(Nat) /\ c \in DATA_PAGE .. MaxCell /\ c \in Nat /\ ScanEnd <= c
      /\ \A i \in 1 .. Len(found) : RecordAt(dDisk, found[i])
                                    /\ found[i] + dDisk[found[i]].rec.len <= c
  <2>1. found \in Seq(Nat)
    BY <1>2 DEF FoundFrom
  <2>2. CASE found = <<>>
    <3>1. c = ScanEnd /\ 1 .. Len(found) = {}
      BY <2>2
    <3> QED  BY <1>1, <2>1, <3>1, CellNumbers
  <2>3. CASE found # <<>>
    <3> DEFINE n == Len(found)
               last == found[n]
    <3>1. n \in 1 .. n /\ Last(found) = last
      BY <2>1, <2>3 DEF Last
    <3>2. c = last + dDisk[last].rec.len
      BY <2>3, <3>1
    <3>3. last >= ScanEnd /\ RecordAt(dDisk, last) /\ last + dDisk[last].rec.len <= MaxCell
      BY <1>2, <3>1 DEF FoundFrom
    <3>4. last \in Nat /\ dDisk[last].rec.len \in Nat
      BY <1>1, <3>3, HeadersAre DEF RecordAt
    <3>5. \A i \in 1 .. Len(found) : RecordAt(dDisk, found[i])
                                     /\ found[i] + dDisk[found[i]].rec.len <= c
      BY <1>2, <3>2 DEF FoundFrom
    <3>6. c \in Nat /\ ScanEnd <= c /\ c <= MaxCell
      <4> DEFINE len == dDisk[last].rec.len
      <4>1. /\ c = last + len /\ last \in Nat /\ len \in Nat /\ last >= ScanEnd
            /\ last + len <= MaxCell
        BY <3>2, <3>3, <3>4
      <4>2. ScanEnd \in Nat /\ MaxCell \in Nat
        BY <1>1, CellNumbers
      <4> HIDE DEF last, len
      <4> QED  BY <4>1, <4>2
    <3> QED  BY <1>1, <2>1, <3>5, <3>6, CellNumbers
  <2> QED  BY <2>2, <2>3
<1> HIDE DEF c
<1>4. base \in Gathered(lo, c)
  <2>1. <<>> \in [{} -> [off : Nat, ver : Nat, len : Nat]] /\ DOMAIN <<>> = {}
    OBVIOUS
  <2>2. <<>> \in U
    BY <2>1, Zenon
  <2>3. <<>> \in Seq(Runs(Slots)) /\ \A R : Within(<<>>, R)
    BY DEF Within
  <2>4. /\ base.next = ScanNextId /\ base.runs = <<>> /\ base.upd = <<>>
        /\ base \in [next : 0 .. MaxIds, runs : Seq(Runs(Slots)), upd : U, gap : BOOLEAN]
    BY <1>1, <2>2, <2>3, Zenon
  <2> HIDE DEF base
  <2> QED  BY <2>1, <2>3, <2>4 DEF Gathered
<1>5. tail \in Gathered(lo, c)
  <2> HIDE DEF base
  <2> QED  BY <1>1, <1>3, <1>4, GatherAll, CellNumbers
<1>6. /\ pc = "down" /\ cursor' = c /\ nextId' = tail.next /\ iRuns' = tail.runs
      /\ upd' = tail.upd /\ restored' \in BOOLEAN
      /\ pc' \in {"restore", "restore_flush", "idle"}
      /\ UNCHANGED <<files, dRuns, sinceSync, call, unsynced, ops, crashes>>
  BY DEF Open, AfterRestore, found, base, c
<1> HIDE DEF tail
<1>7. RunsOK' /\ PlaceOK'
  <2>1. tail.next \in 0 .. MaxIds /\ tail.next \in Nat /\ ScanNextId <= tail.next
    BY <1>5 DEF Gathered
  <2>2. FreshPairs(ScanNextId, ScanEnd) \subseteq FreshPairs(tail.next, c)
    BY <1>1, <1>3, <2>1, FreshMore, CellNumbers
  <2>3. Holds(iDisk, FreshPairs(tail.next, c))
    BY <1>1, <2>2, LargerSet
  <2>4. PlaceOK'
    BY <1>3, <1>6, <2>1, <2>3 DEF PlaceOK, files
  <2>5. RunsOK'
    BY <1>5, <1>6 DEF RunsOK, Gathered, HInv
  <2> QED  BY <2>4, <2>5
<1>8. UpdOK'
  BY <1>5, <1>6 DEF Gathered, UpdOK
<1>9. FilesOK' /\ CallOK' /\ CountOK'
  BY <1>6 DEF HInv, FilesOK, files, CallOK, CountOK, Calling
<1>10. /\ Within(iRuns', WholePairs(dDisk))
       /\ \A id \in DOMAIN upd' : <<id, Live(upd'[id].off, upd'[id].len)>> \in WholePairs(dDisk)
  BY <1>5, <1>6 DEF Gathered
<1> QED  BY <1>7, <1>8, <1>9, <1>10 DEF HInv

-----------------------------------------------------------------------------
(* The other steps. *)

\* A flush of a file, and the empty staged writes it leaves.
LEMMA EmptyRuns == /\ \A V : <<>> \in Seq(Runs(V))
                   /\ \A R : Within(<<>>, R)
BY DEF Within

\* An insert takes the next number and the cells behind everything.
LEMMA InsertStep ==
    ASSUME HInv, NEW len \in Lens, Insert(len)
    PROVE  HInv'
<1> DEFINE r == [id |-> nextId, ver |-> 1 % VersionMod, len |-> len, tag |-> ops + 1]
           slot == Live(cursor, len)
<1>1. /\ pc = "idle" /\ ops < MaxOps /\ cursor + len <= MaxCell /\ cursor' = cursor + len
      /\ nextId < MaxIds /\ nextId' = nextId + 1
      /\ dRuns' = Data!Staged(dRuns, cursor, CellsOf(r))
      /\ call' = [kind |-> "insert", id |-> nextId, len |-> len, slot |-> slot]
      /\ pc' = "slot_stage"
      /\ UNCHANGED <<files, iRuns, sinceSync, opening, history>>
  BY DEF Insert, Alloc, AllocUpdate
<1>2. /\ cursor \in Nat /\ cursor >= DATA_PAGE /\ nextId \in Nat /\ nextId \in Ids
      /\ len \in Nat /\ len > 0 /\ ops \in Nat /\ MaxCell \in Nat /\ MaxIds \in Nat
      /\ MaxOps \in Nat /\ DATA_PAGE \in Nat
  BY <1>1, LengthsAre, AppendAssumption DEF HInv, PlaceOK, CountOK, Ids
<1>3. r \in Record /\ r.len = len
  <2>1. 1 % VersionMod \in 0 .. VersionMod - 1
    BY AppendAssumption
  <2>2. ops + 1 \in 1 .. MaxOps
    BY <1>1, <1>2
  <2> QED  BY <1>2, <2>1, <2>2 DEF Record
<1> HIDE DEF r
<1>4. dRuns' \in Seq(Runs(AllCells)) /\ Within(dRuns', DataPairs)
  <2>1. \A k \in 1 .. r.len : <<cursor + k - 1, CellsOf(r)[k]>> \in DataPairs
    BY <1>1, <1>2, <1>3, CellsAre, Zenon
  <2> QED  BY <1>1, <1>2, <1>3, <2>1, StageRecordIs, Zenon DEF HInv, RunsOK
<1>5. FreshPairs(nextId, cursor) \subseteq FreshPairs(nextId', cursor')
  <2>1. nextId' \in Nat /\ cursor' \in Nat /\ nextId <= nextId' /\ cursor <= cursor'
    BY <1>1, <1>2
  <2> QED  BY <1>2, <2>1, FreshMore
<1>6. /\ slot \in Slots /\ slot.st = "live" /\ <<nextId, slot>> \in FreshPairs(nextId', cursor')
  <2>1. cursor \in Cells
    BY <1>1, <1>2 DEF Cells
  <2>2. slot \in Slots /\ slot.st = "live" /\ slot.off = cursor /\ slot.len = len
    BY <2>1 DEF Live, Slots
  <2>3. nextId < nextId' /\ cursor + len <= cursor'
    BY <1>1, <1>2
  <2> QED  BY <1>2, <2>2, <2>3 DEF FreshPairs
<1> HIDE DEF slot
<1>7. RunsOK'
  BY <1>1, <1>4, <1>5, LargerSet, Zenon DEF HInv, RunsOK
<1>8. PlaceOK'
  <2>1. Holds(iDisk, FreshPairs(nextId', cursor'))
    BY <1>1, <1>5, LargerSet DEF HInv, PlaceOK
  <2>2. cursor' \in DATA_PAGE .. MaxCell /\ nextId' \in 0 .. MaxIds
    BY <1>1, <1>2
  <2> QED  BY <1>1, <2>1, <2>2 DEF PlaceOK, files
<1>9. UpdOK'
  BY <1>1, <1>5 DEF HInv, UpdOK, opening
<1>10. CallOK'
  <2>1. /\ call'.id = nextId /\ call'.kind = "insert" /\ call'.slot = slot
        /\ call' \in [kind : {"none", "read", "insert", "update", "delete", "flush", "close"},
                      id : Nat, len : Nat, slot : Slots]
    BY <1>1, <1>2, <1>6
  <2> QED  BY <1>1, <1>2, <1>6, <2>1 DEF CallOK, Calling, history
<1>11. FilesOK' /\ CountOK'
  BY <1>1 DEF HInv, FilesOK, files, CountOK, opening, history
<1> QED  BY <1>7, <1>8, <1>9, <1>10, <1>11 DEF HInv

\* read, update, delete, flush and close begin.
LEMMA BeginStep ==
    ASSUME HInv, \/ \E id \in Ids : BeginRead(id) \/ BeginDelete(id)
                 \/ \E id \in Ids, len \in Lens : BeginUpdate(id, len)
                 \/ \E kind \in {"flush", "close"} : BeginFlush(kind)
    PROVE  HInv'
<1>1. Empty \in Slots
  BY DEF Slots
<1>2. PICK kind \in {"read", "update", "delete", "flush", "close"}, id \in Ids \union {0},
            len \in Lens \union {0} :
      /\ call' = [kind |-> kind, id |-> id, len |-> len, slot |-> Empty]
      /\ pc = "idle" /\ pc' = IF kind \in {"flush", "close"} THEN "commit_data" ELSE "slot_read"
      /\ kind \in {"update", "delete"} => ops < MaxOps
      /\ kind = "update" => len \in Lens
      /\ kind \in {"read", "update", "delete"} => id \in Ids
      /\ UNCHANGED <<files, dRuns, iRuns, placement, sinceSync, opening, history>>
  <2>1. CASE \E id \in Ids : BeginRead(id)
    BY <2>1, Zenon DEF BeginRead, NoCall
  <2>2. CASE \E id \in Ids : BeginDelete(id)
    BY <2>2, Zenon DEF BeginDelete, NoCall
  <2>3. CASE \E id \in Ids, len \in Lens : BeginUpdate(id, len)
    BY <2>3, Zenon DEF BeginUpdate, NoCall
  <2>4. CASE \E kind \in {"flush", "close"} : BeginFlush(kind)
    BY <2>4, Zenon DEF BeginFlush, NoCall
  <2> QED  BY <2>1, <2>2, <2>3, <2>4
<1>3. id \in Nat /\ len \in Nat
  BY CellNumbers
<1>4. /\ call' \in [kind : {"none", "read", "insert", "update", "delete", "flush", "close"},
                    id : Nat, len : Nat, slot : Slots]
      /\ call'.kind = kind /\ call'.id = id /\ call'.len = len
  BY <1>1, <1>2, <1>3
<1>5. CallOK'
  <2>1. pc' \in {"slot_read", "commit_data"} /\ (pc' = "slot_read" => kind \in {"read", "update", "delete"})
    BY <1>2
  <2> QED  BY <1>2, <1>4, <2>1 DEF CallOK, Calling, history
<1>6. FilesOK' /\ RunsOK' /\ PlaceOK' /\ UpdOK' /\ CountOK'
  BY <1>2 DEF HInv, FilesOK, files, RunsOK, placement, PlaceOK, UpdOK, opening, CountOK, history
<1> QED  BY <1>5, <1>6 DEF HInv

\* The index is flushed, and nothing else of the files and the placement changes.
LEMMA IndexFlushed ==
    ASSUME HInv, FlushIndex, pc # "down",
           UNCHANGED <<dDisk, dStable, iStable, dRuns, placement, upd>>
    PROVE  FilesOK' /\ RunsOK' /\ PlaceOK' /\ UpdOK'
<1>1. iDisk' = iView /\ iRuns' = <<>>
  BY DEF FlushIndex
<1>2. /\ iView \in [Ids -> Slots] /\ Holds(iView, FreshPairs(MaxIds, MaxCell))
      /\ Holds(iView, FreshPairs(nextId, cursor))
  BY ViewTypes
<1> QED  BY <1>1, <1>2, EmptyRuns DEF HInv, FilesOK, RunsOK, PlaceOK, UpdOK, placement

\* The slot is read.
LEMMA ReadSlotStep ==
    ASSUME HInv, ReadSlot
    PROVE  HInv'
<1> DEFINE slot == iView[call.id]
<1>1. /\ pc = "slot_read" /\ FlushIndex
      /\ UNCHANGED <<dDisk, dStable, iStable, dRuns, placement, sinceSync, opening, history>>
      /\ \/ pc' = "idle" /\ call' = NoCall
         \/ /\ slot.st = "live" /\ call.kind = "delete"
            /\ pc' = "slot_stage" /\ call' = [call EXCEPT !.slot = Tombstone(slot)]
         \/ /\ slot.st = "live" /\ call.kind # "delete"
            /\ pc' = "record_read" /\ call' = [call EXCEPT !.slot = slot]
  BY DEF ReadSlot
<1>2. FilesOK' /\ RunsOK' /\ PlaceOK' /\ UpdOK'
  BY <1>1, IndexFlushed DEF opening
<1>3. CountOK'
  BY <1>1 DEF HInv, CountOK, opening, history
<1>4. CallOK'
  <2>1. call.id \in Ids /\ slot \in Slots /\ <<call.id, slot>> \in FreshPairs(nextId, cursor)
    BY <1>1, ViewTypes DEF HInv, CallOK, Calling, Holds
  <2> HIDE DEF slot
  <2>2. CASE pc' = "idle" /\ call' = NoCall
    BY <2>2 DEF CallOK, Calling, NoCall, Slots
  <2>3. CASE /\ slot.st = "live" /\ call.kind = "delete"
             /\ pc' = "slot_stage" /\ call' = [call EXCEPT !.slot = Tombstone(slot)]
    <3> DEFINE t == Tombstone(slot)
    <3>1. slot \in [st : {"live", "deleted"}, off : Cells, len : Lens]
      BY <2>1, <2>3, SlotIs
    <3>2. t \in Slots /\ t.st = "deleted" /\ t.off = slot.off /\ t.len = slot.len
      BY <3>1 DEF Tombstone, Slots
    <3>3. <<call.id, t>> \in FreshPairs(nextId, cursor)
      BY <2>1, <2>3, <3>2 DEF FreshPairs
    <3> HIDE DEF t
    <3> QED  BY <1>1, <2>1, <2>3, <3>2, <3>3 DEF HInv, CallOK, Calling, placement, history, t
  <2>4. CASE /\ slot.st = "live" /\ call.kind # "delete"
             /\ pc' = "record_read" /\ call' = [call EXCEPT !.slot = slot]
    BY <1>1, <2>1, <2>4 DEF HInv, CallOK, Calling, placement, history
  <2> QED  BY <1>1, <2>2, <2>3, <2>4 DEF slot
<1> QED  BY <1>2, <1>3, <1>4 DEF HInv

\* A call that is over leaves nothing to say about its arguments.
LEMMA NoCallOK ==
    /\ NoCall \in [kind : {"none", "read", "insert", "update", "delete", "flush", "close"},
                   id : Nat, len : Nat, slot : Slots]
    /\ NoCall.kind = "none"
BY DEF NoCall, Slots

\* update writes the next version behind everything.
LEMMA UpdateStep ==
    ASSUME HInv, UpdateRecord
    PROVE  HInv'
<1> DEFINE old == dView[call.slot.off].rec
           r == [id |-> call.id, ver |-> (old.ver + 1) % VersionMod,
                 len |-> call.len, tag |-> ops + 1]
           slot == Live(cursor, call.len)
<1>1. /\ pc = "record_read" /\ call.kind = "update" /\ dDisk' = dView
      /\ UNCHANGED <<iDisk, dStable, iStable, iRuns, nextId, sinceSync, opening, history>>
      /\ \/ pc' = "idle" /\ call' = NoCall /\ dRuns' = <<>> /\ UNCHANGED cursor
         \/ /\ ReadHeader(dView, call.slot.off, call.id)
            /\ cursor + call.len <= MaxCell /\ cursor' = cursor + call.len
            /\ dRuns' = <<[start |-> cursor, vals |-> CellsOf(r)]>>
            /\ call' = [call EXCEPT !.slot = slot]
            /\ pc' = "slot_stage"
  BY DEF UpdateRecord, AllocUpdate
<1>2. FilesOK'
  BY <1>1, ViewTypes DEF HInv, FilesOK
<1>3. CountOK'
  BY <1>1 DEF HInv, CountOK, opening, history
<1>4. CASE pc' = "idle" /\ call' = NoCall /\ dRuns' = <<>> /\ UNCHANGED cursor
  <2>1. RunsOK' /\ PlaceOK' /\ UpdOK'
    BY <1>1, <1>4, EmptyRuns DEF HInv, RunsOK, PlaceOK, UpdOK, opening
  <2>2. CallOK'
    BY <1>4, NoCallOK DEF CallOK, Calling
  <2> QED  BY <1>2, <1>3, <2>1, <2>2 DEF HInv
<1>5. CASE /\ ReadHeader(dView, call.slot.off, call.id)
           /\ cursor + call.len <= MaxCell /\ cursor' = cursor + call.len
           /\ dRuns' = <<[start |-> cursor, vals |-> CellsOf(r)]>>
           /\ call' = [call EXCEPT !.slot = slot]
           /\ pc' = "slot_stage"
  <2>1. /\ call.id \in Ids /\ call.len \in Lens /\ ops < MaxOps
        /\ <<call.id, call.slot>> \in FreshPairs(nextId, cursor) /\ call.slot.st # "empty"
    BY <1>1 DEF HInv, CallOK, Calling
  <2>2. /\ cursor \in Nat /\ cursor >= DATA_PAGE /\ nextId \in Nat
        /\ call.len \in Nat /\ call.len > 0 /\ ops \in Nat /\ MaxCell \in Nat
        /\ MaxOps \in Nat /\ DATA_PAGE \in Nat
    <3>1. call.len \in Nat /\ call.len > 0
      BY <2>1, LengthsAre
    <3>2. MaxCell \in Nat /\ MaxOps \in Nat /\ DATA_PAGE \in Nat /\ MaxIds \in Nat
      BY AppendAssumption
    <3>3. cursor \in DATA_PAGE .. MaxCell /\ nextId \in 0 .. MaxIds /\ ops \in 0 .. MaxOps
      BY DEF HInv, PlaceOK, CountOK
    <3> QED  BY <3>1, <3>2, <3>3
  <2>3. r \in Record /\ r.len = call.len
    <3>1. HeaderAt(dView, call.slot.off)
      BY <1>5 DEF ReadHeader
    <3>2. old.ver \in Nat
      BY <3>1, ViewTypes, HeadersAre
    <3>3. (old.ver + 1) % VersionMod \in 0 .. VersionMod - 1
      BY <3>2, AppendAssumption
    <3>4. ops + 1 \in 1 .. MaxOps
      BY <2>1, <2>2
    <3> QED  BY <2>1, <3>3, <3>4 DEF Record
  <2> HIDE DEF r
  <2>4. dRuns' \in Seq(Runs(AllCells)) /\ Within(dRuns', DataPairs)
    <3>1. /\ CellsOf(r) \in Seq(AllCells) /\ CellsOf(r) # <<>>
          /\ \A k \in 1 .. Len(CellsOf(r)) : <<cursor + k - 1, CellsOf(r)[k]>> \in DataPairs
      BY <1>5, <2>2, <2>3, CellsAre, Zenon
    <3>2. dRuns' = Append(<<>>, [start |-> cursor, vals |-> CellsOf(r)])
      BY <1>5
    <3> QED  BY <2>2, <3>1, <3>2, EmptyRuns, AppendWithin, Zenon
  <2>5. FreshPairs(nextId, cursor) \subseteq FreshPairs(nextId, cursor')
    <3>1. cursor' \in Nat /\ cursor <= cursor'
      BY <1>5, <2>2
    <3> QED  BY <2>2, <3>1, FreshMore
  <2>6. /\ slot \in Slots /\ slot.st = "live" /\ <<call.id, slot>> \in FreshPairs(nextId, cursor')
    <3>1. cursor \in Cells
      BY <1>5, <2>2 DEF Cells
    <3>2. slot \in Slots /\ slot.st = "live" /\ slot.off = cursor /\ slot.len = call.len
      BY <2>1, <3>1 DEF Live, Slots
    <3>3. call.id < nextId
      BY <2>1 DEF FreshPairs
    <3>4. cursor + call.len <= cursor'
      BY <1>5, <2>2
    <3> QED  BY <2>1, <3>2, <3>3, <3>4 DEF FreshPairs
  <2> HIDE DEF slot
  <2>7. RunsOK'
    BY <1>1, <2>4, <2>5, LargerSet, Zenon DEF HInv, RunsOK
  <2>8. PlaceOK'
    <3>1. Holds(iDisk, FreshPairs(nextId, cursor'))
      BY <1>1, <2>5, LargerSet DEF HInv, PlaceOK
    <3>2. cursor' \in DATA_PAGE .. MaxCell
      BY <1>5, <2>2
    <3> QED  BY <1>1, <3>1, <3>2 DEF HInv, PlaceOK
  <2>9. UpdOK'
    BY <1>1, <2>5 DEF HInv, UpdOK, opening
  <2>10. CallOK'
    <3>1. /\ call' \in [kind : {"none", "read", "insert", "update", "delete", "flush", "close"},
                        id : Nat, len : Nat, slot : Slots]
          /\ call'.kind = "update" /\ call'.id = call.id /\ call'.slot = slot
      BY <1>1, <1>5, <2>6 DEF HInv, CallOK
    <3> QED  BY <1>1, <1>5, <2>1, <2>6, <3>1 DEF CallOK, Calling, history
  <2> QED  BY <1>2, <1>3, <2>7, <2>8, <2>9, <2>10 DEF HInv
<1> QED  BY <1>1, <1>4, <1>5

\* The slot is staged.
LEMMA SlotStageStep ==
    ASSUME HInv, SlotStage
    PROVE  HInv'
<1> DEFINE count == (sinceSync + 1) % CounterMod
           runs == StageSlot(iRuns, call.id, call.slot)
<1>1. /\ pc = "slot_stage" /\ iRuns' = runs /\ sinceSync' = count
      /\ \/ pc' = "commit_data" /\ UNCHANGED call
         \/ pc' = "idle" /\ call' = NoCall
      /\ unsynced' = unsynced + 1 /\ ops' = ops + 1
      /\ UNCHANGED <<files, dRuns, placement, opening, crashes>>
  BY DEF SlotStage
<1>2. /\ call.id \in Ids /\ call.kind # "read" /\ ops < MaxOps /\ call.slot \in Slots
      /\ <<call.id, call.slot>> \in FreshPairs(nextId, cursor)
  BY <1>1 DEF HInv, CallOK, Calling, FreshPairs
<1>3. RunsOK'
  BY <1>1, <1>2, StageSlotIs DEF HInv, RunsOK, placement
<1>4. CountOK'
  <2>1. count \in 0 .. CounterMod - 1
    BY AppendAssumption DEF HInv, CountOK
  <2> HIDE DEF count
  <2>2. ops' \in 0 .. MaxOps /\ unsynced' \in Nat /\ unsynced' <= ops'
    BY <1>1, <1>2, AppendAssumption DEF HInv, CountOK
  <2> QED  BY <1>1, <2>1, <2>2 DEF HInv, CountOK, opening
<1>5. CallOK'
  BY <1>1, NoCallOK DEF HInv, CallOK, Calling
<1>6. FilesOK' /\ PlaceOK' /\ UpdOK'
  BY <1>1 DEF HInv, FilesOK, files, PlaceOK, placement, UpdOK, opening
<1> QED  BY <1>3, <1>4, <1>5, <1>6 DEF HInv

\* The process is gone: staged writes and the placement with it.
LEMMA LoseStep ==
    ASSUME HInv, FilesOK', LoseMemory, ops' = ops, crashes' \in 0 .. MaxCrashes
    PROVE  HInv'
<1>1. /\ dRuns' = <<>> /\ iRuns' = <<>> /\ cursor' = DATA_PAGE /\ nextId' = 0 /\ sinceSync' = 0
      /\ pc' = "down" /\ call' = NoCall /\ upd' = <<>> /\ restored' = FALSE /\ unsynced' = 0
  BY DEF LoseMemory
<1>2. RunsOK' /\ UpdOK'
  BY <1>1, EmptyRuns DEF RunsOK, UpdOK
<1>3. PlaceOK'
  BY <1>1, CellNumbers DEF PlaceOK
<1>4. CallOK'
  BY <1>1, NoCallOK DEF CallOK, Calling
<1>5. CountOK'
  <2>1. 0 \in 0 .. CounterMod - 1
    BY AppendAssumption
  <2>2. ops \in 0 .. MaxOps /\ 0 <= ops
    BY DEF HInv, CountOK
  <2> QED  BY <1>1, <2>1, <2>2, Zenon DEF CountOK
<1> QED  BY <1>2, <1>3, <1>4, <1>5 DEF HInv

\* A flush that is cut short leaves at each position the old or the new content.
LEMMA TornIs ==
    ASSUME HInv
    PROVE  /\ \A f \in DataTorn : /\ f \in [Cells -> AllCells]
                                  /\ \A x \in Cells : f[x] \in {dDisk[x], dView[x]}
           /\ \A f \in IndexTorn : /\ f \in [Ids -> Slots]
                                   /\ \A x \in Ids : f[x] \in {iDisk[x], iView[x]}
<1>1. /\ dDisk \in [Cells -> AllCells] /\ dView \in [Cells -> AllCells]
      /\ iDisk \in [Ids -> Slots] /\ iView \in [Ids -> Slots]
  BY ViewTypes DEF HInv, FilesOK
<1>2. ASSUME NEW f \in DataTorn
      PROVE  f \in [Cells -> AllCells] /\ \A x \in Cells : f[x] \in {dDisk[x], dView[x]}
  <2>1. f = dDisk \/ \E s : f = Data!OnPages(dDisk, dView, s)
    BY DEF DataTorn
  <2>2. CASE \E s : f = Data!OnPages(dDisk, dView, s)
    <3>1. PICK s : f = Data!OnPages(dDisk, dView, s)
      BY <2>2
    <3>2. f = [x \in Cells |-> IF x \div DATA_PAGE \in s THEN dView[x] ELSE dDisk[x]]
      BY <1>1, <3>1 DEF Data!OnPages
    <3> QED  BY <1>1, <3>2
  <2> QED  BY <1>1, <2>1, <2>2
<1>3. ASSUME NEW f \in IndexTorn
      PROVE  f \in [Ids -> Slots] /\ \A x \in Ids : f[x] \in {iDisk[x], iView[x]}
  <2>1. f = iDisk \/ \E s : f = Index!OnPages(iDisk, iView, s)
    BY DEF IndexTorn
  <2>2. CASE \E s : f = Index!OnPages(iDisk, iView, s)
    <3>1. PICK s : f = Index!OnPages(iDisk, iView, s)
      BY <2>2
    <3>2. f = [x \in Ids |-> IF x \div SLOTS_PER_PAGE \in s THEN iView[x] ELSE iDisk[x]]
      BY <1>1, <3>1 DEF Index!OnPages
    <3> QED  BY <1>1, <3>2
  <2> QED  BY <1>1, <2>1, <2>2
<1> QED  BY <1>2, <1>3

\* A power loss leaves at each position what was there, or what was last synced.
LEMMA LossIs ==
    ASSUME HInv, PowerLoss
    PROVE  /\ dDisk' \in [Cells -> AllCells] /\ iDisk' \in [Ids -> Slots]
           /\ \E d \in DataTorn : \A x \in Cells : dDisk'[x] \in {d[x], dStable[x]}
           /\ \E i \in IndexTorn : \A x \in Ids : iDisk'[x] \in {i[x], iStable[x]}
<1>1. PICK d \in DataTorn, i \in IndexTorn,
           dp \in SUBSET {p \div DATA_PAGE : p \in Cells},
           ip \in SUBSET {id \div SLOTS_PER_PAGE : id \in Ids} :
           dDisk' = Data!OnPages(d, dStable, dp) /\ iDisk' = Index!OnPages(i, iStable, ip)
  BY DEF PowerLoss
<1>2. /\ d \in [Cells -> AllCells] /\ i \in [Ids -> Slots]
      /\ dStable \in [Cells -> AllCells] /\ iStable \in [Ids -> Slots]
  BY TornIs DEF HInv, FilesOK
<1>3. dDisk' = [x \in Cells |-> IF x \div DATA_PAGE \in dp THEN dStable[x] ELSE d[x]]
  BY <1>1, <1>2 DEF Data!OnPages
<1>4. iDisk' = [x \in Ids |-> IF x \div SLOTS_PER_PAGE \in ip THEN iStable[x] ELSE i[x]]
  BY <1>1, <1>2 DEF Index!OnPages
<1>5. dDisk' \in [Cells -> AllCells] /\ \A x \in Cells : dDisk'[x] \in {d[x], dStable[x]}
  BY <1>2, <1>3
<1>6. iDisk' \in [Ids -> Slots] /\ \A x \in Ids : iDisk'[x] \in {i[x], iStable[x]}
  BY <1>2, <1>4
<1> QED  BY <1>5, <1>6

\* Files that hold, position by position, what other files hold.
LEMMA Mixed ==
    ASSUME NEW R, NEW f, NEW g, NEW h, DOMAIN f = Ids, DOMAIN g = Ids, DOMAIN h = Ids,
           Holds(g, R), Holds(h, R), \A x \in Ids : f[x] \in {g[x], h[x]}
    PROVE  Holds(f, R)
BY Zenon DEF Holds

\* A crash keeps the types of the files.
LEMMA CrashStep ==
    ASSUME HInv, Kill \/ PowerLoss
    PROVE  HInv'
<1> DEFINE R == FreshPairs(MaxIds, MaxCell)
<1>1. /\ Holds(iDisk, R) /\ Holds(iView, R) /\ Holds(iStable, R)
      /\ DOMAIN iDisk = Ids /\ DOMAIN iView = Ids /\ DOMAIN iStable = Ids
  BY ViewTypes DEF HInv, FilesOK
<1> HIDE DEF R
<1>2. ASSUME NEW i \in IndexTorn PROVE Holds(i, R) /\ DOMAIN i = Ids
  <2>1. i \in [Ids -> Slots] /\ \A x \in Ids : i[x] \in {iDisk[x], iView[x]}
    BY TornIs
  <2> QED  BY <1>1, <2>1, Mixed
<1>3. CASE Kill
  <2>1. /\ dDisk' \in DataTorn /\ iDisk' \in IndexTorn /\ LoseMemory
        /\ crashes' = crashes + 1 /\ crashes < MaxCrashes /\ UNCHANGED <<dStable, iStable, ops>>
    BY <1>3 DEF Kill
  <2>2. FilesOK'
    <3>1. dDisk' \in [Cells -> AllCells] /\ iDisk' \in [Ids -> Slots] /\ Holds(iDisk', R)
      BY <1>2, <2>1, TornIs
    <3> QED  BY <2>1, <3>1 DEF HInv, FilesOK, R
  <2>3. crashes' \in 0 .. MaxCrashes
    BY <2>1, AppendAssumption DEF HInv, CountOK
  <2> QED  BY <2>1, <2>2, <2>3, LoseStep
<1>4. CASE PowerLoss
  <2>1. /\ LoseMemory /\ dStable' = dDisk' /\ iStable' = iDisk'
        /\ crashes' = crashes + 1 /\ crashes < MaxCrashes /\ UNCHANGED ops
    BY <1>4 DEF PowerLoss
  <2>2. FilesOK'
    <3>1. dDisk' \in [Cells -> AllCells] /\ iDisk' \in [Ids -> Slots]
      BY <1>4, LossIs
    <3>2. PICK i \in IndexTorn : \A x \in Ids : iDisk'[x] \in {i[x], iStable[x]}
      BY <1>4, LossIs
    <3>3. Holds(i, R) /\ DOMAIN i = Ids /\ DOMAIN iDisk' = Ids
      BY <1>2, <3>1
    <3> DEFINE new == iDisk'
    <3>4. /\ DOMAIN new = Ids /\ \A x \in Ids : new[x] \in {i[x], iStable[x]}
      BY <3>2, <3>3
    <3> HIDE DEF new
    <3>5. Holds(new, R)
      BY <1>1, <3>3, <3>4, Mixed
    <3> QED  BY <2>1, <3>1, <3>5 DEF FilesOK, R, new
  <2>3. crashes' \in 0 .. MaxCrashes
    BY <2>1, AppendAssumption DEF HInv, CountOK
  <2> QED  BY <2>1, <2>2, <2>3, LoseStep
<1> QED  BY <1>3, <1>4

\* One turn of the loop over updates.
LEMMA RestoreStep ==
    ASSUME HInv, NEW id \in DOMAIN upd, RestoreUpdate(id)
    PROVE  HInv'
<1> DEFINE u == upd[id]
           live == Live(u.off, u.len)
           left == DOMAIN upd \ {id}
<1>1. /\ pc = "restore" /\ iDisk' = iView
      /\ \/ iRuns' = <<>>
         \/ iRuns' = StageSlot(<<>>, id, live)
      /\ upd' = [x \in left |-> upd[x]]
      /\ restored' = (restored \/ ~Superseded(id, u))
      /\ pc' \in {"restore", "restore_flush", "idle"}
      /\ UNCHANGED <<dDisk, dStable, iStable, dRuns, placement, sinceSync, call, unsynced, ops,
                     crashes>>
  BY DEF RestoreUpdate, AfterRestore
<1>2. id \in Ids /\ <<id, live>> \in FreshPairs(nextId, cursor) /\ live \in Slots
  BY DEF HInv, UpdOK, FreshPairs
<1>3. iRuns' \in Seq(Runs(Slots)) /\ Within(iRuns', FreshPairs(nextId, cursor))
  <2>1. <<>> \in Seq(Runs(Slots)) /\ Within(<<>>, FreshPairs(nextId, cursor))
    BY EmptyRuns
  <2> HIDE DEF live
  <2> QED  BY <1>1, <1>2, <2>1, StageSlotIs, Zenon
<1>4. FilesOK' /\ PlaceOK'
  BY <1>1, ViewTypes DEF HInv, FilesOK, PlaceOK, placement
<1>5. RunsOK'
  BY <1>1, <1>3 DEF HInv, RunsOK, placement
<1>6. UpdOK'
  BY <1>1 DEF HInv, UpdOK, placement
<1>7. CallOK' /\ CountOK'
  <2>1. restored' \in BOOLEAN
    BY <1>1 DEF HInv, CountOK
  <2> QED  BY <1>1, <2>1 DEF HInv, CallOK, Calling, CountOK
<1> QED  BY <1>4, <1>5, <1>6, <1>7 DEF HInv

\* Every step keeps the invariant.
LEMMA StepHInv == ASSUME HInv, [Next]_vars PROVE HInv'
<1>1. CASE Begin
  BY <1>1, InsertStep, BeginStep DEF Begin
<1>2. CASE ReadRecord \/ CommitData
  <2>1. /\ dDisk' = dView /\ dRuns' = <<>> /\ pc # "down"
        /\ pc' \in {"idle", "commit_sync"} /\ (call' = NoCall \/ UNCHANGED call)
        /\ UNCHANGED <<iDisk, dStable, iStable, iRuns, placement, sinceSync, opening, history>>
    BY <1>2 DEF ReadRecord, CommitData, FlushData
  <2>2. FilesOK' /\ RunsOK' /\ PlaceOK' /\ UpdOK'
    BY <2>1, ViewTypes, EmptyRuns DEF HInv, FilesOK, RunsOK, PlaceOK, UpdOK, placement, opening
  <2>3. CallOK' /\ CountOK'
    BY <2>1, NoCallOK DEF HInv, CallOK, Calling, CountOK, opening, history
  <2> QED  BY <2>2, <2>3 DEF HInv
<1>3. CASE SlotFlush
  <2>1. /\ FlushIndex /\ pc = "slot_stage"
        /\ UNCHANGED <<dDisk, dStable, iStable, dRuns, placement, sinceSync, pc, call, opening,
                       history>>
    BY <1>3 DEF SlotFlush
  <2>2. FilesOK' /\ RunsOK' /\ PlaceOK' /\ UpdOK'
    BY <2>1, IndexFlushed DEF opening
  <2>3. CallOK' /\ CountOK'
    BY <2>1 DEF HInv, CallOK, Calling, CountOK, opening, history, placement
  <2> QED  BY <2>2, <2>3 DEF HInv
<1>4. CASE CommitSync
  <2>1. /\ dStable' = dDisk /\ pc = "commit_sync" /\ pc' = "commit_index"
        /\ UNCHANGED <<dDisk, iDisk, iStable, dRuns, iRuns, placement, sinceSync, call, opening,
                       history>>
    BY <1>4 DEF CommitSync
  <2> QED  BY <2>1 DEF HInv, FilesOK, RunsOK, PlaceOK, UpdOK, CallOK, Calling, CountOK, placement,
                       opening, history
<1>5. CASE CommitIndex \/ RestoreFlush
  <2>1. /\ FlushIndex /\ pc # "down" /\ pc' \in {"index_sync", "idle", "restore_sync"}
        /\ (call' = NoCall \/ UNCHANGED call) /\ (unsynced' = 0 \/ UNCHANGED unsynced)
        /\ UNCHANGED <<dDisk, dStable, iStable, dRuns, placement, sinceSync, opening, ops, crashes>>
    BY <1>5 DEF CommitIndex, RestoreFlush, history
  <2>2. FilesOK' /\ RunsOK' /\ PlaceOK' /\ UpdOK'
    BY <2>1, IndexFlushed DEF opening
  <2>3. CallOK' /\ CountOK'
    BY <2>1, NoCallOK DEF HInv, CallOK, Calling, CountOK, opening
  <2> QED  BY <2>2, <2>3 DEF HInv
<1>6. CASE IndexSync
  <2>1. /\ pc = "index_sync" /\ iStable' = iDisk
        /\ UNCHANGED <<dDisk, iDisk, dStable, ops, crashes>>
    BY <1>6 DEF IndexSync
  <2>2. FilesOK'
    BY <2>1 DEF HInv, FilesOK
  <2>3. CASE LoseMemory
    BY <2>1, <2>2, <2>3, LoseStep DEF HInv, CountOK
  <2>4. CASE ~LoseMemory
    <3>1. /\ pc' = "idle" /\ call' = NoCall
          /\ UNCHANGED <<dRuns, iRuns, placement, sinceSync, opening, unsynced>>
      BY <1>6, <2>4 DEF IndexSync
    <3> QED  BY <2>1, <2>2, <3>1, NoCallOK, Zenon
             DEF HInv, RunsOK, PlaceOK, UpdOK, CallOK, Calling, CountOK, placement, opening
  <2> QED  BY <2>3, <2>4
<1>7. CASE RestoreSync
  <2>1. /\ pc = "restore_sync" /\ iStable' = iDisk /\ pc' = "idle" /\ restored' = FALSE
        /\ UNCHANGED <<dDisk, iDisk, dStable, dRuns, iRuns, placement, sinceSync, call, upd,
                       unsynced, ops, crashes>>
    BY <1>7 DEF RestoreSync
  <2> QED  BY <2>1, Zenon DEF HInv, FilesOK, RunsOK, PlaceOK, UpdOK, CallOK, Calling, CountOK, placement
<1>8. CASE UNCHANGED vars
  BY <1>8 DEF vars, files, placement, opening, history, HInv, FilesOK, RunsOK, PlaceOK, UpdOK,
              CallOK, Calling, CountOK
<1> QED  BY <1>1, <1>2, <1>3, <1>4, <1>5, <1>6, <1>7, <1>8, ReadSlotStep, UpdateStep,
            SlotStageStep, RestoreStep, OpenStep, CrashStep DEF Next, Continue, Proceed

\* The invariant of the heap: its files, staged writes and running call are well formed,
\* and from the scan of an open on the placement is ahead of every slot.
THEOREM HeapInvariance == Spec => []HInv
<1>1. Init => HInv
  <2> SUFFICES ASSUME Init PROVE HInv
    OBVIOUS
  <2>1. Zero \in AllCells /\ Empty \in Slots /\ Empty.st = "empty"
    BY DEF AllCells, IsCell, Zero, Slots, Empty
  <2>2. FilesOK
    <3>1. dDisk \in [Cells -> AllCells] /\ dStable = dDisk /\ iDisk \in [Ids -> Slots]
          /\ iStable = iDisk /\ \A id \in Ids : iDisk[id] = Empty
      BY <2>1 DEF Init, NewStore
    <3>2. Holds(iDisk, FreshPairs(MaxIds, MaxCell))
      BY <2>1, <3>1 DEF Holds, FreshPairs
    <3> QED  BY <3>1, <3>2 DEF FilesOK
  <2>3. RunsOK /\ UpdOK
    BY EmptyRuns DEF Init, NewStore, RunsOK, UpdOK
  <2>4. PlaceOK
    <3>1. Holds(iDisk, FreshPairs(nextId, cursor))
      BY <2>1 DEF Init, NewStore, Holds, FreshPairs
    <3> QED  BY <3>1, CellNumbers DEF Init, NewStore, PlaceOK
  <2>5. CallOK
    BY NoCallOK DEF Init, NewStore, CallOK, Calling
  <2>6. CountOK
    <3>1. 0 \in 0 .. CounterMod - 1 /\ 0 \in 0 .. MaxOps /\ 0 \in 0 .. MaxCrashes
      BY AppendAssumption
    <3>2. sinceSync = 0 /\ unsynced = 0 /\ ops = 0 /\ crashes = 0 /\ pc = "idle"
      BY DEF Init, NewStore
    <3>3. restored \in BOOLEAN
      BY Zenon DEF Init, NewStore
    <3> QED  BY <3>1, <3>2, <3>3 DEF CountOK
  <2> QED  BY <2>2, <2>3, <2>4, <2>5, <2>6 DEF HInv
<1>2. HInv /\ [Next]_vars => HInv'
  BY StepHInv
<1> QED  BY <1>1, <1>2, PTL DEF Spec

\* The types of the heap's state, and that staged writes hold cells and slots of the files.
THEOREM HeapTypeCorrect == Spec => []TypeOK
<1>1. HInv => TypeOK
  <2> SUFFICES ASSUME HInv PROVE TypeOK
    OBVIOUS
  <2>1. \A d \in {dDisk, dStable} : DOMAIN d = Cells /\ \A p \in Cells : IsCell(d[p])
    BY DEF HInv, FilesOK, AllCells
  <2>2. \A i \in {iDisk, iStable} : DOMAIN i = Ids /\ \A id \in Ids : i[id] \in Slots
    BY DEF HInv, FilesOK
  <2>3. ASSUME NEW n \in DOMAIN dRuns
        PROVE  dRuns[n].start \in Cells /\ \A c \in Range(dRuns[n].vals) : IsCell(c)
    <3> DEFINE w == dRuns[n]
    <3>1. w \in Runs(AllCells)
      BY DEF HInv, RunsOK
    <3>2. w.start \in Nat /\ w.vals \in Seq(AllCells) /\ w.vals # <<>>
      BY <3>1 DEF Runs
    <3>3. 1 \in 1 .. Len(w.vals)
      BY <3>2
    <3>4. <<w.start + 1 - 1, w.vals[1]>> \in DataPairs
      BY <3>3 DEF HInv, RunsOK, Within
    <3>5. w.start + 1 - 1 = w.start
      BY <3>2
    <3>6. \A c \in Range(w.vals) : c \in AllCells
      BY <3>2 DEF Range
    <3> QED  BY <3>4, <3>5, <3>6 DEF DataPairs, AllCells
  <2>4. ASSUME NEW n \in DOMAIN iRuns
        PROVE  iRuns[n].start \in Ids /\ Range(iRuns[n].vals) \subseteq Slots
    <3> DEFINE w == iRuns[n]
    <3>1. w \in Runs(Slots)
      BY DEF HInv, RunsOK
    <3>2. w.start \in Nat /\ w.vals \in Seq(Slots) /\ w.vals # <<>>
      BY <3>1 DEF Runs
    <3>3. 1 \in 1 .. Len(w.vals)
      BY <3>2
    <3>4. <<w.start + 1 - 1, w.vals[1]>> \in FreshPairs(nextId, cursor)
      BY <3>3 DEF HInv, RunsOK, Within
    <3>5. w.start + 1 - 1 = w.start
      BY <3>2
    <3>6. \A c \in Range(w.vals) : c \in Slots
      BY <3>2 DEF Range
    <3> QED  BY <3>4, <3>5, <3>6 DEF FreshPairs
  <2>5. unsynced \in 0 .. MaxOps
    BY AppendAssumption DEF HInv, CountOK
  <2> QED  BY <2>1, <2>2, <2>3, <2>4, <2>5 DEF HInv, PlaceOK, UpdOK, CountOK, TypeOK
<1> QED  BY <1>1, HeapInvariance, PTL

\* The allocator is ahead of everything the index refers to, for every sequence of calls,
\* crashes and recoveries: recovery finds the end of the data behind every slot and every
\* record it restores.
THEOREM AllocatorAhead == Spec => []AllocatorFresh
<1>1. HInv => AllocatorFresh
  <2> SUFFICES ASSUME HInv, Up, NEW id \in Ids, iView[id].st # "empty"
               PROVE  id < nextId /\ iView[id].off + iView[id].len <= cursor
    BY DEF AllocatorFresh
  <2>1. Holds(iView, FreshPairs(nextId, cursor)) /\ iView \in [Ids -> Slots]
    BY ViewTypes DEF Up
  <2>2. <<id, iView[id]>> \in FreshPairs(nextId, cursor)
    BY <2>1 DEF Holds
  <2> QED  BY <2>2 DEF FreshPairs
<1> QED  BY <1>1, HeapInvariance, PTL

-----------------------------------------------------------------------------
(* The order of writes: with SyncPolicy::EveryN(1), and either kind of crash but not   *)
(* both, the index file never refers to a record that is not whole in the data file.   *)

\* A record is being written: it is staged, or in the data file but not synced.
Storing ==
    /\ pc \in {"slot_stage", "commit_data", "commit_sync"}
    /\ call.kind \in {"insert", "update"}

\* The cells below Floor are final: everything a slot in a file refers to is below, and the
\* record being written is not.
Floor == IF Storing THEN call.slot.off ELSE cursor

AbovePairs(c) == {x \in Nat \X AllCells : x[1] >= c}

\* Only a call that stores a record has staged data, and then the whole record.
DataOrder ==
    /\ dRuns # <<>> => Storing /\ pc # "commit_sync"
    /\ Within(dRuns, AbovePairs(Floor))
    /\ Storing => /\ <<call.id, call.slot>> \in WholePairs(dView)
                  /\ call.slot.off <= cursor
    /\ pc = "slot_stage" /\ ~Storing => call.slot.st # "live"

\* Where no slots are staged.
NoSlots == {"idle", "slot_read", "record_read", "slot_stage", "index_sync", "down", "restore_sync"}

\* The slots of the file refer to whole records of the data file, below Floor; staged
\* slots refer to whole records, that may be staged too.
IndexOrder ==
    /\ Holds(iDisk, WholePairs(dDisk)) /\ Within(iRuns, WholePairs(dView))
    /\ pc # "down" => Holds(iDisk, FreshPairs(MaxIds, Floor))
    /\ pc \in NoSlots => iRuns = <<>>

\* The updates left to restore are whole records.
UpdOrder ==
    /\ DOMAIN upd # {} => pc = "restore"
    /\ \A id \in DOMAIN upd : <<id, Live(upd[id].off, upd[id].len)>> \in WholePairs(dDisk)

\* Where the power can fail: the index as of its last sync is as sound as the file, and
\* all data is synced but a record between its flush and the sync.
StableOrder ==
    "power" \in CrashKinds =>
        /\ Holds(iStable, WholePairs(dDisk))
        /\ pc # "down" => Holds(iStable, FreshPairs(MaxIds, Floor))
        /\ pc = "down" => iStable = iDisk
        /\ pc # "commit_sync" => dStable = dDisk
        /\ \A p \in Cells : p < Floor => dStable[p] = dDisk[p]

OrderInv == DataOrder /\ IndexOrder /\ UpdOrder /\ StableOrder

\* A slot that ends below c is as whole in any data file with the same cells below c.
LEMMA WholeBelow ==
    ASSUME NEW d \in [Cells -> AllCells], NEW e \in [Cells -> AllCells], NEW c \in Nat,
           \A p \in Cells : p < c => d[p] = e[p]
    PROVE  WholePairs(d) \intersect FreshPairs(MaxIds, c) \subseteq WholePairs(e)
<1> SUFFICES ASSUME NEW x \in Ids \X Slots, x \in WholePairs(d), x \in FreshPairs(MaxIds, c),
                    x[2].st = "live"
             PROVE  /\ RecordAt(e, x[2].off)
                    /\ e[x[2].off].rec.id = x[1] /\ e[x[2].off].rec.len = x[2].len
  BY DEF WholePairs
<1> DEFINE off == x[2].off
           len == x[2].len
           r == d[off].rec
<1>1. off \in Cells /\ off \in Nat /\ len \in Nat /\ len > 0
  BY SlotIs
<1>2. RecordAt(d, off) /\ r.id = x[1] /\ r.len = len
  BY DEF WholePairs
<1>3. off + len <= c
  BY DEF FreshPairs
<1> HIDE DEF off, len
<1>4. d[off].k = 1 /\ off + len - 1 \in Cells /\ \A k \in 1 .. len : d[off + k - 1] = [rec |-> r, k |-> k]
  BY <1>2 DEF RecordAt, HeaderAt, PayloadAt
<1>5. ASSUME NEW k \in 1 .. len PROVE off + k - 1 \in Cells /\ off + k - 1 < c
  BY <1>1, <1>3, <1>4, CellNumbers
<1>6. e[off] = d[off]
  BY <1>1, <1>3
<1>7. \A k \in 1 .. len : e[off + k - 1] = [rec |-> r, k |-> k]
  BY <1>4, <1>5
<1>8. RecordAt(e, off)
  BY <1>1, <1>2, <1>4, <1>6, <1>7 DEF RecordAt, HeaderAt, PayloadAt
<1> QED  BY <1>2, <1>6, <1>8 DEF off, len

\* Staged writes above c leave the cells below as they are.
LEMMA ShownBelow ==
    ASSUME NEW f, DOMAIN f \subseteq Nat, NEW c \in Nat, NEW ws \in Seq(Runs(AllCells)),
           Within(ws, AbovePairs(c)), NEW p \in DOMAIN f, p < c
    PROVE  Shown(f, ws)[p] = f[p]
<1> SUFFICES ASSUME NEW i \in DOMAIN ws, At(ws[i], p) PROVE FALSE
  BY ShownAt
<1>1. ws[i] \in Runs(AllCells)
  OBVIOUS
<1>2. ws[i].start \in Nat /\ ws[i].vals \in Seq(AllCells) /\ ws[i].vals # <<>>
  BY <1>1 DEF Runs
<1>3. 1 \in 1 .. Len(ws[i].vals)
  BY <1>2
<1>4. <<ws[i].start + 1 - 1, ws[i].vals[1]>> \in AbovePairs(c)
  BY <1>3 DEF Within
<1>5. ws[i].start >= c
  BY <1>2, <1>4 DEF AbovePairs
<1>6. p \in Nat
  OBVIOUS
<1> QED  BY <1>2, <1>5, <1>6 DEF At

\* Nothing staged, nothing shown but the file.
LEMMA NothingStaged ==
    ASSUME HInv
    PROVE  (dRuns = <<>> => dView = dDisk) /\ (iRuns = <<>> => iView = iDisk)
<1>1. dDisk = [p \in Cells |-> dDisk[p]] /\ iDisk = [id \in Ids |-> iDisk[id]]
  BY DEF HInv, FilesOK
<1>2. ASSUME NEW D, NEW f, f = [x \in D |-> f[x]] PROVE Shown(f, <<>>) = f
  BY <1>2 DEF Shown
<1> QED  BY <1>1, <1>2, ViewsAre

\* The record that a call stages is whole in the view, and above the cells before it.
LEMMA StagedWhole ==
    ASSUME NEW d \in [Cells -> AllCells], NEW r \in Record, NEW c \in Nat, c >= DATA_PAGE,
           c + r.len <= MaxCell
    PROVE  LET ws == <<[start |-> c, vals |-> CellsOf(r)]>>
           IN  /\ <<r.id, Live(c, r.len)>> \in WholePairs(Shown(d, ws))
               /\ Within(ws, AbovePairs(c))
<1> DEFINE vals == CellsOf(r)
           w == [start |-> c, vals |-> vals]
           ws == <<w>>
           e == Shown(d, ws)
<1>1. /\ vals \in Seq(AllCells) /\ vals # <<>> /\ Len(vals) = r.len /\ r.len \in Nat /\ r.len > 0
      /\ \A k \in 1 .. r.len : /\ vals[k] = [rec |-> r, k |-> k]
                               /\ <<c + k - 1, vals[k]>> \in DataPairs
  BY CellsAre
<1> HIDE DEF vals
<1>2. w.start = c /\ w.vals = vals /\ DOMAIN ws = {1} /\ ws[1] = w
  OBVIOUS
<1> HIDE DEF w
<1>3. Within(ws, AbovePairs(c))
  <2>1. ASSUME NEW k \in 1 .. r.len PROVE <<c + k - 1, vals[k]>> \in AbovePairs(c)
    <3>1. vals[k] \in AllCells
      BY <1>1 DEF DataPairs
    <3>2. c + k - 1 \in Nat /\ c + k - 1 >= c
      BY <1>1
    <3> QED  BY <3>1, <3>2 DEF AbovePairs
  <2> QED  BY <1>1, <1>2, <2>1 DEF Within
<1>4. ASSUME NEW k \in 1 .. r.len
      PROVE  c + k - 1 \in Cells /\ e[c + k - 1] = [rec |-> r, k |-> k]
  <2>0. <<c + k - 1, vals[k]>> \in DataPairs
    BY <1>1, Zenon
  <2>1. c + k - 1 \in Cells /\ k \in Nat
    BY <1>1, <2>0 DEF DataPairs
  <2>2. At(ws[1], c + k - 1) /\ c + k - 1 - c + 1 = k
    BY <1>1, <1>2, <2>1 DEF At
  <2>3. e[c + k - 1] = ws[1].vals[c + k - 1 - ws[1].start + 1]
    BY <1>2, <2>1, <2>2, ShownAt
  <2>4. c + k - 1 - ws[1].start + 1 = k
    BY <1>2, <2>2
  <2> QED  BY <1>1, <1>2, <2>1, <2>3, <2>4, Zenon
<1>5. DOMAIN e = Cells
  BY DEF Shown
<1> HIDE DEF e, ws
<1>6. c \in Cells /\ e[c] = [rec |-> r, k |-> 1]
  <2>1. 1 \in 1 .. r.len /\ c + 1 - 1 = c
    BY <1>1
  <2> QED  BY <1>4, <2>1
<1>7. RecordAt(e, c) /\ e[c].rec = r
  <2>1. e[c].rec = r /\ e[c].k = 1
    BY <1>6
  <2>2. c + r.len - 1 \in Cells
    <3>1. r.len \in 1 .. r.len
      BY <1>1
    <3> QED  BY <1>4, <3>1, Zenon
  <2> QED  BY <1>4, <1>5, <1>6, <2>1, <2>2 DEF RecordAt, HeaderAt, PayloadAt
<1>8. Live(c, r.len) \in Slots /\ r.id \in Ids /\ Live(c, r.len).off = c /\ Live(c, r.len).len = r.len
  BY <1>6 DEF Live, Slots, Record
<1>9. <<r.id, Live(c, r.len)>> \in WholePairs(e)
  BY <1>7, <1>8 DEF WholePairs
<1> QED  BY <1>3, <1>9 DEF e, ws, w, vals

\* Floor is a cell number and at most the cursor; where nothing is being stored both are equal.
LEMMA FloorIs ==
    ASSUME HInv, OrderInv
    PROVE  Floor \in Nat /\ cursor \in Nat /\ MaxIds \in Nat /\ nextId \in Nat /\ nextId <= MaxIds
           /\ Floor <= cursor
<1>1. /\ cursor \in Nat /\ nextId \in Nat /\ nextId <= MaxIds /\ MaxIds \in Nat
  BY CellNumbers DEF HInv, PlaceOK
<1>2. ASSUME Storing PROVE call.slot.off \in Nat /\ call.slot.off <= cursor
  <2>1. call.slot \in Slots
    BY DEF HInv, CallOK
  <2>2. \A s \in Slots : s.off \in Nat
    BY CellNumbers DEF Slots, Empty
  <2> QED  BY <1>2, <2>1, <2>2 DEF OrderInv, DataOrder
<1> QED  BY <1>1, <1>2 DEF Floor

\* The view of the data file is the file below Floor.
LEMMA ViewBelow ==
    ASSUME HInv, OrderInv, NEW p \in Cells, p < Floor
    PROVE  dView[p] = dDisk[p]
<1>1. /\ Floor \in Nat /\ DOMAIN dDisk = Cells /\ Cells \subseteq Nat
      /\ dRuns \in Seq(Runs(AllCells)) /\ Within(dRuns, AbovePairs(Floor))
  BY FloorIs, CellNumbers DEF HInv, FilesOK, RunsOK, OrderInv, DataOrder
<1>2. dView = Shown(dDisk, dRuns)
  BY ViewsAre
<1> HIDE DEF Floor
<1> QED  BY <1>1, <1>2, ShownBelow, Zenon

\* The slots of the view of the index refer to whole records of the view of the data.
LEMMA ViewWhole ==
    ASSUME HInv, OrderInv
    PROVE  /\ Holds(iDisk, WholePairs(dView)) \/ pc = "down"
           /\ dRuns = <<>> => Holds(iView, WholePairs(dDisk))
           /\ "power" \in CrashKinds => Holds(iStable, WholePairs(dView)) \/ pc = "down"
<1> DEFINE W == WholePairs(dDisk) \intersect FreshPairs(MaxIds, Floor)
<1>1. W \subseteq WholePairs(dView)
  <2>1. /\ dDisk \in [Cells -> AllCells] /\ dView \in [Cells -> AllCells] /\ Floor \in Nat
        /\ \A p \in Cells : p < Floor => dDisk[p] = dView[p]
    BY ViewTypes, FloorIs, ViewBelow DEF HInv, FilesOK
  <2> QED  BY <2>1, WholeBelow
<1>2. pc # "down" => Holds(iDisk, W)
  BY DEF OrderInv, IndexOrder, Holds
<1>3. pc # "down" /\ "power" \in CrashKinds => Holds(iStable, W)
  BY DEF OrderInv, StableOrder, Holds
<1>4. ASSUME dRuns = <<>> PROVE Holds(iView, WholePairs(dDisk))
  <2>1. dView = dDisk
    BY <1>4, NothingStaged
  <2>2. /\ Holds(iDisk, WholePairs(dDisk)) /\ Within(iRuns, WholePairs(dDisk))
        /\ iRuns \in Seq(Runs(Slots)) /\ DOMAIN iDisk \subseteq Nat
    BY <2>1, CellNumbers DEF OrderInv, IndexOrder, HInv, RunsOK, FilesOK
  <2> QED  BY <2>2, ViewsAre, ShownWithin
<1> HIDE DEF W
<1> QED  BY <1>1, <1>2, <1>3, <1>4, LargerSet

\* Where nothing is being stored, as the placement is ahead of the index so is Floor.
LEMMA SlotsBelow ==
    ASSUME HInv, OrderInv, pc # "down"
    PROVE  Holds(iDisk, FreshPairs(MaxIds, cursor)) /\ Holds(iView, FreshPairs(MaxIds, cursor))
           /\ ("power" \in CrashKinds => Holds(iStable, FreshPairs(MaxIds, cursor)))
<1>1. /\ cursor \in Nat /\ nextId \in Nat /\ nextId <= MaxIds /\ MaxIds \in Nat /\ Floor \in Nat
      /\ Floor <= cursor
  BY FloorIs
<1>2. FreshPairs(nextId, cursor) \subseteq FreshPairs(MaxIds, cursor)
  BY <1>1, FreshMore
<1>3. FreshPairs(MaxIds, Floor) \subseteq FreshPairs(MaxIds, cursor)
  <2> HIDE DEF Floor
  <2> QED  BY <1>1, FreshMore
<1>4. Holds(iDisk, FreshPairs(nextId, cursor)) /\ Holds(iView, FreshPairs(nextId, cursor))
  BY ViewTypes DEF HInv, PlaceOK
<1>5. "power" \in CrashKinds => Holds(iStable, FreshPairs(MaxIds, Floor))
  BY DEF OrderInv, StableOrder
<1> HIDE DEF Floor
<1> QED  BY <1>2, <1>3, <1>4, <1>5, LargerSet

\* A step after which nothing is being stored keeps the order when the index it leaves is sound.
LEMMA Settles ==
    ASSUME HInv, OrderInv, pc # "down", pc' # "down", ~Storing', cursor' = cursor,
           dDisk' = dDisk, dRuns' = <<>>,
           "power" \in CrashKinds => dStable' = dDisk,
           iDisk' \in {iDisk, iView}, iStable' \in {iStable, iDisk}, dRuns = <<>>,
           Within(iRuns', WholePairs(dDisk)), pc' \in NoSlots => iRuns' = <<>>,
           pc' = "slot_stage" => call'.slot.st # "live",
           DOMAIN upd' # {} => pc' = "restore",
           \A id \in DOMAIN upd' : id \in DOMAIN upd /\ upd'[id] = upd[id]
    PROVE  OrderInv'
<1>1. Floor' = cursor
  BY DEF Floor
<1>2. dView' = dDisk
  <2>1. dView' = Shown(dDisk, <<>>)
    BY DEF dView, Data!Overlay, Data!End, Shown
  <2>2. dDisk = [p \in Cells |-> dDisk[p]]
    BY DEF HInv, FilesOK
  <2> QED  BY <2>1, <2>2 DEF Shown
<1>3. DataOrder'
  BY <1>1, EmptyRuns DEF DataOrder
<1>4. Holds(iDisk', WholePairs(dDisk)) /\ Holds(iDisk', FreshPairs(MaxIds, cursor))
  BY ViewWhole, SlotsBelow DEF OrderInv, IndexOrder
<1>5. IndexOrder'
  BY <1>1, <1>2, <1>4 DEF IndexOrder
<1>6. UpdOrder'
  BY DEF OrderInv, UpdOrder
<1>7. StableOrder'
  <2> SUFFICES ASSUME "power" \in CrashKinds
               PROVE  Holds(iStable', WholePairs(dDisk)) /\ Holds(iStable', FreshPairs(MaxIds, cursor))
    BY <1>1 DEF StableOrder
  <2> QED  BY SlotsBelow DEF OrderInv, IndexOrder, StableOrder
<1> QED  BY <1>3, <1>5, <1>6, <1>7 DEF OrderInv

\* A call stages its record behind everything.
LEMMA StoreStep ==
    ASSUME HInv, OrderInv, pc \in {"idle", "record_read"}, pc' = "slot_stage",
           call'.kind \in {"insert", "update"}, NEW r \in Record, call'.id = r.id,
           call'.slot = Live(cursor, r.len), cursor + r.len <= MaxCell, cursor' = cursor + r.len,
           dDisk' = dDisk, dRuns' = <<[start |-> cursor, vals |-> CellsOf(r)]>>,
           UNCHANGED <<dStable, iDisk, iStable, iRuns, upd>>
    PROVE  OrderInv'
<1>1. /\ Floor = cursor /\ Floor' = cursor /\ Storing' /\ cursor \in Nat /\ cursor >= DATA_PAGE
      /\ cursor <= cursor'
  <2>1. r.len \in Nat
    BY LengthsAre DEF Record
  <2>2. cursor \in Nat /\ cursor >= DATA_PAGE
    BY CellNumbers DEF HInv, PlaceOK
  <2>3. Floor = cursor /\ Floor' = cursor /\ Storing'
    BY DEF Floor, Storing, Live
  <2> QED  BY <2>1, <2>2, <2>3
<1>2. /\ <<r.id, Live(cursor, r.len)>> \in WholePairs(Shown(dDisk, dRuns'))
      /\ Within(dRuns', AbovePairs(cursor))
  BY <1>1, StagedWhole, Zenon DEF HInv, FilesOK
<1>3. dView' = Shown(dDisk, dRuns')
  BY DEF dView, Data!Overlay, Data!End, Shown
<1>4. DataOrder'
  <2>1. call'.slot.off = cursor
    BY DEF Live
  <2> QED  BY <1>1, <1>2, <1>3, <2>1 DEF DataOrder, Storing
<1>5. iRuns' = <<>>
  BY DEF OrderInv, IndexOrder, NoSlots
<1>6. IndexOrder'
  BY <1>1, <1>5, EmptyRuns DEF OrderInv, IndexOrder
<1>7. UpdOrder'
  BY DEF OrderInv, UpdOrder
<1>8. StableOrder'
  BY <1>1 DEF OrderInv, StableOrder
<1> QED  BY <1>4, <1>6, <1>7, <1>8 DEF OrderInv

\* Of an insert.
LEMMA InsertOrder ==
    ASSUME HInv, OrderInv, NEW len \in Lens, Insert(len)
    PROVE  OrderInv'
<1> DEFINE r == [id |-> nextId, ver |-> 1 % VersionMod, len |-> len, tag |-> ops + 1]
<1>1. /\ pc = "idle" /\ ops < MaxOps /\ cursor + len <= MaxCell /\ cursor' = cursor + len
      /\ nextId < MaxIds /\ dRuns' = Data!Staged(dRuns, cursor, CellsOf(r))
      /\ call' = [kind |-> "insert", id |-> nextId, len |-> len, slot |-> Live(cursor, len)]
      /\ pc' = "slot_stage" /\ UNCHANGED <<files, iRuns, opening>>
  BY DEF Insert, Alloc, AllocUpdate
<1>2. r \in Record /\ r.len = len /\ r.id = nextId
  <2>1. 1 % VersionMod \in 0 .. VersionMod - 1
    BY AppendAssumption
  <2>2. ops + 1 \in 1 .. MaxOps
    BY <1>1, AppendAssumption DEF HInv, CountOK
  <2>3. nextId \in Ids
    BY <1>1, CellNumbers DEF HInv, PlaceOK
  <2> QED  BY <2>1, <2>2, <2>3 DEF Record
<1> HIDE DEF r
<1>3. dRuns = <<>>
  BY <1>1 DEF OrderInv, DataOrder, Storing
<1>4. dRuns' = <<[start |-> cursor, vals |-> CellsOf(r)]>>
  <2>1. Data!OpenWrite(<<>>, cursor) = 0
    BY DEF Data!OpenWrite, Data!SelectInSeq
  <2>2. ~Data!CanExtend(<<>>, cursor, Len(CellsOf(r)))
    BY <2>1 DEF Data!CanExtend
  <2>3. dRuns' = Append(<<>>, [start |-> cursor, vals |-> CellsOf(r)])
    BY <1>1, <1>3, <2>2 DEF Data!Staged
  <2> QED  BY <2>3
<1>5. call'.kind = "insert" /\ call'.id = r.id /\ call'.slot = Live(cursor, r.len)
  BY <1>1, <1>2
<1>6. UNCHANGED <<dDisk, dStable, iDisk, iStable, iRuns, upd>>
  BY <1>1 DEF files, opening
<1> QED  BY <1>1, <1>2, <1>4, <1>5, <1>6, StoreStep

\* Of update after its slot was read.
LEMMA UpdateOrder ==
    ASSUME HInv, OrderInv, UpdateRecord
    PROVE  OrderInv'
<1> DEFINE old == dView[call.slot.off].rec
           r == [id |-> call.id, ver |-> (old.ver + 1) % VersionMod,
                 len |-> call.len, tag |-> ops + 1]
<1>1. /\ pc = "record_read" /\ call.kind = "update" /\ dDisk' = dView
      /\ UNCHANGED <<iDisk, dStable, iStable, iRuns, opening>>
      /\ \/ pc' = "idle" /\ call' = NoCall /\ dRuns' = <<>> /\ UNCHANGED cursor
         \/ /\ ReadHeader(dView, call.slot.off, call.id)
            /\ cursor + call.len <= MaxCell /\ cursor' = cursor + call.len
            /\ dRuns' = <<[start |-> cursor, vals |-> CellsOf(r)]>>
            /\ call' = [call EXCEPT !.slot = Live(cursor, call.len)]
            /\ pc' = "slot_stage"
  BY DEF UpdateRecord, AllocUpdate
<1>2. /\ dRuns = <<>> /\ iRuns = <<>> /\ DOMAIN upd = {}
      /\ "power" \in CrashKinds => dStable = dDisk
  BY <1>1, Zenon DEF OrderInv, DataOrder, Storing, IndexOrder, NoSlots, UpdOrder, StableOrder
<1>3. dDisk' = dDisk
  BY <1>1, <1>2, NothingStaged
<1>4. CASE pc' = "idle" /\ call' = NoCall /\ dRuns' = <<>> /\ UNCHANGED cursor
  <2>1. ~Storing'
    BY <1>4 DEF Storing
  <2>2. Within(iRuns', WholePairs(dDisk)) /\ iRuns' = <<>> /\ DOMAIN upd' = {}
    BY <1>1, <1>2, EmptyRuns DEF opening
  <2> QED  BY <1>1, <1>2, <1>3, <1>4, <2>1, <2>2, Settles
<1>5. CASE /\ ReadHeader(dView, call.slot.off, call.id)
           /\ cursor + call.len <= MaxCell /\ cursor' = cursor + call.len
           /\ dRuns' = <<[start |-> cursor, vals |-> CellsOf(r)]>>
           /\ call' = [call EXCEPT !.slot = Live(cursor, call.len)]
           /\ pc' = "slot_stage"
  <2>1. r \in Record /\ r.len = call.len /\ r.id = call.id
    <3>1. call.id \in Ids /\ call.len \in Lens /\ ops < MaxOps
      BY <1>1 DEF HInv, CallOK, Calling
    <3>2. HeaderAt(dView, call.slot.off)
      BY <1>5 DEF ReadHeader
    <3>3. old.ver \in Nat
      BY <3>2, ViewTypes, HeadersAre
    <3>4. (old.ver + 1) % VersionMod \in 0 .. VersionMod - 1
      BY <3>3, AppendAssumption
    <3>5. ops + 1 \in 1 .. MaxOps
      BY <3>1, AppendAssumption DEF HInv, CountOK
    <3> QED  BY <3>1, <3>4, <3>5 DEF Record
  <2> HIDE DEF r
  <2>2. call'.kind = "update" /\ call'.id = r.id /\ call'.slot = Live(cursor, r.len)
    BY <1>1, <1>5, <2>1 DEF HInv, CallOK
  <2>3. UNCHANGED <<dStable, iDisk, iStable, iRuns, upd>>
    BY <1>1 DEF opening
  <2> QED  BY <1>1, <1>3, <1>5, <2>1, <2>2, <2>3, StoreStep
<1> QED  BY <1>1, <1>4, <1>5

\* The slot is staged, and the operation commits.
LEMMA SlotOrder ==
    ASSUME HInv, OrderInv, SlotFlush \/ SlotStage, SyncEvery = 1
    PROVE  OrderInv'
<1>1. pc = "slot_stage" /\ UNCHANGED <<dDisk, dStable, iStable, dRuns, cursor, upd>>
  BY DEF SlotFlush, SlotStage, files, placement, opening
<1>2. iRuns = <<>> /\ iView = iDisk
  BY <1>1, NothingStaged DEF OrderInv, IndexOrder, NoSlots
<1>3. CASE SlotFlush
  <2>1. UNCHANGED <<dDisk, dStable, iDisk, iStable, dRuns, iRuns, cursor, pc, call, upd>>
    BY <1>1, <1>2, <1>3 DEF SlotFlush, FlushIndex
  <2> QED  BY <2>1 DEF OrderInv, DataOrder, IndexOrder, UpdOrder, StableOrder, Floor, Storing, dView
<1>4. CASE SlotStage
  <2>1. pc' = "commit_data" /\ UNCHANGED call
    <3>1. (sinceSync + 1) % CounterMod \in Nat
      BY AppendAssumption DEF HInv, CountOK
    <3>2. \A n \in Nat : n % 1 = 0
      OBVIOUS
    <3>3. CommitDue((sinceSync + 1) % CounterMod, dRuns, StageSlot(iRuns, call.id, call.slot))
      BY <3>1, <3>2 DEF CommitDue
    <3> QED  BY <1>4, <3>3 DEF SlotStage
  <2>2. iRuns' = StageSlot(<<>>, call.id, call.slot) /\ UNCHANGED iDisk
    BY <1>2, <1>4 DEF SlotStage, files
  <2>3. call.id \in Ids /\ call.slot \in Slots /\ <<call.id, call.slot>> \in WholePairs(dView)
    BY <1>1 DEF HInv, CallOK, Calling, OrderInv, DataOrder, WholePairs
  <2>4. Within(iRuns', WholePairs(dView))
    BY <2>2, <2>3, EmptyRuns, StageSlotIs, Zenon
  <2>5. Storing' = Storing /\ Floor' = Floor /\ dView' = dView
    BY <1>1, <2>1 DEF Storing, Floor, dView
  <2>6. DataOrder'
    BY <1>1, <2>1, <2>5 DEF OrderInv, DataOrder
  <2>7. IndexOrder'
    BY <1>1, <2>1, <2>2, <2>4, <2>5 DEF OrderInv, IndexOrder, NoSlots
  <2>8. UpdOrder' /\ StableOrder'
    BY <1>1, <2>1, <2>2, <2>5 DEF OrderInv, UpdOrder, StableOrder
  <2> QED  BY <2>6, <2>7, <2>8 DEF OrderInv
<1> QED  BY <1>3, <1>4

\* The data is flushed: the record is where its slot will say.
LEMMA DataOrderStep ==
    ASSUME HInv, OrderInv, CommitData
    PROVE  OrderInv'
<1>1. /\ pc = "commit_data" /\ pc' = "commit_sync" /\ dDisk' = dView /\ dRuns' = <<>>
      /\ UNCHANGED <<iDisk, dStable, iStable, iRuns, cursor, call, upd>>
  BY DEF CommitData, FlushData, placement, opening
<1>2. Storing' = Storing /\ Floor' = Floor
  BY <1>1 DEF Storing, Floor
<1>3. dView' = dView
  <2>1. dView' = Shown(dView, <<>>)
    BY <1>1 DEF dView, Data!Overlay, Data!End, Shown
  <2>2. dView = [p \in Cells |-> dView[p]]
    BY ViewTypes
  <2> QED  BY <2>1, <2>2 DEF Shown
<1>4. DataOrder'
  BY <1>1, <1>2, <1>3, EmptyRuns DEF OrderInv, DataOrder
<1>5. IndexOrder'
  BY <1>1, <1>2, <1>3, ViewWhole DEF OrderInv, IndexOrder, NoSlots
<1>6. UpdOrder'
  BY <1>1 DEF OrderInv, UpdOrder
<1>7. StableOrder'
  <2> SUFFICES ASSUME "power" \in CrashKinds PROVE StableOrder'
    BY DEF StableOrder
  <2>1. \A p \in Cells : p < Floor => dStable[p] = dView[p]
    BY <1>1, ViewBelow DEF OrderInv, StableOrder
  <2> QED  BY <1>1, <1>2, <2>1, ViewWhole DEF OrderInv, StableOrder
<1> QED  BY <1>4, <1>5, <1>6, <1>7 DEF OrderInv

\* The other steps of calls.
LEMMA CallOrder ==
    ASSUME HInv, OrderInv,
           \/ \E id \in Ids : BeginRead(id) \/ BeginDelete(id)
           \/ \E id \in Ids, len \in Lens : BeginUpdate(id, len)
           \/ \E kind \in {"flush", "close"} : BeginFlush(kind)
           \/ ReadSlot \/ ReadRecord
    PROVE  OrderInv'
<1>1. /\ pc \in {"idle", "slot_read", "record_read"}
      /\ pc' \in {"idle", "slot_read", "record_read", "slot_stage", "commit_data"}
      /\ pc' = "commit_data" => call'.kind \notin {"insert", "update"}
      /\ UNCHANGED <<cursor, upd, dStable, iStable>>
      /\ dDisk' \in {dDisk, dView} /\ dRuns' \in {dRuns, <<>>}
      /\ iDisk' \in {iDisk, iView} /\ iRuns' \in {iRuns, <<>>}
  <2>1. CASE \E id \in Ids : BeginRead(id)
    BY <2>1, Zenon DEF BeginRead, files, placement, opening
  <2>2. CASE \E id \in Ids : BeginDelete(id)
    BY <2>2, Zenon DEF BeginDelete, files, placement, opening
  <2>3. CASE \E id \in Ids, len \in Lens : BeginUpdate(id, len)
    BY <2>3, Zenon DEF BeginUpdate, files, placement, opening
  <2>4. CASE \E kind \in {"flush", "close"} : BeginFlush(kind)
    BY <2>4 DEF BeginFlush, files, placement, opening, NoCall
  <2>5. CASE ReadSlot
    BY <2>5 DEF ReadSlot, FlushIndex, placement, opening
  <2>6. CASE ReadRecord
    BY <2>6 DEF ReadRecord, FlushData, placement, opening
  <2> QED  BY <2>1, <2>2, <2>3, <2>4, <2>5, <2>6
<1>2. /\ dRuns = <<>> /\ iRuns = <<>> /\ DOMAIN upd = {} /\ dView = dDisk
      /\ "power" \in CrashKinds => dStable = dDisk
  BY <1>1, NothingStaged, Zenon DEF OrderInv, DataOrder, Storing, IndexOrder, NoSlots, UpdOrder, StableOrder
<1>3. pc' = "slot_stage" => call'.slot.st # "live" /\ call'.kind = "delete"
  <2> SUFFICES ASSUME pc' = "slot_stage" PROVE call'.slot.st # "live" /\ call'.kind = "delete"
    OBVIOUS
  <2>1. /\ pc = "slot_read" /\ call.kind = "delete" /\ iView[call.id].st = "live"
        /\ call' = [call EXCEPT !.slot = Tombstone(iView[call.id])]
    BY DEF BeginRead, BeginDelete, BeginUpdate, BeginFlush, ReadSlot, ReadRecord
  <2>2. iView[call.id] \in Slots
    BY <2>1, ViewTypes DEF HInv, CallOK, Calling
  <2>3. Tombstone(iView[call.id]).st = "deleted"
    BY <2>1, <2>2, SlotIs DEF Tombstone
  <2>4. call'.slot = Tombstone(iView[call.id]) /\ call'.kind = call.kind
    BY <2>1 DEF HInv, CallOK
  <2> QED  BY <2>1, <2>3, <2>4
<1>4. ~Storing'
  BY <1>1, <1>3 DEF Storing
<1>5. Within(iRuns', WholePairs(dDisk)) /\ iRuns' = <<>> /\ dRuns' = <<>> /\ dDisk' = dDisk
  BY <1>1, <1>2, EmptyRuns
<1>6. pc # "down" /\ pc' # "down" /\ DOMAIN upd' = {}
  BY <1>1, <1>2
<1> QED  BY <1>1, <1>2, <1>3, <1>4, <1>5, <1>6, Settles

\* The steps of a commit and of a restore behind the flush of the data.
LEMMA CommitOrder ==
    ASSUME HInv, OrderInv,
           \/ CommitSync \/ CommitIndex \/ RestoreFlush \/ RestoreSync
           \/ IndexSync /\ ~LoseMemory
    PROVE  OrderInv'
<1>1. /\ pc \in {"commit_sync", "commit_index", "index_sync", "restore_flush", "restore_sync"}
      /\ pc' \in {"idle", "commit_index", "index_sync", "restore_sync"}
      /\ UNCHANGED <<dDisk, dRuns, cursor, upd>>
      /\ dStable' \in {dStable, dDisk} /\ (pc = "commit_sync" => dStable' = dDisk)
      /\ iDisk' \in {iDisk, iView} /\ iRuns' \in {iRuns, <<>>}
      /\ iStable' \in {iStable, iDisk}
      /\ pc = "commit_sync" => pc' = "commit_index"
      /\ pc \in {"commit_index", "restore_flush"} => iRuns' = <<>>
  <2>1. CASE CommitSync
    BY <2>1 DEF CommitSync, placement, opening
  <2>2. CASE CommitIndex
    BY <2>2 DEF CommitIndex, FlushIndex, placement, opening
  <2>3. CASE RestoreFlush
    BY <2>3 DEF RestoreFlush, FlushIndex, placement, opening
  <2>4. CASE RestoreSync
    BY <2>4 DEF RestoreSync, placement
  <2>5. CASE IndexSync /\ ~LoseMemory
    BY <2>5 DEF IndexSync, placement, opening
  <2> QED  BY <2>1, <2>2, <2>3, <2>4, <2>5
<1>2. /\ dRuns = <<>> /\ DOMAIN upd = {} /\ dView = dDisk
      /\ "power" \in CrashKinds => dStable' = dDisk
  BY <1>1, NothingStaged, Zenon DEF OrderInv, DataOrder, Storing, UpdOrder, StableOrder
<1>3. ~Storing' /\ pc # "down" /\ pc' # "down" /\ DOMAIN upd' = {} /\ pc' # "slot_stage"
  BY <1>1, <1>2 DEF Storing
<1>4. Within(iRuns', WholePairs(dDisk))
  BY <1>1, <1>2, EmptyRuns DEF OrderInv, IndexOrder
<1>5. pc' \in NoSlots => iRuns' = <<>>
  BY <1>1 DEF OrderInv, IndexOrder, NoSlots
<1> QED  BY <1>1, <1>2, <1>3, <1>4, <1>5, Settles

\* One turn of the loop over updates.
LEMMA RestoreOrder ==
    ASSUME HInv, OrderInv, NEW id \in DOMAIN upd, RestoreUpdate(id)
    PROVE  OrderInv'
<1> DEFINE u == upd[id]
           live == Live(u.off, u.len)
           left == DOMAIN upd \ {id}
<1>1. /\ pc = "restore" /\ iDisk' = iView
      /\ \/ Superseded(id, u) /\ iRuns' = <<>>
         \/ ~Superseded(id, u) /\ iRuns' = StageSlot(<<>>, id, live)
      /\ upd' = [x \in left |-> upd[x]]
      /\ pc' = IF left # {} THEN "restore" ELSE AfterRestore(restored \/ ~Superseded(id, u))
      /\ UNCHANGED <<dDisk, dStable, iStable, dRuns, cursor>>
  BY DEF RestoreUpdate, placement
<1>2. /\ dRuns = <<>>
      /\ "power" \in CrashKinds => dStable = dDisk
  BY <1>1 DEF OrderInv, DataOrder, Storing, StableOrder
<1>3. id \in Ids /\ <<id, live>> \in WholePairs(dDisk) /\ live \in Slots
  BY DEF HInv, UpdOK, FreshPairs, OrderInv, UpdOrder
<1> HIDE DEF live
<1>4. Within(iRuns', WholePairs(dDisk))
  BY <1>1, <1>3, EmptyRuns, StageSlotIs, Zenon
<1>5. /\ pc' \in {"restore", "restore_flush", "idle"}
      /\ pc' = "idle" => iRuns' = <<>>
  BY <1>1 DEF AfterRestore
<1>6. ~Storing' /\ pc # "down" /\ pc' # "down" /\ pc' # "slot_stage" /\ (pc' \in NoSlots => iRuns' = <<>>)
  BY <1>1, <1>5 DEF Storing, NoSlots
<1>7. /\ DOMAIN upd' = left /\ (left # {} => pc' = "restore")
      /\ \A x \in DOMAIN upd' : x \in DOMAIN upd /\ upd'[x] = upd[x]
  BY <1>1
<1> QED  BY <1>1, <1>2, <1>4, <1>6, <1>7, Settles

\* What an open restores are slots of whole records.
LEMMA OpenOrder ==
    ASSUME HInv, OrderInv, Open
    PROVE  OrderInv'
<1>1. /\ pc = "down" /\ pc' \in {"restore", "restore_flush", "idle"}
      /\ pc' = "idle" => iRuns' = <<>>
      /\ DOMAIN upd' # {} => pc' = "restore"
      /\ UNCHANGED <<dDisk, dStable, iDisk, iStable, dRuns>>
  <2>1. UNCHANGED <<dDisk, dStable, iDisk, iStable, dRuns>> /\ pc = "down"
    BY DEF Open, files
  <2>2. PICK some : /\ some = (iRuns' # <<>>)
                    /\ pc' = IF DOMAIN upd' # {} THEN "restore" ELSE AfterRestore(some)
    BY Zenon DEF Open
  <2> QED  BY <2>1, <2>2, Zenon DEF AfterRestore
<1>2. dRuns = <<>> /\ dRuns' = <<>> /\ ~Storing' /\ Floor' = cursor'
  BY <1>1 DEF OrderInv, DataOrder, Storing, Floor
<1>3. dView' = dDisk
  <2>1. dView' = Shown(dDisk, <<>>)
    BY <1>1, <1>2 DEF dView, Data!Overlay, Data!End, Shown
  <2>2. dDisk = [p \in Cells |-> dDisk[p]]
    BY DEF HInv, FilesOK
  <2> QED  BY <2>1, <2>2 DEF Shown
<1>4. /\ HInv' /\ Within(iRuns', WholePairs(dDisk))
      /\ \A id \in DOMAIN upd' : <<id, Live(upd'[id].off, upd'[id].len)>> \in WholePairs(dDisk)
  BY OpenStep
<1>5. Holds(iDisk, FreshPairs(MaxIds, cursor'))
  <2>1. /\ cursor' \in Nat /\ nextId' \in Nat /\ nextId' <= MaxIds /\ MaxIds \in Nat
        /\ Holds(iDisk, FreshPairs(nextId', cursor'))
    BY <1>1, <1>4, CellNumbers DEF HInv, PlaceOK
  <2>2. FreshPairs(nextId', cursor') \subseteq FreshPairs(MaxIds, cursor')
    BY <2>1, FreshMore
  <2> QED  BY <2>1, <2>2, LargerSet
<1>6. DataOrder'
  BY <1>1, <1>2, EmptyRuns DEF DataOrder
<1>7. IndexOrder'
  BY <1>1, <1>2, <1>3, <1>4, <1>5 DEF OrderInv, IndexOrder, NoSlots
<1>8. UpdOrder'
  BY <1>1, <1>4 DEF UpdOrder
<1>9. StableOrder'
  BY <1>1, <1>2, <1>5 DEF OrderInv, StableOrder
<1> QED  BY <1>6, <1>7, <1>8, <1>9 DEF OrderInv

\* What a flush that is cut short leaves of the two files: either the data file is as it
\* was and the index sound for it, or the index is as it was and the data above Floor.
LEMMA TornOrder ==
    ASSUME HInv, OrderInv, pc # "down"
    PROVE  \/ /\ pc # "commit_sync" /\ \A d \in DataTorn : d = dDisk
              /\ \A i \in IndexTorn : Holds(i, WholePairs(dDisk))
           \/ /\ \A i \in IndexTorn : i = iDisk
              /\ \A d \in DataTorn : \A p \in Cells : p < Floor => d[p] = dDisk[p]
<1>1. CASE dRuns = <<>> /\ pc # "commit_sync"
  <2>1. dView = dDisk /\ dDisk \in [Cells -> AllCells]
    BY <1>1, NothingStaged DEF HInv, FilesOK
  <2>2. \A d \in DataTorn : d \in [Cells -> AllCells] /\ \A x \in Cells : d[x] = dDisk[x]
    BY <2>1, TornIs
  <2>3. \A d \in DataTorn : d = dDisk
    BY <2>1, <2>2
  <2>4. ASSUME NEW i \in IndexTorn PROVE Holds(i, WholePairs(dDisk))
    <3>1. i \in [Ids -> Slots] /\ \A x \in Ids : i[x] \in {iDisk[x], iView[x]}
      BY TornIs
    <3>2. /\ Holds(iDisk, WholePairs(dDisk)) /\ Holds(iView, WholePairs(dDisk))
          /\ DOMAIN iDisk = Ids /\ DOMAIN iView = Ids
      BY <1>1, ViewWhole, ViewTypes DEF OrderInv, IndexOrder, HInv, FilesOK
    <3> QED  BY <3>1, <3>2, Mixed
  <2> QED  BY <1>1, <2>3, <2>4
<1>2. CASE ~(dRuns = <<>> /\ pc # "commit_sync")
  <2>1. pc \in {"slot_stage", "commit_data", "commit_sync"}
    BY <1>2 DEF OrderInv, DataOrder, Storing
  <2>2. ASSUME NEW i \in IndexTorn PROVE i = iDisk
    <3>1. CASE pc = "slot_stage"
      <4>1. iView = iDisk /\ iDisk \in [Ids -> Slots]
        BY <3>1, NothingStaged DEF OrderInv, IndexOrder, NoSlots, HInv, FilesOK
      <4>2. i \in [Ids -> Slots] /\ \A x \in Ids : i[x] = iDisk[x]
        BY <4>1, TornIs
      <4> QED  BY <4>1, <4>2
    <3>2. CASE pc # "slot_stage"
      BY <2>1, <3>2 DEF IndexTorn
    <3> QED  BY <3>1, <3>2
  <2>3. \A d \in DataTorn : \A p \in Cells : p < Floor => d[p] = dDisk[p]
    BY TornIs, ViewBelow
  <2> QED  BY <2>2, <2>3
<1> QED  BY <1>1, <1>2

\* The memory is gone, and the files are sound.
LEMMA LoseOrder ==
    ASSUME LoseMemory, Holds(iDisk', WholePairs(dDisk')),
           "power" \in CrashKinds => iStable' = iDisk' /\ dStable' = dDisk'
    PROVE  OrderInv'
<1>1. dRuns' = <<>> /\ iRuns' = <<>> /\ pc' = "down" /\ upd' = <<>>
  BY DEF LoseMemory
<1>2. DataOrder'
  BY <1>1, EmptyRuns DEF DataOrder, Storing
<1>3. IndexOrder'
  BY <1>1, EmptyRuns DEF IndexOrder
<1>4. UpdOrder'
  BY <1>1 DEF UpdOrder
<1>5. StableOrder'
  BY <1>1 DEF StableOrder
<1> QED  BY <1>2, <1>3, <1>4, <1>5 DEF OrderInv

\* A crash, when only one kind of crash is possible.
LEMMA CrashOrder ==
    ASSUME HInv, OrderInv, Kill \/ PowerLoss, CrashKinds # {"kill", "power"}
    PROVE  OrderInv'
<1> DEFINE W == WholePairs(dDisk) \intersect FreshPairs(MaxIds, Floor)
<1>0. pc # "down" /\ LoseMemory
  BY DEF Kill, PowerLoss
<1>1. Holds(iDisk, W) /\ ("power" \in CrashKinds => Holds(iStable, W))
  BY <1>0 DEF OrderInv, IndexOrder, StableOrder, Holds
<1>2. /\ dDisk \in [Cells -> AllCells] /\ dStable \in [Cells -> AllCells] /\ Floor \in Nat
      /\ DOMAIN iDisk = Ids /\ DOMAIN iStable = Ids
  BY FloorIs DEF HInv, FilesOK
<1>3. ASSUME NEW d \in [Cells -> AllCells], \A p \in Cells : p < Floor => dDisk[p] = d[p]
      PROVE  W \subseteq WholePairs(d)
  <2> HIDE DEF Floor
  <2> QED  BY <1>2, <1>3, WholeBelow
<1> HIDE DEF W
<1>4. CASE Kill
  <2>1. dDisk' \in DataTorn /\ iDisk' \in IndexTorn /\ "kill" \in CrashKinds
    BY <1>4 DEF Kill
  <2>2. "power" \notin CrashKinds
    BY <2>1, AppendAssumption, Zenon
  <2>3. dDisk' \in [Cells -> AllCells]
    BY <2>1, TornIs
  <2>4. Holds(iDisk', WholePairs(dDisk'))
    <3>1. CASE \A d \in DataTorn : d = dDisk /\ \A i \in IndexTorn : Holds(i, WholePairs(dDisk))
      BY <2>1, <3>1
    <3>2. CASE /\ \A i \in IndexTorn : i = iDisk
               /\ \A d \in DataTorn : \A p \in Cells : p < Floor => d[p] = dDisk[p]
      <4>1. W \subseteq WholePairs(dDisk')
        BY <1>3, <2>1, <2>3, <3>2
      <4>2. iDisk' = iDisk
        BY <2>1, <3>2
      <4> QED  BY <1>1, <4>1, <4>2, LargerSet
    <3> QED  BY <1>0, <3>1, <3>2, TornOrder
  <2> QED  BY <1>0, <2>2, <2>4, LoseOrder
<1>5. CASE PowerLoss
  <2>1. "power" \in CrashKinds /\ dStable' = dDisk' /\ iStable' = iDisk'
    BY <1>5 DEF PowerLoss
  <2>2. PICK d \in DataTorn : \A x \in Cells : dDisk'[x] \in {d[x], dStable[x]}
    BY <1>5, LossIs
  <2>3. PICK i \in IndexTorn : \A x \in Ids : iDisk'[x] \in {i[x], iStable[x]}
    BY <1>5, LossIs
  <2>4. dDisk' \in [Cells -> AllCells] /\ DOMAIN iDisk' = Ids /\ DOMAIN i = Ids
    BY <1>5, LossIs, TornIs
  <2> DEFINE e == dDisk'
             j == iDisk'
  <2>5. /\ e \in [Cells -> AllCells] /\ \A x \in Cells : e[x] \in {d[x], dStable[x]}
        /\ DOMAIN j = Ids /\ \A x \in Ids : j[x] \in {i[x], iStable[x]}
    BY <2>2, <2>3, <2>4
  <2> HIDE DEF e, j
  <2>6. Holds(j, WholePairs(e))
    <3>1. CASE pc # "commit_sync" /\ d = dDisk /\ Holds(i, WholePairs(dDisk))
      <4>1. dStable = dDisk /\ Holds(iStable, WholePairs(dDisk))
        BY <2>1, <3>1 DEF OrderInv, StableOrder
      <4>2. e = dDisk
        BY <1>2, <2>5, <3>1, <4>1
      <4> QED  BY <1>2, <2>4, <2>5, <3>1, <4>1, <4>2, Mixed
    <3>2. CASE i = iDisk /\ \A p \in Cells : p < Floor => d[p] = dDisk[p]
      <4>1. \A p \in Cells : p < Floor => dStable[p] = dDisk[p]
        BY <2>1 DEF OrderInv, StableOrder
      <4>2. \A p \in Cells : p < Floor => dDisk[p] = e[p]
        BY <2>5, <3>2, <4>1
      <4>3. W \subseteq WholePairs(e)
        BY <1>3, <2>5, <4>2
      <4>4. Holds(iDisk, WholePairs(e)) /\ Holds(iStable, WholePairs(e))
        BY <1>1, <2>1, <4>3, LargerSet
      <4> QED  BY <1>2, <2>5, <3>2, <4>4, Mixed
    <3> QED  BY <1>0, <3>1, <3>2, TornOrder
  <2> QED  BY <1>0, <2>1, <2>6, LoseOrder DEF e, j
<1> QED  BY <1>4, <1>5

\* Every step keeps the order.
LEMMA StepOrder ==
    ASSUME HInv, OrderInv, [Next]_vars, SyncEvery = 1, CrashKinds # {"kill", "power"}
    PROVE  OrderInv'
<1>1. CASE Begin
  BY <1>1, InsertOrder, CallOrder DEF Begin
<1>2. CASE IndexSync /\ LoseMemory
  <2>1. pc = "index_sync" /\ iStable' = iDisk /\ UNCHANGED <<dDisk, iDisk, dStable>>
    BY <1>2 DEF IndexSync
  <2>2. /\ Holds(iDisk', WholePairs(dDisk'))
        /\ "power" \in CrashKinds => dStable' = dDisk'
    BY <2>1 DEF OrderInv, IndexOrder, StableOrder
  <2> QED  BY <1>2, <2>1, <2>2, LoseOrder
<1>3. CASE UNCHANGED vars
  <2>1. UNCHANGED <<dDisk, dStable, iDisk, iStable, dRuns, iRuns, cursor, pc, call, upd>>
    BY <1>3 DEF vars, files, placement, opening
  <2> QED  BY <2>1 DEF OrderInv, DataOrder, IndexOrder, UpdOrder, StableOrder, Floor, Storing, dView
<1> QED  BY <1>1, <1>2, <1>3, CallOrder, UpdateOrder, SlotOrder, DataOrderStep, CommitOrder,
            RestoreOrder, OpenOrder, CrashOrder DEF Next, Continue, Proceed

\* A new store is in order.
LEMMA InitOrder ==
    ASSUME Init
    PROVE  OrderInv
<1>1. /\ dRuns = <<>> /\ iRuns = <<>> /\ upd = <<>> /\ pc = "idle" /\ dStable = dDisk
      /\ iStable = iDisk /\ iDisk = [id \in Ids |-> Empty]
  BY DEF Init, NewStore
<1>2. Empty \in Slots /\ Empty.st = "empty"
  BY DEF Slots, Empty
<1>3. Holds(iDisk, WholePairs(dDisk)) /\ Holds(iDisk, FreshPairs(MaxIds, Floor))
  BY <1>1, <1>2 DEF Holds, WholePairs, FreshPairs
<1>4. DataOrder
  BY <1>1, EmptyRuns DEF DataOrder, Storing
<1>5. IndexOrder
  BY <1>1, <1>3, EmptyRuns DEF IndexOrder
<1>6. UpdOrder
  BY <1>1 DEF UpdOrder
<1>7. StableOrder
  BY <1>1, <1>3 DEF StableOrder
<1> QED  BY <1>4, <1>5, <1>6, <1>7 DEF OrderInv

\* With a commit after every operation, and as long as either the process is killed or the
\* power fails but not both, a live slot in the index file refers to a whole record of its
\* number and length in the data file at every point, also in the middle of a torn flush and
\* of a recovery: the data is flushed and synced before the slot leaves the process.
THEOREM DataBeforeIndex ==
    ASSUME SyncEvery = 1, CrashKinds # {"kill", "power"}
    PROVE  Spec => []IndexNeverAheadOfData
<1>1. Init => OrderInv
  BY InitOrder
<1>2. HInv /\ OrderInv /\ [Next]_vars => OrderInv'
  BY StepOrder
<1>3. HInv /\ OrderInv => IndexNeverAheadOfData
  <2> SUFFICES ASSUME HInv, OrderInv, NEW id \in Ids PROVE Read(dDisk, iDisk, id) # Corrupt
    BY DEF IndexNeverAheadOfData
  <2> DEFINE s == iDisk[id]
  <2>1. <<id, s>> \in WholePairs(dDisk)
    BY DEF OrderInv, IndexOrder, Holds, HInv, FilesOK
  <2>2. CASE s.st # "live"
    BY <2>2 DEF Read, NotFound, Corrupt
  <2>3. CASE s.st = "live"
    <3>1. RecordAt(dDisk, s.off) /\ dDisk[s.off].rec.id = id /\ dDisk[s.off].rec.len = s.len
      BY <2>1, <2>3 DEF WholePairs
    <3>2. dDisk[s.off].rec \in Record
      BY <3>1, HeadersAre DEF HInv, FilesOK, RecordAt
    <3>3. dDisk[s.off].rec.tag \in 1 .. MaxOps
      BY <3>2 DEF Record
    <3>4. Read(dDisk, iDisk, id) = dDisk[s.off].rec.tag
      BY <2>3, <3>1 DEF Read
    <3> QED  BY <3>3, <3>4, AppendAssumption DEF Corrupt
  <2> QED  BY <2>2, <2>3
<1> QED  BY <1>1, <1>2, <1>3, HeapInvariance, PTL DEF Spec

-----------------------------------------------------------------------------
(* The promise of the heap: with SyncPolicy::EveryN(1), as long as only the process is  *)
(* killed and versions do not wrap, every step is a step of HeapSpec.                   *)

\* The slots of the index i are those of the numbers below n, and the furthest of their
\* records ends at c: the scan of an open returns n and c.
Tight(i, n, c) ==
    /\ \A id \in Ids : (i[id].st # "empty") <=> (id < n)
    /\ \A id \in Ids : id < n => i[id].off + i[id].len <= c
    /\ c = DATA_PAGE \/ \E id \in Ids : id < n /\ i[id].off + i[id].len = c

\* No record begins behind c, whatever a torn write left there.
NoneBehind(d, c) == \A p \in Cells : p > c => d[p].k # 1

\* Every record reads as one of its outcomes in a.
Reads(d, i, a) == \A id \in Ids : Read(d, i, id) \in a[id]

Orderly(d, i, a, n, c) ==
    /\ n \in 0 .. MaxIds /\ c \in DATA_PAGE .. MaxCell
    /\ Tight(i, n, c) /\ NoneBehind(d, c) /\ Reads(d, i, a)

\* Nothing is left for an open to restore.
AtRest(d, i, a, n, c) == Orderly(d, i, a, n, c) /\ ~RecordAt(d, c)

\* A whole record without a slot is at c: the next insert, or a newer version of a record
\* that is not deleted, and its payload is an outcome in a.
Waits(d, i, a, n, c) ==
    LET r == d[c].rec
    IN  /\ RecordAt(d, c)
        /\ r.tag \in a[r.id] /\ r.id <= n
        /\ r.id < n => i[r.id].st = "live" /\ d[i[r.id].off].rec.ver < r.ver

\* An open of these files returns outcomes in a.
Restorable(d, i, a) ==
    \E n \in 0 .. MaxIds, c \in DATA_PAGE .. MaxCell :
        Orderly(d, i, a, n, c) /\ (RecordAt(d, c) => Waits(d, i, a, n, c))

\* The numbers with a slot in the index file.
Numbers == IF Storing /\ call.kind = "insert" THEN call.id ELSE nextId

\* Where the index file has every slot.
Quiet == {"idle", "slot_read", "record_read", "index_sync", "restore_sync"}

\* The files are at rest until a commit writes them; what a commit or a restore will leave
\* is at rest again; and at every point an open would return allowed outcomes.
RestInv ==
    /\ pc \in Quiet \union {"slot_stage", "commit_data"} =>
          AtRest(dDisk, iDisk, allowed, Numbers, Floor)
    /\ pc \in {"commit_data", "commit_sync", "commit_index", "restore_flush"} =>
          AtRest(dView, iView, allowed, nextId, cursor)
    /\ Restorable(dDisk, iDisk, allowed)
    /\ DOMAIN allowed = Ids

\* The running call stores r, behind everything, newer than the version in the file.
Stores(r) ==
    /\ dRuns = <<[start |-> call.slot.off, vals |-> CellsOf(r)]>>
    /\ call.id = r.id /\ call.slot = Live(call.slot.off, r.len)
    /\ cursor = call.slot.off + r.len
    /\ r.ver <= r.tag
    /\ pc = "slot_stage" => r.tag = ops + 1
    /\ pc = "commit_data" => r.tag = ops /\ r.tag \in allowed[r.id]
    /\ call.kind = "insert" => nextId = r.id + 1
    /\ call.kind = "update" => /\ iDisk[r.id].st = "live"
                               /\ dDisk[iDisk[r.id].off].rec.ver < r.ver

\* The slot a call has read is still that of the file, and at most one slot is staged.
CallInv ==
    /\ pc = "record_read" => call.slot = iDisk[call.id] /\ call.slot.st = "live"
    /\ pc = "slot_stage" /\ ~Storing => /\ call.kind = "delete" /\ iDisk[call.id].st = "live"
                                        /\ call.slot = Tombstone(iDisk[call.id])
    /\ Storing /\ pc # "commit_sync" => \E r \in Record : Stores(r)
    /\ iRuns # <<>> => \E id \in Ids, s \in Slots : iRuns = <<[start |-> id, vals |-> <<s>>]>>

\* The update left to restore is the one record behind the index.
Pending(c) ==
    LET r == dDisk[c].rec
    IN  /\ Orderly(dDisk, iDisk, allowed, nextId, c) /\ Waits(dDisk, iDisk, allowed, nextId, c)
        /\ r.id < nextId
        /\ upd = [x \in {r.id} |-> [off |-> c, ver |-> r.ver, len |-> r.len]]
        /\ cursor = c + r.len

RestoreInv ==
    pc = "restore" => iRuns = <<>> /\ \E c \in DATA_PAGE .. MaxCell : Pending(c)

\* Versions are counted from 1 and payloads by the operations, so versions do not wrap.
Counted(d, m) == \A p \in Cells : d[p].k = 1 => d[p].rec.ver <= d[p].rec.tag /\ d[p].rec.tag <= m

PromiseInv == RestInv /\ CallInv /\ RestoreInv /\ Counted(dDisk, ops)

\* What a slot of a whole record reads as.
LEMMA ReadIs ==
    ASSUME NEW d \in [Cells -> AllCells], NEW i, NEW id \in Ids, <<id, i[id]>> \in WholePairs(d)
    PROVE  /\ i[id].st # "live" => Read(d, i, id) = NotFound
           /\ i[id].st = "live" => /\ Read(d, i, id) = d[i[id].off].rec.tag
                                   /\ d[i[id].off].rec.tag \in 1 .. MaxOps
           /\ Read(d, i, id) \in 0 .. MaxOps
<1>1. MaxOps \in Nat
  BY AppendAssumption
<1>2. CASE i[id].st # "live"
  BY <1>1, <1>2 DEF Read, NotFound
<1>3. CASE i[id].st = "live"
  <2>1. RecordAt(d, i[id].off) /\ d[i[id].off].rec.id = id /\ d[i[id].off].rec.len = i[id].len
    BY <1>3 DEF WholePairs
  <2>2. d[i[id].off].rec.tag \in 1 .. MaxOps
    BY <2>1, HeadersAre DEF RecordAt, Record
  <2>3. Read(d, i, id) = d[i[id].off].rec.tag
    BY <1>3, <2>1 DEF Read
  <2> QED  BY <1>1, <1>3, <2>2, <2>3
<1> QED  BY <1>2, <1>3

\* A reader sees the same in two data files that agree below c, when every slot ends there.
LEMMA ReadsSame ==
    ASSUME NEW d \in [Cells -> AllCells], NEW e \in [Cells -> AllCells], NEW c \in Nat,
           \A p \in Cells : p < c => d[p] = e[p], NEW i \in [Ids -> Slots],
           Holds(i, WholePairs(d)), Holds(i, FreshPairs(MaxIds, c))
    PROVE  \A id \in Ids : Read(e, i, id) = Read(d, i, id)
<1> TAKE id \in Ids
<1>1. /\ <<id, i[id]>> \in WholePairs(d) /\ <<id, i[id]>> \in FreshPairs(MaxIds, c)
      /\ i[id] \in Slots
  BY DEF Holds
<1>2. <<id, i[id]>> \in WholePairs(e)
  BY <1>1, WholeBelow
<1>3. ASSUME i[id].st = "live" PROVE d[i[id].off] = e[i[id].off]
  <2>1. i[id].off \in Cells /\ i[id].off \in Nat /\ i[id].len \in Nat /\ i[id].len > 0
    BY <1>1, <1>3, SlotIs
  <2>2. i[id].off + i[id].len <= c
    BY <1>1, <1>3 DEF FreshPairs
  <2>3. i[id].off < c
    BY <2>1, <2>2
  <2> QED  BY <2>1, <2>3
<1> QED  BY <1>1, <1>2, <1>3, ReadIs

\* The scan of an open finds n and c.
LEMMA TightScan ==
    ASSUME FilesOK, NEW n \in 0 .. MaxIds, NEW c \in DATA_PAGE .. MaxCell, Tight(iDisk, n, c)
    PROVE  ScanEnd = c /\ ScanNextId = n
<1> DEFINE Ends == {iDisk[id].off + iDisk[id].len : id \in Used}
           E == {DATA_PAGE} \union Ends
<1>0. n \in Nat /\ c \in Nat /\ DATA_PAGE \in Nat /\ DATA_PAGE <= c /\ c <= MaxCell /\ n <= MaxIds
      /\ MaxIds \in Nat /\ MaxCell \in Nat
  BY CellNumbers
<1>1. Used = {id \in Ids : id < n}
  BY DEF Used, Tight
<1>2. ASSUME NEW y \in E PROVE y <= c /\ y \in 0 .. MaxCell
  <2>1. CASE y = DATA_PAGE
    BY <1>0, <2>1
  <2>2. CASE y \in Ends
    <3>1. PICK id \in Used : y = iDisk[id].off + iDisk[id].len
      BY <2>2
    <3>2. id \in Ids /\ iDisk[id] \in Slots /\ iDisk[id].st # "empty" /\ id < n
      BY <1>1 DEF Used, FilesOK
    <3>3. iDisk[id].off \in Nat /\ iDisk[id].len \in Nat /\ iDisk[id].off + iDisk[id].len <= c
      BY <3>2, SlotIs DEF Tight
    <3> QED  BY <1>0, <3>1, <3>3
  <2> QED  BY <2>1, <2>2
<1>3. c \in E
  BY <1>1 DEF Tight
<1>4. ScanEnd = Max(E)
  BY DEF ScanEnd
<1> HIDE DEF E
<1>5. Max(E) \in E /\ \A y \in E : y <= Max(E)
  BY <1>0, <1>2, <1>3, MaxIsGreatest, Zenon
<1>6. ScanEnd = c
  <2> DEFINE m == Max(E)
  <2>1. m \in E /\ c <= m
    BY <1>3, <1>5
  <2>2. m = ScanEnd
    BY <1>4
  <2> HIDE DEF m
  <2>3. m <= c /\ m \in 0 .. MaxCell
    BY <1>2, <2>1
  <2> QED  BY <1>0, <2>1, <2>2, <2>3
<1>7. ScanNextId = n
  <2>1. CASE n = 0
    <3>1. Used = {}
      BY <1>1, <2>1, CellNumbers
    <3> QED  BY <2>1, <3>1 DEF ScanNextId
  <2>2. CASE n # 0
    <3>1. n - 1 \in Used /\ Used \subseteq 0 .. MaxIds
      BY <1>0, <1>1, <2>2, CellNumbers
    <3>2. Max(Used) \in Used /\ \A y \in Used : y <= Max(Used)
      BY <1>0, <3>1, MaxIsGreatest, Zenon
    <3>3. Max(Used) \in Nat /\ Max(Used) < n /\ n - 1 <= Max(Used)
      BY <1>1, <3>1, <3>2, CellNumbers
    <3>4. Used # {}
      BY <3>1
    <3> QED  BY <1>0, <3>3, <3>4 DEF ScanNextId
  <2> QED  BY <2>1, <2>2
<1> QED  BY <1>6, <1>7

\* A new slot for the record at c, of the next number or of an older one.
LEMMA TightNew ==
    ASSUME NEW i \in [Ids -> Slots], NEW n \in 0 .. MaxIds, NEW c \in DATA_PAGE .. MaxCell,
           Tight(i, n, c), NEW id \in Ids, id <= n, NEW len \in Lens, c \in Cells,
           NEW m, m = IF id = n THEN n + 1 ELSE n
    PROVE  Tight([i EXCEPT ![id] = Live(c, len)], m, c + len)
<1> DEFINE s == Live(c, len)
           j == [i EXCEPT ![id] = s]
<1>0. /\ n \in Nat /\ c \in Nat /\ id \in Nat /\ len \in Nat /\ len > 0 /\ m \in Nat
      /\ id < m /\ n <= m
  BY CellNumbers, LengthsAre
<1>1. s.st = "live" /\ s.off = c /\ s.len = len
  BY DEF Live
<1> HIDE DEF s
<1>2. ASSUME NEW x \in Ids
      PROVE  /\ (j[x].st # "empty") <=> (x < m)
             /\ x < m => j[x].off + j[x].len <= c + len
  <2>1. CASE x = id
    BY <1>0, <1>1, <2>1
  <2>2. CASE x # id
    <3>1. j[x] = i[x] /\ x \in Nat /\ i[x] \in Slots
      BY <2>2, CellNumbers
    <3>2. x < m <=> x < n
      BY <1>0, <2>2, <3>1
    <3>3. ASSUME x < n PROVE i[x].off + i[x].len <= c + len
      <4>1. i[x].st # "empty" /\ i[x].off + i[x].len <= c
        BY <3>3 DEF Tight
      <4>2. i[x].off \in Nat /\ i[x].len \in Nat
        BY <3>1, <4>1, SlotIs
      <4> QED  BY <1>0, <4>1, <4>2
    <3>4. (i[x].st # "empty") <=> (x < n)
      BY DEF Tight
    <3> HIDE DEF j
    <3> QED  BY <3>1, <3>2, <3>3, <3>4
  <2> QED  BY <2>1, <2>2
<1>3. j[id].off + j[id].len = c + len
  BY <1>1
<1> HIDE DEF j
<1>4. Tight(j, m, c + len)
  BY <1>0, <1>2, <1>3 DEF Tight
<1> QED  BY <1>4 DEF j, s

\* A tombstone keeps the place of its record.
LEMMA TightTombstone ==
    ASSUME NEW i \in [Ids -> Slots], NEW n, NEW c, Tight(i, n, c), NEW id \in Ids, i[id].st = "live"
    PROVE  Tight([i EXCEPT ![id] = Tombstone(i[id])], n, c) /\ Tombstone(i[id]).st = "deleted"
<1> DEFINE s == Tombstone(i[id])
           j == [i EXCEPT ![id] = s]
<1>1. s.st = "deleted" /\ s.off = i[id].off /\ s.len = i[id].len
  <2>1. i[id] \in [st : {"live", "deleted"}, off : Cells, len : Lens]
    BY SlotIs
  <2> QED  BY <2>1 DEF Tombstone
<1> HIDE DEF s
<1>2. \A x \in Ids : /\ (j[x].st # "empty") <=> (i[x].st # "empty")
                     /\ j[x].off = i[x].off /\ j[x].len = i[x].len
  BY <1>1
<1> HIDE DEF j
<1>3. Tight(j, n, c)
  BY <1>2 DEF Tight
<1> QED  BY <1>1, <1>3 DEF j, s

\* The record that waits at c gets its slot, and nothing waits any more.
LEMMA Lands ==
    ASSUME NEW d \in [Cells -> AllCells], NEW i \in [Ids -> Slots], NEW a, NEW n, NEW c,
           Orderly(d, i, a, n, c), NEW r, RecordAt(d, c), r = d[c].rec, r.id <= n, r.tag \in a[r.id],
           NEW m, m = IF r.id = n THEN n + 1 ELSE n
    PROVE  AtRest(d, [i EXCEPT ![r.id] = Live(c, r.len)], a, m, c + r.len)
<1> DEFINE s == Live(c, r.len)
           j == [i EXCEPT ![r.id] = s]
<1>1. /\ n \in 0 .. MaxIds /\ c \in DATA_PAGE .. MaxCell /\ Tight(i, n, c)
      /\ n \in Nat /\ c \in Nat /\ MaxIds \in Nat /\ MaxCell \in Nat /\ DATA_PAGE \in Nat
  BY CellNumbers DEF Orderly
<1>2. /\ c \in Cells /\ r.id \in Ids /\ r.len \in Lens /\ r.len \in Nat /\ r.len > 0 /\ r.id \in Nat
  BY HeadersAre DEF RecordAt
<1>3. Tight(j, m, c + r.len)
  BY <1>1, <1>2, TightNew, Zenon
<1>4. m \in 0 .. MaxIds
  BY <1>1, <1>2, CellNumbers
<1>5. c + r.len \in DATA_PAGE .. MaxCell
  <2>1. c + r.len - 1 \in Cells
    BY DEF RecordAt, PayloadAt
  <2> QED  BY <1>1, <1>2, <2>1, CellNumbers
<1>6. NoneBehind(d, c + r.len) /\ ~RecordAt(d, c + r.len)
  <2>1. ASSUME NEW p \in Cells, p >= c + r.len PROVE d[p].k # 1
    <3>1. p \in Nat /\ p > c
      BY <1>1, <1>2, <2>1, CellNumbers
    <3> QED  BY <3>1 DEF Orderly, NoneBehind
  <2>2. NoneBehind(d, c + r.len)
    <3>1. \A p \in Cells : p > c + r.len => p >= c + r.len
      BY <1>1, <1>2, CellNumbers
    <3> QED  BY <2>1, <3>1 DEF NoneBehind
  <2>3. c + r.len >= c + r.len
    BY <1>1, <1>2
  <2> QED  BY <2>1, <2>2, <2>3 DEF RecordAt, HeaderAt
<1>7. Reads(d, j, a)
  <2> SUFFICES ASSUME NEW id \in Ids PROVE Read(d, j, id) \in a[id]
    BY Zenon DEF Reads
  <2>1. CASE id = r.id
    <3>1. j[id].st = "live" /\ j[id].off = c /\ j[id].len = r.len
      BY <2>1 DEF Live
    <3> HIDE DEF j
    <3>2. Read(d, j, id) = r.tag
      BY <2>1, <3>1 DEF Read
    <3> QED  BY <2>1, <3>2
  <2>2. CASE id # r.id
    <3>1. j[id] = i[id]
      BY <2>2
    <3> HIDE DEF j
    <3>2. Read(d, j, id) = Read(d, i, id)
      BY <3>1 DEF Read
    <3> QED  BY <3>2 DEF Orderly, Reads
  <2> QED  BY <2>1, <2>2
<1> HIDE DEF j
<1>8. AtRest(d, j, a, m, c + r.len)
  BY <1>3, <1>4, <1>5, <1>6, <1>7 DEF AtRest, Orderly
<1> QED  BY <1>8 DEF j, s

\* More outcomes are allowed.
LEMMA AllowMore ==
    ASSUME NEW d, NEW i, NEW a, NEW b, NEW n, NEW c, \A id \in Ids : a[id] \subseteq b[id]
    PROVE  /\ Orderly(d, i, a, n, c) => Orderly(d, i, b, n, c)
           /\ AtRest(d, i, a, n, c) => AtRest(d, i, b, n, c)
BY DEF Orderly, AtRest, Reads

\* Files at rest can be opened.
LEMMA RestIsRestorable ==
    ASSUME NEW d, NEW i, NEW a, NEW n, NEW c, AtRest(d, i, a, n, c)
    PROVE  Restorable(d, i, a)
BY DEF AtRest, Restorable, Orderly

\* One slot staged alone.
LEMMA OneStaged ==
    ASSUME NEW id \in Ids, NEW s \in Slots
    PROVE  /\ StageSlot(<<>>, id, s) = <<[start |-> id, vals |-> <<s>>]>>
           /\ \A f \in [Ids -> Slots] :
                  Shown(f, <<[start |-> id, vals |-> <<s>>]>>) = [f EXCEPT ![id] = s]
<1>1. StageSlot(<<>>, id, s) = <<[start |-> id, vals |-> <<s>>]>>
  <2>1. Index!OpenWrite(<<>>, id) = 0
    BY DEF Index!OpenWrite, Index!SelectInSeq
  <2>2. ~Index!CanExtend(<<>>, id, Len(<<s>>))
    BY <2>1 DEF Index!CanExtend
  <2>3. StageSlot(<<>>, id, s) = Append(<<>>, [start |-> id, vals |-> <<s>>])
    BY <2>2 DEF StageSlot, Index!Staged
  <2> QED  BY <2>3
<1>2. ASSUME NEW f \in [Ids -> Slots]
      PROVE  Shown(f, <<[start |-> id, vals |-> <<s>>]>>) = [f EXCEPT ![id] = s]
  <2> DEFINE ws == <<[start |-> id, vals |-> <<s>>]>>
             g == Shown(f, ws)
  <2>1. DOMAIN ws = {1} /\ ws[1].start = id /\ ws[1].vals = <<s>> /\ Len(<<s>>) = 1 /\ <<s>>[1] = s
    BY SMTT(30)
  <2>2. g = [x \in Ids |-> g[x]]
    BY DEF Shown
  <2> HIDE DEF ws
  <2>3. ASSUME NEW x \in Ids PROVE g[x] = IF x = id THEN s ELSE f[x]
    <3>0. x \in Nat /\ id \in Nat
      BY CellNumbers
    <3>1. At(ws[1], x) <=> x = id
      BY <2>1, <3>0 DEF At
    <3>2. x - id + 1 = 1 <=> x = id
      BY <3>0
    <3> QED  BY <2>1, <3>1, <3>2, ShownAt
  <2> HIDE DEF g
  <2>4. g = [f EXCEPT ![id] = s]
    BY <2>2, <2>3, Zenon
  <2> QED  BY <2>4 DEF g, ws
<1> QED  BY <1>1, <1>2

\* One record staged alone, at c.
LEMMA RecordStaged ==
    ASSUME NEW d \in [Cells -> AllCells], NEW r \in Record, NEW c \in Nat, c >= DATA_PAGE,
           c + r.len <= MaxCell, NEW e, e = Shown(d, <<[start |-> c, vals |-> CellsOf(r)]>>),
           NoneBehind(d, c)
    PROVE  /\ e \in [Cells -> AllCells]
           /\ c \in Cells /\ RecordAt(e, c) /\ e[c].rec = r /\ e[c].k = 1
           /\ \A p \in Cells : p < c => e[p] = d[p]
           /\ NoneBehind(e, c)
           /\ \A p \in Cells : e[p] = d[p] \/ e[p].rec = r
<1> DEFINE vals == CellsOf(r)
           ws == <<[start |-> c, vals |-> vals]>>
<1>1. /\ vals \in Seq(AllCells) /\ vals # <<>> /\ Len(vals) = r.len /\ r.len \in Nat /\ r.len > 0
      /\ \A k \in 1 .. r.len : /\ vals[k] = [rec |-> r, k |-> k]
                               /\ <<c + k - 1, vals[k]>> \in DataPairs
  BY CellsAre
<1>2. <<r.id, Live(c, r.len)>> \in WholePairs(e)
  BY StagedWhole
<1>3. /\ DOMAIN ws = {1} /\ ws[1].start = c /\ ws[1].vals = vals /\ e = Shown(d, ws)
      /\ DOMAIN e = Cells /\ e = [p \in Cells |-> e[p]]
  <2>1. DOMAIN ws = {1} /\ ws[1].start = c /\ ws[1].vals = vals /\ e = Shown(d, ws)
    BY SMTT(30)
  <2> HIDE DEF ws
  <2>2. DOMAIN e = Cells /\ e = [p \in Cells |-> e[p]]
    BY <2>1, Zenon DEF Shown
  <2> QED  BY <2>1, <2>2
<1> HIDE DEF vals, ws
<1>4. ASSUME NEW p \in Cells
      PROVE  \/ /\ p >= c /\ p < c + r.len /\ p - c + 1 \in 1 .. r.len
                /\ e[p] = [rec |-> r, k |-> p - c + 1]
             \/ (p < c \/ p >= c + r.len) /\ e[p] = d[p]
  <2>0. p \in Nat
    BY CellNumbers
  <2>1. CASE At(ws[1], p)
    <3>1. p >= c /\ p < c + r.len
      BY <1>1, <1>3, <2>1 DEF At
    <3>2. p - c + 1 \in 1 .. r.len
      BY <1>1, <2>0, <3>1
    <3>3. e[p] = vals[p - c + 1]
      BY <1>3, <2>1, ShownAt
    <3> QED  BY <1>1, <3>1, <3>2, <3>3, Zenon
  <2>2. CASE ~At(ws[1], p)
    <3>1. p < c \/ p >= c + r.len
      BY <1>1, <1>3, <2>0, <2>2 DEF At
    <3>2. e[p] = d[p]
      BY <1>3, <2>2, ShownAt
    <3> QED  BY <3>1, <3>2
  <2> QED  BY <2>1, <2>2
<1>5. e \in [Cells -> AllCells]
  <2>1. ASSUME NEW p \in Cells PROVE e[p] \in AllCells
    <3>1. CASE p - c + 1 \in 1 .. r.len /\ e[p] = [rec |-> r, k |-> p - c + 1]
      <4>1. e[p] = vals[p - c + 1] /\ <<c + (p - c + 1) - 1, vals[p - c + 1]>> \in DataPairs
        BY <1>1, <3>1, Zenon
      <4> QED  BY <4>1 DEF DataPairs
    <3>2. CASE e[p] = d[p]
      BY <3>2
    <3> QED  BY <1>4, <3>1, <3>2
  <2> QED  BY <1>3, <2>1
<1>6. c \in Cells
  BY <1>1, CellNumbers, SMTT(30)
<1>7. e[c] = [rec |-> r, k |-> 1]
  BY <1>1, <1>4, <1>6
<1>8. RecordAt(e, c)
  <2>1. Live(c, r.len).st = "live" /\ Live(c, r.len).off = c
    BY DEF Live
  <2> QED  BY <1>2, <2>1 DEF WholePairs
<1>9. ASSUME NEW p \in Cells, p < c PROVE e[p] = d[p]
  <2>1. p \in Nat /\ ~(p >= c)
    BY <1>9, CellNumbers
  <2> QED  BY <1>4, <2>1, Zenon
<1>10. NoneBehind(e, c)
  <2> SUFFICES ASSUME NEW p \in Cells, p > c PROVE e[p].k # 1
    BY DEF NoneBehind
  <2>1. p \in Nat /\ p - c + 1 # 1
    BY CellNumbers
  <2>2. d[p].k # 1
    BY DEF NoneBehind
  <2>3. CASE e[p] = [rec |-> r, k |-> p - c + 1]
    BY <2>1, <2>3
  <2>4. CASE e[p] = d[p]
    BY <2>2, <2>4
  <2> QED  BY <1>4, <2>3, <2>4
<1>11. ASSUME NEW p \in Cells PROVE e[p] = d[p] \/ e[p].rec = r
  <2>1. CASE e[p] = [rec |-> r, k |-> p - c + 1]
    BY <2>1
  <2> QED  BY <1>4, <2>1
<1> QED  BY <1>5, <1>6, <1>7, <1>8, <1>9, <1>10, <1>11

\* A write that is cut short at c leaves the new record whole, or no whole record.
LEMMA TornWrite ==
    ASSUME NEW d \in [Cells -> AllCells], NEW e \in [Cells -> AllCells], NEW r, NEW c \in Nat,
           ~RecordAt(d, c), NoneBehind(d, c), NoneBehind(e, c),
           \A p \in Cells : p < c => e[p] = d[p],
           \A p \in Cells : e[p] = d[p] \/ e[p].rec = r,
           NEW t \in [Cells -> AllCells], \A p \in Cells : t[p] \in {d[p], e[p]}
    PROVE  /\ NoneBehind(t, c)
           /\ \A p \in Cells : p < c => t[p] = d[p]
           /\ RecordAt(t, c) => t[c].rec = r
<1>1. NoneBehind(t, c)
  BY DEF NoneBehind
<1>2. ASSUME RecordAt(t, c), t[c].rec # r PROVE FALSE
  <2> DEFINE q == t[c].rec
  <2>1. /\ c \in Cells /\ t[c].k = 1 /\ c + q.len - 1 \in Cells
        /\ \A k \in 1 .. q.len : t[c + k - 1] = [rec |-> q, k |-> k]
    BY <1>2 DEF RecordAt, HeaderAt, PayloadAt
  <2>2. q.len \in Nat /\ q.len > 0
    BY <1>2, HeadersAre DEF RecordAt
  <2>3. ASSUME NEW k \in 1 .. q.len PROVE d[c + k - 1] = [rec |-> q, k |-> k]
    <3>1. c + k - 1 \in Cells
      BY <2>1, <2>2, CellNumbers
    <3>2. t[c + k - 1].rec = q /\ t[c + k - 1] = [rec |-> q, k |-> k]
      BY <2>1
    <3>3. t[c + k - 1] = d[c + k - 1]
      BY <1>2, <3>1, <3>2
    <3> QED  BY <3>2, <3>3
  <2>4. d[c] = t[c]
    BY <1>2, <2>1
  <2>5. RecordAt(d, c)
    BY <2>1, <2>3, <2>4 DEF RecordAt, HeaderAt, PayloadAt
  <2> QED  BY <2>5
<1> QED  BY <1>1, <1>2

-----------------------------------------------------------------------------
(* The steps of the heap as steps of the promise. *)

Promised == [Abstract!Next]_(Abstract!vars)

\* What every call sees is unchanged.
LEMMA SameView ==
    ASSUME Up, Up', allowed' = allowed, \A id \in Ids : Read(dView', iView', id) = Lookup(id)
    PROVE  Promised
<1>1. \A id \in Ids : Lookup(id)' = Lookup(id)
  BY DEF Lookup
<1>2. [id \in Ids |-> IF Up THEN Lookup(id) ELSE NotFound]'
        = [id \in Ids |-> IF Up THEN Lookup(id) ELSE NotFound]
  BY <1>1
<1>3. Up' = Up
  BY DEF Up
<1> QED  BY <1>2, <1>3 DEF Promised, Abstract!vars

\* The heap is closed and stays so.
LEMMA StaysClosed ==
    ASSUME ~Up, ~Up', allowed' = allowed
    PROVE  Promised
<1>1. [id \in Ids |-> IF Up THEN Lookup(id) ELSE NotFound]'
        = [id \in Ids |-> IF Up THEN Lookup(id) ELSE NotFound]
  OBVIOUS
<1>2. Up' = Up
  BY DEF Up
<1> QED  BY <1>1, <1>2 DEF Promised, Abstract!vars

\* The heap closes, or the process dies.
LEMMA Stops ==
    ASSUME Up, ~Up', allowed' = allowed
    PROVE  Promised
<1>1. [id \in Ids |-> IF Up THEN Lookup(id) ELSE NotFound]' = Abstract!Nothing
  BY DEF Abstract!Nothing
<1>2. Up = TRUE /\ Up' = FALSE
  BY DEF Up
<1>3. Abstract!Stop
  BY <1>1, <1>2 DEF Abstract!Stop
<1> QED  BY <1>3 DEF Promised, Abstract!Next

\* A commit: what is seen is all that is allowed.
LEMMA Commits ==
    ASSUME Up, Up', \A id \in Ids : Read(dView', iView', id) = Lookup(id),
           allowed' = [id \in Ids |-> {Lookup(id)}]
    PROVE  Promised
<1>1. \A id \in Ids : Lookup(id)' = Lookup(id)
  BY DEF Lookup
<1>2. [id \in Ids |-> IF Up THEN Lookup(id) ELSE NotFound]'
        = [id \in Ids |-> IF Up THEN Lookup(id) ELSE NotFound]
  BY <1>1
<1>3. Up' = Up
  BY DEF Up
<1>4. allowed' = Abstract!Only([id \in Ids |-> IF Up THEN Lookup(id) ELSE NotFound])
  BY DEF Abstract!Only
<1>5. Abstract!Commit
  BY <1>2, <1>3, <1>4, Zenon DEF Abstract!Commit
<1> QED  BY <1>5 DEF Promised, Abstract!Next

\* An open is done: what is seen was allowed.
LEMMA Recovers ==
    ASSUME ~Up, Up', Recovered,
           \A id \in Ids : Read(dView', iView', id) \in allowed[id] \intersect (0 .. MaxOps)
    PROVE  Promised
<1> DEFINE view == [id \in Ids |-> IF Up THEN Lookup(id) ELSE NotFound]
           new == [id \in Ids |-> Read(dView', iView', id)]
<1>1. view' = new
  BY DEF Lookup
<1>2. allowed' = [id \in Ids |-> {new[id]}]
  BY DEF Recovered, Lookup
<1>3. Up' = TRUE
  BY DEF Up
<1>4. new \in [Ids -> 0 .. MaxOps] /\ \A id \in Ids : new[id] \in allowed[id]
  OBVIOUS
<1> HIDE DEF new
<1>5. allowed' = Abstract!Only(new)
  BY <1>2 DEF Abstract!Only
<1>6. Abstract!Recover
  BY <1>1, <1>3, <1>4, <1>5 DEF Abstract!Recover
<1> QED  BY <1>6 DEF Promised, Abstract!Next

\* A write to one record.
LEMMA Writes ==
    ASSUME Up, Up', NEW id \in Ids, NEW v \in 0 .. MaxOps,
           \A x \in Ids : Read(dView', iView', x) = IF x = id THEN v ELSE Lookup(x),
           allowed' = [allowed EXCEPT ![id] = @ \union {v}]
    PROVE  Promised
<1> DEFINE view == [x \in Ids |-> IF Up THEN Lookup(x) ELSE NotFound]
<1>1. \A x \in Ids : Lookup(x)' = IF x = id THEN v ELSE Lookup(x)
  BY DEF Lookup
<1>2. view' = [view EXCEPT ![id] = v]
  BY <1>1, Zenon
<1>3. Up' = Up
  BY DEF Up
<1>4. Abstract!Write(id, v)
  BY <1>2, <1>3 DEF Abstract!Write
<1> QED  BY <1>4 DEF Promised, Abstract!Next

\* Without staged writes a reader sees the file.
LEMMA NoneShown ==
    ASSUME NEW D, NEW V, NEW f \in [D -> V]
    PROVE  Shown(f, <<>>) = f
<1>1. f = [x \in D |-> f[x]]
  OBVIOUS
<1> QED  BY <1>1 DEF Shown

\* A state in which nothing is staged and the files are at rest.
LEMMA Rested ==
    ASSUME dDisk' \in [Cells -> AllCells], iDisk' \in [Ids -> Slots], dRuns' = <<>>, iRuns' = <<>>,
           AtRest(dDisk', iDisk', allowed', nextId', cursor'), Counted(dDisk', ops'),
           DOMAIN allowed' = Ids, ~Storing', pc' # "restore",
           pc' = "record_read" => call'.slot = iDisk'[call'.id] /\ call'.slot.st = "live",
           pc' = "slot_stage" => /\ call'.kind = "delete" /\ iDisk'[call'.id].st = "live"
                                 /\ call'.slot = Tombstone(iDisk'[call'.id])
    PROVE  PromiseInv' /\ dView' = dDisk' /\ iView' = iDisk'
<1>1. dView' = dDisk' /\ iView' = iDisk'
  <2>1. dView' = Shown(dDisk', <<>>) /\ iView' = Shown(iDisk', <<>>)
    BY DEF dView, iView, Data!Overlay, Data!End, Index!Overlay, Index!End, Shown
  <2> QED  BY <2>1, NoneShown, Zenon
<1>2. Numbers' = nextId' /\ Floor' = cursor'
  BY DEF Numbers, Floor
<1>3. Restorable(dDisk', iDisk', allowed')
  BY RestIsRestorable
<1>4. RestInv'
  BY <1>1, <1>2, <1>3 DEF RestInv
<1>5. CallInv'
  BY DEF CallInv
<1>6. RestoreInv'
  BY DEF RestoreInv
<1> QED  BY <1>1, <1>4, <1>5, <1>6 DEF PromiseInv

\* Between calls and while a call reads, nothing is staged and the files are at rest.
LEMMA QuietIs ==
    ASSUME HInv, OrderInv, PromiseInv, pc \in Quiet
    PROVE  /\ dRuns = <<>> /\ iRuns = <<>> /\ dView = dDisk /\ iView = iDisk
           /\ AtRest(dDisk, iDisk, allowed, nextId, cursor) /\ Counted(dDisk, ops)
           /\ dDisk \in [Cells -> AllCells] /\ iDisk \in [Ids -> Slots] /\ DOMAIN allowed = Ids
<1>1. dRuns = <<>> /\ iRuns = <<>>
  BY DEF OrderInv, DataOrder, Storing, IndexOrder, NoSlots, Quiet
<1>2. dView = dDisk /\ iView = iDisk
  BY <1>1, NothingStaged
<1>3. Numbers = nextId /\ Floor = cursor
  BY DEF Numbers, Floor, Storing, Quiet
<1>4. AtRest(dDisk, iDisk, allowed, nextId, cursor) /\ Counted(dDisk, ops) /\ DOMAIN allowed = Ids
  BY <1>3 DEF PromiseInv, RestInv
<1> QED  BY <1>1, <1>2, <1>4 DEF HInv, FilesOK

\* The steps of calls that only read, and the last step of a flush.
LEMMA CallPromise ==
    ASSUME HInv, OrderInv, PromiseInv,
           \/ \E id \in Ids : BeginRead(id) \/ BeginDelete(id)
           \/ \E id \in Ids, len \in Lens : BeginUpdate(id, len)
           \/ \E kind \in {"flush", "close"} : BeginFlush(kind)
           \/ ReadSlot \/ ReadRecord
           \/ UpdateRecord /\ pc' = "idle"
           \/ IndexSync /\ ~LoseMemory
    PROVE  PromiseInv' /\ Promised
<1>1. /\ pc \in {"idle", "slot_read", "record_read", "index_sync"}
      /\ pc' \in {"idle", "slot_read", "record_read", "slot_stage", "commit_data"}
      /\ pc' = "commit_data" => call'.kind \notin {"insert", "update"}
      /\ UNCHANGED <<cursor, nextId, allowed, ops>>
      /\ dDisk' \in {dDisk, dView} /\ dRuns' \in {dRuns, <<>>}
      /\ iDisk' \in {iDisk, iView} /\ iRuns' \in {iRuns, <<>>}
  <2>1. CASE \E id \in Ids : BeginRead(id)
    BY <2>1, Zenon DEF BeginRead, files, placement, history
  <2>2. CASE \E id \in Ids : BeginDelete(id)
    BY <2>2, Zenon DEF BeginDelete, files, placement, history
  <2>3. CASE \E id \in Ids, len \in Lens : BeginUpdate(id, len)
    BY <2>3, Zenon DEF BeginUpdate, files, placement, history
  <2>4. CASE \E kind \in {"flush", "close"} : BeginFlush(kind)
    BY <2>4 DEF BeginFlush, files, placement, history, NoCall
  <2>5. CASE ReadSlot
    BY <2>5 DEF ReadSlot, FlushIndex, placement, history
  <2>6. CASE ReadRecord
    BY <2>6 DEF ReadRecord, FlushData, placement, history
  <2>7. CASE UpdateRecord /\ pc' = "idle"
    BY <2>7 DEF UpdateRecord, history
  <2>8. CASE IndexSync /\ ~LoseMemory
    BY <2>8 DEF IndexSync, placement
  <2> QED  BY <2>1, <2>2, <2>3, <2>4, <2>5, <2>6, <2>7, <2>8
<1>2. /\ dRuns = <<>> /\ iRuns = <<>> /\ dView = dDisk /\ iView = iDisk
      /\ AtRest(dDisk, iDisk, allowed, nextId, cursor) /\ Counted(dDisk, ops)
      /\ dDisk \in [Cells -> AllCells] /\ iDisk \in [Ids -> Slots] /\ DOMAIN allowed = Ids
  BY <1>1, QuietIs DEF Quiet
<1>3. dDisk' = dDisk /\ iDisk' = iDisk /\ dRuns' = <<>> /\ iRuns' = <<>>
  BY <1>1, <1>2
<1>4. ASSUME pc' \in {"record_read", "slot_stage"}
      PROVE  /\ pc' = "slot_stage" => /\ call'.kind = "delete" /\ iDisk'[call'.id].st = "live"
                                      /\ call'.slot = Tombstone(iDisk'[call'.id])
             /\ pc' = "record_read" => call'.slot = iDisk'[call'.id] /\ call'.slot.st = "live"
  <2>1. ReadSlot
    BY <1>4, Zenon DEF BeginRead, BeginDelete, BeginUpdate, BeginFlush, ReadRecord, IndexSync
  <2>2. call \in [kind : {"none", "read", "insert", "update", "delete", "flush", "close"},
                  id : Nat, len : Nat, slot : Slots]
    BY DEF HInv, CallOK
  <2>3. \/ /\ pc' = "slot_stage" /\ call.kind = "delete" /\ iDisk[call.id].st = "live"
           /\ call' = [call EXCEPT !.slot = Tombstone(iDisk[call.id])]
        \/ /\ pc' = "record_read" /\ iDisk[call.id].st = "live"
           /\ call' = [call EXCEPT !.slot = iDisk[call.id]]
    BY <1>2, <1>4, <2>1 DEF ReadSlot
  <2> QED  BY <1>3, <2>2, <2>3, SMTT(30)
<1>5. ~Storing'
  BY <1>1, <1>4 DEF Storing
<1>6. PromiseInv' /\ dView' = dDisk' /\ iView' = iDisk'
  <2>1. pc' # "restore"
    BY <1>1
  <2> QED  BY <1>1, <1>2, <1>3, <1>4, <1>5, <2>1, Rested
<1>7. Promised
  <2>1. Up /\ Up'
    BY <1>1 DEF Up
  <2>2. \A id \in Ids : Read(dView', iView', id) = Lookup(id)
    BY <1>2, <1>3, <1>6 DEF Lookup
  <2> QED  BY <1>1, <2>1, <2>2, SameView
<1> QED  BY <1>6, <1>7

\* A call stages its record behind everything, and nobody sees it yet.
LEMMA StorePromise ==
    ASSUME HInv, OrderInv, PromiseInv, pc \in {"idle", "record_read"}, pc' = "slot_stage",
           call'.kind \in {"insert", "update"}, NEW r \in Record, call'.id = r.id,
           call'.slot = Live(cursor, r.len), cursor + r.len <= MaxCell, cursor' = cursor + r.len,
           dDisk' = dDisk, dRuns' = <<[start |-> cursor, vals |-> CellsOf(r)]>>,
           UNCHANGED <<iDisk, iRuns, allowed, ops>>, r.ver <= r.tag, r.tag = ops + 1,
           call'.kind = "insert" => r.id = nextId /\ nextId' = nextId + 1,
           call'.kind = "update" => /\ nextId' = nextId /\ iDisk[r.id].st = "live"
                                    /\ dDisk[iDisk[r.id].off].rec.ver < r.ver
    PROVE  PromiseInv' /\ Promised
<1>1. /\ dRuns = <<>> /\ iRuns = <<>> /\ dView = dDisk /\ iView = iDisk
      /\ AtRest(dDisk, iDisk, allowed, nextId, cursor) /\ Counted(dDisk, ops)
      /\ dDisk \in [Cells -> AllCells] /\ iDisk \in [Ids -> Slots] /\ DOMAIN allowed = Ids
  BY QuietIs DEF Quiet
<1>2. Storing' /\ Floor' = cursor /\ Numbers' = nextId /\ call'.slot.off = cursor
  BY DEF Storing, Floor, Numbers, Live
<1>3. RestInv'
  <2>1. Restorable(dDisk, iDisk, allowed)
    BY <1>1, RestIsRestorable
  <2> QED  BY <1>1, <1>2, <2>1 DEF RestInv
<1>4. CallInv'
  <2>1. Stores(r)'
    BY <1>2 DEF Stores
  <2> QED  BY <1>1, <1>2, <2>1 DEF CallInv
<1>5. RestoreInv' /\ Counted(dDisk', ops')
  BY <1>1 DEF RestoreInv
<1>6. dView' = Shown(dDisk, <<[start |-> cursor, vals |-> CellsOf(r)]>>) /\ iView' = iDisk
  BY <1>1 DEF dView, Data!Overlay, Data!End, Shown, iView
<1>7. Promised
  <2>1. cursor \in Nat /\ cursor >= DATA_PAGE /\ NoneBehind(dDisk, cursor)
    BY <1>1, CellNumbers DEF AtRest, Orderly
  <2>2. dView' \in [Cells -> AllCells] /\ \A p \in Cells : p < cursor => dView'[p] = dDisk[p]
    BY <1>1, <1>6, <2>1, RecordStaged
  <2>3. Holds(iDisk, WholePairs(dDisk)) /\ Holds(iDisk, FreshPairs(MaxIds, cursor))
    BY SlotsBelow DEF OrderInv, IndexOrder
  <2>4. \A id \in Ids : Read(dView', iDisk, id) = Read(dDisk, iDisk, id)
    BY <1>1, <2>1, <2>2, <2>3, ReadsSame
  <2>5. Up /\ Up'
    BY DEF Up
  <2>6. \A id \in Ids : Read(dView', iView', id) = Lookup(id)
    BY <1>1, <1>6, <2>4 DEF Lookup
  <2> QED  BY <2>5, <2>6, SameView
<1> QED  BY <1>3, <1>4, <1>5, <1>7 DEF PromiseInv

\* Of an insert.
LEMMA InsertPromise ==
    ASSUME HInv, OrderInv, PromiseInv, NEW len \in Lens, Insert(len), MaxOps < VersionMod
    PROVE  PromiseInv' /\ Promised
<1> DEFINE r == [id |-> nextId, ver |-> 1 % VersionMod, len |-> len, tag |-> ops + 1]
<1>1. /\ pc = "idle" /\ ops < MaxOps /\ cursor + len <= MaxCell /\ cursor' = cursor + len
      /\ nextId < MaxIds /\ dRuns' = Data!Staged(dRuns, cursor, CellsOf(r)) /\ nextId' = nextId + 1
      /\ call' = [kind |-> "insert", id |-> nextId, len |-> len, slot |-> Live(cursor, len)]
      /\ pc' = "slot_stage" /\ UNCHANGED <<files, iRuns, opening, history>>
  BY DEF Insert, Alloc, AllocUpdate
<1>2. /\ r \in Record /\ r.len = len /\ r.id = nextId /\ r.tag = ops + 1 /\ r.ver <= r.tag
  <2>1. 1 % VersionMod \in 0 .. VersionMod - 1 /\ 1 % VersionMod <= 1
    <3>1. VersionMod \in Nat /\ VersionMod > 1
      BY <1>1, AppendAssumption DEF HInv, CountOK
    <3> QED  BY <3>1
  <2>2. ops + 1 \in 1 .. MaxOps
    BY <1>1, AppendAssumption DEF HInv, CountOK
  <2>3. nextId \in Ids
    BY <1>1, CellNumbers DEF HInv, PlaceOK
  <2>4. 1 % VersionMod <= ops + 1
    BY <2>1, <2>2, AppendAssumption
  <2> QED  BY <2>1, <2>2, <2>3, <2>4 DEF Record
<1> HIDE DEF r
<1>3. dRuns = <<>>
  BY <1>1 DEF OrderInv, DataOrder, Storing
<1>4. dRuns' = <<[start |-> cursor, vals |-> CellsOf(r)]>>
  <2>1. Data!OpenWrite(<<>>, cursor) = 0
    BY DEF Data!OpenWrite, Data!SelectInSeq
  <2>2. ~Data!CanExtend(<<>>, cursor, Len(CellsOf(r)))
    BY <2>1 DEF Data!CanExtend
  <2>3. dRuns' = Append(<<>>, [start |-> cursor, vals |-> CellsOf(r)])
    BY <1>1, <1>3, <2>2 DEF Data!Staged
  <2> QED  BY <2>3
<1>5. call'.kind = "insert" /\ call'.id = r.id /\ call'.slot = Live(cursor, r.len)
  BY <1>1, <1>2
<1>6. UNCHANGED <<dDisk, iDisk, iRuns, allowed, ops>>
  BY <1>1 DEF files, history
<1> QED  BY <1>1, <1>2, <1>4, <1>5, <1>6, StorePromise

\* Of update after its slot was read: the version it reads is that of the file, and its own
\* is the next.
LEMMA UpdatePromise ==
    ASSUME HInv, OrderInv, PromiseInv, UpdateRecord, MaxOps < VersionMod
    PROVE  PromiseInv' /\ Promised
<1> DEFINE old == dView[call.slot.off].rec
           r == [id |-> call.id, ver |-> (old.ver + 1) % VersionMod,
                 len |-> call.len, tag |-> ops + 1]
<1>1. CASE pc' = "idle"
  BY <1>1, CallPromise
<1>2. CASE pc' # "idle"
  <2>1. /\ pc = "record_read" /\ call.kind = "update" /\ dDisk' = dView
        /\ UNCHANGED <<iDisk, iRuns, nextId, history>>
        /\ ReadHeader(dView, call.slot.off, call.id)
        /\ cursor + call.len <= MaxCell /\ cursor' = cursor + call.len
        /\ dRuns' = <<[start |-> cursor, vals |-> CellsOf(r)]>>
        /\ call' = [call EXCEPT !.slot = Live(cursor, call.len)]
        /\ pc' = "slot_stage"
    BY <1>2 DEF UpdateRecord, AllocUpdate
  <2>2. /\ dView = dDisk /\ Counted(dDisk, ops) /\ dDisk \in [Cells -> AllCells]
    BY <2>1, QuietIs DEF Quiet
  <2>3. call.slot = iDisk[call.id] /\ call.slot.st = "live"
    BY <2>1 DEF PromiseInv, CallInv
  <2>4. /\ old.ver \in Nat /\ old.ver <= ops /\ ops \in Nat /\ MaxOps \in Nat /\ VersionMod \in Nat
        /\ ops < MaxOps
    <3>1. HeaderAt(dDisk, call.slot.off)
      BY <2>1, <2>2 DEF ReadHeader
    <3>2. old.ver \in Nat /\ old \in Record /\ call.slot.off \in Cells /\ dDisk[call.slot.off].k = 1
      BY <2>2, <3>1, HeadersAre DEF HeaderAt
    <3>3. old.ver <= old.tag /\ old.tag <= ops
      BY <2>2, <3>2 DEF Counted
    <3>4. ops \in Nat /\ MaxOps \in Nat /\ VersionMod \in Nat /\ ops < MaxOps
      BY <2>1, AppendAssumption DEF HInv, CountOK, CallOK, Calling
    <3>5. old.tag \in Nat
      BY <3>2, <3>4 DEF Record
    <3> QED  BY <3>2, <3>3, <3>4, <3>5
  <2>5. (old.ver + 1) % VersionMod = old.ver + 1
    <3>1. \A v, m \in Nat : v < m => v % m = v
      OBVIOUS
    <3>2. old.ver + 1 \in Nat /\ old.ver + 1 < VersionMod
      BY <2>4
    <3> HIDE DEF old
    <3> QED  BY <2>4, <3>1, <3>2
  <2>6. /\ r \in Record /\ r.len = call.len /\ r.id = call.id /\ r.tag = ops + 1 /\ r.ver <= r.tag
        /\ dDisk[iDisk[r.id].off].rec.ver < r.ver
    <3>1. call.id \in Ids /\ call.len \in Lens
      BY <2>1 DEF HInv, CallOK, Calling
    <3>2. old.ver + 1 \in 0 .. VersionMod - 1 /\ ops + 1 \in 1 .. MaxOps /\ old.ver + 1 <= ops + 1
          /\ old.ver < old.ver + 1
      BY <2>4
    <3>3. dDisk[iDisk[call.id].off].rec = old
      BY <2>2, <2>3
    <3> HIDE DEF old
    <3> QED  BY <2>5, <3>1, <3>2, <3>3 DEF Record
  <2> HIDE DEF r
  <2>7. call'.kind = "update" /\ call'.id = r.id /\ call'.slot = Live(cursor, r.len)
    BY <2>1, <2>6 DEF HInv, CallOK
  <2>8. UNCHANGED <<dDisk, iDisk, iRuns, allowed, ops>>
    BY <2>1, <2>2 DEF history
  <2>9. iDisk[r.id].st = "live"
    BY <2>3, <2>6
  <2> QED  BY <2>1, <2>6, <2>7, <2>8, <2>9, StorePromise
<1> QED  BY <1>1, <1>2

\* The record a call stores: whole in the view at the end of the files at rest, where it
\* will wait for its slot.
LEMMA StoredIs ==
    ASSUME HInv, OrderInv, PromiseInv, Storing, pc # "commit_sync", NEW r \in Record, Stores(r)
    PROVE  /\ dView \in [Cells -> AllCells]
           /\ AtRest(dDisk, iDisk, allowed, Numbers, Floor)
           /\ Orderly(dView, iDisk, allowed, Numbers, Floor)
           /\ RecordAt(dView, Floor) /\ dView[Floor].rec = r
           /\ \A p \in Cells : p < Floor => dView[p] = dDisk[p]
           /\ \A p \in Cells : dView[p] = dDisk[p] \/ dView[p].rec = r
           /\ \A id \in Ids : Read(dView, iDisk, id) = Read(dDisk, iDisk, id)
           /\ r.id <= Numbers /\ nextId = (IF r.id = Numbers THEN Numbers + 1 ELSE Numbers)
           /\ r.id < Numbers => /\ iDisk[r.id].st = "live"
                                /\ dView[iDisk[r.id].off].rec.ver < r.ver
           /\ Floor + r.len = cursor /\ call.slot = Live(Floor, r.len) /\ call.id = r.id
<1>1. AtRest(dDisk, iDisk, allowed, Numbers, Floor) /\ Tight(iDisk, Numbers, Floor)
      /\ NoneBehind(dDisk, Floor) /\ ~RecordAt(dDisk, Floor)
  BY DEF PromiseInv, RestInv, Storing, AtRest, Orderly
<1>2. /\ dRuns = <<[start |-> Floor, vals |-> CellsOf(r)]>>
      /\ call.slot = Live(Floor, r.len) /\ cursor = Floor + r.len /\ call.id = r.id
  BY DEF Floor, Stores
<1>3. /\ Floor \in Nat /\ Floor >= DATA_PAGE /\ Floor + r.len <= MaxCell /\ Numbers \in Nat
      /\ Numbers \in 0 .. MaxIds /\ Floor \in DATA_PAGE .. MaxCell /\ r.id \in Ids /\ r.id \in Nat
  <2>1. cursor <= MaxCell
    BY CellNumbers DEF HInv, PlaceOK
  <2>2. r.id \in Ids /\ r.id \in Nat
    BY CellNumbers DEF Record
  <2>3. Numbers \in 0 .. MaxIds /\ Floor \in DATA_PAGE .. MaxCell
    BY <1>1 DEF AtRest, Orderly
  <2>4. \A n : n \in 0 .. MaxIds => n \in Nat
    BY CellNumbers
  <2>5. \A n : n \in DATA_PAGE .. MaxCell => n \in Nat /\ n >= DATA_PAGE
    BY CellNumbers
  <2> HIDE DEF Floor, Numbers
  <2> QED  BY <1>2, <2>1, <2>2, <2>3, <2>4, <2>5
<1>4. dDisk \in [Cells -> AllCells] /\ iDisk \in [Ids -> Slots]
  BY DEF HInv, FilesOK
<1>5. dView = Shown(dDisk, <<[start |-> Floor, vals |-> CellsOf(r)]>>)
  BY <1>2, ViewsAre
<1> HIDE DEF Floor
<1>6. /\ dView \in [Cells -> AllCells] /\ RecordAt(dView, Floor) /\ dView[Floor].rec = r
      /\ \A p \in Cells : p < Floor => dView[p] = dDisk[p]
      /\ NoneBehind(dView, Floor)
      /\ \A p \in Cells : dView[p] = dDisk[p] \/ dView[p].rec = r
  BY <1>1, <1>3, <1>4, <1>5, RecordStaged
<1>7. Holds(iDisk, WholePairs(dDisk)) /\ Holds(iDisk, FreshPairs(MaxIds, Floor))
  BY DEF OrderInv, IndexOrder, Storing
<1>8. \A id \in Ids : Read(dView, iDisk, id) = Read(dDisk, iDisk, id)
  BY <1>3, <1>4, <1>6, <1>7, ReadsSame
<1>9. Orderly(dView, iDisk, allowed, Numbers, Floor)
  BY <1>1, <1>6, <1>8 DEF AtRest, Orderly, Reads
<1>10. CASE call.kind = "insert"
  <2>1. Numbers = r.id /\ nextId = r.id + 1
    BY <1>2, <1>10 DEF Numbers, Stores
  <2> QED  BY <1>1, <1>2, <1>3, <1>6, <1>8, <1>9, <2>1
<1>11. CASE call.kind # "insert"
  <2>1. /\ Numbers = nextId /\ iDisk[r.id].st = "live"
        /\ dDisk[iDisk[r.id].off].rec.ver < r.ver
    BY <1>11 DEF Numbers, Stores, Storing
  <2>2. r.id < Numbers
    BY <1>1, <1>3, <2>1 DEF Tight
  <2>3. dView[iDisk[r.id].off] = dDisk[iDisk[r.id].off]
    <3> DEFINE s == iDisk[r.id]
    <3>1. s \in Slots /\ <<r.id, s>> \in FreshPairs(MaxIds, Floor)
      BY <1>3, <1>4, <1>7 DEF Holds
    <3>2. s.off \in Cells /\ s.off \in Nat /\ s.len \in Nat /\ s.len > 0
      BY <2>1, <3>1, SlotIs
    <3>3. s.off + s.len <= Floor
      BY <2>1, <3>1 DEF FreshPairs
    <3>4. s.off < Floor
      BY <1>3, <3>2, <3>3
    <3> QED  BY <1>6, <3>2, <3>4
  <2>4. r.id <= Numbers /\ r.id # Numbers
    BY <1>3, <2>2
  <2> QED  BY <1>1, <1>2, <1>6, <1>8, <1>9, <2>1, <2>2, <2>3, <2>4
<1> QED  BY <1>10, <1>11

\* The slot is staged: what calls see changes for one record, and the outcome is allowed.
LEMMA SlotPromise ==
    ASSUME HInv, OrderInv, PromiseInv, SlotStage, SyncEvery = 1
    PROVE  PromiseInv' /\ Promised
<1> DEFINE v == IF call.kind = "delete" THEN NotFound ELSE ops + 1
           id == call.id
           i == [iDisk EXCEPT ![id] = call.slot]
<1>1. /\ pc = "slot_stage" /\ iRuns' = StageSlot(iRuns, id, call.slot) /\ ops' = ops + 1
      /\ allowed' = [allowed EXCEPT ![id] = @ \union {v}]
      /\ UNCHANGED <<dDisk, iDisk, dRuns, cursor, nextId>>
  BY DEF SlotStage, files, placement
<1>2. pc' = "commit_data" /\ UNCHANGED call
  <2>1. (sinceSync + 1) % CounterMod \in Nat
    BY AppendAssumption DEF HInv, CountOK
  <2>2. \A n \in Nat : n % 1 = 0
    OBVIOUS
  <2>3. CommitDue((sinceSync + 1) % CounterMod, dRuns, StageSlot(iRuns, call.id, call.slot))
    BY <2>1, <2>2 DEF CommitDue
  <2> QED  BY <2>3 DEF SlotStage
<1>3. /\ iRuns = <<>> /\ iView = iDisk /\ iDisk \in [Ids -> Slots] /\ dDisk \in [Cells -> AllCells]
      /\ id \in Ids /\ call.slot \in Slots /\ DOMAIN allowed = Ids
  BY <1>1, NothingStaged DEF OrderInv, IndexOrder, NoSlots, HInv, FilesOK, CallOK, Calling,
                             PromiseInv, RestInv
<1>4. /\ iRuns' = <<[start |-> id, vals |-> <<call.slot>>]>>
      /\ iView' = i /\ dView' = dView
  <2>1. iRuns' = <<[start |-> id, vals |-> <<call.slot>>]>>
    BY <1>1, <1>3, OneStaged, Zenon
  <2>2. iView' = Shown(iDisk, iRuns')
    BY <1>1 DEF iView, Index!Overlay, Index!End, Shown
  <2>3. Shown(iDisk, <<[start |-> id, vals |-> <<call.slot>>]>>) = i
    <3>1. \A f \in [Ids -> Slots] :
             Shown(f, <<[start |-> id, vals |-> <<call.slot>>]>>) = [f EXCEPT ![id] = call.slot]
      BY <1>3, OneStaged, Zenon
    <3>2. iDisk \in [Ids -> Slots]
      BY <1>3
    <3> QED  BY <3>1, <3>2, Zenon
  <2>4. dView' = dView
    BY <1>1 DEF dView
  <2> HIDE DEF i
  <2> QED  BY <2>1, <2>2, <2>3, <2>4
<1>5. \A x \in Ids : allowed[x] \subseteq allowed'[x]
  BY <1>1, <1>3
<1>6. v \in allowed'[id] /\ DOMAIN allowed' = Ids
  BY <1>1, <1>3
<1>7. v \in 0 .. MaxOps /\ ops \in Nat /\ ops < MaxOps
  <2>1. ops \in 0 .. MaxOps /\ ops < MaxOps /\ MaxOps \in Nat
    BY <1>1, AppendAssumption DEF HInv, CountOK, CallOK, Calling
  <2> QED  BY <2>1 DEF NotFound
<1> HIDE DEF v
<1>8. Storing' = Storing /\ Numbers' = Numbers /\ Floor' = Floor
  BY <1>1, <1>2 DEF Storing, Numbers, Floor
<1>9. AtRest(dDisk, iDisk, allowed', Numbers, Floor) /\ Restorable(dDisk, iDisk, allowed')
  <2>1. AtRest(dDisk, iDisk, allowed, Numbers, Floor)
    BY <1>1 DEF PromiseInv, RestInv
  <2>2. AtRest(dDisk, iDisk, allowed', Numbers, Floor)
    BY <1>5, <2>1, AllowMore
  <2> QED  BY <2>2, RestIsRestorable
<1>10. /\ AtRest(dView, i, allowed', nextId, cursor)
       /\ \A x \in Ids : Read(dView, i, x) = IF x = id THEN v ELSE Read(dView, iDisk, x)
       /\ Storing => \E r \in Record : Stores(r) /\ r.tag = v /\ v = ops + 1
  <2>1. \A x \in Ids : x # id => Read(dView, i, x) = Read(dView, iDisk, x)
    <3>1. \A x \in Ids : x # id => i[x] = iDisk[x]
      BY <1>3
    <3> HIDE DEF i
    <3> QED  BY <3>1 DEF Read
  <2>2. CASE Storing
    <3>1. PICK r \in Record : Stores(r)
      BY <1>1, <2>2 DEF PromiseInv, CallInv
    <3>2. /\ dView \in [Cells -> AllCells]
          /\ Orderly(dView, iDisk, allowed, Numbers, Floor)
          /\ RecordAt(dView, Floor) /\ dView[Floor].rec = r
          /\ r.id <= Numbers /\ nextId = (IF r.id = Numbers THEN Numbers + 1 ELSE Numbers)
          /\ Floor + r.len = cursor /\ call.slot = Live(Floor, r.len) /\ id = r.id
      BY <1>1, <2>2, <3>1, StoredIs
    <3>3. v = ops + 1 /\ r.tag = ops + 1
      BY <1>1, <2>2, <3>1 DEF v, Storing, Stores
    <3>4. Orderly(dView, iDisk, allowed', Numbers, Floor)
      BY <1>5, <3>2, AllowMore
    <3> HIDE DEF Floor, Numbers
    <3>5. AtRest(dView, [iDisk EXCEPT ![r.id] = Live(Floor, r.len)], allowed', nextId, Floor + r.len)
      BY <1>3, <1>6, <3>2, <3>3, <3>4, Lands, Zenon
    <3>6. AtRest(dView, i, allowed', nextId, cursor)
      BY <3>2, <3>5
    <3>7. Read(dView, i, id) = v
      <4>1. i[id].st = "live" /\ i[id].off = Floor /\ i[id].len = r.len
        BY <1>3, <3>2 DEF Live
      <4> HIDE DEF i
      <4> QED  BY <3>2, <3>3, <4>1 DEF Read
    <3> QED  BY <2>1, <3>1, <3>3, <3>6, <3>7, Zenon
  <2>3. CASE ~Storing
    <3>1. /\ call.kind = "delete" /\ iDisk[id].st = "live" /\ call.slot = Tombstone(iDisk[id])
      BY <1>1, <2>3 DEF PromiseInv, CallInv
    <3>2. dView = dDisk /\ Floor = cursor /\ Numbers = nextId
      BY <2>3, NothingStaged DEF OrderInv, DataOrder, Floor, Numbers
    <3>3. v = NotFound
      BY <3>1 DEF v
    <3>4. Tight(iDisk, nextId, cursor)
      BY <1>9, <3>2 DEF AtRest, Orderly
    <3>5. Tight(i, nextId, cursor) /\ call.slot.st = "deleted"
      BY <1>3, <3>1, <3>4, TightTombstone, Zenon
    <3>6. Read(dView, i, id) = NotFound
      <4>1. i[id].st = "deleted"
        BY <1>3, <3>5
      <4> QED  BY <4>1 DEF Read
    <3>7. Reads(dView, i, allowed')
      <4>1. \A x \in Ids : Read(dView, iDisk, x) \in allowed'[x]
        BY <1>9, <3>2 DEF AtRest, Orderly, Reads
      <4> QED  BY <1>6, <2>1, <3>3, <3>6, <4>1, Zenon DEF Reads
    <3>8. AtRest(dView, i, allowed', nextId, cursor)
      BY <1>9, <3>2, <3>5, <3>7 DEF AtRest, Orderly
    <3> QED  BY <2>1, <2>3, <3>3, <3>6, <3>8, Zenon
  <2> QED  BY <2>2, <2>3, Zenon
<1> HIDE DEF i
<1>11. RestInv'
  BY <1>1, <1>2, <1>4, <1>6, <1>8, <1>9, <1>10 DEF RestInv, Quiet
<1>12. CallInv'
  <2>1. Storing' => \E r \in Record : Stores(r)'
    <3> SUFFICES ASSUME Storing PROVE \E r \in Record : Stores(r)'
      BY <1>8
    <3>1. PICK r \in Record : Stores(r) /\ r.tag = v /\ v = ops + 1
      BY <1>10
    <3>2. call.id = r.id
      BY <3>1 DEF Stores
    <3>3. Stores(r)'
      BY <1>1, <1>2, <1>6, <3>1, <3>2 DEF Stores
    <3> QED  BY <3>3
  <2> QED  BY <1>2, <1>3, <1>4, <2>1 DEF CallInv
<1>13. RestoreInv' /\ Counted(dDisk', ops')
  <2>1. Counted(dDisk, ops)
    BY DEF PromiseInv
  <2>2. Counted(dDisk, ops + 1)
    <3> SUFFICES ASSUME NEW p \in Cells, dDisk[p].k = 1
                 PROVE  dDisk[p].rec.ver <= dDisk[p].rec.tag /\ dDisk[p].rec.tag <= ops + 1
      BY DEF Counted
    <3>1. dDisk[p].rec \in Record
      BY <1>3, HeadersAre DEF HeaderAt
    <3>2. dDisk[p].rec.tag \in Nat
      BY <3>1, AppendAssumption DEF Record
    <3>3. dDisk[p].rec.ver <= dDisk[p].rec.tag /\ dDisk[p].rec.tag <= ops
      BY <2>1 DEF Counted
    <3> QED  BY <1>7, <3>2, <3>3
  <2> QED  BY <1>1, <1>2, <2>2 DEF RestoreInv
<1>14. Promised
  <2>1. Up /\ Up'
    BY <1>1, <1>2 DEF Up
  <2>2. \A x \in Ids : Read(dView', iView', x) = IF x = id THEN v ELSE Lookup(x)
    BY <1>3, <1>4, <1>10 DEF Lookup
  <2> QED  BY <1>1, <1>3, <1>7, <2>1, <2>2, Writes, Zenon
<1> QED  BY <1>11, <1>12, <1>13, <1>14 DEF PromiseInv

\* The data is flushed: a record that was staged waits in the file for its slot.
LEMMA DataPromise ==
    ASSUME HInv, OrderInv, PromiseInv, CommitData
    PROVE  PromiseInv' /\ Promised
<1>1. /\ pc = "commit_data" /\ pc' = "commit_sync" /\ dDisk' = dView /\ dRuns' = <<>>
      /\ UNCHANGED <<iDisk, iRuns, cursor, nextId, call, allowed, ops>>
  BY DEF CommitData, FlushData, placement, history
<1>2. dView' = dView /\ iView' = iView
  <2>1. dView' = Shown(dView, <<>>)
    BY <1>1 DEF dView, Data!Overlay, Data!End, Shown
  <2>2. dView = [p \in Cells |-> dView[p]]
    BY ViewTypes
  <2>3. dView' = dView
    BY <2>1, <2>2 DEF Shown
  <2> QED  BY <1>1, <2>3 DEF iView
<1>3. Restorable(dView, iDisk, allowed) /\ Counted(dView, ops)
  <2>1. CASE Storing
    <3>1. PICK r \in Record : Stores(r)
      BY <1>1, <2>1 DEF PromiseInv, CallInv
    <3>2. /\ Orderly(dView, iDisk, allowed, Numbers, Floor)
          /\ RecordAt(dView, Floor) /\ dView[Floor].rec = r
          /\ \A p \in Cells : dView[p] = dDisk[p] \/ dView[p].rec = r
          /\ r.id <= Numbers
          /\ r.id < Numbers => /\ iDisk[r.id].st = "live"
                               /\ dView[iDisk[r.id].off].rec.ver < r.ver
      BY <1>1, <2>1, <3>1, StoredIs
    <3>3. r.tag \in allowed[r.id] /\ r.ver <= r.tag /\ r.tag = ops
      BY <1>1, <3>1 DEF Stores
    <3> HIDE DEF Floor, Numbers
    <3>4. Restorable(dView, iDisk, allowed)
      <4>1. Waits(dView, iDisk, allowed, Numbers, Floor)
        BY <3>2, <3>3 DEF Waits
      <4> QED  BY <3>2, <4>1 DEF Restorable, Orderly
    <3>5. Counted(dView, ops)
      <4>1. ops \in Nat
        BY DEF HInv, CountOK
      <4>2. Counted(dDisk, ops)
        BY DEF PromiseInv
      <4> QED  BY <3>2, <3>3, <4>1, <4>2 DEF Counted
    <3> QED  BY <3>4, <3>5
  <2>2. CASE ~Storing
    <3>1. dView = dDisk
      BY <2>2, NothingStaged DEF OrderInv, DataOrder
    <3> QED  BY <3>1 DEF PromiseInv, RestInv
  <2> QED  BY <2>1, <2>2
<1>4. RestInv'
  BY <1>1, <1>2, <1>3 DEF PromiseInv, RestInv, Quiet
<1>5. CallInv' /\ RestoreInv'
  BY <1>1 DEF PromiseInv, CallInv, RestoreInv
<1>6. Promised
  <2>1. Up /\ Up'
    BY <1>1 DEF Up
  <2>2. \A id \in Ids : Read(dView', iView', id) = Lookup(id)
    BY <1>2 DEF Lookup
  <2> QED  BY <1>1, <2>1, <2>2, SameView
<1> QED  BY <1>1, <1>3, <1>4, <1>5, <1>6 DEF PromiseInv

\* The data is synced.
LEMMA SyncPromise ==
    ASSUME HInv, OrderInv, PromiseInv, CommitSync
    PROVE  PromiseInv' /\ Promised
<1>1. /\ pc = "commit_sync" /\ pc' = "commit_index"
      /\ UNCHANGED <<dDisk, dRuns, iDisk, iRuns, cursor, nextId, call, allowed, ops>>
  BY DEF CommitSync, placement, history
<1>2. dView' = dView /\ iView' = iView
  BY <1>1 DEF dView, iView
<1>3. RestInv'
  BY <1>1, <1>2 DEF PromiseInv, RestInv, Quiet
<1>4. CallInv' /\ RestoreInv' /\ Counted(dDisk', ops')
  BY <1>1 DEF PromiseInv, CallInv, RestoreInv, Storing
<1>5. Promised
  <2>1. Up /\ Up'
    BY <1>1 DEF Up
  <2>2. \A id \in Ids : Read(dView', iView', id) = Lookup(id)
    BY <1>2 DEF Lookup
  <2> QED  BY <1>1, <2>1, <2>2, SameView
<1> QED  BY <1>3, <1>4, <1>5 DEF PromiseInv

\* The index is flushed, at the end of a commit or of a restore: the files are at rest.
LEMMA FlushRests ==
    ASSUME HInv, OrderInv, PromiseInv, pc \in {"commit_index", "restore_flush"},
           pc' \in {"idle", "index_sync", "restore_sync"}, FlushIndex,
           UNCHANGED <<dDisk, dRuns, cursor, nextId, ops>>,
           DOMAIN allowed' = Ids, Reads(dView, iView, allowed')
    PROVE  PromiseInv' /\ dView' = dView /\ iView' = iView
<1>1. dRuns = <<>> /\ dView = dDisk
  BY NothingStaged DEF OrderInv, DataOrder, Storing
<1>2. iDisk' = iView /\ iRuns' = <<>>
  BY DEF FlushIndex
<1>3. AtRest(dView, iView, allowed, nextId, cursor) /\ Counted(dDisk, ops)
  BY DEF PromiseInv, RestInv
<1>4. AtRest(dDisk, iView, allowed', nextId, cursor)
  BY <1>1, <1>3 DEF AtRest, Orderly
<1>5. dDisk \in [Cells -> AllCells] /\ iView \in [Ids -> Slots]
  BY ViewTypes DEF HInv, FilesOK
<1>6. ~Storing'
  BY DEF Storing
<1>7. PromiseInv' /\ dView' = dDisk' /\ iView' = iDisk'
  BY <1>1, <1>2, <1>3, <1>4, <1>5, <1>6, Rested
<1> QED  BY <1>1, <1>2, <1>7

LEMMA IndexPromise ==
    ASSUME HInv, OrderInv, PromiseInv, CommitIndex
    PROVE  PromiseInv' /\ Promised
<1>1. /\ pc = "commit_index" /\ pc' \in {"idle", "index_sync"} /\ FlushIndex
      /\ UNCHANGED <<dDisk, dRuns, cursor, nextId, ops>>
      /\ allowed' = [id \in Ids |-> {Lookup(id)}]
  BY DEF CommitIndex, placement
<1>2. DOMAIN allowed' = Ids /\ Reads(dView, iView, allowed')
  BY <1>1 DEF Reads, Lookup
<1>3. PromiseInv' /\ dView' = dView /\ iView' = iView
  BY <1>1, <1>2, FlushRests
<1>4. Up /\ Up'
  BY <1>1 DEF Up
<1>5. \A id \in Ids : Read(dView', iView', id) = Lookup(id)
  BY <1>3 DEF Lookup
<1> QED  BY <1>1, <1>3, <1>4, <1>5, Commits

\* The last two steps of a restore.
LEMMA RestoredPromise ==
    ASSUME HInv, OrderInv, PromiseInv, RestoreFlush \/ RestoreSync
    PROVE  PromiseInv' /\ Promised
<1>1. CASE RestoreFlush
  <2>1. /\ pc = "restore_flush" /\ pc' = "restore_sync" /\ FlushIndex
        /\ UNCHANGED <<dDisk, dRuns, cursor, nextId, ops, allowed>>
    BY <1>1 DEF RestoreFlush, placement, history
  <2>2. DOMAIN allowed' = Ids /\ Reads(dView, iView, allowed')
    BY <2>1 DEF PromiseInv, RestInv, AtRest, Orderly
  <2>3. PromiseInv'
    BY <2>1, <2>2, FlushRests
  <2>4. ~Up /\ ~Up'
    BY <2>1 DEF Up
  <2> QED  BY <2>1, <2>3, <2>4, StaysClosed
<1>2. CASE RestoreSync
  <2>1. /\ pc = "restore_sync" /\ pc' = "idle" /\ Recovered
        /\ UNCHANGED <<dDisk, dRuns, iDisk, iRuns, cursor, nextId, ops>>
    BY <1>2 DEF RestoreSync, placement
  <2>2. /\ dRuns = <<>> /\ iRuns = <<>> /\ dView = dDisk /\ iView = iDisk
        /\ AtRest(dDisk, iDisk, allowed, nextId, cursor) /\ Counted(dDisk, ops)
        /\ dDisk \in [Cells -> AllCells] /\ iDisk \in [Ids -> Slots]
    BY <2>1, QuietIs DEF Quiet
  <2>3. dView' = dDisk /\ iView' = iDisk
    BY <2>1, <2>2 DEF dView, iView
  <2>4. allowed' = [id \in Ids |-> {Read(dDisk, iDisk, id)}]
    BY <2>1, <2>3 DEF Recovered, Lookup
  <2>5. AtRest(dDisk, iDisk, allowed', nextId, cursor) /\ DOMAIN allowed' = Ids
    BY <2>2, <2>4 DEF AtRest, Orderly, Reads
  <2>6. ~Storing'
    BY <2>1 DEF Storing
  <2>7. PromiseInv'
    BY <2>1, <2>2, <2>5, <2>6, Rested
  <2>8. ~Up /\ Up'
    BY <2>1 DEF Up
  <2>9. \A id \in Ids : Read(dDisk, iDisk, id) \in allowed[id] \intersect (0 .. MaxOps)
    <3> TAKE id \in Ids
    <3>1. Read(dDisk, iDisk, id) \in allowed[id]
      BY <2>2 DEF AtRest, Orderly, Reads
    <3>2. <<id, iDisk[id]>> \in WholePairs(dDisk)
      BY <2>2 DEF OrderInv, IndexOrder, Holds
    <3> QED  BY <2>2, <3>1, <3>2, ReadIs
  <2> QED  BY <2>1, <2>3, <2>7, <2>8, <2>9, Recovers
<1> QED  BY <1>1, <1>2

-----------------------------------------------------------------------------
(* Crashes. *)

\* A slot that ends at most at c begins below.
LEMMA BeginsBelow ==
    ASSUME NEW i \in [Ids -> Slots], NEW c \in Nat, Holds(i, FreshPairs(MaxIds, c)),
           NEW id \in Ids, i[id].st # "empty"
    PROVE  i[id].off \in Cells /\ i[id].off \in Nat /\ i[id].off < c
<1> DEFINE s == i[id]
<1>1. s \in Slots /\ <<id, s>> \in FreshPairs(MaxIds, c)
  BY DEF Holds
<1>2. s.off \in Cells /\ s.off \in Nat /\ s.len \in Nat /\ s.len > 0
  BY <1>1, SlotIs
<1>3. s.off + s.len <= c
  BY <1>1 DEF FreshPairs
<1> HIDE DEF s
<1>4. s.off < c
  BY <1>2, <1>3
<1> QED  BY <1>2, <1>4 DEF s

\* The memory is gone, and the files can be opened.
LEMMA LosePromise ==
    ASSUME PromiseInv, LoseMemory, Restorable(dDisk', iDisk', allowed), Counted(dDisk', ops),
           UNCHANGED <<allowed, ops>>
    PROVE  PromiseInv' /\ Promised
<1>1. dRuns' = <<>> /\ iRuns' = <<>> /\ pc' = "down"
  BY DEF LoseMemory
<1>2. RestInv' /\ CallInv' /\ RestoreInv'
  BY <1>1 DEF PromiseInv, RestInv, Quiet, CallInv, Storing, RestoreInv
<1>3. ~Up'
  BY <1>1 DEF Up
<1>4. Promised
  BY <1>3, Stops, StaysClosed
<1> QED  BY <1>2, <1>4 DEF PromiseInv

\* The flush of a record is cut short: the record waits for its slot, or it is not whole and
\* the record before it is untouched.
LEMMA TornRestorable ==
    ASSUME HInv, OrderInv, PromiseInv, Storing, pc = "commit_data", NEW t \in DataTorn
    PROVE  Restorable(t, iDisk, allowed) /\ Counted(t, ops)
<1>1. PICK r \in Record : Stores(r)
  BY DEF PromiseInv, CallInv
<1>2. /\ dView \in [Cells -> AllCells]
      /\ AtRest(dDisk, iDisk, allowed, Numbers, Floor)
      /\ Orderly(dView, iDisk, allowed, Numbers, Floor)
      /\ \A p \in Cells : p < Floor => dView[p] = dDisk[p]
      /\ \A p \in Cells : dView[p] = dDisk[p] \/ dView[p].rec = r
      /\ r.id <= Numbers
      /\ r.id < Numbers => /\ iDisk[r.id].st = "live"
                           /\ dView[iDisk[r.id].off].rec.ver < r.ver
  BY <1>1, StoredIs
<1>3. r.tag \in allowed[r.id] /\ r.ver <= r.tag /\ r.tag = ops /\ r.id \in Ids
  BY <1>1 DEF Stores, Record
<1>4. /\ t \in [Cells -> AllCells] /\ \A p \in Cells : t[p] \in {dDisk[p], dView[p]}
      /\ dDisk \in [Cells -> AllCells] /\ iDisk \in [Ids -> Slots]
  BY TornIs DEF HInv, FilesOK
<1>5. /\ ~RecordAt(dDisk, Floor) /\ NoneBehind(dDisk, Floor) /\ NoneBehind(dView, Floor)
      /\ Floor \in Nat
  BY <1>2, FloorIs DEF AtRest, Orderly
<1>6. Holds(iDisk, WholePairs(dDisk)) /\ Holds(iDisk, FreshPairs(MaxIds, Floor))
  BY DEF OrderInv, IndexOrder
<1> HIDE DEF Floor, Numbers
<1>7. /\ NoneBehind(t, Floor) /\ \A p \in Cells : p < Floor => t[p] = dDisk[p]
      /\ RecordAt(t, Floor) => t[Floor].rec = r
  <2>1. \A p \in Cells : p < Floor => dView[p] = dDisk[p]
    BY <1>2
  <2>2. \A p \in Cells : dView[p] = dDisk[p] \/ dView[p].rec = r
    BY <1>2
  <2>3. \A p \in Cells : t[p] \in {dDisk[p], dView[p]}
    BY <1>4
  <2>4. t \in [Cells -> AllCells] /\ dView \in [Cells -> AllCells] /\ dDisk \in [Cells -> AllCells]
    BY <1>2, <1>4
  <2> QED  BY <1>5, <2>1, <2>2, <2>3, <2>4, TornWrite, SMTT(60)
<1>8. \A id \in Ids : Read(t, iDisk, id) = Read(dDisk, iDisk, id)
  BY <1>4, <1>5, <1>6, <1>7, ReadsSame
<1>9. Orderly(t, iDisk, allowed, Numbers, Floor)
  BY <1>2, <1>7, <1>8 DEF AtRest, Orderly, Reads
<1>10. ASSUME RecordAt(t, Floor) PROVE Waits(t, iDisk, allowed, Numbers, Floor)
  <2>1. t[Floor].rec = r
    BY <1>7, <1>10
  <2>2. ASSUME r.id < Numbers PROVE iDisk[r.id].st = "live" /\ t[iDisk[r.id].off].rec.ver < r.ver
    <3>1. iDisk[r.id].st = "live" /\ dView[iDisk[r.id].off].rec.ver < r.ver
      BY <1>2, <2>2
    <3>2. iDisk[r.id].off \in Cells /\ iDisk[r.id].off < Floor
      BY <1>3, <1>4, <1>5, <1>6, <3>1, BeginsBelow
    <3>3. t[iDisk[r.id].off] = dView[iDisk[r.id].off]
      BY <1>2, <1>7, <3>2
    <3> QED  BY <3>1, <3>3
  <2> QED  BY <1>2, <1>3, <1>10, <2>1, <2>2 DEF Waits
<1>11. Restorable(t, iDisk, allowed)
  BY <1>9, <1>10 DEF Restorable, Orderly
<1>12. Counted(t, ops)
  <2>1. ops \in Nat
    BY DEF HInv, CountOK
  <2>2. Counted(dDisk, ops)
    BY DEF PromiseInv
  <2>3. ASSUME NEW p \in Cells, t[p].k = 1
        PROVE  t[p].rec.ver <= t[p].rec.tag /\ t[p].rec.tag <= ops
    <3>1. CASE t[p] = dDisk[p]
      BY <2>2, <2>3, <3>1 DEF Counted
    <3>2. CASE t[p] = dView[p] /\ dView[p].rec = r
      BY <1>3, <2>1, <3>2
    <3> QED  BY <1>2, <1>4, <3>1, <3>2
  <2> QED  BY <2>3 DEF Counted
<1> QED  BY <1>11, <1>12

\* The process dies, also in the middle of a flush.
LEMMA KillPromise ==
    ASSUME HInv, OrderInv, PromiseInv, Kill
    PROVE  PromiseInv' /\ Promised
<1>1. /\ pc # "down" /\ dDisk' \in DataTorn /\ iDisk' \in IndexTorn /\ LoseMemory
      /\ UNCHANGED <<allowed, ops>>
  BY DEF Kill
<1>2. Restorable(dDisk', iDisk', allowed) /\ Counted(dDisk', ops)
  <2>1. CASE Storing /\ pc = "commit_data"
    <3>1. iDisk' = iDisk
      BY <1>1, <2>1 DEF IndexTorn
    <3> QED  BY <1>1, <2>1, <3>1, TornRestorable
  <2>2. CASE ~(Storing /\ pc = "commit_data")
    <3>1. dDisk' = dDisk
      <4>1. CASE pc \in {"commit_data", "record_read"}
        <5>1. dRuns = <<>>
          BY <2>2, <4>1 DEF OrderInv, DataOrder, Storing
        <5>2. dView = dDisk /\ dDisk \in [Cells -> AllCells]
          BY <5>1, NothingStaged DEF HInv, FilesOK
        <5>3. dDisk' \in [Cells -> AllCells] /\ \A x \in Cells : dDisk'[x] = dDisk[x]
          BY <1>1, <5>2, TornIs
        <5> QED  BY <5>2, <5>3
      <4>2. CASE pc \notin {"commit_data", "record_read"}
        BY <1>1, <4>2 DEF DataTorn
      <4> QED  BY <4>1, <4>2
    <3>2. Restorable(dDisk, iDisk, allowed) /\ Counted(dDisk, ops)
      BY DEF PromiseInv, RestInv
    <3>3. /\ iDisk' \in [Ids -> Slots] /\ iDisk \in [Ids -> Slots] /\ iView \in [Ids -> Slots]
          /\ \A x \in Ids : iDisk'[x] \in {iDisk[x], iView[x]}
      BY <1>1, TornIs, ViewTypes DEF HInv, FilesOK
    <3>4. CASE iRuns = <<>>
      <4>1. iView = iDisk
        BY <3>4, NothingStaged
      <4>2. iDisk' = iDisk
        BY <3>3, <4>1
      <4> QED  BY <3>1, <3>2, <4>2
    <3>5. CASE iRuns # <<>>
      <4>1. PICK id \in Ids, s \in Slots : iRuns = <<[start |-> id, vals |-> <<s>>]>>
        BY <3>5 DEF PromiseInv, CallInv
      <4>2. iView = [iDisk EXCEPT ![id] = s]
        <5>1. \A f \in [Ids -> Slots] :
                 Shown(f, <<[start |-> id, vals |-> <<s>>]>>) = [f EXCEPT ![id] = s]
          BY OneStaged, Zenon
        <5>2. iDisk \in [Ids -> Slots]
          BY <3>3
        <5>3. iView = Shown(iDisk, <<[start |-> id, vals |-> <<s>>]>>)
          BY <4>1, ViewsAre
        <5> QED  BY <5>1, <5>2, <5>3, Zenon
      <4>3. iDisk' = iDisk \/ iDisk' = iView
        <5>1. CASE iDisk'[id] = iDisk[id]
          <6>1. \A x \in Ids : iDisk'[x] = iDisk[x]
            BY <3>3, <4>2, <5>1
          <6> QED  BY <3>3, <6>1
        <5>2. CASE iDisk'[id] = iView[id]
          <6>1. \A x \in Ids : iDisk'[x] = iView[x]
            BY <3>3, <4>2, <5>2
          <6> QED  BY <3>3, <6>1
        <5> QED  BY <3>3, <5>1, <5>2
      <4>4. CASE iDisk' = iDisk
        BY <3>1, <3>2, <4>4
      <4>5. CASE iDisk' # iDisk /\ iDisk' = iView
        <5>1. pc \in {"commit_index", "restore_flush"}
          <6>1. pc \in {"slot_read", "commit_index", "restore", "restore_flush", "slot_stage"}
            BY <1>1, <4>5 DEF IndexTorn
          <6>2. pc \notin {"slot_read", "slot_stage", "restore"}
            BY <3>5 DEF OrderInv, IndexOrder, NoSlots, PromiseInv, RestoreInv
          <6> QED  BY <6>1, <6>2
        <5>2. dView = dDisk
          BY <5>1, NothingStaged DEF OrderInv, DataOrder, Storing
        <5>3. AtRest(dDisk, iView, allowed, nextId, cursor)
          BY <5>1, <5>2 DEF PromiseInv, RestInv
        <5>4. Restorable(dDisk, iView, allowed)
          BY <5>3, RestIsRestorable
        <5> QED  BY <3>1, <3>2, <4>5, <5>4
      <4> QED  BY <4>3, <4>4, <4>5
    <3> QED  BY <3>4, <3>5
  <2> QED  BY <2>1, <2>2
<1> QED  BY <1>1, <1>2, LosePromise

-----------------------------------------------------------------------------
(* Opening. *)

\* The restore from at most one record.
LEMMA GatherOne ==
    ASSUME NEW base, NEW found \in Seq(Nat), Len(found) <= 1
    PROVE  FoldLeft(FoldTail, base, found) = IF found = <<>> THEN base ELSE FoldTail(base, found[1])
<1> DEFINE n == Len(found)
           Eq(it) == it = [s \in SUBSET (1 .. n) |->
                              IF s = {} THEN base ELSE FoldTail(it[s \ {Max(s)}], found[Max(s)])]
           it == CHOOSE it : Eq(it)
           last == FoldTail(base, found[1])
           g == [s \in SUBSET (1 .. n) |-> IF s = {} THEN base ELSE last]
<1>1. n \in {0, 1} /\ DOMAIN found = 1 .. n /\ (found = <<>> <=> n = 0)
  <2>1. n \in Nat /\ DOMAIN found = 1 .. n /\ n <= 1
    OBVIOUS
  <2>2. found = <<>> <=> n = 0
    OBVIOUS
  <2> HIDE DEF n
  <2>3. n \in {0, 1}
    BY <2>1
  <2> QED  BY <2>1, <2>2, <2>3
<1>2. FoldLeft(FoldTail, base, found) = it[1 .. n]
  BY <1>1, Zenon DEF FoldLeft, MapThenFoldSet
<1>3. Max({1}) = 1
  <2>0. {1} \subseteq 0 .. 1 /\ {1} # {} /\ 1 \in Nat
    OBVIOUS
  <2>1. Max({1}) \in {1}
    BY <2>0, MaxIsGreatest
  <2> QED  BY <2>1
<1>4. \A s \in SUBSET (1 .. n) : s # {} => s = {1}
  <2> HIDE DEF n
  <2>1. 1 .. n \subseteq {1}
    <3>1. CASE n = 0
      BY <3>1
    <3>2. CASE n = 1
      BY <3>2
    <3> QED  BY <1>1, <3>1, <3>2
  <2> QED  BY <2>1, Zenon
<1>5. \E h : Eq(h)
  <2>1. ASSUME NEW s \in SUBSET (1 .. n), s # {}
        PROVE  FoldTail(g[s \ {Max(s)}], found[Max(s)]) = last
    <3>1. s = {1} /\ Max(s) = 1 /\ s \ {Max(s)} = {}
      <4>1. s = {1}
        BY <1>4, <2>1
      <4>2. {1} \ {1} = {}
        OBVIOUS
      <4> QED  BY <1>3, <4>1, <4>2
    <3>2. g[{}] = base
      OBVIOUS
    <3> QED  BY <3>1, <3>2
  <2>2. Eq(g)
    <3> DEFINE Next1(s) == FoldTail(g[s \ {Max(s)}], found[Max(s)])
    <3>1. \A s \in SUBSET (1 .. n) : s # {} => Next1(s) = last
      BY <2>1, Zenon
    <3> HIDE DEF Next1, last
    <3>2. g = [s \in SUBSET (1 .. n) |-> IF s = {} THEN base ELSE Next1(s)]
      BY <3>1
    <3> QED  BY <3>2, Zenon DEF Next1
  <2> QED  BY <2>2, Zenon
<1>6. Eq(it)
  <2> HIDE DEF Eq
  <2> QED  BY <1>5, Zenon
<1> HIDE DEF it
<1>7. it[{}] = base
  BY <1>6
<1>8. CASE n = 0
  <2>1. 1 .. n = {} /\ found = <<>>
    BY <1>1, <1>8
  <2> QED  BY <1>2, <1>7, <2>1
<1>9. CASE n = 1
  <2>1. 1 .. n = {1} /\ found # <<>> /\ {1} # {} /\ {1} \in SUBSET (1 .. n)
    BY <1>1, <1>9
  <2>2. it[{1}] = FoldTail(it[{1} \ {Max({1})}], found[Max({1})])
    BY <1>6, <2>1, Zenon
  <2>3. {1} \ {1} = {}
    OBVIOUS
  <2>4. it[{1}] = last
    BY <1>3, <1>7, <2>2, <2>3, Zenon
  <2> QED  BY <1>2, <2>1, <2>4, Zenon
<1> QED  BY <1>1, <1>8, <1>9, Zenon

\* An open takes up at most the record r at c.
Takes(n, c, r) ==
    /\ pc = "down" /\ UNCHANGED <<dDisk, iDisk, dRuns, call, ops>>
    /\ ~RecordAt(dDisk, c) => /\ cursor' = c /\ nextId' = n /\ iRuns' = <<>> /\ upd' = <<>>
                              /\ pc' = "idle" /\ Recovered
    /\ RecordAt(dDisk, c) => cursor' = c + r.len /\ allowed' = allowed
    /\ RecordAt(dDisk, c) /\ r.id = n =>
          /\ nextId' = n + 1 /\ iRuns' = StageSlot(<<>>, n, Live(c, r.len)) /\ upd' = <<>>
          /\ pc' = "restore_flush"
    /\ RecordAt(dDisk, c) /\ r.id # n =>
          /\ nextId' = n /\ iRuns' = <<>> /\ pc' = "restore"
          /\ upd' = [x \in {r.id} |-> [off |-> c, ver |-> r.ver, len |-> r.len]]

\* What an open takes up from orderly files.
LEMMA OpenTakes ==
    ASSUME HInv, Open, NEW n, NEW c, Orderly(dDisk, iDisk, allowed, n, c),
           NEW r, r = dDisk[c].rec, RecordAt(dDisk, c) => r.id <= n
    PROVE  Takes(n, c, r)
<1> DEFINE found == Walk(dDisk, ScanEnd, MaxCell)
           base == [next |-> ScanNextId, runs |-> <<>>, upd |-> <<>>, gap |-> FALSE]
           tail == FoldLeft(FoldTail, base, found)
<1>1. /\ n \in 0 .. MaxIds /\ c \in DATA_PAGE .. MaxCell /\ c \in Nat /\ n \in Nat
      /\ ScanEnd = c /\ ScanNextId = n /\ c <= MaxCell
  <2>1. n \in 0 .. MaxIds /\ c \in DATA_PAGE .. MaxCell /\ Tight(iDisk, n, c) /\ FilesOK
    BY DEF HInv, Orderly
  <2>2. ScanEnd = c /\ ScanNextId = n
    BY <2>1, TightScan
  <2> QED  BY <2>1, <2>2, CellNumbers
<1>2. /\ DataFile(dDisk, Cells) /\ dDisk \in [Cells -> AllCells]
      /\ RecordAt(dDisk, c) => r.len \in Nat /\ r.id \in Ids /\ r.id \in Nat /\ r.len \in Lens
  BY HeadersAre DEF HInv, FilesOK, RecordAt
<1>3. found = IF RecordAt(dDisk, c) THEN <<c>> ELSE <<>>
  <2>1. found = IF RecordAt(dDisk, c) /\ c + r.len <= MaxCell THEN <<c>> ELSE <<>>
    <3>1. \A p \in Cells : p > c => dDisk[p].k # 1
      BY DEF Orderly, NoneBehind
    <3>2. Cells \subseteq Nat /\ MaxCell \in Nat
      BY CellNumbers
    <3>3. Walk(dDisk, c, MaxCell) = IF RecordAt(dDisk, c) /\ c + dDisk[c].rec.len <= MaxCell
                                    THEN <<c>> ELSE <<>>
      BY <1>1, <1>2, <3>1, <3>2, WalkOne, Zenon
    <3> QED  BY <1>1, <3>3, Zenon
  <2>2. ASSUME RecordAt(dDisk, c) PROVE c + r.len <= MaxCell
    <3>1. c + r.len - 1 \in Cells
      BY <1>2, <2>2 DEF RecordAt, PayloadAt
    <3> QED  BY <1>1, <1>2, <2>2, <3>1, CellNumbers
  <2> QED  BY <2>1, <2>2
<1> HIDE DEF found
<1>4. found \in Seq(Nat) /\ Len(found) <= 1
  BY <1>1, <1>3
<1>5. tail = IF found = <<>> THEN base ELSE FoldTail(base, found[1])
  <2> HIDE DEF base
  <2> QED  BY <1>4, GatherOne, Zenon
<1>6. /\ base.next = n /\ base.runs = <<>> /\ base.upd = <<>> /\ base.gap = FALSE
      /\ base = [next |-> n, runs |-> <<>>, upd |-> <<>>, gap |-> FALSE]
  BY <1>1
<1>7. DOMAIN <<>> = {}
  OBVIOUS
<1>8. /\ pc = "down" /\ cursor' = IF found = <<>> THEN c ELSE Last(found) + dDisk[Last(found)].rec.len
      /\ nextId' = tail.next /\ iRuns' = tail.runs /\ upd' = tail.upd
      /\ pc' = IF DOMAIN tail.upd # {} THEN "restore" ELSE AfterRestore(tail.runs # <<>>)
      /\ UNCHANGED <<files, dRuns, call, ops>>
      /\ IF pc' = "idle" THEN Recovered ELSE UNCHANGED allowed
  BY <1>1, Zenon DEF Open, found
<1> HIDE DEF base, tail
<1>9. CASE ~RecordAt(dDisk, c)
  <2>1. found = <<>> /\ tail = base
    BY <1>3, <1>5, <1>9
  <2>2. pc' = "idle"
    BY <1>6, <1>7, <1>8, <2>1 DEF AfterRestore
  <2> QED  BY <1>6, <1>8, <1>9, <2>1, <2>2 DEF files, Takes
<1>10. CASE RecordAt(dDisk, c)
  <2>1. found # <<>> /\ found[1] = c /\ Last(found) = c
    BY <1>3, <1>10 DEF Last
  <2>2. cursor' = c + r.len
    BY <1>8, <2>1
  <2>3. tail = FoldTail(base, c)
    BY <1>5, <2>1
  <2>4. CASE r.id = n
    <3>1. tail = [base EXCEPT !.next = @ + 1, !.runs = StageSlot(@, r.id, Live(c, r.len))]
      <4>1. ~(base.gap \/ r.id > base.next) /\ r.id = base.next
        BY <1>1, <1>2, <1>6, <2>4
      <4> QED  BY <2>3, <4>1 DEF FoldTail
    <3>2. tail.next = n + 1 /\ tail.runs = StageSlot(<<>>, n, Live(c, r.len)) /\ tail.upd = <<>>
      BY <1>6, <2>4, <3>1
    <3>3. n \in Ids /\ Live(c, r.len) \in Slots
      <4>1. c \in Cells
        BY <1>2, <1>10 DEF RecordAt, HeaderAt
      <4> QED  BY <1>2, <1>10, <2>4, <4>1 DEF Slots, Live
    <3>4. tail.runs # <<>>
      <4>1. tail.runs = <<[start |-> n, vals |-> <<Live(c, r.len)>>]>>
        BY <3>2, <3>3, OneStaged, Zenon
      <4> QED  BY <4>1
    <3>5. pc' = "restore_flush"
      BY <1>7, <1>8, <3>2, <3>4 DEF AfterRestore
    <3> QED  BY <1>8, <1>10, <2>2, <2>4, <3>2, <3>5 DEF files, Takes
  <2>5. CASE r.id # n
    <3> DEFINE new == [x \in {r.id} |-> [off |-> c, ver |-> r.ver, len |-> r.len]]
    <3>1. tail = [base EXCEPT !.upd = Newest(dDisk, @, c)]
      <4>1. ~(base.gap \/ r.id > base.next) /\ r.id # base.next
        BY <1>1, <1>2, <1>6, <1>10, <2>5
      <4> QED  BY <2>3, <4>1 DEF FoldTail
    <3>2. Newest(dDisk, <<>>, c) = new
      <4>1. r.id \notin DOMAIN <<>> /\ DOMAIN <<>> \union {r.id} = {r.id}
        BY <1>7
      <4> QED  BY <4>1 DEF Newest
    <3> HIDE DEF new
    <3>3. tail.next = n /\ tail.runs = <<>> /\ tail.upd = new
      BY <1>6, <3>1, <3>2
    <3>4. DOMAIN new # {}
      BY DEF new
    <3>5. pc' = "restore"
      BY <1>8, <3>3, <3>4
    <3> QED  BY <1>8, <1>10, <2>2, <2>5, <3>3, <3>5 DEF files, new, Takes
  <2> QED  BY <2>4, <2>5
<1> QED  BY <1>9, <1>10

\* The slot of the record at c is staged by an open.
LEMMA SlotRestored ==
    ASSUME HInv, PromiseInv, NEW n, NEW c, Orderly(dDisk, iDisk, allowed, n, c),
           Waits(dDisk, iDisk, allowed, n, c), NEW r, r = dDisk[c].rec,
           UNCHANGED <<dDisk, iDisk, allowed, ops>>, dRuns' = <<>>, pc' = "restore_flush",
           iRuns' = StageSlot(<<>>, r.id, Live(c, r.len)),
           nextId' = IF r.id = n THEN n + 1 ELSE n, cursor' = c + r.len
    PROVE  PromiseInv'
<1>1. dDisk \in [Cells -> AllCells] /\ iDisk \in [Ids -> Slots]
  BY DEF HInv, FilesOK
<1>2. RecordAt(dDisk, c) /\ r.tag \in allowed[r.id] /\ r.id <= n
  BY DEF Waits
<1>3. r.id \in Ids /\ Live(c, r.len) \in Slots
  <2>1. c \in Cells /\ r.id \in Ids /\ r.len \in Lens
    BY <1>1, <1>2, HeadersAre DEF RecordAt
  <2> QED  BY <2>1 DEF Slots, Live
<1> DEFINE run == <<[start |-> r.id, vals |-> <<Live(c, r.len)>>]>>
           i == [iDisk EXCEPT ![r.id] = Live(c, r.len)]
<1>4. iRuns' = run /\ Shown(iDisk, run) = i
  BY <1>1, <1>3, OneStaged, Zenon
<1>5. iView' = i
  <2>1. iView' = Shown(iDisk, iRuns')
    BY DEF iView, Index!Overlay, Index!End, Shown
  <2> HIDE DEF run, i
  <2> QED  BY <1>4, <2>1, Zenon
<1>6. dView' = dDisk
  <2>1. dView' = Shown(dDisk, <<>>)
    BY DEF dView, Data!Overlay, Data!End, Shown
  <2> QED  BY <1>1, <2>1, NoneShown, Zenon
<1>7. AtRest(dDisk, i, allowed, nextId', cursor')
  BY <1>1, <1>2, Lands, Zenon
<1> HIDE DEF i
<1>8. RestInv'
  <2>1. Restorable(dDisk, iDisk, allowed) /\ DOMAIN allowed = Ids
    BY DEF PromiseInv, RestInv
  <2>2. pc' \notin Quiet \union {"slot_stage", "commit_data"}
    BY DEF Quiet
  <2>3. AtRest(dView', iView', allowed', nextId', cursor')
    BY <1>5, <1>6, <1>7
  <2> QED  BY <2>1, <2>2, <2>3 DEF RestInv
<1>9. CallInv'
  <2>1. \E id \in Ids, s \in Slots : iRuns' = <<[start |-> id, vals |-> <<s>>]>>
    BY <1>3, <1>4
  <2> QED  BY <2>1 DEF CallInv, Storing
<1>10. RestoreInv' /\ Counted(dDisk, ops)'
  BY DEF RestoreInv, PromiseInv
<1> QED  BY <1>8, <1>9, <1>10 DEF PromiseInv

\* An open: it is done, or it has the one record left to restore.
LEMMA OpenPromise ==
    ASSUME HInv, OrderInv, PromiseInv, Open
    PROVE  PromiseInv' /\ Promised
<1>1. PICK n \in 0 .. MaxIds, c \in DATA_PAGE .. MaxCell :
          /\ Orderly(dDisk, iDisk, allowed, n, c)
          /\ RecordAt(dDisk, c) => Waits(dDisk, iDisk, allowed, n, c)
  BY DEF PromiseInv, RestInv, Restorable
<1> DEFINE r == dDisk[c].rec
<1>2. RecordAt(dDisk, c) => r.id <= n
  BY <1>1 DEF Waits
<1>3. Takes(n, c, r)
  BY <1>1, <1>2, OpenTakes
<1>4. pc = "down" /\ UNCHANGED <<dDisk, iDisk, dRuns, call, ops>>
  BY <1>3 DEF Takes
<1>5. dRuns = <<>> /\ dRuns' = <<>>
  BY <1>3 DEF Takes, OrderInv, DataOrder, Storing
<1>6. dDisk \in [Cells -> AllCells] /\ iDisk \in [Ids -> Slots] /\ Counted(dDisk, ops)
  BY DEF HInv, FilesOK, PromiseInv
<1>7. CASE ~RecordAt(dDisk, c)
  <2>1. /\ cursor' = c /\ nextId' = n /\ iRuns' = <<>> /\ pc' = "idle" /\ Recovered
    BY <1>3, <1>7 DEF Takes
  <2>2. dView' = dDisk /\ iView' = iDisk
    <3>1. dView' = Shown(dDisk, <<>>) /\ iView' = Shown(iDisk, <<>>)
      BY <1>4, <1>5, <2>1 DEF dView, iView, Data!Overlay, Data!End, Index!Overlay, Index!End, Shown
    <3> QED  BY <1>6, <3>1, NoneShown, Zenon
  <2>3. allowed' = [id \in Ids |-> {Read(dDisk, iDisk, id)}]
    BY <2>1, <2>2 DEF Recovered, Lookup
  <2>4. AtRest(dDisk, iDisk, allowed', n, c) /\ DOMAIN allowed' = Ids
    BY <1>1, <1>7, <2>3 DEF AtRest, Orderly, Reads
  <2>5. ~Storing'
    BY <2>1 DEF Storing
  <2>6. PromiseInv'
    BY <1>4, <1>5, <1>6, <2>1, <2>4, <2>5, Rested
  <2>7. ~Up /\ Up'
    BY <1>4, <2>1 DEF Up
  <2>8. \A id \in Ids : Read(dDisk, iDisk, id) \in allowed[id] \intersect (0 .. MaxOps)
    <3> TAKE id \in Ids
    <3>1. Read(dDisk, iDisk, id) \in allowed[id]
      BY <1>1 DEF Orderly, Reads
    <3>2. <<id, iDisk[id]>> \in WholePairs(dDisk)
      BY <1>6 DEF OrderInv, IndexOrder, Holds
    <3> QED  BY <1>6, <3>1, <3>2, ReadIs
  <2> QED  BY <2>1, <2>2, <2>6, <2>7, <2>8, Recovers
<1>8. CASE RecordAt(dDisk, c)
  <2>1. Waits(dDisk, iDisk, allowed, n, c) /\ cursor' = c + r.len /\ allowed' = allowed
    BY <1>1, <1>3, <1>8 DEF Takes
  <2>2. pc' \in {"restore", "restore_flush"}
    BY <1>3, <1>8 DEF Takes
  <2>3. Promised
    <3>1. ~Up /\ ~Up'
      BY <1>4, <2>2 DEF Up
    <3> QED  BY <2>1, <3>1, StaysClosed
  <2>4. CASE r.id = n
    <3>1. /\ nextId' = n + 1 /\ iRuns' = StageSlot(<<>>, r.id, Live(c, r.len))
          /\ pc' = "restore_flush"
      BY <1>3, <1>8, <2>4 DEF Takes
    <3>2. nextId' = IF r.id = n THEN n + 1 ELSE n
      BY <2>4, <3>1
    <3> HIDE DEF r
    <3>3. r = dDisk[c].rec
      BY DEF r
    <3>4. PromiseInv'
      BY <1>1, <1>4, <1>5, <2>1, <3>1, <3>2, <3>3, SlotRestored
    <3> QED  BY <2>3, <3>4
  <2>5. CASE r.id # n
    <3>1. /\ nextId' = n /\ iRuns' = <<>> /\ pc' = "restore"
          /\ upd' = [x \in {r.id} |-> [off |-> c, ver |-> r.ver, len |-> r.len]]
      BY <1>3, <1>8, <2>5 DEF Takes
    <3>2. r.id < n
      <4>1. r.id \in Nat /\ n \in Nat
        BY <1>1, <1>6, <1>8, HeadersAre, CellNumbers DEF RecordAt
      <4> HIDE DEF r
      <4> QED  BY <1>2, <1>8, <2>5, <4>1
    <3>3. Pending(c)'
      BY <1>1, <1>4, <2>1, <3>1, <3>2 DEF Pending
    <3>4. RestInv'
      BY <1>4, <2>1, <3>1 DEF PromiseInv, RestInv, Quiet
    <3>5. CallInv' /\ RestoreInv' /\ Counted(dDisk', ops')
      BY <1>1, <1>4, <1>6, <3>1, <3>3 DEF CallInv, Storing, RestoreInv
    <3> QED  BY <2>3, <3>4, <3>5 DEF PromiseInv
  <2> QED  BY <2>4, <2>5
<1> QED  BY <1>7, <1>8

\* The turn of the record that is left to restore.
LEMMA RestorePromise ==
    ASSUME HInv, OrderInv, PromiseInv, NEW id \in DOMAIN upd, RestoreUpdate(id)
    PROVE  PromiseInv' /\ Promised
<1>1. pc = "restore" /\ iRuns = <<>> /\ dRuns = <<>>
  BY DEF RestoreUpdate, PromiseInv, RestoreInv, OrderInv, DataOrder, Storing
<1>2. PICK c \in DATA_PAGE .. MaxCell : Pending(c)
  BY <1>1 DEF PromiseInv, RestoreInv
<1> DEFINE r == dDisk[c].rec
           u == upd[id]
           s == iDisk[id]
<1>3. /\ Orderly(dDisk, iDisk, allowed, nextId, c) /\ Waits(dDisk, iDisk, allowed, nextId, c)
      /\ r.id < nextId /\ cursor = c + r.len
      /\ upd = [x \in {r.id} |-> [off |-> c, ver |-> r.ver, len |-> r.len]]
  BY <1>2 DEF Pending
<1>4. id = r.id /\ u.off = c /\ u.ver = r.ver /\ u.len = r.len /\ DOMAIN upd \ {id} = {}
  BY <1>3
<1>5. iView = iDisk /\ dDisk \in [Cells -> AllCells] /\ iDisk \in [Ids -> Slots] /\ id \in Ids
  BY <1>1, NothingStaged, SMTT(30) DEF HInv, FilesOK, UpdOK
<1>6. ~Superseded(id, u)
  <2>1. s.st = "live" /\ dDisk[s.off].rec.ver < r.ver
    BY <1>3, <1>4 DEF Waits
  <2>2. s.off # c
    <3>1. s.off + s.len <= c
      BY <1>3, <1>4, <1>5 DEF Orderly, Tight
    <3>2. s.off \in Nat /\ s.len \in Nat /\ s.len > 0 /\ c \in Nat
      <4>1. s \in Slots
        BY <1>5
      <4> QED  BY <2>1, <4>1, SlotIs, CellNumbers
    <3> HIDE DEF s
    <3> QED  BY <3>1, <3>2
  <2>3. ASSUME ReadHeader(dDisk, s.off, id) PROVE ~(dDisk[s.off].rec.ver >= u.ver)
    <3>1. dDisk[s.off].rec.ver \in Nat
      BY <1>5, <2>3, HeadersAre, SMTT(30) DEF ReadHeader
    <3>2. r.ver \in Nat
      BY <1>3, <1>5, HeadersAre DEF Waits, RecordAt
    <3> DEFINE v == dDisk[s.off].rec.ver
               w == r.ver
    <3>3. v \in Nat /\ w \in Nat /\ v < w
      BY <2>1, <3>1, <3>2
    <3> HIDE DEF v, w
    <3>4. ~(v >= w)
      BY <3>3
    <3> QED  BY <1>4, <3>4 DEF v, w
  <2> QED  BY <1>4, <1>5, <2>1, <2>2, <2>3 DEF Superseded
<1>7. /\ UNCHANGED <<dDisk, iDisk, allowed, ops, nextId, cursor, dRuns>> /\ pc' = "restore_flush"
      /\ iRuns' = StageSlot(<<>>, r.id, Live(c, r.len))
  <2>1. /\ iDisk' = iView /\ iRuns' = StageSlot(<<>>, id, Live(u.off, u.len))
        /\ pc' = "restore_flush"
        /\ UNCHANGED <<dDisk, dRuns, placement, ops>>
    BY <1>4, <1>6 DEF RestoreUpdate, AfterRestore
  <2>2. UNCHANGED allowed
    BY <2>1 DEF RestoreUpdate
  <2> QED  BY <1>4, <1>5, <2>1, <2>2 DEF placement
<1>8. PromiseInv'
  <2>1. nextId' = IF r.id = nextId THEN nextId + 1 ELSE nextId
    <3>1. nextId \in Nat /\ r.id \in Nat
      BY <1>4, <1>5, CellNumbers DEF HInv, PlaceOK
    <3> HIDE DEF r
    <3> QED  BY <1>3, <1>7, <3>1
  <2>2. r = dDisk[c].rec /\ cursor' = c + r.len /\ dRuns' = <<>>
    BY <1>1, <1>3, <1>7
  <2> HIDE DEF r
  <2> QED  BY <1>3, <1>7, <2>1, <2>2, SlotRestored
<1>9. ~Up /\ ~Up'
  BY <1>1, <1>7 DEF Up
<1> QED  BY <1>7, <1>8, <1>9, StaysClosed

\* The slot always finds room among the staged writes.
LEMMA SlotHasRoom ==
    ASSUME HInv, OrderInv
    PROVE  ~SlotFlush
<1> SUFFICES ASSUME SlotFlush PROVE FALSE
  OBVIOUS
<1>1. Index!MustFlush(<<>>, call.id, 1)
  BY DEF SlotFlush, OrderInv, IndexOrder, NoSlots
<1>2. Len(<<>>) = 0 /\ DOMAIN <<>> = {}
  OBVIOUS
<1>3. 0 >= MAX_STAGED_WRITES
  BY <1>1, <1>2 DEF Index!MustFlush
<1> QED  BY <1>3, AppendAssumption

\* Every step keeps the promise.
LEMMA StepPromise ==
    ASSUME HInv, OrderInv, PromiseInv, [Next]_vars,
           SyncEvery = 1, "power" \notin CrashKinds, MaxOps < VersionMod
    PROVE  PromiseInv' /\ Promised
<1>1. CASE Begin
  BY <1>1, InsertPromise, CallPromise DEF Begin
<1>2. CASE IndexSync /\ LoseMemory
  <2>1. UNCHANGED <<dDisk, iDisk, allowed, ops>>
    BY <1>2 DEF IndexSync
  <2>2. Restorable(dDisk', iDisk', allowed) /\ Counted(dDisk', ops)
    BY <2>1 DEF PromiseInv, RestInv
  <2> QED  BY <1>2, <2>1, <2>2, LosePromise
<1>3. CASE UNCHANGED vars
  <2>1. UNCHANGED <<dDisk, iDisk, dRuns, iRuns, cursor, nextId, pc, call, upd, allowed, ops>>
    BY <1>3 DEF vars, files, placement, opening, history
  <2>2. dView' = dView /\ iView' = iView
    BY <2>1 DEF dView, iView
  <2>3. PromiseInv'
    BY <2>1, <2>2, ZenonT(30) DEF PromiseInv, RestInv, CallInv, RestoreInv, Pending, Stores, Numbers, Floor, Storing
  <2>4. Promised
    <3>1. Up' = Up
      BY <2>1 DEF Up
    <3>2. CASE Up
      BY <2>1, <2>2, <3>1, <3>2, SameView DEF Lookup
    <3> QED  BY <2>1, <3>1, <3>2, StaysClosed
  <2> QED  BY <2>3, <2>4
<1>4. ~PowerLoss
  BY DEF PowerLoss
<1> QED  BY <1>1, <1>2, <1>3, <1>4, CallPromise, UpdatePromise, SlotHasRoom, SlotPromise,
            DataPromise, SyncPromise, IndexPromise, RestoredPromise, RestorePromise, OpenPromise,
            KillPromise DEF Next, Continue, Proceed

\* A new store keeps the promise.
LEMMA InitPromise ==
    ASSUME Init
    PROVE  PromiseInv /\ Abstract!Init
<1>1. /\ dDisk = [p \in Cells |-> Zero] /\ dRuns = <<>> /\ iDisk = [id \in Ids |-> Empty]
      /\ iRuns = <<>> /\ cursor = DATA_PAGE /\ nextId = 0 /\ pc = "idle" /\ call = NoCall
      /\ allowed = [id \in Ids |-> {NotFound}] /\ ops = 0
  BY DEF Init, NewStore
<1>2. Zero.k = 0 /\ Empty.st = "empty"
  BY DEF Zero, Empty
<1>3. \A i, id : (i = iDisk /\ id \in Ids) => Read(dDisk, i, id) = NotFound
  BY <1>1, <1>2 DEF Read
<1>4. AtRest(dDisk, iDisk, allowed, 0, DATA_PAGE)
  <2>1. 0 \in 0 .. MaxIds /\ DATA_PAGE \in DATA_PAGE .. MaxCell
    BY CellNumbers
  <2>2. Tight(iDisk, 0, DATA_PAGE)
    BY <1>1, <1>2, CellNumbers DEF Tight
  <2>3. NoneBehind(dDisk, DATA_PAGE) /\ ~RecordAt(dDisk, DATA_PAGE)
    BY <1>1, <1>2 DEF NoneBehind, RecordAt, HeaderAt
  <2>4. Reads(dDisk, iDisk, allowed)
    BY <1>1, <1>3 DEF Reads
  <2> QED  BY <2>1, <2>2, <2>3, <2>4 DEF AtRest, Orderly
<1>5. ~Storing /\ Numbers = 0 /\ Floor = DATA_PAGE
  BY <1>1 DEF Storing, Numbers, Floor
<1>6. RestInv
  <2>1. Restorable(dDisk, iDisk, allowed)
    BY <1>4, RestIsRestorable
  <2> QED  BY <1>1, <1>4, <1>5, <2>1 DEF RestInv
<1>7. CallInv /\ RestoreInv /\ Counted(dDisk, ops)
  BY <1>1, <1>2, <1>5 DEF CallInv, RestoreInv, Counted
<1>8. Abstract!Init
  <2>1. dView = dDisk /\ iView = iDisk
    <3>1. dView = Shown(dDisk, <<>>) /\ iView = Shown(iDisk, <<>>)
      BY <1>1, ViewsAre
    <3>2. dDisk \in [Cells -> {Zero}] /\ iDisk \in [Ids -> {Empty}]
      BY <1>1
    <3> QED  BY <3>1, <3>2, NoneShown, Zenon
  <2>2. \A id \in Ids : Lookup(id) = NotFound
    BY <1>3, <2>1 DEF Lookup
  <2>3. Up = TRUE
    BY <1>1 DEF Up
  <2>4. [id \in Ids |-> IF Up THEN Lookup(id) ELSE NotFound] = Abstract!Nothing
    BY <2>2, <2>3 DEF Abstract!Nothing
  <2>5. allowed = Abstract!Only(Abstract!Nothing)
    BY <1>1 DEF Abstract!Only, Abstract!Nothing
  <2> QED  BY <2>3, <2>4, <2>5 DEF Abstract!Init
<1> QED  BY <1>6, <1>7, <1>8 DEF PromiseInv

\* With SyncPolicy::EveryN(1), as long as the process may be killed at any point but the power
\* does not fail, and for fewer operations than there are versions, the heap keeps its promise:
\* every step of a call, a commit, a torn flush, a crash and a recovery is a step of HeapSpec or
\* none at all, so a read returns the last write and an open returns, for every record, the
\* committed outcome or that of the one operation under way.
THEOREM HeapKeepsPromise ==
    ASSUME SyncEvery = 1, "power" \notin CrashKinds, MaxOps < VersionMod
    PROVE  Spec => Contract
<1>1. Init => OrderInv /\ PromiseInv /\ Abstract!Init
  BY InitOrder, InitPromise
<1>2. HInv /\ OrderInv /\ [Next]_vars => OrderInv'
  BY StepOrder
<1>3. HInv /\ OrderInv /\ PromiseInv /\ [Next]_vars => PromiseInv' /\ [Abstract!Next]_(Abstract!vars)
  BY StepPromise DEF Promised
<1> QED  BY <1>1, <1>2, <1>3, HeapInvariance, PTL DEF Spec, Contract, Abstract!Spec

\* What an open returned: an outcome that was allowed, and of a record, not an error.
Returned == ~Up /\ Up' => \A id \in Ids : Lookup(id)' \in allowed[id] /\ Lookup(id)' # Corrupt

\* A recovery returns nothing else.
LEMMA PromiseReturns ==
    ASSUME Promised
    PROVE  Returned
<1> SUFFICES ASSUME ~Up, Up', NEW id \in Ids
             PROVE  Lookup(id)' \in allowed[id] /\ Lookup(id)' # Corrupt
  BY DEF Returned
<1> DEFINE view == [x \in Ids |-> IF Up THEN Lookup(x) ELSE NotFound]
<1>1. Abstract!Recover
  <2>1. Abstract!Next
    BY Zenon DEF Promised, Abstract!vars
  <2> QED  BY <2>1, Zenon DEF Abstract!Next, Abstract!Write, Abstract!Commit, Abstract!Stop
<1>2. view' \in [Ids -> 0 .. MaxOps] /\ view'[id] \in allowed[id] /\ view'[id] = Lookup(id)'
  BY <1>1 DEF Abstract!Recover
<1>3. view'[id] \in 0 .. MaxOps
  BY <1>2
<1> QED  BY <1>2, <1>3, AppendAssumption DEF Corrupt

\* Under the same conditions a recovery never returns a superseded value, and a record whose
\* existence is committed never turns corrupt: what group sync can lose (the finding of
\* run append_group_loss), a commit after every operation cannot.
COROLLARY RecoveryReturnsAllowed ==
    ASSUME SyncEvery = 1, "power" \notin CrashKinds, MaxOps < VersionMod
    PROVE  Spec => NoStaleValue /\ CommittedStaysReadable
<1>1. Init => OrderInv /\ PromiseInv
  BY InitOrder, InitPromise
<1>2. HInv /\ OrderInv /\ [Next]_vars => OrderInv'
  BY StepOrder
<1>3. HInv /\ OrderInv /\ PromiseInv /\ [Next]_vars => PromiseInv' /\ Returned
  BY StepPromise, PromiseReturns
<1>4. Returned => /\ [~Up /\ Up' => \A id \in Ids : Lookup(id)' \in allowed[id] \union {Corrupt}]_vars
                  /\ [~Up /\ Up' => \A id \in Ids : NotFound \notin allowed[id] => Lookup(id)' # Corrupt]_vars
  BY DEF Returned
<1> QED  BY <1>1, <1>2, <1>3, <1>4, HeapInvariance, PTL DEF Spec, NoStaleValue, CommittedStaysReadable
====
