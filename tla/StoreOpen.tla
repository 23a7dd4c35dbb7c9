------------------------------ MODULE StoreOpen ------------------------------
(***************************************************************************)
(* The whole of Heap::open (src/src/heap.rs) around AppendHeap: creating   *)
(* the files of a new store, noticing that the index is missing or has no  *)
(* header, and rebuilding it from the data file (src/src/recovery.rs),     *)
(* with the process killed at any point, a record damaged and the index    *)
(* lost while the store is closed.                                         *)
(***************************************************************************)
EXTENDS AppendHeap

CONSTANTS RebuildLimit, \* 4 << 20 in the code, here in slots: staged before a flush
          MaxLosses,    \* bound on losses of the index
          MaxDamage     \* bound on damaged records

ASSUME StoreAssumption == RebuildLimit \in Nat /\ MaxLosses \in Nat /\ MaxDamage \in Nat

VARIABLES dFile, iFile, \* absent, blank (no header) or sound
          stage,        \* where an open stands before AppendPlacement::open
          everUp,       \* history: an open has succeeded
          cut,          \* history: a kill cut the last rebuild short
          losses,       \* history: losses of the index
          damaged       \* history: numbers with a damaged record

opened == <<dFile, iFile, stage, everUp, cut, losses, damaged>>
storeVars == <<vars, opened>>

StoreInit ==
    /\ NewStore /\ pc = "down"
    /\ dFile = "absent" /\ iFile = "absent"
    /\ stage = "closed"
    /\ everUp = FALSE /\ cut = FALSE
    /\ losses = 0 /\ damaged = {}

\* The state of AppendHeap, all of it but what a rebuild changes.
otherVars == <<dDisk, dRuns, dStable, placement, sinceSync, pc, call, restored, history>>

-----------------------------------------------------------------------------
(* A new store: data.hs is created first, then index.hs. *)

CreateData ==
    /\ pc = "down" /\ stage = "closed" /\ dFile = "absent"
    /\ dFile' = "blank"
    /\ stage' = "create_data"
    /\ UNCHANGED <<vars, iFile, everUp, cut, losses, damaged>>

CreateIndex ==
    /\ stage = "create_data"
    /\ dFile' = "sound" /\ iFile' = "blank"
    /\ stage' = "create_index"
    /\ UNCHANGED <<vars, everUp, cut, losses, damaged>>

Created ==
    /\ stage = "create_index"
    /\ iFile' = "sound"
    /\ stage' = "open" /\ pc' = "idle" /\ everUp' = TRUE
    /\ UNCHANGED <<files, dRuns, iRuns, placement, sinceSync, call, opening, history,
                   dFile, cut, losses, damaged>>

-----------------------------------------------------------------------------
(* rebuild. *)

\* Variant: only the existence of the index is checked.
Missing == iFile = "absent"

metadata_is_broken == iFile # "sound"

\* A file without a header ends the open with Corrupt: the data file, or the index
\* if metadata_is_broken did not notice.
OpenFails ==
    /\ pc = "down" /\ stage = "closed" /\ dFile # "absent"
    /\ ~(dFile = "sound" /\ (metadata_is_broken \/ iFile = "sound"))
    /\ stage' = "failed"
    /\ UNCHANGED <<vars, dFile, iFile, everUp, cut, losses, damaged>>

OpenAgain ==
    /\ stage = "failed"
    /\ stage' = "closed"
    /\ UNCHANGED <<vars, dFile, iFile, everUp, cut, losses, damaged>>

\* The walk, and the first half of PagedFile::create: the index is emptied.
BeginRebuild ==
    /\ pc = "down" /\ stage = "closed" /\ dFile = "sound" /\ metadata_is_broken
    /\ upd' = Latest(dDisk, WalkAll(dDisk, DATA_PAGE, MaxCell))
    /\ iFile' = "blank" /\ iDisk' = [id \in Ids |-> Empty]
    /\ stage' = "rebuild_header" /\ cut' = FALSE
    /\ UNCHANGED <<otherVars, iRuns, iStable, dFile, everUp, losses, damaged>>

\* The second half: the header is written and synced.
RebuildHeader ==
    /\ stage = "rebuild_header"
    /\ iFile' = "sound" /\ iStable' = iDisk
    /\ stage' = "rebuild"
    /\ UNCHANGED <<otherVars, iDisk, iRuns, upd, dFile, everUp, cut, losses, damaged>>

\* The number whose slot is staged next: they are taken in their order.
nextSlot == Min(DOMAIN upd)

\* The index is flushed: every slot is staged, too much is pending, or stage_slot
\* has to flush first.
FlushDue == DOMAIN upd # {} => \/ PendingBytes(<<>>, iRuns) > RebuildLimit
                               \/ Index!MustFlush(iRuns, nextSlot, 1)

RebuildSlot ==
    /\ stage = "rebuild" /\ ~FlushDue
    /\ iRuns' = StageSlot(iRuns, nextSlot, Live(upd[nextSlot].off, upd[nextSlot].len))
    /\ upd' = [x \in DOMAIN upd \ {nextSlot} |-> upd[x]]
    /\ UNCHANGED <<otherVars, iDisk, iStable, opened>>

RebuildFlush ==
    /\ stage = "rebuild" /\ FlushDue
    /\ FlushIndex
    /\ stage' = IF DOMAIN upd = {} THEN "rebuild_sync" ELSE "rebuild"
    /\ UNCHANGED <<otherVars, iStable, upd, dFile, iFile, everUp, cut, losses, damaged>>

RebuildSync ==
    /\ stage = "rebuild_sync"
    /\ iStable' = iDisk
    /\ stage' = "closed"
    /\ UNCHANGED <<otherVars, iDisk, iRuns, upd, dFile, iFile, everUp, cut, losses, damaged>>

\* The files are there: AppendPlacement::open.
OpenFiles ==
    /\ stage = "closed" /\ dFile = "sound" /\ ~metadata_is_broken /\ iFile = "sound"
    /\ Open
    /\ stage' = "open" /\ everUp' = TRUE
    /\ UNCHANGED <<dFile, iFile, cut, losses, damaged>>

-----------------------------------------------------------------------------
(* What happens to the process and to the files. *)

\* The process is killed before AppendPlacement::open.
KillOpening ==
    /\ "kill" \in CrashKinds /\ crashes < MaxCrashes
    /\ pc = "down" /\ stage \notin {"closed", "failed"}
    /\ iDisk' \in IF stage = "rebuild" /\ FlushDue
                  THEN {Index!OnPages(iDisk, iView, s) : s \in TornPages(Index!FlushPages(iRuns))}
                  ELSE {iDisk}
    /\ cut' = (stage = "rebuild")
    /\ iRuns' = <<>> /\ upd' = <<>>
    /\ stage' = "closed"
    /\ crashes' = crashes + 1
    /\ UNCHANGED <<dDisk, dRuns, dStable, iStable, placement, sinceSync, pc, call, restored,
                   allowed, unsynced, ops, dFile, iFile, everUp, losses, damaged>>

KillOpen ==
    /\ Kill
    /\ stage' = "closed"
    /\ UNCHANGED <<dFile, iFile, everUp, cut, losses, damaged>>

\* The index is deleted while the store is closed.
LoseIndex ==
    /\ pc = "down" /\ stage = "closed" /\ losses < MaxLosses /\ iFile # "absent"
    /\ iFile' = "absent" /\ iDisk' = [id \in Ids |-> Empty] /\ iStable' = iDisk'
    /\ losses' = losses + 1
    /\ UNCHANGED <<otherVars, iRuns, upd, dFile, stage, everUp, cut, damaged>>

\* One cell of a record is damaged while the store is closed.
Damage(p) ==
    /\ pc = "down" /\ stage = "closed" /\ Cardinality(damaged) < MaxDamage
    /\ dDisk[p] # Zero
    /\ dDisk' = [dDisk EXCEPT ![p] = Zero] /\ dStable' = dDisk'
    /\ damaged' = damaged \union {dDisk[p].rec.id}
    /\ UNCHANGED <<iDisk, iStable, dRuns, iRuns, placement, sinceSync, pc, call, opening,
                   history, dFile, iFile, stage, everUp, cut, losses>>

\* A call or a restore goes on; a close leaves the store closed.
Calls ==
    /\ Begin \/ Proceed
    /\ stage' = IF pc' = "down" THEN "closed" ELSE "open"
    /\ UNCHANGED <<dFile, iFile, everUp, cut, losses, damaged>>

Opening == \/ CreateData \/ CreateIndex \/ Created
           \/ OpenFails \/ OpenAgain
           \/ BeginRebuild \/ RebuildHeader \/ RebuildSlot \/ RebuildFlush \/ RebuildSync
           \/ OpenFiles

StoreNext == \/ Calls \/ Opening \/ KillOpen \/ KillOpening
             \/ LoseIndex \/ \E p \in Cells : Damage(p)

StoreSpec == StoreInit /\ [][StoreNext]_storeVars

-----------------------------------------------------------------------------
(* Properties. *)

\* A store that was open once can be opened again, whatever is lost or killed: the
\* header of the index is either there or its absence is noticed.
StaysOpenable == everUp => stage # "failed"

\* The whole records of id; and that the last one written is not the one with the
\* greatest version, since its version has wrapped.
Whole(id) == {p \in Cells : RecordAt(dDisk, p) /\ dDisk[p].rec.id = id}
Outranked(id) ==
    \E p \in Whole(id) : /\ \A q \in Whole(id) : dDisk[q].rec.tag <= dDisk[p].rec.tag
                         /\ \E q \in Whole(id) : dDisk[q].rec.ver > dDisk[p].rec.ver

\* After metadata loss the data file is the source of truth: every number whose
\* records are undamaged and which was not deleted has its last committed value, or
\* a later one, unless a kill cut the rebuild short.  Where versions have wrapped, a
\* rebuild takes the greatest for the newest: the number then has one of its values.
RebuildComplete ==
    [][~Up /\ Up' /\ ~cut => \A id \in Ids \ damaged :
          NotFound \notin allowed[id] =>
              \/ Lookup(id)' \in allowed[id]
              \/ /\ losses > 0 /\ Outranked(id)
                 /\ Lookup(id)' \in {dDisk[p].rec.tag : p \in Whole(id)}]_storeVars

\* Every such number has its last committed value or a later one, also when the rebuild
\* was cut short.
SourceOfTruth ==
    [][~Up /\ Up' => \A id \in Ids \ damaged :
          NotFound \notin allowed[id] => Lookup(id)' \in allowed[id]]_storeVars
=============================================================================
