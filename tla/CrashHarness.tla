---------------------------- MODULE CrashHarness ----------------------------
(***************************************************************************)
(* The kill test of src/src/bin/crash.rs over a heap that keeps its        *)
(* promise (HeapSpec): a child inserts records and logs what the heap has  *)
(* committed, the parent kills it at any time, reads the log back, opens   *)
(* the heap and reads the records of the log.  What the test reports then  *)
(* has to follow from what the heap did.                                   *)
(*                                                                         *)
(* The payload of a record is the key it is made from, plus one.           *)
(***************************************************************************)
EXTENDS Integers, Sequences, SequencesExt, FiniteSets

CONSTANTS
    Policies,      \* values of n of SyncPolicy::EveryN(n) the test uses
    Base,          \* base in which the log writes numbers, 10 in the code
    Ids,           \* record numbers
    MaxKeys        \* bound on the inserts of a child

ASSUME HarnessAssumption ==
    /\ Policies \subseteq Nat \ {0}
    /\ Base \in Nat \ {0, 1} /\ Ids \subseteq Nat /\ MaxKeys \in Nat

NotFound == 0
Outcomes == 0 .. MaxKeys

VARIABLES
    up, view, allowed,           \* the heap
    policy,
    cpc,                         \* where child and parent stand
    key, id,                     \* child: the key to insert, the number it got
    pending,                     \* child: log lines not yet written
    log,                         \* confirmed.log
    toRead, confirmed, tail,     \* parent: lines left to read, what they say
    lost, corrupted, survivors   \* parent: the report

Heap == INSTANCE HeapSpec

heap == <<up, view, allowed>>
child == <<key, id, pending>>
parsed == <<confirmed, tail>>
report == <<lost, corrupted, survivors>>
vars == <<heap, policy, cpc, child, log, toRead, parsed, report>>

Line(k, i) == [what |-> "op", key |-> k, id |-> i]
Confirm == [what |-> "C", key |-> 0, id |-> 0]
Noise == [what |-> "other", key |-> 0, id |-> 0]

\* The child opens a new heap and creates the log.
Init ==
    /\ policy \in Policies
    /\ Heap!Init
    /\ cpc = "insert" /\ key = 0 /\ id = 0 /\ pending = <<>> /\ log = <<>>
    /\ toRead = <<>> /\ confirmed = <<>> /\ tail = <<>>
    /\ lost = 0 /\ corrupted = 0 /\ survivors = 0

-----------------------------------------------------------------------------
(* The child. *)

\* Variant: a line too early is taken for the last of its group.
DueBefore == key % policy = 0

\* The interval of the policy is full with the key that was just inserted.
Due == (key + 1) % policy = 0

\* insert_into gives a number no record has, and commits when the interval is full.
Insert ==
    /\ cpc = "insert" /\ key < MaxKeys
    /\ id' \in {i \in Ids : allowed[i] = {NotFound}}
    /\ Heap!Write(id', key + 1)
    /\ cpc' = IF (key + 1) % policy = 0 THEN "commit" ELSE "line"
    /\ UNCHANGED <<policy, key, pending, log, toRead, parsed, report>>

Commit ==
    /\ cpc = "commit"
    /\ Heap!Commit
    /\ cpc' = "line"
    /\ UNCHANGED <<policy, child, log, toRead, parsed, report>>

\* The line of the record; with the last of an interval the lines are written out.
PushLine ==
    /\ cpc = "line"
    /\ pending' = Append(pending, Line(key, id)) \o (IF Due THEN <<Confirm>> ELSE <<>>)
    /\ key' = key + 1
    /\ cpc' = IF Due THEN "write" ELSE "insert"
    /\ UNCHANGED <<heap, policy, id, log, toRead, parsed, report>>

WriteLog ==
    /\ cpc = "write"
    /\ log' = log \o pending
    /\ pending' = <<>>
    /\ cpc' = "insert"
    /\ UNCHANGED <<heap, policy, key, id, toRead, parsed, report>>

-----------------------------------------------------------------------------
(* The parent. *)

\* What the parent makes of a line that ends early: the number of a record may have
\* lost digits, and a line with one field says nothing.
Cut(line) ==
    {Noise} \union
    (IF line.what = "C" THEN {Confirm}
     ELSE {Line(line.key, line.id \div (Base ^ d)) :
              d \in {e \in 0 .. line.id : e = 0 \/ line.id \div (Base ^ e) > 0}})

\* The log when the child dies: of the lines being written some are there, and of the
\* next one perhaps a part.
TornLog ==
    IF cpc # "write" THEN {log}
    ELSE {log \o SubSeq(pending, 1, n) : n \in 0 .. Len(pending)}
         \union UNION {{log \o SubSeq(pending, 1, n - 1) \o <<l>> : l \in Cut(pending[n])} :
                          n \in DOMAIN pending}

Kill ==
    /\ cpc \in {"insert", "commit", "line", "write"}
    /\ Heap!Stop
    /\ log' \in TornLog
    /\ toRead' = log'
    /\ cpc' = "parse"
    /\ UNCHANGED <<policy, child, parsed, report>>

\* Variant: a confirmation replaces what was confirmed before.
TakeTail == tail

\* confirmed.append(&mut tail).
WithTail == confirmed \o tail

ParseLine ==
    LET line == Head(toRead)
    IN  /\ cpc = "parse" /\ toRead # <<>>
        /\ toRead' = Tail(toRead)
        /\ confirmed' = IF line.what = "C" THEN WithTail ELSE confirmed
        /\ tail' = CASE line.what = "C" -> <<>>
                     [] line.what = "op" -> Append(tail, line)
                     [] OTHER -> tail
        /\ UNCHANGED <<heap, policy, cpc, child, log, report>>

OpenHeap ==
    /\ cpc = "parse" /\ toRead = <<>>
    /\ Heap!Recover
    /\ cpc' = "read"
    /\ UNCHANGED <<policy, child, log, toRead, parsed, report>>

\* read of the record of a line: a number that is not there is not found.
ReadOf(line) == IF line.id \in Ids THEN view[line.id] ELSE NotFound

\* The payload read is the one made from the key.
Same(line) == ReadOf(line) = line.key + 1

\* The records of the log are read and counted.
ReadAll ==
    LET Absent == {n \in DOMAIN confirmed : ReadOf(confirmed[n]) = NotFound}
        Wrong == {n \in DOMAIN confirmed \ Absent : ~Same(confirmed[n])}
    IN  /\ cpc = "read"
        /\ lost' = Cardinality(Absent)
        /\ corrupted' = Cardinality(Wrong)
        /\ survivors' = Cardinality({n \in DOMAIN tail : Same(tail[n])})
        /\ cpc' = "report"
        /\ UNCHANGED <<heap, policy, child, log, toRead, parsed>>

\* The directory is emptied for the next round.
NextRound ==
    /\ cpc = "report"
    /\ up' = TRUE /\ view' = Heap!Nothing /\ allowed' = Heap!Only(Heap!Nothing)
    /\ cpc' = "insert" /\ key' = 0 /\ id' = 0 /\ pending' = <<>> /\ log' = <<>>
    /\ confirmed' = <<>> /\ tail' = <<>>
    /\ lost' = 0 /\ corrupted' = 0 /\ survivors' = 0
    /\ UNCHANGED <<policy, toRead>>

Next == \/ Insert \/ Commit \/ PushLine \/ WriteLog
        \/ Kill \/ ParseLine \/ OpenHeap \/ ReadAll \/ NextRound

Spec == Init /\ [][Next]_vars

-----------------------------------------------------------------------------
(* Properties. *)

\* A heap that keeps its promise is never reported: wherever the kill falls, in the
\* heap, in the log or between them, no confirmed record is counted lost or corrupted.
NoFalseAlarm == cpc = "report" => lost = 0 /\ corrupted = 0

\* The test looks at enough: of the inserts that returned, all but those of the last
\* interval are confirmed and checked, each once, in the order of the keys.
ChecksAllButLast ==
    cpc = "report" => /\ key - Len(confirmed) <= policy
                      /\ \A n \in DOMAIN confirmed : confirmed[n].key = n - 1
=============================================================================
