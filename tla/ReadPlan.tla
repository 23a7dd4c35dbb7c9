------------------------------ MODULE ReadPlan ------------------------------
(***************************************************************************)
(* Heap::read_batch (src/src/heap.rs:217): many records are read with few  *)
(* requests.  read_slots groups the index pages of the numbers, read_many  *)
(* the data pages of the records, and the io_uring backend splits each     *)
(* request again; every slot and payload is then cut out of a buffer.      *)
(*                                                                         *)
(* A byte of the data file is its own offset and a slot of the index is    *)
(* that of its number, so that whatever is cut out of the wrong place      *)
(* shows.                                                                  *)
(***************************************************************************)
EXTENDS Format, Sequences, SequencesExt, FiniteSetsExt

CONSTANTS
    SLOTS_PER_PAGE,  \* slots in an index page
    Numbers,         \* record numbers
    Damageable,      \* those whose records may be damaged
    Offsets,         \* where records may begin in the data file
    Lengths,         \* total lengths of records
    MaxBatch,        \* bound on the numbers of one batch
    SplitSize        \* chunk of UringIo: bytes of one segment

ASSUME ReadPlanAssumption ==
    /\ SLOTS_PER_PAGE \in Nat \ {0} /\ SplitSize \in Nat \ {0}
    /\ Numbers \subseteq Nat /\ Damageable \subseteq Numbers
    /\ Offsets \subseteq Nat /\ Lengths \subseteq Nat \ {0}
    /\ MaxBatch \in Nat

VARIABLES
    index,           \* slot of each number: its record, or None
    damaged,         \* numbers whose records do not parse
    ids,             \* the batch
    rpc,             \* where read_batch stands
    slots,           \* result of read_slots
    groups,          \* groups of read_many
    done,            \* items parsed
    out, error

batch == <<index, damaged, ids>>
planVars == <<batch, rpc, slots, groups, done, out, error>>

None == [off |-> 0, len |-> 0]
Slots == {None} \union [off : Offsets, len : Lengths]

Bytes(s) == s.off .. s.off + s.len - 1

PlanInit ==
    /\ index \in [Numbers -> Slots]
    /\ \A i, j \in Numbers : i # j => Bytes(index[i]) \intersect Bytes(index[j]) = {}
    /\ damaged \in SUBSET Damageable
    /\ ids \in UNION {[1 .. n -> Numbers] : n \in 0 .. MaxBatch}
    /\ rpc = "slots" /\ slots = <<>> /\ groups = <<>> /\ done = 0
    /\ out = <<>> /\ error = "none"

-----------------------------------------------------------------------------
(* The device. *)

\* split: the segments of a request, each with its place in the buffer.
Split(off, len) ==
    {[off |-> off + d, ptr |-> d, len |-> Min({SplitSize, len - d})] :
        d \in {x \in 0 .. len - 1 : x % SplitSize = 0}}

\* The buffer of a request that was read: each segment brings its own part.
Buffer(off, len) ==
    [k \in 0 .. len - 1 |->
        LET seg == CHOOSE s \in Split(off, len) : k >= s.ptr /\ k < s.ptr + s.len
        IN  seg.off + (k - seg.ptr)]

-----------------------------------------------------------------------------
(* read_slots: offsets count slots. *)

SlotPage(id) == (id \div SLOTS_PER_PAGE) * SLOTS_PER_PAGE

\* The pages of a set, sorted.
Sorted(S) ==
    CHOOSE f \in [1 .. Cardinality(S) -> S] : \A i, j \in 1 .. Cardinality(S) : i < j => f[i] < f[j]

\* Adjacent pages share one request.
AddPage(gs, p) ==
    IF gs # <<>> /\ Last(gs).end = p
    THEN [gs EXCEPT ![Len(gs)].end = @ + SLOTS_PER_PAGE]
    ELSE Append(gs, [start |-> p, end |-> p + SLOTS_PER_PAGE])

PageGroups ==
    FoldLeft(AddPage, <<>>, Sorted({SlotPage(id) : id \in Range(ids)}))

\* partition_point over the ends of the groups.
GroupOf(gs, p) == Cardinality({g \in DOMAIN gs : gs[g].end <= p}) + 1

\* The slot cut out of the buffer of its group.
SlotFrom(gs, id) ==
    LET g == gs[GroupOf(gs, id)]
        found == Buffer(g.start, g.end - g.start)[id - g.start]
    IN  IF found \in Numbers THEN index[found] ELSE None

ReadSlots ==
    LET gs == PageGroups
    IN  /\ rpc = "slots"
        /\ slots' = [n \in DOMAIN ids |-> SlotFrom(gs, ids[n])]
        /\ rpc' = "items"
        /\ UNCHANGED <<batch, groups, done, out, error>>

\* The first number without a slot ends the call.
Items ==
    /\ rpc = "items"
    /\ IF \E n \in DOMAIN slots : slots[n] = None
       THEN rpc' = "done" /\ error' = "NotFound"
       ELSE rpc' = "group" /\ UNCHANGED error
    /\ UNCHANGED <<batch, slots, groups, done, out>>

-----------------------------------------------------------------------------
(* read_many. *)

\* The items by offset; the sort is stable.
ByOffset(a, b) == \/ slots[a].off < slots[b].off
                  \/ (slots[a].off = slots[b].off /\ a < b)

Order ==
    LET size == Cardinality(DOMAIN slots)
    IN  CHOOSE f \in [1 .. size -> DOMAIN slots] :
            \A i, j \in 1 .. size : i < j => ByOffset(f[i], f[j])

\* Variant: a group keeps its end.
JoinKeepingEnd(gs, n) ==
    LET from == PageDown(slots[n].off)
        to == PageUp(slots[n].off + slots[n].len)
    IN  IF gs # <<>> /\ from <= Last(gs).end
        THEN [gs EXCEPT ![Len(gs)].items = Append(@, n)]
        ELSE Append(gs, [start |-> from, end |-> to, items |-> <<n>>])

\* An item joins the last group when its pages meet it.
Join(gs, n) ==
    LET from == PageDown(slots[n].off)
        to == PageUp(slots[n].off + slots[n].len)
    IN  IF gs # <<>> /\ from <= Last(gs).end
        THEN [gs EXCEPT ![Len(gs)] = [start |-> @.start, end |-> Max({@.end, to}),
                                      items |-> Append(@.items, n)]]
        ELSE Append(gs, [start |-> from, end |-> to, items |-> <<n>>])

ReadGroups ==
    /\ rpc = "group"
    /\ groups' = FoldLeft(Join, <<>>, Order)
    /\ out' = [n \in DOMAIN ids |-> <<>>]
    /\ rpc' = "parse"
    /\ UNCHANGED <<batch, slots, done, error>>

\* The items in the order of their groups.
Queue == FlattenSeq([g \in DOMAIN groups |-> [k \in DOMAIN groups[g].items |->
                                                 <<g, groups[g].items[k]>>]])

\* parse cuts the record out of the buffer of its group.  A record that does not parse
\* ends the call; one that is not all in the buffer would be a panic.
Parse ==
    LET g == groups[Queue[done + 1][1]]
        n == Queue[done + 1][2]
        at == slots[n].off - g.start
        data == Buffer(g.start, g.end - g.start)
        fails == IF at + slots[n].len > g.end - g.start THEN "panic"
                 ELSE IF ids[n] \in damaged THEN "Corrupt" ELSE "none"
    IN  /\ rpc = "parse" /\ done < Len(Queue)
        /\ done' = done + 1
        /\ error' = fails
        /\ IF fails = "none"
           THEN /\ out' = [out EXCEPT ![n] = [k \in 1 .. slots[n].len |-> data[at + k - 1]]]
                /\ UNCHANGED rpc
           ELSE rpc' = "done" /\ UNCHANGED out
        /\ UNCHANGED <<batch, slots, groups>>

Finish ==
    /\ rpc = "parse" /\ done = Len(Queue)
    /\ rpc' = "done"
    /\ UNCHANGED <<batch, slots, groups, done, out, error>>

PlanNext == ReadSlots \/ Items \/ ReadGroups \/ Parse \/ Finish

PlanSpec == PlanInit /\ [][PlanNext]_planVars

-----------------------------------------------------------------------------
(* Properties. *)

\* A batch returns what reads one by one return, in the order of the batch, and fails
\* exactly when one of them does: NotFound before Corrupt.
BatchAsSingles ==
    rpc = "done" =>
        /\ error = IF \E id \in Range(ids) : index[id] = None THEN "NotFound"
                   ELSE IF Range(ids) \intersect damaged # {} THEN "Corrupt" ELSE "none"
        /\ error = "none" => out = [n \in DOMAIN ids |->
                                       LET s == index[ids[n]]
                                       IN  [k \in 1 .. s.len |-> s.off + k - 1]]
=============================================================================
