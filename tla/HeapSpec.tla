------------------------------ MODULE HeapSpec ------------------------------
(***************************************************************************)
(* What a heap promises its caller, without files, pages or recovery: a    *)
(* map from record numbers to outcomes.  Operations take effect one at a   *)
(* time, a commit makes everything written so far permanent, and a crash   *)
(* may undo, for each record independently, only what was written to it    *)
(* since the last commit.                                                  *)
(***************************************************************************)
CONSTANTS Ids,        \* record numbers
          Outcomes,   \* what reading a record can return
          NotFound    \* the outcome of an absent or deleted record

VARIABLES up,         \* the heap is open
          view,       \* outcome of reading each record (NotFound while closed)
          allowed     \* outcomes a crash may leave for each record

vars == <<up, view, allowed>>

Nothing == [id \in Ids |-> NotFound]

Only(v) == [id \in Ids |-> {v[id]}]

Init == up = TRUE /\ view = Nothing /\ allowed = Only(Nothing)

Write(id, v) == /\ up
                /\ view' = [view EXCEPT ![id] = v]
                /\ allowed' = [allowed EXCEPT ![id] = @ \union {v}]
                /\ UNCHANGED up

Commit == /\ up
          /\ allowed' = Only(view)
          /\ UNCHANGED <<up, view>>

Stop == up /\ up' = FALSE /\ view' = Nothing /\ UNCHANGED allowed

Recover == /\ ~up
           /\ up' = TRUE
           /\ view' \in [Ids -> Outcomes]
           /\ \A id \in Ids : view'[id] \in allowed[id]
           /\ allowed' = Only(view')

Next == \/ \E id \in Ids, v \in Outcomes : Write(id, v)
        \/ Commit
        \/ Stop
        \/ Recover

Spec == Init /\ [][Next]_vars
=============================================================================
