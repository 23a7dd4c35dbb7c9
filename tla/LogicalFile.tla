----------------------------- MODULE LogicalFile -----------------------------
(***************************************************************************)
(* What a PagedFile is to its users: an array of bytes that staged writes  *)
(* change at once.  Flushing is not visible.                               *)
(***************************************************************************)
EXTENDS Integers, Sequences

CONSTANT Lens        \* lengths of writes

VARIABLES content,   \* the bytes
          count      \* writes so far

Init == content = [x \in DOMAIN content |-> 0] /\ count = 0

\* The n-th write puts the byte value n everywhere it covers.
Write(off, len) ==
    /\ off + len - 1 \in DOMAIN content
    /\ count' = count + 1
    /\ \A x \in DOMAIN content :
          content'[x] = IF x >= off /\ x < off + len THEN count + 1 ELSE content[x]

Next == \E off \in DOMAIN content, len \in Lens : Write(off, len)

Spec == Init /\ [][Next]_<<content, count>>
=============================================================================
