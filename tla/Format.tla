------------------------------- MODULE Format -------------------------------
(***************************************************************************)
(* Page arithmetic of src/src/format.rs.                                   *)
(***************************************************************************)
EXTENDS Integers

CONSTANT PAGE      \* units in a page

ASSUME PageAssumption == PAGE \in Nat \ {0}

PageDown(x) == x - (x % PAGE)

PageUp(x) == PageDown(x + PAGE - 1)
=============================================================================
