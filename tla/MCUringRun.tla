----------------------------- MODULE MCUringRun -----------------------------
\* Segments of different lengths, more of them than run keeps outstanding.
EXTENDS UringRun

MCSize == [i \in 0 .. 3 |-> IF i % 2 = 0 THEN 2 ELSE 1]
=============================================================================
