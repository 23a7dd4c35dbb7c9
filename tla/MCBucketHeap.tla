---------------------------- MODULE MCBucketHeap ----------------------------
\* The buckets are interchangeable: their order is that in which they come up.
EXTENDS BucketHeap, TLC

Symmetry == Permutations(Buckets)
=============================================================================
