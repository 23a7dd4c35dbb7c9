------------------------------ MODULE MCReads ------------------------------
\* The two readers that read in pieces and put the pieces together: the walk over
\* every short file, or read_batch with every batch.
EXTENDS Walk, ReadPlan

CONSTANTS MagicA, MagicB
MCMagic == <<MagicA, MagicB>>

NoWalk ==
    /\ bytes = [p \in 0 .. EndOffset - 1 |-> Other] /\ chunk = 1 /\ allow_resync = FALSE
    /\ wpc = "done" /\ buffer = <<>> /\ buffer_start = 0 /\ position = 0
    /\ search_offset = 0 /\ needed = 0 /\ after = "top" /\ visited = <<>> /\ stopped = FALSE

NoBatch ==
    /\ index = [id \in Numbers |-> None] /\ damaged = {} /\ ids = <<>>
    /\ rpc = "done" /\ slots = <<>> /\ groups = <<>> /\ done = 0
    /\ out = <<>> /\ error = "none"

MCInit == \/ WalkInit /\ NoBatch
          \/ NoWalk /\ PlanInit

MCNext == \/ WalkNext /\ UNCHANGED planVars
          \/ PlanNext /\ UNCHANGED walkVars

MCSpec == MCInit /\ [][MCNext]_<<walkVars, planVars>> /\ WF_walkVars(WalkNext)
=============================================================================
