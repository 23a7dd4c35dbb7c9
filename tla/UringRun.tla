------------------------------ MODULE UringRun ------------------------------
(***************************************************************************)
(* UringIo::run (src/src/io/uring.rs): one read_vec or write_vec as a set  *)
(* of segments driven through an io_uring.  The program fills the          *)
(* submission queue, enters the kernel, takes a batch of completions and   *)
(* processes them; the kernel completes requests in any order, fully,      *)
(* partly, at end of file, or with an error.                               *)
(***************************************************************************)
EXTENDS Integers, FiniteSets

CONSTANTS N,         \* number of segments
          Size,      \* length of each segment
          DEPTH,     \* requests run keeps outstanding
          SQ_SIZE    \* entries of the submission queue (depth.next_power_of_two)

Segs == 0 .. N - 1

ASSUME UringAssumption ==
    /\ N \in Nat
    /\ Size \in [Segs -> Nat \ {0}]
    /\ DEPTH \in Nat \ {0}
    /\ SQ_SIZE \in Nat /\ SQ_SIZE >= DEPTH

VARIABLES
    isRead,     \* read_vec or write_vec
    pc,         \* fill, submit, wait, collect, process, done
    next,       \* segments from next on have not been submitted
    pending,    \* the program's count of outstanding requests
    error,      \* an error is recorded
    left,       \* segment.len: what the next request of a segment covers
    st,         \* where the request of each segment is
    res,        \* the completion result of a segment in cq or batch
    moved       \* external: units of each segment that the kernel transferred

vars == <<isRead, pc, next, pending, error, left, st, res, moved>>

\* todo: never submitted; sq: in the submission queue; kernel: in flight;
\* cq: in the completion queue; batch: collected, not yet processed;
\* done: no request outstanding; eof: the same, and the rest was zero-filled.
Status == {"todo", "sq", "kernel", "cq", "batch", "done", "eof"}
Outstanding == {i \in Segs : st[i] \in {"sq", "kernel", "cq", "batch"}}
In(s) == {i \in Segs : st[i] = s}

Init == /\ isRead \in BOOLEAN
        /\ pc = "fill" /\ next = 0 /\ pending = 0 /\ error = FALSE
        /\ left = Size
        /\ st = [i \in Segs |-> "todo"]
        /\ res = [i \in Segs |-> 0]
        /\ moved = [i \in Segs |-> 0]

\* Variant: the filling loop does not look at depth.
FillAllReady == next < N /\ ~error

FillReady == pending < DEPTH /\ next < N /\ ~error

Fill == /\ pc = "fill" /\ FillReady
        /\ st' = [st EXCEPT ![next] = "sq"]
        /\ next' = next + 1
        /\ pending' = pending + 1
        /\ UNCHANGED <<isRead, pc, error, left, res, moved>>

\* Variant: run returns as soon as an error is recorded.
EarlyLeave == pending = 0 \/ error

\* The loop ends when nothing is outstanding once the queue was filled.
Leave == pending = 0

FillEnd == /\ pc = "fill" /\ ~FillReady
           /\ pc' = IF Leave THEN "done" ELSE "submit"
           /\ UNCHANGED <<isRead, next, pending, error, left, st, res, moved>>

\* submit_and_wait(1): the kernel takes queue entries; if it took them all, it
\* waits for a completion.  EINTR repeats the call and changes nothing.
Submit(S) == /\ pc = "submit" /\ S \subseteq In("sq") /\ (In("sq") = {} \/ S # {})
             /\ st' = [i \in Segs |-> IF i \in S THEN "kernel" ELSE st[i]]
             /\ pc' = IF S = In("sq") THEN "wait" ELSE "collect"
             /\ UNCHANGED <<isRead, next, pending, error, left, res, moved>>

Wait == /\ pc = "wait" /\ In("cq") # {}
        /\ pc' = "collect"
        /\ UNCHANGED <<isRead, next, pending, error, left, st, res, moved>>

\* The kernel finishes a request: -1 is an error, 0 end of file or nothing
\* written, less than left a short transfer.
Complete(i) == \E r \in -1 .. left[i] :
                 /\ st[i] = "kernel"
                 /\ st' = [st EXCEPT ![i] = "cq"]
                 /\ res' = [res EXCEPT ![i] = r]
                 /\ moved' = [moved EXCEPT ![i] = @ + (IF r > 0 THEN r ELSE 0)]
                 /\ UNCHANGED <<isRead, pc, next, pending, error, left>>

Collect == /\ pc = "collect"
           /\ st' = [i \in Segs |-> IF st[i] = "cq" THEN "batch" ELSE st[i]]
           /\ pc' = "process"
           /\ UNCHANGED <<isRead, next, pending, error, left, res, moved>>

\* A completion that leaves nothing more to submit for its segment.
Finish(i, status, failed) ==
    /\ st' = [st EXCEPT ![i] = status]
    /\ pending' = pending - 1
    /\ error' = (error \/ failed)
    /\ UNCHANGED <<isRead, pc, next, left, res, moved>>

Failed(i) == /\ pc = "process" /\ st[i] = "batch" /\ res[i] < 0
             /\ Finish(i, "done", TRUE)

\* Variant: a short completion counts as a full one.
AnyCompletion(i) == /\ pc = "process" /\ st[i] = "batch" /\ res[i] >= 0
                    /\ res[i] > 0 \/ error
                    /\ Finish(i, "done", FALSE)

Whole(i) == /\ pc = "process" /\ st[i] = "batch" /\ res[i] >= 0
            /\ res[i] = left[i] \/ error
            /\ Finish(i, "done", FALSE)

\* Variant: a read that returned nothing is tried again.
ReadAgain(i) == /\ pc = "process" /\ st[i] = "batch" /\ ~error
                /\ isRead /\ res[i] = 0 /\ left[i] # 0
                /\ st' = [st EXCEPT ![i] = "sq"]
                /\ UNCHANGED <<isRead, pc, next, pending, error, left, res, moved>>

EndOfFile(i) == /\ pc = "process" /\ st[i] = "batch" /\ ~error
                /\ isRead /\ res[i] = 0 /\ left[i] # 0
                /\ Finish(i, "eof", FALSE)

WriteZero(i) == /\ pc = "process" /\ st[i] = "batch" /\ ~error
                /\ ~isRead /\ res[i] = 0 /\ left[i] # 0
                /\ Finish(i, "done", TRUE)

\* Variant: the remaining range is submitted even after an error.
ResubmitAlways(i) == /\ pc = "process" /\ st[i] = "batch"
                     /\ res[i] > 0 /\ res[i] < left[i]
                     /\ left' = [left EXCEPT ![i] = @ - res[i]]
                     /\ st' = [st EXCEPT ![i] = "sq"]
                     /\ UNCHANGED <<isRead, pc, next, pending, error, res, moved>>

\* Variant: the segment is submitted again from its beginning.
ResubmitWhole(i) == /\ pc = "process" /\ st[i] = "batch" /\ ~error
                    /\ res[i] > 0 /\ res[i] < left[i]
                    /\ st' = [st EXCEPT ![i] = "sq"]
                    /\ UNCHANGED <<isRead, pc, next, pending, error, left, res, moved>>

\* Variant: a full completion is taken for a short one.
ResubmitEmpty(i) == /\ pc = "process" /\ st[i] = "batch" /\ ~error
                    /\ res[i] > 0
                    /\ left' = [left EXCEPT ![i] = @ - res[i]]
                    /\ st' = [st EXCEPT ![i] = "sq"]
                    /\ UNCHANGED <<isRead, pc, next, pending, error, res, moved>>

\* A short completion continues from the remaining range.
Resubmit(i) == /\ pc = "process" /\ st[i] = "batch" /\ ~error
               /\ res[i] > 0 /\ res[i] < left[i]
               /\ left' = [left EXCEPT ![i] = @ - res[i]]
               /\ st' = [st EXCEPT ![i] = "sq"]
               /\ UNCHANGED <<isRead, pc, next, pending, error, res, moved>>

BatchEnd == /\ pc = "process" /\ In("batch") = {}
            /\ pc' = "fill"
            /\ UNCHANGED <<isRead, next, pending, error, left, st, res, moved>>

Process(i) == Failed(i) \/ Whole(i) \/ EndOfFile(i) \/ WriteZero(i) \/ Resubmit(i)

Run == \/ Fill \/ FillEnd \/ Wait \/ Collect \/ BatchEnd
       \/ \E S \in SUBSET Segs : Submit(S)
       \/ \E i \in Segs : Process(i)

Kernel == \E i \in Segs : Complete(i)

Next == Run \/ Kernel

Spec == Init /\ [][Next]_vars

\* run is single-threaded and never gives up; the kernel finishes every request.
FairSpec == Spec /\ WF_vars(Run) /\ \A i \in Segs : WF_vars(Complete(i))

-----------------------------------------------------------------------------
(* Properties. *)

\* Type invariant of the loop's variables and of the requests' states.
TypeOK == /\ isRead \in BOOLEAN /\ error \in BOOLEAN
          /\ pc \in {"fill", "submit", "wait", "collect", "process", "done"}
          /\ next \in 0 .. N /\ pending \in Nat
          /\ left \in [Segs -> Nat \ {0}]
          /\ st \in [Segs -> Status]
          /\ res \in [Segs -> Int]
          /\ moved \in [Segs -> Nat]

\* When run returns, with or without an error, no request is outstanding: the
\* kernel no longer reads or writes the buffers the caller gets back.
NothingInFlight == pc = "done" => Outstanding = {}

\* When run returns Ok, every byte of every segment was transferred, once, or (a
\* read past the end of the file) filled with zeros.
OkMeansAll ==
    pc = "done" /\ ~error =>
        \A i \in Segs : moved[i] = Size[i] \/ (isRead /\ st[i] = "eof")

\* A request always covers exactly the part of its segment not yet transferred.
NeverTwice == \A i \in Segs : st[i] \in {"sq", "kernel"} => moved[i] + left[i] = Size[i]

\* push always finds room: expect("sq full") cannot fail, in the filling loop or
\* when a short completion is submitted again.
SqHasRoom == Cardinality(In("sq")) <= SQ_SIZE

\* After an error nothing more is submitted; run only drains what is in flight.
DrainAfterError == [][error => In("sq")' \subseteq In("sq")]_vars

\* run returns, however the kernel cuts its transfers.
Terminates == <>(pc = "done")
=============================================================================
