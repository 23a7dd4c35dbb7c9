--------------------------- MODULE UringRunProofs ---------------------------
(***************************************************************************)
(* Proofs about UringRun, for any number and length of segments and any    *)
(* queue depth.  The counter pending is an ordinary variable of the code;  *)
(* everything rests on it being the number of outstanding requests.        *)
(***************************************************************************)
EXTENDS UringRun, FiniteSetTheorems, TLAPS

\* What the result of a completion adds to the bytes transferred.
Gain(i) == IF res[i] > 0 THEN res[i] ELSE 0

\* The bytes of each segment, by where its request is.
Accounted ==
    \A i \in Segs :
        /\ st[i] \in {"todo", "sq", "kernel"} => moved[i] + left[i] = Size[i]
        /\ st[i] \in {"cq", "batch"} =>
              /\ res[i] \in -1 .. left[i]
              /\ moved[i] + left[i] = Size[i] + Gain(i)
        /\ st[i] = "done" => error \/ moved[i] = Size[i]
        /\ st[i] = "eof" => isRead

\* Exactly the segments from next on have never been submitted.
Unsubmitted == \A i \in Segs : st[i] = "todo" <=> i >= next

\* pending is the number of outstanding requests, and never above the depth.
Counted == pending = Cardinality(Outstanding) /\ pending <= DEPTH

\* The loop is left only when nothing is outstanding or waiting to be submitted.
Drained == pc = "done" => pending = 0 /\ (error \/ next = N)

IInv == TypeOK /\ Accounted /\ Unsubmitted /\ Counted /\ Drained

-----------------------------------------------------------------------------
\* The segments, and so the outstanding ones, are finitely many.
LEMMA SegsFinite == IsFiniteSet(Segs) /\ IsFiniteSet(Outstanding)
<1>1. IsFiniteSet(Segs)
  BY FS_Interval, UringAssumption DEF Segs
<1>2. Outstanding \subseteq Segs
  BY DEF Outstanding
<1> QED  BY <1>1, <1>2, FS_Subset

\* The loop starts with every segment untouched.
LEMMA InitIInv == Init => IInv
<1> SUFFICES ASSUME Init PROVE IInv
  OBVIOUS
<1> USE UringAssumption DEF Init
<1>1. TypeOK
  <2>1. /\ isRead \in BOOLEAN /\ error \in BOOLEAN
        /\ pc \in {"fill", "submit", "wait", "collect", "process", "done"}
    BY Zenon
  <2>2. next \in 0 .. N /\ pending \in Nat /\ left \in [Segs -> Nat \ {0}]
    OBVIOUS
  <2>3. st \in [Segs -> Status] /\ res \in [Segs -> Int] /\ moved \in [Segs -> Nat]
    BY DEF Status
  <2> QED  BY <2>1, <2>2, <2>3 DEF TypeOK
<1>2. Accounted
  BY DEF Accounted
<1>3. Unsubmitted
  BY DEF Unsubmitted, Segs
<1>4. Counted
  <2>1. Outstanding = {}
    BY DEF Outstanding
  <2> QED  BY <2>1, FS_EmptySet DEF Counted
<1>5. Drained
  BY DEF Drained
<1> QED  BY <1>1, <1>2, <1>3, <1>4, <1>5 DEF IInv

-----------------------------------------------------------------------------
(* Every step keeps the types. *)

LEMMA TypeStep == IInv /\ [Next]_vars => TypeOK'
<1> SUFFICES ASSUME IInv, [Next]_vars PROVE TypeOK'
  OBVIOUS
<1> USE UringAssumption DEF IInv, TypeOK, Status
<1>1. CASE Fill
  BY <1>1 DEF Fill, FillReady, Segs
<1>2. CASE FillEnd
  BY <1>2 DEF FillEnd
<1>3. ASSUME NEW S \in SUBSET Segs, Submit(S) PROVE TypeOK'
  BY <1>3 DEF Submit
<1>4. CASE Wait
  BY <1>4 DEF Wait
<1>5. ASSUME NEW i \in Segs, Complete(i) PROVE TypeOK'
  <2>1. PICK r \in -1 .. left[i] :
           /\ st' = [st EXCEPT ![i] = "cq"]
           /\ res' = [res EXCEPT ![i] = r]
           /\ moved' = [moved EXCEPT ![i] = @ + (IF r > 0 THEN r ELSE 0)]
           /\ UNCHANGED <<isRead, pc, next, pending, error, left>>
    BY <1>5 DEF Complete
  <2>2. r \in Int /\ (IF r > 0 THEN r ELSE 0) \in Nat
    OBVIOUS
  <2> QED  BY <2>1, <2>2
<1>6. CASE Collect
  BY <1>6 DEF Collect
<1>7. CASE BatchEnd
  BY <1>7 DEF BatchEnd
<1>8. ASSUME NEW i \in Segs, NEW status \in {"done", "eof"}, NEW failed \in BOOLEAN,
             Finish(i, status, failed), st[i] = "batch"
      PROVE  TypeOK'
  <2>1. pending > 0
    <3>1. i \in Outstanding
      BY <1>8 DEF Outstanding
    <3> QED  BY <3>1, SegsFinite, FS_EmptySet, FS_CardinalityType DEF Counted
  <2> QED  BY <1>8, <2>1 DEF Finish
<1>9. ASSUME NEW i \in Segs, Process(i) PROVE TypeOK'
  <2>1. CASE Failed(i)
    BY <2>1, <1>8 DEF Failed
  <2>2. CASE Whole(i)
    BY <2>2, <1>8 DEF Whole
  <2>3. CASE EndOfFile(i)
    BY <2>3, <1>8 DEF EndOfFile
  <2>4. CASE WriteZero(i)
    BY <2>4, <1>8 DEF WriteZero
  <2>5. CASE Resubmit(i)
    <3>1. left[i] - res[i] \in Nat \ {0}
      BY <2>5 DEF Resubmit
    <3> QED  BY <2>5, <3>1 DEF Resubmit
  <2> QED  BY <1>9, <2>1, <2>2, <2>3, <2>4, <2>5 DEF Process
<1>10. CASE UNCHANGED vars
  BY <1>10 DEF vars
<1> QED  BY <1>1, <1>2, <1>3, <1>4, <1>5, <1>6, <1>7, <1>9, <1>10 DEF Next, Run, Kernel

-----------------------------------------------------------------------------
(* Every step keeps the count. *)

\* A step that keeps the outstanding set and pending keeps the count.
LEMMA SameCount == ASSUME IInv, Outstanding' = Outstanding, pending' = pending
                   PROVE  Counted'
BY DEF IInv, Counted

\* A completion that ends the request of a segment takes it from both.
LEMMA FinishCount ==
    ASSUME IInv, NEW i \in Segs, NEW status \in {"done", "eof"}, NEW failed \in BOOLEAN,
           st[i] = "batch", Finish(i, status, failed)
    PROVE  Counted'
<1>1. i \in Outstanding
  BY DEF Outstanding
<1>2. Outstanding' = Outstanding \ {i}
  BY DEF Finish, Outstanding, IInv, TypeOK
<1>3. Cardinality(Outstanding') = Cardinality(Outstanding) - 1
  BY <1>1, <1>2, SegsFinite, FS_RemoveElement
<1> QED  BY <1>3, UringAssumption DEF Finish, IInv, TypeOK, Counted

LEMMA CountStep == IInv /\ [Next]_vars => Counted'
<1> SUFFICES ASSUME IInv, [Next]_vars PROVE Counted'
  OBVIOUS
<1> USE DEF IInv
<1>1. CASE Fill
  <2>1. next \in Segs /\ next \notin Outstanding
    BY <1>1, UringAssumption DEF Fill, FillReady, Segs, TypeOK, Unsubmitted, Outstanding
  <2>2. Outstanding' = Outstanding \union {next}
    BY <1>1, <2>1 DEF Fill, Outstanding, TypeOK
  <2>3. Cardinality(Outstanding') = Cardinality(Outstanding) + 1
    BY <2>1, <2>2, SegsFinite, FS_AddElement
  <2>4. pending' = pending + 1 /\ pending < DEPTH
    BY <1>1 DEF Fill, FillReady
  <2> QED  BY <2>3, <2>4, UringAssumption DEF Counted, TypeOK
<1>2. CASE FillEnd
  BY <1>2, SameCount DEF FillEnd, Outstanding
<1>3. ASSUME NEW S \in SUBSET Segs, Submit(S) PROVE Counted'
  <2>1. Outstanding' = Outstanding
    BY <1>3 DEF Submit, Outstanding, In
  <2> QED  BY <1>3, <2>1, SameCount DEF Submit
<1>4. CASE Wait
  BY <1>4, SameCount DEF Wait, Outstanding
<1>5. ASSUME NEW i \in Segs, Complete(i) PROVE Counted'
  <2>1. Outstanding' = Outstanding
    BY <1>5 DEF Complete, Outstanding, TypeOK
  <2> QED  BY <1>5, <2>1, SameCount DEF Complete
<1>6. CASE Collect
  <2>1. Outstanding' = Outstanding
    BY <1>6 DEF Collect, Outstanding
  <2> QED  BY <1>6, <2>1, SameCount DEF Collect
<1>7. CASE BatchEnd
  BY <1>7, SameCount DEF BatchEnd, Outstanding
<1>8. ASSUME NEW i \in Segs, Process(i) PROVE Counted'
  <2>1. CASE Failed(i)
    BY <2>1, FinishCount DEF Failed
  <2>2. CASE Whole(i)
    BY <2>2, FinishCount DEF Whole
  <2>3. CASE EndOfFile(i)
    BY <2>3, FinishCount DEF EndOfFile
  <2>4. CASE WriteZero(i)
    BY <2>4, FinishCount DEF WriteZero
  <2>5. CASE Resubmit(i)
    <3>1. Outstanding' = Outstanding
      BY <2>5 DEF Resubmit, Outstanding, TypeOK
    <3> QED  BY <2>5, <3>1, SameCount DEF Resubmit
  <2> QED  BY <1>8, <2>1, <2>2, <2>3, <2>4, <2>5 DEF Process
<1>9. CASE UNCHANGED vars
  BY <1>9, SameCount DEF vars, Outstanding
<1> QED  BY <1>1, <1>2, <1>3, <1>4, <1>5, <1>6, <1>7, <1>8, <1>9 DEF Next, Run, Kernel

-----------------------------------------------------------------------------
(* Every step keeps the account of bytes and of unsubmitted segments. *)

LEMMA AccountStep == IInv /\ [Next]_vars => Accounted' /\ Unsubmitted'
<1> SUFFICES ASSUME IInv, [Next]_vars PROVE Accounted' /\ Unsubmitted'
  OBVIOUS
<1> USE UringAssumption DEF IInv, TypeOK, Status, Accounted, Unsubmitted, Gain
<1>1. CASE Fill
  <2>1. next \in Segs /\ st[next] = "todo"
    BY <1>1 DEF Fill, FillReady, Segs
  <2>2. \A i \in Segs : i >= next' <=> i >= next /\ i # next
    BY <1>1 DEF Fill, Segs
  <2> QED  BY <1>1, <2>1, <2>2 DEF Fill
<1>2. CASE FillEnd
  BY <1>2 DEF FillEnd
<1>3. ASSUME NEW S \in SUBSET Segs, Submit(S) PROVE Accounted' /\ Unsubmitted'
  <2>1. \A i \in Segs : i \in S => st[i] = "sq"
    BY <1>3 DEF Submit, In
  <2> QED  BY <1>3, <2>1 DEF Submit
<1>4. CASE Wait
  BY <1>4 DEF Wait
<1>5. ASSUME NEW i \in Segs, Complete(i) PROVE Accounted' /\ Unsubmitted'
  <2>1. PICK r \in -1 .. left[i] :
           /\ st' = [st EXCEPT ![i] = "cq"]
           /\ res' = [res EXCEPT ![i] = r]
           /\ moved' = [moved EXCEPT ![i] = @ + (IF r > 0 THEN r ELSE 0)]
           /\ UNCHANGED <<isRead, pc, next, pending, error, left>>
    BY <1>5 DEF Complete
  <2>2. st[i] = "kernel"
    BY <1>5 DEF Complete
  <2>3. Unsubmitted'
    BY <2>1, <2>2
  <2>4. ASSUME NEW j \in Segs, j # i
        PROVE  st'[j] = st[j] /\ res'[j] = res[j] /\ moved'[j] = moved[j]
    BY <2>1, <2>4
  <2>5. st'[i] = "cq" /\ res'[i] = r /\ moved'[i] = moved[i] + (IF r > 0 THEN r ELSE 0)
    BY <2>1
  <2>6. moved[i] + left[i] = Size[i] /\ left[i] \in Nat /\ moved[i] \in Nat /\ Size[i] \in Nat
    BY <2>2
  <2>7. Accounted'
    BY <2>1, <2>4, <2>5, <2>6
  <2> QED  BY <2>3, <2>7
<1>6. CASE Collect
  BY <1>6 DEF Collect
<1>7. CASE BatchEnd
  BY <1>7 DEF BatchEnd
<1>8. ASSUME NEW i \in Segs, Process(i) PROVE Accounted' /\ Unsubmitted'
  <2>1. CASE Failed(i)
    BY <2>1 DEF Failed, Finish
  <2>2. CASE Whole(i)
    <3>1. error \/ moved[i] = Size[i]
      BY <2>2 DEF Whole
    <3> QED  BY <2>2, <3>1 DEF Whole, Finish
  <2>3. CASE EndOfFile(i)
    BY <2>3 DEF EndOfFile, Finish
  <2>4. CASE WriteZero(i)
    BY <2>4 DEF WriteZero, Finish
  <2>5. CASE Resubmit(i)
    <3>1. /\ st' = [st EXCEPT ![i] = "sq"]
          /\ left' = [left EXCEPT ![i] = @ - res[i]]
          /\ UNCHANGED <<isRead, next, error, res, moved>>
          /\ st[i] = "batch" /\ res[i] > 0 /\ res[i] < left[i]
      BY <2>5 DEF Resubmit
    <3>2. moved[i] + left[i] = Size[i] + res[i]
      BY <3>1
    <3>3. moved'[i] + left'[i] = Size[i] /\ st'[i] = "sq"
      BY <3>1, <3>2
    <3>4. \A j \in Segs : j # i => st'[j] = st[j] /\ left'[j] = left[j]
      BY <3>1
    <3>5. Unsubmitted'
      BY <3>1
    <3> QED  BY <3>1, <3>3, <3>4, <3>5
  <2> QED  BY <1>8, <2>1, <2>2, <2>3, <2>4, <2>5 DEF Process
<1>9. CASE UNCHANGED vars
  BY <1>9 DEF vars
<1> QED  BY <1>1, <1>2, <1>3, <1>4, <1>5, <1>6, <1>7, <1>8, <1>9 DEF Next, Run, Kernel

\* Once the loop is left nothing moves: a request would have to be outstanding.
LEMMA DrainStep == IInv /\ [Next]_vars => Drained'
<1> SUFFICES ASSUME IInv, [Next]_vars PROVE Drained'
  OBVIOUS
<1> USE UringAssumption DEF IInv, TypeOK, Drained
<1>1. CASE pc = "done"
  <2>1. Outstanding = {}
    BY <1>1, SegsFinite, FS_EmptySet DEF Counted
  <2>2. ~Kernel
    BY <2>1 DEF Kernel, Complete, Outstanding
  <2>3. ~Run
    BY <1>1 DEF Run, Fill, FillEnd, Wait, Collect, BatchEnd, Submit, Process, Failed,
                Whole, EndOfFile, WriteZero, Resubmit
  <2> QED  BY <1>1, <2>2, <2>3 DEF Next, vars
<1>2. CASE pc # "done"
  <2>1. CASE FillEnd
    BY <2>1 DEF FillEnd, FillReady, Leave
  <2>2. CASE Fill \/ Wait \/ Collect \/ BatchEnd \/ (\E S \in SUBSET Segs : Submit(S))
    BY <1>2, <2>2 DEF Fill, Wait, Collect, BatchEnd, Submit
  <2>3. CASE (\E i \in Segs : Process(i)) \/ Kernel \/ UNCHANGED vars
    BY <1>2, <2>3 DEF Process, Failed, Whole, EndOfFile, WriteZero, Resubmit, Finish,
                      Kernel, Complete, vars
  <2> QED  BY <2>1, <2>2, <2>3 DEF Next, Run
<1> QED  BY <1>1, <1>2

-----------------------------------------------------------------------------
\* The inductive invariant of the loop of UringIo::run.
THEOREM Invariance == Spec => []IInv
<1>1. IInv /\ [Next]_vars => IInv'
  BY TypeStep, CountStep, AccountStep, DrainStep DEF IInv
<1> QED  BY InitIInv, <1>1, PTL DEF Spec

\* Type correctness of the loop of UringIo::run.
THEOREM TypeCorrect == Spec => []TypeOK
<1>1. IInv => TypeOK
  BY DEF IInv
<1> QED  BY Invariance, <1>1, PTL

\* UringIo::run never returns while the kernel may still use a buffer, for any
\* number of segments and any depth, with or without errors.
THEOREM ReturnsDrained == Spec => []NothingInFlight
<1>1. IInv => NothingInFlight
  BY SegsFinite, FS_EmptySet DEF IInv, Drained, Counted, NothingInFlight
<1> QED  BY Invariance, <1>1, PTL

\* UringIo::run returns Ok only after every byte was transferred or zero-filled.
THEOREM OkIsComplete == Spec => []OkMeansAll
<1>1. ASSUME IInv, pc = "done", ~error, NEW i \in Segs
      PROVE  moved[i] = Size[i] \/ (isRead /\ st[i] = "eof")
  <2>1. Outstanding = {}
    BY <1>1, SegsFinite, FS_EmptySet DEF IInv, Drained, Counted
  <2>2. st[i] # "todo"
    BY <1>1, UringAssumption DEF IInv, Drained, Unsubmitted, Segs, TypeOK
  <2>3. st[i] \in {"done", "eof"}
    BY <1>1, <2>1, <2>2 DEF IInv, TypeOK, Status, Outstanding
  <2> QED  BY <1>1, <2>3 DEF IInv, Accounted
<1>2. IInv => OkMeansAll
  BY <1>1 DEF OkMeansAll
<1> QED  BY Invariance, <1>2, PTL

\* A request of UringIo::run covers exactly what is left of its segment.
THEOREM NoByteTwice == Spec => []NeverTwice
<1>1. IInv => NeverTwice
  BY DEF IInv, Accounted, NeverTwice
<1> QED  BY Invariance, <1>1, PTL

\* The submission queue of UringIo always has room for the next push.
THEOREM PushFits == Spec => []SqHasRoom
<1>1. ASSUME IInv PROVE SqHasRoom
  <2>1. In("sq") \subseteq Outstanding
    BY DEF In, Outstanding
  <2>2. IsFiniteSet(In("sq")) /\ Cardinality(In("sq")) <= Cardinality(Outstanding)
    BY <2>1, SegsFinite, FS_Subset
  <2>3. Cardinality(In("sq")) \in Nat /\ Cardinality(Outstanding) \in Nat
    BY <2>2, SegsFinite, FS_CardinalityType
  <2> QED  BY <1>1, <2>2, <2>3, UringAssumption DEF IInv, Counted, SqHasRoom
<1> QED  BY Invariance, <1>1, PTL

\* After an error UringIo::run only drains: nothing enters the submission queue.
THEOREM ErrorDrains == Spec => DrainAfterError
<1>1. ASSUME IInv, [Next]_vars, error PROVE In("sq")' \subseteq In("sq")
  <2> USE DEF IInv, TypeOK, In
  <2>1. CASE Fill \/ FillEnd \/ Wait \/ BatchEnd
    BY <1>1, <2>1 DEF Fill, FillReady, FillEnd, Wait, BatchEnd
  <2>2. CASE Collect \/ (\E S \in SUBSET Segs : Submit(S))
    BY <2>2 DEF Collect, Submit
  <2>3. CASE \E i \in Segs : Process(i)
    BY <1>1, <2>3 DEF Process, Failed, Whole, EndOfFile, WriteZero, Resubmit, Finish
  <2>4. CASE Kernel
    BY <2>4 DEF Kernel, Complete
  <2>5. CASE UNCHANGED vars
    BY <2>5 DEF vars
  <2> QED  BY <1>1, <2>1, <2>2, <2>3, <2>4, <2>5 DEF Next, Run
<1>2. IInv /\ [Next]_vars => [error => In("sq")' \subseteq In("sq")]_vars
  BY <1>1
<1> QED  BY Invariance, <1>2, PTL DEF Spec, DrainAfterError
=============================================================================
