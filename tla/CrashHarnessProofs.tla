------------------------- MODULE CrashHarnessProofs -------------------------
(***************************************************************************)
(* Proofs about the kill test, for every sync interval, base, set of       *)
(* numbers and number of inserts.                                          *)
(***************************************************************************)
EXTENDS CrashHarness, DataInduction, FiniteSetTheorems

\* The number of a record, or what a line that ends early has of it.
Numbers == Nat \union {i \div (Base ^ d) : i \in Nat, d \in Nat}

Lines == [what : {"op", "C", "other"}, key : Nat, id : Numbers]

\* The heap shows the record of the line; it shows it after every crash.
Stored(v, l) == l.id \in Ids /\ v[l.id] = l.key + 1
Safe(a, l) == l.id \in Ids /\ a[l.id] = {l.key + 1}

\* c[n] of the first n lines of L are records, whose keys are 0, 1 and so on.
Counts(L, c) ==
    /\ L \in Seq(Lines) /\ c \in [0 .. Len(L) -> Nat] /\ c[0] = 0
    /\ \A n \in 1 .. Len(L) : /\ L[n].what = "op" => L[n].key = c[n - 1] /\ c[n] = c[n - 1] + 1
                              /\ L[n].what # "op" => c[n] = c[n - 1]

\* What is before a confirmation is committed.
Confirmed(a, L) ==
    \A n \in 1 .. Len(L) : L[n].what = "C" =>
        \A m \in 1 .. n - 1 : L[m].what = "op" => Safe(a, L[m])

\* The lines of the child, written out or not.
Full == log \o pending

\* The records whose lines are written out.
Written == IF cpc = "write" THEN key - policy ELSE key - (key % policy)

\* While the child runs: its lines are those of the records it inserted, and all but
\* those of the current interval are written out.
ChildInv ==
    cpc \in {"insert", "commit", "line", "write"} =>
        /\ view \in [Ids -> Outcomes] /\ allowed \in [Ids -> SUBSET Outcomes]
        /\ \A i \in Ids : view[i] \in allowed[i]
        /\ log \in Seq(Lines) /\ pending \in Seq(Lines)
        /\ \A n \in 1 .. Len(pending) : pending[n].what # "other"
        /\ \E c : /\ Counts(Full, c) /\ c[Len(Full)] = key
                  /\ c[Len(log)] = Written
        /\ Confirmed(allowed, Full)
        /\ log # <<>> => log[Len(log)].what = "C"
        /\ cpc = "write" => /\ key % policy = 0 /\ pending # <<>>
                            /\ pending[Len(pending)].what = "C"
        /\ \A n \in 1 .. Len(Full) : Full[n].what = "op" => Stored(view, Full[n])
        /\ cpc \in {"commit", "line"} => id \in Ids /\ view[id] = key + 1 /\ key < MaxKeys
        /\ cpc = "line" /\ Due => /\ allowed[id] = {key + 1}
                                  /\ \A n \in 1 .. Len(Full) : Full[n].what = "op" => Safe(allowed, Full[n])
        /\ confirmed = <<>> /\ tail = <<>>

\* The lines that were confirmed have the keys from 0 on.
KeysInOrder == confirmed \in Seq(Lines) /\ \A n \in 1 .. Len(confirmed) : confirmed[n].key = n - 1

\* While the parent parses: of the first p lines of the log the records are confirmed or in
\* the tail, and the line b is the last confirmation the child wrote out as a whole.
ParsedUpTo(c, b, p) ==
    /\ Counts(log, c)
    /\ b \in 0 .. Len(log) /\ (b # 0 => log[b].what = "C") /\ key - policy <= c[b]
    /\ p \in 0 .. Len(log) /\ toRead = SubSeq(log, p + 1, Len(log))
    /\ Len(confirmed) + Len(tail) = c[p]
    /\ p >= b => Len(confirmed) >= c[b]
    /\ \A n \in 1 .. Len(tail) : /\ tail[n].key = Len(confirmed) + n - 1
                                 /\ \E m \in 1 .. p : log[m].what = "op" /\ tail[n] = log[m]

ParseInv ==
    cpc = "parse" =>
        /\ allowed \in [Ids -> SUBSET Outcomes]
        /\ tail \in Seq(Lines) /\ Confirmed(allowed, log) /\ KeysInOrder
        /\ \A n \in 1 .. Len(confirmed) : Safe(allowed, confirmed[n])
        /\ \E c, b, p : ParsedUpTo(c, b, p)

\* While the parent reads: what was confirmed is there.
ReadInv ==
    cpc \in {"read", "report"} =>
        /\ KeysInOrder /\ key - Len(confirmed) <= policy
        /\ \A n \in 1 .. Len(confirmed) : Stored(view, confirmed[n])
        /\ cpc = "report" => lost = 0 /\ corrupted = 0

HarnessInv ==
    /\ policy \in Nat \ {0} /\ key \in Nat
    /\ cpc \in {"insert", "commit", "line", "write", "parse", "read", "report"}
    /\ ChildInv /\ ParseInv /\ ReadInv

-----------------------------------------------------------------------------
(* Lines. *)

\* A line more at the end of a sequence of lines.
LEMMA OneMore ==
    ASSUME NEW s \in Seq(Lines), NEW t \in Seq(Lines), NEW l \in Lines
    PROVE  s \o <<l>> = Append(s, l) /\ s \o Append(t, l) = Append(s \o t, l)
<1>1. s \o <<l>> \in Seq(Lines) /\ Append(s, l) \in Seq(Lines)
  OBVIOUS
<1>2. Len(s \o <<l>>) = Len(Append(s, l)) /\ \A n \in 1 .. Len(s) + 1 : (s \o <<l>>)[n] = Append(s, l)[n]
  OBVIOUS
<1>3. s \o <<l>> = Append(s, l)
  BY <1>1, <1>2
<1>4. s \o Append(t, l) = Append(s \o t, l)
  OBVIOUS
<1> QED  BY <1>3, <1>4

\* One line more.
LEMMA CountMore ==
    ASSUME NEW L, NEW c, Counts(L, c), NEW l \in Lines, l.what = "op" => l.key = c[Len(L)]
    PROVE  \E e : /\ Counts(Append(L, l), e) /\ \A n \in 0 .. Len(L) : e[n] = c[n]
                  /\ e[Len(L) + 1] = c[Len(L)] + (IF l.what = "op" THEN 1 ELSE 0)
<1> DEFINE k == Len(L)
           M == Append(L, l)
           last == c[k] + (IF l.what = "op" THEN 1 ELSE 0)
           e == [n \in 0 .. k + 1 |-> IF n <= k THEN c[n] ELSE last]
<1>1. L \in Seq(Lines) /\ k \in Nat /\ c \in [0 .. k -> Nat] /\ c[0] = 0
  BY DEF Counts
<1>2. /\ M \in Seq(Lines) /\ Len(M) = k + 1 /\ M[k + 1] = l /\ \A n \in 1 .. k : M[n] = L[n]
  BY <1>1
<1> HIDE DEF M
<1>3. c[k] \in Nat /\ last \in Nat
  BY <1>1
<1>4. /\ e \in [0 .. k + 1 -> Nat] /\ \A n \in 0 .. k : e[n] = c[n]
  BY <1>1, <1>3
<1>5. e[k + 1] = last
  BY <1>1
<1> HIDE DEF e
<1>6. ASSUME NEW n \in 1 .. k + 1
      PROVE  /\ M[n].what = "op" => M[n].key = e[n - 1] /\ e[n] = e[n - 1] + 1
             /\ M[n].what # "op" => e[n] = e[n - 1]
  <2>1. CASE n = k + 1
    <3>1. e[n - 1] = c[k] /\ M[n] = l /\ e[n] = last
      BY <1>1, <1>2, <1>4, <1>5, <2>1
    <3> QED  BY <1>3, <3>1
  <2>2. CASE n # k + 1
    <3>1. n \in 1 .. k /\ n - 1 \in 0 .. k /\ n \in 0 .. k
      BY <1>1, <2>2
    <3>2. M[n] = L[n] /\ e[n] = c[n] /\ e[n - 1] = c[n - 1]
      BY <1>2, <1>4, <3>1
    <3> QED  BY <3>1, <3>2 DEF Counts
  <2> QED  BY <2>1, <2>2
<1>7. e[0] = 0
  BY <1>1, <1>4
<1>8. Counts(M, e)
  BY <1>2, <1>4, <1>6, <1>7 DEF Counts
<1> QED  BY <1>4, <1>5, <1>8 DEF M

\* The first lines of a log.
LEMMA CountFirst ==
    ASSUME NEW L, NEW c, Counts(L, c), NEW k \in 0 .. Len(L)
    PROVE  Counts(SubSeq(L, 1, k), [n \in 0 .. k |-> c[n]])
<1> DEFINE M == SubSeq(L, 1, k)
           e == [n \in 0 .. k |-> c[n]]
<1>1. L \in Seq(Lines) /\ k \in Nat /\ c \in [0 .. Len(L) -> Nat] /\ c[0] = 0 /\ k <= Len(L)
  BY DEF Counts
<1>2. M \in Seq(Lines) /\ Len(M) = k /\ \A n \in 1 .. k : M[n] = L[n]
  BY <1>1
<1>3. e \in [0 .. k -> Nat] /\ \A n \in 0 .. k : e[n] = c[n]
  BY <1>1
<1> HIDE DEF M, e
<1>4. ASSUME NEW n \in 1 .. k
      PROVE  /\ M[n].what = "op" => M[n].key = e[n - 1] /\ e[n] = e[n - 1] + 1
             /\ M[n].what # "op" => e[n] = e[n - 1]
  <2>1. n \in 1 .. Len(L) /\ n - 1 \in 0 .. k /\ n \in 0 .. k
    BY <1>1
  <2>2. M[n] = L[n] /\ e[n] = c[n] /\ e[n - 1] = c[n - 1]
    BY <1>2, <1>3, <2>1
  <2> QED  BY <2>1, <2>2 DEF Counts
<1>5. e[0] = 0
  BY <1>1, <1>3
<1>6. Counts(M, e)
  BY <1>2, <1>3, <1>4, <1>5 DEF Counts
<1> QED  BY <1>6 DEF M, e

\* A remainder is the greatest one when the next is 0.
LEMMA LastRemainder ==
    ASSUME NEW n \in Nat \ {0}, NEW s \in Nat, (s + 1) % n = 0
    PROVE  s % n = n - 1
<1> DEFINE q == s \div n
           r == s % n
<1>1. q \in Nat /\ r \in Nat /\ r < n /\ s = n * q + r
  OBVIOUS
<1> HIDE DEF q, r
<1>2. CASE r + 1 < n
  <2>1. s + 1 = n * q + (r + 1) /\ r + 1 \in 0 .. n - 1
    BY <1>1, <1>2
  <2>2. (n * q + (r + 1)) % n = r + 1
    BY <1>1, <2>1
  <2> QED  BY <1>1, <2>1, <2>2
<1> QED  BY <1>1, <1>2 DEF r

-----------------------------------------------------------------------------
(* The child. *)

\* insert takes a number that no line has.
LEMMA InsertKeeps ==
    ASSUME HarnessInv, Insert
    PROVE  HarnessInv'
<1>1. /\ cpc = "insert" /\ key < MaxKeys /\ id' \in Ids /\ allowed[id'] = {NotFound}
      /\ view' = [view EXCEPT ![id'] = key + 1]
      /\ allowed' = [allowed EXCEPT ![id'] = @ \union {key + 1}]
      /\ cpc' = IF (key + 1) % policy = 0 THEN "commit" ELSE "line"
      /\ UNCHANGED <<policy, key, pending, log, confirmed, tail>>
  BY DEF Insert, Heap!Write, parsed
<1>2. /\ view \in [Ids -> Outcomes] /\ allowed \in [Ids -> SUBSET Outcomes]
      /\ \A i \in Ids : view[i] \in allowed[i]
      /\ policy \in Nat \ {0} /\ key \in Nat
  BY <1>1 DEF HarnessInv, ChildInv
<1>3. key + 1 \in Outcomes /\ key + 1 # NotFound
  BY <1>1, <1>2, HarnessAssumption DEF Outcomes, NotFound
<1>4. /\ view' \in [Ids -> Outcomes] /\ allowed' \in [Ids -> SUBSET Outcomes]
      /\ \A i \in Ids : view'[i] \in allowed'[i]
  BY <1>1, <1>2, <1>3
<1>5. Full' = Full
  BY <1>1 DEF Full
<1>6. ASSUME NEW n \in 1 .. Len(Full), Full[n].what = "op"
      PROVE  /\ Stored(view, Full[n]) /\ Full[n].id # id' /\ view'[Full[n].id] = view[Full[n].id]
             /\ allowed'[Full[n].id] = allowed[Full[n].id]
  <2>1. Stored(view, Full[n]) /\ Full[n] \in Lines
    BY <1>1, <1>6 DEF HarnessInv, ChildInv, Counts
  <2>2. Full[n].id # id'
    <3>1. Full[n].key + 1 # NotFound
      BY <2>1 DEF Lines, NotFound
    <3> QED  BY <1>1, <1>2, <2>1, <3>1 DEF Stored
  <2> QED  BY <1>1, <1>2, <2>1, <2>2 DEF Stored
<1>7. Confirmed(allowed', Full')
  <2> SUFFICES ASSUME NEW n \in 1 .. Len(Full), Full[n].what = "C",
                      NEW m \in 1 .. n - 1, Full[m].what = "op"
               PROVE  Safe(allowed', Full[m])
    BY <1>5 DEF Confirmed
  <2>1. Full \in Seq(Lines)
    BY <1>1 DEF HarnessInv, ChildInv, Counts
  <2>2. m \in 1 .. Len(Full) /\ Safe(allowed, Full[m])
    BY <1>1, <2>1 DEF HarnessInv, ChildInv, Confirmed
  <2> QED  BY <1>5, <1>6, <2>2 DEF Safe
<1>8. \A n \in 1 .. Len(Full)' : Full'[n].what = "op" => Stored(view', Full[n])
  BY <1>5, <1>6 DEF Stored
<1>9. view'[id'] = key + 1
  BY <1>1, <1>2
<1>10. cpc' = "line" => ~Due'
  BY <1>1 DEF Due
<1>11. cpc' \in {"commit", "line"}
  BY <1>1
<1>12. /\ log \in Seq(Lines) /\ pending \in Seq(Lines) /\ confirmed = <<>> /\ tail = <<>>
       /\ \E c : /\ Counts(Full, c) /\ c[Len(Full)] = key /\ c[Len(log)] = Written
       /\ log # <<>> => log[Len(log)].what = "C"
       /\ \A n \in 1 .. Len(pending) : pending[n].what # "other"
  BY <1>1 DEF HarnessInv, ChildInv
<1>14. Written' = Written
  BY <1>1 DEF Written
<1>13. ChildInv'
  BY <1>1, <1>4, <1>5, <1>7, <1>8, <1>9, <1>10, <1>11, <1>12, <1>14 DEF ChildInv
<1> QED  BY <1>1, <1>2, <1>11, <1>13 DEF HarnessInv, ParseInv, ReadInv

\* The commit of the heap makes every line safe.
LEMMA CommitKeeps ==
    ASSUME HarnessInv, Commit
    PROVE  HarnessInv'
<1>1. /\ cpc = "commit" /\ cpc' = "line" /\ allowed' = [i \in Ids |-> {view[i]}]
      /\ UNCHANGED <<view, policy, key, id, pending, log, confirmed, tail>>
  BY DEF Commit, Heap!Commit, Heap!Only, child, parsed
<1>2. /\ view \in [Ids -> Outcomes] /\ id \in Ids /\ view[id] = key + 1 /\ key < MaxKeys
      /\ log \in Seq(Lines) /\ pending \in Seq(Lines) /\ confirmed = <<>> /\ tail = <<>>
      /\ \A n \in 1 .. Len(pending) : pending[n].what # "other"
      /\ \E c : /\ Counts(Full, c) /\ c[Len(Full)] = key /\ c[Len(log)] = Written
      /\ log # <<>> => log[Len(log)].what = "C"
      /\ \A n \in 1 .. Len(Full) : Full[n].what = "op" => Stored(view, Full[n])
  BY <1>1 DEF HarnessInv, ChildInv
<1>3. /\ allowed' \in [Ids -> SUBSET Outcomes] /\ \A i \in Ids : view[i] \in allowed'[i]
  BY <1>1, <1>2
<1>4. Full' = Full
  BY <1>1 DEF Full
<1>5. ASSUME NEW n \in 1 .. Len(Full), Full[n].what = "op" PROVE Stored(view', Full[n]) /\ Safe(allowed', Full[n])
  BY <1>1, <1>2, <1>4, <1>5 DEF Stored, Safe
<1>6. Confirmed(allowed', Full')
  <2>1. Full \in Seq(Lines)
    BY <1>2 DEF Counts
  <2> SUFFICES ASSUME NEW n \in 1 .. Len(Full), NEW m \in 1 .. n - 1, Full[m].what = "op"
               PROVE  Safe(allowed', Full[m])
    BY <1>4 DEF Confirmed
  <2>2. m \in 1 .. Len(Full)
    BY <2>1
  <2> QED  BY <1>5, <2>2
<1>7. allowed'[id] = {key + 1}
  BY <1>1, <1>2
<1>9. Written' = Written
  BY <1>1 DEF Written
<1>8. ChildInv'
  BY <1>1, <1>2, <1>3, <1>4, <1>5, <1>6, <1>7, <1>9 DEF ChildInv
<1> QED  BY <1>1, <1>8 DEF HarnessInv, ParseInv, ReadInv

\* The line of a record, and with the last of an interval the confirmation.
LEMMA PushKeeps ==
    ASSUME HarnessInv, PushLine
    PROVE  HarnessInv'
<1> DEFINE l == Line(key, id)
<1>1. /\ cpc = "line" /\ pending' = Append(pending, l) \o (IF Due THEN <<Confirm>> ELSE <<>>)
      /\ key' = key + 1 /\ cpc' = IF Due THEN "write" ELSE "insert"
      /\ UNCHANGED <<view, allowed, policy, id, log, confirmed, tail>>
  BY DEF PushLine, heap, parsed
<1>2. /\ view \in [Ids -> Outcomes] /\ allowed \in [Ids -> SUBSET Outcomes]
      /\ \A i \in Ids : view[i] \in allowed[i]
      /\ id \in Ids /\ view[id] = key + 1 /\ key < MaxKeys
      /\ log \in Seq(Lines) /\ pending \in Seq(Lines) /\ confirmed = <<>> /\ tail = <<>>
      /\ \A n \in 1 .. Len(pending) : pending[n].what # "other"
      /\ log # <<>> => log[Len(log)].what = "C"
      /\ \A n \in 1 .. Len(Full) : Full[n].what = "op" => Stored(view, Full[n])
      /\ Confirmed(allowed, Full)
      /\ Due => /\ allowed[id] = {key + 1}
                /\ \A n \in 1 .. Len(Full) : Full[n].what = "op" => Safe(allowed, Full[n])
      /\ policy \in Nat \ {0} /\ key \in Nat
  BY <1>1 DEF HarnessInv, ChildInv
<1>3. PICK c : /\ Counts(Full, c) /\ c[Len(Full)] = key /\ c[Len(log)] = Written
  BY <1>1 DEF HarnessInv, ChildInv
<1>4. /\ l \in Lines /\ l.what = "op" /\ l.key = key /\ l.id = id
      /\ Confirm \in Lines /\ Confirm.what = "C"
  BY <1>2, HarnessAssumption DEF Lines, Numbers, Line, Confirm
<1> HIDE DEF l
<1> DEFINE F == Append(Full, l)
<1>5. PICK e : /\ Counts(F, e) /\ \A n \in 0 .. Len(Full) : e[n] = c[n]
               /\ e[Len(Full) + 1] = key + 1
  BY <1>3, <1>4, CountMore
<1>6. /\ Full \in Seq(Lines) /\ F \in Seq(Lines) /\ Len(F) = Len(Full) + 1 /\ F[Len(F)] = l
      /\ Len(log) \in 0 .. Len(Full) /\ Len(Full) \in Nat
      /\ \A n \in 1 .. Len(Full) : F[n] = Full[n]
  BY <1>2, <1>4 DEF Full
<1>7. ASSUME NEW n \in 1 .. Len(F), F[n].what = "op"
      PROVE  Stored(view, F[n]) /\ (Due => Safe(allowed, F[n]))
  <2>1. CASE n = Len(F)
    BY <1>2, <1>4, <1>6, <2>1 DEF Stored, Safe
  <2>2. CASE n # Len(F)
    <3>1. n \in 1 .. Len(Full) /\ F[n] = Full[n]
      BY <1>6, <2>2
    <3> QED  BY <1>2, <1>7, <3>1
  <2> QED  BY <2>1, <2>2
<1>8. Confirmed(allowed, F)
  <2> SUFFICES ASSUME NEW n \in 1 .. Len(F), F[n].what = "C", NEW m \in 1 .. n - 1, F[m].what = "op"
               PROVE  Safe(allowed, F[m])
    BY DEF Confirmed
  <2>1. n # Len(F)
    BY <1>4, <1>6
  <2>2. n \in 1 .. Len(Full) /\ m \in 1 .. Len(Full) /\ F[n] = Full[n] /\ F[m] = Full[m]
    BY <1>6, <2>1
  <2> QED  BY <1>2, <2>2 DEF Confirmed
<1>9. CASE ~Due
  <2>1. pending' = Append(pending, l) /\ Full' = F
    <3>1. pending' = Append(pending, l)
      BY <1>1, <1>2, <1>4, <1>9
    <3>2. log \o Append(pending, l) = Append(log \o pending, l)
      BY <1>2, <1>4, OneMore
    <3>3. Full' = log \o pending'
      BY <1>1 DEF Full
    <3> QED  BY <3>1, <3>2, <3>3 DEF Full
  <2>2. pending' \in Seq(Lines) /\ \A n \in 1 .. Len(pending') : pending'[n].what # "other"
    BY <1>2, <1>4, <2>1
  <2>3. e[Len(log)] = Written' /\ e[Len(F)] = key'
    <3> DEFINE r == key % policy
               s == (key + 1) % policy
    <3>1. s = r + 1 /\ r \in Nat
      BY <1>2, <1>9, NextRemainder DEF Due
    <3>4. Written = key - (key % policy) /\ Written' = key' - (key' % policy')
      BY <1>1, <1>9 DEF Written
    <3>2. Written = key - r /\ Written' = key' - s
      BY <1>1, <3>4
    <3> HIDE DEF r, s
    <3>3. Written' = Written
      BY <1>1, <1>2, <3>1, <3>2
    <3> QED  BY <1>1, <1>3, <1>5, <1>6, <3>3
  <2> HIDE DEF F
  <2>4. \E f : Counts(F, f) /\ f[Len(F)] = key' /\ f[Len(log)] = Written'
    BY <1>5, <2>3
  <2>5. \A n \in 1 .. Len(F) : F[n].what = "op" => Stored(view', F[n])
    BY <1>1, <1>7 DEF Stored
  <2>6. Confirmed(allowed', Full')
    BY <1>1, <1>8, <2>1 DEF Confirmed, Safe
  <2>7. cpc' = "insert"
    BY <1>1, <1>9
  <2>8. ChildInv'
    BY <1>1, <1>2, <2>1, <2>2, <2>4, <2>5, <2>6, <2>7 DEF ChildInv
  <2> QED  BY <1>1, <1>2, <2>7, <2>8 DEF HarnessInv, ParseInv, ReadInv
<1>10. CASE Due
  <2> DEFINE G == Append(F, Confirm)
  <2>1. PICK f : /\ Counts(G, f) /\ \A n \in 0 .. Len(F) : f[n] = e[n] /\ f[Len(F) + 1] = e[Len(F)]
    <3>1. PICK f : /\ Counts(G, f) /\ \A n \in 0 .. Len(F) : f[n] = e[n]
                   /\ f[Len(F) + 1] = e[Len(F)] + 0
      <4> HIDE DEF F
      <4> QED  BY <1>4, <1>5, CountMore
    <3>2. e[Len(F)] \in Nat
      BY <1>2, <1>5, <1>6
    <3> QED  BY <3>1, <3>2
  <2>2. /\ G \in Seq(Lines) /\ Len(G) = Len(F) + 1 /\ G[Len(G)] = Confirm
        /\ \A n \in 1 .. Len(F) : G[n] = F[n]
    BY <1>4, <1>6
  <2>3. /\ pending' = Append(Append(pending, l), Confirm) /\ Full' = G
    <3>1. Append(pending, l) \in Seq(Lines)
      BY <1>2, <1>4
    <3>2. pending' = Append(Append(pending, l), Confirm)
      BY <1>1, <1>4, <1>10, <3>1, OneMore
    <3>3. log \o Append(pending, l) = F
      BY <1>2, <1>4, OneMore DEF Full
    <3>4. Full' = log \o pending'
      BY <1>1 DEF Full
    <3>5. log \o Append(Append(pending, l), Confirm) = Append(log \o Append(pending, l), Confirm)
      BY <1>2, <1>4, <3>1, OneMore
    <3> QED  BY <3>2, <3>3, <3>4, <3>5
  <2>4. /\ pending' \in Seq(Lines) /\ pending' # <<>> /\ pending'[Len(pending')] = Confirm
        /\ \A n \in 1 .. Len(pending') : pending'[n].what # "other"
    <3> DEFINE X == Append(pending, l)
    <3>1. X \in Seq(Lines) /\ \A n \in 1 .. Len(X) : X[n].what # "other"
      BY <1>2, <1>4
    <3>2. pending' = Append(X, Confirm)
      BY <2>3
    <3> HIDE DEF X
    <3> QED  BY <1>4, <3>1, <3>2
  <2>5. f[Len(log)] = Written' /\ f[Len(G)] = key' /\ key' % policy = 0
    <3>1. key % policy = policy - 1
      BY <1>2, <1>10, LastRemainder DEF Due
    <3>2. key' % policy = 0
      BY <1>1, <1>10 DEF Due
    <3>3. f[Len(log)] = c[Len(log)] /\ f[Len(G)] = key + 1
      BY <1>5, <1>6, <2>1, <2>2
    <3>6. cpc = "line" /\ cpc' = "write" /\ policy' = policy /\ key' = key + 1
      BY <1>1, <1>10
    <3>7. Written = key - (key % policy)
      BY <3>6 DEF Written
    <3>8. Written' = key' - policy
      BY <3>6 DEF Written
    <3> DEFINE r == key % policy
    <3>9. r = policy - 1 /\ Written = key - r
      BY <3>1, <3>7
    <3> HIDE DEF r
    <3>5. Written' = Written
      BY <1>2, <3>6, <3>8, <3>9
    <3> QED  BY <1>1, <1>3, <3>2, <3>3, <3>5
  <2> HIDE DEF F, G
  <2>6. \E g : Counts(G, g) /\ g[Len(G)] = key' /\ g[Len(log)] = Written'
    BY <2>1, <2>5
  <2>7. ASSUME NEW n \in 1 .. Len(G), G[n].what = "op" PROVE Stored(view, G[n]) /\ Safe(allowed, G[n])
    <3>1. n # Len(G)
      BY <1>4, <2>2, <2>7
    <3>2. n \in 1 .. Len(F) /\ G[n] = F[n]
      BY <1>6, <2>2, <3>1
    <3> QED  BY <1>7, <1>10, <2>7, <3>2
  <2>8. Confirmed(allowed', Full')
    <3> SUFFICES ASSUME NEW n \in 1 .. Len(G), NEW m \in 1 .. n - 1, G[m].what = "op"
                 PROVE  Safe(allowed, G[m])
      BY <1>1, <2>3 DEF Confirmed, Safe
    <3>1. m \in 1 .. Len(G)
      BY <1>6, <2>2
    <3> QED  BY <2>7, <3>1
  <2>9. \A n \in 1 .. Len(G) : G[n].what = "op" => Stored(view', G[n])
    BY <1>1, <2>7 DEF Stored
  <2>10. cpc' = "write" /\ Confirm.what = "C"
    BY <1>1, <1>4, <1>10
  <2>11. ChildInv'
    BY <1>1, <1>2, <2>3, <2>4, <2>5, <2>6, <2>8, <2>9, <2>10 DEF ChildInv
  <2> QED  BY <1>1, <1>2, <2>10, <2>11 DEF HarnessInv, ParseInv, ReadInv
<1> QED  BY <1>9, <1>10

\* The lines are written out: they end with a confirmation.
LEMMA WriteKeeps ==
    ASSUME HarnessInv, WriteLog
    PROVE  HarnessInv'
<1>1. /\ cpc = "write" /\ log' = log \o pending /\ pending' = <<>> /\ cpc' = "insert"
      /\ UNCHANGED <<view, allowed, policy, key, confirmed, tail>>
  BY DEF WriteLog, heap, parsed
<1>2. /\ view \in [Ids -> Outcomes] /\ allowed \in [Ids -> SUBSET Outcomes]
      /\ \A i \in Ids : view[i] \in allowed[i]
      /\ log \in Seq(Lines) /\ pending \in Seq(Lines) /\ confirmed = <<>> /\ tail = <<>>
      /\ Confirmed(allowed, Full)
      /\ key % policy = 0 /\ pending # <<>> /\ pending[Len(pending)].what = "C"
      /\ \A n \in 1 .. Len(Full) : Full[n].what = "op" => Stored(view, Full[n])
      /\ policy \in Nat \ {0} /\ key \in Nat
  BY <1>1 DEF HarnessInv, ChildInv
<1>3. PICK c : Counts(Full, c) /\ c[Len(Full)] = key
  BY <1>1 DEF HarnessInv, ChildInv
<1>4. /\ log' = Full /\ Full \in Seq(Lines) /\ Full[Len(Full)].what = "C"
  BY <1>1, <1>2 DEF Full
<1>5. Full' = Full
  <2>1. Full' = log' \o pending'
    BY DEF Full
  <2> QED  BY <1>1, <1>4, <2>1
<1>6. Written' = key
  <2>1. Written' = key - (key % policy)
    BY <1>1 DEF Written
  <2> QED  BY <1>2, <2>1
<1>7. \E e : Counts(Full', e) /\ e[Len(Full)] = key /\ e[Len(log')] = Written'
  BY <1>3, <1>4, <1>5, <1>6
<1>8. Confirmed(allowed', Full')
  BY <1>1, <1>2, <1>5 DEF Confirmed, Safe
<1>9. \A n \in 1 .. Len(Full) : Full[n].what = "op" => Stored(view', Full[n])
  BY <1>1, <1>2 DEF Stored
<1>10. ChildInv'
  BY <1>1, <1>2, <1>4, <1>5, <1>7, <1>8, <1>9 DEF ChildInv
<1> QED  BY <1>1, <1>2, <1>10 DEF HarnessInv, ParseInv, ReadInv

-----------------------------------------------------------------------------
(* The parent. *)

\* What is left of the lines: the first k, and of the next perhaps a part.
Left(L, F, k) ==
    \/ L = SubSeq(F, 1, k)
    \/ /\ k < Len(F)
       /\ \E l \in Lines : /\ L = Append(SubSeq(F, 1, k), l)
                           /\ l.what = "op" => F[k + 1].what = "op" /\ l.key = F[k + 1].key
                           /\ l.what = "C" => F[k + 1].what = "C"

\* What a line that ends early says.
LEMMA CutLine ==
    ASSUME NEW x \in Lines, x.what # "other", x.what = "op" => x.id \in Nat, NEW l \in Cut(x)
    PROVE  /\ l \in Lines /\ (l.what = "op" => x.what = "op" /\ l.key = x.key)
           /\ l.what = "C" => x.what = "C"
<1>1. Noise \in Lines /\ Noise.what = "other" /\ Confirm \in Lines /\ Confirm.what = "C"
  BY DEF Noise, Confirm, Lines, Numbers
<1>2. CASE l = Noise
  BY <1>1, <1>2
<1>3. CASE l # Noise /\ x.what = "C"
  BY <1>1, <1>3 DEF Cut
<1>4. CASE l # Noise /\ x.what # "C"
  <2>1. x.what = "op" /\ x.id \in Nat /\ x.key \in Nat
    BY <1>4 DEF Lines
  <2>2. PICK d \in 0 .. x.id : l = Line(x.key, x.id \div (Base ^ d))
    BY <1>4 DEF Cut
  <2>3. d \in Nat
    BY <2>1, <2>2
  <2>4. x.id \div (Base ^ d) \in Numbers
    BY <2>1, <2>3 DEF Numbers
  <2> QED  BY <2>1, <2>2, <2>4 DEF Line, Lines
<1> QED  BY <1>2, <1>3, <1>4

\* The first n lines that wait, after those that are written.
LEMMA FirstLines ==
    ASSUME NEW s \in Seq(Lines), NEW t \in Seq(Lines), NEW n \in 0 .. Len(t)
    PROVE  s \o SubSeq(t, 1, n) = SubSeq(s \o t, 1, Len(s) + n)
<1> DEFINE A == s \o SubSeq(t, 1, n)
           B == SubSeq(s \o t, 1, Len(s) + n)
<1>1. A \in Seq(Lines) /\ B \in Seq(Lines) /\ Len(A) = Len(s) + n /\ Len(B) = Len(s) + n
  OBVIOUS
<1>2. ASSUME NEW m \in 1 .. Len(s) + n PROVE A[m] = B[m]
  <2>1. B[m] = (s \o t)[m]
    OBVIOUS
  <2>2. CASE m <= Len(s)
    BY <2>1, <2>2
  <2>3. CASE m > Len(s)
    <3>1. m - Len(s) \in 1 .. n /\ A[m] = SubSeq(t, 1, n)[m - Len(s)] /\ B[m] = t[m - Len(s)]
      BY <2>1, <2>3
    <3> QED  BY <3>1
  <2> QED  BY <2>2, <2>3
<1> HIDE DEF A, B
<1>3. A = B
  BY <1>1, <1>2
<1> QED  BY <1>3 DEF A, B

\* The log when the child dies.
LEMMA TornIsLeft ==
    ASSUME HarnessInv, cpc \in {"insert", "commit", "line", "write"}, NEW L \in TornLog
    PROVE  \E k \in Len(log) .. Len(Full) : Left(L, Full, k)
<1>1. /\ log \in Seq(Lines) /\ pending \in Seq(Lines)
      /\ \A n \in 1 .. Len(pending) : pending[n].what # "other"
      /\ \A n \in 1 .. Len(Full) : Full[n].what = "op" => Stored(view, Full[n])
  BY DEF HarnessInv, ChildInv
<1>2. /\ Full \in Seq(Lines) /\ Len(Full) = Len(log) + Len(pending)
      /\ \A n \in 1 .. Len(pending) : Full[Len(log) + n] = pending[n]
      /\ Len(log) \in Nat /\ Len(pending) \in Nat
  BY <1>1 DEF Full
<1>3. ASSUME NEW n \in 0 .. Len(pending) PROVE log \o SubSeq(pending, 1, n) = SubSeq(Full, 1, Len(log) + n)
  BY <1>1, FirstLines DEF Full
<1>4. CASE cpc # "write"
  <2>1. L = log
    BY <1>4 DEF TornLog
  <2>2. log = SubSeq(Full, 1, Len(log))
    <3>1. log \o SubSeq(pending, 1, 0) = log
      BY <1>1
    <3> QED  BY <1>2, <1>3, <3>1
  <2>3. Len(log) \in Len(log) .. Len(Full)
    BY <1>2
  <2>4. L = SubSeq(Full, 1, Len(log))
    BY <2>1, <2>2
  <2>5. Left(L, Full, Len(log))
    BY <2>4, Zenon DEF Left
  <2> QED  BY <2>3, <2>5
<1>5. CASE \E n \in 0 .. Len(pending) : L = log \o SubSeq(pending, 1, n)
  <2>1. PICK n \in 0 .. Len(pending) : L = log \o SubSeq(pending, 1, n)
    BY <1>5
  <2>2. Len(log) + n \in Len(log) .. Len(Full)
    BY <1>2
  <2> QED  BY <1>3, <2>1, <2>2 DEF Left
<1>6. CASE \E n \in 1 .. Len(pending) : \E l \in Cut(pending[n]) : L = log \o SubSeq(pending, 1, n - 1) \o <<l>>
  <2>9. PICK n \in 1 .. Len(pending) : \E l \in Cut(pending[n]) : L = log \o SubSeq(pending, 1, n - 1) \o <<l>>
    BY <1>6
  <2>1. PICK l \in Cut(pending[n]) : L = log \o SubSeq(pending, 1, n - 1) \o <<l>>
    BY <2>9
  <2> DEFINE k == Len(log) + (n - 1)
  <2>2. k \in Len(log) .. Len(Full) /\ k < Len(Full) /\ Full[k + 1] = pending[n] /\ k + 1 \in 1 .. Len(Full) /\ n - 1 \in 0 .. Len(pending)
    BY <1>2
  <2>3. pending[n] \in Lines /\ pending[n].what # "other"
    BY <1>1
  <2>4. pending[n].what = "op" => pending[n].id \in Nat
    BY <1>1, <2>2, HarnessAssumption DEF Stored
  <2>5. /\ l \in Lines /\ (l.what = "op" => pending[n].what = "op" /\ l.key = pending[n].key)
        /\ l.what = "C" => pending[n].what = "C"
    BY <2>3, <2>4, CutLine
  <2>6. log \o SubSeq(pending, 1, n - 1) = SubSeq(Full, 1, k)
    BY <1>3, <2>2
  <2> HIDE DEF k
  <2>7. SubSeq(Full, 1, k) \in Seq(Lines)
    BY <1>2, <2>2
  <2>8. L = Append(SubSeq(Full, 1, k), l)
    BY <2>1, <2>5, <2>6, <2>7, OneMore
  <2> QED  BY <2>2, <2>5, <2>8 DEF Left
<1>7. cpc = "write" => L \in {log \o SubSeq(pending, 1, n) : n \in 0 .. Len(pending)} \union
         UNION {{log \o SubSeq(pending, 1, n - 1) \o <<l>> : l \in Cut(pending[n])} : n \in DOMAIN pending}
  BY DEF TornLog
<1>8. DOMAIN pending = 1 .. Len(pending)
  BY <1>1
<1> QED  BY <1>4, <1>5, <1>6, <1>7, <1>8

\* What is left of the lines counts as they did, up to what was written before.
LEMMA LeftCounts ==
    ASSUME NEW F, NEW c, Counts(F, c), NEW a, Confirmed(a, F), NEW k \in 0 .. Len(F),
           NEW L, Left(L, F, k)
    PROVE  /\ L \in Seq(Lines) /\ k <= Len(L) /\ Confirmed(a, L)
           /\ \A n \in 1 .. k : L[n] = F[n]
           /\ \E e : Counts(L, e) /\ \A n \in 0 .. k : e[n] = c[n]
<1> DEFINE M == SubSeq(F, 1, k)
           d == [n \in 0 .. k |-> c[n]]
<1>1. F \in Seq(Lines) /\ k \in Nat /\ Len(F) \in Nat /\ k <= Len(F)
  BY DEF Counts
<1>2. M \in Seq(Lines) /\ Len(M) = k /\ \A n \in 1 .. k : M[n] = F[n]
  BY <1>1
<1>3. Counts(M, d)
  BY CountFirst
<1>4. \A n \in 0 .. k : d[n] = c[n]
  OBVIOUS
<1> HIDE DEF M, d
<1>5. ASSUME L \in Seq(Lines), Len(L) <= k + 1, \A n \in 1 .. k : n <= Len(L) => L[n] = F[n],
             k < Len(L) => k < Len(F) /\ (L[k + 1].what = "C" => F[k + 1].what = "C")
      PROVE  Confirmed(a, L)
  <2> SUFFICES ASSUME NEW n \in 1 .. Len(L), L[n].what = "C", NEW m \in 1 .. n - 1, L[m].what = "op"
               PROVE  Safe(a, L[m])
    BY DEF Confirmed
  <2>1. m \in 1 .. k /\ m <= Len(L) /\ n \in 1 .. Len(F) /\ L[m] = F[m] /\ F[n].what = "C"
    <3>1. CASE n <= k
      BY <1>1, <1>5, <3>1
    <3>2. CASE n > k
      <4>1. n = k + 1
        BY <1>1, <1>5, <3>2
      <4> QED  BY <1>1, <1>5, <4>1
    <3> QED  BY <1>1, <3>1, <3>2
  <2> QED  BY <2>1 DEF Confirmed
<1>6. CASE L = M
  BY <1>1, <1>2, <1>3, <1>4, <1>5, <1>6
<1>7. CASE /\ k < Len(F)
           /\ \E l \in Lines : /\ L = Append(M, l)
                               /\ l.what = "op" => F[k + 1].what = "op" /\ l.key = F[k + 1].key
                               /\ l.what = "C" => F[k + 1].what = "C"
  <2>1. PICK l \in Lines : /\ L = Append(M, l)
                           /\ l.what = "op" => F[k + 1].what = "op" /\ l.key = F[k + 1].key
                           /\ l.what = "C" => F[k + 1].what = "C"
    BY <1>7
  <2>2. /\ L \in Seq(Lines) /\ Len(L) = k + 1 /\ L[k + 1] = l /\ \A n \in 1 .. k : L[n] = F[n]
    BY <1>1, <1>2, <2>1
  <2>3. l.what = "op" => l.key = d[Len(M)]
    <3>1. k + 1 \in 1 .. Len(F) /\ (k + 1) - 1 = k
      BY <1>1, <1>7
    <3>2. F[k + 1].what = "op" => F[k + 1].key = c[k]
      BY <3>1 DEF Counts
    <3> QED  BY <1>1, <1>2, <1>4, <2>1, <3>2
  <2>4. PICK e : Counts(L, e) /\ \A n \in 0 .. Len(M) : e[n] = d[n]
    BY <1>3, <2>1, <2>3, CountMore
  <2>5. Confirmed(a, L)
    BY <1>1, <1>5, <1>7, <2>1, <2>2
  <2> QED  BY <1>1, <1>2, <1>4, <2>2, <2>4, <2>5
<1> QED  BY <1>6, <1>7 DEF Left, M

\* The kill: of the lines of the child some are left, among them those already written.
LEMMA KillKeeps ==
    ASSUME HarnessInv, Kill
    PROVE  HarnessInv'
<1>1. /\ cpc \in {"insert", "commit", "line", "write"} /\ cpc' = "parse" /\ toRead' = log' /\ log' \in TornLog
      /\ UNCHANGED <<allowed, policy, key, confirmed, tail>>
  BY DEF Kill, Heap!Stop, child, parsed
<1>2. /\ allowed \in [Ids -> SUBSET Outcomes] /\ confirmed = <<>> /\ tail = <<>>
      /\ log \in Seq(Lines) /\ pending \in Seq(Lines) /\ Confirmed(allowed, Full)
      /\ log # <<>> => log[Len(log)].what = "C"
      /\ cpc = "write" => key % policy = 0
      /\ policy \in Nat \ {0} /\ key \in Nat
  BY <1>1 DEF HarnessInv, ChildInv
<1>3. PICK c : Counts(Full, c) /\ c[Len(log)] = Written
  BY <1>1 DEF HarnessInv, ChildInv
<1>4. PICK k \in Len(log) .. Len(Full) : Left(log', Full, k)
  BY <1>1, TornIsLeft
<1>5. /\ Full \in Seq(Lines) /\ Len(log) \in Nat /\ Len(Full) \in Nat /\ k \in 0 .. Len(Full)
      /\ Len(log) \in 0 .. k /\ \A n \in 1 .. Len(log) : Full[n] = log[n]
  BY <1>2, <1>4 DEF Full
<1>6. /\ log' \in Seq(Lines) /\ k <= Len(log') /\ Confirmed(allowed, log')
      /\ \A n \in 1 .. k : log'[n] = Full[n]
  BY <1>2, <1>3, <1>4, <1>5, LeftCounts
<1>7. PICK e : Counts(log', e) /\ \A n \in 0 .. k : e[n] = c[n]
  BY <1>2, <1>3, <1>4, <1>5, LeftCounts
<1>8. key - policy <= Written
  <2> DEFINE r == key % policy
  <2>1. r \in Nat /\ r < policy
    BY <1>2
  <2>2. Written = key - policy \/ Written = key - r
    BY DEF Written
  <2> HIDE DEF r
  <2> QED  BY <1>2, <2>1, <2>2
<1>13. PICK b \in Nat : b = Len(log)
  BY <1>5
<1>9. b \in 0 .. Len(log') /\ key - policy <= e[b] /\ (b # 0 => log'[b].what = "C") /\ e[0] = 0
  <2>1. b \in 0 .. Len(log') /\ e[b] = Written
    BY <1>3, <1>5, <1>6, <1>7, <1>13
  <2>2. ASSUME b # 0 PROVE log'[b].what = "C"
    BY <1>2, <1>5, <1>6, <1>13, <2>2
  <2> QED  BY <1>7, <1>8, <2>1, <2>2 DEF Counts
<1>10. toRead' = SubSeq(log', 0 + 1, Len(log'))
  BY <1>1, <1>6
<1>11. Len(confirmed') = 0 /\ Len(tail') = 0 /\ tail' \in Seq(Lines) /\ confirmed' \in Seq(Lines)
  BY <1>1, <1>2
<1>12. ParsedUpTo(e, b, 0)'
  BY <1>1, <1>7, <1>9, <1>10, <1>11 DEF ParsedUpTo
<1>14. ParseInv'
  BY <1>1, <1>2, <1>6, <1>11, <1>12 DEF ParseInv, KeysInOrder
<1> QED  BY <1>1, <1>2, <1>14 DEF HarnessInv, ChildInv, ReadInv

\* The lines after the first.
LEMMA TailOf ==
    ASSUME NEW t \in Seq(Lines), t # <<>>
    PROVE  /\ Head(t) = t[1] /\ Tail(t) \in Seq(Lines) /\ Len(Tail(t)) = Len(t) - 1
           /\ \A n \in 1 .. Len(t) - 1 : Tail(t)[n] = t[n + 1]
  OBVIOUS

\* Some line is there.
LEMMA SomeLine == ASSUME NEW t \in Seq(Lines), Len(t) > 0 PROVE t # <<>>
  OBVIOUS

\* Sequences of lines that agree at each place.
LEMMA SameLines ==
    ASSUME NEW s \in Seq(Lines), NEW t \in Seq(Lines), NEW k \in Nat, Len(s) = k, Len(t) = k,
           \A n \in 1 .. k : s[n] = t[n]
    PROVE  s = t
  OBVIOUS

\* What is left to read of a log after its first p lines.
LEMMA RestOf ==
    ASSUME NEW s \in Seq(Lines), NEW p \in 0 .. Len(s), NEW t, t = SubSeq(s, p + 1, Len(s))
    PROVE  /\ t = <<>> => p = Len(s)
           /\ t # <<>> => /\ p + 1 \in 1 .. Len(s) /\ Head(t) = s[p + 1]
                         /\ Tail(t) = SubSeq(s, p + 1 + 1, Len(s))
<1> DEFINE k == Len(s)
<1>1. k \in Nat /\ p \in Nat /\ p <= k /\ k = Len(s)
  OBVIOUS
<1>2. t \in Seq(Lines) /\ Len(t) = k - p /\ \A n \in 1 .. k - p : t[n] = s[p + n]
  OBVIOUS
<1>3. CASE p = k
  BY <1>1, <1>2, <1>3
<1>4. CASE p < k
  <2> DEFINE u == SubSeq(s, p + 1 + 1, Len(s))
  <2>1. u \in Seq(Lines) /\ Len(u) = k - p - 1 /\ \A n \in 1 .. k - p - 1 : u[n] = s[p + 1 + n]
    BY <1>1, <1>4
  <2>2. Tail(t) \in Seq(Lines) /\ Len(Tail(t)) = k - p - 1 /\ \A n \in 1 .. k - p - 1 : Tail(t)[n] = t[n + 1]
    <3>2. Len(t) > 0
      BY <1>1, <1>2, <1>4
    <3>1. t # <<>>
      BY <1>2, <3>2, SomeLine
    <3> QED  BY <1>2, <3>1, TailOf
  <2>3. \A n \in 1 .. k - p - 1 : Tail(t)[n] = u[n]
    <3> SUFFICES ASSUME NEW n \in 1 .. k - p - 1 PROVE Tail(t)[n] = u[n]
      OBVIOUS
    <3>1. n + 1 \in 1 .. k - p /\ p + (n + 1) = p + 1 + n
      BY <1>1
    <3> HIDE DEF u
    <3> QED  BY <1>2, <2>1, <2>2, <3>1
  <2> HIDE DEF u
  <2>4. Tail(t) = u
    <3>1. k - p - 1 \in Nat
      BY <1>1, <1>4
    <3> QED  BY <2>1, <2>2, <2>3, <3>1, SameLines
  <2>5. t # <<>> /\ Head(t) = t[1] /\ t[1] = s[p + 1]
    <3>2. Len(t) > 0 /\ 1 \in 1 .. k - p
      BY <1>1, <1>2, <1>4
    <3>1. t # <<>> /\ 1 \in 1 .. k - p
      BY <1>2, <3>2, SomeLine
    <3> QED  BY <1>2, <3>1, TailOf
  <2> QED  BY <1>1, <1>4, <2>4, <2>5 DEF u
<1> QED  BY <1>1, <1>3, <1>4

\* A line of the log: a record waits in the tail, a confirmation takes the tail.
LEMMA ParseKeeps ==
    ASSUME HarnessInv, ParseLine
    PROVE  HarnessInv'
<1> DEFINE l == Head(toRead)
<1>1. /\ cpc = "parse" /\ toRead # <<>> /\ toRead' = Tail(toRead)
      /\ confirmed' = IF l.what = "C" THEN confirmed \o tail ELSE confirmed
      /\ tail' = CASE l.what = "C" -> <<>> [] l.what = "op" -> Append(tail, l) [] OTHER -> tail
      /\ UNCHANGED <<allowed, policy, cpc, key, log>>
  BY DEF ParseLine, WithTail, heap, child
<1>2. /\ allowed \in [Ids -> SUBSET Outcomes] /\ tail \in Seq(Lines) /\ Confirmed(allowed, log)
      /\ confirmed \in Seq(Lines) /\ \A n \in 1 .. Len(confirmed) : confirmed[n].key = n - 1
      /\ \A n \in 1 .. Len(confirmed) : Safe(allowed, confirmed[n])
      /\ policy \in Nat \ {0} /\ key \in Nat
  BY <1>1 DEF HarnessInv, ParseInv, KeysInOrder
<1>3. PICK c, b, p : ParsedUpTo(c, b, p)
  BY <1>1 DEF HarnessInv, ParseInv
<1>4. /\ Counts(log, c) /\ log \in Seq(Lines) /\ Len(log) \in Nat
      /\ b \in 0 .. Len(log) /\ (b # 0 => log[b].what = "C") /\ key - policy <= c[b]
      /\ p \in 0 .. Len(log) /\ toRead = SubSeq(log, p + 1, Len(log))
      /\ Len(confirmed) + Len(tail) = c[p] /\ (p >= b => Len(confirmed) >= c[b])
  BY <1>3 DEF ParsedUpTo, Counts
<1>5. ASSUME NEW n \in 1 .. Len(tail)
      PROVE  /\ tail[n].key = Len(confirmed) + n - 1
             /\ \E m \in 1 .. p : log[m].what = "op" /\ tail[n] = log[m]
  BY <1>3 DEF ParsedUpTo
<1>6. p + 1 \in 1 .. Len(log) /\ l = log[p + 1] /\ toRead' = SubSeq(log, p + 1 + 1, Len(log))
  BY <1>1, <1>4, RestOf
<1>7. l \in Lines
  BY <1>4, <1>6
<1> HIDE DEF l
<1>8. /\ l.what = "op" => l.key = c[p] /\ c[p + 1] = c[p] + 1
      /\ l.what # "op" => c[p + 1] = c[p]
  <2>1. (p + 1) - 1 = p
    BY <1>4
  <2> QED  BY <1>4, <1>6, <2>1 DEF Counts
<1>9. c[p] \in Nat /\ c[b] \in Nat /\ Len(confirmed) \in Nat /\ Len(tail) \in Nat
  <2>1. c \in [0 .. Len(log) -> Nat]
    BY <1>4 DEF Counts
  <2>2. c[p] \in Nat /\ c[b] \in Nat
    BY <1>4, <2>1
  <2>3. Len(confirmed) \in Nat /\ Len(tail) \in Nat
    BY <1>2
  <2> QED  BY <2>2, <2>3
<1>10. /\ confirmed' \in Seq(Lines) /\ tail' \in Seq(Lines)
       /\ \A n \in 1 .. Len(confirmed') : confirmed'[n].key = n - 1 /\ Safe(allowed, confirmed'[n])
       /\ Len(confirmed') + Len(tail') = c[p + 1] /\ (p + 1 >= b => Len(confirmed') >= c[b])
       /\ \A n \in 1 .. Len(tail') : /\ tail'[n].key = Len(confirmed') + n - 1
                                     /\ \E m \in 1 .. p + 1 : log[m].what = "op" /\ tail'[n] = log[m]
  <2>1. CASE l.what = "C"
    <3>1. confirmed' = confirmed \o tail /\ tail' = <<>>
      BY <1>1, <2>1
    <3>2. Len(confirmed') = c[p] /\ confirmed' \in Seq(Lines) /\ tail' \in Seq(Lines) /\ Len(tail') = 0
      BY <1>2, <1>4, <3>1
    <3>3. ASSUME NEW n \in 1 .. Len(confirmed')
          PROVE  confirmed'[n].key = n - 1 /\ Safe(allowed, confirmed'[n])
      <4>1. CASE n <= Len(confirmed)
        <5>1. n \in 1 .. Len(confirmed) /\ confirmed'[n] = confirmed[n]
          BY <1>2, <1>9, <3>1, <4>1
        <5> QED  BY <1>2, <5>1
      <4>2. CASE n > Len(confirmed)
        <5> DEFINE j == n - Len(confirmed)
        <5>1. j \in 1 .. Len(tail) /\ confirmed'[n] = tail[j] /\ Len(confirmed) + j - 1 = n - 1
          BY <1>2, <1>9, <3>1, <4>2
        <5> HIDE DEF j
        <5>2. PICK m \in 1 .. p : log[m].what = "op" /\ tail[j] = log[m]
          BY <1>5, <5>1
        <5>3. m \in 1 .. (p + 1) - 1
          BY <1>4
        <5>4. Safe(allowed, log[m])
          BY <1>2, <1>6, <2>1, <5>2, <5>3 DEF Confirmed
        <5> QED  BY <1>5, <5>1, <5>2, <5>4
      <4> QED  BY <1>9, <4>1, <4>2
    <3>4. p + 1 >= b => Len(confirmed') >= c[b]
      <4>1. CASE p >= b
        BY <1>4, <1>9, <3>2, <4>1
      <4>2. CASE p + 1 = b
        BY <1>8, <1>9, <2>1, <3>2, <4>2
      <4> QED  BY <1>4, <4>1, <4>2
    <3> QED  BY <1>8, <1>9, <2>1, <3>2, <3>3, <3>4
  <2>2. CASE l.what # "C"
    <3>1. /\ confirmed' = confirmed
          /\ l.what = "op" => tail' = Append(tail, l)
          /\ l.what # "op" => tail' = tail
      BY <1>1, <2>2
    <3>2. p + 1 >= b => Len(confirmed') >= c[b]
      <4>1. p + 1 # b
        BY <1>4, <1>6, <2>2
      <4> QED  BY <1>4, <3>1, <4>1
    <3>3. ASSUME NEW m \in 1 .. p PROVE m \in 1 .. p + 1
      BY <1>4
    <3>4. CASE l.what = "op"
      <4>1. /\ tail' \in Seq(Lines) /\ Len(tail') = Len(tail) + 1 /\ tail'[Len(tail) + 1] = l
            /\ \A n \in 1 .. Len(tail) : tail'[n] = tail[n]
        <5>1. tail' = Append(tail, l) /\ tail \in Seq(Lines)
          BY <1>2, <3>1, <3>4
        <5> QED  BY <1>7, <5>1
      <4>2. ASSUME NEW n \in 1 .. Len(tail')
            PROVE  /\ tail'[n].key = Len(confirmed') + n - 1
                   /\ \E m \in 1 .. p + 1 : log[m].what = "op" /\ tail'[n] = log[m]
        <5>1. CASE n = Len(tail) + 1
          <6>1. p + 1 \in 1 .. p + 1
            BY <1>4
          <6>2. l.key = Len(confirmed) + n - 1
            BY <1>4, <1>8, <1>9, <3>4, <5>1
          <6> QED  BY <1>6, <3>1, <3>4, <4>1, <5>1, <6>1, <6>2
        <5>2. CASE n # Len(tail) + 1
          <6>1. n \in 1 .. Len(tail) /\ tail'[n] = tail[n]
            BY <1>9, <4>1, <5>2
          <6> QED  BY <1>5, <3>1, <3>3, <6>1
        <5> QED  BY <5>1, <5>2
      <4>3. Len(confirmed') + Len(tail') = c[p + 1]
        BY <1>4, <1>8, <1>9, <3>1, <3>4, <4>1
      <4> QED  BY <1>2, <3>1, <3>2, <4>1, <4>2, <4>3
    <3>5. CASE l.what # "op"
      <4>1. ASSUME NEW n \in 1 .. Len(tail')
            PROVE  /\ tail'[n].key = Len(confirmed') + n - 1
                   /\ \E m \in 1 .. p + 1 : log[m].what = "op" /\ tail'[n] = log[m]
        BY <1>5, <3>1, <3>3, <3>5
      <4> QED  BY <1>2, <1>4, <1>8, <3>1, <3>2, <3>5, <4>1
    <3> QED  BY <3>4, <3>5
  <2> QED  BY <2>1, <2>2
<1>11. ParsedUpTo(c, b, p + 1)'
  <2>1. p + 1 \in 0 .. Len(log)
    BY <1>4, <1>6
  <2> QED  BY <1>1, <1>4, <1>6, <1>10, <2>1 DEF ParsedUpTo
<1>12. \A n \in 1 .. Len(confirmed') : Safe(allowed', confirmed'[n])
  BY <1>1, <1>10 DEF Safe
<1>13. Confirmed(allowed', log')
  BY <1>1, <1>2 DEF Confirmed, Safe
<1>14. KeysInOrder'
  BY <1>10 DEF KeysInOrder
<1>15. ParseInv'
  BY <1>1, <1>2, <1>10, <1>11, <1>12, <1>13, <1>14 DEF ParseInv
<1> QED  BY <1>1, <1>2, <1>15 DEF HarnessInv, ChildInv, ReadInv

\* The heap is opened on the records that were confirmed, whatever else it lost.
LEMMA OpenKeeps ==
    ASSUME HarnessInv, OpenHeap
    PROVE  HarnessInv'
<1>1. /\ cpc = "parse" /\ toRead = <<>> /\ cpc' = "read"
      /\ \A i \in Ids : view'[i] \in allowed[i]
      /\ UNCHANGED <<policy, key, confirmed>>
  BY DEF OpenHeap, Heap!Recover, child, parsed
<1>2. /\ KeysInOrder /\ \A n \in 1 .. Len(confirmed) : Safe(allowed, confirmed[n])
      /\ policy \in Nat \ {0} /\ key \in Nat
  BY <1>1 DEF HarnessInv, ParseInv
<1>3. PICK c, b, p : ParsedUpTo(c, b, p)
  BY <1>1 DEF HarnessInv, ParseInv
<1>4. /\ log \in Seq(Lines) /\ c \in [0 .. Len(log) -> Nat] /\ b \in 0 .. Len(log)
      /\ p \in 0 .. Len(log) /\ toRead = SubSeq(log, p + 1, Len(log))
      /\ (p >= b => Len(confirmed) >= c[b]) /\ key - policy <= c[b] /\ Len(confirmed) \in Nat
  BY <1>2, <1>3 DEF ParsedUpTo, Counts, KeysInOrder
<1>5. p = Len(log)
  BY <1>1, <1>4, RestOf
<1>6. key - Len(confirmed) <= policy
  BY <1>2, <1>4, <1>5
<1>7. \A n \in 1 .. Len(confirmed) : Stored(view', confirmed[n])
  BY <1>1, <1>2 DEF Safe, Stored
<1>8. KeysInOrder'
  BY <1>1, <1>2 DEF KeysInOrder
<1>9. ReadInv'
  BY <1>1, <1>6, <1>7, <1>8 DEF ReadInv
<1> QED  BY <1>1, <1>2, <1>9 DEF HarnessInv, ChildInv, ParseInv

\* The records that were confirmed are read and are what they were.
LEMMA ReadKeeps ==
    ASSUME HarnessInv, ReadAll
    PROVE  HarnessInv'
<1> DEFINE Absent == {n \in DOMAIN confirmed : ReadOf(confirmed[n]) = NotFound}
           Wrong == {n \in DOMAIN confirmed \ Absent : ~Same(confirmed[n])}
<1>1. /\ cpc = "read" /\ cpc' = "report" /\ lost' = Cardinality(Absent) /\ corrupted' = Cardinality(Wrong)
      /\ UNCHANGED <<view, policy, key, confirmed>>
  BY DEF ReadAll, heap, child, parsed
<1>2. /\ KeysInOrder /\ key - Len(confirmed) <= policy
      /\ \A n \in 1 .. Len(confirmed) : Stored(view, confirmed[n])
      /\ policy \in Nat \ {0} /\ key \in Nat
  BY <1>1 DEF HarnessInv, ReadInv
<1>3. ASSUME NEW n \in DOMAIN confirmed PROVE ReadOf(confirmed[n]) # NotFound /\ Same(confirmed[n])
  <2>1. n \in 1 .. Len(confirmed) /\ confirmed[n] \in Lines
    BY <1>2 DEF KeysInOrder
  <2>2. confirmed[n].key \in Nat /\ Stored(view, confirmed[n])
    BY <1>2, <2>1 DEF Lines
  <2>3. ReadOf(confirmed[n]) = confirmed[n].key + 1
    BY <2>2 DEF ReadOf, Stored
  <2> QED  BY <2>2, <2>3 DEF Same, NotFound
<1>4. Absent = {} /\ Wrong = {}
  BY <1>3
<1> HIDE DEF Absent, Wrong
<1>5. lost' = 0 /\ corrupted' = 0
  BY <1>1, <1>4, FS_EmptySet
<1>6. KeysInOrder' /\ \A n \in 1 .. Len(confirmed) : Stored(view', confirmed[n])
  BY <1>1, <1>2 DEF KeysInOrder, Stored
<1>7. ReadInv'
  BY <1>1, <1>2, <1>5, <1>6 DEF ReadInv
<1> QED  BY <1>1, <1>2, <1>7 DEF HarnessInv, ChildInv, ParseInv

\* Before the first insert there are no lines.
LEMMA NoLines ==
    /\ <<>> \in Seq(Lines) /\ Len(<<>>) = 0 /\ <<>> \o <<>> = <<>>
    /\ \A a : Confirmed(a, <<>>)
    /\ \E c : Counts(<<>>, c) /\ c[0] = 0
<1>1. <<>> \in Seq(Lines) /\ Len(<<>>) = 0 /\ <<>> \o <<>> = <<>>
  OBVIOUS
<1> DEFINE c == [n \in 0 .. 0 |-> 0]
<1>2. c \in [0 .. 0 -> Nat] /\ c[0] = 0
  OBVIOUS
<1> HIDE DEF c
<1>3. Counts(<<>>, c)
  BY <1>1, <1>2 DEF Counts
<1>4. \A a : Confirmed(a, <<>>)
  BY <1>1 DEF Confirmed
<1> QED  BY <1>1, <1>2, <1>3, <1>4

\* The heap of a new directory.
LEMMA NewHeap ==
    /\ Heap!Nothing \in [Ids -> Outcomes] /\ Heap!Only(Heap!Nothing) \in [Ids -> SUBSET Outcomes]
    /\ \A i \in Ids : Heap!Nothing[i] \in Heap!Only(Heap!Nothing)[i]
  BY HarnessAssumption DEF Heap!Nothing, Heap!Only, NotFound, Outcomes

\* The directory is emptied: a child starts.
LEMMA RoundKeeps ==
    ASSUME HarnessInv, NextRound
    PROVE  HarnessInv'
<1>1. /\ cpc' = "insert" /\ key' = 0 /\ pending' = <<>> /\ log' = <<>>
      /\ confirmed' = <<>> /\ tail' = <<>> /\ policy' = policy /\ policy \in Nat \ {0}
  BY DEF NextRound, HarnessInv
<1>2. /\ view' \in [Ids -> Outcomes] /\ allowed' \in [Ids -> SUBSET Outcomes]
      /\ \A i \in Ids : view'[i] \in allowed'[i]
  BY NewHeap DEF NextRound
<1>3. Full' = <<>>
  BY <1>1, NoLines DEF Full
<1>4. Written' = 0
  <2>1. Written' = 0 - (0 % policy)
    BY <1>1 DEF Written
  <2> QED  BY <1>1, <2>1
<1>5. \E c : Counts(Full', c) /\ c[Len(Full')] = key' /\ c[Len(log')] = Written'
  BY <1>1, <1>3, <1>4, NoLines
<1>6. Confirmed(allowed', Full') /\ 1 .. Len(Full') = {} /\ 1 .. Len(pending') = {}
  BY <1>1, <1>3, NoLines
<1>7. ChildInv'
  BY <1>1, <1>2, <1>5, <1>6, NoLines DEF ChildInv
<1> QED  BY <1>1, <1>7 DEF HarnessInv, ParseInv, ReadInv

\* The invariant holds when the first child starts.
LEMMA HarnessStarts ==
    ASSUME Init
    PROVE  HarnessInv
<1>1. /\ cpc = "insert" /\ key = 0 /\ pending = <<>> /\ log = <<>>
      /\ confirmed = <<>> /\ tail = <<>> /\ policy \in Nat \ {0}
  BY HarnessAssumption DEF Init
<1>2. /\ view \in [Ids -> Outcomes] /\ allowed \in [Ids -> SUBSET Outcomes]
      /\ \A i \in Ids : view[i] \in allowed[i]
  BY NewHeap DEF Init, Heap!Init
<1>3. Full = <<>>
  BY <1>1, NoLines DEF Full
<1>4. Written = 0
  <2>1. Written = 0 - (0 % policy)
    BY <1>1 DEF Written
  <2> QED  BY <1>1, <2>1
<1>5. \E c : Counts(Full, c) /\ c[Len(Full)] = key /\ c[Len(log)] = Written
  BY <1>1, <1>3, <1>4, NoLines
<1>6. Confirmed(allowed, Full) /\ 1 .. Len(Full) = {} /\ 1 .. Len(pending) = {}
  BY <1>1, <1>3, NoLines
<1>7. ChildInv
  BY <1>1, <1>2, <1>5, <1>6, NoLines DEF ChildInv
<1> QED  BY <1>1, <1>7 DEF HarnessInv, ParseInv, ReadInv

\* A step that changes nothing.
LEMMA HarnessIdles ==
    ASSUME HarnessInv, UNCHANGED vars
    PROVE  HarnessInv'
<1>1. UNCHANGED <<view, allowed, policy, cpc, key, id, pending, log, toRead, confirmed, tail, lost, corrupted>>
  BY DEF vars, heap, child, parsed, report
<1>2. Full' = Full /\ Written' = Written /\ Due' = Due
  BY <1>1 DEF Full, Written, Due
<1>3. ChildInv'
  <2>1. \A L : Confirmed(allowed, L) => Confirmed(allowed', L)
    BY <1>1 DEF Confirmed, Safe
  <2>2. \A l : (Stored(view, l) => Stored(view', l)) /\ (Safe(allowed, l) => Safe(allowed', l))
    BY <1>1 DEF Stored, Safe
  <2> QED  BY <1>1, <1>2, <2>1, <2>2 DEF HarnessInv, ChildInv
<1>4. ParseInv'
  <2>1. Confirmed(allowed, log) => Confirmed(allowed', log')
    BY <1>1 DEF Confirmed, Safe
  <2>2. \A l : Safe(allowed, l) => Safe(allowed', l)
    BY <1>1 DEF Safe
  <2>3. \A c, b, p : ParsedUpTo(c, b, p) => ParsedUpTo(c, b, p)'
    BY <1>1 DEF ParsedUpTo
  <2>4. KeysInOrder => KeysInOrder'
    BY <1>1 DEF KeysInOrder
  <2> QED  BY <1>1, <2>1, <2>2, <2>3, <2>4 DEF HarnessInv, ParseInv
<1>5. ReadInv'
  <2>1. \A l : Stored(view, l) => Stored(view', l)
    BY <1>1 DEF Stored
  <2>2. KeysInOrder => KeysInOrder'
    BY <1>1 DEF KeysInOrder
  <2> QED  BY <1>1, <2>1, <2>2 DEF HarnessInv, ReadInv
<1> QED  BY <1>1, <1>3, <1>4, <1>5 DEF HarnessInv

-----------------------------------------------------------------------------
(* Theorems. *)

\* HarnessInv is an invariant of the kill test: what the child logs is what the heap
\* committed, and what the parent makes of a log cut anywhere follows from that.
THEOREM HarnessInvariance == Spec => []HarnessInv
<1>1. Init => HarnessInv
  BY HarnessStarts
<1>2. HarnessInv /\ [Next]_vars => HarnessInv'
  BY InsertKeeps, CommitKeeps, PushKeeps, WriteKeeps, KillKeeps, ParseKeeps, OpenKeeps,
     ReadKeeps, RoundKeeps, HarnessIdles DEF Next
<1> QED  BY <1>1, <1>2, PTL DEF Spec

\* The test never reports a heap that keeps its promise (src/src/bin/crash.rs, check of a
\* round): not for a kill inside a log write, not for a record number that lost digits.
THEOREM NoFalseAlarms == Spec => []NoFalseAlarm
<1>1. HarnessInv => NoFalseAlarm
  BY DEF HarnessInv, ReadInv, NoFalseAlarm
<1> QED  BY <1>1, HarnessInvariance, PTL

\* The test checks every insert but those of the last interval, each once, in order.
THEOREM ChecksEnough == Spec => []ChecksAllButLast
<1>1. HarnessInv => ChecksAllButLast
  <2> SUFFICES ASSUME HarnessInv, cpc = "report" PROVE ChecksAllButLast
    BY DEF ChecksAllButLast
  <2>1. /\ key - Len(confirmed) <= policy
        /\ confirmed \in Seq(Lines) /\ \A n \in 1 .. Len(confirmed) : confirmed[n].key = n - 1
    BY DEF HarnessInv, ReadInv, KeysInOrder
  <2>2. DOMAIN confirmed = 1 .. Len(confirmed)
    BY <2>1
  <2> QED  BY <2>1, <2>2 DEF ChecksAllButLast
<1> QED  BY <1>1, HarnessInvariance, PTL
====
