---------------------------- MODULE RecordsProofs ----------------------------
(***************************************************************************)
(* Lemmas about the files of a heap, for HeapProofs and BucketProofs: what *)
(* staged writes show of a file, and what the walk over a data file finds. *)
(* What is said of a file or of staged writes is said by a set R of pairs  *)
(* of a position and what may be there.                                    *)
(***************************************************************************)
EXTENDS Records, DataInduction

-----------------------------------------------------------------------------
(* Staged writes. *)

\* Staged writes of values in V: some values from a start on.
Runs(V) == {w \in [start : Nat, vals : Seq(V)] : w.vals # <<>>}

\* Everything staged in ws is in R.
Within(ws, R) ==
    \A n \in DOMAIN ws : \A k \in 1 .. Len(ws[n].vals) :
        <<ws[n].start + k - 1, ws[n].vals[k]>> \in R

\* Everything in the file f is in R.
Holds(f, R) == \A x \in DOMAIN f : <<x, f[x]>> \in R

\* x is one of the positions of w.
At(w, x) == x >= w.start /\ x < w.start + Len(w.vals)

\* The file f with the staged writes of ws (Overlay of Staging).
Shown(f, ws) ==
    [x \in DOMAIN f |->
        IF \E i \in DOMAIN ws : x >= ws[i].start /\ x < ws[i].start + Len(ws[i].vals)
        THEN LET i == CHOOSE i \in DOMAIN ws :
                         x >= ws[i].start /\ x < ws[i].start + Len(ws[i].vals)
             IN  ws[i].vals[x - ws[i].start + 1]
        ELSE f[x]]

\* What is shown at a position is staged there, or it is the file's and nothing is.
LEMMA ShownAt ==
    ASSUME NEW f, NEW x \in DOMAIN f, NEW ws
    PROVE  /\ DOMAIN Shown(f, ws) = DOMAIN f
           /\ \/ \E i \in DOMAIN ws : At(ws[i], x) /\ Shown(f, ws)[x] = ws[i].vals[x - ws[i].start + 1]
              \/ (\A i \in DOMAIN ws : ~At(ws[i], x)) /\ Shown(f, ws)[x] = f[x]
<1> DEFINE i == CHOOSE i \in DOMAIN ws : At(ws[i], x)
<1>1. Shown(f, ws)[x] = IF \E j \in DOMAIN ws : At(ws[j], x)
                        THEN ws[i].vals[x - ws[i].start + 1] ELSE f[x]
  BY DEF Shown, At
<1>2. DOMAIN Shown(f, ws) = DOMAIN f
  BY DEF Shown
<1>3. CASE \E j \in DOMAIN ws : At(ws[j], x)
  <2>1. i \in DOMAIN ws /\ At(ws[i], x)
    BY <1>3
  <2> HIDE DEF i
  <2> QED  BY <1>1, <1>2, <1>3, <2>1
<1>4. CASE ~\E j \in DOMAIN ws : At(ws[j], x)
  BY <1>1, <1>2, <1>4
<1> QED  BY <1>3, <1>4

\* What is shown is in R when the file and the staged writes are.
LEMMA ShownWithin ==
    ASSUME NEW V, NEW f, DOMAIN f \subseteq Nat, NEW ws \in Seq(Runs(V)),
           NEW R, Holds(f, R), Within(ws, R)
    PROVE  DOMAIN Shown(f, ws) = DOMAIN f /\ Holds(Shown(f, ws), R)
<1>1. DOMAIN Shown(f, ws) = DOMAIN f
  BY DEF Shown
<1>2. ASSUME NEW x \in DOMAIN f PROVE <<x, Shown(f, ws)[x]>> \in R
  <2>1. CASE (\A i \in DOMAIN ws : ~At(ws[i], x)) /\ Shown(f, ws)[x] = f[x]
    BY <2>1 DEF Holds
  <2>2. CASE \E i \in DOMAIN ws : At(ws[i], x) /\ Shown(f, ws)[x] = ws[i].vals[x - ws[i].start + 1]
    <3>1. PICK i \in DOMAIN ws : At(ws[i], x) /\ Shown(f, ws)[x] = ws[i].vals[x - ws[i].start + 1]
      BY <2>2
    <3> DEFINE a == ws[i].start
               n == Len(ws[i].vals)
               k == x - a + 1
    <3>2. ws[i] \in Runs(V)
      OBVIOUS
    <3>3. a \in Nat /\ n \in Nat /\ x \in Nat
      BY <3>2 DEF Runs
    <3>4. x >= a /\ x < a + n
      BY <3>1 DEF At
    <3> HIDE DEF a, n
    <3>5. k \in 1 .. n /\ a + k - 1 = x
      BY <3>3, <3>4
    <3> HIDE DEF k
    <3>6. <<a + k - 1, ws[i].vals[k]>> \in R
      BY <3>5 DEF Within, a, n
    <3> QED  BY <3>1, <3>5, <3>6 DEF a, k
  <2> QED  BY <2>1, <2>2, ShownAt
<1> QED  BY <1>1, <1>2 DEF Holds

\* One more staged write.
LEMMA AppendWithin ==
    ASSUME NEW V, NEW ws \in Seq(Runs(V)), NEW off \in Nat, NEW vals \in Seq(V), vals # <<>>,
           NEW R, Within(ws, R), \A k \in 1 .. Len(vals) : <<off + k - 1, vals[k]>> \in R
    PROVE  LET new == Append(ws, [start |-> off, vals |-> vals])
           IN  new \in Seq(Runs(V)) /\ new # <<>> /\ Within(new, R)
<1> DEFINE w == [start |-> off, vals |-> vals]
           new == Append(ws, w)
<1>1. w \in Runs(V) /\ w.start = off /\ w.vals = vals
  BY DEF Runs
<1> HIDE DEF w
<1>2. new \in Seq(Runs(V)) /\ new # <<>>
  BY <1>1
<1>3. ASSUME NEW n \in DOMAIN new PROVE (n \in DOMAIN ws /\ new[n] = ws[n]) \/ new[n] = w
  BY <1>1
<1> HIDE DEF new
<1>4. Within(new, R)
  <2> SUFFICES ASSUME NEW n \in DOMAIN new, NEW k \in 1 .. Len(new[n].vals)
               PROVE  <<new[n].start + k - 1, new[n].vals[k]>> \in R
    BY DEF Within
  <2>1. CASE n \in DOMAIN ws /\ new[n] = ws[n]
    BY <2>1 DEF Within
  <2>2. CASE new[n] = w
    BY <1>1, <2>2
  <2> QED  BY <1>3, <2>1, <2>2
<1> QED  BY <1>2, <1>4 DEF new, w

\* A staged write that grows.
LEMMA GrowWithin ==
    ASSUME NEW V, NEW ws \in Seq(Runs(V)), NEW o \in DOMAIN ws, NEW vals \in Seq(V), vals # <<>>,
           NEW R, Within(ws, R),
           \A k \in 1 .. Len(vals) : <<ws[o].start + Len(ws[o].vals) + k - 1, vals[k]>> \in R
    PROVE  LET new == [ws EXCEPT ![o].vals = @ \o vals]
           IN  new \in Seq(Runs(V)) /\ new # <<>> /\ Within(new, R)
<1> DEFINE a == ws[o].start
           b == ws[o].vals
           w == [start |-> a, vals |-> b \o vals]
           new == [ws EXCEPT ![o].vals = @ \o vals]
<1>1. a \in Nat /\ b \in Seq(V) /\ b # <<>> /\ ws[o] = [start |-> a, vals |-> b]
  <2>1. ws[o] \in Runs(V)
    OBVIOUS
  <2> QED  BY <2>1 DEF Runs
<1>2. new = [ws EXCEPT ![o] = w]
  <2> DEFINE x == ws[o]
             v == b \o vals
  <2>1. x = [start |-> a, vals |-> b] /\ x.vals = b
    BY <1>1
  <2>2. [x EXCEPT !.vals = v] = [start |-> a, vals |-> v]
    <3> HIDE DEF x, a, b, v
    <3> QED  BY <2>1
  <2> QED  BY <2>1, <2>2
<1> HIDE DEF a, b, new
<1>3. /\ b \o vals \in Seq(V) /\ Len(b \o vals) = Len(b) + Len(vals) /\ b \o vals # <<>>
      /\ \A k \in 1 .. Len(b) : (b \o vals)[k] = b[k]
      /\ \A k \in 1 .. Len(vals) : (b \o vals)[Len(b) + k] = vals[k]
  BY <1>1
<1>4. w \in Runs(V) /\ w.start = a /\ w.vals = b \o vals
  BY <1>1, <1>3 DEF Runs
<1> HIDE DEF w
<1>5. new \in Seq(Runs(V)) /\ new # <<>> /\ DOMAIN new = DOMAIN ws
      /\ new[o] = w /\ \A n \in DOMAIN ws \ {o} : new[n] = ws[n]
  BY <1>2, <1>4
<1>6. Within(new, R)
  <2> SUFFICES ASSUME NEW n \in DOMAIN ws, NEW k \in 1 .. Len(new[n].vals)
               PROVE  <<new[n].start + k - 1, new[n].vals[k]>> \in R
    BY <1>5 DEF Within
  <2>1. CASE n # o
    BY <1>5, <2>1 DEF Within
  <2>2. CASE n = o
    <3>1. new[n].start = a /\ new[n].vals = b \o vals /\ k \in 1 .. Len(b) + Len(vals)
      BY <1>3, <1>4, <1>5, <2>2
    <3>2. CASE k <= Len(b)
      <4>1. k \in 1 .. Len(b) /\ (b \o vals)[k] = b[k]
        BY <1>1, <1>3, <3>1, <3>2
      <4>2. <<a + k - 1, b[k]>> \in R
        BY <4>1 DEF Within, a, b
      <4> QED  BY <3>1, <4>1, <4>2
    <3>3. CASE k > Len(b)
      <4> DEFINE m == Len(b)
                 j == k - m
      <4>1. m \in Nat /\ Len(vals) \in Nat
        BY <1>1
      <4>2. k \in 1 .. m + Len(vals) /\ k > m
        BY <3>1, <3>3
      <4>3. j \in 1 .. Len(vals) /\ m + j = k /\ a + k - 1 = a + m + j - 1
        <5> HIDE DEF m
        <5> QED  BY <1>1, <4>1, <4>2 DEF j
      <4>4. <<a + m + j - 1, vals[j]>> \in R
        BY <4>3 DEF a, b
      <4>5. (b \o vals)[k] = vals[j]
        BY <1>3, <4>3
      <4> HIDE DEF j, m
      <4> QED  BY <3>1, <4>3, <4>4, <4>5
    <3>4. Len(b) \in Nat /\ k \in Nat
      BY <1>1, <3>1
    <3> QED  BY <3>2, <3>3, <3>4
  <2> QED  BY <2>1, <2>2
<1> QED  BY <1>5, <1>6 DEF new

-----------------------------------------------------------------------------
(* The walk that stops at the first bad record. *)

\* A data file of cells in C; a header cell says how long its record is.
DataFile(d, C) == /\ DOMAIN d = C
                  /\ \A p \in C : d[p].k # 0 => d[p].rec.len \in Nat \ {0}

\* A sequence of records a walk from p can find: each whole, each behind the one before,
\* the last one ending at most at end.
FoundFrom(d, p, end, s) ==
    /\ s \in Seq(Nat)
    /\ \A i \in 1 .. Len(s) : /\ s[i] >= p /\ RecordAt(d, s[i])
                              /\ s[i] + d[s[i]].rec.len <= s[Len(s)] + d[s[Len(s)]].rec.len
                              /\ s[i] + d[s[i]].rec.len <= end

\* The function of the offset to walk from, by which the walk is defined.
WalksBy(d, start, end, from) ==
    /\ Walk(d, start, end) = from[start]
    /\ \A p \in start .. end :
          from[p] = IF HeaderWithin(d, p, end) /\ PayloadAt(d, p)
                    THEN <<p>> \o from[p + d[p].rec.len] ELSE <<>>

\* There is one.
LEMMA WalkUnfolds ==
    ASSUME NEW C, C \subseteq Nat, NEW d, DataFile(d, C),
           NEW start \in Nat, NEW end \in Nat, start <= end
    PROVE  \E from : WalksBy(d, start, end, from)
<1> DEFINE Go(p) == HeaderWithin(d, p, end) /\ PayloadAt(d, p)
           go == {p \in start .. end : Go(p)}
           next == [p \in go |-> p + d[p].rec.len]
           step == [p \in go |-> [v \in Seq(Nat) |-> <<p>> \o v]]
           stop == [p \in start .. end |-> <<>>]
           Eq(f) == f = [p \in start .. end |-> IF Go(p) THEN <<p>> \o f[p + d[p].rec.len] ELSE <<>>]
           from == CHOOSE f : Eq(f)
<1>1. \A p \in go : /\ p \in C /\ d[p].rec.len \in Nat /\ d[p].rec.len > 0
                    /\ p < p + d[p].rec.len /\ p + d[p].rec.len \in start .. end
  BY DEF HeaderWithin, HeaderAt, DataFile
<1>2. /\ next \in [go -> start .. end] /\ \A p \in go : p < next[p]
  BY <1>1
<1>3. step \in [go -> [Seq(Nat) -> Seq(Nat)]] /\ stop \in [start .. end -> Seq(Nat)]
  OBVIOUS
<1>4. \E f : Eq(f)
  <2>1. PICK f \in [start .. end -> Seq(Nat)] : IsWalk(f, start, end, go, next, step, stop)
    <3>1. go \in SUBSET (start .. end)
      OBVIOUS
    <3> HIDE DEF go, next, step, stop
    <3> QED  BY <1>2, <1>3, <3>1, WalkExists
  <2>2. ASSUME NEW p \in start .. end
        PROVE  (IF p \in go THEN step[p][f[next[p]]] ELSE stop[p])
                  = IF Go(p) THEN <<p>> \o f[p + d[p].rec.len] ELSE <<>>
    BY <1>2
  <2> HIDE DEF go, next, step, stop, Go
  <2>3. Eq(f)
    BY <2>1, <2>2 DEF IsWalk
  <2> QED  BY <2>3
<1>5. Eq(from)
  <2> HIDE DEF Eq
  <2> QED  BY <1>4
<1>6. Walk(d, start, end) = from[start]
  BY DEF Walk
<1>7. ASSUME NEW p \in start .. end
      PROVE  from[p] = IF Go(p) THEN <<p>> \o from[p + d[p].rec.len] ELSE <<>>
  <2> HIDE DEF from, Go
  <2> QED  BY <1>5
<1> HIDE DEF from
<1>8. WalksBy(d, start, end, from)
  BY <1>6, <1>7 DEF WalksBy
<1> QED  BY <1>8

\* The walk finds whole records, the last one furthest.
LEMMA WalkFinds ==
    ASSUME NEW C, C \subseteq Nat, NEW d, DataFile(d, C),
           NEW start \in Nat, NEW end \in Nat, start <= end
    PROVE  FoundFrom(d, start, end, Walk(d, start, end))
<1> DEFINE Go(p) == HeaderWithin(d, p, end) /\ PayloadAt(d, p)
           go == {p \in start .. end : Go(p)}
<1>1. \A p \in go : /\ p \in C /\ d[p].rec.len \in Nat /\ d[p].rec.len > 0
                    /\ p < p + d[p].rec.len /\ p + d[p].rec.len \in start .. end
  BY DEF HeaderWithin, HeaderAt, DataFile
<1>5. PICK from : WalksBy(d, start, end, from)
  BY WalkUnfolds
<1>6. Walk(d, start, end) = from[start]
  BY <1>5 DEF WalksBy
<1>7. ASSUME NEW p \in start .. end
      PROVE  from[p] = IF Go(p) THEN <<p>> \o from[p + d[p].rec.len] ELSE <<>>
  BY <1>5 DEF WalksBy
<1> DEFINE S == {p \in start .. end : FoundFrom(d, p, end, from[p])}
<1>8. ASSUME NEW p \in start .. end, \A q \in p + 1 .. end : q \in S PROVE p \in S
  <2>1. CASE ~Go(p)
    <3>1. from[p] = <<>>
      BY <1>7, <2>1
    <3>2. <<>> \in Seq(Nat) /\ 1 .. Len(<<>>) = {}
      OBVIOUS
    <3>3. FoundFrom(d, p, end, <<>>)
      BY <3>2 DEF FoundFrom
    <3> QED  BY <3>1, <3>3
  <2>2. CASE Go(p)
    <3> DEFINE q == p + d[p].rec.len
               t == from[q]
               s == <<p>> \o t
    <3>1. q \in p + 1 .. end /\ q \in start .. end /\ p \in go /\ q \in Nat /\ p \in Nat
      BY <1>1, <2>2
    <3>2. FoundFrom(d, q, end, t)
      BY <1>8, <3>1
    <3>3. from[p] = s
      BY <1>7, <2>2
    <3>4. RecordAt(d, p) /\ p + d[p].rec.len = q /\ q <= end
      BY <2>2, <3>1 DEF RecordAt, HeaderWithin
    <3>5. t \in Seq(Nat)
      BY <3>2 DEF FoundFrom
    <3> HIDE DEF t, q
    <3>6. /\ s \in Seq(Nat) /\ Len(s) = Len(t) + 1 /\ s[1] = p
          /\ \A i \in 1 .. Len(t) : s[i + 1] = t[i]
      BY <3>1, <3>5
    <3> HIDE DEF s
    <3>7. \A i \in 1 .. Len(t) : t[i] \in Nat /\ d[t[i]].rec.len \in Nat /\ t[i] >= q
      BY <3>2, <3>5 DEF FoundFrom, RecordAt, HeaderAt, DataFile
    <3>8. CASE Len(t) = 0
      <4>1. Len(s) = 1 /\ s[Len(s)] = p /\ \A i \in 1 .. Len(s) : i = 1
        BY <3>6, <3>8
      <4> QED  BY <3>1, <3>3, <3>4, <3>6, <4>1 DEF FoundFrom
    <3>9. CASE Len(t) > 0
      <4>0. Len(t) \in 1 .. Len(t)
        BY <3>5, <3>9
      <4>1. Len(t) \in 1 .. Len(t) /\ s[Len(s)] = t[Len(t)]
        BY <3>6, <4>0
      <4>2. q <= t[Len(t)] + d[t[Len(t)]].rec.len
        BY <3>1, <3>7, <4>1
      <4>3. ASSUME NEW i \in 1 .. Len(s)
            PROVE  /\ s[i] >= p /\ RecordAt(d, s[i])
                   /\ s[i] + d[s[i]].rec.len <= s[Len(s)] + d[s[Len(s)]].rec.len
                   /\ s[i] + d[s[i]].rec.len <= end
        <5>1. CASE i = 1
          BY <3>1, <3>4, <3>6, <4>1, <4>2, <5>1
        <5>2. CASE i # 1
          <6>1. i - 1 \in 1 .. Len(t) /\ s[i] = t[i - 1]
            BY <3>5, <3>6, <5>2
          <6>2. t[i - 1] >= q /\ q >= p
            BY <3>1, <3>7, <6>1
          <6> QED  BY <3>1, <3>2, <3>7, <4>1, <6>1, <6>2 DEF FoundFrom
        <5> QED  BY <5>1, <5>2
      <4> QED  BY <3>3, <3>6, <4>3 DEF FoundFrom
    <3> QED  BY <3>5, <3>8, <3>9
  <2> QED  BY <2>1, <2>2
<1>9. start \in S
  <2>1. \A p \in start .. end : p \in S
    <3> HIDE DEF S
    <3> QED  BY <1>8, WalkInduction
  <2>2. start \in start .. end
    OBVIOUS
  <2> QED  BY <2>1, <2>2
<1> QED  BY <1>6, <1>9

\* Where no record begins behind start, the walk finds the record at start or nothing.
LEMMA WalkOne ==
    ASSUME NEW C, C \subseteq Nat, NEW d, DataFile(d, C),
           NEW start \in Nat, NEW end \in Nat, start <= end,
           \A p \in C : p > start => d[p].k # 1
    PROVE  Walk(d, start, end) = IF RecordAt(d, start) /\ start + d[start].rec.len <= end
                                 THEN <<start>> ELSE <<>>
<1> DEFINE Go(p) == HeaderWithin(d, p, end) /\ PayloadAt(d, p)
<1>1. PICK from : WalksBy(d, start, end, from)
  BY WalkUnfolds
<1>2. Go(start) <=> RecordAt(d, start) /\ start + d[start].rec.len <= end
  BY DEF HeaderWithin, RecordAt
<1>3. CASE ~Go(start)
  BY <1>1, <1>2, <1>3 DEF WalksBy
<1>4. CASE Go(start)
  <2> DEFINE q == start + d[start].rec.len
  <2>1. start \in C /\ d[start].rec.len \in Nat /\ d[start].rec.len > 0 /\ q <= end
    BY <1>4 DEF HeaderWithin, HeaderAt, DataFile
  <2>2. q \in start .. end /\ q > start
    BY <2>1
  <2>3. ~Go(q)
    <3>1. DOMAIN d = C
      BY DEF DataFile
    <3> HIDE DEF q
    <3> QED  BY <2>2, <3>1 DEF HeaderWithin, HeaderAt
  <2>4. from[q] = <<>>
    <3> HIDE DEF q
    <3> QED  BY <1>1, <2>2, <2>3 DEF WalksBy
  <2>5. start \in start .. end
    OBVIOUS
  <2>6. from[start] = <<start>> \o from[q]
    BY <1>1, <1>4, <2>5 DEF WalksBy
  <2>7. <<start>> \o <<>> = <<start>>
    OBVIOUS
  <2> QED  BY <1>1, <1>2, <1>4, <2>4, <2>6, <2>7 DEF WalksBy
<1> QED  BY <1>3, <1>4
====
