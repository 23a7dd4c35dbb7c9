---------------------------- MODULE BucketProofs ----------------------------
(***************************************************************************)
(* Proofs about BucketAlloc and BucketHeap.                                *)
(*                                                                         *)
(* BucketAlloc, reopens included, for any page size, configuration,        *)
(* buckets and record lengths: extents and records never overlap,          *)
(* whichever extents are cut; no number is given out twice; and the        *)
(* registry replays to the extents and regions that were granted.  BInv    *)
(* speaks of the bytes and RInv of the registry and the numbers.  A reopen *)
(* needs both: what it replays is what there was (RInv), and what it finds *)
(* in use covers every record (BInv).                                      *)
(*                                                                         *)
(* BucketHeap, with kills, losses and rebuilds at any step: BTypes says    *)
(* what the files, the allocator and the running call are, and RowsInv     *)
(* which rows a kill leaves in the registry.                               *)
(***************************************************************************)
EXTENDS BucketHeap, RecordsProofs, FiniteSetTheorems, TLAPS

\* page_down rounds down and page_up rounds up (format.rs).
LEMMA PageBounds ==
    ASSUME NEW x \in Nat
    PROVE  /\ PageDown(x) \in Nat /\ PageDown(x) <= x
           /\ PageUp(x) \in Nat /\ x <= PageUp(x)
<1>1. \A y \in Nat : y % PAGE \in 0 .. PAGE - 1
  BY PageAssumption
<1>2. x + PAGE - 1 \in Nat
  BY PageAssumption
<1>3. \A y \in Nat : y % PAGE <= y
  BY PageAssumption
<1> QED  BY <1>1, <1>2, <1>3, PageAssumption DEF PageDown, PageUp

\* A bounded set of positions has a last one.
LEMMA LastExists ==
    ASSUME NEW n \in Nat, NEW R, R \subseteq 1 .. n, R # {}
    PROVE  \E i \in R : \A j \in R : j <= i
<1>1. R \subseteq 0 .. n
  OBVIOUS
<1> QED  BY <1>1, GreatestNat

-----------------------------------------------------------------------------
(* Extents e in a file of size f, and records P placed in them. *)

Disjoint(e) ==
    \A i, j \in DOMAIN e :
        i # j => Apart(e[i].start, ExtentEnd(e[i]), e[j].start, ExtentEnd(e[j]))

\* No extent is overfull.
Fit(e) == \A i \in DOMAIN e : e[i].used <= e[i].size

\* Every extent lies in the file.
Inside(e, f) == \A i \in DOMAIN e : ExtentEnd(e[i]) <= f

\* Record r lies in the used part of extent x.
In(r, x) == x.start <= r.off /\ r.off + r.len <= x.start + x.used

Covered(e, P) == \A n \in DOMAIN P : \E i \in DOMAIN e : In(P[n], e[i])

RecordType == [off : Nat, len : Lens]

Sound(e, f) == e \in Seq(ExtentType) /\ Disjoint(e) /\ Fit(e) /\ Inside(e, f)

RecordsApart(r, s) == Apart(r.off, r.off + r.len, s.off, s.off + s.len)

\* The fields of an extent.
LEMMA ExtentFields ==
    ASSUME NEW x \in ExtentType
    PROVE  /\ x.start \in Nat /\ x.size \in Nat /\ x.used \in Nat /\ ExtentEnd(x) \in Nat
           /\ ExtentEnd(x) = x.start + x.size
BY DEF ExtentType, ExtentEnd

\* A cut changes the size.
LEMMA CutExtent ==
    ASSUME NEW x \in ExtentType, NEW c \in Nat, c <= x.size
    PROVE  LET y == [x EXCEPT !.size = @ - c]
           IN  /\ y \in ExtentType /\ y.owner = x.owner /\ y.start = x.start
               /\ y.used = x.used /\ y.size = x.size - c
BY DEF ExtentType

\* A use changes the used part.
LEMMA UseExtent ==
    ASSUME NEW x \in ExtentType, NEW c \in Nat
    PROVE  LET y == [x EXCEPT !.used = @ + c]
           IN  /\ y \in ExtentType /\ y.owner = x.owner /\ y.start = x.start
               /\ y.size = x.size /\ y.used = x.used + c
BY DEF ExtentType

-----------------------------------------------------------------------------
\* A new extent apart from all others keeps the extents sound (the push at the end
\* of grant_extent).
LEMMA AddExtent ==
    ASSUME NEW e, NEW f \in Nat, NEW g \in Nat, NEW x \in ExtentType,
           Sound(e, f), f <= g, x.used <= x.size, ExtentEnd(x) <= g,
           \A i \in DOMAIN e : Apart(e[i].start, ExtentEnd(e[i]), x.start, ExtentEnd(x))
    PROVE  Sound(Append(e, x), g)
<1> DEFINE a == Append(e, x)
<1> USE DEF Sound
<1>1. /\ a \in Seq(ExtentType) /\ DOMAIN e = 1 .. Len(e) /\ DOMAIN a = 1 .. Len(e) + 1
      /\ Len(e) \in Nat /\ a[Len(e) + 1] = x /\ \A i \in DOMAIN e : a[i] = e[i]
  OBVIOUS
<1>2. \A i \in DOMAIN a : i \in DOMAIN e \/ i = Len(e) + 1
  BY <1>1
<1> HIDE DEF a
<1>3. Disjoint(a)
  BY <1>1, <1>2 DEF Disjoint, Apart
<1>4. Fit(a)
  BY <1>1, <1>2 DEF Fit
<1>5. Inside(a, g)
  <2> SUFFICES ASSUME NEW i \in DOMAIN a PROVE ExtentEnd(a[i]) <= g
    BY DEF Inside
  <2>1. CASE i = Len(e) + 1
    BY <2>1, <1>1
  <2>2. CASE i \in DOMAIN e
    <3>1. a[i] = e[i] /\ e[i] \in ExtentType /\ ExtentEnd(e[i]) <= f
      BY <2>2, <1>1 DEF Inside
    <3>2. ExtentEnd(e[i]) \in Nat
      BY <3>1, ExtentFields
    <3> QED  BY <3>1, <3>2
  <2> QED  BY <1>2, <2>1, <2>2
<1> QED  BY <1>1, <1>3, <1>4, <1>5 DEF a

\* Records stay covered when an extent is added.
LEMMA AddKeepsCover ==
    ASSUME NEW e \in Seq(ExtentType), NEW x \in ExtentType, NEW P, Covered(e, P)
    PROVE  Covered(Append(e, x), P)
<1>1. \A i \in DOMAIN e : i \in DOMAIN Append(e, x) /\ Append(e, x)[i] = e[i]
  OBVIOUS
<1> QED  BY <1>1 DEF Covered

-----------------------------------------------------------------------------
\* Extent v of e with its last c units cut off.
Shorter(e, v, c) == [e EXCEPT ![v].size = @ - c]

\* What a cut changes.
LEMMA ShorterIs ==
    ASSUME NEW e \in Seq(ExtentType), NEW v \in DOMAIN e, NEW c \in Nat,
           c <= e[v].size
    PROVE  /\ Shorter(e, v, c) \in Seq(ExtentType)
           /\ DOMAIN Shorter(e, v, c) = DOMAIN e
           /\ \A i \in DOMAIN e :
                 /\ Shorter(e, v, c)[i].owner = e[i].owner
                 /\ Shorter(e, v, c)[i].start = e[i].start
                 /\ Shorter(e, v, c)[i].used = e[i].used
                 /\ i # v => Shorter(e, v, c)[i].size = e[i].size
           /\ Shorter(e, v, c)[v].size = e[v].size - c
<1> DEFINE x == [e[v] EXCEPT !.size = @ - c]
<1>1. e[v] \in ExtentType
  OBVIOUS
<1>2. /\ x \in ExtentType /\ x.owner = e[v].owner /\ x.start = e[v].start
      /\ x.used = e[v].used /\ x.size = e[v].size - c
  BY <1>1, CutExtent
<1>3. Shorter(e, v, c) = [e EXCEPT ![v] = x]
  BY DEF Shorter
<1> HIDE DEF x
<1>4. [e EXCEPT ![v] = x] \in Seq(ExtentType)
  BY <1>2
<1> QED  BY <1>2, <1>3, <1>4

\* Cutting the free tail off an extent keeps the extents sound and the records
\* covered, and the tail is apart from every extent (the cut of grant_extent).
LEMMA CutTail ==
    ASSUME NEW e, NEW f \in Nat, NEW v \in DOMAIN e, NEW c \in Nat, NEW P,
           Sound(e, f), Covered(e, P), e[v].used + c <= e[v].size
    PROVE  /\ Sound(Shorter(e, v, c), f)
           /\ Covered(Shorter(e, v, c), P)
           /\ e[v].start + e[v].size - c \in Nat
           /\ e[v].start + e[v].size <= f
           /\ \A i \in DOMAIN e :
                 Apart(Shorter(e, v, c)[i].start, ExtentEnd(Shorter(e, v, c)[i]),
                       e[v].start + e[v].size - c, e[v].start + e[v].size)
<1> DEFINE s == Shorter(e, v, c)
<1> USE DEF Sound
<1>1. \A i \in DOMAIN e : /\ e[i].start \in Nat /\ e[i].size \in Nat /\ e[i].used \in Nat
                         /\ ExtentEnd(e[i]) = e[i].start + e[i].size
                         /\ ExtentEnd(e[i]) \in Nat
  <2>1. \A i \in DOMAIN e : e[i] \in ExtentType
    OBVIOUS
  <2> QED  BY <2>1, ExtentFields
<1>2. c <= e[v].size
  BY <1>1
<1>3. /\ s \in Seq(ExtentType) /\ DOMAIN s = DOMAIN e
      /\ \A i \in DOMAIN e : /\ s[i].start = e[i].start /\ s[i].used = e[i].used
                             /\ i # v => s[i].size = e[i].size
      /\ s[v].size = e[v].size - c
  BY <1>2, ShorterIs
<1> HIDE DEF s
<1>4. ASSUME NEW i \in DOMAIN e
      PROVE  ExtentEnd(s[i]) \in Nat /\ ExtentEnd(s[i]) <= ExtentEnd(e[i])
  <2>1. s[i] \in ExtentType /\ e[i] \in ExtentType
    BY <1>3
  <2>2. s[i].size <= e[i].size
    <3>1. CASE i = v
      BY <3>1, <1>1, <1>3
    <3>2. CASE i # v
      BY <3>2, <1>1, <1>3
    <3> QED  BY <3>1, <3>2
  <2>3. s[i].start = e[i].start
    BY <1>3
  <2>4. /\ s[i].start \in Nat /\ s[i].size \in Nat /\ ExtentEnd(s[i]) \in Nat
        /\ ExtentEnd(s[i]) = s[i].start + s[i].size
    BY <2>1, ExtentFields
  <2>5. e[i].size \in Nat /\ ExtentEnd(e[i]) = e[i].start + e[i].size
    BY <2>1, ExtentFields
  <2> QED  BY <2>2, <2>3, <2>4, <2>5
<1>5. Disjoint(s)
  <2> SUFFICES ASSUME NEW i \in DOMAIN e, NEW j \in DOMAIN e, i # j
               PROVE  Apart(s[i].start, ExtentEnd(s[i]), s[j].start, ExtentEnd(s[j]))
    BY <1>3 DEF Disjoint
  <2>1. Apart(e[i].start, ExtentEnd(e[i]), e[j].start, ExtentEnd(e[j]))
    BY DEF Disjoint
  <2>2. /\ s[i].start = e[i].start /\ s[j].start = e[j].start
        /\ e[i].start \in Nat /\ e[j].start \in Nat
        /\ ExtentEnd(e[i]) \in Nat /\ ExtentEnd(e[j]) \in Nat
    BY <1>1, <1>3
  <2>3. /\ ExtentEnd(s[i]) \in Nat /\ ExtentEnd(s[i]) <= ExtentEnd(e[i])
        /\ ExtentEnd(s[j]) \in Nat /\ ExtentEnd(s[j]) <= ExtentEnd(e[j])
    BY <1>4
  <2> QED  BY <2>1, <2>2, <2>3 DEF Apart
<1>6. Fit(s)
  <2> SUFFICES ASSUME NEW i \in DOMAIN e PROVE s[i].used <= s[i].size
    BY <1>3 DEF Fit
  <2>1. CASE i = v
    BY <2>1, <1>1, <1>3
  <2>2. CASE i # v
    <3>1. e[i].used <= e[i].size
      BY DEF Fit
    <3> QED  BY <2>2, <3>1, <1>3
  <2> QED  BY <2>1, <2>2
<1>7. Inside(s, f)
  <2> SUFFICES ASSUME NEW i \in DOMAIN e PROVE ExtentEnd(s[i]) <= f
    BY <1>3 DEF Inside
  <2>1. ExtentEnd(e[i]) <= f /\ ExtentEnd(e[i]) \in Nat
    BY <1>1 DEF Inside
  <2> QED  BY <1>4, <2>1
<1>8. Covered(s, P)
  BY <1>3 DEF Covered, In
<1>9. ASSUME NEW i \in DOMAIN e
      PROVE  Apart(s[i].start, ExtentEnd(s[i]),
                   e[v].start + e[v].size - c, e[v].start + e[v].size)
  <2>1. CASE i = v
    BY <2>1, <1>1, <1>3 DEF Apart, ExtentEnd
  <2>2. CASE i # v
    <3>1. Apart(e[i].start, ExtentEnd(e[i]), e[v].start, ExtentEnd(e[v]))
      BY <2>2 DEF Disjoint
    <3> QED  BY <3>1, <2>2, <1>1, <1>2, <1>3 DEF Apart, ExtentEnd
  <2> QED  BY <2>1, <2>2
<1> QED  BY <1>1, <1>2, <1>3, <1>5, <1>6, <1>7, <1>8, <1>9 DEF s, Inside, ExtentEnd

-----------------------------------------------------------------------------
\* Extent v of e with c more units used.
Fuller(e, v, c) == [e EXCEPT ![v].used = @ + c]

\* What using bytes changes.
LEMMA FullerIs ==
    ASSUME NEW e \in Seq(ExtentType), NEW v \in DOMAIN e, NEW c \in Nat
    PROVE  /\ Fuller(e, v, c) \in Seq(ExtentType)
           /\ DOMAIN Fuller(e, v, c) = DOMAIN e
           /\ \A i \in DOMAIN e :
                 /\ Fuller(e, v, c)[i].owner = e[i].owner
                 /\ Fuller(e, v, c)[i].start = e[i].start
                 /\ Fuller(e, v, c)[i].size = e[i].size
                 /\ i # v => Fuller(e, v, c)[i].used = e[i].used
           /\ Fuller(e, v, c)[v].used = e[v].used + c
<1> DEFINE x == [e[v] EXCEPT !.used = @ + c]
<1>1. e[v] \in ExtentType
  OBVIOUS
<1>2. /\ x \in ExtentType /\ x.owner = e[v].owner /\ x.start = e[v].start
      /\ x.size = e[v].size /\ x.used = e[v].used + c
  BY <1>1, UseExtent
<1>3. Fuller(e, v, c) = [e EXCEPT ![v] = x]
  BY DEF Fuller
<1> HIDE DEF x
<1>4. [e EXCEPT ![v] = x] \in Seq(ExtentType)
  BY <1>2
<1> QED  BY <1>2, <1>3, <1>4

\* Using bytes that the extent has keeps the extents sound.
LEMMA UseBytes ==
    ASSUME NEW e, NEW f \in Nat, NEW v \in DOMAIN e, NEW c \in Nat,
           Sound(e, f), e[v].used + c <= e[v].size
    PROVE  Sound(Fuller(e, v, c), f)
<1> DEFINE s == Fuller(e, v, c)
<1>1. e \in Seq(ExtentType) /\ Disjoint(e) /\ Fit(e) /\ Inside(e, f)
  BY DEF Sound
<1>2. /\ s \in Seq(ExtentType) /\ DOMAIN s = DOMAIN e
      /\ \A i \in DOMAIN e : /\ s[i].start = e[i].start /\ s[i].size = e[i].size
                             /\ i # v => s[i].used = e[i].used
      /\ s[v].used = e[v].used + c
  BY <1>1, FullerIs
<1> HIDE DEF s
<1>3. \A i \in DOMAIN e : ExtentEnd(s[i]) = ExtentEnd(e[i])
  BY <1>2 DEF ExtentEnd
<1>4. Disjoint(s)
  BY <1>1, <1>2, <1>3 DEF Disjoint
<1>5. Inside(s, f)
  BY <1>1, <1>2, <1>3 DEF Inside
<1>6. Fit(s)
  <2> SUFFICES ASSUME NEW i \in DOMAIN e PROVE s[i].used <= s[i].size
    BY <1>2 DEF Fit
  <2>1. CASE i = v
    BY <2>1, <1>2
  <2>2. CASE i # v
    BY <2>2, <1>1, <1>2 DEF Fit
  <2> QED  BY <2>1, <2>2
<1> QED  BY <1>2, <1>4, <1>5, <1>6 DEF s, Sound

\* A record in the used part of an extent and one behind the used part of the same
\* or another extent are apart.
LEMMA BehindUsed ==
    ASSUME NEW x \in ExtentType, NEW y \in ExtentType,
           NEW q \in RecordType, NEW r \in RecordType,
           In(q, x), x.used <= x.size,
           y.start + y.used <= r.off, r.off + r.len <= y.start + y.size,
           x = y \/ Apart(x.start, ExtentEnd(x), y.start, ExtentEnd(y))
    PROVE  RecordsApart(q, r) /\ RecordsApart(r, q)
<1>1. /\ x.start \in Nat /\ x.size \in Nat /\ x.used \in Nat
      /\ y.start \in Nat /\ y.size \in Nat /\ y.used \in Nat
  BY ExtentFields
<1>2. q.off \in Nat /\ q.len \in Nat /\ r.off \in Nat /\ r.len \in Nat
  BY BucketAssumption DEF RecordType
<1>3. x.start <= q.off /\ q.off + q.len <= x.start + x.used
  BY DEF In
<1>4. q.off + q.len <= r.off \/ r.off + r.len <= q.off
  <2>1. CASE x = y
    BY <1>1, <1>2, <1>3, <2>1
  <2>2. CASE x.start + x.size <= y.start
    BY <1>1, <1>2, <1>3, <2>2
  <2>3. CASE y.start + y.size <= x.start
    BY <1>1, <1>2, <1>3, <2>3
  <2> QED  BY <2>1, <2>2, <2>3 DEF Apart, ExtentEnd
<1> QED  BY <1>4 DEF RecordsApart, Apart

\* A record put behind the used part of extent v is apart from every record that
\* some extent covers.
LEMMA FreshRecord ==
    ASSUME NEW e, NEW f \in Nat, NEW v \in DOMAIN e, NEW P \in Seq(RecordType),
           NEW r \in RecordType, Sound(e, f), Covered(e, P),
           e[v].start + e[v].used <= r.off, r.off + r.len <= e[v].start + e[v].size,
           NEW n \in DOMAIN P
    PROVE  RecordsApart(P[n], r) /\ RecordsApart(r, P[n])
<1>1. PICK i \in DOMAIN e : In(P[n], e[i])
  BY DEF Covered
<1>2. e[i] \in ExtentType /\ e[v] \in ExtentType /\ P[n] \in RecordType
  BY DEF Sound
<1>3. e[i].used <= e[i].size
  BY DEF Sound, Fit
<1>4. e[i] = e[v] \/ Apart(e[i].start, ExtentEnd(e[i]), e[v].start, ExtentEnd(e[v]))
  BY DEF Sound, Disjoint
<1> QED  BY <1>1, <1>2, <1>3, <1>4, BehindUsed

\* A record stays in an extent of which more is used.
LEMMA InGrows ==
    ASSUME NEW x \in ExtentType, NEW y \in ExtentType, NEW q \in RecordType,
           In(q, x), y.start = x.start, x.used <= y.used
    PROVE  In(q, y)
<1>1. x.start \in Nat /\ x.used \in Nat /\ y.used \in Nat
  BY ExtentFields
<1>2. q.off \in Nat /\ q.len \in Nat
  BY BucketAssumption DEF RecordType
<1> QED  BY <1>1, <1>2 DEF In

\* The record that place_bytes adds.
LEMMA PlaceRecord ==
    ASSUME NEW e, NEW f \in Nat, NEW v \in DOMAIN e, NEW P \in Seq(RecordType),
           NEW c \in Lens, Sound(e, f), Covered(e, P),
           e[v].used + c <= e[v].size,
           \A m, n \in DOMAIN P : m # n => RecordsApart(P[m], P[n])
    PROVE  LET r == [off |-> e[v].start + e[v].used, len |-> c]
               Q == Append(P, r)
           IN  /\ Sound(Fuller(e, v, c), f)
               /\ Q \in Seq(RecordType)
               /\ Covered(Fuller(e, v, c), Q)
               /\ \A m, n \in DOMAIN Q : m # n => RecordsApart(Q[m], Q[n])
<1> DEFINE r == [off |-> e[v].start + e[v].used, len |-> c]
<1> DEFINE Q == Append(P, r)
<1> DEFINE s == Fuller(e, v, c)
<1>1. c \in Nat /\ e \in Seq(ExtentType) /\ e[v] \in ExtentType
  BY BucketAssumption DEF Sound
<1>2. e[v].start \in Nat /\ e[v].size \in Nat /\ e[v].used \in Nat
  BY <1>1, ExtentFields
<1>3. r \in RecordType /\ r.off = e[v].start + e[v].used /\ r.len = c
  BY <1>2 DEF RecordType
<1>4. /\ s \in Seq(ExtentType) /\ DOMAIN s = DOMAIN e
      /\ \A i \in DOMAIN e : /\ s[i].start = e[i].start
                             /\ i # v => s[i].used = e[i].used
      /\ s[v].used = e[v].used + c
  BY <1>1, FullerIs
<1>5. Sound(s, f)
  BY <1>1, UseBytes
<1> HIDE DEF r, s
<1>6. /\ Q \in Seq(RecordType) /\ DOMAIN P = 1 .. Len(P) /\ DOMAIN Q = 1 .. Len(P) + 1
      /\ Len(P) \in Nat /\ Q[Len(P) + 1] = r /\ \A i \in DOMAIN P : Q[i] = P[i]
  BY <1>3
<1>7. \A n \in DOMAIN Q : n \in DOMAIN P \/ n = Len(P) + 1
  BY <1>6
<1> HIDE DEF Q
<1>8. \A n \in DOMAIN P : RecordsApart(P[n], r) /\ RecordsApart(r, P[n])
  <2>1. e[v].start + e[v].used <= r.off /\ r.off + r.len <= e[v].start + e[v].size
    BY <1>1, <1>2, <1>3
  <2> QED  BY <1>3, <2>1, FreshRecord
<1>9. \A m, n \in DOMAIN Q : m # n => RecordsApart(Q[m], Q[n])
  BY <1>6, <1>7, <1>8
<1>10. Covered(s, Q)
  <2> SUFFICES ASSUME NEW n \in DOMAIN Q PROVE \E i \in DOMAIN s : In(Q[n], s[i])
    BY DEF Covered
  <2>1. CASE n = Len(P) + 1
    <3>1. s[v].start <= r.off /\ r.off + r.len <= s[v].start + s[v].used
      BY <1>1, <1>2, <1>3, <1>4
    <3> QED  BY <2>1, <3>1, <1>4, <1>6 DEF In
  <2>2. CASE n \in DOMAIN P
    <3>1. PICK i \in DOMAIN e : In(P[n], e[i])
      BY <2>2 DEF Covered
    <3>2. P[n] \in RecordType /\ e[i] \in ExtentType /\ s[i] \in ExtentType
      BY <2>2, <1>1, <1>4
    <3>3. s[i].start = e[i].start /\ e[i].used <= s[i].used
      <4>1. CASE i = v
        BY <4>1, <1>1, <1>2, <1>4
      <4>2. CASE i # v
        <5>1. e[i].used \in Nat
          BY <3>2, ExtentFields
        <5> QED  BY <4>2, <5>1, <1>4
      <4> QED  BY <4>1, <4>2
    <3>4. In(P[n], s[i])
      BY <3>1, <3>2, <3>3, InGrows
    <3> QED  BY <3>4, <2>2, <1>4, <1>6
  <2> QED  BY <1>7, <2>1, <2>2
<1> QED  BY <1>5, <1>6, <1>9, <1>10 DEF r, Q, s

\* A new extent behind or between the others, with nothing in use or with the
\* record that asked for it.
LEMMA NewExtent ==
    ASSUME NEW e, NEW f \in Nat, NEW g \in Nat, NEW P \in Seq(RecordType),
           NEW b \in Buckets, NEW st \in Nat, NEW sz \in Nat, NEW u \in Nat,
           Sound(e, f), Covered(e, P), f <= g, st + sz <= g, u <= sz,
           \A i \in DOMAIN e : Apart(e[i].start, ExtentEnd(e[i]), st, st + sz)
    PROVE  LET a == Append(e, [owner |-> b, start |-> st, size |-> sz, used |-> u])
           IN  Sound(a, g) /\ Covered(a, P)
<1> DEFINE x == [owner |-> b, start |-> st, size |-> sz, used |-> u]
<1>1. x \in ExtentType /\ x.used = u /\ x.size = sz /\ x.start = st
  BY DEF ExtentType
<1>2. ExtentEnd(x) = st + sz
  BY <1>1 DEF ExtentEnd
<1>3. e \in Seq(ExtentType)
  BY DEF Sound
<1> HIDE DEF x
<1>4. Sound(Append(e, x), g)
  BY <1>1, <1>2, AddExtent
<1>5. Covered(Append(e, x), P)
  BY <1>1, <1>3, AddKeepsCover
<1> QED  BY <1>4, <1>5 DEF x

LEMMA NewExtentPlaced ==
    ASSUME NEW e, NEW f \in Nat, NEW g \in Nat, NEW P \in Seq(RecordType),
           NEW b \in Buckets, NEW st \in Nat, NEW sz \in Nat, NEW c \in Lens,
           Sound(e, f), Covered(e, P), f <= g, st + sz <= g, c <= sz,
           \A i \in DOMAIN e : Apart(e[i].start, ExtentEnd(e[i]), st, st + sz),
           \A m, n \in DOMAIN P : m # n => RecordsApart(P[m], P[n])
    PROVE  LET a == Append(e, [owner |-> b, start |-> st, size |-> sz, used |-> c])
               Q == Append(P, [off |-> st, len |-> c])
           IN  /\ Sound(a, g) /\ Covered(a, Q) /\ Q \in Seq(RecordType)
               /\ \A m, n \in DOMAIN Q : m # n => RecordsApart(Q[m], Q[n])
<1> DEFINE x == [owner |-> b, start |-> st, size |-> sz, used |-> 0]
<1> DEFINE y == [owner |-> b, start |-> st, size |-> sz, used |-> c]
<1> DEFINE a == Append(e, x)
<1> DEFINE v == Len(e) + 1
<1>1. c \in Nat /\ e \in Seq(ExtentType)
  BY BucketAssumption DEF Sound
<1>2. Sound(a, g) /\ Covered(a, P)
  BY NewExtent
<1>3. /\ x \in ExtentType /\ y \in ExtentType
      /\ x.start = st /\ x.size = sz /\ x.used = 0 /\ y = [x EXCEPT !.used = @ + c]
  <2>1. x \in ExtentType /\ y \in ExtentType
    BY <1>1 DEF ExtentType
  <2>2. x.start = st /\ x.size = sz /\ x.used = 0
    OBVIOUS
  <2>3. x.used + c = c
    BY <1>1, <2>2
  <2>4. [x EXCEPT !.used = c] = y
    OBVIOUS
  <2> QED  BY <2>1, <2>2, <2>3, <2>4
<1> HIDE DEF x, y
<1>4. v \in DOMAIN a /\ a[v] = x
  BY <1>1, <1>3
<1>5. Fuller(a, v, c) = Append(e, y)
  <2>1. Fuller(a, v, c) = [a EXCEPT ![v] = y]
    BY <1>3, <1>4 DEF Fuller
  <2>2. [a EXCEPT ![v] = y] = Append(e, y)
    <3> DEFINE s == [a EXCEPT ![v] = y]
    <3> DEFINE z == Append(e, y)
    <3>1. s \in Seq(ExtentType) /\ z \in Seq(ExtentType)
      BY <1>1, <1>3
    <3>2. Len(s) = Len(z)
      BY <1>1, <1>3
    <3>3. ASSUME NEW i \in 1 .. Len(z) PROVE s[i] = z[i]
      <4>1. Len(e) \in Nat /\ Len(z) = Len(e) + 1 /\ DOMAIN a = 1 .. Len(e) + 1
        BY <1>1, <1>3
      <4>2. CASE i = Len(e) + 1
        BY <1>1, <1>3, <4>1, <4>2
      <4>3. CASE i \in 1 .. Len(e)
        <5>1. z[i] = e[i] /\ a[i] = e[i] /\ i # v
          BY <1>1, <1>3, <4>3
        <5>2. s[i] = a[i]
          BY <5>1, <4>1
        <5> QED  BY <5>1, <5>2
      <4> QED  BY <4>1, <4>2, <4>3
    <3> HIDE DEF s, z
    <3>4. s = z
      BY <3>1, <3>2, <3>3
    <3> QED  BY <3>4 DEF s, z
  <2> QED  BY <2>1, <2>2
<1>6. a[v].start + a[v].used = st /\ a[v].used + c <= a[v].size
  BY <1>1, <1>3, <1>4
<1> HIDE DEF a, v
<1>7. /\ Sound(Fuller(a, v, c), g)
      /\ Append(P, [off |-> st, len |-> c]) \in Seq(RecordType)
      /\ Covered(Fuller(a, v, c), Append(P, [off |-> st, len |-> c]))
      /\ \A m, n \in DOMAIN Append(P, [off |-> st, len |-> c]) :
            m # n => RecordsApart(Append(P, [off |-> st, len |-> c])[m],
                                  Append(P, [off |-> st, len |-> c])[n])
  <2>1. /\ Sound(Fuller(a, v, c), g)
        /\ Append(P, [off |-> a[v].start + a[v].used, len |-> c]) \in Seq(RecordType)
        /\ Covered(Fuller(a, v, c), Append(P, [off |-> a[v].start + a[v].used, len |-> c]))
        /\ \A m, n \in DOMAIN Append(P, [off |-> a[v].start + a[v].used, len |-> c]) :
              m # n => RecordsApart(Append(P, [off |-> a[v].start + a[v].used, len |-> c])[m],
                                    Append(P, [off |-> a[v].start + a[v].used, len |-> c])[n])
    BY <1>2, <1>4, <1>6, PlaceRecord, Zenon
  <2> QED  BY <2>1, <1>6
<1> QED  BY <1>5, <1>7 DEF y

-----------------------------------------------------------------------------
(* The inductive invariant. *)

Active == {"grant_new", "grant_more", "region", "place", "number"}

\* ExtentsDisjoint and RecordsDisjoint with what keeps them: every extent lies in
\* the file and is not overfull, every record lies in the used part of an extent,
\* and before the first grant there is nothing.
BInv ==
    /\ grantCount \in Nat /\ fileSize \in Nat /\ fileSize >= PAGE
    /\ placed \in Seq(RecordType)
    /\ Sound(ext, fileSize) /\ Covered(ext, placed) /\ RecordsDisjoint
    /\ grantCount = 0 => ext = <<>>
    /\ pc = "grant_more" => grantCount > 0
    /\ pc \in Active => call.bucket \in Buckets /\ call.len \in Lens

\* The last extent of a bucket that has one.
LEMMA LastExtentIn ==
    ASSUME ext \in Seq(ExtentType), NEW b, Owned(b) # {}
    PROVE  LastExtent(b) \in DOMAIN ext
<1>1. Owned(b) \subseteq 1 .. Len(ext) /\ Len(ext) \in Nat /\ DOMAIN ext = 1 .. Len(ext)
  BY DEF Owned
<1>2. \E i \in Owned(b) : \A j \in Owned(b) : j <= i
  BY <1>1, LastExists
<1>3. LastExtent(b) \in Owned(b)
  BY <1>2 DEF LastExtent
<1> QED  BY <1>1, <1>3

\* An extent that is asked for is long enough for the record (required_extent_size),
\* and a grown or cut one no shorter.
LEMMA NeedCovers ==
    ASSUME call.len \in Lens
    PROVE  /\ need \in Nat /\ call.len <= need /\ call.len \in Nat
           /\ grow \in Nat /\ need <= grow
<1>1. call.len \in Nat
  BY BucketAssumption
<1>2. PageUp(call.len) \in Nat /\ call.len <= PageUp(call.len)
  BY <1>1, PageBounds
<1>3. need \in Nat /\ call.len <= need
  BY <1>1, <1>2, BucketAssumption DEF need, required_extent_size
<1> QED  BY <1>1, <1>3, BucketAssumption DEF grow

\* A cut leaves the used part of the extent alone (the free computed in grant_extent).
LEMMA CutFits ==
    ASSUME NEW x \in ExtentType, x.used <= x.size, need \in Nat, Free(x) >= need
    PROVE  /\ Cut(Free(x)) \in Nat /\ need <= Cut(Free(x))
           /\ x.used + Cut(Free(x)) <= x.size
<1>1. x.size \in Nat /\ x.used \in Nat
  BY ExtentFields
<1>2. PageUp(x.used) \in Nat /\ x.used <= PageUp(x.used)
  BY <1>1, PageBounds
<1>3. Free(x) \in Nat /\ x.used + Free(x) <= x.size
  BY <1>1, <1>2 DEF Free
<1>4. Free(x) \div 2 \in Nat /\ Free(x) \div 2 <= Free(x)
  BY <1>3
<1>5. PageDown(Free(x) \div 2) \in Nat /\ PageDown(Free(x) \div 2) <= Free(x) \div 2
  BY <1>4, PageBounds
<1>6. Cut(Free(x)) \in Nat /\ need <= Cut(Free(x)) /\ Cut(Free(x)) <= Free(x)
  BY <1>3, <1>4, <1>5 DEF Cut
<1> QED  BY <1>1, <1>3, <1>6

\* The end of grant_extent and the place_bytes that called it, for any extents e
\* that are left and any new one apart from them.
LEMMA GrantPreserves ==
    ASSUME BInv, Granting, NEW e, NEW st \in Nat, NEW sz \in Nat, fileSize' \in Nat,
           fileSize <= fileSize', Sound(e, fileSize), Covered(e, placed),
           st + sz <= fileSize', pc = "grant_more" => call.len <= sz,
           \A i \in DOMAIN e : Apart(e[i].start, ExtentEnd(e[i]), st, st + sz),
           Grant(e, [start |-> st, size |-> sz])
    PROVE  BInv'
<1>1. /\ grantCount' = grantCount + 1 /\ grantCount' \in Nat /\ grantCount' # 0
      /\ call' = call /\ pc' \in {"number", "region"}
  BY DEF BInv, Grant
<1>2. call.bucket \in Buckets /\ call.len \in Lens
  BY DEF BInv, Granting, Active
<1>3. fileSize' >= PAGE
  BY PageAssumption DEF BInv
<1>4. /\ placed \in Seq(RecordType) /\ fileSize \in Nat
      /\ \A m, n \in DOMAIN placed : m # n => RecordsApart(placed[m], placed[n])
  BY DEF BInv, RecordsDisjoint, RecordsApart
<1>5. /\ placed' \in Seq(RecordType) /\ Sound(ext', fileSize') /\ Covered(ext', placed')
      /\ \A m, n \in DOMAIN placed' : m # n => RecordsApart(placed'[m], placed'[n])
  <2>1. CASE pc = "grant_more"
    <3>1. /\ ext' = Append(e, [owner |-> call.bucket, start |-> st, size |-> sz, used |-> call.len])
          /\ placed' = Append(placed, [off |-> st, len |-> call.len])
      BY <2>1 DEF Grant
    <3>2. call.len <= sz
      BY <2>1
    <3> DEFINE a == Append(e, [owner |-> call.bucket, start |-> st, size |-> sz, used |-> call.len])
    <3> DEFINE Q == Append(placed, [off |-> st, len |-> call.len])
    <3>3. /\ Sound(a, fileSize') /\ Covered(a, Q) /\ Q \in Seq(RecordType)
          /\ \A m, n \in DOMAIN Q : m # n => RecordsApart(Q[m], Q[n])
      BY <1>2, <1>4, <3>2, NewExtentPlaced, Zenon
    <3>4. ext' = a /\ placed' = Q
      BY <3>1
    <3> HIDE DEF a, Q
    <3> QED  BY <3>3, <3>4
  <2>2. CASE pc # "grant_more"
    <3>1. /\ ext' = Append(e, [owner |-> call.bucket, start |-> st, size |-> sz, used |-> 0])
          /\ placed' = placed
      BY <2>2 DEF Grant
    <3>2. 0 <= sz /\ 0 \in Nat
      OBVIOUS
    <3>3. Sound(ext', fileSize') /\ Covered(ext', placed)
      BY <1>2, <1>4, <3>1, <3>2, NewExtent, Zenon
    <3> QED  BY <1>4, <3>1, <3>3
  <2> QED  BY <2>1, <2>2
<1>6. RecordsDisjoint'
  BY <1>5 DEF RecordsDisjoint, RecordsApart
<1> QED  BY <1>1, <1>2, <1>3, <1>5, <1>6 DEF BInv, Active

\* A step that leaves extents and records alone and only moves the call or the
\* counter.
LEMMA QuietPreserves ==
    ASSUME BInv, ext' = ext, fileSize' = fileSize, placed' = placed,
           grantCount' \in Nat, grantCount' = 0 => grantCount = 0,
           pc' = "grant_more" => grantCount' > 0,
           pc' \in Active => call'.bucket \in Buckets /\ call'.len \in Lens
    PROVE  BInv'
BY DEF BInv, RecordsDisjoint

\* It is an inductive invariant of the calls.
LEMMA BInvStep ==
    ASSUME BInv, [Alloc]_vars
    PROVE  BInv'
<1>0. /\ grantCount \in Nat /\ fileSize \in Nat /\ PAGE \in Nat /\ fileSize >= PAGE
      /\ Sound(ext, fileSize) /\ ext \in Seq(ExtentType)
      /\ Covered(ext, placed) /\ placed \in Seq(RecordType)
  BY PageAssumption DEF BInv, Sound
<1>1. ASSUME NEW b \in Buckets, NEW len \in Lens, Insert(b, len)
      PROVE  BInv'
  <2>1. /\ UNCHANGED <<ext, fileSize, placed, grantCount>> /\ pc' \in {"place", "grant_new"}
        /\ call'.bucket = b /\ call'.len = len
    BY <1>1 DEF Insert, history
  <2> QED  BY <1>0, <2>1, QuietPreserves
<1>2. ASSUME NEW b \in Buckets, NEW len \in Lens, Update(b, len)
      PROVE  BInv'
  <2>1. /\ UNCHANGED <<ext, fileSize, placed, grantCount>> /\ pc' = "place"
        /\ call'.bucket = b /\ call'.len = len
    BY <1>2 DEF Update, history, allocator
  <2> QED  BY <1>0, <2>1, QuietPreserves
<1>3. CASE FirstGrant
  <2>1. /\ Granting /\ ext = <<>> /\ pc # "grant_more" /\ fileSize' = fileSize
        /\ Grant(ext, [start |-> PAGE, size |-> fileSize - PAGE])
    BY <1>3 DEF FirstGrant, BInv
  <2>2. fileSize - PAGE \in Nat /\ PAGE + (fileSize - PAGE) <= fileSize'
    BY <1>0, <2>1
  <2>3. DOMAIN ext = {}
    BY <2>1
  <2> QED  BY <1>0, <2>1, <2>2, <2>3, GrantPreserves
<1>4. CASE Grow
  <2>1. /\ Granting /\ fileSize' = fileSize + grow
        /\ Grant(ext, [start |-> fileSize, size |-> grow])
    BY <1>4 DEF Grow
  <2>2. call.len \in Lens
    BY <2>1 DEF BInv, Granting, Active
  <2>3. grow \in Nat /\ call.len <= grow
    BY <2>2, NeedCovers
  <2>4. fileSize' \in Nat /\ fileSize <= fileSize' /\ fileSize + grow <= fileSize'
    BY <1>0, <2>1, <2>3
  <2>5. ASSUME NEW i \in DOMAIN ext
        PROVE  Apart(ext[i].start, ExtentEnd(ext[i]), fileSize, fileSize + grow)
    BY <1>0 DEF Sound, Inside, Apart
  <2> QED  BY <1>0, <2>1, <2>3, <2>4, <2>5, GrantPreserves
<1>5. CASE GrowFails
  <2>1. /\ UNCHANGED <<ext, fileSize, placed>> /\ pc' = "idle" /\ grantCount' = grantCount + 1
    BY <1>5 DEF GrowFails, history
  <2> QED  BY <1>0, <2>1, QuietPreserves DEF Active
<1>6. CASE Split
  <2> DEFINE v == LastExtent(victim)
  <2> DEFINE c == Cut(Free(ext[v]))
  <2>1. /\ Granting /\ Owned(victim) # {} /\ Free(ext[v]) >= need /\ fileSize' = fileSize
        /\ Grant(Shorter(ext, v, c), [start |-> ext[v].start + ext[v].size - c, size |-> c])
    BY <1>6 DEF Split, Shorter
  <2>2. v \in DOMAIN ext
    BY <1>0, <2>1, LastExtentIn
  <2> HIDE DEF v
  <2>3. ext[v] \in ExtentType /\ ext[v].used <= ext[v].size
    BY <1>0, <2>2 DEF Sound, Fit
  <2>4. call.len \in Lens
    BY <2>1 DEF BInv, Granting, Active
  <2>5. need \in Nat /\ call.len <= need /\ call.len \in Nat
    BY <2>4, NeedCovers
  <2>6. c \in Nat /\ need <= c /\ ext[v].used + c <= ext[v].size
    BY <2>1, <2>3, <2>5, CutFits
  <2> HIDE DEF c
  <2>7. /\ Sound(Shorter(ext, v, c), fileSize) /\ Covered(Shorter(ext, v, c), placed)
        /\ ext[v].start + ext[v].size - c \in Nat
        /\ ext[v].start + ext[v].size <= fileSize
        /\ \A i \in DOMAIN ext :
              Apart(Shorter(ext, v, c)[i].start, ExtentEnd(Shorter(ext, v, c)[i]),
                    ext[v].start + ext[v].size - c, ext[v].start + ext[v].size)
    BY <1>0, <2>2, <2>6, CutTail
  <2>8. call.len <= c
    BY <2>5, <2>6
  <2> DEFINE st == ext[v].start + ext[v].size - c
  <2>9. st \in Nat /\ st + c = ext[v].start + ext[v].size
    <3>1. ext[v].start \in Nat /\ ext[v].size \in Nat
      BY <2>3, ExtentFields
    <3> QED  BY <2>6, <2>7, <3>1
  <2>10. DOMAIN Shorter(ext, v, c) = DOMAIN ext
    <3>1. c <= ext[v].size
      <4>1. ext[v].used \in Nat /\ ext[v].size \in Nat
        BY <2>3, ExtentFields
      <4> QED  BY <2>6, <4>1
    <3> QED  BY <1>0, <2>2, <2>6, <3>1, ShorterIs
  <2>11. \A i \in DOMAIN Shorter(ext, v, c) :
            Apart(Shorter(ext, v, c)[i].start, ExtentEnd(Shorter(ext, v, c)[i]), st, st + c)
    BY <2>7, <2>9, <2>10
  <2>12. Grant(Shorter(ext, v, c), [start |-> st, size |-> c]) /\ st + c <= fileSize'
    BY <2>1, <2>7, <2>9 DEF c
  <2>13. fileSize <= fileSize' /\ fileSize' \in Nat
    BY <1>0, <2>1
  <2> HIDE DEF st
  <2> QED  BY <2>1, <2>6, <2>7, <2>8, <2>9, <2>11, <2>12, <2>13, GrantPreserves
<1>7. CASE Skip
  <2>1. /\ UNCHANGED <<ext, fileSize, placed, pc, call>> /\ grantCount' = grantCount + 1
    BY <1>7 DEF Skip, history
  <2> QED  BY <1>0, <2>1, QuietPreserves DEF BInv
<1>8. CASE NoExtent
  <2>1. UNCHANGED <<ext, fileSize, placed, grantCount>> /\ pc' = "panicked"
    BY <1>8 DEF NoExtent, history, allocator
  <2> QED  BY <1>0, <2>1, QuietPreserves DEF Active
<1>9. CASE Place
  <2> DEFINE v == LastExtent(call.bucket)
  <2>1. /\ pc = "place" /\ Owned(call.bucket) # {} /\ ext[v].used + call.len <= ext[v].size
        /\ ext' = Fuller(ext, v, call.len) /\ pc' = "number"
        /\ placed' = Append(placed, [off |-> ext[v].start + ext[v].used, len |-> call.len])
        /\ UNCHANGED <<fileSize, grantCount, call>>
    BY <1>9 DEF Place, Fuller
  <2>2. v \in DOMAIN ext
    BY <1>0, <2>1, LastExtentIn
  <2> HIDE DEF v
  <2>3. call.bucket \in Buckets /\ call.len \in Lens
    BY <2>1 DEF BInv, Active
  <2>4. \A m, n \in DOMAIN placed : m # n => RecordsApart(placed[m], placed[n])
    BY DEF BInv, RecordsDisjoint, RecordsApart
  <2>5. /\ Sound(ext', fileSize) /\ placed' \in Seq(RecordType) /\ Covered(ext', placed')
        /\ \A m, n \in DOMAIN placed' : m # n => RecordsApart(placed'[m], placed'[n])
    BY <1>0, <2>1, <2>2, <2>3, <2>4, PlaceRecord, Zenon
  <2>6. RecordsDisjoint'
    BY <2>5 DEF RecordsDisjoint, RecordsApart
  <2>7. grantCount # 0
    <3>1. DOMAIN ext # {}
      BY <2>2
    <3> QED  BY <3>1 DEF BInv
  <2> QED  BY <1>0, <2>1, <2>3, <2>5, <2>6, <2>7 DEF BInv
<1>10. CASE PlaceFull
  <2>1. /\ pc = "place" /\ Owned(call.bucket) # {} /\ pc' = "grant_more"
        /\ UNCHANGED <<ext, fileSize, placed, grantCount, call>>
    BY <1>10 DEF PlaceFull, allocator, history
  <2>2. grantCount # 0
    <3>1. ext # <<>>
      BY <2>1 DEF Owned
    <3> QED  BY <3>1 DEF BInv
  <2>3. call.bucket \in Buckets /\ call.len \in Lens
    BY <2>1 DEF BInv, Active
  <2> QED  BY <1>0, <2>1, <2>2, <2>3, QuietPreserves
<1>11. CASE GrantRegion
  <2>1. /\ pc = "region" /\ pc' = "place" /\ UNCHANGED <<ext, fileSize, placed, grantCount, call>>
    BY <1>11 DEF GrantRegion, NewRegion, history
  <2>2. call.bucket \in Buckets /\ call.len \in Lens
    BY <2>1 DEF BInv, Active
  <2> QED  BY <1>0, <2>1, <2>2, QuietPreserves
<1>12. CASE Number \/ UpdateReturns
  <2>1. pc' = "idle" /\ UNCHANGED <<ext, fileSize, placed, grantCount>>
    BY <1>12 DEF Number, UpdateReturns, Return, NewRegion, allocator
  <2> QED  BY <1>0, <2>1, QuietPreserves DEF Active
<1>13. CASE UNCHANGED vars
  <2>1. UNCHANGED <<ext, fileSize, placed, grantCount, pc, call>>
    BY <1>13 DEF vars, allocator, history
  <2> QED  BY <1>0, <2>1, QuietPreserves DEF BInv
<1> QED  BY <1>1, <1>2, <1>3, <1>4, <1>5, <1>6, <1>7, <1>8, <1>9, <1>10, <1>11, <1>12, <1>13
         DEF Alloc, Step, GrantStep

\* A new store has no extents and no records.
LEMMA BInvInit == Init => BInv
<1> SUFFICES ASSUME Init PROVE BInv
  OBVIOUS
<1>1. ext = <<>> /\ placed = <<>> /\ grantCount = 0 /\ fileSize = initial_size /\ pc = "idle"
  BY DEF Init
<1>2. DOMAIN ext = {} /\ DOMAIN placed = {}
  BY <1>1
<1>3. Sound(ext, fileSize) /\ Covered(ext, placed) /\ RecordsDisjoint
  BY <1>1, <1>2 DEF Sound, Disjoint, Fit, Inside, Covered, RecordsDisjoint
<1> QED  BY <1>1, <1>3, BucketAssumption DEF BInv, Active

-----------------------------------------------------------------------------
(* What a replay of the registry makes of its rows. *)

RowType == [kind : {"D", "S"}, bucket : Buckets, start : Nat, size : Nat]

\* An extent and a region of a replay, before the use of them is known.
RawExtent == [owner : Buckets, start : Nat, size : Int, used : Nat]
RawRegion == [owner : Buckets, start : Nat, used : Nat]

Images == [order : Seq(Buckets), ext : Seq(RawExtent), reg : Seq(RawRegion),
           count : Nat, fileSize : Nat, nextRegion : Nat]

Blank == [order |-> <<>>, ext |-> <<>>, reg |-> <<>>, count |-> 0,
          fileSize |-> initial_size, nextRegion |-> 0]

\* The extents e when the one at v ends where st starts.
EndAt(e, v, st) == [e EXCEPT ![v].size = st - e[v].start]

\* The extents of e that contain the row's (shrink_extent looks for the first).
Holders(e, row) == {i \in DOMAIN e : /\ row.start >= e[i].start
                                     /\ row.start + row.size <= ExtentEnd(e[i])}

\* It changes the size of that extent and nothing else.
LEMMA EndAtIs ==
    ASSUME NEW e \in Seq(RawExtent), NEW v, NEW st \in Nat
    PROVE  /\ EndAt(e, v, st) \in Seq(RawExtent) /\ Len(EndAt(e, v, st)) = Len(e)
           /\ \A i \in 1 .. Len(e) :
                 /\ EndAt(e, v, st)[i].owner = e[i].owner
                 /\ EndAt(e, v, st)[i].start = e[i].start
                 /\ EndAt(e, v, st)[i].size = IF i = v THEN st - e[i].start ELSE e[i].size
<1> DEFINE a == EndAt(e, v, st)
<1>1. Len(e) \in Nat /\ DOMAIN e = 1 .. Len(e)
  OBVIOUS
<1>2. a = [i \in 1 .. Len(e) |-> IF i = v THEN [e[v] EXCEPT !.size = st - e[v].start] ELSE e[i]]
  BY <1>1 DEF EndAt
<1>3. ASSUME NEW i \in 1 .. Len(e)
      PROVE  /\ a[i] \in RawExtent /\ a[i].owner = e[i].owner /\ a[i].start = e[i].start
             /\ a[i].size = IF i = v THEN st - e[i].start ELSE e[i].size
  <2>0. e[i] \in RawExtent
    BY <1>1
  <2>1. e[i] \in RawExtent /\ e[i].start \in Nat
    BY <2>0 DEF RawExtent
  <2>2. CASE i = v
    <3>1. a[i] = [e[i] EXCEPT !.size = st - e[i].start] /\ st - e[i].start \in Int
      BY <1>2, <2>1, <2>2
    <3> QED  BY <2>1, <2>2, <3>1 DEF RawExtent
  <2>3. CASE i # v
    BY <1>2, <2>1, <2>3
  <2> QED  BY <2>2, <2>3
<1> HIDE DEF a
<1>4. a \in Seq(RawExtent) /\ Len(a) = Len(e)
  <2>1. \A i \in 1 .. Len(e) : a[i] \in RawExtent
    BY <1>3
  <2>2. a \in [1 .. Len(e) -> RawExtent]
    BY <1>2, <2>1
  <2> QED  BY <1>1, <2>2
<1> QED  BY <1>3, <1>4 DEF a

\* shrink_extent, if no extent contains the row's, if some do, and if one does.
LEMMA ShrinkIs ==
    ASSUME NEW x \in Images, NEW row \in RowType
    PROVE  /\ Holders(x.ext, row) = {} => Shrink(x, row) = x
           /\ Holders(x.ext, row) # {} =>
                 \E v : Shrink(x, row) = [x EXCEPT !.ext = EndAt(x.ext, v, row.start)]
           /\ \A v \in Int : Holders(x.ext, row) = {v} =>
                 Shrink(x, row) = [x EXCEPT !.ext = EndAt(x.ext, v, row.start)]
<1> DEFINE C == Holders(x.ext, row)
           Rank(i) == CHOOSE n \in DOMAIN x.order : x.order[n] = x.ext[i].owner
           first == CHOOSE i \in C : \A j \in C : Rank(i) < Rank(j) \/ (Rank(i) = Rank(j) /\ i <= j)
           ended == [x EXCEPT !.ext = EndAt(x.ext, first, row.start)]
<1>1. Shrink(x, row) = IF C = {} THEN x
                       ELSE [x EXCEPT !.ext[first].size = row.start - x.ext[first].start]
  BY Zenon DEF Shrink, Holders
<1>2. [x EXCEPT !.ext[first].size = row.start - x.ext[first].start] = ended
  <2> HIDE DEF first
  <2> QED  BY DEF EndAt
<1>3. ASSUME NEW v \in Int, C = {v} PROVE first = v
  <2>1. \A j \in C : Rank(v) < Rank(j) \/ (Rank(v) = Rank(j) /\ v <= j)
    <3> HIDE DEF Rank, C
    <3> QED  BY <1>3
  <2> HIDE DEF Rank, C
  <2> QED  BY <1>3, <2>1
<1> HIDE DEF C, first
<1>4. C # {} => Shrink(x, row) = ended
  BY <1>1, <1>2
<1> QED  BY <1>1, <1>3, <1>4 DEF C

\* The image x once its counter and its buckets know of the row.
Counted(x, row) ==
    [x EXCEPT !.count = @ + 1,
              !.order = IF row.bucket \in Range(@) THEN @ ELSE Append(@, row.bucket)]

\* An image with other extents, or with one row more.
LEMMA CountedIs ==
    ASSUME NEW x \in Images, NEW row \in RowType
    PROVE  LET y == Counted(x, row)
           IN  /\ y \in Images /\ y.count = x.count + 1 /\ y.ext = x.ext /\ y.reg = x.reg
               /\ y.fileSize = x.fileSize /\ y.nextRegion = x.nextRegion
<1> DEFINE o == IF row.bucket \in Range(x.order) THEN x.order ELSE Append(x.order, row.bucket)
           y == [x EXCEPT !.count = x.count + 1, !.order = o]
<1>1. x.order \in Seq(Buckets) /\ row.bucket \in Buckets /\ x.count + 1 \in Nat
  BY DEF Images, RowType
<1>2. o \in Seq(Buckets)
  BY <1>1
<1>3. Counted(x, row) = y
  BY DEF Counted, Images
<1> HIDE DEF o
<1>4. /\ y \in Images /\ y.count = x.count + 1 /\ y.ext = x.ext /\ y.reg = x.reg
      /\ y.fileSize = x.fileSize /\ y.nextRegion = x.nextRegion
  BY <1>1, <1>2 DEF Images
<1> QED  BY <1>3, <1>4

\* A region row adds a region.
LEMMA ReplayRegion ==
    ASSUME NEW x \in Images, NEW row \in RowType, row.kind = "S"
    PROVE  LET y == ReplayRow(x, row)
               end == row.start + row.size
           IN  /\ y \in Images /\ y.count = x.count + 1 /\ y.ext = x.ext
               /\ y.reg = Append(x.reg, [owner |-> row.bucket, start |-> row.start, used |-> 0])
               /\ y.fileSize = x.fileSize
               /\ y.nextRegion = IF end > x.nextRegion THEN end ELSE x.nextRegion
<1> DEFINE y == Counted(x, row)
           end == row.start + row.size
           nr == IF end > y.nextRegion THEN end ELSE y.nextRegion
           r == Append(y.reg, [owner |-> row.bucket, start |-> row.start, used |-> 0])
           z == [y EXCEPT !.nextRegion = nr, !.reg = r]
<1>1. /\ y \in Images /\ y.count = x.count + 1 /\ y.ext = x.ext /\ y.reg = x.reg
      /\ y.fileSize = x.fileSize /\ y.nextRegion = x.nextRegion
  BY CountedIs
<1>2. row.bucket \in Buckets /\ row.start \in Nat /\ row.size \in Nat
  BY DEF RowType
<1> HIDE DEF y
<1>3. nr \in Nat
  BY <1>1, <1>2 DEF Images
<1>4. r \in Seq(RawRegion)
  <2>1. [owner |-> row.bucket, start |-> row.start, used |-> 0] \in RawRegion
    BY <1>2 DEF RawRegion
  <2>2. y.reg \in Seq(RawRegion)
    BY <1>1 DEF Images
  <2> QED  BY <2>1, <2>2
<1>5. ReplayRow(x, row) = z
  BY <1>1 DEF ReplayRow, Counted, y, Images
<1> HIDE DEF r, nr
<1>6. z \in Images /\ z.count = y.count /\ z.ext = y.ext /\ z.reg = r /\ z.fileSize = y.fileSize
      /\ z.nextRegion = nr
  BY <1>1, <1>3, <1>4 DEF Images
<1> QED  BY <1>1, <1>5, <1>6 DEF r, nr

\* An extent row adds an extent behind the extents e that shrink_extent leaves.
LEMMA ReplayExtent ==
    ASSUME NEW x \in Images, NEW row \in RowType, row.kind = "D"
    PROVE  \E e \in Seq(RawExtent) :
              LET y == ReplayRow(x, row)
                  end == row.start + row.size
              IN  /\ y \in Images /\ y.count = x.count + 1 /\ y.reg = x.reg
                  /\ y.ext = Append(e, [owner |-> row.bucket, start |-> row.start,
                                        size |-> row.size, used |-> 0])
                  /\ y.fileSize = IF end > x.fileSize THEN end ELSE x.fileSize
                  /\ y.nextRegion = x.nextRegion
                  /\ Holders(x.ext, row) = {} => e = x.ext
                  /\ \A v \in Int : Holders(x.ext, row) = {v} => e = EndAt(x.ext, v, row.start)
<1> DEFINE y == Counted(x, row)
           w == Shrink(y, row)
           end == row.start + row.size
           f == IF end > w.fileSize THEN end ELSE w.fileSize
           new == [owner |-> row.bucket, start |-> row.start, size |-> row.size, used |-> 0]
           e == Append(w.ext, new)
           z == [w EXCEPT !.fileSize = f, !.ext = e]
<1>1. /\ y \in Images /\ y.count = x.count + 1 /\ y.ext = x.ext /\ y.reg = x.reg
      /\ y.fileSize = x.fileSize /\ y.nextRegion = x.nextRegion
  BY CountedIs
<1>2. row.bucket \in Buckets /\ row.start \in Nat /\ row.size \in Nat
  BY DEF RowType
<1>3. ReplayRow(x, row) = z
  <2>1. ReplayRow(x, row) = [w EXCEPT !.fileSize = IF end > @ THEN end ELSE @,
                                      !.ext = Append(@, new)]
    BY Zenon DEF ReplayRow, Counted
  <2> HIDE DEF w
  <2> QED  BY <2>1
<1> HIDE DEF y
<1>4. y.ext \in Seq(RawExtent) /\ y \in Images
  BY <1>1 DEF Images
<1>5. /\ w \in Images /\ w.count = y.count /\ w.reg = y.reg /\ w.fileSize = y.fileSize
      /\ w.nextRegion = y.nextRegion
      /\ Holders(y.ext, row) = {} => w.ext = y.ext
      /\ \A v \in Int : Holders(y.ext, row) = {v} => w.ext = EndAt(y.ext, v, row.start)
  <2>1. ASSUME NEW a \in Seq(RawExtent)
        PROVE  LET u == [y EXCEPT !.ext = a]
               IN  /\ u \in Images /\ u.count = y.count /\ u.reg = y.reg /\ u.ext = a
                   /\ u.fileSize = y.fileSize /\ u.nextRegion = y.nextRegion
    BY <1>4 DEF Images
  <2>2. \A v : EndAt(y.ext, v, row.start) \in Seq(RawExtent)
    BY <1>2, <1>4, EndAtIs
  <2>3. /\ Holders(y.ext, row) = {} => w = y
        /\ Holders(y.ext, row) # {} => \E v : w = [y EXCEPT !.ext = EndAt(y.ext, v, row.start)]
        /\ \A v \in Int : Holders(y.ext, row) = {v} =>
                 w = [y EXCEPT !.ext = EndAt(y.ext, v, row.start)]
    BY <1>4, ShrinkIs
  <2> HIDE DEF w
  <2>4. CASE Holders(y.ext, row) = {}
    BY <1>4, <2>3, <2>4
  <2>5. CASE Holders(y.ext, row) # {}
    <3>1. PICK v : w = [y EXCEPT !.ext = EndAt(y.ext, v, row.start)]
      BY <2>3, <2>5
    <3>2. /\ w \in Images /\ w.count = y.count /\ w.reg = y.reg /\ w.fileSize = y.fileSize
          /\ w.nextRegion = y.nextRegion
      BY <2>1, <2>2, <3>1
    <3>3. ASSUME NEW i \in Int, Holders(y.ext, row) = {i}
          PROVE  w.ext = EndAt(y.ext, i, row.start)
      BY <2>1, <2>2, <2>3, <3>3
    <3> QED  BY <2>5, <3>2, <3>3
  <2> QED  BY <2>4, <2>5
<1> HIDE DEF w
<1>6. w.ext \in Seq(RawExtent) /\ w.fileSize \in Nat
  BY <1>5 DEF Images
<1>7. f \in Nat /\ e \in Seq(RawExtent)
  <2>1. new \in RawExtent
    BY <1>2 DEF RawExtent
  <2>2. f \in Nat
    BY <1>2, <1>6
  <2> HIDE DEF new
  <2> QED  BY <1>6, <2>1, <2>2
<1> HIDE DEF f, e
<1>8. /\ z \in Images /\ z.count = w.count /\ z.reg = w.reg /\ z.ext = e
      /\ z.fileSize = f /\ z.nextRegion = w.nextRegion
  BY <1>5, <1>7 DEF Images
<1> USE <1>6
<1> WITNESS w.ext \in Seq(RawExtent)
<1> QED  BY <1>1, <1>3, <1>5, <1>8 DEF f, e

\* A row makes an image of an image.
LEMMA ReplayRowType ==
    ASSUME NEW x \in Images, NEW row \in RowType
    PROVE  ReplayRow(x, row) \in Images
<1>1. row.kind \in {"D", "S"}
  BY DEF RowType
<1> QED  BY <1>1, ReplayRegion, ReplayExtent

-----------------------------------------------------------------------------
(* The replay of a whole registry. *)

\* h[k] is the replay of the first k rows.
Stages(h, rs) ==
    /\ h \in [0 .. Len(rs) -> Images] /\ h[0] = Blank
    /\ \A k \in 1 .. Len(rs) : h[k] = ReplayRow(h[k - 1], rs[k])

\* An empty store replays to an empty image.
LEMMA BlankType == Blank \in Images
<1>1. initial_size \in Nat
  BY BucketAssumption
<1> QED  BY <1>1 DEF Blank, Images

\* The replay of a registry is reached row by row.
LEMMA ReplayStages ==
    ASSUME NEW rs \in Seq(RowType)
    PROVE  \E h : Stages(h, rs) /\ Replay(rs) = h[Len(rs)]
<1> DEFINE n == Len(rs)
           step == [k \in 1 .. n |-> [v \in Images |-> ReplayRow(v, rs[k])]]
           Eq(it) == it = [s \in SUBSET (1 .. n) |->
                              IF s = {} THEN Blank ELSE ReplayRow(it[s \ {Max(s)}], rs[Max(s)])]
           it == CHOOSE it : Eq(it)
<1>1. n \in Nat /\ DOMAIN rs = 1 .. n
  OBVIOUS
<1>2. Replay(rs) = it[1 .. n]
  <2>1. Replay(rs) = FoldLeft(ReplayRow, Blank, rs)
    BY Zenon DEF Replay, Blank
  <2> QED  BY <1>1, <2>1, Zenon DEF FoldLeft, MapThenFoldSet
<1>3. ASSUME NEW k \in 1 .. n, NEW v \in Images PROVE ReplayRow(v, rs[k]) \in Images
  <2>1. rs[k] \in RowType
    BY <1>1
  <2> QED  BY <2>1, ReplayRowType
<1>4. step \in [1 .. n -> [Images -> Images]]
  BY <1>3
<1>5. \E g : Eq(g)
  <2>1. PICK g \in [SUBSET (1 .. n) -> Images] : IsFold(g, n, Blank, step)
    <3> HIDE DEF step
    <3> QED  BY <1>1, <1>4, BlankType, FoldExists
  <2>2. ASSUME NEW s \in SUBSET (1 .. n), s # {}
        PROVE  step[Max(s)][g[s \ {Max(s)}]] = ReplayRow(g[s \ {Max(s)}], rs[Max(s)])
    <3>0. s \subseteq 0 .. n
      OBVIOUS
    <3>1. Max(s) \in 1 .. n
      BY <1>1, <2>2, <3>0, MaxIsGreatest
    <3>2. g[s \ {Max(s)}] \in Images
      OBVIOUS
    <3> QED  BY <3>1, <3>2
  <2> HIDE DEF step
  <2>3. Eq(g)
    BY <2>1, <2>2 DEF IsFold
  <2> QED  BY <2>3
<1>6. Eq(it)
  <2> HIDE DEF Eq
  <2> QED  BY <1>5, Zenon
<1> HIDE DEF it
<1> DEFINE h == [k \in 0 .. n |-> it[1 .. k]]
<1>7. it[{}] = Blank /\ 1 .. 0 = {}
  BY <1>6
<1>8. ASSUME NEW m \in 1 .. n PROVE it[1 .. m] = ReplayRow(it[1 .. m - 1], rs[m])
  <2>1. m \in Nat \ {0}
    BY <1>1
  <2>2. Max(1 .. m) = m /\ (1 .. m) \ {m} = 1 .. m - 1
    BY <2>1, MaxOfPrefix
  <2>3. 1 .. m \in SUBSET (1 .. n) /\ 1 .. m # {}
    <3>1. 1 \in 1 .. m /\ \A j \in 1 .. m : j \in 1 .. n
      BY <1>1, <2>1
    <3> QED  BY <3>1
  <2> QED  BY <1>6, <2>2, <2>3
<1> DEFINE S == {k \in Nat : k <= n => it[1 .. k] \in Images}
<1>9. 0 \in S
  BY <1>7, BlankType
<1>10. ASSUME NEW k \in Nat, k \in S PROVE k + 1 \in S
  <2> SUFFICES ASSUME k + 1 <= n PROVE it[1 .. k + 1] \in Images
    OBVIOUS
  <2>1. it[1 .. k] \in Images /\ k + 1 \in 1 .. n /\ k + 1 - 1 = k
    BY <1>1, <1>10
  <2>2. it[1 .. k + 1] = ReplayRow(it[1 .. k], rs[k + 1])
    BY <1>8, <2>1
  <2> QED  BY <1>3, <2>1, <2>2
<1>11. \A k \in Nat : k \in S
  <2> HIDE DEF S
  <2> QED  BY <1>9, <1>10, SetInduction
<1>12. h \in [0 .. n -> Images] /\ h[0] = Blank /\ h[n] = it[1 .. n]
  BY <1>1, <1>7, <1>11
<1>13. ASSUME NEW k \in 1 .. n PROVE h[k] = ReplayRow(h[k - 1], rs[k])
  <2>1. k \in 0 .. n /\ k - 1 \in 0 .. n
    BY <1>1
  <2>2. h[k] = it[1 .. k] /\ h[k - 1] = it[1 .. k - 1]
    BY <2>1
  <2> HIDE DEF h
  <2> QED  BY <1>8, <2>2
<1> HIDE DEF h
<1>14. Stages(h, rs)
  BY <1>12, <1>13 DEF Stages
<1> QED  BY <1>2, <1>12, <1>14

\* The stages of a registry with a row more begin with the stages without it.
LEMMA SameStages ==
    ASSUME NEW rs \in Seq(RowType), NEW ss \in Seq(RowType), NEW h, NEW g,
           Len(rs) <= Len(ss), \A k \in 1 .. Len(rs) : rs[k] = ss[k],
           Stages(h, rs), Stages(g, ss)
    PROVE  h[Len(rs)] = g[Len(rs)]
<1> DEFINE S == {k \in Nat : k <= Len(rs) => h[k] = g[k]}
<1>1. Len(rs) \in Nat /\ Len(ss) \in Nat
  OBVIOUS
<1>2. 0 \in S
  BY DEF Stages
<1>3. ASSUME NEW k \in Nat, k \in S PROVE k + 1 \in S
  <2> SUFFICES ASSUME k + 1 <= Len(rs) PROVE h[k + 1] = g[k + 1]
    OBVIOUS
  <2>1. h[k] = g[k] /\ k + 1 \in 1 .. Len(rs) /\ k + 1 \in 1 .. Len(ss) /\ k + 1 - 1 = k
    BY <1>1, <1>3
  <2>2. h[k + 1] = ReplayRow(h[k], rs[k + 1]) /\ g[k + 1] = ReplayRow(g[k], ss[k + 1])
    BY <2>1 DEF Stages
  <2> QED  BY <2>1, <2>2
<1>4. Len(rs) \in S
  <2> HIDE DEF S
  <2> QED  BY <1>1, <1>2, <1>3, SetInduction
<1> QED  BY <1>1, <1>4

\* A registry without rows replays to nothing, and a row more is one step more.
LEMMA ReplayEmpty == Replay(<<>>) = Blank
<1>1. PICK h : Stages(h, <<>>) /\ Replay(<<>>) = h[Len(<<>>)]
  <2>1. <<>> \in Seq(RowType)
    OBVIOUS
  <2> QED  BY <2>1, ReplayStages
<1> QED  BY <1>1 DEF Stages

\* A row pushed to the registry is replayed last.
LEMMA ReplayAppend ==
    ASSUME NEW rs \in Seq(RowType), NEW row \in RowType
    PROVE  /\ Replay(rs) \in Images
           /\ Replay(Append(rs, row)) = ReplayRow(Replay(rs), row)
<1> DEFINE ss == Append(rs, row)
           n == Len(rs)
<1>1. /\ ss \in Seq(RowType) /\ n \in Nat /\ Len(ss) = n + 1 /\ ss[n + 1] = row
      /\ \A k \in 1 .. n : rs[k] = ss[k]
  OBVIOUS
<1>2. PICK h : Stages(h, rs) /\ Replay(rs) = h[n]
  BY ReplayStages
<1> HIDE DEF ss
<1>3. PICK g : Stages(g, ss) /\ Replay(ss) = g[n + 1]
  BY <1>1, ReplayStages
<1>4. h[n] = g[n]
  <2>1. n <= Len(ss)
    BY <1>1
  <2> QED  BY <1>1, <1>2, <1>3, <2>1, SameStages
<1>5. n + 1 \in 1 .. Len(ss) /\ n + 1 - 1 = n /\ n \in 0 .. n
  BY <1>1
<1>6. g[n + 1] = ReplayRow(g[n], row)
  BY <1>1, <1>3, <1>5 DEF Stages
<1>7. h[n] \in Images
  BY <1>2, <1>5 DEF Stages
<1> QED  BY <1>2, <1>3, <1>4, <1>6, <1>7 DEF ss

-----------------------------------------------------------------------------
(* The replay of the registry gives back the allocator. *)

\* The same extents, and the same regions, whatever is used of them.
SameExtents(a, e) ==
    /\ Len(a) = Len(e)
    /\ \A i \in 1 .. Len(e) : /\ a[i].owner = e[i].owner /\ a[i].start = e[i].start
                              /\ a[i].size = e[i].size

SameRegions(a, r) ==
    /\ Len(a) = Len(r)
    /\ \A i \in 1 .. Len(r) : a[i].owner = r[i].owner /\ a[i].start = r[i].start

\* The replay x of n rows gives back the extents e and the regions r of an allocator
\* with the next region nr and a file of size f.
Matches(x, n, e, r, f, nr) ==
    /\ x \in Images /\ x.count = n
    /\ SameExtents(x.ext, e) /\ SameRegions(x.reg, r)
    /\ x.fileSize <= f /\ x.fileSize >= initial_size /\ Inside(e, x.fileSize)
    /\ x.nextRegion = nr

\* The same extent behind the same extents.
LEMMA SameAppended ==
    ASSUME NEW a \in Seq(RawExtent), NEW e \in Seq(ExtentType), SameExtents(a, e),
           NEW y, NEW z, y.owner = z.owner, y.start = z.start, y.size = z.size
    PROVE  SameExtents(Append(a, y), Append(e, z))
<1> DEFINE aa == Append(a, y)
           ee == Append(e, z)
           n == Len(e)
<1>1. /\ Len(aa) = n + 1 /\ Len(ee) = n + 1 /\ n \in Nat /\ aa[n + 1] = y /\ ee[n + 1] = z
      /\ \A i \in 1 .. n : aa[i] = a[i] /\ ee[i] = e[i]
  BY DEF SameExtents
<1> HIDE DEF aa, ee
<1>2. ASSUME NEW i \in 1 .. n + 1
      PROVE  aa[i].owner = ee[i].owner /\ aa[i].start = ee[i].start /\ aa[i].size = ee[i].size
  <2>1. CASE i = n + 1
    BY <1>1, <2>1
  <2>2. CASE i # n + 1
    <3>1. i \in 1 .. n
      BY <1>1, <2>2
    <3> QED  BY <1>1, <3>1 DEF SameExtents
  <2> QED  BY <2>1, <2>2
<1>3. SameExtents(aa, ee)
  BY <1>1, <1>2 DEF SameExtents
<1> QED  BY <1>3 DEF aa, ee

\* A region row (grant_region).
LEMMA MatchesRegion ==
    ASSUME NEW x, NEW n \in Nat, NEW e, NEW r \in Seq(RegionType), NEW f, NEW nr \in Nat,
           Matches(x, n, e, r, f, nr), NEW b \in Buckets, NEW u \in 0 .. region_slots
    PROVE  Matches(ReplayRow(x, [kind |-> "S", bucket |-> b, start |-> nr, size |-> region_slots]),
                   n + 1, e, Append(r, [owner |-> b, start |-> nr, used |-> u]),
                   f, nr + region_slots)
<1> DEFINE row == [kind |-> "S", bucket |-> b, start |-> nr, size |-> region_slots]
           y == ReplayRow(x, row)
           new == [owner |-> b, start |-> nr, used |-> 0]
           z == [owner |-> b, start |-> nr, used |-> u]
           aa == Append(x.reg, new)
           rr == Append(r, z)
           k == Len(r)
<1>1. row \in RowType /\ row.kind = "S" /\ region_slots \in Nat
  BY BucketAssumption DEF RowType
<1>2. x \in Images /\ x.nextRegion = nr /\ x.reg \in Seq(RawRegion) /\ SameRegions(x.reg, r)
  BY DEF Matches, Images
<1>3. /\ y \in Images /\ y.count = x.count + 1 /\ y.ext = x.ext /\ y.fileSize = x.fileSize
      /\ y.reg = Append(x.reg, [owner |-> row.bucket, start |-> row.start, used |-> 0])
      /\ y.nextRegion = IF row.start + row.size > x.nextRegion THEN row.start + row.size
                        ELSE x.nextRegion
  <2> HIDE DEF row
  <2> QED  BY <1>1, <1>2, ReplayRegion
<1>4. y.nextRegion = nr + region_slots /\ y.reg = aa
  BY <1>1, <1>2, <1>3
<1> HIDE DEF y
<1>5. SameRegions(aa, rr)
  <2>1. /\ Len(aa) = k + 1 /\ Len(rr) = k + 1 /\ k \in Nat /\ aa[k + 1] = new /\ rr[k + 1] = z
        /\ \A i \in 1 .. k : aa[i] = x.reg[i] /\ rr[i] = r[i]
    <3> HIDE DEF new, z
    <3> QED  BY <1>2 DEF SameRegions
  <2>2. new.owner = z.owner /\ new.start = z.start
    OBVIOUS
  <2> HIDE DEF aa, rr, new, z
  <2>3. ASSUME NEW i \in 1 .. k + 1 PROVE aa[i].owner = rr[i].owner /\ aa[i].start = rr[i].start
    <3>1. CASE i = k + 1
      BY <2>1, <2>2, <3>1
    <3>2. CASE i # k + 1
      <4>1. i \in 1 .. k
        BY <2>1, <3>2
      <4> QED  BY <1>2, <2>1, <4>1 DEF SameRegions
    <3> QED  BY <3>1, <3>2
  <2> QED  BY <2>1, <2>3 DEF SameRegions
<1> HIDE DEF rr, aa
<1>6. Matches(y, n + 1, e, rr, f, nr + region_slots)
  BY <1>3, <1>4, <1>5 DEF Matches
<1> QED  BY <1>6 DEF y, rr

\* The extents of a file with one more.
LEMMA WithinAppended ==
    ASSUME NEW e \in Seq(ExtentType), NEW f \in Nat, NEW g \in Nat, Inside(e, f), f <= g,
           NEW x \in ExtentType, ExtentEnd(x) <= g
    PROVE  Inside(Append(e, x), g)
<1>1. /\ DOMAIN Append(e, x) = 1 .. Len(e) + 1 /\ Append(e, x)[Len(e) + 1] = x
      /\ \A i \in 1 .. Len(e) : Append(e, x)[i] = e[i] /\ e[i] \in ExtentType
      /\ DOMAIN e = 1 .. Len(e) /\ Len(e) \in Nat
  OBVIOUS
<1>2. ASSUME NEW i \in 1 .. Len(e) PROVE ExtentEnd(e[i]) <= g
  <2>1. ExtentEnd(e[i]) \in Nat
    BY <1>1, ExtentFields
  <2> QED  BY <1>1, <2>1 DEF Inside
<1>3. \A i \in 1 .. Len(e) + 1 : i = Len(e) + 1 \/ i \in 1 .. Len(e)
  BY <1>1
<1> QED  BY <1>1, <1>2, <1>3 DEF Inside

\* An extent row that no extent contains (the first grant, and one that grows the file).
LEMMA MatchesNew ==
    ASSUME NEW x, NEW n \in Nat, NEW e \in Seq(ExtentType), NEW r, NEW f \in Nat, NEW nr,
           Matches(x, n, e, r, f, nr), NEW b \in Buckets, NEW st \in Nat, NEW sz \in Nat,
           NEW u \in Nat, NEW g \in Nat, f <= g, st + sz <= g,
           \A i \in 1 .. Len(e) : ~(st >= e[i].start /\ st + sz <= ExtentEnd(e[i]))
    PROVE  Matches(ReplayRow(x, [kind |-> "D", bucket |-> b, start |-> st, size |-> sz]),
                   n + 1, Append(e, [owner |-> b, start |-> st, size |-> sz, used |-> u]),
                   r, g, nr)
<1> DEFINE row == [kind |-> "D", bucket |-> b, start |-> st, size |-> sz]
           y == ReplayRow(x, row)
           raw == [owner |-> b, start |-> st, size |-> sz, used |-> 0]
           z == [owner |-> b, start |-> st, size |-> sz, used |-> u]
           ee == Append(e, z)
<1>1. /\ row \in RowType /\ row.kind = "D" /\ row.bucket = b /\ row.start = st /\ row.size = sz
  BY DEF RowType
<1>2. /\ x \in Images /\ x.nextRegion = nr /\ x.ext \in Seq(RawExtent) /\ SameExtents(x.ext, e)
      /\ x.fileSize \in Nat
  BY DEF Matches, Images
<1>3. Holders(x.ext, row) = {}
  <2>1. ASSUME NEW i \in DOMAIN x.ext PROVE ~(st >= x.ext[i].start /\ st + sz <= ExtentEnd(x.ext[i]))
    <3>1. i \in 1 .. Len(e)
      BY <1>2 DEF SameExtents
    <3>2. x.ext[i].start = e[i].start /\ ExtentEnd(x.ext[i]) = ExtentEnd(e[i])
      BY <1>2, <3>1 DEF SameExtents, ExtentEnd
    <3> QED  BY <3>1, <3>2
  <2> HIDE DEF row
  <2> QED  BY <1>1, <2>1 DEF Holders
<1> HIDE DEF row
<1>4. /\ y \in Images /\ y.count = x.count + 1 /\ y.reg = x.reg /\ y.nextRegion = nr
      /\ y.ext = Append(x.ext, raw)
      /\ y.fileSize = IF st + sz > x.fileSize THEN st + sz ELSE x.fileSize
  BY <1>1, <1>2, <1>3, ReplayExtent
<1> HIDE DEF y
<1>5. /\ z \in ExtentType /\ ExtentEnd(z) = st + sz
      /\ raw.owner = z.owner /\ raw.start = z.start /\ raw.size = z.size
  BY DEF ExtentType, ExtentEnd
<1> HIDE DEF z, raw
<1>6. SameExtents(y.ext, ee)
  BY <1>2, <1>4, <1>5, SameAppended
<1>7. y.fileSize \in Nat /\ x.fileSize <= y.fileSize /\ st + sz <= y.fileSize /\ y.fileSize <= g
  BY <1>2, <1>4 DEF Matches
<1>8. Inside(ee, y.fileSize)
  BY <1>2, <1>5, <1>7, WithinAppended DEF Matches
<1>9. y.fileSize >= initial_size
  <2>1. initial_size \in Nat
    BY BucketAssumption
  <2> QED  BY <1>2, <1>7, <2>1 DEF Matches
<1> HIDE DEF ee
<1>10. Matches(y, n + 1, ee, r, g, nr)
  BY <1>4, <1>6, <1>7, <1>8, <1>9 DEF Matches
<1> QED  BY <1>10 DEF y, ee, row, z

\* Bytes at the end of one range lie in no range apart from it.
LEMMA TailIsElsewhere ==
    ASSUME NEW st \in Nat, NEW c \in Nat \ {0}, NEW a \in Nat, NEW p \in Nat,
           NEW q \in Nat, NEW w \in Nat,
           st + c = q + w, c <= w, st >= a, st + c <= a + p,
           a + p <= q \/ q + w <= a
    PROVE  FALSE
  OBVIOUS

\* An extent row of the tail of extent v: only v contains it, and v loses it.
LEMMA MatchesCut ==
    ASSUME NEW x, NEW n \in Nat, NEW e \in Seq(ExtentType), NEW r, NEW f \in Nat, NEW nr,
           Matches(x, n, e, r, f, nr), Disjoint(e), NEW b \in Buckets,
           NEW v \in 1 .. Len(e), NEW c \in Nat \ {0}, c <= e[v].size,
           NEW st \in Nat, st + c = e[v].start + e[v].size, NEW u \in Nat
    PROVE  Matches(ReplayRow(x, [kind |-> "D", bucket |-> b, start |-> st, size |-> c]),
                   n + 1,
                   Append(Shorter(e, v, c), [owner |-> b, start |-> st, size |-> c, used |-> u]),
                   r, f, nr)
<1> DEFINE row == [kind |-> "D", bucket |-> b, start |-> st, size |-> c]
           y == ReplayRow(x, row)
           raw == [owner |-> b, start |-> st, size |-> c, used |-> 0]
           z == [owner |-> b, start |-> st, size |-> c, used |-> u]
           s == Shorter(e, v, c)
           ee == Append(s, z)
           a == EndAt(x.ext, v, st)
<1>0. DOMAIN e = 1 .. Len(e) /\ Len(e) \in Nat
  OBVIOUS
<1>1. /\ row \in RowType /\ row.kind = "D" /\ row.bucket = b /\ row.start = st /\ row.size = c
  BY DEF RowType
<1>2. /\ x \in Images /\ x.nextRegion = nr /\ x.ext \in Seq(RawExtent) /\ SameExtents(x.ext, e)
      /\ x.fileSize \in Nat /\ Inside(e, x.fileSize)
  BY DEF Matches, Images
<1>3. \A i \in 1 .. Len(e) : e[i].start \in Nat /\ e[i].size \in Nat
                             /\ ExtentEnd(e[i]) = e[i].start + e[i].size
  BY <1>0, ExtentFields
<1>4. \A i \in 1 .. Len(e) : (st >= e[i].start /\ st + c <= ExtentEnd(e[i])) <=> i = v
  <2>1. ASSUME NEW i \in 1 .. Len(e), i # v, st >= e[i].start, st + c <= ExtentEnd(e[i])
        PROVE  FALSE
    <3>1. Apart(e[i].start, ExtentEnd(e[i]), e[v].start, ExtentEnd(e[v]))
      BY <1>0, <2>1 DEF Disjoint
    <3>2. ExtentEnd(e[i]) <= e[v].start \/ ExtentEnd(e[v]) <= e[i].start
      BY <3>1 DEF Apart
    <3>3. /\ e[i].start \in Nat /\ e[i].size \in Nat /\ ExtentEnd(e[i]) = e[i].start + e[i].size
          /\ e[v].start \in Nat /\ e[v].size \in Nat /\ ExtentEnd(e[v]) = e[v].start + e[v].size
      BY <1>3
    <3>4. /\ st + c <= e[i].start + e[i].size
          /\ e[i].start + e[i].size <= e[v].start \/ e[v].start + e[v].size <= e[i].start
      BY <2>1, <3>2, <3>3
    <3> QED  BY <2>1, <3>3, <3>4, TailIsElsewhere
  <2>2. st >= e[v].start /\ st + c <= ExtentEnd(e[v])
    BY <1>3
  <2> QED  BY <2>1, <2>2
<1>5. Holders(x.ext, row) = {v}
  <2>1. DOMAIN x.ext = 1 .. Len(e)
    BY <1>2 DEF SameExtents
  <2>2. ASSUME NEW i \in 1 .. Len(e)
        PROVE  (st >= x.ext[i].start /\ st + c <= ExtentEnd(x.ext[i])) <=> i = v
    <3>1. x.ext[i].start = e[i].start /\ ExtentEnd(x.ext[i]) = ExtentEnd(e[i])
      BY <1>2 DEF SameExtents, ExtentEnd
    <3> QED  BY <1>4, <3>1
  <2> HIDE DEF row
  <2> QED  BY <1>1, <2>1, <2>2 DEF Holders
<1> HIDE DEF row
<1>6. /\ y \in Images /\ y.count = x.count + 1 /\ y.reg = x.reg /\ y.nextRegion = nr
      /\ y.ext = Append(a, raw)
      /\ y.fileSize = IF st + c > x.fileSize THEN st + c ELSE x.fileSize
  <2>1. v \in Int
    BY <1>0
  <2> QED  BY <1>1, <1>2, <1>5, <2>1, ReplayExtent
<1>7. y.fileSize = x.fileSize
  <2>1. st + c <= x.fileSize
    BY <1>0, <1>2, <1>3 DEF Inside
  <2> QED  BY <1>2, <1>6, <2>1
<1> HIDE DEF y
<1>8. /\ s \in Seq(ExtentType) /\ Len(s) = Len(e)
      /\ \A i \in 1 .. Len(e) : /\ s[i].owner = e[i].owner /\ s[i].start = e[i].start
                                /\ s[i].size = IF i = v THEN e[v].size - c ELSE e[i].size
  <2>1. /\ s \in Seq(ExtentType) /\ DOMAIN s = DOMAIN e
        /\ \A i \in DOMAIN e : /\ s[i].owner = e[i].owner /\ s[i].start = e[i].start
                               /\ i # v => s[i].size = e[i].size
        /\ s[v].size = e[v].size - c
    BY <1>0, ShorterIs
  <2> HIDE DEF s
  <2> QED  BY <1>0, <2>1
<1>9. /\ a \in Seq(RawExtent) /\ Len(a) = Len(x.ext)
      /\ \A i \in 1 .. Len(x.ext) :
            /\ a[i].owner = x.ext[i].owner /\ a[i].start = x.ext[i].start
            /\ a[i].size = IF i = v THEN st - x.ext[i].start ELSE x.ext[i].size
  BY <1>2, EndAtIs
<1> HIDE DEF s, a
<1>10. SameExtents(a, s)
  <2>1. ASSUME NEW i \in 1 .. Len(e) PROVE a[i].size = s[i].size
    <3>1. x.ext[i].size = e[i].size /\ x.ext[i].start = e[i].start /\ i \in 1 .. Len(x.ext)
      BY <1>2 DEF SameExtents
    <3>2. CASE i = v
      <4>1. a[i].size = st - e[v].start /\ s[i].size = e[v].size - c
        BY <1>8, <1>9, <3>1, <3>2
      <4>2. e[v].start \in Nat /\ e[v].size \in Nat /\ st \in Nat /\ c \in Nat
        BY <1>3
      <4>3. \A p, q \in Nat : st + c = p + q => st - p = q - c
        OBVIOUS
      <4> QED  BY <4>1, <4>2, <4>3
    <3>3. CASE i # v
      BY <1>8, <1>9, <3>1, <3>3
    <3> QED  BY <3>2, <3>3
  <2> QED  BY <1>2, <1>8, <1>9, <2>1 DEF SameExtents
<1>11. /\ z \in ExtentType /\ ExtentEnd(z) = st + c
       /\ raw.owner = z.owner /\ raw.start = z.start /\ raw.size = z.size
  BY DEF ExtentType, ExtentEnd
<1> HIDE DEF z, raw
<1>12. SameExtents(y.ext, ee)
  BY <1>6, <1>8, <1>9, <1>10, <1>11, SameAppended
<1>13. Inside(s, x.fileSize) /\ ExtentEnd(z) <= x.fileSize
  <2>1. ASSUME NEW i \in 1 .. Len(e) PROVE ExtentEnd(s[i]) <= x.fileSize
    <3>1. s[i].start = e[i].start /\ s[i].size \in Nat /\ s[i].size <= e[i].size
      <4>1. e[i].size \in Nat /\ (i = v => e[v].size - c \in Nat /\ e[v].size - c <= e[i].size)
        BY <1>3
      <4> QED  BY <1>8, <4>1
    <3>2. ExtentEnd(e[i]) <= x.fileSize
      BY <1>0, <1>2 DEF Inside
    <3>3. ExtentEnd(s[i]) = s[i].start + s[i].size
      BY DEF ExtentEnd
    <3> QED  BY <1>2, <1>3, <3>1, <3>2, <3>3
  <2>2. DOMAIN s = 1 .. Len(e)
    BY <1>8
  <2>3. st + c <= x.fileSize
    BY <1>0, <1>2, <1>3 DEF Inside
  <2> QED  BY <1>11, <2>1, <2>2, <2>3 DEF Inside
<1>14. Inside(ee, y.fileSize)
  <2>1. x.fileSize <= x.fileSize
    BY <1>2
  <2> QED  BY <1>2, <1>7, <1>8, <1>11, <1>13, <2>1, WithinAppended
<1> HIDE DEF ee
<1>15. Matches(y, n + 1, ee, r, f, nr)
  BY <1>6, <1>7, <1>12, <1>14 DEF Matches
<1> QED  BY <1>15 DEF y, ee, row, z, s

-----------------------------------------------------------------------------
(* Regions r below the next one nr, and the record numbers given out of them. *)

Regions(r, nr) ==
    /\ r \in Seq(RegionType) /\ nr \in Nat
    /\ \A i \in 1 .. Len(r) : r[i].start + region_slots <= nr
    /\ \A i, j \in 1 .. Len(r) : i # j => Apart(r[i].start, r[i].start + region_slots,
                                               r[j].start, r[j].start + region_slots)

\* Number k is of the used part of region x.
Taken(k, x) == x.start <= k /\ k < x.start + x.used

Given(r, nums) == \A n \in 1 .. Len(nums) : \E i \in 1 .. Len(r) : Taken(nums[n], r[i])

Unique(nums) == \A m, n \in 1 .. Len(nums) : m # n => nums[m] # nums[n]

Numbered(r, nr, nums) ==
    Regions(r, nr) /\ nums \in Seq(Nat) /\ Given(r, nums) /\ Unique(nums)

\* The fields of a region.
LEMMA RegionFields ==
    ASSUME NEW x \in RegionType
    PROVE  /\ x.owner \in Buckets /\ x.start \in Nat /\ x.used \in Nat /\ x.used <= region_slots
           /\ region_slots \in Nat \ {0}
<1>1. region_slots \in Nat \ {0}
  BY BucketAssumption
<1> QED  BY <1>1 DEF RegionType

\* A number that no region has given out yet.
LEMMA FreshNumber ==
    ASSUME NEW r, NEW nr, NEW nums, Numbered(r, nr, nums), NEW k \in Nat, NEW s,
           \A i \in 1 .. Len(r) : ~Taken(k, r[i]), Given(s, nums),
           \E i \in 1 .. Len(s) : Taken(k, s[i])
    PROVE  LET q == Append(nums, k) IN q \in Seq(Nat) /\ Given(s, q) /\ Unique(q)
<1> DEFINE q == Append(nums, k)
           n == Len(nums)
<1>1. /\ q \in Seq(Nat) /\ Len(q) = n + 1 /\ n \in Nat /\ q[n + 1] = k
      /\ \A m \in 1 .. n : q[m] = nums[m]
  BY DEF Numbered
<1>2. \A m \in 1 .. n : nums[m] # k
  BY DEF Numbered, Given
<1> HIDE DEF q
<1>3. \A m \in 1 .. n + 1 : m = n + 1 \/ m \in 1 .. n
  BY <1>1
<1>4. Given(s, q)
  <2> SUFFICES ASSUME NEW m \in 1 .. n + 1 PROVE \E i \in 1 .. Len(s) : Taken(q[m], s[i])
    BY <1>1 DEF Given
  <2>1. CASE m = n + 1
    BY <1>1, <2>1
  <2>2. CASE m \in 1 .. n
    BY <1>1, <2>2 DEF Given
  <2> QED  BY <1>3, <2>1, <2>2
<1>5. Unique(q)
  <2> SUFFICES ASSUME NEW m \in 1 .. n + 1, NEW l \in 1 .. n + 1, m # l PROVE q[m] # q[l]
    BY <1>1 DEF Unique
  <2>1. CASE m \in 1 .. n /\ l \in 1 .. n
    BY <1>1, <2>1 DEF Numbered, Unique
  <2>2. CASE m = n + 1 \/ l = n + 1
    BY <1>1, <1>2, <1>3, <2>2
  <2> QED  BY <1>3, <2>1, <2>2
<1> QED  BY <1>1, <1>4, <1>5 DEF q

\* A new region behind the others (grant_region).
LEMMA RegionAdded ==
    ASSUME NEW r, NEW nr, NEW nums, Numbered(r, nr, nums), NEW b \in Buckets,
           NEW u \in 0 .. region_slots
    PROVE  LET s == Append(r, [owner |-> b, start |-> nr, used |-> u])
           IN  /\ Regions(s, nr + region_slots) /\ Given(s, nums)
               /\ \A i \in 1 .. Len(r) : ~Taken(nr, r[i])
               /\ Len(s) = Len(r) + 1 /\ s[Len(r) + 1].start = nr /\ s[Len(r) + 1].used = u
               /\ s[Len(r) + 1].owner = b /\ \A i \in 1 .. Len(r) : s[i] = r[i]
<1> DEFINE x == [owner |-> b, start |-> nr, used |-> u]
           s == Append(r, x)
           n == Len(r)
<1>1. /\ r \in Seq(RegionType) /\ nr \in Nat /\ n \in Nat
      /\ \A i \in 1 .. n : r[i].start + region_slots <= nr
      /\ \A i, j \in 1 .. n : i # j => Apart(r[i].start, r[i].start + region_slots,
                                             r[j].start, r[j].start + region_slots)
  BY DEF Numbered, Regions
<1>2. x \in RegionType /\ x.start = nr /\ x.used = u /\ x.owner = b
  BY <1>1 DEF RegionType
<1> HIDE DEF x
<1>3. /\ s \in Seq(RegionType) /\ Len(s) = n + 1 /\ s[n + 1] = x
      /\ \A i \in 1 .. n : s[i] = r[i] /\ r[i] \in RegionType
  BY <1>1, <1>2
<1> HIDE DEF s
<1>4. \A i \in 1 .. n + 1 : i = n + 1 \/ i \in 1 .. n
  BY <1>1
<1>5. region_slots \in Nat /\ \A i \in 1 .. n : r[i].start \in Nat /\ r[i].used \in Nat
                                               /\ r[i].used <= region_slots
  BY <1>2, <1>3, RegionFields
<1>6. Regions(s, nr + region_slots)
  <2>1. ASSUME NEW i \in 1 .. n + 1 PROVE s[i].start + region_slots <= nr + region_slots
    <3>1. CASE i = n + 1
      BY <1>1, <1>2, <1>3, <1>5, <3>1
    <3>2. CASE i \in 1 .. n
      <4>1. r[i].start + region_slots <= nr /\ r[i].start \in Nat /\ s[i] = r[i]
        BY <1>1, <1>3, <1>5, <3>2
      <4> QED  BY <1>1, <1>5, <4>1
    <3> QED  BY <1>4, <3>1, <3>2
  <2>2. ASSUME NEW i \in 1 .. n + 1, NEW j \in 1 .. n + 1, i # j
        PROVE  Apart(s[i].start, s[i].start + region_slots, s[j].start, s[j].start + region_slots)
    <3>1. CASE i \in 1 .. n /\ j \in 1 .. n
      BY <1>1, <1>3, <2>2, <3>1
    <3>2. CASE i = n + 1 /\ j \in 1 .. n
      BY <1>1, <1>2, <1>3, <3>2 DEF Apart
    <3>3. CASE j = n + 1 /\ i \in 1 .. n
      BY <1>1, <1>2, <1>3, <3>3 DEF Apart
    <3> QED  BY <1>4, <2>2, <3>1, <3>2, <3>3
  <2> QED  BY <1>1, <1>3, <1>5, <2>1, <2>2 DEF Regions
<1>7. Given(s, nums)
  <2> SUFFICES ASSUME NEW m \in 1 .. Len(nums) PROVE \E i \in 1 .. n + 1 : Taken(nums[m], s[i])
    BY <1>3 DEF Given
  <2>1. PICK i \in 1 .. n : Taken(nums[m], r[i])
    BY DEF Numbered, Given
  <2>2. i \in 1 .. n + 1 /\ s[i] = r[i]
    BY <1>1, <1>3
  <2> QED  BY <2>1, <2>2
<1>8. ASSUME NEW i \in 1 .. n PROVE ~Taken(nr, r[i])
  <2>1. r[i].start + region_slots <= nr /\ r[i].start \in Nat /\ r[i].used \in Nat
        /\ r[i].used <= region_slots
    BY <1>1, <1>5
  <2> QED  BY <1>1, <1>5, <2>1 DEF Taken
<1> QED  BY <1>2, <1>3, <1>6, <1>7, <1>8 DEF s, x

\* The first number of a new region.
LEMMA FirstNumber ==
    ASSUME NEW r, NEW nr, NEW nums, Numbered(r, nr, nums), NEW b \in Buckets
    PROVE  Numbered(Append(r, [owner |-> b, start |-> nr, used |-> 1]), nr + region_slots,
                    Append(nums, nr))
<1> DEFINE s == Append(r, [owner |-> b, start |-> nr, used |-> 1])
<1>1. 1 \in 0 .. region_slots /\ nr \in Nat /\ r \in Seq(RegionType)
  BY BucketAssumption DEF Numbered, Regions
<1>2. /\ Regions(s, nr + region_slots) /\ Given(s, nums)
      /\ \A i \in 1 .. Len(r) : ~Taken(nr, r[i])
      /\ Len(s) = Len(r) + 1 /\ s[Len(r) + 1].start = nr /\ s[Len(r) + 1].used = 1
  BY <1>1, RegionAdded
<1> HIDE DEF s
<1>3. Len(r) + 1 \in 1 .. Len(s) /\ Taken(nr, s[Len(r) + 1])
  BY <1>1, <1>2 DEF Taken
<1>4. LET q == Append(nums, nr) IN q \in Seq(Nat) /\ Given(s, q) /\ Unique(q)
  BY <1>1, <1>2, <1>3, FreshNumber
<1> QED  BY <1>2, <1>4 DEF Numbered, s

\* The next number of a region that has one (alloc).
LEMMA NextNumber ==
    ASSUME NEW r, NEW nr, NEW nums, Numbered(r, nr, nums), NEW v \in 1 .. Len(r),
           r[v].used < region_slots
    PROVE  LET s == [r EXCEPT ![v].used = @ + 1]
           IN  /\ Numbered(s, nr, Append(nums, r[v].start + r[v].used)) /\ Len(s) = Len(r)
               /\ \A i \in 1 .. Len(r) : s[i].owner = r[i].owner /\ s[i].start = r[i].start
<1> DEFINE x == [r[v] EXCEPT !.used = @ + 1]
           s == [r EXCEPT ![v] = x]
           k == r[v].start + r[v].used
<1>1. /\ r \in Seq(RegionType) /\ nr \in Nat /\ Len(r) \in Nat /\ DOMAIN r = 1 .. Len(r)
      /\ \A i \in 1 .. Len(r) : r[i].start + region_slots <= nr
      /\ \A i, j \in 1 .. Len(r) : i # j => Apart(r[i].start, r[i].start + region_slots,
                                             r[j].start, r[j].start + region_slots)
  BY DEF Numbered, Regions
<1>2. \A i \in 1 .. Len(r) : r[i] \in RegionType
  BY <1>1
<1>3. region_slots \in Nat /\ \A i \in 1 .. Len(r) : r[i].start \in Nat /\ r[i].used \in Nat
                                               /\ r[i].used <= region_slots
  BY <1>2, RegionFields
<1>4. x \in RegionType /\ x.owner = r[v].owner /\ x.start = r[v].start /\ x.used = r[v].used + 1
  BY <1>2, <1>3 DEF RegionType
<1> HIDE DEF x
<1>5. /\ s \in Seq(RegionType) /\ Len(s) = Len(r) /\ s[v] = x
      /\ \A i \in 1 .. Len(r) : i # v => s[i] = r[i]
  BY <1>1, <1>4
<1> HIDE DEF s
<1>6. \A i \in 1 .. Len(r) : s[i].owner = r[i].owner /\ s[i].start = r[i].start
  BY <1>4, <1>5
<1>7. Regions(s, nr)
  BY <1>1, <1>5, <1>6 DEF Regions
<1>8. Given(s, nums)
  <2> SUFFICES ASSUME NEW m \in 1 .. Len(nums) PROVE \E i \in 1 .. Len(r) : Taken(nums[m], s[i])
    BY <1>5 DEF Given
  <2>1. PICK i \in 1 .. Len(r) : Taken(nums[m], r[i])
    BY DEF Numbered, Given
  <2>2. nums[m] \in Nat
    BY DEF Numbered
  <2>3. Taken(nums[m], s[i])
    <3>1. s[i].start = r[i].start /\ (s[i].used = r[i].used \/ s[i].used = r[i].used + 1)
      BY <1>4, <1>5, <1>6
    <3>2. r[i].start \in Nat /\ r[i].used \in Nat
      BY <1>3
    <3> QED  BY <2>1, <2>2, <3>1, <3>2 DEF Taken
  <2> QED  BY <2>3
<1>9. k \in Nat /\ Taken(k, s[v])
  <2>1. r[v].start \in Nat /\ r[v].used \in Nat
    BY <1>3
  <2> QED  BY <1>4, <1>5, <2>1 DEF Taken
<1>10. ASSUME NEW i \in 1 .. Len(r) PROVE ~Taken(k, r[i])
  <2>1. /\ r[v].start \in Nat /\ r[v].used \in Nat /\ r[i].start \in Nat /\ r[i].used \in Nat
        /\ r[i].used <= region_slots
    BY <1>3
  <2>2. CASE i = v
    BY <2>1, <2>2 DEF Taken
  <2>3. CASE i # v
    <3>1. Apart(r[i].start, r[i].start + region_slots, r[v].start, r[v].start + region_slots)
      BY <1>1, <2>3
    <3>2. \/ r[i].start + region_slots <= r[v].start
          \/ r[v].start + region_slots <= r[i].start
      BY <3>1 DEF Apart
    <3>3. region_slots \in Nat /\ k = r[v].start + r[v].used /\ r[v].used < region_slots
      BY <1>3
    <3> HIDE DEF k
    <3>4. ~(r[i].start <= k /\ k < r[i].start + r[i].used)
      BY <2>1, <3>2, <3>3, SMTT(30)
    <3> QED  BY <3>4 DEF Taken
  <2> QED  BY <2>2, <2>3
<1> HIDE DEF k
<1>11. LET q == Append(nums, k) IN q \in Seq(Nat) /\ Given(s, q) /\ Unique(q)
  BY <1>5, <1>8, <1>9, <1>10, FreshNumber
<1>12. Numbered(s, nr, Append(nums, k))
  BY <1>7, <1>11 DEF Numbered
<1>13. [r EXCEPT ![v].used = @ + 1] = s
  BY DEF s, x
<1> QED  BY <1>5, <1>6, <1>12, <1>13 DEF k

-----------------------------------------------------------------------------
(* The invariant of the registry, the numbers and the buckets. *)

\* Who owns an extent owns a region, but for the bucket that is about to get its first
\* one (bucket_index grants the extent, then the region).
Housed(e, r, p, b) ==
    \A i \in 1 .. Len(e) : \/ p = "region" /\ e[i].owner = b
                           \/ \E j \in 1 .. Len(r) : r[j].owner = e[i].owner

OwnsExtent(e, b) == \E i \in 1 .. Len(e) : e[i].owner = b

\* The registry replays to the extents and regions there are, numbers come out of
\* regions of their own, and the bucket of a call has what the next step needs.
RInv ==
    /\ TypeOK
    /\ Numbered(reg, nextRegion, numbers)
    /\ Matches(Replay(rows), Len(rows), ext, reg, fileSize, nextRegion)
    /\ Housed(ext, reg, pc, call.bucket)
    /\ pc \in {"grant_more", "number"} => OwnsExtent(ext, call.bucket)

\* Owners after a grant to bucket b.
LEMMA HousedGranted ==
    ASSUME NEW e, NEW a, NEW r, NEW p, NEW b, Len(e) \in Nat, Housed(e, r, p, b), p # "region",
           Len(a) = Len(e) + 1, a[Len(e) + 1].owner = b,
           \A i \in 1 .. Len(e) : a[i].owner = e[i].owner
    PROVE  /\ Housed(a, r, "region", b) /\ OwnsExtent(a, b)
           /\ OwnsExtent(e, b) => \A q : Housed(a, r, q, b)
<1>1. \A i \in 1 .. Len(a) : i = Len(e) + 1 \/ i \in 1 .. Len(e)
  OBVIOUS
<1>2. \A i \in 1 .. Len(e) : \E j \in 1 .. Len(r) : r[j].owner = e[i].owner
  BY DEF Housed
<1>3. Len(e) + 1 \in 1 .. Len(a)
  OBVIOUS
<1>4. Housed(a, r, "region", b) /\ OwnsExtent(a, b)
  BY <1>1, <1>2, <1>3 DEF Housed, OwnsExtent
<1>5. OwnsExtent(e, b) => \A i \in 1 .. Len(a) : \E j \in 1 .. Len(r) : r[j].owner = a[i].owner
  BY <1>1, <1>2 DEF OwnsExtent
<1>6. OwnsExtent(e, b) => \A q : Housed(a, r, q, b)
  BY <1>5 DEF Housed
<1> QED  BY <1>4, <1>6

\* Extents with other uses and the same owners.
LEMMA HousedSame ==
    ASSUME NEW e, NEW a, NEW r, NEW s, NEW p, NEW q, NEW b, Housed(e, r, p, b), p # "region",
           Len(a) = Len(e), \A i \in 1 .. Len(e) : a[i].owner = e[i].owner,
           Len(s) >= Len(r), Len(r) \in Nat, Len(s) \in Nat,
           \A i \in 1 .. Len(r) : s[i].owner = r[i].owner
    PROVE  \A c : Housed(a, s, q, c)
<1>1. \A i \in 1 .. Len(e) : \E j \in 1 .. Len(r) : r[j].owner = e[i].owner
  BY DEF Housed
<1>2. \A j \in 1 .. Len(r) : j \in 1 .. Len(s)
  OBVIOUS
<1>3. \A i \in 1 .. Len(a) : \E j \in 1 .. Len(s) : s[j].owner = a[i].owner
  BY <1>1, <1>2
<1> QED  BY <1>3 DEF Housed

\* NumbersUnique in the terms of Numbered.
LEMMA UniqueIs ==
    ASSUME RInv
    PROVE  NumbersUnique
<1>1. numbers \in Seq(Nat) /\ Unique(numbers)
  BY DEF RInv, Numbered
<1>2. DOMAIN numbers = 1 .. Len(numbers)
  BY <1>1
<1> QED  BY <1>1, <1>2 DEF Unique, NumbersUnique

\* The types the steps need.
LEMMA Types ==
    ASSUME RInv
    PROVE  /\ ext \in Seq(ExtentType) /\ reg \in Seq(RegionType) /\ rows \in Seq(RowType)
           /\ fileSize \in Nat /\ nextRegion \in Nat /\ allocEnd \in Nat /\ grantCount \in Nat
           /\ order \in Seq(Buckets) /\ numbers \in Seq(Nat) /\ Len(rows) \in Nat
           /\ pc \in Active => call.bucket \in Buckets /\ call.len \in Lens
<1>1. TypeOK
  BY DEF RInv
<1>2. /\ ext \in Seq(ExtentType) /\ reg \in Seq(RegionType) /\ rows \in Seq(RowType)
      /\ fileSize \in Nat /\ nextRegion \in Nat /\ allocEnd \in Nat /\ grantCount \in Nat
      /\ order \in Seq(Buckets) /\ numbers \in Seq(Nat)
  BY <1>1, Zenon DEF TypeOK, RowType
<1>3. ASSUME pc \in Active PROVE call.bucket \in Buckets /\ call.len \in Lens
  <2>1. call \in [kind : {"insert", "update"}, bucket : Buckets, len : Lens]
    BY <1>1, <1>3, Zenon DEF TypeOK, Active
  <2> QED  BY <2>1
<1> QED  BY <1>2, <1>3

\* A step that leaves extents, regions, rows and numbers alone.
LEMMA QuietRows ==
    ASSUME RInv, TypeOK', UNCHANGED <<ext, reg, fileSize, nextRegion, rows, numbers>>,
           Housed(ext, reg, pc', call'.bucket),
           pc' \in {"grant_more", "number"} => OwnsExtent(ext, call'.bucket)
    PROVE  RInv'
BY DEF RInv

\* The end of grant_extent for any extents e that are left: what the registry is told is
\* what the allocator has.
LEMMA GrantRows ==
    ASSUME RInv, BInv', Granting, NEW e \in Seq(ExtentType), Len(e) = Len(ext),
           \A i \in 1 .. Len(ext) : e[i].owner = ext[i].owner,
           NEW st \in Nat, NEW sz \in Nat, Grant(e, [start |-> st, size |-> sz]), allocEnd' \in Nat,
           \A u \in Nat :
              Matches(ReplayRow(Replay(rows), [kind |-> "D", bucket |-> call.bucket,
                                               start |-> st, size |-> sz]),
                      Len(rows) + 1,
                      Append(e, [owner |-> call.bucket, start |-> st, size |-> sz, used |-> u]),
                      reg, fileSize', nextRegion)
    PROVE  RInv'
<1> DEFINE row == [kind |-> "D", bucket |-> call.bucket, start |-> st, size |-> sz]
           u == IF pc = "grant_more" THEN call.len ELSE 0
           x == [owner |-> call.bucket, start |-> st, size |-> sz, used |-> u]
           a == Append(e, x)
<1>1. /\ ext \in Seq(ExtentType) /\ reg \in Seq(RegionType) /\ rows \in Seq(RowType)
      /\ nextRegion \in Nat /\ order \in Seq(Buckets) /\ Len(rows) \in Nat
      /\ numbers \in Seq(Nat)
      /\ pc \in Active => call.bucket \in Buckets /\ call.len \in Lens
  BY Types
<1>2. pc \in {"grant_new", "grant_more"} /\ call.bucket \in Buckets /\ call.len \in Nat
  <2>1. pc \in {"grant_new", "grant_more"} /\ pc \in Active
    BY DEF Granting, Active
  <2>2. Lens \subseteq Nat
    BY BucketAssumption
  <2> QED  BY <1>1, <2>1, <2>2, Zenon
<1>3. /\ ext' = a /\ rows' = Append(rows, row)
      /\ pc' = IF pc = "grant_more" THEN "number" ELSE "region"
      /\ UNCHANGED <<order, reg, nextRegion, call, numbers>>
  BY DEF Grant, PushRow
<1>4. u \in Nat /\ row \in RowType
  BY <1>2 DEF RowType
<1>5. Matches(Replay(rows'), Len(rows'), ext', reg', fileSize', nextRegion')
  <2>1. Len(rows') = Len(rows) + 1 /\ Replay(rows') = ReplayRow(Replay(rows), row)
    BY <1>1, <1>3, <1>4, ReplayAppend
  <2>2. Matches(ReplayRow(Replay(rows), row), Len(rows) + 1, a, reg, fileSize', nextRegion)
    BY <1>4
  <2> HIDE DEF a, row
  <2> QED  BY <1>3, <2>1, <2>2
<1>6. TypeOK'
  <2>1. /\ ext' \in Seq(ExtentType) /\ placed' \in Seq([off : Nat, len : Lens])
        /\ grantCount' \in Nat /\ fileSize' \in Nat
    BY DEF BInv, Sound, RecordType
  <2>2. rows' \in Seq(RowType)
    <3> HIDE DEF row
    <3> QED  BY <1>1, <1>3, <1>4
  <2>3. /\ order' \in Seq(Buckets) /\ reg' \in Seq(RegionType) /\ nextRegion' \in Nat
        /\ numbers' \in Seq(Nat)
    <3> HIDE DEF a, row
    <3> QED  BY <1>1, <1>3, Zenon
  <2>4. /\ call' = NoCall \/ call' \in [kind : {"insert", "update"}, bucket : Buckets, len : Lens]
        /\ call' # NoCall
    <3>1. TypeOK
      BY DEF RInv
    <3> QED  BY <1>2, <1>3, <3>1, Zenon DEF TypeOK
  <2>5. pc' \in {"number", "region"}
    BY <1>3
  <2> QED  BY <2>1, <2>2, <2>3, <2>4, <2>5, Zenon DEF TypeOK, RowType
<1>7. Numbered(reg, nextRegion, numbers)'
  BY <1>3 DEF RInv
<1>8. /\ Len(ext') = Len(ext) + 1 /\ ext'[Len(ext) + 1].owner = call.bucket /\ Len(ext) \in Nat
      /\ \A i \in 1 .. Len(ext) : ext'[i].owner = ext[i].owner
  <2>1. x.owner = call.bucket
    OBVIOUS
  <2> HIDE DEF x
  <2>2. Len(a) = Len(e) + 1 /\ a[Len(e) + 1] = x /\ \A i \in 1 .. Len(e) : a[i] = e[i]
    OBVIOUS
  <2> HIDE DEF a
  <2>3. ext' = a /\ Len(ext) \in Nat /\ Len(e) = Len(ext)
    BY <1>1, <1>3
  <2> QED  BY <2>1, <2>2, <2>3
<1>9. /\ Housed(ext', reg, "region", call.bucket) /\ OwnsExtent(ext', call.bucket)
      /\ OwnsExtent(ext, call.bucket) => \A q : Housed(ext', reg, q, call.bucket)
  <2>1. Housed(ext, reg, pc, call.bucket) /\ pc # "region"
    BY <1>2 DEF RInv
  <2> QED  BY <1>8, <2>1, HousedGranted
<1>10. Housed(ext', reg', pc', call'.bucket) /\ OwnsExtent(ext', call'.bucket)
  <2>1. CASE pc = "grant_more"
    <3>1. OwnsExtent(ext, call.bucket)
      BY <2>1 DEF RInv
    <3> QED  BY <1>3, <1>9, <3>1
  <2>2. CASE pc # "grant_more"
    BY <1>3, <1>9, <2>2
  <2> QED  BY <2>1, <2>2
<1> QED  BY <1>5, <1>6, <1>7, <1>10 DEF RInv

\* The growth of the data file (ensure_alloc).
LEMMA EnsureType ==
    ASSUME allocEnd \in Nat, NEW upto \in Nat, NEW chunk \in Nat
    PROVE  EnsureAlloc(upto, chunk) \in Nat
<1>1. PageUp(upto) \in Nat /\ PageUp(allocEnd + chunk) \in Nat
  BY PageBounds
<1> QED  BY <1>1 DEF EnsureAlloc

\* What is asked for is more than nothing, since no record is empty.
LEMMA NeedPositive ==
    ASSUME call.len \in Lens
    PROVE  need \in Nat \ {0} /\ grow \in Nat \ {0}
<1>1. call.len \in Nat \ {0}
  BY BucketAssumption
<1>2. need \in Nat /\ call.len <= need /\ grow \in Nat /\ need <= grow
  BY NeedCovers
<1> QED  BY <1>1, <1>2

\* The three ways of grant_extent keep the registry true to the allocator.
LEMMA GrantsRegistered ==
    ASSUME BInv, BInv', RInv, FirstGrant \/ Grow \/ Split
    PROVE  RInv'
<1>1. /\ ext \in Seq(ExtentType) /\ rows \in Seq(RowType) /\ fileSize \in Nat
      /\ allocEnd \in Nat /\ Len(rows) \in Nat
      /\ pc \in Active => call.bucket \in Buckets /\ call.len \in Lens
  BY Types
<1>2. Granting /\ call.bucket \in Buckets /\ call.len \in Lens
  <2>1. Granting
    BY DEF FirstGrant, Grow, Split
  <2> QED  BY <1>1, <2>1 DEF Granting, Active
<1>3. Matches(Replay(rows), Len(rows), ext, reg, fileSize, nextRegion)
  BY DEF RInv
<1>4. need \in Nat \ {0} /\ grow \in Nat \ {0}
  BY <1>2, NeedPositive
<1>5. Sound(ext, fileSize) /\ PAGE \in Nat /\ fileSize >= PAGE
  BY PageAssumption DEF BInv
<1>6. DOMAIN ext = 1 .. Len(ext) /\ Len(ext) \in Nat
  BY <1>1
<1>7. CASE FirstGrant
  <2>1. /\ ext = <<>> /\ fileSize' = fileSize /\ allocEnd' = allocEnd
        /\ Grant(ext, [start |-> PAGE, size |-> fileSize - PAGE])
    BY <1>7 DEF FirstGrant, BInv
  <2> DEFINE sz == fileSize - PAGE
  <2>2. sz \in Nat /\ PAGE + sz <= fileSize /\ Len(ext) = 0
    BY <1>1, <1>5, <2>1
  <2> HIDE DEF sz
  <2>3. ASSUME NEW u \in Nat
        PROVE  Matches(ReplayRow(Replay(rows), [kind |-> "D", bucket |-> call.bucket,
                                                start |-> PAGE, size |-> sz]),
                       Len(rows) + 1,
                       Append(ext, [owner |-> call.bucket, start |-> PAGE, size |-> sz, used |-> u]),
                       reg, fileSize, nextRegion)
    <3>1. fileSize <= fileSize /\ 1 .. Len(ext) = {}
      BY <1>1, <2>2
    <3> QED  BY <1>1, <1>2, <1>3, <1>5, <2>2, <3>1, MatchesNew
  <2>4. Grant(ext, [start |-> PAGE, size |-> sz])
    BY <2>1 DEF sz
  <2>5. fileSize' = fileSize /\ allocEnd' \in Nat /\ sz \in Nat /\ PAGE \in Nat
    BY <1>1, <1>5, <2>1, <2>2
  <2> QED  BY <1>1, <1>2, <2>3, <2>4, <2>5, GrantRows
<1>8. CASE Grow
  <2>1. /\ fileSize' = fileSize + grow /\ allocEnd' = EnsureAlloc(fileSize + grow, grow)
        /\ Grant(ext, [start |-> fileSize, size |-> grow])
    BY <1>8 DEF Grow
  <2>2. allocEnd' \in Nat /\ fileSize + grow \in Nat /\ fileSize <= fileSize + grow /\ grow \in Nat
    BY <1>1, <1>4, <2>1, EnsureType
  <2>3. ASSUME NEW i \in 1 .. Len(ext)
        PROVE  ~(fileSize >= ext[i].start /\ fileSize + grow <= ExtentEnd(ext[i]))
    <3>1. ExtentEnd(ext[i]) <= fileSize
      BY <1>5, <1>6 DEF Sound, Inside
    <3>2. ExtentEnd(ext[i]) \in Nat
      BY <1>1, ExtentFields
    <3> QED  BY <1>1, <1>4, <3>1, <3>2
  <2>4. ASSUME NEW u \in Nat
        PROVE  Matches(ReplayRow(Replay(rows), [kind |-> "D", bucket |-> call.bucket,
                                                start |-> fileSize, size |-> grow]),
                       Len(rows) + 1,
                       Append(ext, [owner |-> call.bucket, start |-> fileSize, size |-> grow,
                                    used |-> u]),
                       reg, fileSize + grow, nextRegion)
    <3>1. fileSize + grow <= fileSize + grow
      BY <2>2
    <3> QED  BY <1>1, <1>2, <1>3, <2>2, <2>3, <3>1, MatchesNew
  <2> QED  BY <1>1, <1>2, <2>1, <2>2, <2>4, GrantRows
<1>9. CASE Split
  <2> DEFINE v == LastExtent(victim)
             c == Cut(Free(ext[v]))
             st == ext[v].start + ext[v].size - c
             e == Shorter(ext, v, c)
  <2>1. /\ Owned(victim) # {} /\ Free(ext[v]) >= need /\ fileSize' = fileSize
        /\ allocEnd' = allocEnd /\ Grant(e, [start |-> st, size |-> c])
    BY <1>9 DEF Split, Shorter
  <2>2. v \in 1 .. Len(ext)
    BY <1>1, <1>6, <2>1, LastExtentIn
  <2> HIDE DEF v
  <2>3. ext[v] \in ExtentType /\ ext[v].used <= ext[v].size
    BY <1>1, <1>5, <1>6, <2>2 DEF Sound, Fit
  <2>4. c \in Nat /\ need <= c /\ ext[v].used + c <= ext[v].size
    BY <1>4, <2>1, <2>3, CutFits
  <2> HIDE DEF c
  <2>5. ext[v].start \in Nat /\ ext[v].size \in Nat /\ ext[v].used \in Nat
    BY <2>3, ExtentFields
  <2>6. c \in Nat \ {0} /\ c <= ext[v].size
    BY <1>4, <2>4, <2>5
  <2>7. st \in Nat /\ st + c = ext[v].start + ext[v].size
    BY <2>5, <2>6
  <2>8. /\ e \in Seq(ExtentType) /\ Len(e) = Len(ext)
        /\ \A i \in 1 .. Len(ext) : e[i].owner = ext[i].owner
    <3>1. /\ e \in Seq(ExtentType) /\ DOMAIN e = DOMAIN ext
          /\ \A i \in DOMAIN ext : e[i].owner = ext[i].owner
      BY <1>1, <1>6, <2>2, <2>6, ShorterIs
    <3> HIDE DEF e
    <3> QED  BY <1>6, <3>1
  <2>9. ASSUME NEW u \in Nat
        PROVE  Matches(ReplayRow(Replay(rows), [kind |-> "D", bucket |-> call.bucket,
                                                start |-> st, size |-> c]),
                       Len(rows) + 1,
                       Append(e, [owner |-> call.bucket, start |-> st, size |-> c, used |-> u]),
                       reg, fileSize, nextRegion)
    <3>1. Disjoint(ext)
      BY <1>5 DEF Sound
    <3> HIDE DEF st
    <3> QED  BY <1>1, <1>2, <1>3, <2>2, <2>6, <2>7, <3>1, MatchesCut
  <2> HIDE DEF st, e
  <2> QED  BY <1>1, <1>2, <2>1, <2>4, <2>7, <2>8, <2>9, GrantRows
<1> QED  BY <1>7, <1>8, <1>9

\* Extents and regions that differ only in what is used of them, in a file no shorter.
LEMMA MatchesSame ==
    ASSUME NEW x, NEW n, NEW e \in Seq(ExtentType), NEW r \in Seq(RegionType), NEW f \in Nat,
           NEW nr, Matches(x, n, e, r, f, nr),
           NEW a \in Seq(ExtentType), NEW s \in Seq(RegionType), NEW g \in Nat, x.fileSize <= g,
           SameExtents(a, e), SameRegions(s, r)
    PROVE  Matches(x, n, a, s, g, nr)
<1>1. SameExtents(x.ext, a) /\ SameRegions(x.reg, s)
  BY DEF Matches, SameExtents, SameRegions
<1>2. DOMAIN a = 1 .. Len(e) /\ DOMAIN e = 1 .. Len(e)
  BY DEF SameExtents
<1>3. \A i \in 1 .. Len(e) : ExtentEnd(a[i]) = ExtentEnd(e[i])
  BY DEF SameExtents, ExtentEnd
<1>4. Inside(a, x.fileSize)
  BY <1>2, <1>3 DEF Matches, Inside
<1> QED  BY <1>1, <1>4 DEF Matches

\* Everything is the same as itself.
LEMMA SameRefl ==
    ASSUME NEW e
    PROVE  SameExtents(e, e) /\ SameRegions(e, e)
BY DEF SameExtents, SameRegions

\* place_bytes in the last extent.
LEMMA PlaceRegistered ==
    ASSUME BInv, BInv', RInv, Place
    PROVE  RInv'
<1> DEFINE v == LastExtent(call.bucket)
<1>1. /\ pc = "place" /\ Owned(call.bucket) # {} /\ ext' = Fuller(ext, v, call.len)
      /\ pc' = "number"
      /\ UNCHANGED <<order, reg, grantCount, fileSize, allocEnd, nextRegion, rows, call, numbers>>
  BY DEF Place, Fuller
<1>2. /\ ext \in Seq(ExtentType) /\ reg \in Seq(RegionType) /\ fileSize \in Nat
      /\ pc \in Active => call.bucket \in Buckets /\ call.len \in Lens
  BY Types
<1>3. call.len \in Nat
  BY <1>1, <1>2, BucketAssumption DEF Active
<1>4. v \in DOMAIN ext /\ DOMAIN ext = 1 .. Len(ext) /\ Len(ext) \in Nat
  BY <1>1, <1>2, LastExtentIn
<1> HIDE DEF v
<1>5. /\ ext' \in Seq(ExtentType) /\ DOMAIN ext' = DOMAIN ext
      /\ \A i \in DOMAIN ext : /\ ext'[i].owner = ext[i].owner /\ ext'[i].start = ext[i].start
                               /\ ext'[i].size = ext[i].size
  <2> DEFINE a == Fuller(ext, v, call.len)
  <2>1. /\ a \in Seq(ExtentType) /\ DOMAIN a = DOMAIN ext
        /\ \A i \in DOMAIN ext : a[i].owner = ext[i].owner /\ a[i].start = ext[i].start
                                 /\ a[i].size = ext[i].size
    <3>1. ext \in Seq(ExtentType) /\ call.len \in Nat /\ v \in DOMAIN ext
      BY <1>2, <1>3, <1>4
    <3> QED  BY <3>1, FullerIs, Zenon
  <2>2. ext' = a
    BY <1>1
  <2> HIDE DEF a
  <2> QED  BY <2>1, <2>2
<1>6. Len(ext') = Len(ext)
  BY <1>4, <1>5
<1>7. SameExtents(ext', ext)
  BY <1>4, <1>5, <1>6 DEF SameExtents
<1>8. Matches(Replay(rows), Len(rows), ext, reg, fileSize, nextRegion)
  BY DEF RInv
<1>9. Matches(Replay(rows), Len(rows), ext', reg, fileSize, nextRegion)
  <2>1. Replay(rows).fileSize <= fileSize
    BY <1>8 DEF Matches
  <2> QED  BY <1>2, <1>5, <1>7, <1>8, <2>1, SameRefl, MatchesSame
<1>10. \A c : Housed(ext', reg, "number", c)
  <2>1. Len(reg) \in Nat /\ Len(reg) >= Len(reg) /\ Housed(ext, reg, "place", call.bucket)
    BY <1>1, <1>2 DEF RInv
  <2> QED  BY <1>4, <1>5, <1>6, <2>1, HousedSame
<1>11. OwnsExtent(ext', call.bucket)
  BY <1>1, <1>4, <1>5, <1>6 DEF Owned, OwnsExtent
<1>12. TypeOK'
  <2>1. placed' \in Seq([off : Nat, len : Lens])
    BY DEF BInv, RecordType
  <2>2. TypeOK
    BY DEF RInv
  <2> QED  BY <1>1, <1>5, <2>1, <2>2, Zenon DEF TypeOK
<1>13. Numbered(reg, nextRegion, numbers)
  BY DEF RInv
<1> QED  BY <1>1, <1>9, <1>10, <1>11, <1>12, <1>13 DEF RInv

\* The last region of a bucket that has one.
LEMMA LastRegionIn ==
    ASSUME RInv, pc = "number"
    PROVE  LastRegion(call.bucket) \in 1 .. Len(reg)
<1> DEFINE R == {i \in DOMAIN reg : reg[i].owner = call.bucket}
<1>1. reg \in Seq(RegionType)
  BY Types
<1>2. DOMAIN reg = 1 .. Len(reg) /\ Len(reg) \in Nat
  BY <1>1
<1>3. PICK i \in 1 .. Len(ext) : ext[i].owner = call.bucket
  BY DEF RInv, OwnsExtent
<1>4. PICK j \in 1 .. Len(reg) : reg[j].owner = call.bucket
  BY <1>3 DEF RInv, Housed
<1>5. R # {} /\ R \subseteq 1 .. Len(reg)
  BY <1>2, <1>4
<1>6. \E k \in R : \A l \in R : l <= k
  <2> HIDE DEF R
  <2> QED  BY <1>2, <1>5, LastExists
<1>7. LastRegion(call.bucket) \in R
  <2>1. LastRegion(call.bucket) = CHOOSE k \in R : \A l \in R : l <= k
    BY DEF LastRegion
  <2> HIDE DEF R
  <2> QED  BY <1>6, <2>1
<1> QED  BY <1>5, <1>7

\* grant_region: a row and a region, and the numbers after it whatever they are.
LEMMA RegionRegistered ==
    ASSUME RInv, call.bucket \in Buckets, NEW u \in 0 .. region_slots, NewRegion(u)
    PROVE  /\ Matches(Replay(rows'), Len(rows'), ext', reg', fileSize', nextRegion')
           /\ rows' \in Seq(RowType) /\ reg' \in Seq(RegionType) /\ nextRegion' \in Nat
           /\ Len(reg') = Len(reg) + 1 /\ reg'[Len(reg) + 1].owner = call.bucket
           /\ \A i \in 1 .. Len(reg) : reg'[i].owner = reg[i].owner
<1> DEFINE row == [kind |-> "S", bucket |-> call.bucket, start |-> nextRegion,
                   size |-> region_slots]
           x == [owner |-> call.bucket, start |-> nextRegion, used |-> u]
<1>1. /\ reg \in Seq(RegionType) /\ rows \in Seq(RowType) /\ nextRegion \in Nat
      /\ Len(rows) \in Nat /\ fileSize \in Nat
  BY Types
<1>2. /\ reg' = Append(reg, x) /\ rows' = Append(rows, row)
      /\ nextRegion' = nextRegion + region_slots /\ ext' = ext /\ fileSize' = fileSize
  BY DEF NewRegion, PushRow
<1>3. row \in RowType /\ x \in RegionType /\ x.owner = call.bucket /\ region_slots \in Nat
  BY <1>1, BucketAssumption DEF RowType, RegionType
<1>4. Matches(ReplayRow(Replay(rows), row), Len(rows) + 1, ext, Append(reg, x), fileSize,
              nextRegion + region_slots)
  <2>1. Matches(Replay(rows), Len(rows), ext, reg, fileSize, nextRegion)
    BY DEF RInv
  <2> QED  BY <1>1, <2>1, MatchesRegion
<1> HIDE DEF row, x
<1>5. /\ Len(rows') = Len(rows) + 1 /\ Replay(rows') = ReplayRow(Replay(rows), row)
      /\ rows' \in Seq(RowType)
  BY <1>1, <1>2, <1>3, ReplayAppend
<1>6. /\ reg' \in Seq(RegionType) /\ Len(reg') = Len(reg) + 1 /\ reg'[Len(reg) + 1] = x
      /\ \A i \in 1 .. Len(reg) : reg'[i] = reg[i]
  BY <1>1, <1>2, <1>3
<1>7. nextRegion' \in Nat
  BY <1>1, <1>2, <1>3
<1>8. Matches(Replay(rows'), Len(rows'), ext', reg', fileSize', nextRegion')
  BY <1>2, <1>4, <1>5
<1> QED  BY <1>3, <1>5, <1>6, <1>7, <1>8

\* The region of a new bucket, and the number of an insert.
LEMMA NumbersRegistered ==
    ASSUME RInv, BInv', GrantRegion \/ Number
    PROVE  RInv'
<1>1. /\ ext \in Seq(ExtentType) /\ reg \in Seq(RegionType) /\ fileSize \in Nat
      /\ nextRegion \in Nat /\ pc \in {"region", "number"}
      /\ pc \in Active => call.bucket \in Buckets /\ call.len \in Lens
  BY Types DEF GrantRegion, Number
<1>2. call.bucket \in Buckets /\ 0 \in 0 .. region_slots /\ 1 \in 0 .. region_slots
  BY <1>1, BucketAssumption DEF Active
<1>3. TypeOK /\ Numbered(reg, nextRegion, numbers) /\ Len(ext) \in Nat /\ Len(reg) \in Nat
  BY <1>1 DEF RInv
<1>4. CASE GrantRegion
  <2>1. /\ pc = "region" /\ NewRegion(0) /\ pc' = "place"
        /\ UNCHANGED <<order, ext, grantCount, fileSize, allocEnd, call, placed, numbers>>
        /\ nextRegion' = nextRegion + region_slots
        /\ reg' = Append(reg, [owner |-> call.bucket, start |-> nextRegion, used |-> 0])
    BY <1>4 DEF GrantRegion, NewRegion, history
  <2>2. /\ Matches(Replay(rows'), Len(rows'), ext', reg', fileSize', nextRegion')
        /\ rows' \in Seq(RowType) /\ reg' \in Seq(RegionType) /\ nextRegion' \in Nat
        /\ Len(reg') = Len(reg) + 1 /\ reg'[Len(reg) + 1].owner = call.bucket
        /\ \A i \in 1 .. Len(reg) : reg'[i].owner = reg[i].owner
    BY <1>2, <2>1, RegionRegistered
  <2>3. Numbered(reg', nextRegion', numbers')
    <3>1. Regions(reg', nextRegion') /\ Given(reg', numbers)
      BY <1>2, <1>3, <2>1, RegionAdded
    <3> QED  BY <1>3, <2>1, <3>1 DEF Numbered
  <2>4. Housed(ext', reg', pc', call'.bucket)
    <3>1. \A i \in 1 .. Len(ext) : \/ ext[i].owner = call.bucket
                                   \/ \E j \in 1 .. Len(reg) : reg[j].owner = ext[i].owner
      BY DEF RInv, Housed
    <3>2. Len(reg) + 1 \in 1 .. Len(reg') /\ \A j \in 1 .. Len(reg) : j \in 1 .. Len(reg')
      BY <1>3, <2>2
    <3>3. \A i \in 1 .. Len(ext) : \E j \in 1 .. Len(reg') : reg'[j].owner = ext[i].owner
      BY <2>2, <3>1, <3>2
    <3> QED  BY <2>1, <3>3 DEF Housed
  <2>5. TypeOK'
    BY <1>3, <2>1, <2>2, Zenon DEF TypeOK, RowType
  <2>6. pc' \notin {"grant_more", "number"}
    BY <2>1
  <2> QED  BY <2>2, <2>3, <2>4, <2>5, <2>6 DEF RInv
<1>5. CASE Number
  <2> DEFINE i == LastRegion(call.bucket)
  <2>1. /\ pc = "number" /\ pc' = "idle" /\ call' = NoCall /\ placed' = placed
        /\ UNCHANGED <<order, ext, grantCount, fileSize, allocEnd>>
    BY <1>5 DEF Number, Return, NewRegion
  <2>2. i \in 1 .. Len(reg)
    BY <2>1, LastRegionIn
  <2>3. Matches(Replay(rows), Len(rows), ext, reg, fileSize, nextRegion)
    BY DEF RInv
  <2>4. /\ Matches(Replay(rows'), Len(rows'), ext', reg', fileSize', nextRegion')
        /\ Numbered(reg', nextRegion', numbers') /\ rows' \in Seq(RowType)
        /\ Len(reg') >= Len(reg) /\ \A k \in 1 .. Len(reg) : reg'[k].owner = reg[k].owner
    <3>1. CASE RegionHasRoom(reg[i])
      <4>1. /\ reg' = [reg EXCEPT ![i].used = @ + 1] /\ rows' = rows
            /\ numbers' = Append(numbers, reg[i].start + reg[i].used)
            /\ nextRegion' = nextRegion
        BY <1>5, <3>1 DEF Number
      <4> HIDE DEF i
      <4>2. /\ Numbered(reg', nextRegion', numbers') /\ Len(reg') = Len(reg)
            /\ \A k \in 1 .. Len(reg) : reg'[k].owner = reg[k].owner /\ reg'[k].start = reg[k].start
        <5> DEFINE s == [reg EXCEPT ![i].used = @ + 1]
                   q == Append(numbers, reg[i].start + reg[i].used)
        <5>1. reg[i].used < region_slots
          BY <3>1 DEF RegionHasRoom
        <5>2. /\ Numbered(s, nextRegion, q) /\ Len(s) = Len(reg)
              /\ \A k \in 1 .. Len(reg) : s[k].owner = reg[k].owner /\ s[k].start = reg[k].start
          BY <1>3, <2>2, <5>1, NextNumber
        <5>3. reg' = s /\ numbers' = q /\ nextRegion' = nextRegion
          BY <4>1
        <5> HIDE DEF s, q
        <5> QED  BY <5>2, <5>3
      <4>3. SameRegions(reg', reg) /\ reg' \in Seq(RegionType)
        BY <4>2 DEF SameRegions, Numbered, Regions
      <4>4. Replay(rows).fileSize <= fileSize
        BY <2>3 DEF Matches
      <4>5. Matches(Replay(rows), Len(rows), ext, reg', fileSize, nextRegion)
        BY <1>1, <2>3, <4>3, <4>4, SameRefl, MatchesSame
      <4>6. rows' \in Seq(RowType) /\ Len(reg') >= Len(reg)
        BY <1>3, <4>1, <4>2, Types
      <4> QED  BY <2>1, <4>1, <4>2, <4>5, <4>6
    <3>2. CASE ~RegionHasRoom(reg[i])
      <4>1. NewRegion(1) /\ numbers' = Append(numbers, nextRegion)
        BY <1>5, <3>2 DEF Number
      <4>2. /\ nextRegion' = nextRegion + region_slots
            /\ reg' = Append(reg, [owner |-> call.bucket, start |-> nextRegion, used |-> 1])
        BY <4>1 DEF NewRegion
      <4>3. Numbered(reg', nextRegion', numbers')
        BY <1>2, <1>3, <4>1, <4>2, FirstNumber
      <4>4. /\ Matches(Replay(rows'), Len(rows'), ext', reg', fileSize', nextRegion')
            /\ rows' \in Seq(RowType) /\ Len(reg') = Len(reg) + 1
            /\ \A k \in 1 .. Len(reg) : reg'[k].owner = reg[k].owner
        BY <1>2, <4>1, RegionRegistered
      <4> QED  BY <1>3, <4>3, <4>4
    <3> QED  BY <3>1, <3>2
  <2>5. Housed(ext', reg', pc', call'.bucket)
    <3>1. reg' \in Seq(RegionType) /\ Housed(ext, reg, "number", call.bucket)
      BY <2>1, <2>4 DEF Numbered, Regions, RInv
    <3>2. Len(reg') \in Nat
      BY <3>1
    <3> QED  BY <1>3, <2>1, <2>4, <3>1, <3>2, HousedSame
  <2>6. TypeOK'
    <3>1. reg' \in Seq(RegionType) /\ nextRegion' \in Nat /\ numbers' \in Seq(Nat)
      BY <2>4 DEF Numbered, Regions
    <3> QED  BY <1>3, <2>1, <2>4, <3>1, Zenon DEF TypeOK, RowType
  <2> QED  BY <2>1, <2>4, <2>5, <2>6 DEF RInv
<1> QED  BY <1>4, <1>5

\* The steps of a call that grant nothing and place nothing.
LEMMA QuietRegistered ==
    ASSUME RInv, BInv',
           \/ \E b \in Buckets, len \in Lens : Insert(b, len) \/ Update(b, len)
           \/ GrowFails \/ Skip \/ NoExtent \/ PlaceFull \/ UpdateReturns \/ UNCHANGED vars
    PROVE  RInv'
<1>1. TypeOK /\ Housed(ext, reg, pc, call.bucket) /\ reg \in Seq(RegionType)
      /\ order \in Seq(Buckets) /\ grantCount \in Nat
  BY Types DEF RInv
<1>2. Len(ext) = Len(ext) /\ Len(reg) >= Len(reg) /\ Len(reg) \in Nat
  BY <1>1
<1>3. pc # "region" => \A c, q : Housed(ext, reg, q, c)
  BY <1>1, <1>2, HousedSame
<1>4. ASSUME NEW b \in Buckets, NEW len \in Lens, Insert(b, len)
      PROVE  RInv'
  <2>1. /\ UNCHANGED <<ext, reg, fileSize, nextRegion, rows, numbers, grantCount, allocEnd, placed>>
        /\ pc = "idle" /\ pc' \in {"place", "grant_new"}
        /\ call' = [kind |-> "insert", bucket |-> b, len |-> len]
        /\ order' = order \/ order' = Append(order, b)
    BY <1>4 DEF Insert, history
  <2>2. order' \in Seq(Buckets)
    BY <1>1, <2>1
  <2>3. /\ call' \in [kind : {"insert", "update"}, bucket : Buckets, len : Lens]
        /\ call' # NoCall
    BY <2>1 DEF NoCall
  <2>4. TypeOK'
    BY <1>1, <2>1, <2>2, <2>3, Zenon DEF TypeOK
  <2> QED  BY <1>3, <2>1, <2>4, QuietRows
<1>5. ASSUME NEW b \in Buckets, NEW len \in Lens, Update(b, len)
      PROVE  RInv'
  <2>1. /\ UNCHANGED <<ext, reg, fileSize, nextRegion, rows, numbers, grantCount, allocEnd, placed>>
        /\ pc = "idle" /\ pc' = "place" /\ order' = order
        /\ call' = [kind |-> "update", bucket |-> b, len |-> len]
    BY <1>5 DEF Update, allocator, history
  <2>2. /\ call' \in [kind : {"insert", "update"}, bucket : Buckets, len : Lens]
        /\ call' # NoCall
    BY <2>1 DEF NoCall
  <2>3. TypeOK'
    BY <1>1, <2>1, <2>2, Zenon DEF TypeOK
  <2> QED  BY <1>3, <2>1, <2>3, QuietRows
<1>6. CASE GrowFails \/ UpdateReturns
  <2>1. /\ UNCHANGED <<ext, reg, fileSize, nextRegion, rows, numbers, allocEnd, placed, order>>
        /\ pc' = "idle" /\ call' = NoCall /\ pc # "region"
    BY <1>6 DEF GrowFails, UpdateReturns, Return, allocator, history, Granting
  <2>2. grantCount' \in Nat
    BY DEF BInv
  <2>3. TypeOK'
    BY <1>1, <2>1, <2>2, Zenon DEF TypeOK
  <2> QED  BY <1>3, <2>1, <2>3, QuietRows
<1>7. CASE Skip \/ UNCHANGED vars
  <2>1. UNCHANGED <<ext, reg, fileSize, nextRegion, rows, numbers, allocEnd, placed, order, pc, call>>
    BY <1>7 DEF Skip, vars, allocator, history
  <2>2. grantCount' \in Nat
    BY DEF BInv
  <2>3. TypeOK'
    BY <1>1, <2>1, <2>2, Zenon DEF TypeOK
  <2>4. pc' \in {"grant_more", "number"} => OwnsExtent(ext, call'.bucket)
    BY <2>1 DEF RInv
  <2> QED  BY <1>1, <2>1, <2>3, <2>4, QuietRows
<1>8. CASE NoExtent
  <2>1. /\ UNCHANGED <<ext, reg, fileSize, nextRegion, rows, numbers, allocEnd, placed, order, call,
                       grantCount>>
        /\ pc' = "panicked" /\ pc # "region"
    BY <1>8 DEF NoExtent, allocator, history, Granting
  <2>2. TypeOK'
    BY <1>1, <2>1, Zenon DEF TypeOK
  <2> QED  BY <1>3, <2>1, <2>2, QuietRows
<1>9. CASE PlaceFull
  <2>1. /\ UNCHANGED <<ext, reg, fileSize, nextRegion, rows, numbers, allocEnd, placed, order, call,
                       grantCount>>
        /\ pc = "place" /\ pc' = "grant_more" /\ Owned(call.bucket) # {}
    BY <1>9 DEF PlaceFull, allocator, history
  <2>2. TypeOK'
    BY <1>1, <2>1, Zenon DEF TypeOK
  <2>3. OwnsExtent(ext, call.bucket)
    <3>1. ext \in Seq(ExtentType)
      BY Types
    <3> QED  BY <2>1, <3>1 DEF Owned, OwnsExtent
  <2> QED  BY <1>3, <2>1, <2>2, <2>3, QuietRows
<1> QED  BY <1>4, <1>5, <1>6, <1>7, <1>8, <1>9

-----------------------------------------------------------------------------
(* open on an existing store. *)

\* The furthest end found in a range lies in it, and no end in the range is further.
LEMMA UsedUpToIs ==
    ASSUME NEW ends, ends \subseteq Nat, NEW start \in Nat, NEW size \in Nat
    PROVE  /\ UsedUpTo(ends, start, size) \in 0 .. size
           /\ \A m \in ends : m > start /\ m <= start + size
                              => m - start <= UsedUpTo(ends, start, size)
<1> DEFINE In0 == {m \in ends : m > start /\ m <= start + size}
           S == {0} \union {n - start : n \in In0}
<1>1. \A m \in In0 : m \in ends /\ m \in Nat /\ m - start \in 0 .. size
  OBVIOUS
<1>2. S \subseteq 0 .. size /\ S # {}
  <2> HIDE DEF In0
  <2> QED  BY <1>1
<1>3. UsedUpTo(ends, start, size) = Max(S)
  BY DEF UsedUpTo
<1>4. \A m \in In0 : m - start \in S
  OBVIOUS
<1>5. Max(S) \in S /\ \A y \in S : y <= Max(S)
  <2> HIDE DEF S
  <2> QED  BY <1>2, MaxIsGreatest
<1>6. \A m \in ends : m > start /\ m <= start + size => m \in In0
  OBVIOUS
<1> HIDE DEF S, In0
<1> QED  BY <1>2, <1>3, <1>4, <1>5, <1>6

\* What open finds in use covers every record and every number, and no more than there is.
LEMMA RecoverIs ==
    ASSUME BInv, RInv
    PROVE  LET x == Replay(rows)
               y == Recover(x)
           IN  /\ y.ext \in Seq(ExtentType) /\ y.reg \in Seq(RegionType)
               /\ SameExtents(y.ext, ext) /\ SameRegions(y.reg, reg)
               /\ Fit(y.ext) /\ Covered(y.ext, placed) /\ Given(y.reg, numbers)
               /\ y.order \in Seq(Buckets) /\ y.count = Len(rows)
               /\ y.fileSize = x.fileSize /\ y.nextRegion = nextRegion
<1> DEFINE x == Replay(rows)
           ends == {placed[n].off + placed[n].len : n \in DOMAIN placed}
           taken == {numbers[n] + 1 : n \in DOMAIN numbers}
           LastOf(s, i) == \A j \in DOMAIN s : s[j].owner = s[i].owner => j <= i
           EUsed(i) == IF LastOf(x.ext, i) THEN UsedUpTo(ends, x.ext[i].start, x.ext[i].size)
                       ELSE x.ext[i].size
           RUsed(i) == IF LastOf(x.reg, i) THEN UsedUpTo(taken, x.reg[i].start, region_slots)
                       ELSE region_slots
           e == [i \in DOMAIN x.ext |-> [x.ext[i] EXCEPT !.used = EUsed(i)]]
           r == [i \in DOMAIN x.reg |-> [x.reg[i] EXCEPT !.used = RUsed(i)]]
           y == [x EXCEPT !.ext = e, !.reg = r]
<1>1. Recover(x) = y
  BY Zenon DEF Recover
<1>2. /\ ext \in Seq(ExtentType) /\ reg \in Seq(RegionType) /\ numbers \in Seq(Nat)
      /\ Matches(x, Len(rows), ext, reg, fileSize, nextRegion)
  BY Types DEF RInv
<1>3. /\ x \in Images /\ x.ext \in Seq(RawExtent) /\ x.reg \in Seq(RawRegion)
      /\ SameExtents(x.ext, ext) /\ SameRegions(x.reg, reg)
      /\ DOMAIN x.ext = 1 .. Len(ext) /\ DOMAIN x.reg = 1 .. Len(reg)
  BY <1>2 DEF Matches, Images, SameExtents, SameRegions
<1>4. placed \in Seq(RecordType)
  BY DEF BInv
<1>5. ends \subseteq Nat
  <2>1. \A n \in DOMAIN placed : placed[n] \in RecordType
    BY <1>4
  <2>2. ASSUME NEW q \in RecordType PROVE q.off + q.len \in Nat
    <3>1. Lens \subseteq Nat
      BY BucketAssumption
    <3>2. q.off \in Nat /\ q.len \in Lens
      BY DEF RecordType
    <3>3. q.len \in Nat
      BY <3>1, <3>2
    <3> QED  BY <3>2, <3>3
  <2> QED  BY <2>1, <2>2
<1>6. taken \subseteq Nat
  BY <1>2
<1> HIDE DEF x
<1>7. ASSUME NEW i \in 1 .. Len(ext)
      PROVE  /\ EUsed(i) \in Nat /\ EUsed(i) <= ext[i].size
             /\ \A m \in ends : m > ext[i].start /\ m <= ext[i].start + ext[i].size
                                => m <= ext[i].start + EUsed(i)
  <2>1. x.ext[i].start = ext[i].start /\ x.ext[i].size = ext[i].size
    BY <1>3 DEF SameExtents
  <2>2. ext[i].start \in Nat /\ ext[i].size \in Nat
    BY <1>2, ExtentFields
  <2> DEFINE w == UsedUpTo(ends, ext[i].start, ext[i].size)
  <2>3. EUsed(i) = w \/ EUsed(i) = ext[i].size
    BY <2>1
  <2>4. /\ w \in 0 .. ext[i].size
        /\ \A m \in ends : m > ext[i].start /\ m <= ext[i].start + ext[i].size
                           => m - ext[i].start <= w
    <3> HIDE DEF ends
    <3> QED  BY <1>5, <2>2, UsedUpToIs
  <2> HIDE DEF ends, w, EUsed
  <2>5. \A m \in ends : m \in Nat
    BY <1>5
  <2> QED  BY <2>2, <2>3, <2>4, <2>5
<1>8. ASSUME NEW i \in 1 .. Len(reg)
      PROVE  /\ RUsed(i) \in 0 .. region_slots
             /\ \A m \in taken : m > reg[i].start /\ m <= reg[i].start + region_slots
                                 => m <= reg[i].start + RUsed(i)
  <2>1. x.reg[i].start = reg[i].start
    BY <1>3 DEF SameRegions
  <2>2. reg[i].start \in Nat /\ region_slots \in Nat
    BY <1>2, RegionFields
  <2> DEFINE w == UsedUpTo(taken, reg[i].start, region_slots)
  <2>3. RUsed(i) = w \/ RUsed(i) = region_slots
    BY <2>1
  <2>4. /\ w \in 0 .. region_slots
        /\ \A m \in taken : m > reg[i].start /\ m <= reg[i].start + region_slots
                            => m - reg[i].start <= w
    <3> HIDE DEF taken
    <3> QED  BY <1>6, <2>2, UsedUpToIs
  <2> HIDE DEF taken, w, RUsed
  <2>5. \A m \in taken : m \in Nat
    BY <1>6
  <2> QED  BY <2>2, <2>3, <2>4, <2>5
<1> HIDE DEF EUsed, RUsed
<1>9. ASSUME NEW i \in 1 .. Len(ext)
      PROVE  /\ e[i] \in ExtentType /\ e[i].owner = ext[i].owner /\ e[i].start = ext[i].start
             /\ e[i].size = ext[i].size /\ e[i].used = EUsed(i)
  <2>1. e[i] = [x.ext[i] EXCEPT !.used = EUsed(i)] /\ x.ext[i] \in RawExtent
    BY <1>3
  <2>2. /\ x.ext[i].owner = ext[i].owner /\ x.ext[i].start = ext[i].start
        /\ x.ext[i].size = ext[i].size /\ ext[i] \in ExtentType
    BY <1>2, <1>3 DEF SameExtents
  <2>3. EUsed(i) \in Nat
    BY <1>7
  <2> HIDE DEF e
  <2> QED  BY <2>1, <2>2, <2>3 DEF RawExtent, ExtentType
<1>10. ASSUME NEW i \in 1 .. Len(reg)
       PROVE  /\ r[i] \in RegionType /\ r[i].owner = reg[i].owner /\ r[i].start = reg[i].start
              /\ r[i].used = RUsed(i)
  <2>1. r[i] = [x.reg[i] EXCEPT !.used = RUsed(i)] /\ x.reg[i] \in RawRegion
    BY <1>3
  <2>2. /\ x.reg[i].owner = reg[i].owner /\ x.reg[i].start = reg[i].start
        /\ reg[i] \in RegionType
    BY <1>2, <1>3 DEF SameRegions
  <2>3. RUsed(i) \in 0 .. region_slots
    BY <1>8
  <2> HIDE DEF r
  <2> QED  BY <2>1, <2>2, <2>3 DEF RawRegion, RegionType
<1>11. DOMAIN e = 1 .. Len(ext) /\ DOMAIN r = 1 .. Len(reg) /\ Len(ext) \in Nat /\ Len(reg) \in Nat
       /\ DOMAIN ext = 1 .. Len(ext)
  BY <1>2, <1>3
<1>12. e \in Seq(ExtentType) /\ Len(e) = Len(ext) /\ SameExtents(e, ext)
  <2>1. e \in [1 .. Len(ext) -> ExtentType]
    BY <1>9, <1>11
  <2> HIDE DEF e
  <2>2. e \in Seq(ExtentType) /\ Len(e) = Len(ext)
    BY <1>11, <2>1
  <2> QED  BY <1>9, <2>2 DEF SameExtents
<1>13. r \in Seq(RegionType) /\ Len(r) = Len(reg) /\ SameRegions(r, reg)
  <2>1. r \in [1 .. Len(reg) -> RegionType]
    BY <1>10, <1>11
  <2> HIDE DEF r
  <2>2. r \in Seq(RegionType) /\ Len(r) = Len(reg)
    BY <1>11, <2>1
  <2> QED  BY <1>10, <2>2 DEF SameRegions
<1>14. Fit(e)
  <2>1. \A i \in 1 .. Len(ext) : e[i].used <= e[i].size
    BY <1>7, <1>9
  <2> HIDE DEF e
  <2> QED  BY <1>11, <2>1 DEF Fit
<1>15. Covered(e, placed)
  <2> SUFFICES ASSUME NEW n \in DOMAIN placed PROVE \E i \in 1 .. Len(ext) : In(placed[n], e[i])
    BY <1>11 DEF Covered
  <2>1. PICK i \in DOMAIN ext : In(placed[n], ext[i])
    BY DEF BInv, Covered
  <2> DEFINE off == placed[n].off
             len == placed[n].len
  <2>2. off \in Nat /\ len \in Nat \ {0}
    <3>1. placed[n] \in RecordType /\ Lens \subseteq Nat \ {0}
      BY <1>4, BucketAssumption
    <3> QED  BY <3>1 DEF RecordType
  <2>3. ext[i].start <= off /\ off + len <= ext[i].start + ext[i].used
    BY <2>1 DEF In
  <2>4. /\ ext[i].start \in Nat /\ ext[i].size \in Nat /\ ext[i].used \in Nat
        /\ ext[i].used <= ext[i].size
    <3>1. ext[i].start \in Nat /\ ext[i].size \in Nat /\ ext[i].used \in Nat
      BY <1>2, ExtentFields
    <3> QED  BY <3>1 DEF BInv, Sound, Fit
  <2>5. off + len \in ends
    OBVIOUS
  <2> HIDE DEF off, len, ends
  <2>6. off + len > ext[i].start /\ off + len <= ext[i].start + ext[i].size
    BY <2>2, <2>3, <2>4
  <2>7. i \in 1 .. Len(ext) /\ off + len <= ext[i].start + EUsed(i)
    BY <1>7, <1>11, <2>1, <2>5, <2>6
  <2>8. e[i].start = ext[i].start /\ e[i].used = EUsed(i)
    BY <1>9, <2>7
  <2>9. In(placed[n], e[i])
    <3> HIDE DEF e
    <3> QED  BY <2>3, <2>7, <2>8 DEF In, off, len
  <2> QED  BY <2>7, <2>9
<1>16. Given(r, numbers)
  <2> SUFFICES ASSUME NEW n \in 1 .. Len(numbers) PROVE \E i \in 1 .. Len(reg) : Taken(numbers[n], r[i])
    BY <1>13 DEF Given
  <2>1. PICK i \in 1 .. Len(reg) : Taken(numbers[n], reg[i])
    BY DEF RInv, Numbered, Given
  <2>2. numbers[n] \in Nat /\ n \in DOMAIN numbers
    BY <1>2
  <2>3. reg[i].start <= numbers[n] /\ numbers[n] < reg[i].start + reg[i].used
    BY <2>1 DEF Taken
  <2>4. /\ reg[i].start \in Nat /\ reg[i].used \in Nat /\ reg[i].used <= region_slots
        /\ region_slots \in Nat
    BY <1>2, RegionFields
  <2>5. numbers[n] + 1 \in taken
    BY <2>2
  <2> HIDE DEF taken
  <2>6. numbers[n] + 1 > reg[i].start /\ numbers[n] + 1 <= reg[i].start + region_slots
    BY <2>2, <2>3, <2>4
  <2>7. numbers[n] + 1 <= reg[i].start + RUsed(i) /\ RUsed(i) \in Nat
    BY <1>8, <2>5, <2>6
  <2>8. r[i].start = reg[i].start /\ r[i].used = RUsed(i)
    BY <1>10
  <2>9. Taken(numbers[n], r[i])
    <3> HIDE DEF r
    <3> QED  BY <2>2, <2>3, <2>4, <2>7, <2>8 DEF Taken
  <2> QED  BY <2>9
<1> HIDE DEF e, r
<1>17. /\ y.ext = e /\ y.reg = r /\ y.order = x.order /\ y.count = x.count
       /\ y.fileSize = x.fileSize /\ y.nextRegion = x.nextRegion
  BY <1>3 DEF Images
<1>18. x.order \in Seq(Buckets) /\ x.count = Len(rows) /\ x.nextRegion = nextRegion
  BY <1>2, <1>3 DEF Matches, Images
<1> QED  BY <1>1, <1>12, <1>13, <1>14, <1>15, <1>16, <1>17, <1>18 DEF x

\* A reopen keeps both invariants.
LEMMA ReopenStep ==
    ASSUME BInv, RInv, Reopen
    PROVE  BInv' /\ RInv'
<1> DEFINE x == Replay(rows)
           y == Recover(x)
<1>1. /\ y.ext \in Seq(ExtentType) /\ y.reg \in Seq(RegionType)
      /\ SameExtents(y.ext, ext) /\ SameRegions(y.reg, reg)
      /\ Fit(y.ext) /\ Covered(y.ext, placed) /\ Given(y.reg, numbers)
      /\ y.order \in Seq(Buckets) /\ y.count = Len(rows)
      /\ y.fileSize = x.fileSize /\ y.nextRegion = nextRegion
  BY RecoverIs
<1>2. /\ pc = "idle" /\ order' = y.order /\ ext' = y.ext /\ reg' = y.reg /\ grantCount' = y.count
      /\ nextRegion' = y.nextRegion
      /\ fileSize' = IF allocEnd > y.fileSize THEN allocEnd ELSE y.fileSize
      /\ allocEnd' = fileSize' /\ UNCHANGED <<rows, pc, call, placed, numbers>>
  BY DEF Reopen, Replayed, history
<1> HIDE DEF y
<1>3. /\ ext \in Seq(ExtentType) /\ reg \in Seq(RegionType) /\ rows \in Seq(RowType)
      /\ fileSize \in Nat /\ allocEnd \in Nat /\ Len(rows) \in Nat
      /\ Matches(x, Len(rows), ext, reg, fileSize, nextRegion)
  BY Types DEF RInv
<1>4. x.fileSize \in Nat /\ x.fileSize >= PAGE /\ PAGE \in Nat
  <2>1. initial_size \in Nat /\ initial_size >= PAGE /\ PAGE \in Nat
    BY BucketAssumption, PageAssumption
  <2>2. x.fileSize \in Nat /\ x.fileSize >= initial_size
    BY <1>3 DEF Matches, Images
  <2> QED  BY <2>1, <2>2
<1>5. grantCount' = 0 => ext' = <<>>
  <2> SUFFICES ASSUME grantCount' = 0 PROVE ext' = <<>>
    OBVIOUS
  <2>1. rows = <<>>
    BY <1>1, <1>2, <1>3
  <2>2. x = Blank
    BY <2>1, ReplayEmpty
  <2>3. x.ext = <<>>
    BY <2>2 DEF Blank
  <2>4. Len(ext) = 0
    BY <1>3, <2>3 DEF Matches, SameExtents
  <2>5. Len(ext') = 0 /\ ext' \in Seq(ExtentType)
    BY <1>1, <1>2, <2>4 DEF SameExtents
  <2> QED  BY <2>5
<1> HIDE DEF x
<1>6. /\ fileSize' \in Nat /\ x.fileSize <= fileSize' /\ fileSize' >= PAGE /\ allocEnd' \in Nat
  BY <1>1, <1>2, <1>3, <1>4
<1>7. /\ ext' \in Seq(ExtentType) /\ reg' \in Seq(RegionType) /\ SameExtents(ext', ext)
      /\ SameRegions(reg', reg)
  BY <1>1, <1>2
<1>8. Matches(Replay(rows'), Len(rows'), ext', reg', fileSize', nextRegion')
  <2>1. Matches(x, Len(rows), ext', reg', fileSize', nextRegion)
    BY <1>3, <1>6, <1>7, MatchesSame
  <2> QED  BY <1>1, <1>2, <2>1 DEF x
<1>9. /\ DOMAIN ext' = 1 .. Len(ext) /\ DOMAIN ext = 1 .. Len(ext) /\ Len(ext) \in Nat
      /\ Len(ext') = Len(ext) /\ Len(reg') = Len(reg) /\ Len(reg) \in Nat
      /\ \A i \in 1 .. Len(ext) : /\ ext'[i].owner = ext[i].owner /\ ext'[i].start = ext[i].start
                                  /\ ExtentEnd(ext'[i]) = ExtentEnd(ext[i])
      /\ \A i \in 1 .. Len(reg) : reg'[i].owner = reg[i].owner /\ reg'[i].start = reg[i].start
  BY <1>3, <1>7 DEF SameExtents, SameRegions, ExtentEnd
<1>10. Sound(ext', fileSize')
  <2>1. Disjoint(ext')
    BY <1>9 DEF BInv, Sound, Disjoint
  <2>2. Inside(ext', fileSize')
    <3>1. ASSUME NEW i \in 1 .. Len(ext) PROVE ExtentEnd(ext'[i]) <= fileSize'
      <4>1. ExtentEnd(ext[i]) <= x.fileSize /\ ExtentEnd(ext[i]) \in Nat
        BY <1>3, <1>9, ExtentFields DEF Matches, Inside
      <4> QED  BY <1>4, <1>6, <1>9, <4>1
    <3> QED  BY <1>9, <3>1 DEF Inside
  <2>3. Fit(ext')
    BY <1>1, <1>2
  <2> QED  BY <1>7, <2>1, <2>2, <2>3 DEF Sound
<1>11. BInv'
  <2>1. Covered(ext', placed') /\ placed' \in Seq(RecordType) /\ RecordsDisjoint'
    BY <1>1, <1>2 DEF BInv, RecordsDisjoint
  <2>2. grantCount' \in Nat /\ pc' = "idle"
    BY <1>1, <1>2, <1>3
  <2> QED  BY <1>5, <1>6, <1>10, <2>1, <2>2 DEF BInv, Active
<1>12. Numbered(reg', nextRegion', numbers')
  <2>1. Regions(reg', nextRegion)
    BY <1>7, <1>9 DEF RInv, Numbered, Regions
  <2> QED  BY <1>1, <1>2, <2>1 DEF RInv, Numbered
<1>13. Housed(ext', reg', pc', call'.bucket)
  <2>1. Housed(ext, reg, "idle", call.bucket)
    BY <1>2 DEF RInv
  <2>2. Len(reg') >= Len(reg) /\ Len(reg') \in Nat
    BY <1>9
  <2> QED  BY <1>9, <2>1, <2>2, HousedSame
<1>14. TypeOK'
  <2>1. TypeOK
    BY DEF RInv
  <2>2. order' \in Seq(Buckets) /\ grantCount' \in Nat /\ nextRegion' \in Nat
    BY <1>1, <1>2, <1>3, Types
  <2> QED  BY <1>2, <1>6, <1>7, <2>1, <2>2, Zenon DEF TypeOK
<1> QED  BY <1>2, <1>8, <1>11, <1>12, <1>13, <1>14 DEF RInv

\* A new store satisfies the invariant of the registry.
LEMMA RInvInit == Init => RInv
<1> SUFFICES ASSUME Init PROVE RInv
  OBVIOUS
<1>1. /\ order = <<>> /\ ext = <<>> /\ reg = <<>> /\ rows = <<>> /\ grantCount = 0
      /\ nextRegion = 0 /\ fileSize = initial_size /\ pc = "idle" /\ call = NoCall
      /\ placed = <<>> /\ numbers = <<>>
  BY DEF Init
<1>2. initial_size \in Nat /\ growth \in Nat /\ PAGE \in Nat
  BY BucketAssumption, PageAssumption
<1>3. allocEnd \in Nat
  <2>1. PageUp(initial_size) \in Nat /\ PageUp(PAGE + growth) \in Nat
    BY <1>2, PageBounds
  <2> QED  BY <1>2, <2>1 DEF Init, NewEnd
<1>4. TypeOK
  BY <1>1, <1>2, <1>3 DEF TypeOK
<1>5. Numbered(reg, nextRegion, numbers)
  BY <1>1 DEF Numbered, Regions, Given, Unique
<1>6. Replay(rows) = Blank
  BY <1>1, ReplayEmpty
<1>7. Matches(Blank, 0, <<>>, <<>>, initial_size, 0)
  <2>1. /\ Blank.count = 0 /\ Blank.ext = <<>> /\ Blank.reg = <<>>
        /\ Blank.fileSize = initial_size /\ Blank.nextRegion = 0
    BY DEF Blank
  <2>2. Inside(<<>>, initial_size)
    BY DEF Inside
  <2> QED  BY <1>2, <2>1, <2>2, BlankType DEF Matches, SameExtents, SameRegions
<1>8. Len(rows) = 0 /\ Housed(ext, reg, pc, call.bucket)
  BY <1>1 DEF Housed
<1> QED  BY <1>1, <1>4, <1>5, <1>6, <1>7, <1>8 DEF RInv

\* In every history of calls and reopens the bytes are sound, the numbers are apart and
\* the registry replays to the allocator, for every page size, configuration, buckets
\* and record lengths.
THEOREM BucketInvariance == Spec => [](BInv /\ RInv)
<1>1. Init => BInv /\ RInv
  BY BInvInit, RInvInit
<1>2. ASSUME BInv, RInv, [Next]_vars PROVE BInv' /\ RInv'
  <2>1. CASE Reopen
    BY <1>2, <2>1, ReopenStep
  <2>2. CASE [Alloc]_vars
    <3>1. BInv'
      BY <1>2, <2>2, BInvStep
    <3>2. CASE FirstGrant \/ Grow \/ Split
      BY <1>2, <3>1, <3>2, GrantsRegistered
    <3>3. CASE Place
      BY <1>2, <3>1, <3>3, PlaceRegistered
    <3>4. CASE GrantRegion \/ Number
      BY <1>2, <3>1, <3>4, NumbersRegistered
    <3>5. CASE \/ \E b \in Buckets, len \in Lens : Insert(b, len) \/ Update(b, len)
               \/ GrowFails \/ Skip \/ NoExtent \/ PlaceFull \/ UpdateReturns \/ UNCHANGED vars
      BY <1>2, <3>1, <3>5, QuietRegistered
    <3>6. \/ FirstGrant \/ Grow \/ Split \/ Place \/ GrantRegion \/ Number
          \/ \E b \in Buckets, len \in Lens : Insert(b, len) \/ Update(b, len)
          \/ GrowFails \/ Skip \/ NoExtent \/ PlaceFull \/ UpdateReturns \/ UNCHANGED vars
      BY <2>2, Zenon DEF Alloc, Step, GrantStep
    <3> QED  BY <3>1, <3>2, <3>3, <3>4, <3>5, <3>6
  <2> QED  BY <1>2, <2>1, <2>2 DEF Next
<1>3. (BInv /\ RInv) /\ [Next]_vars => (BInv /\ RInv)'
  BY <1>2
<1> QED  BY <1>1, <1>3, PTL DEF Spec

\* The allocator and its call always have their types.
THEOREM BucketTypeCorrect == Spec => []TypeOK
<1>1. BInv /\ RInv => TypeOK
  BY DEF RInv
<1> QED  BY <1>1, BucketInvariance, PTL

\* No byte of the data file is ever given to two extents, however extents are cut,
\* the file grows (grant_extent) and the store is reopened.
THEOREM NoSharedBytes == Spec => []ExtentsDisjoint
<1>1. BInv /\ RInv => ExtentsDisjoint
  BY DEF BInv, Sound, Disjoint, ExtentsDisjoint
<1> QED  BY <1>1, BucketInvariance, PTL

\* No two records are ever given the same byte, before and after a reopen (place_bytes
\* after grant_extent; the used part that open computes).
THEOREM NoSharedRecords == Spec => []RecordsDisjoint
<1>1. BInv /\ RInv => RecordsDisjoint
  BY DEF BInv
<1> QED  BY <1>1, BucketInvariance, PTL

\* No record number is ever given out twice (alloc after grant_region, and after open).
THEOREM NoSharedNumbers == Spec => []NumbersUnique
<1>1. BInv /\ RInv => NumbersUnique
  BY UniqueIs
<1> QED  BY <1>1, BucketInvariance, PTL

\* The replay of the registry gives back every extent, with its cuts, and every region.
THEOREM RegistryFaithful == Spec => []ReplayFaithful
<1>1. ASSUME BInv, RInv PROVE ReplayFaithful
  <2> DEFINE x == Replay(rows)
  <2>1. Matches(x, Len(rows), ext, reg, fileSize, nextRegion)
    BY <1>1 DEF RInv
  <2>2. ext \in Seq(ExtentType) /\ reg \in Seq(RegionType)
    BY <1>1, Types
  <2>3. DOMAIN ext = 1 .. Len(ext) /\ DOMAIN reg = 1 .. Len(reg)
    BY <2>2
  <2>4. Replayed = x
    BY DEF Replayed
  <2> HIDE DEF x
  <2> QED  BY <2>1, <2>3, <2>4 DEF ReplayFaithful, Matches, SameExtents, SameRegions
<1> QED  BY <1>1, BucketInvariance, PTL

-----------------------------------------------------------------------------
(* Heap<I, BucketPlacement>: what the files, the allocator and the running  *)
(* call are, through kills, losses and rebuilds.                            *)

BRecords == [id : Ids, ver : Nat, len : Lens, tag : Nat, bucket : Buckets]
BCells == {Zero} \union {c \in [rec : BRecords, k : Nat] : c.k \in 1 .. c.rec.len}
BSlots == {Empty} \union [st : {"live", "deleted"}, off : Cells, len : Lens]

\* The rows of extents in a data file of size e, and of whole regions.
RowsIn(e) == {r \in RowType : \/ r.kind = "D" /\ r.start >= PAGE /\ r.start + r.size <= e
                              \/ r.kind = "S" /\ r.size = region_slots
                                 /\ r.start + region_slots <= MaxIds}

\* The extents in a data file of size f, and the regions.
ExtentsIn(f) == {e \in ExtentType : /\ e.start >= PAGE /\ e.start + e.size <= f
                                    /\ e.used <= e.size}
RegionsIn == {r \in RawRegion : r.start + region_slots <= MaxIds}

FileTypes ==
    /\ dDisk \in [Cells -> BCells] /\ dRuns \in Seq(Runs(BCells))
    /\ iDisk \in [Ids -> BSlots] /\ iRuns \in Seq(Runs(BSlots))

\* The heap is not open, nor is it being recovered.
Closed == {"down", "dead", "rebuild_header", "rebuild_index", "rebuild_registry", "rebuild_rows"}

RegistryTypes ==
    /\ rDisk \in [1 .. MaxRows -> RowsIn(allocEnd) \union {NoRow, BadRow}]
    /\ rows \in Seq(RowsIn(allocEnd)) /\ Len(rows) <= MaxRows
    /\ rDone \in 0 .. Len(rows)
    /\ hpc \in Closed => rDone = 0

AllocTypes ==
    /\ order \in Seq(Buckets) /\ ext \in Seq(ExtentsIn(fileSize)) /\ reg \in Seq(RegionsIn)
    /\ grantCount \in Nat /\ (grantCount = 0 => ext = <<>>)
    /\ nextRegion \in Nat
    /\ fileSize \in Nat /\ initial_size <= fileSize /\ fileSize <= allocEnd
    /\ allocEnd \in Nat /\ allocEnd <= MaxCell /\ allocEnd % PAGE = 0

HasRegion(r, b) == \E i \in DOMAIN r : r[i].owner = b

\* A bucket with an extent has a region once it is recovered or created; a number can
\* be chosen then.
OwnersHoused ==
    /\ Up => \A i \in DOMAIN ext : \/ HasRegion(reg, ext[i].owner)
                                   \/ pc = "region" /\ ext[i].owner = call.bucket
    /\ hpc \in {"recover", "restore"} =>
          /\ at \in Nat \ {0}
          /\ \A i \in DOMAIN ext : \E n \in DOMAIN order :
                order[n] = ext[i].owner /\ (n < at => HasRegion(reg, order[n]))
    /\ hpc = "restore" => at \in DOMAIN order

\* The next number of the call comes from a new region.
NeedsRegion(r) ==
    /\ call.kind = "insert"
    /\ ~(HasRegion(r, call.bucket) /\ RegionHasRoom(r[LastRegion(call.bucket)]))

\* There is room in the registry for n rows of the call, and for a region.
Room(n) == Len(rows) + n <= MaxRows /\ nextRegion + region_slots <= MaxIds

RoomLeft ==
    /\ hpc \in {"slot_read", "record_read"} /\ op.kind = "update" => Room(3)
    /\ pc = "grant_new" => Room(3)
    /\ pc = "region" => Room(2)
    /\ pc \in {"place", "grant_more"} => Len(rows) + 1 <= MaxRows /\ (NeedsRegion(reg) => Room(2))
    /\ pc = "number" => (NeedsRegion(reg) => Room(1))

\* The running alloc or alloc_update is the one the heap call asked for.
CallTypes ==
    /\ pc \in {"idle", "panicked"} \union Active
    /\ hpc # "alloc" => pc = "idle" /\ placed = <<>>
    /\ hpc = "alloc" => /\ op.kind \in {"insert", "update"} /\ op.bucket \in Buckets
                        /\ op.len \in Lens /\ op.ver \in Nat
                        /\ op.kind = "update" => op.id \in Ids
    /\ pc \in Active => call = [kind |-> op.kind, bucket |-> op.bucket, len |-> op.len]
    /\ pc \notin {"idle", "number"} => placed = <<>>
    /\ pc = "grant_new" => call.kind = "insert"
    /\ pc \in {"grant_more", "number"} => \E i \in DOMAIN ext : ext[i].owner = call.bucket
    /\ placed \in Seq([off : Cells, len : Lens]) /\ numbers \in Seq(Ids)
    /\ hpc = "alloc" /\ pc = "idle" /\ placed # <<>> /\ op.kind = "insert" => numbers # <<>>
    /\ ops \in Nat

OpFields == {"kind", "id", "bucket", "len", "ver", "slot"}

OpTypes ==
    /\ DOMAIN op = OpFields
    /\ hpc \in {"slot_read", "record_read", "slot_stage"} => op.id \in Ids
    /\ hpc = "slot_read" => op.kind \in {"read", "update", "delete"}
    /\ hpc \in {"slot_read", "record_read"} /\ op.kind = "update" => op.len \in Lens
    /\ hpc = "record_read" => op.kind \in {"read", "update"}
    /\ hpc \in {"record_read", "slot_stage"} => op.slot \in BSlots /\ op.slot # Empty

UpdTypes ==
    /\ DOMAIN upd \subseteq Ids
    /\ \A id \in DOMAIN upd : upd[id].off \in Cells /\ upd[id].len \in Lens

Places == {"idle", "slot_read", "record_read", "alloc", "slot_stage", "commit_registry",
           "commit_data", "commit_index", "down", "recover", "restore", "dead",
           "rebuild_header", "rebuild_index", "rebuild_registry", "rebuild_rows"}

BTypes == /\ FileTypes /\ RegistryTypes /\ AllocTypes /\ OwnersHoused /\ RoomLeft
          /\ CallTypes /\ OpTypes /\ UpdTypes /\ hpc \in Places

\* The numbers the bounds are made of.
LEMMA BoundsAre ==
    /\ PAGE \in Nat /\ PAGE > 0 /\ MaxCell \in Nat /\ MaxIds \in Nat /\ MaxRows \in Nat
    /\ region_slots \in Nat /\ region_slots > 0 /\ growth \in Nat /\ min_extent \in Nat
    /\ initial_size \in Nat /\ initial_size >= PAGE
    /\ Cells \subseteq Nat /\ Ids \subseteq Nat
    /\ \A p : p \in Cells <=> p \in Nat /\ p >= PAGE /\ p < MaxCell
    /\ \A id : id \in Ids <=> id \in Nat /\ id < MaxIds
    /\ \A n \in Lens : n \in Nat /\ n > 0
<1>1. PAGE \in Nat /\ PAGE > 0
  BY PageAssumption
<1>2. MaxCell \in Nat /\ MaxIds \in Nat /\ MaxRows \in Nat
  BY BucketHeapAssumption
<1>3. /\ region_slots \in Nat /\ region_slots > 0 /\ growth \in Nat /\ min_extent \in Nat
      /\ initial_size \in Nat /\ initial_size >= PAGE /\ \A n \in Lens : n \in Nat /\ n > 0
  BY BucketAssumption
<1>4. \A p : p \in Cells <=> p \in Nat /\ p >= PAGE /\ p < MaxCell
  BY <1>1, <1>2 DEF Cells
<1>5. \A id : id \in Ids <=> id \in Nat /\ id < MaxIds
  BY <1>2 DEF Ids
<1> QED  BY <1>1, <1>2, <1>3, <1>4, <1>5

\* Below a multiple e of m, the m numbers that x is among end at most at e.
LEMMA MultipleBelow ==
    ASSUME NEW m \in Nat \ {0}, NEW e \in Nat, e % m = 0, NEW x \in Nat, x < e
    PROVE  x - (x % m) \in Nat /\ x - (x % m) <= x /\ x - (x % m) + m <= e
           /\ x < x - (x % m) + m
<1> DEFINE q == x \div m
           r == x % m
           f == e \div m
<1>1. q \in Nat /\ f \in Nat /\ r \in 0 .. m - 1
  OBVIOUS
<1>2. x = m * q + r /\ e = m * f
  OBVIOUS
<1>3. q < f
  <2> SUFFICES ASSUME f <= q PROVE FALSE
    BY <1>1
  <2> HIDE DEF q, r, f
  <2>1. m * f <= m * q
    BY <1>1
  <2>2. m * q \in Nat /\ m * f \in Nat
    BY <1>1
  <2> QED  BY <1>1, <1>2, <2>1, <2>2
<1> HIDE DEF q, f
<1>4. m * (q + 1) <= m * f
  BY <1>1, <1>3
<1>5. m * (q + 1) = m * q + m /\ m * q \in Nat /\ m * f \in Nat
  BY <1>1
<1> HIDE DEF r
<1>6. x - r = m * q
  BY <1>1, <1>2, <1>5
<1>7. x - r \in Nat /\ x - r <= x /\ x - r + m <= e /\ x < x - r + m
  BY <1>1, <1>2, <1>4, <1>5, <1>6
<1> QED  BY <1>7 DEF r

\* Pages of a file that ends with a page.
LEMMA PagesBelow ==
    /\ \A x \in Nat : PageUp(x) % PAGE = 0
    /\ \A x \in Nat : x >= PAGE => PageDown(x) >= PAGE
    /\ \A e \in Nat, x \in Nat : e % PAGE = 0 /\ x <= e => PageUp(x) <= e
<1>0. PAGE \in Nat \ {0}
  BY BoundsAre
<1>1. ASSUME NEW y \in Nat PROVE (y - (y % PAGE)) % PAGE = 0
  <2> DEFINE q == y \div PAGE
  <2>1. q \in Nat /\ y % PAGE = y - PAGE * q
    BY <1>0
  <2>2. y - (y % PAGE) = PAGE * q
    <3>1. PAGE * q \in Nat
      BY <1>0, <2>1
    <3> HIDE DEF q
    <3> QED  BY <2>1, <3>1
  <2>3. (PAGE * q) % PAGE = 0
    <3> HIDE DEF q
    <3> QED  BY <1>0, <2>1
  <2> QED  BY <2>2, <2>3
<1>2. \A x \in Nat : x + PAGE - 1 \in Nat
  BY <1>0
<1>3. ASSUME NEW x \in Nat, x >= PAGE PROVE PageDown(x) >= PAGE
  <2> DEFINE q == x \div PAGE
             r == x % PAGE
  <2>1. q \in Nat /\ r \in 0 .. PAGE - 1 /\ x = PAGE * q + r
    BY <1>0
  <2>2. q # 0
    BY <1>0, <1>3, <2>1
  <2> HIDE DEF q, r
  <2>3. PAGE * q >= PAGE /\ PAGE * q \in Nat
    BY <1>0, <2>1, <2>2
  <2>4. x - r = PAGE * q
    BY <2>1, <2>3
  <2> QED  BY <2>3, <2>4 DEF PageDown, r
<1>4. ASSUME NEW e \in Nat, NEW x \in Nat, e % PAGE = 0, x <= e PROVE PageUp(x) <= e
  <2> DEFINE y == x + PAGE - 1
             d == y - (y % PAGE)
  <2>1. y \in Nat /\ e + PAGE \in Nat /\ y < e + PAGE
    BY <1>0, <1>4
  <2>2. (e + PAGE) % PAGE = 0
    <3> DEFINE q == e \div PAGE
    <3>1. q \in Nat /\ e = PAGE * q
      BY <1>0, <1>4
    <3> HIDE DEF q
    <3>2. e + PAGE = PAGE * (q + 1) /\ q + 1 \in Nat
      BY <1>0, <3>1
    <3>3. \A j \in Nat : (PAGE * j) % PAGE = 0
      BY <1>0
    <3> QED  BY <3>2, <3>3
  <2>3. d \in Nat /\ d + PAGE <= e + PAGE
    <3> HIDE DEF y
    <3> QED  BY <1>0, <2>1, <2>2, MultipleBelow
  <2>4. PageUp(x) = d
    BY DEF PageUp, PageDown
  <2> HIDE DEF d
  <2> QED  BY <1>0, <1>4, <2>3, <2>4
<1>5. \A x \in Nat : PageUp(x) % PAGE = 0
  BY <1>1, <1>2 DEF PageUp, PageDown
<1> QED  BY <1>3, <1>4, <1>5

-----------------------------------------------------------------------------
(* The files. *)

\* What the staged writes show of a file is what they and the file hold.
LEMMA ShownType ==
    ASSUME NEW C, C \subseteq Nat, NEW V, NEW f \in [C -> V], NEW ws \in Seq(Runs(V))
    PROVE  Shown(f, ws) \in [C -> V]
<1> DEFINE R == Nat \X V
<1>1. Holds(f, R)
  BY DEF Holds
<1>2. Within(ws, R)
  <2> SUFFICES ASSUME NEW n \in DOMAIN ws, NEW k \in 1 .. Len(ws[n].vals)
               PROVE  <<ws[n].start + k - 1, ws[n].vals[k]>> \in R
    BY DEF Within
  <2>1. ws[n] \in Runs(V)
    OBVIOUS
  <2>2. ws[n].start \in Nat /\ ws[n].vals \in Seq(V)
    BY <2>1 DEF Runs
  <2> QED  BY <2>2
<1>3. DOMAIN Shown(f, ws) = DOMAIN f /\ Holds(Shown(f, ws), R)
  <2>1. DOMAIN f \subseteq Nat
    OBVIOUS
  <2> HIDE DEF R
  <2> QED  BY <1>1, <1>2, <2>1, ShownWithin
<1>4. \A x \in C : Shown(f, ws)[x] \in V
  BY <1>3 DEF Holds
<1>5. Shown(f, ws) = [x \in C |-> Shown(f, ws)[x]]
  BY <1>3 DEF Shown
<1> QED  BY <1>4, <1>5

\* The views are Shown of the files.
LEMMA BViewsAre == dView = Shown(dDisk, dRuns) /\ iView = Shown(iDisk, iRuns)
BY DEF dView, iView, Data!Overlay, Data!End, Index!Overlay, Index!End, Shown

\* The content of the data file and of the index is cells and slots.
LEMMA BViewTypes ==
    ASSUME FileTypes
    PROVE  dView \in [Cells -> BCells] /\ iView \in [Ids -> BSlots]
<1>1. Cells \subseteq Nat /\ Ids \subseteq Nat
  BY BoundsAre
<1> QED  BY <1>1, BViewsAre, ShownType, Zenon DEF FileTypes

\* A staged write that is taken is appended to the open write or a write of its own.
LEMMA DataStaged ==
    ASSUME NEW V, NEW ws \in Seq(Runs(V)), NEW off \in Nat, NEW vals \in Seq(V), vals # <<>>,
           NEW R, Within(ws, R), \A k \in 1 .. Len(vals) : <<off + k - 1, vals[k]>> \in R
    PROVE  LET new == Data!Staged(ws, off, vals)
           IN  new \in Seq(Runs(V)) /\ new # <<>> /\ Within(new, R)
<1> DEFINE o == Data!OpenWrite(ws, off)
           new == Data!Staged(ws, off, vals)
<1>1. new = IF Data!CanExtend(ws, off, Len(vals)) THEN Data!Extend(ws, off, vals)
            ELSE Append(ws, [start |-> off, vals |-> vals])
  BY DEF Data!Staged
<1>2. CASE ~Data!CanExtend(ws, off, Len(vals))
  <2> HIDE DEF new
  <2> QED  BY <1>1, <1>2, AppendWithin, Zenon DEF new
<1>3. CASE Data!CanExtend(ws, off, Len(vals))
  <2> DEFINE I == {i \in 1 .. Len(ws) : Data!End(ws[i]) = off}
  <2>1. o > 0
    BY <1>3 DEF Data!CanExtend
  <2>2. o = IF I # {} THEN Data!Min(I) ELSE 0
    BY DEF Data!OpenWrite, Data!SelectInSeq
  <2>3. I # {} /\ I \subseteq Nat
    BY <2>1, <2>2
  <2>4. o \in I
    <3> HIDE DEF I, o
    <3>1. \E x \in I : \A y \in I : x =< y
      BY <2>3, LeastNat, Zenon
    <3>2. Data!Min(I) \in I
      BY <3>1, Zenon DEF Data!Min
    <3> QED  BY <2>2, <2>3, <3>2
  <2>5. o \in DOMAIN ws /\ Data!End(ws[o]) = off
    BY <2>4
  <2> HIDE DEF o, I
  <2>6. ws[o].start + Len(ws[o].vals) = off
    BY <2>5 DEF Data!End
  <2>7. \A k \in 1 .. Len(vals) : <<ws[o].start + Len(ws[o].vals) + k - 1, vals[k]>> \in R
    BY <2>6
  <2>8. new = [ws EXCEPT ![o].vals = @ \o vals]
    BY <1>1, <1>3 DEF Data!Extend, o
  <2> HIDE DEF new
  <2> DEFINE grown == [ws EXCEPT ![o].vals = @ \o vals]
  <2>9. grown \in Seq(Runs(V)) /\ grown # <<>> /\ Within(grown, R)
    <3>1. vals \in Seq(V) /\ vals # <<>> /\ ws \in Seq(Runs(V)) /\ Within(ws, R)
      OBVIOUS
    <3> QED  BY <2>5, <2>7, <3>1, GrowWithin, ZenonT(60)
  <2> QED  BY <2>8, <2>9 DEF new
<1> QED  BY <1>2, <1>3

\* The same for the index.
LEMMA IndexStaged ==
    ASSUME NEW V, NEW ws \in Seq(Runs(V)), NEW off \in Nat, NEW vals \in Seq(V), vals # <<>>,
           NEW R, Within(ws, R), \A k \in 1 .. Len(vals) : <<off + k - 1, vals[k]>> \in R
    PROVE  LET new == Index!Staged(ws, off, vals)
           IN  new \in Seq(Runs(V)) /\ new # <<>> /\ Within(new, R)
<1> DEFINE o == Index!OpenWrite(ws, off)
           new == Index!Staged(ws, off, vals)
<1>1. new = IF Index!CanExtend(ws, off, Len(vals)) THEN Index!Extend(ws, off, vals)
            ELSE Append(ws, [start |-> off, vals |-> vals])
  BY DEF Index!Staged
<1>2. CASE ~Index!CanExtend(ws, off, Len(vals))
  <2> HIDE DEF new
  <2> QED  BY <1>1, <1>2, AppendWithin, Zenon DEF new
<1>3. CASE Index!CanExtend(ws, off, Len(vals))
  <2> DEFINE I == {i \in 1 .. Len(ws) : Index!End(ws[i]) = off}
  <2>1. o > 0
    BY <1>3 DEF Index!CanExtend
  <2>2. o = IF I # {} THEN Index!Min(I) ELSE 0
    BY DEF Index!OpenWrite, Index!SelectInSeq
  <2>3. I # {} /\ I \subseteq Nat
    BY <2>1, <2>2
  <2>4. o \in I
    <3> HIDE DEF I, o
    <3>1. \E x \in I : \A y \in I : x =< y
      BY <2>3, LeastNat, Zenon
    <3>2. Index!Min(I) \in I
      BY <3>1, Zenon DEF Index!Min
    <3> QED  BY <2>2, <2>3, <3>2
  <2>5. o \in DOMAIN ws /\ Index!End(ws[o]) = off
    BY <2>4
  <2> HIDE DEF o, I
  <2>6. ws[o].start + Len(ws[o].vals) = off
    BY <2>5 DEF Index!End
  <2>7. \A k \in 1 .. Len(vals) : <<ws[o].start + Len(ws[o].vals) + k - 1, vals[k]>> \in R
    BY <2>6
  <2>8. new = [ws EXCEPT ![o].vals = @ \o vals]
    BY <1>1, <1>3 DEF Index!Extend, o
  <2> HIDE DEF new
  <2> DEFINE grown == [ws EXCEPT ![o].vals = @ \o vals]
  <2>9. grown \in Seq(Runs(V)) /\ grown # <<>> /\ Within(grown, R)
    <3>1. vals \in Seq(V) /\ vals # <<>> /\ ws \in Seq(Runs(V)) /\ Within(ws, R)
      OBVIOUS
    <3> QED  BY <2>5, <2>7, <3>1, GrowWithin, ZenonT(60)
  <2> QED  BY <2>8, <2>9 DEF new
<1> QED  BY <1>2, <1>3

\* Nothing is staged.
LEMMA NoRuns == \A V : <<>> \in Seq(Runs(V)) /\ \A R : Within(<<>>, R)
BY DEF Within

\* Staged writes of values in V hold pairs of a number and a value in V.
LEMMA AnyRuns ==
    ASSUME NEW V, NEW ws \in Seq(Runs(V))
    PROVE  Within(ws, Nat \X V)
<1> SUFFICES ASSUME NEW n \in DOMAIN ws, NEW k \in 1 .. Len(ws[n].vals)
             PROVE  <<ws[n].start + k - 1, ws[n].vals[k]>> \in Nat \X V
  BY DEF Within
<1>1. ws[n] \in Runs(V)
  OBVIOUS
<1>2. ws[n].start \in Nat /\ ws[n].vals \in Seq(V)
  BY <1>1 DEF Runs
<1> QED  BY <1>2

\* The cells of a record are cells.
LEMMA BCellsAre ==
    ASSUME NEW r \in BRecords
    PROVE  /\ CellsOf(r) \in Seq(BCells) /\ CellsOf(r) # <<>> /\ Len(CellsOf(r)) = r.len
           /\ r.len \in Nat /\ r.len > 0
           /\ \A k \in 1 .. r.len : CellsOf(r)[k] = [rec |-> r, k |-> k]
<1>1. r.len \in Nat /\ r.len > 0
  BY BoundsAre DEF BRecords
<1>2. ASSUME NEW k \in 1 .. r.len PROVE [rec |-> r, k |-> k] \in BCells
  BY <1>1 DEF BCells
<1> QED  BY <1>1, <1>2 DEF CellsOf

\* stage of a record and of a slot keep the files and what is staged well typed.
LEMMA StagedTypes ==
    /\ \A ws \in Seq(Runs(BCells)), r \in BRecords, off \in Nat :
          Data!Staged(ws, off, CellsOf(r)) \in Seq(Runs(BCells))
    /\ \A ws \in Seq(Runs(BSlots)), slot \in BSlots, id \in Nat :
          Index!Staged(ws, id, <<slot>>) \in Seq(Runs(BSlots))
<1>1. ASSUME NEW ws \in Seq(Runs(BCells)), NEW r \in BRecords, NEW off \in Nat
      PROVE  Data!Staged(ws, off, CellsOf(r)) \in Seq(Runs(BCells))
  <2> DEFINE vals == CellsOf(r)
             R == Nat \X BCells
  <2>1. vals \in Seq(BCells) /\ vals # <<>>
    BY BCellsAre
  <2>2. Within(ws, R)
    BY AnyRuns
  <2> HIDE DEF vals
  <2>3. \A k \in 1 .. Len(vals) : <<off + k - 1, vals[k]>> \in R
    BY <2>1
  <2> HIDE DEF R
  <2> QED  BY <2>1, <2>2, <2>3, DataStaged, Zenon DEF vals
<1>2. ASSUME NEW ws \in Seq(Runs(BSlots)), NEW slot \in BSlots, NEW id \in Nat
      PROVE  Index!Staged(ws, id, <<slot>>) \in Seq(Runs(BSlots))
  <2> DEFINE vals == <<slot>>
             R == Nat \X BSlots
  <2>1. vals \in Seq(BSlots) /\ vals # <<>>
    OBVIOUS
  <2>2. Within(ws, R)
    BY AnyRuns
  <2> HIDE DEF vals
  <2>3. \A k \in 1 .. Len(vals) : <<id + k - 1, vals[k]>> \in R
    BY <2>1
  <2> HIDE DEF R
  <2> QED  BY <2>1, <2>2, <2>3, IndexStaged, Zenon DEF vals
<1> QED  BY <1>1, <1>2

\* Staging a slot.
LEMMA StageSlotTypes ==
    ASSUME FileTypes, NEW id \in Ids, NEW slot \in BSlots, StageSlot(id, slot)
    PROVE  iDisk' \in [Ids -> BSlots] /\ iRuns' \in Seq(Runs(BSlots))
<1>1. id \in Nat
  BY BoundsAre
<1>2. /\ Index!Staged(<<>>, id, <<slot>>) \in Seq(Runs(BSlots))
      /\ Index!Staged(iRuns, id, <<slot>>) \in Seq(Runs(BSlots))
  BY <1>1, NoRuns, StagedTypes, Zenon DEF FileTypes
<1>3. iView \in [Ids -> BSlots] /\ iDisk \in [Ids -> BSlots]
  BY BViewTypes DEF FileTypes
<1> QED  BY <1>2, <1>3, Zenon DEF StageSlot

\* What a flush that is cut short leaves of a file.
LEMMA TornTypes ==
    ASSUME FileTypes
    PROVE  DataTorn \subseteq [Cells -> BCells] /\ IndexTorn \subseteq [Ids -> BSlots]
<1>1. /\ dView \in [Cells -> BCells] /\ iView \in [Ids -> BSlots]
      /\ dDisk \in [Cells -> BCells] /\ iDisk \in [Ids -> BSlots]
  BY BViewTypes DEF FileTypes
<1>2. \A s : Data!OnPages(dDisk, dView, s) \in [Cells -> BCells]
  BY <1>1 DEF Data!OnPages
<1>3. \A s : Index!OnPages(iDisk, iView, s) \in [Ids -> BSlots]
  BY <1>1 DEF Index!OnPages
<1>4. DataTorn \subseteq [Cells -> BCells]
  <2> DEFINE T == TornPages(Data!FlushPages(dRuns))
             Big == \/ hpc \in {"record_read", "commit_data"}
                    \/ /\ hpc = "alloc" /\ pc = "idle" /\ placed # <<>>
                       /\ Data!MustFlush(dRuns, Last(placed).off, op.len)
  <2>1. DataTorn = IF Big THEN {Data!OnPages(dDisk, dView, s) : s \in T} ELSE {dDisk}
    BY Zenon DEF DataTorn
  <2> HIDE DEF T, Big
  <2> QED  BY <1>1, <1>2, <2>1
<1>5. IndexTorn \subseteq [Ids -> BSlots]
  <2> DEFINE T == TornPages(Index!FlushPages(iRuns))
             Big == \/ hpc \in {"slot_read", "commit_index", "restore", "rebuild_index"}
                    \/ hpc = "recover" /\ (at \in DOMAIN order => RegionsOf(order[at]) # {})
                    \/ hpc = "slot_stage" /\ Index!MustFlush(iRuns, op.id, 1)
  <2>1. IndexTorn = IF Big THEN {Index!OnPages(iDisk, iView, s) : s \in T} ELSE {iDisk}
    BY Zenon DEF IndexTorn
  <2> HIDE DEF T, Big
  <2> QED  BY <1>1, <1>3, <2>1
<1> QED  BY <1>4, <1>5

-----------------------------------------------------------------------------
(* The registry. *)

\* What a registry file for a data file of size e may hold.
FileRows(e) == RowsIn(e) \union {NoRow, BadRow}

\* A larger file has more rows.
LEMMA RowsGrow ==
    ASSUME NEW e \in Nat, NEW f \in Nat, e <= f
    PROVE  RowsIn(e) \subseteq RowsIn(f) /\ FileRows(e) \subseteq FileRows(f)
<1>1. ASSUME NEW r \in RowsIn(e) PROVE r \in RowsIn(f)
  <2>1. r \in RowType /\ r.start \in Nat /\ r.size \in Nat
    BY DEF RowsIn, RowType
  <2> QED  BY <2>1 DEF RowsIn
<1> QED  BY <1>1 DEF FileRows

\* A row is not blank, and it decodes.
LEMMA RowsAre ==
    ASSUME NEW e \in Nat, NEW r \in RowsIn(e)
    PROVE  r \in RowType /\ r # NoRow /\ r # BadRow
<1>1. r \in RowType
  BY DEF RowsIn
<1>2. r.kind \in {"D", "S"}
  BY <1>1 DEF RowType
<1>3. NoRow.kind = "none" /\ BadRow.kind = "bad"
  BY DEF NoRow, BadRow
<1> QED  BY <1>1, <1>2, <1>3

\* The rows up to the first blank one.
Leading(r) == IF RowsOf(r) = 0 THEN r ELSE SubSeq(r, 1, RowsOf(r) - 1)

\* They are a prefix of the file that holds no blank row and ends at one or at the end.
LEMMA LeadingIs ==
    ASSUME NEW V, NEW r \in [1 .. MaxRows -> V]
    PROVE  \E n \in 0 .. MaxRows :
              /\ Leading(r) \in Seq(V) /\ Len(Leading(r)) = n
              /\ \A k \in 1 .. n : Leading(r)[k] = r[k] /\ r[k] # NoRow
              /\ n < MaxRows => r[n + 1] = NoRow
<1> DEFINE I == {i \in 1 .. Len(r) : r[i] = NoRow}
           o == RowsOf(r)
<1>1. r \in Seq(V) /\ Len(r) = MaxRows /\ MaxRows \in Nat
  BY BoundsAre
<1>2. o = IF I # {} THEN Min(I) ELSE 0
  BY DEF RowsOf, SelectInSeq
<1>3. CASE I = {}
  <2>1. Leading(r) = r
    BY <1>2, <1>3 DEF Leading
  <2>2. \A k \in 1 .. MaxRows : r[k] # NoRow
    BY <1>1, <1>3
  <2>3. MaxRows \in 0 .. MaxRows
    BY <1>1
  <2> QED  BY <1>1, <2>1, <2>2, <2>3
<1>4. CASE I # {}
  <2>1. I \subseteq Nat
    OBVIOUS
  <2>2. o \in I /\ \A y \in I : o <= y
    <3> HIDE DEF I, o
    <3> QED  BY <1>2, <1>4, <2>1, MinIsLeast
  <2>3. o \in 1 .. MaxRows /\ r[o] = NoRow /\ \A k \in 1 .. MaxRows : k < o => r[k] # NoRow
    BY <1>1, <2>2
  <2> DEFINE n == o - 1
  <2> HIDE DEF o
  <2>4. n \in 0 .. MaxRows /\ n < MaxRows /\ n + 1 = o
    BY <1>1, <2>3
  <2>5. Leading(r) = SubSeq(r, 1, n)
    BY <2>3 DEF Leading, o
  <2>6. /\ SubSeq(r, 1, n) \in Seq(V) /\ Len(SubSeq(r, 1, n)) = n
        /\ \A k \in 1 .. n : SubSeq(r, 1, n)[k] = r[k]
    <3> HIDE DEF n
    <3>1. \A k \in 1 .. n : r[k] \in V
      BY <1>1, <2>4
    <3> QED  BY <1>1, <2>4, <3>1
  <2>7. \A k \in 1 .. n : r[k] # NoRow
    BY <1>1, <2>3, <2>4
  <2> HIDE DEF n
  <2> QED  BY <2>3, <2>4, <2>5, <2>6, <2>7
<1> QED  BY <1>3, <1>4

\* What the replay reads.
LEMMA DiskRowsAre ==
    ASSUME RegistryTypes, allocEnd \in Nat
    PROVE  /\ DiskRows = Leading(rDisk)
           /\ Len(DiskRows) \in Nat /\ Len(DiskRows) <= MaxRows
           /\ ~RowsCorrupt => DiskRows \in Seq(RowsIn(allocEnd))
           /\ DOMAIN DiskRows = 1 .. Len(DiskRows) /\ DOMAIN DiskRows \subseteq 1 .. MaxRows
<1>1. DiskRows = Leading(rDisk)
  BY DEF DiskRows, Leading
<1>2. rDisk \in [1 .. MaxRows -> FileRows(allocEnd)] /\ MaxRows \in Nat
  BY BoundsAre DEF RegistryTypes, FileRows
<1>0. \A V : \A r \in [1 .. MaxRows -> V] :
         \E n \in 0 .. MaxRows : /\ Leading(r) \in Seq(V) /\ Len(Leading(r)) = n
                                 /\ \A k \in 1 .. n : Leading(r)[k] = r[k] /\ r[k] # NoRow
  BY LeadingIs
<1>3. PICK n \in 0 .. MaxRows :
              /\ DiskRows \in Seq(FileRows(allocEnd)) /\ Len(DiskRows) = n
              /\ \A k \in 1 .. n : DiskRows[k] = rDisk[k] /\ rDisk[k] # NoRow
  BY <1>0, <1>1, <1>2, Zenon
<1>4. ASSUME ~RowsCorrupt PROVE DiskRows \in Seq(RowsIn(allocEnd))
  <2>1. \A k \in 1 .. n : DiskRows[k] # BadRow
    BY <1>3, <1>4 DEF RowsCorrupt, Range
  <2>2. \A k \in 1 .. n : DiskRows[k] \in RowsIn(allocEnd)
    BY <1>3, <2>1 DEF FileRows
  <2> QED  BY <1>3, <2>2
<1> QED  BY <1>1, <1>2, <1>3, <1>4

\* The registry with the staged rows, and what a flush that is cut short leaves of it.
LEMMA RegistryViews ==
    ASSUME RegistryTypes
    PROVE  /\ rView \in [1 .. MaxRows -> FileRows(allocEnd)]
           /\ rDisk \in [1 .. MaxRows -> FileRows(allocEnd)]
           /\ RegistryTorn \subseteq [1 .. MaxRows -> FileRows(allocEnd)]
<1> DEFINE F == FileRows(allocEnd)
<1>1. rDisk \in [1 .. MaxRows -> F]
  BY DEF RegistryTypes, FileRows
<1>2. rView \in [1 .. MaxRows -> F]
  <2>1. rows \in Seq(RowsIn(allocEnd)) /\ rDone \in Nat
    BY DEF RegistryTypes
  <2>2. ASSUME NEW n \in 1 .. MaxRows, n <= Len(rows) PROVE rows[n] \in F
    BY <2>1, <2>2 DEF FileRows
  <2> HIDE DEF F
  <2> QED  BY <1>1, <2>2 DEF rView
<1>3. RegistryTorn \subseteq [1 .. MaxRows -> F]
  <2> DEFINE RowPage(n) == (n - 1) \div ROWS_PER_PAGE
             pages == IF rDone = Len(rows) THEN <<>>
                      ELSE [k \in 1 .. RowPage(Len(rows)) - RowPage(rDone + 1) + 1 |->
                               RowPage(rDone + 1) + k - 1]
             T == TornPages(pages)
             Torn(s) == [n \in 1 .. MaxRows |-> IF RowPage(n) \in s THEN rView[n] ELSE rDisk[n]]
  <2>1. RegistryTorn = IF hpc \in {"commit_registry", "rebuild_rows"} THEN {Torn(s) : s \in T}
                       ELSE {rDisk}
    BY Zenon DEF RegistryTorn
  <2>2. ASSUME NEW s PROVE Torn(s) \in [1 .. MaxRows -> F]
    <3> HIDE DEF F, RowPage
    <3> QED  BY <1>1, <1>2
  <2> HIDE DEF T, Torn, F
  <2> QED  BY <1>1, <2>1, <2>2
<1> QED  BY <1>1, <1>2, <1>3

-----------------------------------------------------------------------------
(* The replay of any rows that lie in the files, as kills and rebuilds leave them. *)

\* Of the positions C, the first by rank and then by number.
LEMMA FirstByRank ==
    ASSUME NEW C, C \subseteq Nat, C # {}, NEW rank \in [C -> Nat]
    PROVE  \E i \in C : \A j \in C : rank[i] < rank[j] \/ (rank[i] = rank[j] /\ i <= j)
<1> DEFINE S == {rank[i] : i \in C}
<1>1. S \subseteq Nat /\ S # {}
  OBVIOUS
<1>2. PICK a \in S : \A y \in S : a <= y
  <2> HIDE DEF S
  <2> QED  BY <1>1, LeastNat
<1> DEFINE T == {i \in C : rank[i] = a}
<1>3. T \subseteq Nat /\ T # {}
  OBVIOUS
<1>4. PICK i \in T : \A j \in T : i <= j
  <2> HIDE DEF T
  <2> QED  BY <1>3, LeastNat
<1>5. ASSUME NEW j \in C PROVE rank[i] < rank[j] \/ (rank[i] = rank[j] /\ i <= j)
  <2>1. rank[j] \in S /\ a <= rank[j] /\ rank[j] \in Nat /\ a \in Nat
    BY <1>1, <1>2
  <2>2. rank[j] = a => i <= j
    BY <1>4
  <2> QED  BY <2>1, <2>2
<1> QED  BY <1>5

\* Every extent of e is owned by a bucket of o.
Listed(e, o) == \A i \in DOMAIN e : \E n \in DOMAIN o : o[n] = e[i].owner

\* shrink_extent ends one of the extents that contain the row's.
LEMMA ShrinkOne ==
    ASSUME NEW x \in Images, Listed(x.ext, x.order), NEW row \in RowType,
           Holders(x.ext, row) # {}
    PROVE  \E v \in Holders(x.ext, row) :
              Shrink(x, row) = [x EXCEPT !.ext = EndAt(x.ext, v, row.start)]
<1> DEFINE C == Holders(x.ext, row)
           Rank(i) == CHOOSE n \in DOMAIN x.order : x.order[n] = x.ext[i].owner
           first == CHOOSE i \in C : \A j \in C : Rank(i) < Rank(j) \/ (Rank(i) = Rank(j) /\ i <= j)
           ended == [x EXCEPT !.ext = EndAt(x.ext, first, row.start)]
<1>1. Shrink(x, row) = IF C = {} THEN x
                       ELSE [x EXCEPT !.ext[first].size = row.start - x.ext[first].start]
  BY Zenon DEF Shrink, Holders
<1>2. [x EXCEPT !.ext[first].size = row.start - x.ext[first].start] = ended
  <2> HIDE DEF first
  <2> QED  BY DEF EndAt
<1>3. x.ext \in Seq(RawExtent) /\ x.order \in Seq(Buckets)
  BY DEF Images
<1>4. C \subseteq DOMAIN x.ext /\ C \subseteq Nat
  BY <1>3 DEF Holders
<1>5. first \in C
  <2> DEFINE rank == [i \in C |-> Rank(i)]
  <2>1. ASSUME NEW i \in C PROVE Rank(i) \in Nat
    <3>1. \E n \in DOMAIN x.order : x.order[n] = x.ext[i].owner
      BY <1>4 DEF Listed
    <3>2. Rank(i) \in DOMAIN x.order
      BY <3>1
    <3> QED  BY <1>3, <3>2
  <2> HIDE DEF Rank
  <2>2. rank \in [C -> Nat] /\ \A i \in C : rank[i] = Rank(i)
    BY <2>1
  <2> HIDE DEF rank, C
  <2>3. \E i \in C : \A j \in C : rank[i] < rank[j] \/ (rank[i] = rank[j] /\ i <= j)
    BY <1>4, <2>2, FirstByRank DEF C
  <2>4. \E i \in C : \A j \in C : Rank(i) < Rank(j) \/ (Rank(i) = Rank(j) /\ i <= j)
    BY <2>2, <2>3
  <2> QED  BY <2>4
<1> HIDE DEF C, first
<1> QED  BY <1>1, <1>2, <1>5 DEF C

\* An extent of a replay before and after another was cut from it.
Narrower(a, b, row) ==
    /\ a.owner = b.owner /\ a.start = b.start /\ a.used = b.used
    /\ \/ a.size = b.size
       \/ /\ row.start >= b.start /\ row.start + row.size <= b.start + b.size
          /\ a.size = row.start - b.start

\* The buckets after a row.
NextOrder(o, b) == IF b \in Range(o) THEN o ELSE Append(o, b)

\* One row more.
LEMMA RowReplayed ==
    ASSUME NEW x \in Images, Listed(x.ext, x.order), NEW row \in RowType
    PROVE  LET y == ReplayRow(x, row)
               end == row.start + row.size
           IN  /\ y \in Images /\ y.count = x.count + 1
               /\ y.order = NextOrder(x.order, row.bucket)
               /\ row.kind = "S" =>
                     /\ y.ext = x.ext /\ y.fileSize = x.fileSize
                     /\ y.reg = Append(x.reg, [owner |-> row.bucket, start |-> row.start,
                                               used |-> 0])
                     /\ y.nextRegion = IF end > x.nextRegion THEN end ELSE x.nextRegion
               /\ row.kind = "D" =>
                     /\ y.reg = x.reg /\ y.nextRegion = x.nextRegion
                     /\ y.fileSize = IF end > x.fileSize THEN end ELSE x.fileSize
                     /\ \E e \in Seq(RawExtent) :
                           /\ Len(e) = Len(x.ext)
                           /\ \A i \in 1 .. Len(e) : Narrower(e[i], x.ext[i], row)
                           /\ y.ext = Append(e, [owner |-> row.bucket, start |-> row.start,
                                                 size |-> row.size, used |-> 0])
<1> DEFINE y == Counted(x, row)
           o == NextOrder(x.order, row.bucket)
           z == ReplayRow(x, row)
<1>1. /\ y \in Images /\ y.count = x.count + 1 /\ y.ext = x.ext /\ y.reg = x.reg
      /\ y.fileSize = x.fileSize /\ y.nextRegion = x.nextRegion
  BY CountedIs
<1>2. y.order = o
  <2>1. y = [x EXCEPT !.count = @ + 1, !.order = o]
    BY DEF Counted, NextOrder
  <2>2. DOMAIN x = {"order", "ext", "reg", "count", "fileSize", "nextRegion"}
    BY DEF Images
  <2> HIDE DEF o, y
  <2> QED  BY <2>1, <2>2
<1>3. Listed(y.ext, y.order)
  <2>1. x.order \in Seq(Buckets) /\ row.bucket \in Buckets
    BY DEF Images, RowType
  <2>2. \A n \in DOMAIN x.order : n \in DOMAIN o /\ o[n] = x.order[n]
    BY <2>1 DEF NextOrder
  <2> HIDE DEF o, y
  <2> QED  BY <1>1, <1>2, <2>2 DEF Listed
<1>4. row.bucket \in Buckets /\ row.start \in Nat /\ row.size \in Nat /\ row.kind \in {"D", "S"}
  BY DEF RowType
<1>5. z \in Images
  BY ReplayRowType
<1>6. CASE row.kind = "S"
  <2>1. z = [y EXCEPT !.nextRegion = IF row.start + row.size > @ THEN row.start + row.size ELSE @,
                      !.reg = Append(@, [owner |-> row.bucket, start |-> row.start, used |-> 0])]
    BY <1>6 DEF ReplayRow, Counted
  <2>2. z.order = y.order
    <3>1. DOMAIN y = {"order", "ext", "reg", "count", "fileSize", "nextRegion"}
      BY <1>1 DEF Images
    <3> HIDE DEF y, z
    <3> QED  BY <2>1, <3>1
  <2>3. row.kind # "D"
    BY <1>6
  <2> HIDE DEF y, z, o
  <2> QED  BY <1>1, <1>2, <1>5, <1>6, <2>2, <2>3, ReplayRegion DEF z, o
<1>7. CASE row.kind = "D"
  <2> DEFINE w == Shrink(y, row)
             new == [owner |-> row.bucket, start |-> row.start, size |-> row.size, used |-> 0]
  <2>1. z = [w EXCEPT !.fileSize = IF row.start + row.size > @ THEN row.start + row.size ELSE @,
                      !.ext = Append(@, new)]
    BY <1>7, Zenon DEF ReplayRow, Counted
  <2> HIDE DEF y, z, o
  <2>2. y.ext \in Seq(RawExtent) /\ DOMAIN y.ext = 1 .. Len(y.ext) /\ Len(y.ext) \in Nat
    <3>1. y.ext \in Seq(RawExtent)
      BY <1>1 DEF Images
    <3> QED  BY <3>1
  <2>3. \E e \in Seq(RawExtent) : /\ w = [y EXCEPT !.ext = e] /\ Len(e) = Len(y.ext)
                                  /\ \A i \in 1 .. Len(e) : Narrower(e[i], y.ext[i], row)
    <3>1. CASE Holders(y.ext, row) = {}
      <4>1. w = y
        BY <1>1, <3>1, ShrinkIs
      <4>2. y = [y EXCEPT !.ext = y.ext]
        BY <1>1 DEF Images
      <4>3. \A i \in 1 .. Len(y.ext) : Narrower(y.ext[i], y.ext[i], row)
        BY DEF Narrower
      <4> QED  BY <2>2, <4>1, <4>2, <4>3
    <3>2. CASE Holders(y.ext, row) # {}
      <4>1. PICK v \in Holders(y.ext, row) :
                w = [y EXCEPT !.ext = EndAt(y.ext, v, row.start)]
        BY <1>1, <1>3, <3>2, ShrinkOne
      <4> DEFINE e == EndAt(y.ext, v, row.start)
                 c == y.ext
      <4>2. /\ e \in Seq(RawExtent) /\ Len(e) = Len(c)
            /\ \A i \in 1 .. Len(c) :
                 /\ e[i].owner = c[i].owner /\ e[i].start = c[i].start
                 /\ e[i].size = IF i = v THEN row.start - c[i].start ELSE c[i].size
        BY <1>4, <2>2, EndAtIs
      <4>3. \A i \in 1 .. Len(c) : e[i].used = c[i].used
        <5>1. \A i \in 1 .. Len(c) : c[i] \in RawExtent
          BY <2>2
        <5>2. \A i \in 1 .. Len(c) : "used" \in DOMAIN c[i]
          BY <5>1 DEF RawExtent
        <5>3. \A i \in 1 .. Len(c) : e[i] = IF i = v THEN [c[i] EXCEPT !.size = row.start - c[v].start] ELSE c[i]
          BY <2>2 DEF EndAt
        <5> HIDE DEF e, c
        <5> QED  BY <5>2, <5>3
      <4>4. row.start >= c[v].start /\ row.start + row.size <= c[v].start + c[v].size
        BY <4>1 DEF Holders, ExtentEnd
      <4> HIDE DEF e, c
      <4>5. \A i \in 1 .. Len(e) : Narrower(e[i], c[i], row)
        BY <4>2, <4>3, <4>4 DEF Narrower
      <4> QED  BY <4>1, <4>2, <4>5 DEF e, c
    <3> QED  BY <3>1, <3>2
  <2>4. PICK e \in Seq(RawExtent) : /\ w = [y EXCEPT !.ext = e] /\ Len(e) = Len(y.ext)
                                    /\ \A i \in 1 .. Len(e) : Narrower(e[i], y.ext[i], row)
    BY <2>3
  <2> HIDE DEF w
  <2>5. DOMAIN y = {"order", "ext", "reg", "count", "fileSize", "nextRegion"}
    BY <1>1 DEF Images
  <2>6. /\ w.ext = e /\ w.order = y.order /\ w.reg = y.reg /\ w.count = y.count
        /\ w.fileSize = y.fileSize /\ w.nextRegion = y.nextRegion
        /\ DOMAIN w = {"order", "ext", "reg", "count", "fileSize", "nextRegion"}
    BY <2>4, <2>5
  <2> HIDE DEF new
  <2>7. /\ z.ext = Append(e, new) /\ z.order = y.order /\ z.reg = y.reg /\ z.count = y.count
        /\ z.fileSize = (IF row.start + row.size > y.fileSize THEN row.start + row.size
                         ELSE y.fileSize)
        /\ z.nextRegion = y.nextRegion
    BY <2>1, <2>6
  <2>8. row.kind # "S"
    BY <1>7
  <2>9. \E g \in Seq(RawExtent) : /\ Len(g) = Len(x.ext)
                                  /\ \A i \in 1 .. Len(g) : Narrower(g[i], x.ext[i], row)
                                  /\ z.ext = Append(g, new)
    BY <1>1, <2>4, <2>7
  <2> QED  BY <1>1, <1>2, <1>5, <1>7, <2>7, <2>8, <2>9 DEF z, o, new
<1> QED  BY <1>4, <1>6, <1>7

\* A replay for a data file of size e: extents in the file, whole regions, nothing in
\* use yet, and every owner known.
ReplayIn(x, e) ==
    /\ x \in Images /\ Listed(x.ext, x.order)
    /\ \A i \in DOMAIN x.ext : x.ext[i] \in ExtentsIn(x.fileSize) /\ x.ext[i].used = 0
    /\ \A i \in DOMAIN x.reg : x.reg[i] \in RegionsIn /\ x.reg[i].used = 0
    /\ initial_size <= x.fileSize /\ x.fileSize <= e
    /\ Len(x.ext) <= x.count

\* The fields of an extent in a file of size f.
LEMMA ExtentsInIs ==
    ASSUME NEW f
    PROVE  \A x : x \in ExtentsIn(f) <=>
                     /\ x \in ExtentType /\ x.start >= PAGE /\ x.start + x.size <= f
                     /\ x.used <= x.size
BY DEF ExtentsIn

\* A row for a data file of size e.
LEMMA RowIs ==
    ASSUME NEW e \in Nat, NEW r \in RowsIn(e)
    PROVE  /\ r \in RowType /\ r.bucket \in Buckets /\ r.start \in Nat /\ r.size \in Nat
           /\ r.kind = "D" \/ r.kind = "S"
           /\ r.kind = "D" => r.start >= PAGE /\ r.start + r.size <= e
           /\ r.kind = "S" => r.size = region_slots /\ r.start + region_slots <= MaxIds
<1>1. r \in RowType
  BY DEF RowsIn
<1>2. r.bucket \in Buckets /\ r.start \in Nat /\ r.size \in Nat /\ (r.kind = "D" \/ r.kind = "S")
  BY <1>1 DEF RowType
<1>3. /\ r.kind = "D" => r.start >= PAGE /\ r.start + r.size <= e
      /\ r.kind = "S" => r.size = region_slots /\ r.start + region_slots <= MaxIds
  BY DEF RowsIn
<1> QED  BY <1>1, <1>2, <1>3

\* The order is only appended to, and knows the bucket of the row.
LEMMA NextOrderIs ==
    ASSUME NEW o \in Seq(Buckets), NEW b \in Buckets
    PROVE  /\ NextOrder(o, b) \in Seq(Buckets)
           /\ \A n \in DOMAIN o : n \in DOMAIN NextOrder(o, b) /\ NextOrder(o, b)[n] = o[n]
           /\ \E n \in DOMAIN NextOrder(o, b) : NextOrder(o, b)[n] = b
<1>1. CASE b \in Range(o)
  BY <1>1 DEF NextOrder, Range
<1>2. CASE b \notin Range(o)
  <2> DEFINE a == Append(o, b)
  <2>1. /\ a \in Seq(Buckets) /\ DOMAIN a = 1 .. Len(o) + 1 /\ a[Len(o) + 1] = b
        /\ DOMAIN o = 1 .. Len(o) /\ Len(o) \in Nat
        /\ \A n \in 1 .. Len(o) : a[n] = o[n]
    OBVIOUS
  <2>2. Len(o) + 1 \in DOMAIN a /\ \A n \in DOMAIN o : n \in DOMAIN a
    BY <2>1
  <2>3. NextOrder(o, b) = a
    BY <1>2 DEF NextOrder
  <2> HIDE DEF a
  <2> QED  BY <2>1, <2>2, <2>3
<1> QED  BY <1>1, <1>2

\* Replaying one more row of the file keeps the image within the file.
LEMMA ReplayInStep ==
    ASSUME NEW e \in Nat, NEW x, ReplayIn(x, e), NEW row \in RowsIn(e)
    PROVE  ReplayIn(ReplayRow(x, row), e)
<1> DEFINE y == ReplayRow(x, row)
           end == row.start + row.size
<1>1. /\ x \in Images /\ Listed(x.ext, x.order)
      /\ initial_size <= x.fileSize /\ x.fileSize <= e /\ Len(x.ext) <= x.count
  BY DEF ReplayIn
<1>2. /\ row \in RowType /\ row.bucket \in Buckets /\ row.start \in Nat /\ row.size \in Nat
      /\ row.kind = "D" \/ row.kind = "S"
      /\ row.kind = "D" => row.start >= PAGE /\ end <= e
      /\ row.kind = "S" => row.size = region_slots /\ row.start + region_slots <= MaxIds
  BY RowIs
<1>3. /\ x.ext \in Seq(RawExtent) /\ x.reg \in Seq(RawRegion) /\ x.order \in Seq(Buckets)
      /\ x.count \in Nat /\ x.fileSize \in Nat
  BY <1>1 DEF Images
<1>4. /\ y \in Images /\ y.count = x.count + 1 /\ y.order = NextOrder(x.order, row.bucket)
  BY <1>1, <1>2, RowReplayed
<1>5. /\ \A n \in DOMAIN x.order : n \in DOMAIN y.order /\ y.order[n] = x.order[n]
      /\ \E n \in DOMAIN y.order : y.order[n] = row.bucket
  <2>1. \A o \in Seq(Buckets), b \in Buckets :
           /\ \A n \in DOMAIN o : n \in DOMAIN NextOrder(o, b) /\ NextOrder(o, b)[n] = o[n]
           /\ \E n \in DOMAIN NextOrder(o, b) : NextOrder(o, b)[n] = b
    BY NextOrderIs
  <2> HIDE DEF y
  <2> QED  BY <1>2, <1>3, <1>4, <2>1
<1>6. DOMAIN x.ext = 1 .. Len(x.ext) /\ Len(x.ext) \in Nat /\ Len(x.reg) \in Nat
      /\ DOMAIN x.reg = 1 .. Len(x.reg)
  BY <1>3
<1>7. initial_size \in Nat /\ PAGE \in Nat
  BY BoundsAre
<1>8. CASE row.kind = "S"
  <2> DEFINE new == [owner |-> row.bucket, start |-> row.start, used |-> 0]
  <2>1. /\ y.ext = x.ext /\ y.fileSize = x.fileSize /\ y.reg = Append(x.reg, new)
    BY <1>1, <1>2, <1>8, RowReplayed
  <2> HIDE DEF y
  <2>2. Listed(y.ext, y.order)
    BY <1>1, <1>5, <2>1 DEF Listed
  <2>3. new \in RegionsIn /\ new.used = 0
    BY <1>2, <1>8 DEF RegionsIn, RawRegion
  <2> HIDE DEF new
  <2>4. \A i \in DOMAIN y.reg : (i \in DOMAIN x.reg /\ y.reg[i] = x.reg[i]) \/ y.reg[i] = new
    BY <1>3, <1>6, <2>1
  <2>5. \A i \in DOMAIN y.reg : y.reg[i] \in RegionsIn /\ y.reg[i].used = 0
    BY <2>3, <2>4 DEF ReplayIn
  <2>6. \A i \in DOMAIN y.ext : y.ext[i] \in ExtentsIn(y.fileSize) /\ y.ext[i].used = 0
    BY <2>1 DEF ReplayIn
  <2>7. Len(y.ext) <= y.count
    BY <1>1, <1>3, <1>4, <1>6, <2>1
  <2>8. ReplayIn(y, e)
    BY <1>1, <1>4, <2>1, <2>2, <2>5, <2>6, <2>7 DEF ReplayIn
  <2> QED  BY <2>8 DEF y
<1>9. CASE row.kind = "D"
  <2> DEFINE new == [owner |-> row.bucket, start |-> row.start, size |-> row.size, used |-> 0]
  <2>1. y.reg = x.reg /\ y.fileSize = IF end > x.fileSize THEN end ELSE x.fileSize
    BY <1>1, <1>2, <1>9, RowReplayed
  <2>2. PICK a \in Seq(RawExtent) : /\ Len(a) = Len(x.ext)
                                    /\ \A i \in 1 .. Len(a) : Narrower(a[i], x.ext[i], row)
                                    /\ y.ext = Append(a, new)
    BY <1>1, <1>2, <1>9, RowReplayed
  <2> HIDE DEF y
  <2>3. y.fileSize \in Nat /\ x.fileSize <= y.fileSize /\ y.fileSize <= e /\ end <= y.fileSize
    BY <1>1, <1>2, <1>3, <1>9, <2>1
  <2>4. new \in ExtentsIn(y.fileSize) /\ new.used = 0 /\ new.owner = row.bucket
    <3>1. new \in ExtentType
      BY <1>2 DEF ExtentType
    <3> QED  BY <1>2, <1>9, <2>3, <3>1, ExtentsInIs
  <2>5. ASSUME NEW i \in 1 .. Len(a)
        PROVE  a[i] \in ExtentsIn(y.fileSize) /\ a[i].used = 0
    <3> DEFINE b == x.ext[i]
    <3>1. b \in ExtentsIn(x.fileSize) /\ b.used = 0
      BY <1>6, <2>2 DEF ReplayIn
    <3>2. Narrower(a[i], b, row) /\ a[i] \in RawExtent
      BY <2>2
    <3> HIDE DEF b
    <3>3. b.owner \in Buckets /\ b.start \in Nat /\ b.size \in Nat /\ b.start >= PAGE
          /\ b.start + b.size <= x.fileSize
      BY <3>1, ExtentsInIs DEF ExtentType
    <3>4. a[i].size \in Nat /\ a[i].start + a[i].size <= x.fileSize /\ a[i].used = 0
          /\ a[i].start \in Nat /\ a[i].start >= PAGE
      <4>1. a[i].start = b.start /\ a[i].used = b.used
        BY <3>2 DEF Narrower
      <4>2. \/ a[i].size = b.size
            \/ /\ row.start >= b.start /\ row.start + row.size <= b.start + b.size
               /\ a[i].size = row.start - b.start
        BY <3>2, Zenon DEF Narrower
      <4>3. a[i].size \in Nat /\ b.start + a[i].size <= b.start + b.size
        BY <1>2, <3>3, <4>2
      <4> QED  BY <1>3, <3>1, <3>3, <4>1, <4>3
    <3>5. a[i] \in ExtentType
      BY <3>2, <3>4 DEF RawExtent, ExtentType
    <3>6. a[i].start + a[i].size <= y.fileSize
      BY <1>3, <2>3, <3>4
    <3> QED  BY <3>4, <3>5, <3>6, ExtentsInIs
  <2> HIDE DEF new
  <2>6. /\ DOMAIN y.ext = 1 .. Len(a) + 1 /\ y.ext[Len(a) + 1] = new /\ Len(a) \in Nat
        /\ \A i \in 1 .. Len(a) : y.ext[i] = a[i] /\ Len(y.ext) = Len(a) + 1
    BY <2>2
  <2>7. \A i \in DOMAIN y.ext : i \in 1 .. Len(a) \/ i = Len(a) + 1
    BY <2>6
  <2>8. \A i \in DOMAIN y.ext : y.ext[i] \in ExtentsIn(y.fileSize) /\ y.ext[i].used = 0
    BY <2>4, <2>5, <2>6, <2>7
  <2>9. Listed(y.ext, y.order)
    <3>1. \A i \in 1 .. Len(a) : a[i].owner = x.ext[i].owner /\ i \in DOMAIN x.ext
      BY <1>6, <2>2 DEF Narrower
    <3>2. \A i \in 1 .. Len(a) : \E n \in DOMAIN y.order : y.order[n] = a[i].owner
      BY <1>1, <1>5, <3>1 DEF Listed
    <3>3. \E n \in DOMAIN y.order : y.order[n] = new.owner
      BY <1>5, <2>4
    <3> QED  BY <2>6, <2>7, <3>2, <3>3 DEF Listed
  <2>10. Len(y.ext) <= y.count
    <3>1. Len(y.ext) = Len(a) + 1
      BY <2>2
    <3> QED  BY <1>1, <1>3, <1>4, <1>6, <2>2, <3>1
  <2>11. \A i \in DOMAIN y.reg : y.reg[i] \in RegionsIn /\ y.reg[i].used = 0
    BY <2>1 DEF ReplayIn
  <2>12. initial_size <= y.fileSize
    BY <1>1, <1>3, <1>7, <2>3
  <2>13. ReplayIn(y, e)
    BY <1>4, <2>3, <2>8, <2>9, <2>10, <2>11, <2>12 DEF ReplayIn
  <2> QED  BY <2>13 DEF y
<1> QED  BY <1>2, <1>8, <1>9

\* The image before the first row is within the file.
LEMMA ReplayInBlank ==
    ASSUME NEW e \in Nat, initial_size <= e
    PROVE  ReplayIn(Blank, e)
<1>1. /\ Blank.ext = <<>> /\ Blank.reg = <<>> /\ Blank.order = <<>> /\ Blank.count = 0
      /\ Blank.fileSize = initial_size
  BY DEF Blank
<1>2. initial_size \in Nat
  BY BoundsAre
<1> QED  BY <1>1, <1>2, BlankType DEF ReplayIn, Listed

\* The replay of rows in a data file.
LEMMA ReplayTypes ==
    ASSUME NEW e \in Nat, initial_size <= e, NEW rs \in Seq(RowsIn(e))
    PROVE  ReplayIn(Replay(rs), e)
<1>1. rs \in Seq(RowType) /\ Len(rs) \in Nat
  <2>1. \A i \in 1 .. Len(rs) : rs[i] \in RowType
    BY DEF RowsIn
  <2> QED  BY <2>1
<1>2. PICK h : Stages(h, rs) /\ Replay(rs) = h[Len(rs)]
  BY <1>1, ReplayStages
<1> DEFINE S == {k \in Nat : k <= Len(rs) => ReplayIn(h[k], e)}
<1>3. 0 \in S
  BY <1>2, ReplayInBlank DEF Stages
<1>4. ASSUME NEW k \in Nat, k \in S PROVE k + 1 \in S
  <2> SUFFICES ASSUME k + 1 <= Len(rs) PROVE ReplayIn(h[k + 1], e)
    OBVIOUS
  <2>1. ReplayIn(h[k], e) /\ k + 1 \in 1 .. Len(rs) /\ k + 1 - 1 = k
    BY <1>1, <1>4
  <2>2. h[k + 1] = ReplayRow(h[k], rs[k + 1]) /\ rs[k + 1] \in RowsIn(e)
    BY <1>2, <2>1 DEF Stages
  <2> QED  BY <2>1, <2>2, ReplayInStep
<1>5. Len(rs) \in S
  <2> HIDE DEF S
  <2> QED  BY <1>1, <1>3, <1>4, SetInduction
<1> QED  BY <1>1, <1>2, <1>5

-----------------------------------------------------------------------------
(* The walks over the data file, and what they gather. *)

\* The cells of a data file: where a header is, there is a record.
LEMMA BHeadersAre ==
    ASSUME NEW d \in [Cells -> BCells]
    PROVE  /\ DataFile(d, Cells)
           /\ \A p : HeaderAt(d, p) => /\ p \in Cells /\ p \in Nat /\ d[p].rec \in BRecords
                                      /\ d[p].rec.id \in Ids /\ d[p].rec.len \in Lens
                                      /\ d[p].rec.ver \in Nat /\ d[p].rec.bucket \in Buckets
                                      /\ d[p].rec.len \in Nat /\ d[p].rec.len > 0
<1>1. ASSUME NEW c \in BCells, c.k # 0
      PROVE  c.rec \in BRecords
  <2>1. Zero.k = 0
    BY DEF Zero
  <2>2. c \in {x \in [rec : BRecords, k : Nat] : x.k \in 1 .. x.rec.len}
    BY <1>1, <2>1 DEF BCells
  <2> QED  BY <2>2
<1>2. ASSUME NEW r \in BRecords
      PROVE  /\ r.id \in Ids /\ r.len \in Lens /\ r.ver \in Nat /\ r.bucket \in Buckets
             /\ r.len \in Nat /\ r.len > 0
  <2>1. r.id \in Ids /\ r.len \in Lens /\ r.ver \in Nat /\ r.bucket \in Buckets
    BY DEF BRecords
  <2> QED  BY <2>1, BoundsAre
<1>3. DataFile(d, Cells)
  <2>1. ASSUME NEW p \in Cells, d[p].k # 0 PROVE d[p].rec.len \in Nat \ {0}
    <3>1. d[p] \in BCells
      OBVIOUS
    <3>2. d[p].rec \in BRecords
      BY <1>1, <2>1, <3>1
    <3>3. d[p].rec.len \in Nat /\ d[p].rec.len > 0
      BY <1>2, <3>2
    <3> QED  BY <3>3
  <2> QED  BY <2>1 DEF DataFile
<1>4. ASSUME NEW p, HeaderAt(d, p) PROVE p \in Cells /\ p \in Nat /\ d[p].rec \in BRecords
  <2>1. p \in Cells /\ d[p].k = 1
    BY <1>4 DEF HeaderAt
  <2>2. d[p] \in BCells /\ d[p].k # 0
    BY <2>1
  <2> QED  BY <1>1, <2>1, <2>2, BoundsAre
<1> QED  BY <1>2, <1>3, <1>4

\* What a walk with resync finds from p on: whole records before end.
AllFrom(d, p, end, s) ==
    /\ s \in Seq(Nat)
    /\ \A i \in 1 .. Len(s) : s[i] >= p /\ RecordAt(d, s[i]) /\ s[i] + d[s[i]].rec.len <= end

\* The walk with resync finds whole records.
LEMMA WalkAllFinds ==
    ASSUME NEW C, C \subseteq Nat, NEW d, DataFile(d, C),
           NEW start \in Nat, NEW end \in Nat, start <= end
    PROVE  AllFrom(d, start, end, WalkAll(d, start, end))
<1> DEFINE H(p) == HeaderWithin(d, p, end)
           go == start .. end - 1
           next == [p \in go |-> IF H(p) THEN p + d[p].rec.len ELSE p + 1]
           own == [p \in go |-> IF H(p) /\ PayloadAt(d, p) THEN <<p>> ELSE <<>>]
           step == [p \in go |-> [v \in Seq(Nat) |-> own[p] \o v]]
           stop == [p \in start .. end |-> <<>>]
           Body(f, p) == IF p = end THEN <<>>
                         ELSE IF ~HeaderWithin(d, p, end) THEN f[p + 1]
                         ELSE (IF PayloadAt(d, p) THEN <<p>> ELSE <<>>) \o f[p + d[p].rec.len]
           Eq(f) == f = [p \in start .. end |-> Body(f, p)]
           from == CHOOSE f : Eq(f)
<1>1. \A p \in go : H(p) => /\ p \in C /\ d[p].rec.len \in Nat /\ d[p].rec.len > 0
                           /\ p < p + d[p].rec.len /\ p + d[p].rec.len \in start .. end
  BY DEF HeaderWithin, HeaderAt, DataFile
<1>2. \A p \in go : p \in Nat /\ p \in start .. end /\ p + 1 \in start .. end /\ p < p + 1 /\ p # end
  OBVIOUS
<1>3. next \in [go -> start .. end] /\ \A p \in go : p < next[p]
  <2> HIDE DEF go, H
  <2> QED  BY <1>1, <1>2
<1>4. own \in [go -> Seq(Nat)]
  <2> HIDE DEF go, H
  <2> QED  BY <1>2
<1>5. step \in [go -> [Seq(Nat) -> Seq(Nat)]] /\ stop \in [start .. end -> Seq(Nat)]
  <2> HIDE DEF go, own
  <2> QED  BY <1>4
<1>6. go \in SUBSET (start .. end)
  BY <1>2
<1>7. \A p \in start .. end : p \in go \/ p = end
  OBVIOUS
<1>8. \E f : Eq(f)
  <2>1. PICK f \in [start .. end -> Seq(Nat)] : IsWalk(f, start, end, go, next, step, stop)
    <3> HIDE DEF go, next, step, stop
    <3> QED  BY <1>3, <1>5, <1>6, WalkExists
  <2>2. ASSUME NEW p \in start .. end
        PROVE  (IF p \in go THEN step[p][f[next[p]]] ELSE stop[p]) = Body(f, p)
    <3>1. CASE p \in go
      <4>1. step[p][f[next[p]]] = own[p] \o f[next[p]]
        <5>1. f[next[p]] \in Seq(Nat)
          BY <1>3, <3>1
        <5> HIDE DEF go, own, next
        <5> QED  BY <3>1, <5>1
      <4>2. p # end
        BY <1>2, <3>1
      <4>3. CASE H(p)
        <5>1. next[p] = p + d[p].rec.len /\ own[p] = (IF PayloadAt(d, p) THEN <<p>> ELSE <<>>)
          <6> HIDE DEF go
          <6> QED  BY <3>1, <4>3
        <5>2. Body(f, p) = (IF PayloadAt(d, p) THEN <<p>> ELSE <<>>) \o f[p + d[p].rec.len]
          BY <4>2, <4>3
        <5> HIDE DEF Body, next, own, step, go
        <5> QED  BY <3>1, <4>1, <5>1, <5>2
      <4>4. CASE ~H(p)
        <5>1. next[p] = p + 1 /\ own[p] = <<>>
          <6> HIDE DEF go
          <6> QED  BY <3>1, <4>4
        <5>2. Body(f, p) = f[p + 1]
          BY <4>2, <4>4
        <5>3. f[p + 1] \in Seq(Nat)
          BY <1>2, <3>1
        <5>4. <<>> \o f[p + 1] = f[p + 1]
          BY <5>3
        <5> HIDE DEF Body, next, own, step, go
        <5> QED  BY <3>1, <4>1, <5>1, <5>2, <5>4
      <4> QED  BY <4>3, <4>4
    <3>2. CASE p \notin go
      <4>1. p = end
        BY <1>7, <3>2
      <4> QED  BY <3>2, <4>1
    <3> QED  BY <3>1, <3>2
  <2> HIDE DEF go, next, step, stop, Body
  <2>3. Eq(f)
    BY <2>1, <2>2 DEF IsWalk
  <2> QED  BY <2>3
<1>9. Eq(from)
  <2> HIDE DEF Eq
  <2> QED  BY <1>8
<1>10. WalkAll(d, start, end) = from[start]
  BY DEF WalkAll
<1>11. ASSUME NEW p \in start .. end PROVE from[p] = Body(from, p)
  <2> HIDE DEF from, Body
  <2> QED  BY <1>9
<1> HIDE DEF from
<1> DEFINE S == {p \in start .. end : AllFrom(d, p, end, from[p])}
<1>12. ASSUME NEW p \in start .. end, \A q \in p + 1 .. end : q \in S PROVE p \in S
  <2>1. CASE p = end
    <3>1. from[p] = <<>>
      BY <1>11, <2>1
    <3>2. <<>> \in Seq(Nat) /\ 1 .. Len(<<>>) = {}
      OBVIOUS
    <3>3. AllFrom(d, p, end, <<>>)
      BY <3>2 DEF AllFrom
    <3> QED  BY <3>1, <3>3
  <2>2. CASE p # end /\ ~H(p)
    <3>1. from[p] = from[p + 1]
      BY <1>11, <2>2
    <3>2. p + 1 \in p + 1 .. end /\ p \in Nat
      BY <2>2
    <3>3. AllFrom(d, p + 1, end, from[p + 1])
      BY <1>12, <3>2
    <3>4. \A i \in 1 .. Len(from[p + 1]) : from[p + 1][i] \in Nat
      BY <3>3 DEF AllFrom
    <3> QED  BY <3>1, <3>2, <3>3, <3>4 DEF AllFrom
  <2>3. CASE p # end /\ H(p)
    <3> DEFINE q == p + d[p].rec.len
               t == from[q]
               o == IF PayloadAt(d, p) THEN <<p>> ELSE <<>>
               s == o \o t
    <3>1. p \in go
      BY <2>3
    <3>2. q \in p + 1 .. end /\ q \in Nat /\ p \in Nat /\ q <= end /\ p <= q
      BY <1>1, <2>3, <3>1
    <3>3. from[p] = s
      BY <1>11, <2>3
    <3>4. AllFrom(d, q, end, t)
      BY <1>12, <3>2
    <3>5. HeaderAt(d, p)
      BY <2>3 DEF HeaderWithin
    <3> HIDE DEF q, t
    <3>6. t \in Seq(Nat) /\ \A i \in 1 .. Len(t) : /\ t[i] \in Nat /\ t[i] >= q
                                                  /\ RecordAt(d, t[i])
                                                  /\ t[i] + d[t[i]].rec.len <= end
      BY <3>4 DEF AllFrom
    <3>7. CASE ~PayloadAt(d, p)
      <4>1. s = t
        BY <3>6, <3>7
      <4> HIDE DEF s
      <4> QED  BY <3>2, <3>3, <3>6, <4>1 DEF AllFrom
    <3>8. CASE PayloadAt(d, p)
      <4>1. s = <<p>> \o t
        BY <3>8
      <4> HIDE DEF s
      <4>2. /\ s \in Seq(Nat) /\ Len(s) = Len(t) + 1 /\ s[1] = p
            /\ \A i \in 1 .. Len(t) : s[i + 1] = t[i]
        BY <3>2, <3>6, <4>1
      <4>3. RecordAt(d, p) /\ p + d[p].rec.len <= end
        BY <3>2, <3>5, <3>8 DEF RecordAt, q
      <4>4. ASSUME NEW i \in 1 .. Len(s)
            PROVE  s[i] >= p /\ RecordAt(d, s[i]) /\ s[i] + d[s[i]].rec.len <= end
        <5>1. CASE i = 1
          BY <3>2, <4>2, <4>3, <5>1
        <5>2. CASE i # 1
          <6>1. i - 1 \in 1 .. Len(t) /\ s[i] = t[i - 1]
            <7>1. Len(t) \in Nat /\ i \in 1 .. Len(t) + 1
              BY <3>6, <4>2
            <7>2. i - 1 \in 1 .. Len(t) /\ i - 1 + 1 = i
              BY <5>2, <7>1
            <7> QED  BY <4>2, <7>2
          <6> QED  BY <3>2, <3>6, <6>1
        <5> QED  BY <5>1, <5>2
      <4> QED  BY <3>3, <4>2, <4>4 DEF AllFrom
    <3> QED  BY <3>7, <3>8
  <2> QED  BY <2>1, <2>2, <2>3
<1>13. start \in S
  <2>1. \A p \in start .. end : p \in S
    <3> HIDE DEF S
    <3> QED  BY <1>12, WalkInduction
  <2>2. start \in start .. end
    OBVIOUS
  <2> QED  BY <2>1, <2>2
<1> QED  BY <1>10, <1>13

\* What is known of the newest version of a record.
Entries == [off : Cells, ver : Nat, len : Lens]
Founds == UNION {[D -> Entries] : D \in SUBSET Ids}
Entry(d, p) == [off |-> p, ver |-> d[p].rec.ver, len |-> d[p].rec.len]

\* A function of records.
LEMMA FoundsAre ==
    \A f : f \in Founds <=> /\ f = [id \in DOMAIN f |-> f[id]] /\ DOMAIN f \subseteq Ids
                            /\ \A id \in DOMAIN f : f[id] \in Entries
<1>1. ASSUME NEW f, f \in Founds
      PROVE  /\ f = [id \in DOMAIN f |-> f[id]] /\ DOMAIN f \subseteq Ids
             /\ \A id \in DOMAIN f : f[id] \in Entries
  <2>1. PICK D \in SUBSET Ids : f \in [D -> Entries]
    BY <1>1, Zenon DEF Founds
  <2> QED  BY <2>1
<1>2. ASSUME NEW f, f = [id \in DOMAIN f |-> f[id]], DOMAIN f \subseteq Ids,
             \A id \in DOMAIN f : f[id] \in Entries
      PROVE  f \in Founds
  <2>1. f \in [DOMAIN f -> Entries] /\ DOMAIN f \in SUBSET Ids
    BY <1>2
  <2> QED  BY <2>1, Zenon DEF Founds
<1> QED  BY <1>1, <1>2

\* g is f and the record at p, if f holds no newer version of it.
Adds(g, d, f, p) ==
    LET id == d[p].rec.id
    IN  /\ g \in Founds /\ DOMAIN g = DOMAIN f \union {id}
        /\ \A x \in DOMAIN f : x # id => g[x] = f[x]
        /\ g[id] = Entry(d, p) \/ (id \in DOMAIN f /\ g[id] = f[id] /\ d[p].rec.ver <= f[id].ver)
        /\ id \in DOMAIN f => f[id].ver <= g[id].ver
        /\ d[p].rec.ver <= g[id].ver

\* What one record adds to the newest versions found so far.
LEMMA NewestIs ==
    ASSUME NEW d \in [Cells -> BCells], NEW f \in Founds, NEW p, HeaderAt(d, p)
    PROVE  Adds(Newest(d, f, p), d, f, p)
<1> DEFINE g == Newest(d, f, p)
           r == d[p].rec
           e == Entry(d, p)
           h == [x \in DOMAIN f \union {r.id} |-> IF x = r.id THEN e ELSE f[x]]
<1>1. /\ p \in Cells /\ r.id \in Ids /\ r.len \in Lens /\ r.ver \in Nat
  BY BHeadersAre
<1>2. e \in Entries /\ e.ver = r.ver
  BY <1>1 DEF Entry, Entries
<1>3. /\ f = [x \in DOMAIN f |-> f[x]] /\ DOMAIN f \subseteq Ids
      /\ \A x \in DOMAIN f : f[x] \in Entries
  BY FoundsAre
<1>4. \A x \in DOMAIN f : f[x].ver \in Nat
  BY <1>3 DEF Entries
<1>5. g = IF r.id \notin DOMAIN f \/ r.ver >= f[r.id].ver THEN h ELSE f
  BY DEF Newest, Entry
<1> HIDE DEF e
<1>6. CASE r.id \notin DOMAIN f \/ r.ver >= f[r.id].ver
  <2>1. g = h
    BY <1>5, <1>6
  <2>2. DOMAIN h = DOMAIN f \union {r.id} /\ h[r.id] = e
        /\ \A x \in DOMAIN f : x # r.id => h[x] = f[x]
    OBVIOUS
  <2>3. h \in Founds
    <3>1. h = [x \in DOMAIN h |-> h[x]] /\ DOMAIN h \subseteq Ids
      BY <1>1, <1>3
    <3>2. \A x \in DOMAIN h : h[x] \in Entries
      BY <1>2, <1>3, <2>2
    <3> HIDE DEF h
    <3> QED  BY <3>1, <3>2, FoundsAre
  <2> HIDE DEF h, g, r
  <2>4. r.ver <= e.ver /\ (r.id \in DOMAIN f => f[r.id].ver <= e.ver)
    BY <1>1, <1>2, <1>4, <1>6
  <2> QED  BY <2>1, <2>2, <2>3, <2>4 DEF g, r, e, Adds
<1>7. CASE ~(r.id \notin DOMAIN f \/ r.ver >= f[r.id].ver)
  <2>1. g = f /\ r.id \in DOMAIN f
    BY <1>5, <1>7
  <2> HIDE DEF h, g, r
  <2>2. r.ver <= f[r.id].ver /\ f[r.id].ver <= f[r.id].ver
    BY <1>1, <1>4, <1>7
  <2>3. DOMAIN f = DOMAIN f \union {r.id}
    BY <2>1
  <2> QED  BY <2>1, <2>2, <2>3 DEF g, r, Adds
<1> QED  BY <1>6, <1>7

\* h[k] is gathered from the first k records at offs.
Gathers(h, d, offs) ==
    /\ h \in [0 .. Len(offs) -> Founds] /\ h[0] = <<>>
    /\ \A k \in 1 .. Len(offs) : h[k] = Newest(d, h[k - 1], offs[k])

\* The newest versions are gathered record by record.
LEMMA LatestStages ==
    ASSUME NEW d \in [Cells -> BCells], NEW offs \in Seq(Nat),
           \A i \in 1 .. Len(offs) : HeaderAt(d, offs[i])
    PROVE  \E h : Gathers(h, d, offs) /\ Latest(d, offs) = h[Len(offs)]
<1> DEFINE n == Len(offs)
           B(v, p) == Newest(d, v, p)
           step == [k \in 1 .. n |-> [v \in Founds |-> B(v, offs[k])]]
           Eq(it) == it = [s \in SUBSET (1 .. n) |->
                              IF s = {} THEN <<>> ELSE B(it[s \ {Max(s)}], offs[Max(s)])]
           it == CHOOSE it : Eq(it)
<1>1. n \in Nat /\ DOMAIN offs = 1 .. n
  OBVIOUS
<1>2. Latest(d, offs) = it[1 .. n]
  BY <1>1, Zenon DEF Latest, FoldLeft, MapThenFoldSet
<1>3. ASSUME NEW k \in 1 .. n, NEW v \in Founds PROVE B(v, offs[k]) \in Founds
  BY NewestIs DEF Adds
<1>4. step \in [1 .. n -> [Founds -> Founds]]
  <2> HIDE DEF B
  <2> QED  BY <1>3
<1>b. <<>> \in Founds
  <2>1. DOMAIN <<>> = {} /\ <<>> = [id \in {} |-> <<>>[id]]
    OBVIOUS
  <2> QED  BY <2>1, FoundsAre
<1>5. \E g : Eq(g)
  <2>1. PICK g \in [SUBSET (1 .. n) -> Founds] : IsFold(g, n, <<>>, step)
    <3> HIDE DEF step
    <3> QED  BY <1>1, <1>4, <1>b, FoldExists
  <2>2. ASSUME NEW s \in SUBSET (1 .. n), s # {}
        PROVE  step[Max(s)][g[s \ {Max(s)}]] = B(g[s \ {Max(s)}], offs[Max(s)])
    <3>0. s \subseteq 0 .. n
      OBVIOUS
    <3>1. Max(s) \in 1 .. n
      BY <1>1, <2>2, <3>0, MaxIsGreatest
    <3>2. g[s \ {Max(s)}] \in Founds
      OBVIOUS
    <3> HIDE DEF B
    <3> QED  BY <3>1, <3>2
  <2> HIDE DEF step, B
  <2>3. Eq(g)
    BY <2>1, <2>2 DEF IsFold
  <2> QED  BY <2>3
<1>6. Eq(it)
  <2> HIDE DEF Eq
  <2> QED  BY <1>5, Zenon
<1> HIDE DEF it
<1> DEFINE h == [k \in 0 .. n |-> it[1 .. k]]
<1>7. it[{}] = <<>> /\ 1 .. 0 = {}
  <2> HIDE DEF B
  <2> QED  BY <1>6
<1>8. ASSUME NEW m \in 1 .. n PROVE it[1 .. m] = B(it[1 .. m - 1], offs[m])
  <2>1. m \in Nat \ {0}
    BY <1>1
  <2>2. Max(1 .. m) = m /\ (1 .. m) \ {m} = 1 .. m - 1
    BY <2>1, MaxOfPrefix
  <2>3. 1 .. m \in SUBSET (1 .. n) /\ 1 .. m # {}
    <3>1. 1 \in 1 .. m /\ \A j \in 1 .. m : j \in 1 .. n
      BY <1>1, <2>1
    <3> QED  BY <3>1
  <2> HIDE DEF B
  <2> QED  BY <1>6, <2>2, <2>3
<1> DEFINE S == {k \in Nat : k <= n => it[1 .. k] \in Founds}
<1>9. 0 \in S
  BY <1>7, <1>b
<1>10. ASSUME NEW k \in Nat, k \in S PROVE k + 1 \in S
  <2> SUFFICES ASSUME k + 1 <= n PROVE it[1 .. k + 1] \in Founds
    OBVIOUS
  <2>1. it[1 .. k] \in Founds /\ k + 1 \in 1 .. n /\ k + 1 - 1 = k
    BY <1>1, <1>10
  <2> HIDE DEF B
  <2>2. it[1 .. k + 1] = B(it[1 .. k], offs[k + 1])
    BY <1>8, <2>1
  <2> QED  BY <1>3, <2>1, <2>2
<1>11. \A k \in Nat : k \in S
  <2> HIDE DEF S
  <2> QED  BY <1>9, <1>10, SetInduction
<1>12. h \in [0 .. n -> Founds] /\ h[0] = <<>> /\ h[n] = it[1 .. n]
  BY <1>1, <1>7, <1>11
<1>13. ASSUME NEW k \in 1 .. n PROVE h[k] = B(h[k - 1], offs[k])
  <2>1. k \in 0 .. n /\ k - 1 \in 0 .. n
    BY <1>1
  <2>2. h[k] = it[1 .. k] /\ h[k - 1] = it[1 .. k - 1]
    BY <2>1
  <2> HIDE DEF h, B
  <2> QED  BY <1>8, <2>2
<1> HIDE DEF h
<1>14. Gathers(h, d, offs)
  BY <1>12, <1>13 DEF Gathers
<1> QED  BY <1>2, <1>12, <1>14

\* f holds the newest versions among the first k records at offs.
NewestOf(f, d, offs, k) ==
    /\ f \in Founds
    /\ \A id \in DOMAIN f : \E i \in 1 .. k : d[offs[i]].rec.id = id /\ f[id] = Entry(d, offs[i])
    /\ \A i \in 1 .. k : /\ d[offs[i]].rec.id \in DOMAIN f
                         /\ d[offs[i]].rec.ver <= f[d[offs[i]].rec.id].ver

\* Latest is the newest version of every number, and of no other.
LEMMA LatestIs ==
    ASSUME NEW d \in [Cells -> BCells], NEW offs \in Seq(Nat),
           \A i \in 1 .. Len(offs) : HeaderAt(d, offs[i])
    PROVE  NewestOf(Latest(d, offs), d, offs, Len(offs))
<1> DEFINE n == Len(offs)
<1>1. n \in Nat
  OBVIOUS
<1>2. PICK h : Gathers(h, d, offs) /\ Latest(d, offs) = h[n]
  BY LatestStages
<1> DEFINE S == {k \in Nat : k <= n => NewestOf(h[k], d, offs, k)}
<1>3. 0 \in S
  <2>1. h[0] = <<>> /\ h[0] \in Founds /\ DOMAIN <<>> = {} /\ 1 .. 0 = {}
    BY <1>1, <1>2 DEF Gathers
  <2>2. DOMAIN h[0] = {}
    BY <2>1
  <2>3. NewestOf(h[0], d, offs, 0)
    BY <2>1, <2>2 DEF NewestOf
  <2> QED  BY <2>3
<1>4. ASSUME NEW k \in Nat, k \in S PROVE k + 1 \in S
  <2> SUFFICES ASSUME k + 1 <= n PROVE NewestOf(h[k + 1], d, offs, k + 1)
    OBVIOUS
  <2> DEFINE m == k + 1
             p == offs[m]
             f == h[k]
             g == h[m]
             id == d[p].rec.id
  <2>1. NewestOf(f, d, offs, k) /\ m \in 1 .. n /\ m - 1 = k /\ m \in 0 .. n /\ k \in 0 .. n
    BY <1>1, <1>4
  <2>2. g = Newest(d, f, p) /\ HeaderAt(d, p)
    BY <1>2, <2>1 DEF Gathers
  <2>3. f \in Founds
    BY <2>1 DEF NewestOf
  <2> HIDE DEF f, g, p
  <2>4. /\ g \in Founds /\ DOMAIN g = DOMAIN f \union {id}
        /\ \A x \in DOMAIN f : x # id => g[x] = f[x]
        /\ g[id] = Entry(d, p) \/ (id \in DOMAIN f /\ g[id] = f[id] /\ d[p].rec.ver <= f[id].ver)
        /\ id \in DOMAIN f => f[id].ver <= g[id].ver
        /\ d[p].rec.ver <= g[id].ver
    <3>1. Adds(g, d, f, p)
      BY <2>2, <2>3, NewestIs
    <3> QED  BY <3>1 DEF Adds
  <2>5. \A i \in 1 .. m : i \in 1 .. k \/ i = m
    BY <2>1
  <2>6. m \in 1 .. m /\ \A i \in 1 .. k : i \in 1 .. m
    BY <2>1
  <2> HIDE DEF m, id
  <2>7. ASSUME NEW x \in DOMAIN g
        PROVE  \E i \in 1 .. m : d[offs[i]].rec.id = x /\ g[x] = Entry(d, offs[i])
    <3>1. CASE x \in DOMAIN f /\ g[x] = f[x]
      <4>1. PICK i \in 1 .. k : d[offs[i]].rec.id = x /\ f[x] = Entry(d, offs[i])
        BY <2>1, <3>1 DEF NewestOf
      <4> QED  BY <2>6, <3>1, <4>1
    <3>2. CASE x = id /\ g[x] = Entry(d, p)
      BY <2>6, <3>2 DEF id, p
    <3> QED  BY <2>4, <3>1, <3>2
  <2>8. ASSUME NEW i \in 1 .. m
        PROVE  /\ d[offs[i]].rec.id \in DOMAIN g
               /\ d[offs[i]].rec.ver <= g[d[offs[i]].rec.id].ver
    <3>1. CASE i = m
      BY <2>4, <3>1 DEF id, p
    <3>2. CASE i \in 1 .. k
      <4> DEFINE x == d[offs[i]].rec.id
      <4>1. x \in DOMAIN f /\ d[offs[i]].rec.ver <= f[x].ver
        BY <2>1, <3>2 DEF NewestOf
      <4>2. x \in DOMAIN g /\ (x # id => g[x] = f[x])
        BY <2>4, <4>1
      <4>3. CASE x # id
        BY <4>1, <4>2, <4>3
      <4>4. CASE x = id
        <5>1. f[x].ver \in Nat /\ g[x].ver \in Nat
          BY <2>3, <2>4, <4>1, <4>2, FoundsAre DEF Entries
        <5>2. d[offs[i]].rec.ver \in Nat
          <6>1. HeaderAt(d, offs[i])
            BY <1>1, <2>1, <3>2 DEF m
          <6> QED  BY <6>1, BHeadersAre
        <5>3. f[x].ver <= g[x].ver
          BY <2>4, <4>1, <4>4
        <5>4. d[offs[i]].rec.ver <= g[x].ver
          <6> HIDE DEF x
          <6> QED  BY <4>1, <5>1, <5>2, <5>3
        <5> QED  BY <4>2, <5>4
      <4> QED  BY <4>3, <4>4
    <3> QED  BY <2>5, <3>1, <3>2
  <2> QED  BY <2>4, <2>7, <2>8 DEF NewestOf, g, m
<1>5. n \in S
  <2> HIDE DEF S
  <2> QED  BY <1>1, <1>3, <1>4, SetInduction
<1> QED  BY <1>1, <1>2, <1>5

\* What is gathered from records is to be restored as slots.
LEMMA LatestUpd ==
    ASSUME NEW f \in Founds
    PROVE  /\ DOMAIN f \subseteq Ids
           /\ \A id \in DOMAIN f : f[id].off \in Cells /\ f[id].len \in Lens
BY FoundsAre DEF Entries

\* The stretches of records of one bucket in a data file that ends at e.
Stretches(e) == {x \in [bucket : Buckets, start : Nat, end : Nat] :
                    x.start >= PAGE /\ x.start <= x.end /\ x.end <= e}

\* The record at p continues the last of the runs, or begins one.
Continue(d, runs, p) ==
    LET r == d[p].rec
    IN  IF runs # <<>> /\ Last(runs).bucket = r.bucket /\ Last(runs).end = p
        THEN [runs EXCEPT ![Len(runs)].end = p + r.len]
        ELSE Append(runs, [bucket |-> r.bucket, start |-> p, end |-> p + r.len])

\* The runs stay within the data file.
LEMMA ContinueIs ==
    ASSUME NEW d \in [Cells -> BCells], NEW e \in Nat, NEW p, HeaderAt(d, p), p + d[p].rec.len <= e,
           NEW runs \in Seq(Stretches(e))
    PROVE  Continue(d, runs, p) \in Seq(Stretches(e))
<1> DEFINE r == d[p].rec
           b == r.bucket
           n == r.len
<1>1. p \in Nat /\ p >= PAGE /\ b \in Buckets /\ n \in Nat /\ n > 0 /\ p + n <= e /\ PAGE \in Nat
  BY BHeadersAre, BoundsAre
<1> HIDE DEF b, n
<1>2. CASE runs # <<>> /\ Last(runs).bucket = b /\ Last(runs).end = p
  <2> DEFINE L == Len(runs)
             x == runs[L]
             y == [x EXCEPT !.end = p + n]
  <2>1. L \in Nat /\ L \in 1 .. L /\ DOMAIN runs = 1 .. L /\ x \in Stretches(e) /\ Last(runs) = x
    BY <1>2 DEF Last
  <2>2. x \in [bucket : Buckets, start : Nat, end : Nat] /\ x.start >= PAGE /\ x.start <= x.end /\ x.end = p
    BY <1>2, <2>1 DEF Stretches
  <2> HIDE DEF x
  <2>3. y \in [bucket : Buckets, start : Nat, end : Nat] /\ y.start = x.start /\ y.end = p + n
    BY <1>1, <2>2
  <2>4. y.start >= PAGE /\ y.start <= y.end /\ y.end <= e
    <3>1. x.start \in Nat /\ x.end \in Nat
      BY <2>2
    <3> QED  BY <1>1, <2>2, <2>3, <3>1
  <2>5. y \in Stretches(e)
    <3> HIDE DEF y
    <3> QED  BY <2>3, <2>4 DEF Stretches
  <2>6. Continue(d, runs, p) = [runs EXCEPT ![L] = y]
    BY <1>2 DEF Continue, b, n, x
  <2> HIDE DEF L, y
  <2>7. [runs EXCEPT ![L] = y] \in Seq(Stretches(e))
    BY <2>1, <2>5
  <2> QED  BY <2>6, <2>7
<1>3. CASE ~(runs # <<>> /\ Last(runs).bucket = b /\ Last(runs).end = p)
  <2> DEFINE y == [bucket |-> b, start |-> p, end |-> p + n]
  <2>1. y \in Stretches(e)
    BY <1>1 DEF Stretches
  <2>2. Continue(d, runs, p) = Append(runs, y)
    BY <1>3 DEF Continue, b, n
  <2> HIDE DEF y
  <2> QED  BY <2>1, <2>2
<1> QED  BY <1>2, <1>3

\* bucket_runs finds stretches of the data file.
LEMMA BucketRunsAre ==
    ASSUME FileTypes, allocEnd \in Nat, PAGE <= allocEnd
    PROVE  BucketRuns \in Seq(Stretches(allocEnd))
<1> DEFINE offs == AllRecords
           n == Len(offs)
           V == Seq(Stretches(allocEnd))
           B(v, p) == Continue(dDisk, v, p)
           step == [k \in 1 .. n |-> [v \in V |-> B(v, offs[k])]]
           Eq(it) == it = [s \in SUBSET (1 .. n) |->
                              IF s = {} THEN <<>> ELSE B(it[s \ {Max(s)}], offs[Max(s)])]
           it == CHOOSE it : Eq(it)
<1>a. dDisk \in [Cells -> BCells]
  BY DEF FileTypes
<1>c. AllFrom(dDisk, PAGE, allocEnd, offs)
  <2>1. DataFile(dDisk, Cells) /\ Cells \subseteq Nat /\ PAGE \in Nat
    BY <1>a, BHeadersAre, BoundsAre
  <2> QED  BY <2>1, WalkAllFinds DEF AllRecords
<1>1. n \in Nat /\ DOMAIN offs = 1 .. n
  BY <1>c DEF AllFrom
<1>d. \A k \in 1 .. n : HeaderAt(dDisk, offs[k]) /\ offs[k] + dDisk[offs[k]].rec.len <= allocEnd
  BY <1>c DEF AllFrom, RecordAt
<1> HIDE DEF offs
<1>2. BucketRuns = it[1 .. n]
  BY <1>1, Zenon DEF BucketRuns, Continue, FoldLeft, MapThenFoldSet, offs
<1> HIDE DEF n
<1>3. ASSUME NEW k \in 1 .. n, NEW v \in V PROVE B(v, offs[k]) \in V
  BY <1>a, <1>d, ContinueIs
<1>b. <<>> \in V
  OBVIOUS
<1> HIDE DEF V
<1>4. step \in [1 .. n -> [V -> V]]
  <2> HIDE DEF B
  <2> QED  BY <1>3
<1>5. \E g : Eq(g)
  <2>1. PICK g \in [SUBSET (1 .. n) -> V] : IsFold(g, n, <<>>, step)
    <3> HIDE DEF step
    <3> QED  BY <1>1, <1>4, <1>b, FoldExists
  <2>2. ASSUME NEW s \in SUBSET (1 .. n), s # {}
        PROVE  step[Max(s)][g[s \ {Max(s)}]] = B(g[s \ {Max(s)}], offs[Max(s)])
    <3>0. s \subseteq 0 .. n
      OBVIOUS
    <3>1. Max(s) \in 1 .. n
      BY <1>1, <2>2, <3>0, MaxIsGreatest
    <3>2. g[s \ {Max(s)}] \in V
      OBVIOUS
    <3> HIDE DEF B
    <3> QED  BY <3>1, <3>2
  <2> HIDE DEF step, B
  <2>3. Eq(g)
    BY <2>1, <2>2 DEF IsFold
  <2> QED  BY <2>3
<1>6. Eq(it)
  <2> HIDE DEF Eq
  <2> QED  BY <1>5, Zenon
<1> HIDE DEF it
<1>7. it[{}] = <<>> /\ 1 .. 0 = {}
  <2> HIDE DEF B
  <2> QED  BY <1>6
<1>8. ASSUME NEW m \in 1 .. n PROVE it[1 .. m] = B(it[1 .. m - 1], offs[m])
  <2>1. m \in Nat \ {0}
    BY <1>1
  <2>2. Max(1 .. m) = m /\ (1 .. m) \ {m} = 1 .. m - 1
    BY <2>1, MaxOfPrefix
  <2>3. 1 .. m \in SUBSET (1 .. n) /\ 1 .. m # {}
    <3>1. 1 \in 1 .. m /\ \A j \in 1 .. m : j \in 1 .. n
      BY <1>1, <2>1
    <3> QED  BY <3>1
  <2> HIDE DEF B
  <2> QED  BY <1>6, <2>2, <2>3
<1> DEFINE S == {k \in Nat : k <= n => it[1 .. k] \in V}
<1>9. 0 \in S
  BY <1>7, <1>b
<1>10. ASSUME NEW k \in Nat, k \in S PROVE k + 1 \in S
  <2> SUFFICES ASSUME k + 1 <= n PROVE it[1 .. k + 1] \in V
    OBVIOUS
  <2>1. it[1 .. k] \in V /\ k + 1 \in 1 .. n /\ k + 1 - 1 = k
    BY <1>1, <1>10
  <2> HIDE DEF B
  <2>2. it[1 .. k + 1] = B(it[1 .. k], offs[k + 1])
    BY <1>8, <2>1
  <2> QED  BY <1>3, <2>1, <2>2
<1>11. n \in S
  <2> HIDE DEF S
  <2> QED  BY <1>1, <1>9, <1>10, SetInduction
<1>12. it[1 .. n] \in V
  BY <1>1, <1>11
<1> QED  BY <1>2, <1>12 DEF V

\* The row of a stretch is in the file.
LEMMA RunRowIs ==
    ASSUME NEW e \in Nat, e % PAGE = 0, NEW run \in Stretches(e)
    PROVE  RunRow(run) \in RowsIn(e)
<1> DEFINE s == run.start
           t == run.end
           a == PageDown(s)
           z == PageUp(t)
<1>1. s \in Nat /\ t \in Nat /\ s >= PAGE /\ s <= t /\ t <= e /\ run.bucket \in Buckets
  BY DEF Stretches
<1> HIDE DEF s, t
<1>2. a >= PAGE /\ z <= e
  BY <1>1, PagesBelow
<1>3. a \in Nat /\ z \in Nat /\ a <= s /\ z >= t
  BY <1>1, PageBounds
<1> HIDE DEF a, z
<1>4. z - a \in Nat /\ a + (z - a) <= e
  BY <1>1, <1>2, <1>3
<1>5. RunRow(run) = [kind |-> "D", bucket |-> run.bucket, start |-> a, size |-> z - a]
  BY DEF RunRow, a, z, s, t
<1> DEFINE c == z - a
<1> HIDE DEF c
<1>6. [kind |-> "D", bucket |-> run.bucket, start |-> a, size |-> c] \in RowsIn(e)
  BY <1>1, <1>2, <1>3, <1>4 DEF RowsIn, RowType, c
<1> QED  BY <1>5, <1>6 DEF c

\* Max is the greatest element of a set that has one.
LEMMA MaxOfInts ==
    ASSUME NEW S, NEW x \in S, \A y \in S : x >= y
    PROVE  Max(S) \in S /\ \A y \in S : Max(S) >= y
<1>1. \E z \in S : \A y \in S : z >= y
  OBVIOUS
<1> QED  BY <1>1, Zenon DEF Max

\* The greatest of 0 and at most one more number is not negative.
LEMMA MaxOfZero ==
    ASSUME NEW v \in Int, NEW T, T \subseteq {v}
    PROVE  Max({0} \union T) \in Nat
<1> DEFINE S == {0} \union T
<1>1. \A y \in S : y \in Int
  OBVIOUS
<1>2. \E x \in S : \A y \in S : x >= y
  <2>1. CASE v \in T /\ v >= 0
    <3>1. v \in S /\ \A y \in S : v >= y
      BY <2>1
    <3> QED  BY <3>1
  <2>2. CASE ~(v \in T /\ v >= 0)
    <3>1. 0 \in S /\ \A y \in S : 0 >= y
      BY <2>2
    <3> QED  BY <3>1
  <2> QED  BY <2>1, <2>2
<1>3. 0 \in S
  OBVIOUS
<1> HIDE DEF S
<1>4. Max(S) \in S /\ \A y \in S : Max(S) >= y
  <2>1. PICK x \in S : \A y \in S : x >= y
    BY <1>2
  <2> QED  BY <2>1, MaxOfInts
<1>5. Max(S) \in Nat
  BY <1>1, <1>3, <1>4
<1> QED  BY <1>5 DEF S

\* The slots that are not empty have places.
LEMMA KnownSlots ==
    ASSUME FileTypes, NEW id \in Ids, iView[id].st # "empty"
    PROVE  /\ iView[id].off \in Nat /\ iView[id].len \in Nat /\ iView[id].off \in Cells
           /\ iView[id].len \in Lens
<1>1. iView[id] \in BSlots
  BY BViewTypes
<1>2. iView[id] # Empty
  BY DEF Empty
<1>3. iView[id].off \in Cells /\ iView[id].len \in Lens
  BY <1>1, <1>2 DEF BSlots
<1> QED  BY <1>3, BoundsAre

\* What the walk finds in an extent lies in it.
LEMMA FoundIn ==
    ASSUME FileTypes, NEW f \in Nat, NEW e \in ExtentsIn(f)
    PROVE  /\ Found(e) \in Seq(Nat)
           /\ \A i \in 1 .. Len(Found(e)) :
                 /\ RecordAt(dDisk, Found(e)[i]) /\ Found(e)[i] \in Nat
                 /\ e.start <= Found(e)[i]
                 /\ Found(e)[i] + dDisk[Found(e)[i]].rec.len <= ExtentEnd(e)
<1>1. e \in ExtentType
  BY ExtentsInIs
<1>2. e.start \in Nat /\ ExtentEnd(e) \in Nat /\ e.start <= ExtentEnd(e)
  BY <1>1, ExtentFields
<1>3. dDisk \in [Cells -> BCells]
  BY DEF FileTypes
<1>4. DataFile(dDisk, Cells) /\ Cells \subseteq Nat
  BY <1>3, BHeadersAre, BoundsAre
<1>5. FoundFrom(dDisk, e.start, ExtentEnd(e), Found(e))
  BY <1>2, <1>4, WalkFinds DEF Found
<1>6. Found(e) \in Seq(Nat)
  BY <1>5 DEF FoundFrom
<1>7. ASSUME NEW i \in 1 .. Len(Found(e))
      PROVE  /\ RecordAt(dDisk, Found(e)[i]) /\ Found(e)[i] \in Nat
             /\ e.start <= Found(e)[i]
             /\ Found(e)[i] + dDisk[Found(e)[i]].rec.len <= ExtentEnd(e)
  <2>1. Found(e)[i] \in Nat
    BY <1>6
  <2>2. Found(e)[i] >= e.start
    BY <1>5 DEF FoundFrom
  <2>3. e.start <= Found(e)[i]
    <3> DEFINE a == Found(e)[i]
               b == e.start
    <3>1. a \in Nat /\ b \in Nat /\ a >= b
      BY <1>2, <2>1, <2>2
    <3> HIDE DEF a, b
    <3>2. b <= a
      BY <3>1
    <3> QED  BY <3>2 DEF a, b
  <2> QED  BY <1>5, <2>1, <2>3 DEF FoundFrom
<1> QED  BY <1>6, <1>7

\* The use that open finds for the last extent of a bucket fits into it.
LEMMA LastUseIs ==
    ASSUME FileTypes, NEW f \in Nat, NEW e \in ExtentsIn(f), NEW b
    PROVE  LastUse(b, e) \in Nat /\ LastUse(b, e) <= e.size
<1> DEFINE K == KnownEnds(b, e)
           W == {p + dDisk[p].rec.len : p \in Range(Found(e))}
           S == {e.start} \union K \union W
           z == ExtentEnd(e)
           s == e.start
<1>1. e \in ExtentType
  BY ExtentsInIs
<1>2. s \in Nat /\ z \in Nat /\ z = s + e.size /\ e.size \in Nat
  BY <1>1, ExtentFields
<1>3. ASSUME NEW x \in K PROVE x \in Nat /\ s <= x /\ x <= z
  <2>1. PICK id \in KnownIds(b) : /\ iView[id].off >= e.start
                                 /\ iView[id].off + iView[id].len <= ExtentEnd(e)
                                 /\ x = iView[id].off + iView[id].len
    BY DEF KnownEnds
  <2>2. id \in Ids /\ iView[id].st # "empty"
    BY <2>1 DEF KnownIds
  <2> DEFINE o == iView[id].off
             l == iView[id].len
  <2>3. o \in Nat /\ l \in Nat
    BY <2>2, KnownSlots
  <2>4. o >= s /\ o + l <= z /\ x = o + l
    BY <2>1
  <2> HIDE DEF o, l, s, z
  <2> QED  BY <1>2, <2>3, <2>4
<1>4. ASSUME NEW x \in W PROVE x \in Nat /\ s <= x /\ x <= z
  <2>1. PICK p \in Range(Found(e)) : x = p + dDisk[p].rec.len
    OBVIOUS
  <2>2. PICK i \in DOMAIN Found(e) : p = Found(e)[i]
    BY <2>1 DEF Range
  <2>3. i \in 1 .. Len(Found(e))
    BY <2>2, FoundIn
  <2>4. RecordAt(dDisk, p) /\ p \in Nat /\ s <= p /\ x <= z
    BY <2>1, <2>2, <2>3, FoundIn
  <2>5. dDisk[p].rec.len \in Nat
    BY <2>4, BHeadersAre DEF RecordAt, FileTypes
  <2> DEFINE l == dDisk[p].rec.len
  <2> HIDE DEF l, s, z
  <2> QED  BY <1>2, <2>1, <2>4, <2>5 DEF l
<1>5. S \subseteq 0 .. z /\ S # {} /\ \A x \in S : s <= x
  <2> HIDE DEF K, W, z
  <2>1. \A x \in S : x \in Nat /\ s <= x /\ x <= z
    <3>1. s \in Nat /\ s <= s /\ s <= z
      BY <1>2
    <3> QED  BY <1>3, <1>4, <3>1
  <2>2. s \in S
    OBVIOUS
  <2> HIDE DEF S, s
  <2> QED  BY <1>2, <2>1, <2>2
<1>6. LastUse(b, e) = Max(S) - s
  BY DEF LastUse
<1> HIDE DEF S, s, z
<1>7. Max(S) \in S
  BY <1>2, <1>5, MaxIsGreatest
<1>8. Max(S) \in 0 .. z /\ s <= Max(S)
  BY <1>5, <1>7
<1> QED  BY <1>2, <1>6, <1>8

\* The last number in use of region r, by the slots and by the records seen.
SlotsUsed(b, r) == Max({0} \union {id - r.start + 1 : id \in {x \in KnownIds(b) : InRegion(x, r)}})
SeenUsed(seen, r) == Max({0} \union {id - r.start + 1 : id \in {Max(seen \union {0})} \intersect seen})

\* What open finds in use of a region is a number of slots.
LEMMA UseOfRegion ==
    ASSUME NEW b, NEW r \in RegionsIn, NEW seen \in SUBSET Ids
    PROVE  /\ SlotsUsed(b, r) \in Nat /\ SeenUsed(seen, r) \in Nat
           /\ Max({SlotsUsed(b, r), SeenUsed(seen, r)}) \in Nat
<1> DEFINE s == r.start
           S == {0} \union {id - r.start + 1 : id \in {x \in KnownIds(b) : InRegion(x, r)}}
           m == Max(seen \union {0})
           T == {id - r.start + 1 : id \in {Max(seen \union {0})} \intersect seen}
<1>1. s \in Nat /\ region_slots \in Nat
  BY BoundsAre DEF RegionsIn, RawRegion
<1>2. SlotsUsed(b, r) \in Nat
  <2>1. ASSUME NEW x \in S PROVE x \in 0 .. region_slots
    <3>1. CASE x = 0
      BY <1>1, <3>1
    <3>2. CASE x # 0
      <4>1. PICK id \in KnownIds(b) : InRegion(id, r) /\ x = id - r.start + 1
        BY <3>2
      <4>2. id \in Nat /\ id >= s /\ id < s + region_slots /\ x = id - s + 1
        BY <4>1, BoundsAre DEF KnownIds, InRegion
      <4> HIDE DEF s
      <4> QED  BY <1>1, <4>2
    <3> QED  BY <3>1, <3>2
  <2>2. S # {} /\ S \subseteq 0 .. region_slots
    BY <2>1
  <2>3. SlotsUsed(b, r) = Max(S)
    BY DEF SlotsUsed
  <2> HIDE DEF S, s
  <2>4. Max(S) \in S
    BY <1>1, <2>2, MaxIsGreatest
  <2>5. Max(S) \in 0 .. region_slots
    BY <2>2, <2>4
  <2>6. Max(S) \in Nat
    BY <1>1, <2>5
  <2> QED  BY <2>3, <2>6
<1>3. m \in Nat
  <2> DEFINE A == seen \union {0}
  <2>1. A \subseteq 0 .. MaxIds /\ A # {} /\ MaxIds \in Nat
    BY BoundsAre
  <2>2. Max(A) \in A
    <3> HIDE DEF A
    <3> QED  BY <2>1, MaxIsGreatest
  <2> QED  BY <2>1, <2>2
<1>4. T \subseteq {m - s + 1} /\ m - s + 1 \in Int
  <2> HIDE DEF m
  <2>1. T \subseteq {m - s + 1}
    BY DEF m
  <2> QED  BY <1>1, <1>3, <2>1
<1>5. SeenUsed(seen, r) \in Nat
  <2>1. SeenUsed(seen, r) = Max({0} \union T)
    BY DEF SeenUsed
  <2> DEFINE v == m - s + 1
  <2> HIDE DEF T, m, s, v
  <2> QED  BY <1>4, <2>1, MaxOfZero DEF v
<1> DEFINE a == SlotsUsed(b, r)
           c == SeenUsed(seen, r)
<1>6. Max({a, c}) \in Nat
  <2>1. a \in Nat /\ c \in Nat
    BY <1>2, <1>5
  <2> HIDE DEF a, c
  <2> DEFINE A == {a, c}
  <2>2. \E x \in A : \A y \in A : x >= y
    BY <2>1
  <2>3. A \subseteq Nat
    BY <2>1
  <2> HIDE DEF A
  <2>4. PICK x \in A : \A y \in A : x >= y
    BY <2>2
  <2>5. Max(A) \in A
    BY <2>4, MaxOfInts
  <2> QED  BY <2>3, <2>5 DEF A
<1> QED  BY <1>2, <1>5, <1>6

\* The heap is open to calls.
CallPlaces == {"idle", "slot_read", "record_read", "alloc", "slot_stage", "commit_registry",
               "commit_data", "commit_index"}

\* Places of calls are no places of an open or of a rebuild.
LEMMA UpIs ==
    /\ Up <=> hpc \in CallPlaces
    /\ \A x \in CallPlaces : x \in Places /\ x \notin Closed /\ x \notin {"recover", "restore"}
    /\ Up' <=> hpc' \in CallPlaces
BY DEF Up, CallPlaces, Places, Closed

\* A step of a heap call that leaves the allocator alone.
LEMMA CallQuiet ==
    ASSUME BTypes, pc \in {"idle", "panicked"}, Up, hpc' \in CallPlaces, hpc' # "alloc",
           UNCHANGED allocator, pc' = "idle", placed' = <<>>, numbers' \in Seq(Ids),
           UNCHANGED upd, ops' \in Nat,
           FileTypes', OpTypes', rDisk' \in [1 .. MaxRows -> FileRows(allocEnd)],
           rDone' \in 0 .. Len(rows),
           hpc' \in {"slot_read", "record_read"} /\ op'.kind = "update" => Room(3)
    PROVE  BTypes'
<1>1. /\ order' = order /\ ext' = ext /\ reg' = reg /\ grantCount' = grantCount
      /\ fileSize' = fileSize /\ allocEnd' = allocEnd /\ nextRegion' = nextRegion /\ rows' = rows
  BY DEF allocator
<1>2. hpc' \in Places /\ hpc' \notin Closed /\ hpc' \notin {"recover", "restore"}
  BY UpIs
<1>3. RegistryTypes'
  <2>1. rDisk' \in [1 .. MaxRows -> RowsIn(allocEnd)' \union {NoRow, BadRow}]
    BY <1>1 DEF FileRows, RowsIn
  <2>2. rows' \in Seq(RowsIn(allocEnd)') /\ Len(rows') <= MaxRows
    BY <1>1 DEF BTypes, RegistryTypes, RowsIn
  <2> QED  BY <1>1, <1>2, <2>1, <2>2, Zenon DEF RegistryTypes, RowsIn
<1>4. AllocTypes'
  BY <1>1, Zenon DEF BTypes, AllocTypes, ExtentsIn, RegionsIn
<1>5. OwnersHoused'
  <2>1. \A i \in DOMAIN ext : HasRegion(reg, ext[i].owner)
    BY DEF BTypes, OwnersHoused
  <2>2. hpc' # "restore"
    BY <1>2
  <2> QED  BY <1>1, <1>2, <2>1, <2>2, Zenon DEF OwnersHoused, HasRegion
<1>6. RoomLeft'
  BY <1>1 DEF RoomLeft, Room
<1>7. CallTypes'
  <2>1. placed' \in Seq([off : Cells, len : Lens])
    BY DEF BTypes, CallTypes
  <2> QED  BY <1>1, <2>1 DEF CallTypes, Active
<1>8. UpdTypes'
  BY DEF BTypes, UpdTypes
<1> QED  BY <1>2, <1>3, <1>4, <1>5, <1>6, <1>7, <1>8 DEF BTypes

\* The process is gone, and what is in the files is as before or torn.
LEMMA GoneStep ==
    ASSUME BTypes, LoseMemory, hpc' \in {"down", "dead"}, ops' = ops,
           dDisk' \in [Cells -> BCells], iDisk' \in [Ids -> BSlots],
           rDisk' \in [1 .. MaxRows -> FileRows(allocEnd)]
    PROVE  BTypes'
<1>1. /\ order' = <<>> /\ ext' = <<>> /\ reg' = <<>> /\ rows' = <<>>
      /\ grantCount' = 0 /\ nextRegion' = 0 /\ fileSize' = initial_size /\ allocEnd' = allocEnd
      /\ pc' = "idle" /\ placed' = <<>> /\ numbers' = <<>>
      /\ dRuns' = <<>> /\ iRuns' = <<>> /\ rDone' = 0 /\ at' = 0 /\ upd' = <<>>
  BY DEF LoseMemory
<1>2. hpc' \in Places /\ hpc' \in Closed /\ hpc' \notin CallPlaces
  BY DEF Places, Closed, CallPlaces
<1>3. \A V : <<>> \in Seq(V) /\ DOMAIN <<>> = {} /\ Len(<<>>) = 0
  OBVIOUS
<1>4. FileTypes'
  BY <1>1, NoRuns, Zenon DEF FileTypes
<1>5. RegistryTypes'
  <2>1. rDisk' \in [1 .. MaxRows -> RowsIn(allocEnd)' \union {NoRow, BadRow}]
    BY <1>1 DEF FileRows, RowsIn
  <2>2. rows' \in Seq(RowsIn(allocEnd)') /\ Len(rows') = 0
    BY <1>1, <1>3
  <2>3. Len(rows') <= MaxRows /\ rDone' \in 0 .. Len(rows')
    BY <1>1, <2>2, BoundsAre
  <2> QED  BY <1>1, <2>1, <2>2, <2>3, Zenon DEF RegistryTypes, RowsIn
<1>6. AllocTypes'
  <2>1. allocEnd \in Nat /\ allocEnd <= MaxCell /\ allocEnd % PAGE = 0 /\ initial_size <= allocEnd
    <3>1. /\ fileSize \in Nat /\ initial_size <= fileSize /\ fileSize <= allocEnd
          /\ allocEnd \in Nat /\ allocEnd <= MaxCell /\ allocEnd % PAGE = 0
      BY DEF BTypes, AllocTypes
    <3> QED  BY <3>1, BoundsAre
  <2>2. initial_size \in Nat /\ initial_size <= initial_size /\ 0 \in Nat
    BY BoundsAre
  <2> QED  BY <1>1, <1>3, <2>1, <2>2, Zenon DEF AllocTypes
<1>7. OwnersHoused'
  <2>1. ~Up' /\ hpc' \notin {"recover", "restore"} /\ hpc' # "restore"
    BY <1>2, UpIs
  <2> QED  BY <2>1 DEF OwnersHoused
<1>8. RoomLeft'
  BY <1>1 DEF RoomLeft
<1>9. CallTypes'
  <2>1. ops' \in Nat /\ hpc' # "alloc"
    BY DEF BTypes, CallTypes
  <2> QED  BY <1>1, <1>3, <2>1 DEF CallTypes, Active
<1>10. OpTypes'
  <2>1. op' = NoOp
    BY DEF LoseMemory
  <2>2. DOMAIN op' = OpFields
    BY <2>1 DEF NoOp, OpFields
  <2> QED  BY <2>2 DEF OpTypes
<1>11. UpdTypes'
  BY <1>1, <1>3 DEF UpdTypes
<1> QED  BY <1>2, <1>4, <1>5, <1>6, <1>7, <1>8, <1>9, <1>10, <1>11 DEF BTypes

\* A step outside of calls and of the recovery of the buckets.
LEMMA ClosedStep ==
    ASSUME BTypes, hpc \in Closed, hpc' \in Closed,
           UNCHANGED <<order, ext, reg, grantCount, fileSize, allocEnd, nextRegion>>,
           UNCHANGED <<pc, call, placed, numbers>>, UNCHANGED <<rDone, ops, op>>,
           rows' \in Seq(RowsIn(allocEnd)), Len(rows') <= MaxRows,
           FileTypes', UpdTypes', rDisk' \in [1 .. MaxRows -> FileRows(allocEnd)]
    PROVE  BTypes'
<1>1. /\ order' = order /\ ext' = ext /\ reg' = reg /\ grantCount' = grantCount
      /\ fileSize' = fileSize /\ allocEnd' = allocEnd /\ nextRegion' = nextRegion
      /\ pc' = pc /\ call' = call /\ placed' = placed /\ numbers' = numbers
      /\ rDone' = rDone /\ ops' = ops
  OBVIOUS
<1>2. /\ hpc' \in Places /\ hpc' \notin CallPlaces /\ hpc \notin CallPlaces
      /\ hpc' \notin {"recover", "restore"}
  BY DEF Places, Closed, CallPlaces
<1>3. /\ hpc' # "alloc" /\ hpc # "alloc" /\ hpc' # "restore"
      /\ hpc' \notin {"slot_read", "record_read", "slot_stage"}
  BY <1>2 DEF CallPlaces
<1>4. pc = "idle" /\ placed = <<>> /\ rDone = 0 /\ numbers \in Seq(Ids) /\ ops \in Nat
  BY <1>3 DEF BTypes, CallTypes, RegistryTypes
<1>5. RegistryTypes'
  <2>1. rDisk' \in [1 .. MaxRows -> RowsIn(allocEnd)' \union {NoRow, BadRow}]
    BY <1>1 DEF FileRows, RowsIn
  <2>2. rows' \in Seq(RowsIn(allocEnd)')
    BY <1>1 DEF RowsIn
  <2>3. rDone' \in 0 .. Len(rows')
    BY <1>1, <1>4
  <2> QED  BY <1>1, <1>4, <2>1, <2>2, <2>3, Zenon DEF RegistryTypes, RowsIn
<1>6. AllocTypes'
  BY <1>1, Zenon DEF BTypes, AllocTypes, ExtentsIn, RegionsIn
<1>7. OwnersHoused'
  <2>1. ~Up'
    BY <1>2, UpIs
  <2> QED  BY <1>2, <1>3, <2>1 DEF OwnersHoused
<1>8. RoomLeft'
  BY <1>1, <1>3, <1>4 DEF RoomLeft
<1>9. CallTypes'
  BY <1>1, <1>3, <1>4 DEF CallTypes, Active
<1>10. OpTypes'
  BY <1>3 DEF BTypes, OpTypes
<1> QED  BY <1>2, <1>5, <1>6, <1>7, <1>8, <1>9, <1>10 DEF BTypes

\* Between calls and after an error the allocator is at rest.
LEMMA AtRest ==
    ASSUME BTypes, hpc # "alloc"
    PROVE  pc = "idle" /\ placed = <<>> /\ numbers \in Seq(Ids) /\ ops \in Nat
BY DEF BTypes, CallTypes

\* What a flush of each of the three files writes has the type of the file.
LEMMA FlushTypes ==
    ASSUME BTypes
    PROVE  /\ dView \in [Cells -> BCells] /\ iView \in [Ids -> BSlots]
           /\ dDisk \in [Cells -> BCells] /\ iDisk \in [Ids -> BSlots]
           /\ dRuns \in Seq(Runs(BCells)) /\ iRuns \in Seq(Runs(BSlots))
           /\ rView \in [1 .. MaxRows -> FileRows(allocEnd)]
           /\ rDisk \in [1 .. MaxRows -> FileRows(allocEnd)]
           /\ <<>> \in Seq(Runs(BCells)) /\ <<>> \in Seq(Runs(BSlots))
           /\ rDone \in 0 .. Len(rows) /\ Len(rows) \in 0 .. Len(rows) /\ Len(rows) \in Nat
<1>1. FileTypes /\ RegistryTypes
  BY DEF BTypes
<1>2. dView \in [Cells -> BCells] /\ iView \in [Ids -> BSlots]
  BY <1>1, BViewTypes
<1>3. rView \in [1 .. MaxRows -> FileRows(allocEnd)] /\ rDisk \in [1 .. MaxRows -> FileRows(allocEnd)]
  BY <1>1, RegistryViews
<1>4. rDone \in 0 .. Len(rows) /\ Len(rows) \in 0 .. Len(rows) /\ Len(rows) \in Nat
  <2>1. rows \in Seq(RowsIn(allocEnd)) /\ rDone \in 0 .. Len(rows)
    BY <1>1 DEF RegistryTypes
  <2>2. Len(rows) \in Nat
    BY <2>1
  <2> QED  BY <2>1, <2>2
<1> QED  BY <1>1, <1>2, <1>3, <1>4, NoRuns DEF FileTypes

\* The variables of the allocator, one by one.
LEMMA Unchanged ==
    UNCHANGED vars <=> /\ UNCHANGED allocator
                       /\ pc' = pc /\ call' = call /\ placed' = placed /\ numbers' = numbers
BY DEF vars, history

\* The fields of a call.
LEMMA NoOpIs ==
    /\ DOMAIN NoOp = OpFields /\ NoOp.kind = "none"
    /\ \A k : LET o == [NoOp EXCEPT !.kind = k] IN DOMAIN o = OpFields /\ o.kind = k
    /\ \A k, i, l : LET o == [NoOp EXCEPT !.kind = k, !.id = i, !.len = l]
                    IN  DOMAIN o = OpFields /\ o.kind = k /\ o.id = i /\ o.len = l
    /\ \A b, l : LET o == [NoOp EXCEPT !.kind = "insert", !.bucket = b, !.len = l, !.ver = 1]
                 IN  /\ DOMAIN o = OpFields /\ o.kind = "insert" /\ o.bucket = b /\ o.len = l
                     /\ o.ver = 1
BY DEF NoOp, OpFields

\* The fields of a call after an assignment to some.
LEMMA OpWith ==
    ASSUME NEW o, DOMAIN o = OpFields, NEW s, NEW i, NEW b, NEW v
    PROVE  /\ LET p == [o EXCEPT !.slot = s]
              IN  /\ DOMAIN p = OpFields /\ p.slot = s /\ p.id = o.id /\ p.kind = o.kind
                  /\ p.len = o.len
           /\ LET p == [o EXCEPT !.id = i, !.slot = s]
              IN  /\ DOMAIN p = OpFields /\ p.slot = s /\ p.id = i /\ p.kind = o.kind
                  /\ p.len = o.len
           /\ LET p == [o EXCEPT !.bucket = b, !.ver = v]
              IN  /\ DOMAIN p = OpFields /\ p.bucket = b /\ p.ver = v /\ p.kind = o.kind
                  /\ p.id = o.id /\ p.len = o.len
BY DEF OpFields

\* Slots that a call stages.
LEMMA SlotsAre ==
    /\ \A off \in Cells, len \in Lens : Live(off, len) \in BSlots /\ Live(off, len) # Empty
    /\ \A s \in BSlots : s # Empty => Tombstone(s) \in BSlots /\ Tombstone(s) # Empty
    /\ \A s \in BSlots : s.st = "live" => s # Empty
<1>1. \A off \in Cells, len \in Lens : Live(off, len) \in BSlots /\ Live(off, len) # Empty
  BY DEF BSlots, Live, Empty
<1>2. ASSUME NEW s \in BSlots, s # Empty PROVE Tombstone(s) \in BSlots /\ Tombstone(s) # Empty
  <2>1. s \in [st : {"live", "deleted"}, off : Cells, len : Lens]
    BY <1>2 DEF BSlots
  <2>2. /\ Tombstone(s) \in [st : {"live", "deleted"}, off : Cells, len : Lens]
        /\ Tombstone(s).st = "deleted"
    BY <2>1 DEF Tombstone
  <2> QED  BY <2>2 DEF BSlots, Empty
<1>3. \A s \in BSlots : s.st = "live" => s # Empty
  BY DEF Empty
<1> QED  BY <1>1, <1>2, <1>3

\* read, update and delete begin.
LEMMA BeginStep ==
    ASSUME BTypes, NEW kind \in {"read", "update", "delete"}, NEW id \in Ids, NEW len,
           kind = "update" => len \in Lens, Begin(kind, id, len)
    PROVE  BTypes'
<1>1. /\ hpc = "idle" /\ hpc' = "slot_read" /\ op' = [NoOp EXCEPT !.kind = kind, !.id = id, !.len = len]
      /\ UNCHANGED vars /\ UNCHANGED <<dDisk, iDisk, rDisk>> /\ UNCHANGED <<dRuns, iRuns, rDone>>
      /\ upd' = upd /\ ops' = ops
      /\ kind # "read" => RoomFor(len)
  BY DEF Begin, files, staged, opening, heapHistory
<1>2. Up /\ hpc' \in CallPlaces /\ hpc' # "alloc"
  BY <1>1, UpIs DEF CallPlaces
<1>3. pc = "idle" /\ placed = <<>> /\ numbers \in Seq(Ids) /\ ops \in Nat
  BY <1>1, AtRest
<1>4. UNCHANGED allocator /\ pc' = "idle" /\ placed' = <<>> /\ numbers' \in Seq(Ids) /\ ops' \in Nat
  BY <1>1, <1>3, Unchanged
<1>5. FileTypes'
  BY <1>1 DEF BTypes, FileTypes
<1>6. op'.kind = kind /\ op'.id = id /\ op'.len = len /\ DOMAIN op' = OpFields
  BY <1>1, NoOpIs
<1>7. OpTypes'
  BY <1>1, <1>6 DEF OpTypes
<1>8. op'.kind = "update" => Room(3)
  BY <1>1, <1>6 DEF RoomFor, Room
<1> QED  BY <1>1, <1>2, <1>3, <1>4, <1>5, <1>7, <1>8, FlushTypes, CallQuiet

\* The slot of a call is read: it goes on with a slot that is not empty.
LEMMA ReadSlotStep ==
    ASSUME BTypes, ReadSlot
    PROVE  BTypes'
<1> DEFINE slot == iView[op.id]
<1>1. /\ hpc = "slot_read" /\ iDisk' = iView /\ iRuns' = <<>>
      /\ \/ Returns
         \/ /\ slot.st = "live" /\ op.kind = "delete"
            /\ hpc' = "slot_stage" /\ op' = [op EXCEPT !.slot = Tombstone(slot)]
         \/ /\ slot.st = "live" /\ op.kind # "delete"
            /\ hpc' = "record_read" /\ op' = [op EXCEPT !.slot = slot]
      /\ UNCHANGED vars /\ UNCHANGED <<dDisk, rDisk>> /\ UNCHANGED <<dRuns, rDone>>
      /\ upd' = upd /\ ops' = ops
  BY DEF ReadSlot, FlushIndex, opening, heapHistory
<1>2. Up /\ hpc' \in CallPlaces /\ hpc' # "alloc"
  BY <1>1, UpIs DEF CallPlaces, Returns
<1>3. pc = "idle" /\ placed = <<>> /\ numbers \in Seq(Ids) /\ ops \in Nat
  BY <1>1, AtRest
<1>4. UNCHANGED allocator /\ pc' = "idle" /\ placed' = <<>> /\ numbers' \in Seq(Ids) /\ ops' \in Nat
  BY <1>1, <1>3, Unchanged
<1>5. FileTypes'
  BY <1>1, FlushTypes DEF FileTypes
<1>6. op.id \in Ids /\ op.kind \in {"read", "update", "delete"} /\ (op.kind = "update" => op.len \in Lens)
      /\ DOMAIN op = OpFields
  BY <1>1 DEF BTypes, OpTypes
<1>7. slot \in BSlots
  BY <1>6, FlushTypes
<1> HIDE DEF slot
<1>8. op.kind = "update" => Room(3)
  BY <1>1 DEF BTypes, RoomLeft
<1>9. OpTypes' /\ (hpc' = "record_read" => op'.kind = op.kind) /\ hpc' # "slot_read"
  <2>1. CASE Returns
    BY <2>1, NoOpIs DEF OpTypes, Returns
  <2>2. CASE /\ slot.st = "live" /\ op.kind = "delete"
             /\ hpc' = "slot_stage" /\ op' = [op EXCEPT !.slot = Tombstone(slot)]
    <3> DEFINE t == Tombstone(slot)
    <3>1. t \in BSlots /\ t # Empty
      BY <1>7, <2>2, SlotsAre
    <3> HIDE DEF t
    <3>2. op'.id = op.id /\ op'.kind = op.kind /\ op'.len = op.len /\ op'.slot = t /\ DOMAIN op' = OpFields
      BY <1>6, <2>2, OpWith DEF t
    <3> QED  BY <1>6, <2>2, <3>1, <3>2 DEF OpTypes
  <2>3. CASE /\ slot.st = "live" /\ op.kind # "delete"
             /\ hpc' = "record_read" /\ op' = [op EXCEPT !.slot = slot]
    <3>1. slot # Empty
      BY <1>7, <2>3, SlotsAre
    <3>2. op'.id = op.id /\ op'.kind = op.kind /\ op'.len = op.len /\ op'.slot = slot /\ DOMAIN op' = OpFields
      BY <1>6, <2>3, OpWith
    <3> QED  BY <1>6, <1>7, <2>3, <3>1, <3>2 DEF OpTypes
  <2> QED  BY <1>1, <2>1, <2>2, <2>3
<1> QED  BY <1>1, <1>2, <1>3, <1>4, <1>5, <1>8, <1>9, FlushTypes, CallQuiet

\* A read ends.
LEMMA ReadRecordStep ==
    ASSUME BTypes, ReadRecord
    PROVE  BTypes'
<1>1. /\ hpc = "record_read" /\ dDisk' = dView /\ dRuns' = <<>> /\ hpc' = "idle" /\ op' = NoOp
      /\ UNCHANGED vars /\ UNCHANGED <<iDisk, rDisk>> /\ UNCHANGED <<iRuns, rDone>>
      /\ upd' = upd /\ ops' = ops
  BY DEF ReadRecord, FlushData, Returns, opening, heapHistory
<1>2. Up /\ hpc' \in CallPlaces /\ hpc' # "alloc"
  BY <1>1, UpIs DEF CallPlaces
<1>3. pc = "idle" /\ placed = <<>> /\ numbers \in Seq(Ids) /\ ops \in Nat
  BY <1>1, AtRest
<1>4. UNCHANGED allocator /\ pc' = "idle" /\ placed' = <<>> /\ numbers' \in Seq(Ids) /\ ops' \in Nat
  BY <1>1, <1>3, Unchanged
<1>5. FileTypes'
  BY <1>1, FlushTypes DEF FileTypes
<1>6. OpTypes'
  BY <1>1, NoOpIs DEF OpTypes
<1> QED  BY <1>1, <1>2, <1>3, <1>4, <1>5, <1>6, FlushTypes, CallQuiet

\* A call ends after an error of the allocator.
LEMMA AllocFailsStep ==
    ASSUME BTypes, AllocFails
    PROVE  BTypes'
<1>1. /\ hpc = "alloc" /\ pc = "idle" /\ placed = <<>> /\ hpc' = "idle" /\ op' = NoOp
      /\ UNCHANGED vars /\ UNCHANGED <<dDisk, iDisk, rDisk>> /\ UNCHANGED <<dRuns, iRuns, rDone>>
      /\ upd' = upd /\ ops' = ops
  BY DEF AllocFails, Returns, files, staged, opening, heapHistory
<1>2. Up /\ hpc' \in CallPlaces /\ hpc' # "alloc"
  BY <1>1, UpIs DEF CallPlaces
<1>3. numbers \in Seq(Ids) /\ ops \in Nat
  BY DEF BTypes, CallTypes
<1>4. UNCHANGED allocator /\ pc' = "idle" /\ placed' = <<>> /\ numbers' \in Seq(Ids) /\ ops' \in Nat
  BY <1>1, <1>3, Unchanged
<1>5. FileTypes'
  BY <1>1 DEF BTypes, FileTypes
<1>6. OpTypes'
  BY <1>1, NoOpIs DEF OpTypes
<1> QED  BY <1>1, <1>2, <1>3, <1>4, <1>5, <1>6, FlushTypes, CallQuiet

\* A panic of the allocator turns into the flush of Drop.
LEMMA UnwindStep ==
    ASSUME BTypes, Unwind
    PROVE  BTypes'
<1>1. /\ hpc = "alloc" /\ pc = "panicked" /\ pc' = "idle" /\ hpc' = "commit_registry"
      /\ op' = [NoOp EXCEPT !.kind = "close"]
      /\ UNCHANGED allocator /\ UNCHANGED <<placed, numbers>>
      /\ UNCHANGED <<dDisk, iDisk, rDisk>> /\ UNCHANGED <<dRuns, iRuns, rDone>>
      /\ upd' = upd /\ ops' = ops
  BY DEF Unwind, history, files, staged, opening, heapHistory
<1>2. Up /\ hpc' \in CallPlaces /\ hpc' # "alloc"
  BY <1>1, UpIs DEF CallPlaces
<1>3. numbers \in Seq(Ids) /\ ops \in Nat /\ placed = <<>>
  BY <1>1 DEF BTypes, CallTypes
<1>4. placed' = <<>> /\ numbers' \in Seq(Ids) /\ ops' \in Nat
  BY <1>1, <1>3
<1>5. FileTypes'
  BY <1>1 DEF BTypes, FileTypes
<1>6. OpTypes'
  BY <1>1, NoOpIs DEF OpTypes
<1> QED  BY <1>1, <1>2, <1>4, <1>5, <1>6, FlushTypes, CallQuiet

\* flush and close begin.
LEMMA BeginFlushStep ==
    ASSUME BTypes, NEW kind, BeginFlush(kind)
    PROVE  BTypes'
<1>1. /\ hpc = "idle" /\ hpc' = "commit_registry" /\ op' = [NoOp EXCEPT !.kind = kind]
      /\ UNCHANGED vars /\ UNCHANGED <<dDisk, iDisk, rDisk>> /\ UNCHANGED <<dRuns, iRuns, rDone>>
      /\ upd' = upd /\ ops' = ops
  BY DEF BeginFlush, files, staged, opening, heapHistory
<1>2. Up /\ hpc' \in CallPlaces /\ hpc' # "alloc"
  BY <1>1, UpIs DEF CallPlaces
<1>3. pc = "idle" /\ placed = <<>> /\ numbers \in Seq(Ids) /\ ops \in Nat
  BY <1>1, AtRest
<1>4. UNCHANGED allocator /\ pc' = "idle" /\ placed' = <<>> /\ numbers' \in Seq(Ids) /\ ops' \in Nat
  BY <1>1, <1>3, Unchanged
<1>5. FileTypes'
  BY <1>1 DEF BTypes, FileTypes
<1>6. OpTypes'
  BY <1>1, NoOpIs DEF OpTypes
<1> QED  BY <1>1, <1>2, <1>3, <1>4, <1>5, <1>6, FlushTypes, CallQuiet

\* A slot is staged.
LEMMA SlotStageStep ==
    ASSUME BTypes, SlotStage
    PROVE  BTypes'
<1>1. /\ hpc = "slot_stage" /\ StageSlot(op.id, op.slot)
      /\ (hpc' = "commit_registry" /\ op' = op) \/ Returns
      /\ UNCHANGED vars /\ UNCHANGED <<dDisk, rDisk>> /\ UNCHANGED <<dRuns, rDone>>
      /\ upd' = upd /\ ops' = ops + 1
  BY DEF SlotStage, opening
<1>2. Up /\ hpc' \in CallPlaces /\ hpc' # "alloc" /\ hpc' \notin {"slot_read", "record_read"}
  BY <1>1, UpIs DEF CallPlaces, Returns
<1>3. pc = "idle" /\ placed = <<>> /\ numbers \in Seq(Ids) /\ ops \in Nat
  BY <1>1, AtRest
<1>4. UNCHANGED allocator /\ pc' = "idle" /\ placed' = <<>> /\ numbers' \in Seq(Ids) /\ ops' \in Nat
  BY <1>1, <1>3, Unchanged
<1>5. op.id \in Ids /\ op.slot \in BSlots /\ DOMAIN op = OpFields
  BY <1>1 DEF BTypes, OpTypes
<1>6. iDisk' \in [Ids -> BSlots] /\ iRuns' \in Seq(Runs(BSlots))
  BY <1>1, <1>5, StageSlotTypes DEF BTypes
<1>7. FileTypes'
  BY <1>1, <1>6, FlushTypes DEF FileTypes
<1>8. OpTypes'
  BY <1>1, <1>2, <1>5, NoOpIs DEF OpTypes, Returns
<1> QED  BY <1>1, <1>2, <1>3, <1>4, <1>7, <1>8, FlushTypes, CallQuiet

\* commit flushes the registry.
LEMMA CommitRegistryStep ==
    ASSUME BTypes, CommitRegistry
    PROVE  BTypes'
<1>1. /\ hpc = "commit_registry" /\ rDisk' = rView /\ rDone' = Len(rows) /\ hpc' = "commit_data"
      /\ UNCHANGED vars /\ UNCHANGED <<dDisk, iDisk>> /\ UNCHANGED <<dRuns, iRuns>>
      /\ upd' = upd /\ ops' = ops /\ op' = op
  BY DEF CommitRegistry, FlushRegistry, opening, heapHistory
<1>2. Up /\ hpc' \in CallPlaces /\ hpc' # "alloc"
  BY <1>1, UpIs DEF CallPlaces
<1>3. pc = "idle" /\ placed = <<>> /\ numbers \in Seq(Ids) /\ ops \in Nat
  BY <1>1, AtRest
<1>4. UNCHANGED allocator /\ pc' = "idle" /\ placed' = <<>> /\ numbers' \in Seq(Ids) /\ ops' \in Nat
  BY <1>1, <1>3, Unchanged
<1>5. FileTypes'
  BY <1>1 DEF BTypes, FileTypes
<1>6. OpTypes'
  BY <1>1 DEF BTypes, OpTypes
<1> QED  BY <1>1, <1>2, <1>3, <1>4, <1>5, <1>6, FlushTypes, CallQuiet

\* commit flushes the data file.
LEMMA CommitDataStep ==
    ASSUME BTypes, CommitData
    PROVE  BTypes'
<1>1. /\ hpc = "commit_data" /\ dDisk' = dView /\ dRuns' = <<>> /\ hpc' = "commit_index"
      /\ UNCHANGED vars /\ UNCHANGED <<iDisk, rDisk>> /\ UNCHANGED <<iRuns, rDone>>
      /\ upd' = upd /\ ops' = ops /\ op' = op
  BY DEF CommitData, FlushData, opening, heapHistory
<1>2. Up /\ hpc' \in CallPlaces /\ hpc' # "alloc"
  BY <1>1, UpIs DEF CallPlaces
<1>3. pc = "idle" /\ placed = <<>> /\ numbers \in Seq(Ids) /\ ops \in Nat
  BY <1>1, AtRest
<1>4. UNCHANGED allocator /\ pc' = "idle" /\ placed' = <<>> /\ numbers' \in Seq(Ids) /\ ops' \in Nat
  BY <1>1, <1>3, Unchanged
<1>5. FileTypes'
  BY <1>1, FlushTypes DEF FileTypes
<1>6. OpTypes'
  BY <1>1 DEF BTypes, OpTypes
<1> QED  BY <1>1, <1>2, <1>3, <1>4, <1>5, <1>6, FlushTypes, CallQuiet

\* commit flushes the index; a close forgets the rest.
LEMMA CommitIndexStep ==
    ASSUME BTypes, CommitIndex
    PROVE  BTypes'
<1>1. hpc = "commit_index" /\ iDisk' = iView /\ UNCHANGED <<dDisk, rDisk>> /\ ops' = ops
  BY DEF CommitIndex
<1>2. CASE op.kind = "close"
  <2>1. hpc' = "down" /\ LoseMemory
    BY <1>2 DEF CommitIndex
  <2> QED  BY <1>1, <2>1, FlushTypes, GoneStep
<1>3. CASE op.kind # "close"
  <2>1. /\ hpc' = "idle" /\ op' = NoOp /\ iRuns' = <<>>
        /\ UNCHANGED vars /\ dRuns' = dRuns /\ rDone' = rDone /\ upd' = upd
    BY <1>3 DEF CommitIndex, Returns, opening
  <2>2. Up /\ hpc' \in CallPlaces /\ hpc' # "alloc"
    BY <1>1, <2>1, UpIs DEF CallPlaces
  <2>3. pc = "idle" /\ placed = <<>> /\ numbers \in Seq(Ids) /\ ops \in Nat
    BY <1>1, AtRest
  <2>4. UNCHANGED allocator /\ pc' = "idle" /\ placed' = <<>> /\ numbers' \in Seq(Ids) /\ ops' \in Nat
    BY <1>1, <2>1, <2>3, Unchanged
  <2>5. FileTypes'
    BY <1>1, <2>1, FlushTypes DEF FileTypes
  <2>6. OpTypes'
    BY <2>1, NoOpIs DEF OpTypes
  <2> QED  BY <1>1, <2>1, <2>2, <2>3, <2>4, <2>5, <2>6, FlushTypes, CallQuiet
<1> QED  BY <1>2, <1>3

\* A kill leaves torn files, and nothing else.
LEMMA KillStep ==
    ASSUME BTypes, Kill
    PROVE  BTypes'
<1>1. /\ dDisk' \in DataTorn /\ iDisk' \in IndexTorn /\ rDisk' \in RegistryTorn
      /\ hpc' = "down" /\ LoseMemory /\ ops' = ops
  BY DEF Kill
<1>2. FileTypes /\ RegistryTypes
  BY DEF BTypes
<1>3. dDisk' \in [Cells -> BCells] /\ iDisk' \in [Ids -> BSlots]
  BY <1>1, <1>2, TornTypes
<1>4. rDisk' \in [1 .. MaxRows -> FileRows(allocEnd)]
  BY <1>1, <1>2, RegistryViews
<1> QED  BY <1>1, <1>3, <1>4, GoneStep

\* The last step of a rebuild.
LEMMA RebuildRowsStep ==
    ASSUME BTypes, RebuildRows
    PROVE  BTypes'
<1>1. /\ rDisk' = rView /\ hpc' = "down" /\ LoseMemory /\ ops' = ops
      /\ UNCHANGED <<dDisk, iDisk>>
  BY DEF RebuildRows, heapHistory
<1> QED  BY <1>1, FlushTypes, GoneStep

\* A step outside of calls that leaves the registry of the process alone.
LEMMA ClosedQuiet ==
    ASSUME BTypes, hpc \in Closed, hpc' \in Closed, UNCHANGED vars, UNCHANGED <<rDone, ops, op>>,
           FileTypes', UpdTypes', rDisk' \in [1 .. MaxRows -> FileRows(allocEnd)]
    PROVE  BTypes'
<1>1. /\ UNCHANGED <<order, ext, reg, grantCount, fileSize, allocEnd, nextRegion>>
      /\ UNCHANGED <<pc, call, placed, numbers>> /\ rows' = rows
  BY DEF vars, allocator, history
<1>2. rows' \in Seq(RowsIn(allocEnd)) /\ Len(rows') <= MaxRows
  BY <1>1 DEF BTypes, RegistryTypes
<1> QED  BY <1>1, <1>2, ClosedStep

\* Where no call and no recovery of buckets is running.
LEMMA ClosedAre ==
    /\ "down" \in Closed /\ "dead" \in Closed /\ "rebuild_header" \in Closed
    /\ "rebuild_index" \in Closed /\ "rebuild_registry" \in Closed /\ "rebuild_rows" \in Closed
BY DEF Closed

\* Files that are created anew.
LEMMA BlankFiles ==
    /\ [id \in Ids |-> Empty] \in [Ids -> BSlots]
    /\ [n \in 1 .. MaxRows |-> NoRow] \in [1 .. MaxRows -> FileRows(allocEnd)]
BY DEF BSlots, FileRows

\* An open that panicked may be tried again.
LEMMA OpenAgainStep ==
    ASSUME BTypes, OpenAgain
    PROVE  BTypes'
<1>1. /\ hpc = "dead" /\ hpc' = "down"
      /\ UNCHANGED vars /\ UNCHANGED <<dDisk, iDisk, rDisk>> /\ UNCHANGED <<dRuns, iRuns>>
      /\ UNCHANGED <<rDone, ops, op>> /\ upd' = upd
  BY DEF OpenAgain, files, staged, opening, heapHistory
<1>2. FileTypes' /\ UpdTypes'
  BY <1>1 DEF BTypes, FileTypes, UpdTypes
<1> QED  BY <1>1, <1>2, ClosedAre, FlushTypes, ClosedQuiet

\* A rebuild begins with the newest versions that the walk finds.
LEMMA BeginRebuildStep ==
    ASSUME BTypes, BeginRebuild
    PROVE  BTypes'
<1>1. /\ hpc = "down" /\ hpc' = "rebuild_header" /\ iDisk' = [id \in Ids |-> Empty]
      /\ upd' = Latest(dDisk, AllRecords)
      /\ UNCHANGED vars /\ UNCHANGED <<dDisk, rDisk>> /\ UNCHANGED <<dRuns, iRuns>>
      /\ UNCHANGED <<rDone, ops, op>>
  BY DEF BeginRebuild, staged
<1>2. FileTypes'
  BY <1>1, FlushTypes, BlankFiles DEF FileTypes
<1>3. Latest(dDisk, AllRecords) \in Founds
  <2>1. dDisk \in [Cells -> BCells]
    BY FlushTypes
  <2>2. DataFile(dDisk, Cells) /\ Cells \subseteq Nat /\ PAGE \in Nat
    BY <2>1, BHeadersAre, BoundsAre
  <2>3. allocEnd \in Nat /\ PAGE <= allocEnd
    <3>1. fileSize \in Nat /\ initial_size <= fileSize /\ fileSize <= allocEnd /\ allocEnd \in Nat
      BY DEF BTypes, AllocTypes
    <3> QED  BY <3>1, BoundsAre
  <2>4. AllFrom(dDisk, PAGE, allocEnd, AllRecords)
    BY <2>2, <2>3, WalkAllFinds DEF AllRecords
  <2>5. /\ AllRecords \in Seq(Nat)
        /\ \A i \in 1 .. Len(AllRecords) : HeaderAt(dDisk, AllRecords[i])
    BY <2>4 DEF AllFrom, RecordAt
  <2>6. NewestOf(Latest(dDisk, AllRecords), dDisk, AllRecords, Len(AllRecords))
    BY <2>1, <2>5, LatestIs
  <2> QED  BY <2>6 DEF NewestOf
<1>4. UpdTypes'
  <2>1. upd' \in Founds
    BY <1>1, <1>3
  <2>2. DOMAIN upd' \subseteq Ids /\ \A id \in DOMAIN upd' : upd'[id].off \in Cells /\ upd'[id].len \in Lens
    BY <2>1, LatestUpd
  <2> QED  BY <2>2 DEF UpdTypes
<1> QED  BY <1>1, <1>2, <1>4, ClosedAre, FlushTypes, ClosedQuiet

\* The rebuilt index gets its header.
LEMMA RebuildHeaderStep ==
    ASSUME BTypes, RebuildHeader
    PROVE  BTypes'
<1>1. /\ hpc = "rebuild_header" /\ hpc' = "rebuild_index"
      /\ UNCHANGED vars /\ UNCHANGED <<dDisk, iDisk, rDisk>> /\ UNCHANGED <<dRuns, iRuns>>
      /\ UNCHANGED <<rDone, ops, op>> /\ upd' = upd
  BY DEF RebuildHeader, staged, opening, heapHistory
<1>2. FileTypes' /\ UpdTypes'
  BY <1>1 DEF BTypes, FileTypes, UpdTypes
<1> QED  BY <1>1, <1>2, ClosedAre, FlushTypes, ClosedQuiet

\* A slot of upd is staged, and upd is without it then.
LEMMA SlotRestored ==
    ASSUME BTypes, NEW id \in DOMAIN upd, StageSlot(id, Live(upd[id].off, upd[id].len)),
           upd' = [x \in DOMAIN upd \ {id} |-> upd[x]], UNCHANGED <<dDisk, dRuns>>
    PROVE  FileTypes' /\ UpdTypes'
<1>1. DOMAIN upd \subseteq Ids /\ \A x \in DOMAIN upd : upd[x].off \in Cells /\ upd[x].len \in Lens
  BY DEF BTypes, UpdTypes
<1>2. UpdTypes'
  BY <1>1 DEF UpdTypes
<1> DEFINE slot == Live(upd[id].off, upd[id].len)
<1>3. slot \in BSlots /\ id \in Ids
  BY <1>1, SlotsAre
<1>4. FileTypes
  BY DEF BTypes
<1> HIDE DEF slot
<1>5. StageSlot(id, slot)
  BY DEF slot
<1>6. iDisk' \in [Ids -> BSlots] /\ iRuns' \in Seq(Runs(BSlots))
  BY <1>3, <1>4, <1>5, StageSlotTypes
<1> QED  BY <1>2, <1>6, FlushTypes DEF FileTypes

\* The rebuilt index gets a slot.
LEMMA RebuildSlotStep ==
    ASSUME BTypes, RebuildSlot
    PROVE  BTypes'
<1> DEFINE id == Min(DOMAIN upd)
<1>1. /\ hpc = "rebuild_index" /\ DOMAIN upd # {}
      /\ StageSlot(id, Live(upd[id].off, upd[id].len))
      /\ upd' = [x \in DOMAIN upd \ {id} |-> upd[x]]
      /\ UNCHANGED vars /\ UNCHANGED <<dDisk, rDisk>> /\ dRuns' = dRuns
      /\ UNCHANGED <<rDone, ops, op>> /\ hpc' = hpc
  BY DEF RebuildSlot, heapHistory
<1>2. id \in DOMAIN upd
  <2>1. DOMAIN upd \subseteq Nat
    BY BoundsAre DEF BTypes, UpdTypes
  <2> QED  BY <1>1, <2>1, MinIsLeast
<1> HIDE DEF id
<1>3. FileTypes' /\ UpdTypes'
  BY <1>1, <1>2, SlotRestored
<1> QED  BY <1>1, <1>3, ClosedAre, FlushTypes, ClosedQuiet

\* The rebuilt index is flushed, and the registry emptied.
LEMMA RebuildFlushStep ==
    ASSUME BTypes, RebuildFlush
    PROVE  BTypes'
<1>1. /\ hpc = "rebuild_index" /\ hpc' = "rebuild_registry" /\ iDisk' = iView /\ iRuns' = <<>>
      /\ rDisk' = [n \in 1 .. MaxRows |-> NoRow]
      /\ UNCHANGED vars /\ UNCHANGED <<dDisk, dRuns>> /\ UNCHANGED <<rDone, ops, op>> /\ upd' = upd
  BY DEF RebuildFlush, FlushIndex, opening, heapHistory
<1>2. FileTypes'
  BY <1>1, FlushTypes DEF FileTypes
<1>3. UpdTypes'
  BY <1>1 DEF BTypes, UpdTypes
<1> QED  BY <1>1, <1>2, <1>3, ClosedAre, BlankFiles, ClosedQuiet

\* The index is lost.
LEMMA LoseIndexStep ==
    ASSUME BTypes, LoseIndex
    PROVE  BTypes'
<1>1. /\ hpc = "down" /\ hpc' = "down" /\ iDisk' = [id \in Ids |-> Empty]
      /\ UNCHANGED vars /\ UNCHANGED <<dDisk, rDisk>> /\ UNCHANGED <<dRuns, iRuns>>
      /\ UNCHANGED <<rDone, ops, op>> /\ upd' = upd
  BY DEF LoseIndex, staged, opening
<1>2. FileTypes'
  BY <1>1, FlushTypes, BlankFiles DEF FileTypes
<1>3. UpdTypes'
  BY <1>1 DEF BTypes, UpdTypes
<1> QED  BY <1>1, <1>2, <1>3, ClosedAre, FlushTypes, ClosedQuiet

\* The registry is lost.
LEMMA LoseRegistryStep ==
    ASSUME BTypes, LoseRegistry
    PROVE  BTypes'
<1>1. /\ hpc = "down" /\ hpc' = "down" /\ rDisk' = [n \in 1 .. MaxRows |-> NoRow]
      /\ UNCHANGED vars /\ UNCHANGED <<dDisk, iDisk>> /\ UNCHANGED <<dRuns, iRuns>>
      /\ UNCHANGED <<rDone, ops, op>> /\ upd' = upd
  BY DEF LoseRegistry, staged, opening
<1>2. FileTypes' /\ UpdTypes'
  BY <1>1 DEF BTypes, FileTypes, UpdTypes
<1> QED  BY <1>1, <1>2, ClosedAre, BlankFiles, ClosedQuiet

\* A row is damaged.
LEMMA DamageRowStep ==
    ASSUME BTypes, NEW n, DamageRow(n)
    PROVE  BTypes'
<1>1. /\ hpc = "down" /\ hpc' = "down" /\ rDisk' = [rDisk EXCEPT ![n] = BadRow]
      /\ UNCHANGED vars /\ UNCHANGED <<dDisk, iDisk>> /\ UNCHANGED <<dRuns, iRuns>>
      /\ UNCHANGED <<rDone, ops, op>> /\ upd' = upd
  BY DEF DamageRow, staged, opening
<1>2. FileTypes' /\ UpdTypes'
  BY <1>1 DEF BTypes, FileTypes, UpdTypes
<1>3. rDisk' \in [1 .. MaxRows -> FileRows(allocEnd)]
  <2>1. BadRow \in FileRows(allocEnd)
    BY DEF FileRows
  <2> QED  BY <1>1, <2>1, FlushTypes
<1> QED  BY <1>1, <1>2, <1>3, ClosedAre, ClosedQuiet

\* The rows that a rebuild writes: the stretches of records, then the regions.
LEMMA RebuildRegistryStep ==
    ASSUME BTypes, RebuildRegistry
    PROVE  BTypes'
<1> DEFINE latest == Latest(dDisk, AllRecords)
           RegionOf(id) == id - (id % region_slots)
           starts == {RegionOf(id) : id \in DOMAIN latest}
           V == RowsIn(allocEnd)
<1>1. PICK owner \in [starts -> Buckets], sorted \in [1 .. Cardinality(starts) -> starts] :
         rows' = [n \in DOMAIN BucketRuns |-> RunRow(BucketRuns[n])]
                 \o [n \in DOMAIN sorted |-> [kind |-> "S", bucket |-> owner[sorted[n]],
                                              start |-> sorted[n], size |-> region_slots]]
  BY DEF RebuildRegistry
<1>2. /\ hpc = "rebuild_registry" /\ hpc' = "rebuild_rows" /\ Len(rows') <= MaxRows
      /\ UNCHANGED <<order, ext, reg, grantCount, fileSize, allocEnd, nextRegion>>
      /\ UNCHANGED <<pc, call, placed, numbers>>
      /\ UNCHANGED <<dDisk, iDisk, rDisk>> /\ UNCHANGED <<dRuns, iRuns>>
      /\ UNCHANGED <<rDone, ops, op>> /\ upd' = upd
  BY DEF RebuildRegistry, history, staged, opening, heapHistory
<1>3. FileTypes' /\ UpdTypes'
  BY <1>2 DEF BTypes, FileTypes, UpdTypes
<1>4. allocEnd \in Nat /\ PAGE <= allocEnd /\ allocEnd % PAGE = 0
  <2>1. /\ fileSize \in Nat /\ initial_size <= fileSize /\ fileSize <= allocEnd /\ allocEnd \in Nat
        /\ allocEnd % PAGE = 0
    BY DEF BTypes, AllocTypes
  <2> QED  BY <2>1, BoundsAre
<1>5. BucketRuns \in Seq(Stretches(allocEnd))
  BY <1>4, BucketRunsAre DEF BTypes
<1>6. [n \in DOMAIN BucketRuns |-> RunRow(BucketRuns[n])] \in Seq(V)
  <2> DEFINE L == Len(BucketRuns)
  <2>1. L \in Nat /\ DOMAIN BucketRuns = 1 .. L /\ \A n \in 1 .. L : BucketRuns[n] \in Stretches(allocEnd)
    BY <1>5
  <2>2. \A n \in 1 .. L : RunRow(BucketRuns[n]) \in V
    BY <1>4, <2>1, RunRowIs
  <2> HIDE DEF L, V
  <2> QED  BY <2>1, <2>2
<1>7. DOMAIN latest \subseteq Ids
  <2>1. dDisk \in [Cells -> BCells]
    BY FlushTypes
  <2>2. DataFile(dDisk, Cells) /\ Cells \subseteq Nat /\ PAGE \in Nat
    BY <2>1, BHeadersAre, BoundsAre
  <2>3. AllFrom(dDisk, PAGE, allocEnd, AllRecords)
    BY <1>4, <2>2, WalkAllFinds DEF AllRecords
  <2>4. /\ AllRecords \in Seq(Nat)
        /\ \A i \in 1 .. Len(AllRecords) : HeaderAt(dDisk, AllRecords[i])
    BY <2>3 DEF AllFrom, RecordAt
  <2>5. NewestOf(Latest(dDisk, AllRecords), dDisk, AllRecords, Len(AllRecords))
    BY <2>1, <2>4, LatestIs
  <2> QED  BY <2>5, LatestUpd DEF NewestOf
<1> HIDE DEF latest
<1>8. \A s \in starts : s \in Nat /\ s + region_slots <= MaxIds
  <2>1. ASSUME NEW id \in DOMAIN latest
        PROVE  RegionOf(id) \in Nat /\ RegionOf(id) + region_slots <= MaxIds
    <3>1. id \in Nat /\ id < MaxIds /\ MaxIds \in Nat /\ region_slots \in Nat \ {0}
      BY <1>7, BoundsAre
    <3>2. MaxIds % region_slots = 0
      BY BucketHeapAssumption
    <3> QED  BY <3>1, <3>2, MultipleBelow
  <2> QED  BY <2>1
<1> HIDE DEF starts
<1>9. [n \in DOMAIN sorted |-> [kind |-> "S", bucket |-> owner[sorted[n]],
                                start |-> sorted[n], size |-> region_slots]] \in Seq(V)
  <2> DEFINE c == Cardinality(starts)
             Row(n) == [kind |-> "S", bucket |-> owner[sorted[n]],
                        start |-> sorted[n], size |-> region_slots]
  <2>1. DOMAIN sorted = 1 .. c
    OBVIOUS
  <2>2. ASSUME NEW n \in 1 .. c PROVE Row(n) \in V
    <3>1. sorted[n] \in starts
      OBVIOUS
    <3>2. owner[sorted[n]] \in Buckets /\ sorted[n] \in Nat /\ sorted[n] + region_slots <= MaxIds
      BY <1>8, <3>1
    <3> DEFINE a == owner[sorted[n]]
               s == sorted[n]
    <3> HIDE DEF a, s
    <3>3. [kind |-> "S", bucket |-> a, start |-> s, size |-> region_slots] \in V
      BY <3>2, BoundsAre DEF RowsIn, RowType, a, s
    <3> QED  BY <3>3 DEF a, s
  <2>3. c \in Nat
    <3>1. IsFiniteSet(0 .. MaxIds)
      BY BoundsAre, FS_Interval
    <3>2. starts \subseteq 0 .. MaxIds
      BY <1>8, BoundsAre
    <3> QED  BY <3>1, <3>2, FS_Subset, FS_CardinalityType
  <2> HIDE DEF Row, c, V
  <2>4. [n \in 1 .. c |-> Row(n)] \in Seq(V)
    BY <2>2, <2>3
  <2> QED  BY <2>1, <2>4 DEF Row
<1>10. rows' \in Seq(V)
  <2> DEFINE a == [n \in DOMAIN BucketRuns |-> RunRow(BucketRuns[n])]
             b == [n \in DOMAIN sorted |-> [kind |-> "S", bucket |-> owner[sorted[n]],
                                            start |-> sorted[n], size |-> region_slots]]
  <2>1. a \in Seq(V) /\ b \in Seq(V) /\ rows' = a \o b
    BY <1>1, <1>6, <1>9
  <2> HIDE DEF a, b, V
  <2> QED  BY <2>1
<1> QED  BY <1>2, <1>3, <1>10, ClosedAre, FlushTypes, ClosedStep DEF V

\* A step of open on existing files.
LEMMA OpeningStep ==
    ASSUME BTypes, hpc # "alloc", hpc' \in {"recover", "restore"},
           UNCHANGED <<pc, placed, numbers>>, UNCHANGED <<ops, op>>,
           FileTypes', RegistryTypes', AllocTypes', OwnersHoused', UpdTypes'
    PROVE  BTypes'
<1>1. pc' = "idle" /\ placed' = <<>> /\ numbers' \in Seq(Ids) /\ ops' \in Nat
  BY AtRest
<1>2. /\ hpc' \in Places /\ hpc' # "alloc" /\ hpc' \notin {"slot_read", "record_read"}
      /\ hpc' \notin {"slot_read", "record_read", "slot_stage"}
  BY DEF Places
<1>3. RoomLeft'
  BY <1>1, <1>2 DEF RoomLeft
<1>4. CallTypes'
  BY <1>1, <1>2 DEF CallTypes, Active
<1>5. OpTypes'
  BY <1>2 DEF BTypes, OpTypes
<1> QED  BY <1>2, <1>3, <1>4, <1>5 DEF BTypes

\* The greater of two numbers.
LEMMA MaxOfTwo ==
    ASSUME NEW a \in Nat, NEW b \in Nat, a <= b
    PROVE  Max({a, b}) = b
<1> DEFINE S == {a, b}
<1>1. b \in S /\ \A y \in S : b >= y
  OBVIOUS
<1>2. S \subseteq Nat
  OBVIOUS
<1> HIDE DEF S
<1>3. Max(S) \in S /\ \A y \in S : Max(S) >= y
  BY <1>1, MaxOfInts
<1>4. Max(S) >= b /\ b >= Max(S) /\ Max(S) \in Nat
  BY <1>1, <1>2, <1>3
<1>5. Max(S) = b
  BY <1>4
<1> QED  BY <1>5 DEF S

\* open replays the rows of the file: the extents they speak of lie in the data file.
LEMMA OpenStep ==
    ASSUME BTypes, Open
    PROVE  BTypes'
<1> DEFINE x == Replay(DiskRows)
<1>1. /\ hpc = "down" /\ MetadataSound /\ hpc' = "recover" /\ at' = 1
      /\ order' = x.order /\ ext' = x.ext /\ reg' = x.reg
      /\ grantCount' = x.count /\ nextRegion' = x.nextRegion
      /\ rows' = DiskRows /\ rDone' = Len(DiskRows)
      /\ fileSize' = Max({x.fileSize, allocEnd}) /\ allocEnd' = fileSize'
      /\ UNCHANGED <<pc, placed, numbers>> /\ UNCHANGED <<ops, op>> /\ upd' = upd
      /\ UNCHANGED <<dDisk, iDisk, rDisk>> /\ UNCHANGED <<dRuns, iRuns>>
  BY DEF Open, history, files, heapHistory
<1>2. allocEnd \in Nat /\ initial_size <= allocEnd /\ allocEnd <= MaxCell /\ allocEnd % PAGE = 0
  <2>1. /\ fileSize \in Nat /\ initial_size <= fileSize /\ fileSize <= allocEnd /\ allocEnd \in Nat
        /\ allocEnd % PAGE = 0 /\ allocEnd <= MaxCell
    BY DEF BTypes, AllocTypes
  <2> QED  BY <2>1, BoundsAre
<1>3. DiskRows \in Seq(RowsIn(allocEnd)) /\ Len(DiskRows) \in Nat /\ Len(DiskRows) <= MaxRows
  BY <1>1, <1>2, DiskRowsAre DEF BTypes, MetadataSound
<1>4. ReplayIn(x, allocEnd)
  BY <1>2, <1>3, ReplayTypes
<1> HIDE DEF x
<1>5. /\ x \in Images /\ Listed(x.ext, x.order)
      /\ \A i \in DOMAIN x.ext : x.ext[i] \in ExtentsIn(x.fileSize) /\ x.ext[i].used = 0
      /\ \A i \in DOMAIN x.reg : x.reg[i] \in RegionsIn /\ x.reg[i].used = 0
      /\ initial_size <= x.fileSize /\ x.fileSize <= allocEnd
      /\ Len(x.ext) <= x.count
  BY <1>4 DEF ReplayIn
<1>6. /\ x.order \in Seq(Buckets) /\ x.ext \in Seq(RawExtent) /\ x.reg \in Seq(RawRegion)
      /\ x.count \in Nat /\ x.fileSize \in Nat /\ x.nextRegion \in Nat
  BY <1>5 DEF Images
<1>7. fileSize' = allocEnd /\ allocEnd' = allocEnd
  BY <1>1, <1>2, <1>5, <1>6, MaxOfTwo
<1>8. FileTypes' /\ UpdTypes'
  BY <1>1 DEF BTypes, FileTypes, UpdTypes
<1>9. RegistryTypes'
  <2>1. RowsIn(allocEnd)' = RowsIn(allocEnd)
    BY <1>7 DEF RowsIn
  <2>2. rDisk' \in [1 .. MaxRows -> RowsIn(allocEnd) \union {NoRow, BadRow}]
    BY <1>1, FlushTypes DEF FileRows
  <2>3. rDone' \in 0 .. Len(rows') /\ hpc' \notin Closed
    BY <1>1, <1>3 DEF Closed
  <2> QED  BY <1>1, <1>3, <1>7, <2>1, <2>2, <2>3, Zenon DEF RegistryTypes
<1>10. AllocTypes'
  <2>1. ext' \in Seq(ExtentsIn(allocEnd))
    <3>1. \A i \in DOMAIN x.ext : x.ext[i] \in ExtentsIn(allocEnd)
      <4>1. ASSUME NEW i \in DOMAIN x.ext PROVE x.ext[i] \in ExtentsIn(allocEnd)
        <5> DEFINE e == x.ext[i]
        <5>1. e \in ExtentType /\ e.start >= PAGE /\ e.start + e.size <= x.fileSize /\ e.used <= e.size
          BY <1>5, ExtentsInIs
        <5>2. e.start \in Nat /\ e.size \in Nat
          BY <5>1, ExtentFields
        <5> HIDE DEF e
        <5>3. e.start + e.size <= allocEnd
          BY <1>2, <1>5, <1>6, <5>1, <5>2
        <5>4. e \in ExtentsIn(allocEnd)
          BY <5>1, <5>3, ExtentsInIs
        <5> QED  BY <5>4 DEF e
      <4> QED  BY <4>1
    <3> QED  BY <1>1, <1>6, <3>1
  <2>2. reg' \in Seq(RegionsIn)
    BY <1>1, <1>5, <1>6
  <2>3. grantCount' = 0 => ext' = <<>>
    <3>1. Len(x.ext) \in Nat
      BY <1>6
    <3>2. x.count = 0 => Len(x.ext) = 0
      BY <1>5, <1>6, <3>1
    <3> QED  BY <1>1, <1>6, <3>2
  <2>4. ExtentsIn(fileSize)' = ExtentsIn(allocEnd) /\ RegionsIn' = RegionsIn
    BY <1>7 DEF ExtentsIn, RegionsIn
  <2>5. /\ order' \in Seq(Buckets) /\ grantCount' \in Nat /\ nextRegion' \in Nat
        /\ fileSize' \in Nat /\ initial_size <= fileSize' /\ fileSize' <= allocEnd'
        /\ allocEnd' \in Nat /\ allocEnd' <= MaxCell /\ allocEnd' % PAGE = 0
    BY <1>1, <1>2, <1>6, <1>7
  <2> QED  BY <2>1, <2>2, <2>3, <2>4, <2>5, Zenon DEF AllocTypes
<1>11. OwnersHoused'
  <2>1. ~Up'
    BY <1>1, UpIs DEF CallPlaces
  <2>2. at' \in Nat \ {0} /\ hpc' # "restore"
    BY <1>1
  <2>3. ASSUME NEW i \in DOMAIN ext'
        PROVE  \E n \in DOMAIN order' : order'[n] = ext'[i].owner /\ (n < at' => HasRegion(reg', order'[n]))
    <3>1. PICK n \in DOMAIN x.order : x.order[n] = x.ext[i].owner
      BY <1>1, <1>5, <2>3 DEF Listed
    <3>2. ~(n < 1)
      BY <1>6, <3>1
    <3> QED  BY <1>1, <3>1, <3>2
  <2> QED  BY <2>1, <2>2, <2>3 DEF OwnersHoused, HasRegion
<1>12. hpc # "alloc" /\ hpc' \in {"recover", "restore"}
  BY <1>1
<1> QED  BY <1>1, <1>8, <1>9, <1>10, <1>11, <1>12, OpeningStep

\* What stays when the allocator does.
LEMMA SameAllocator ==
    ASSUME BTypes, UNCHANGED allocator
    PROVE  /\ order' = order /\ ext' = ext /\ reg' = reg /\ rows' = rows /\ allocEnd' = allocEnd
           /\ AllocTypes'
           /\ rDisk' = rDisk /\ rDone' = rDone /\ hpc' \notin Closed => RegistryTypes'
<1>1. /\ order' = order /\ ext' = ext /\ reg' = reg /\ grantCount' = grantCount
      /\ fileSize' = fileSize /\ allocEnd' = allocEnd /\ nextRegion' = nextRegion /\ rows' = rows
  BY DEF allocator
<1>2. AllocTypes'
  BY <1>1, Zenon DEF BTypes, AllocTypes, ExtentsIn, RegionsIn
<1>3. ASSUME rDisk' = rDisk, rDone' = rDone, hpc' \notin Closed PROVE RegistryTypes'
  <2>1. RowsIn(allocEnd)' = RowsIn(allocEnd)
    BY <1>1 DEF RowsIn
  <2> QED  BY <1>1, <1>3, <2>1, Zenon DEF BTypes, RegistryTypes
<1> QED  BY <1>1, <1>2, <1>3

\* open restores a slot.
LEMMA RestoreSlotStep ==
    ASSUME BTypes, NEW id \in DOMAIN upd, RestoreSlot(id)
    PROVE  BTypes'
<1>1. /\ hpc = "restore" /\ hpc' = "restore" /\ at' = at
      /\ StageSlot(id, Live(upd[id].off, upd[id].len))
      /\ upd' = [y \in DOMAIN upd \ {id} |-> upd[y]]
      /\ UNCHANGED vars /\ UNCHANGED <<dDisk, dRuns>> /\ rDisk' = rDisk /\ rDone' = rDone
      /\ UNCHANGED <<ops, op>>
  BY DEF RestoreSlot, heapHistory
<1>2. UNCHANGED allocator /\ UNCHANGED <<pc, placed, numbers>>
  BY <1>1, Unchanged
<1>3. FileTypes' /\ UpdTypes'
  BY <1>1, SlotRestored
<1>4. hpc' \notin Closed /\ hpc # "alloc" /\ hpc' \in {"recover", "restore"}
  BY <1>1 DEF Closed
<1>5. RegistryTypes' /\ AllocTypes'
  BY <1>1, <1>2, <1>4, SameAllocator
<1>6. OwnersHoused'
  <2>1. ~Up'
    BY <1>1, UpIs DEF CallPlaces
  <2>2. order' = order /\ ext' = ext /\ reg' = reg
    BY <1>2, SameAllocator
  <2> QED  BY <1>1, <2>1, <2>2, Zenon DEF BTypes, OwnersHoused, HasRegion
<1> QED  BY <1>1, <1>2, <1>3, <1>4, <1>5, <1>6, OpeningStep

\* A bucket is recovered: it has a region if it has an extent, or the open panics.
LEMMA EndBucketStep ==
    ASSUME BTypes, EndBucket
    PROVE  BTypes'
<1>1. hpc = "restore" /\ ops' = ops /\ UNCHANGED <<dDisk, iDisk, rDisk>>
  BY DEF EndBucket, files, heapHistory
<1>2. CASE Owned(order[at]) # {} /\ RegionsOf(order[at]) = {}
  <2>1. hpc' = "dead" /\ LoseMemory
    BY <1>2 DEF EndBucket
  <2> QED  BY <1>1, <2>1, FlushTypes, GoneStep
<1>3. CASE ~(Owned(order[at]) # {} /\ RegionsOf(order[at]) = {})
  <2>1. /\ hpc' = "recover" /\ at' = at + 1 /\ UNCHANGED vars /\ UNCHANGED <<dRuns, iRuns>>
        /\ rDone' = rDone /\ op' = op /\ upd' = upd
    BY <1>3 DEF EndBucket, staged
  <2>2. UNCHANGED allocator /\ UNCHANGED <<pc, placed, numbers>>
    BY <2>1, Unchanged
  <2>3. FileTypes' /\ UpdTypes'
    BY <1>1, <2>1 DEF BTypes, FileTypes, UpdTypes
  <2>4. hpc' \notin Closed /\ hpc # "alloc" /\ hpc' \in {"recover", "restore"}
    BY <1>1, <2>1 DEF Closed
  <2>5. RegistryTypes' /\ AllocTypes'
    BY <1>1, <2>1, <2>2, <2>4, SameAllocator
  <2>6. OwnersHoused'
    <3>1. ~Up' /\ hpc' # "restore"
      BY <2>1, UpIs DEF CallPlaces
    <3>2. order' = order /\ ext' = ext /\ reg' = reg
      BY <2>2, SameAllocator
    <3>3. at \in Nat \ {0} /\ at' \in Nat \ {0}
      BY <1>1, <2>1 DEF BTypes, OwnersHoused
    <3>4. ASSUME NEW i \in DOMAIN ext
          PROVE  \E n \in DOMAIN order : order[n] = ext[i].owner /\ (n < at + 1 => HasRegion(reg, order[n]))
      <4>1. PICK n \in DOMAIN order : order[n] = ext[i].owner /\ (n < at => HasRegion(reg, order[n]))
        BY <1>1 DEF BTypes, OwnersHoused
      <4>2. n = at => HasRegion(reg, order[n])
        <5>1. SUFFICES ASSUME n = at PROVE HasRegion(reg, order[n])
          OBVIOUS
        <5>2. Owned(order[at]) # {}
          BY <4>1, <5>1 DEF Owned
        <5>3. RegionsOf(order[at]) # {}
          BY <1>3, <5>2
        <5> QED  BY <5>1, <5>3 DEF RegionsOf, HasRegion
      <4>3. n \in Nat
        BY DEF BTypes, AllocTypes
      <4>4. n < at + 1 => n < at \/ n = at
        BY <3>3, <4>3
      <4> QED  BY <4>1, <4>2, <4>4
    <3> QED  BY <2>1, <3>1, <3>2, <3>3, <3>4 DEF OwnersHoused, HasRegion
  <2> QED  BY <1>1, <2>1, <2>2, <2>3, <2>4, <2>5, <2>6, OpeningStep
<1> QED  BY <1>2, <1>3

\* The heap is open, and every bucket with an extent has a region.
LEMMA EndOpenStep ==
    ASSUME BTypes, EndOpen
    PROVE  BTypes'
<1>1. /\ hpc = "recover" /\ hpc' = "idle" /\ at \notin DOMAIN order /\ iDisk' = iView /\ iRuns' = <<>>
      /\ UNCHANGED vars /\ UNCHANGED <<dDisk, dRuns>> /\ rDisk' = rDisk /\ rDone' = rDone
      /\ UNCHANGED <<ops, op>> /\ upd' = upd
  BY DEF EndOpen, FlushIndex
<1>2. UNCHANGED allocator /\ UNCHANGED <<pc, placed, numbers>>
  BY <1>1, Unchanged
<1>3. FileTypes' /\ UpdTypes'
  BY <1>1, FlushTypes DEF BTypes, FileTypes, UpdTypes
<1>4. hpc' \notin Closed /\ hpc # "alloc" /\ hpc' \in Places /\ hpc' # "restore"
      /\ hpc' \notin {"recover", "restore"} /\ hpc' \notin {"slot_read", "record_read"}
      /\ hpc' \notin {"slot_read", "record_read", "slot_stage"} /\ hpc' # "alloc"
  BY <1>1 DEF Closed, Places
<1>5. RegistryTypes' /\ AllocTypes' /\ order' = order /\ ext' = ext /\ reg' = reg
  BY <1>1, <1>2, <1>4, SameAllocator
<1>6. pc' = "idle" /\ placed' = <<>> /\ numbers' \in Seq(Ids) /\ ops' \in Nat
  BY <1>1, <1>2, <1>4, AtRest
<1>7. OwnersHoused'
  <2>1. ASSUME NEW i \in DOMAIN ext PROVE HasRegion(reg, ext[i].owner)
    <3>1. PICK n \in DOMAIN order : order[n] = ext[i].owner /\ (n < at => HasRegion(reg, order[n]))
      BY <1>1 DEF BTypes, OwnersHoused
    <3>2. at \in Nat \ {0}
      BY <1>1 DEF BTypes, OwnersHoused
    <3>3. order \in Seq(Buckets)
      BY DEF BTypes, AllocTypes
    <3>4. n < at
      BY <1>1, <3>2, <3>3
    <3> QED  BY <3>1, <3>4
  <2> QED  BY <1>4, <1>5, <2>1, Zenon DEF OwnersHoused, HasRegion
<1>8. RoomLeft'
  BY <1>4, <1>6 DEF RoomLeft
<1>9. CallTypes'
  BY <1>4, <1>6 DEF CallTypes, Active
<1>10. OpTypes'
  BY <1>1, <1>4 DEF BTypes, OpTypes
<1> QED  BY <1>3, <1>4, <1>5, <1>7, <1>8, <1>9, <1>10 DEF BTypes

\* The numbers that a bucket's last extent holds records of.
LEMMA BestIs ==
    ASSUME FileTypes, NEW f \in Nat, NEW e \in ExtentsIn(f)
    PROVE  Latest(dDisk, Found(e)) \in Founds
<1>1. dDisk \in [Cells -> BCells]
  BY DEF FileTypes
<1>2. Found(e) \in Seq(Nat) /\ \A i \in 1 .. Len(Found(e)) : HeaderAt(dDisk, Found(e)[i])
  BY FoundIn DEF RecordAt
<1>3. NewestOf(Latest(dDisk, Found(e)), dDisk, Found(e), Len(Found(e)))
  BY <1>1, <1>2, LatestIs
<1> QED  BY <1>3 DEF NewestOf

\* Nothing is found where no extent is.
LEMMA NothingFound == <<>> \in Founds
<1>1. DOMAIN <<>> = {} /\ <<>> = [id \in {} |-> <<>>[id]]
  OBVIOUS
<1> QED  BY <1>1, FoundsAre

\* A change of the use leaves regions and extents where they are.
LEMMA UsedIn ==
    /\ \A r \in RegionsIn, u \in Nat : /\ [r EXCEPT !.used = u] \in RegionsIn
                                       /\ [r EXCEPT !.used = u].owner = r.owner
    /\ \A f, e : \A u \in Nat : e \in ExtentsIn(f) /\ u <= e.size =>
          /\ [e EXCEPT !.used = u] \in ExtentsIn(f) /\ [e EXCEPT !.used = u].owner = e.owner
<1>1. ASSUME NEW r \in RegionsIn, NEW u \in Nat
      PROVE  [r EXCEPT !.used = u] \in RegionsIn /\ [r EXCEPT !.used = u].owner = r.owner
  BY DEF RegionsIn, RawRegion
<1>2. ASSUME NEW f, NEW e, NEW u \in Nat, e \in ExtentsIn(f), u <= e.size
      PROVE  [e EXCEPT !.used = u] \in ExtentsIn(f) /\ [e EXCEPT !.used = u].owner = e.owner
  BY <1>2 DEF ExtentsIn, ExtentType
<1> QED  BY <1>1, <1>2

\* The use of a bucket's extents and regions is found, with the slots to restore.
LEMMA ReadBucketStep ==
    ASSUME BTypes, ReadBucket
    PROVE  BTypes'
<1> DEFINE b == order[at]
           best == IF Owned(b) = {} THEN <<>> ELSE Latest(dDisk, Found(ext[LastExtent(b)]))
           seen == KnownIds(b) \union DOMAIN best
           R(i) == IF reg[i].owner # b THEN reg[i]
                   ELSE IF i # LastRegion(b) THEN [reg[i] EXCEPT !.used = region_slots]
                   ELSE [reg[i] EXCEPT !.used = IF Owned(b) = {} THEN SlotsUsed(b, reg[i])
                                                ELSE Max({SlotsUsed(b, reg[i]), SeenUsed(seen, reg[i])})]
           E(i) == IF ext[i].owner # b THEN ext[i]
                   ELSE IF i # LastExtent(b) THEN [ext[i] EXCEPT !.used = ext[i].size]
                   ELSE [ext[i] EXCEPT !.used = LastUse(b, ext[i])]
<1>1. /\ hpc = "recover" /\ at \in DOMAIN order /\ hpc' = "restore" /\ at' = at
      /\ reg' = [i \in DOMAIN reg |-> R(i)]
      /\ ext' = [i \in DOMAIN ext |-> E(i)]
      /\ upd' = [id \in {y \in DOMAIN best : ~Superseded(b, y, best[y])} |-> best[id]]
  BY DEF ReadBucket, SlotsUsed, SeenUsed
<1>2. /\ order' = order /\ grantCount' = grantCount /\ fileSize' = fileSize /\ allocEnd' = allocEnd
      /\ nextRegion' = nextRegion /\ rows' = rows
      /\ UNCHANGED <<pc, placed, numbers>> /\ UNCHANGED <<ops, op>>
      /\ dDisk' = dDisk /\ dRuns' = dRuns /\ rDisk' = rDisk /\ rDone' = rDone
      /\ UNCHANGED <<iDisk, iRuns>> \/ (iDisk' = iView /\ iRuns' = <<>>)
  BY DEF ReadBucket, FlushIndex, history, heapHistory
<1> HIDE DEF best
<1>3. FileTypes'
  BY <1>2, FlushTypes DEF FileTypes
<1>4. /\ ext \in Seq(ExtentsIn(fileSize)) /\ fileSize \in Nat /\ reg \in Seq(RegionsIn)
      /\ FileTypes
  BY DEF BTypes, AllocTypes
<1>5. ext \in Seq(ExtentType)
  <2>1. \A i \in 1 .. Len(ext) : ext[i] \in ExtentType
    BY <1>4, ExtentsInIs
  <2> QED  BY <1>4, <2>1
<1>6. best \in Founds
  <2>1. CASE Owned(b) = {}
    BY <2>1, NothingFound DEF best
  <2>2. CASE Owned(b) # {}
    <3>1. LastExtent(b) \in DOMAIN ext
      BY <1>5, <2>2, LastExtentIn
    <3>2. ext[LastExtent(b)] \in ExtentsIn(fileSize)
      BY <1>4, <3>1
    <3> QED  BY <1>4, <2>2, <3>2, BestIs DEF best
  <2> QED  BY <2>1, <2>2
<1>7. DOMAIN best \subseteq Ids /\ \A id \in DOMAIN best : best[id].off \in Cells /\ best[id].len \in Lens
  BY <1>6, LatestUpd
<1>8. UpdTypes'
  BY <1>1, <1>7 DEF UpdTypes
<1>9. seen \in SUBSET Ids
  BY <1>7 DEF KnownIds
<1> HIDE DEF seen, b
<1>10. ASSUME NEW i \in DOMAIN reg PROVE R(i) \in RegionsIn /\ R(i).owner = reg[i].owner
  <2>1. reg[i] \in RegionsIn
    BY <1>4
  <2>2. /\ SlotsUsed(b, reg[i]) \in Nat
        /\ Max({SlotsUsed(b, reg[i]), SeenUsed(seen, reg[i])}) \in Nat /\ region_slots \in Nat
    BY <1>9, <2>1, UseOfRegion, BoundsAre
  <2> DEFINE u == IF Owned(b) = {} THEN SlotsUsed(b, reg[i])
                  ELSE Max({SlotsUsed(b, reg[i]), SeenUsed(seen, reg[i])})
  <2>3. u \in Nat
    BY <2>2
  <2> HIDE DEF u
  <2>4. \/ R(i) = reg[i] \/ R(i) = [reg[i] EXCEPT !.used = region_slots]
        \/ R(i) = [reg[i] EXCEPT !.used = u]
    BY DEF u
  <2> HIDE DEF R
  <2>5. ASSUME NEW v \in Nat, R(i) = [reg[i] EXCEPT !.used = v]
        PROVE  R(i) \in RegionsIn /\ R(i).owner = reg[i].owner
    <3>1. [reg[i] EXCEPT !.used = v] \in RegionsIn /\ [reg[i] EXCEPT !.used = v].owner = reg[i].owner
      BY <2>1, UsedIn
    <3> QED  BY <2>5, <3>1, Zenon
  <2> QED  BY <2>1, <2>2, <2>3, <2>4, <2>5
<1>11. ASSUME NEW i \in DOMAIN ext PROVE E(i) \in ExtentsIn(fileSize) /\ E(i).owner = ext[i].owner
  <2>1. ext[i] \in ExtentsIn(fileSize)
    BY <1>4
  <2>2. ext[i].size \in Nat /\ ext[i].size <= ext[i].size
    BY <2>1, ExtentsInIs, ExtentFields
  <2>3. LastUse(b, ext[i]) \in Nat /\ LastUse(b, ext[i]) <= ext[i].size
    BY <1>4, <2>1, LastUseIs
  <2>4. \/ E(i) = ext[i] \/ E(i) = [ext[i] EXCEPT !.used = ext[i].size]
        \/ E(i) = [ext[i] EXCEPT !.used = LastUse(b, ext[i])]
    OBVIOUS
  <2> HIDE DEF E
  <2>5. ASSUME NEW v \in Nat, v <= ext[i].size, E(i) = [ext[i] EXCEPT !.used = v]
        PROVE  E(i) \in ExtentsIn(fileSize) /\ E(i).owner = ext[i].owner
    <3>1. /\ [ext[i] EXCEPT !.used = v] \in ExtentsIn(fileSize)
          /\ [ext[i] EXCEPT !.used = v].owner = ext[i].owner
      BY <2>1, <2>5, UsedIn
    <3> QED  BY <2>5, <3>1, Zenon
  <2> QED  BY <2>1, <2>2, <2>3, <2>4, <2>5
<1> HIDE DEF R, E
<1>12. reg' \in Seq(RegionsIn) /\ DOMAIN reg' = DOMAIN reg /\ \A i \in DOMAIN reg : reg'[i].owner = reg[i].owner
  <2>1. reg' \in Seq(RegionsIn)
    <3>1. Len(reg) \in Nat /\ DOMAIN reg = 1 .. Len(reg)
      BY <1>4
    <3> QED  BY <1>1, <1>10, <3>1
  <2> QED  BY <1>1, <1>10, <2>1
<1>13. /\ ext' \in Seq(ExtentsIn(fileSize)) /\ DOMAIN ext' = DOMAIN ext
       /\ \A i \in DOMAIN ext : ext'[i].owner = ext[i].owner
  <2>1. ext' \in Seq(ExtentsIn(fileSize))
    <3>1. Len(ext) \in Nat /\ DOMAIN ext = 1 .. Len(ext)
      BY <1>4
    <3> QED  BY <1>1, <1>11, <3>1
  <2> QED  BY <1>1, <1>11, <2>1
<1>14. AllocTypes'
  <2>1. ExtentsIn(fileSize)' = ExtentsIn(fileSize) /\ RegionsIn' = RegionsIn
    BY <1>2 DEF ExtentsIn, RegionsIn
  <2>2. grantCount' = 0 => ext' = <<>>
    <3>1. ext = <<>> => DOMAIN ext' = {}
      BY <1>13
    <3>2. DOMAIN ext' = {} => ext' = <<>>
      BY <1>13
    <3> QED  BY <1>2, <3>1, <3>2 DEF BTypes, AllocTypes
  <2> QED  BY <1>2, <1>12, <1>13, <2>1, <2>2, Zenon DEF BTypes, AllocTypes
<1>15. RegistryTypes'
  <2>1. RowsIn(allocEnd)' = RowsIn(allocEnd)
    BY <1>2 DEF RowsIn
  <2>2. hpc' \notin Closed
    BY <1>1 DEF Closed
  <2> QED  BY <1>2, <2>1, <2>2, Zenon DEF BTypes, RegistryTypes
<1>16. OwnersHoused'
  <2>1. ~Up'
    BY <1>1, UpIs DEF CallPlaces
  <2>2. at \in Nat \ {0}
    BY <1>1 DEF BTypes, OwnersHoused
  <2>3. ASSUME NEW i \in DOMAIN ext'
        PROVE  \E n \in DOMAIN order' : order'[n] = ext'[i].owner /\ (n < at' => HasRegion(reg', order'[n]))
    <3>1. PICK n \in DOMAIN order : order[n] = ext[i].owner /\ (n < at => HasRegion(reg, order[n]))
      BY <1>1, <1>13 DEF BTypes, OwnersHoused
    <3>2. HasRegion(reg, order[n]) => HasRegion(reg', order[n])
      BY <1>12 DEF HasRegion
    <3>3. ext'[i].owner = ext[i].owner
      BY <1>13
    <3> QED  BY <1>1, <1>2, <3>1, <3>2, <3>3
  <2>4. at' \in DOMAIN order' /\ at' \in Nat \ {0}
    BY <1>1, <1>2, <2>2
  <2> QED  BY <2>1, <2>3, <2>4 DEF OwnersHoused, HasRegion
<1>17. hpc # "alloc" /\ hpc' \in {"recover", "restore"}
  BY <1>1
<1> QED  BY <1>2, <1>3, <1>8, <1>14, <1>15, <1>16, <1>17, OpeningStep

\* What a step of the allocator leaves alone.
Around == /\ hpc = "alloc" /\ hpc' = "alloc" /\ op' = op /\ ops' = ops /\ upd' = upd
          /\ UNCHANGED <<dDisk, iDisk, rDisk>> /\ UNCHANGED <<dRuns, iRuns, rDone>>
          /\ allocEnd' <= MaxCell

\* A step of the allocator keeps the types of everything around it.
LEMMA AroundStep ==
    ASSUME BTypes, Around, allocEnd' \in Nat, allocEnd <= allocEnd',
           rows' \in Seq(RowsIn(allocEnd')), Len(rows') <= MaxRows, Len(rows) <= Len(rows'),
           AllocTypes', OwnersHoused', RoomLeft', CallTypes'
    PROVE  BTypes'
<1>1. FileTypes' /\ UpdTypes'
  BY DEF Around, BTypes, FileTypes, UpdTypes
<1>2. OpTypes'
  BY DEF Around, BTypes, OpTypes
<1>3. RegistryTypes'
  <2>1. allocEnd \in Nat
    BY DEF BTypes, AllocTypes
  <2>2. FileRows(allocEnd) \subseteq FileRows(allocEnd')
    BY <2>1, RowsGrow
  <2>3. rDisk \in [1 .. MaxRows -> FileRows(allocEnd)] /\ rDone \in 0 .. Len(rows) /\ Len(rows) \in Nat
    BY FlushTypes
  <2>4. rDisk' \in [1 .. MaxRows -> FileRows(allocEnd')]
    BY <2>2, <2>3 DEF Around
  <2>5. Len(rows') \in Nat
    OBVIOUS
  <2>6. rDone' \in 0 .. Len(rows')
    BY <2>3, <2>5 DEF Around
  <2>7. hpc' \notin Closed
    BY DEF Around, Closed
  <2> QED  BY <2>4, <2>6, <2>7 DEF RegistryTypes, FileRows, RowsIn
<1>4. hpc' \in Places
  BY DEF Around, Places
<1> QED  BY <1>1, <1>2, <1>3, <1>4 DEF BTypes

\* The type invariant, for an allocator at work.
LEMMA AtWork ==
    ASSUME BTypes, hpc = "alloc"
    PROVE  /\ order \in Seq(Buckets) /\ ext \in Seq(ExtentsIn(fileSize)) /\ ext \in Seq(ExtentType)
           /\ reg \in Seq(RegionsIn)
           /\ grantCount \in Nat /\ nextRegion \in Nat /\ (grantCount = 0 => ext = <<>>)
           /\ fileSize \in Nat /\ PAGE <= fileSize /\ initial_size <= fileSize /\ fileSize <= allocEnd
           /\ allocEnd \in Nat /\ allocEnd <= MaxCell /\ allocEnd % PAGE = 0
           /\ rows \in Seq(RowsIn(allocEnd)) /\ Len(rows) \in Nat /\ Len(rows) <= MaxRows
           /\ \A i \in DOMAIN ext : \/ HasRegion(reg, ext[i].owner)
                                    \/ pc = "region" /\ ext[i].owner = call.bucket
           /\ pc \in Active => /\ call = [kind |-> op.kind, bucket |-> op.bucket, len |-> op.len]
                               /\ call.kind \in {"insert", "update"} /\ call.bucket \in Buckets
                               /\ call.len \in Lens /\ call.len \in Nat /\ call.len > 0
           /\ pc \notin {"idle", "number"} => placed = <<>>
           /\ pc \in {"grant_more", "number"} => \E i \in DOMAIN ext : ext[i].owner = call.bucket
           /\ pc = "grant_new" => call.kind = "insert"
           /\ op.kind \in {"insert", "update"} /\ op.bucket \in Buckets /\ op.len \in Lens
           /\ op.ver \in Nat /\ (op.kind = "update" => op.id \in Ids) /\ DOMAIN op = OpFields
           /\ placed \in Seq([off : Cells, len : Lens]) /\ numbers \in Seq(Ids) /\ ops \in Nat
<1>1. /\ order \in Seq(Buckets) /\ ext \in Seq(ExtentsIn(fileSize)) /\ reg \in Seq(RegionsIn)
      /\ grantCount \in Nat /\ nextRegion \in Nat /\ (grantCount = 0 => ext = <<>>)
      /\ fileSize \in Nat /\ initial_size <= fileSize /\ fileSize <= allocEnd
      /\ allocEnd \in Nat /\ allocEnd <= MaxCell /\ allocEnd % PAGE = 0
  BY DEF BTypes, AllocTypes
<1>2. ext \in Seq(ExtentType)
  <2>1. \A i \in 1 .. Len(ext) : ext[i] \in ExtentType
    BY <1>1, ExtentsInIs
  <2> QED  BY <1>1, <2>1
<1>3. PAGE <= fileSize
  BY <1>1, BoundsAre
<1>4. rows \in Seq(RowsIn(allocEnd)) /\ Len(rows) <= MaxRows
  BY DEF BTypes, RegistryTypes
<1>5. Len(rows) \in Nat
  BY <1>4
<1>6. \A i \in DOMAIN ext : \/ HasRegion(reg, ext[i].owner)
                            \/ pc = "region" /\ ext[i].owner = call.bucket
  BY UpIs DEF BTypes, OwnersHoused, CallPlaces
<1>7. /\ op.kind \in {"insert", "update"} /\ op.bucket \in Buckets /\ op.len \in Lens /\ op.ver \in Nat
      /\ op.kind = "update" => op.id \in Ids
      /\ pc \in Active => call = [kind |-> op.kind, bucket |-> op.bucket, len |-> op.len]
      /\ pc \notin {"idle", "number"} => placed = <<>>
      /\ pc = "grant_new" => call.kind = "insert"
      /\ pc \in {"grant_more", "number"} => \E i \in DOMAIN ext : ext[i].owner = call.bucket
      /\ placed \in Seq([off : Cells, len : Lens]) /\ numbers \in Seq(Ids) /\ ops \in Nat
  BY DEF BTypes, CallTypes
<1>8. pc \in Active => /\ call.kind \in {"insert", "update"} /\ call.bucket \in Buckets
                       /\ call.len \in Lens /\ call.len \in Nat /\ call.len > 0
  BY <1>7, BoundsAre
<1>9. DOMAIN op = OpFields
  BY DEF BTypes, OpTypes
<1> QED  BY <1>1, <1>2, <1>3, <1>4, <1>5, <1>6, <1>7, <1>8, <1>9

\* The places of a running alloc or alloc_update.
LEMMA ActiveAre ==
    /\ Active = {"grant_new", "grant_more", "region", "place", "number"}
    /\ Granting <=> pc \in {"grant_new", "grant_more"}
BY DEF Active, Granting

\* The call goes on or ends without a new row.
LEMMA QuietStep ==
    ASSUME BTypes, Around, pc # "region",
           UNCHANGED <<order, ext, reg, fileSize, allocEnd, nextRegion, rows>>,
           UNCHANGED <<placed, numbers>>,
           grantCount' \in Nat, grantCount <= grantCount',
           \/ pc' = "panicked" /\ placed = <<>>
           \/ pc' = "idle" /\ (placed # <<>> => op.kind # "insert")
           \/ /\ pc' = pc \/ (pc' = "grant_more" /\ pc = "place" /\ Owned(call.bucket) # {})
              /\ pc \in Active /\ pc # "number" /\ call' = call
    PROVE  BTypes'
<1>1. /\ order' = order /\ ext' = ext /\ reg' = reg /\ fileSize' = fileSize /\ allocEnd' = allocEnd
      /\ nextRegion' = nextRegion /\ rows' = rows /\ placed' = placed /\ numbers' = numbers
  OBVIOUS
<1>2. hpc = "alloc" /\ hpc' = "alloc" /\ op' = op /\ ops' = ops /\ allocEnd' <= MaxCell
  BY DEF Around
<1>3. rows' \in Seq(RowsIn(allocEnd')) /\ Len(rows') <= MaxRows /\ Len(rows) <= Len(rows')
      /\ allocEnd' \in Nat /\ allocEnd <= allocEnd'
  <2>1. allocEnd <= allocEnd /\ Len(rows) <= Len(rows)
    BY <1>2, AtWork
  <2> QED  BY <1>1, <1>2, <2>1, AtWork
<1>4. AllocTypes'
  <2>1. ExtentsIn(fileSize)' = ExtentsIn(fileSize) /\ RegionsIn' = RegionsIn
    BY <1>1 DEF ExtentsIn, RegionsIn
  <2>2. grantCount' = 0 => ext' = <<>>
    BY <1>1, <1>2, AtWork
  <2> QED  BY <1>1, <2>1, <2>2, Zenon DEF BTypes, AllocTypes
<1>5. OwnersHoused'
  <2>1. \A i \in DOMAIN ext' : HasRegion(reg', ext'[i].owner)
    BY <1>1, <1>2, AtWork
  <2> QED  BY <1>2, <2>1 DEF OwnersHoused, HasRegion
<1>6. pc' \in {"idle", "panicked"} \union Active /\ pc' # "number" /\ pc' # "region"
  BY DEF Active
<1>7. CallTypes'
  <2>1. pc' \in Active => call' = [kind |-> op'.kind, bucket |-> op'.bucket, len |-> op'.len]
    BY <1>2, AtWork, ActiveAre
  <2>2. pc' \notin {"idle", "number"} => placed' = <<>>
    BY <1>1, <1>2, AtWork, ActiveAre
  <2>3. pc' = "grant_new" => call'.kind = "insert"
    BY <1>2, AtWork
  <2>4. pc' \in {"grant_more", "number"} => \E i \in DOMAIN ext' : ext'[i].owner = call'.bucket
    BY <1>1, <1>2, <1>6, AtWork DEF Owned
  <2>5. /\ op'.kind \in {"insert", "update"} /\ op'.bucket \in Buckets
        /\ op'.len \in Lens /\ op'.ver \in Nat
        /\ op'.kind = "update" => op'.id \in Ids
        /\ placed' \in Seq([off : Cells, len : Lens]) /\ numbers' \in Seq(Ids) /\ ops' \in Nat
    BY <1>1, <1>2, AtWork
  <2>6. pc' = "idle" /\ placed' # <<>> => op'.kind # "insert"
    BY <1>1, <1>2, ActiveAre
  <2> QED  BY <1>2, <1>6, <2>1, <2>2, <2>3, <2>4, <2>5, <2>6 DEF CallTypes
<1>8. RoomLeft'
  <2>1. pc' = "grant_new" => Room(3)'
    BY <1>1, <1>2 DEF BTypes, RoomLeft, Room
  <2>2. ASSUME pc' \in {"place", "grant_more"}
        PROVE  Len(rows') + 1 <= MaxRows /\ (NeedsRegion(reg)' => Room(2)')
    <3>1. pc \in {"place", "grant_more"} /\ call' = call
      BY <2>2
    <3>2. NeedsRegion(reg)' => NeedsRegion(reg)
      BY <1>1, <3>1, Zenon DEF NeedsRegion, HasRegion, LastRegion, RegionHasRoom
    <3>3. Room(2)' <=> Room(2)
      BY <1>1 DEF Room
    <3> QED  BY <1>1, <3>1, <3>2, <3>3 DEF BTypes, RoomLeft
  <2> QED  BY <1>2, <1>6, <2>1, <2>2 DEF RoomLeft
<1> QED  BY <1>3, <1>4, <1>5, <1>7, <1>8, AroundStep

\* The end of grant_extent: a new extent of sz units from st on, and the row of it.
LEMMA GrantStepTypes ==
    ASSUME BTypes, Around, Granting, NEW e \in Seq(ExtentsIn(fileSize')), DOMAIN e = DOMAIN ext,
           \A i \in DOMAIN ext : e[i].owner = ext[i].owner,
           NEW st \in Nat, NEW sz \in Nat, st >= PAGE, st + sz <= fileSize',
           fileSize' \in Nat, initial_size <= fileSize', fileSize' <= allocEnd',
           allocEnd' \in Nat, allocEnd <= allocEnd', allocEnd' % PAGE = 0,
           pc = "grant_more" => call.len <= sz,
           Grant(e, [start |-> st, size |-> sz])
    PROVE  BTypes'
<1> DEFINE used == IF pc = "grant_more" THEN call.len ELSE 0
           x == [owner |-> call.bucket, start |-> st, size |-> sz, used |-> used]
           row == [kind |-> "D", bucket |-> call.bucket, start |-> st, size |-> sz]
<1>1. /\ ext' = Append(e, x) /\ rows' = Append(rows, row) /\ grantCount' = grantCount + 1
      /\ order' = order /\ reg' = reg /\ nextRegion' = nextRegion /\ call' = call /\ numbers' = numbers
      /\ \/ pc = "grant_more" /\ placed' = Append(placed, [off |-> st, len |-> call.len]) /\ pc' = "number"
         \/ pc = "grant_new" /\ pc' = "region" /\ placed' = placed
  BY ActiveAre DEF Grant, PushRow
<1>2. hpc = "alloc" /\ hpc' = "alloc" /\ op' = op /\ ops' = ops /\ allocEnd' <= MaxCell
  BY DEF Around
<1>3. pc \in Active /\ pc \notin {"idle", "number"} /\ pc # "region"
  BY ActiveAre
<1>4. /\ call.bucket \in Buckets /\ call.len \in Lens /\ call.len \in Nat /\ call.len > 0
      /\ placed = <<>> /\ Len(rows) \in Nat /\ rows \in Seq(RowsIn(allocEnd)) /\ allocEnd \in Nat
      /\ grantCount \in Nat
  BY <1>2, <1>3, AtWork
<1>5. x \in ExtentsIn(fileSize')
  <2>1. used \in Nat /\ used <= sz
    BY <1>4
  <2> HIDE DEF used
  <2>2. x \in ExtentType
    BY <1>4, <2>1 DEF ExtentType
  <2> QED  BY <2>1, <2>2, ExtentsInIs
<1>6. row \in RowsIn(allocEnd')
  <2>1. st + sz <= allocEnd'
    BY BoundsAre
  <2> QED  BY <1>4, <2>1 DEF RowsIn, RowType
<1>7. rows' \in Seq(RowsIn(allocEnd')) /\ Len(rows') = Len(rows) + 1
  <2>1. RowsIn(allocEnd) \subseteq RowsIn(allocEnd')
    BY <1>4, RowsGrow
  <2>2. rows \in Seq(RowsIn(allocEnd'))
    BY <1>4, <2>1
  <2> HIDE DEF row
  <2> QED  BY <1>1, <1>6, <2>2
<1>8. ext' \in Seq(ExtentsIn(fileSize')) /\ Len(ext') = Len(ext) + 1 /\ Len(ext) \in Nat
      /\ ext'[Len(ext')].owner = call.bucket
      /\ DOMAIN ext' = 1 .. Len(ext) + 1 /\ DOMAIN ext = 1 .. Len(ext)
      /\ \A i \in DOMAIN ext : ext'[i].owner = ext[i].owner
  <2>1. ext \in Seq(ExtentType)
    BY <1>2, AtWork
  <2>2. Len(e) = Len(ext) /\ Len(ext) \in Nat /\ DOMAIN ext = 1 .. Len(ext)
    BY <2>1
  <2>3. x.owner = call.bucket
    OBVIOUS
  <2> HIDE DEF x
  <2> QED  BY <1>1, <1>5, <2>2, <2>3
<1>9. ASSUME NEW i \in DOMAIN ext' PROVE i \in DOMAIN ext \/ ext'[i].owner = call.bucket
  BY <1>8
<1> HIDE DEF x, row
<1>10. AllocTypes'
  <2>1. order' \in Seq(Buckets) /\ reg' \in Seq(RegionsIn) /\ nextRegion' \in Nat
    BY <1>1, <1>2, AtWork
  <2>2. grantCount' \in Nat /\ grantCount' # 0
    BY <1>1, <1>4
  <2> QED  BY <1>2, <1>8, <2>1, <2>2 DEF AllocTypes, ExtentsIn, RegionsIn
<1>11. \A i \in DOMAIN ext : HasRegion(reg, ext[i].owner)
  BY <1>2, <1>3, AtWork
<1>12. OwnersHoused'
  <2>1. ASSUME NEW i \in DOMAIN ext'
        PROVE  HasRegion(reg, ext'[i].owner) \/ (pc' = "region" /\ ext'[i].owner = call.bucket)
    <3>1. CASE i \in DOMAIN ext
      BY <1>8, <1>11, <3>1
    <3>2. CASE ext'[i].owner = call.bucket /\ pc = "grant_new"
      BY <1>1, <3>2
    <3>3. CASE ext'[i].owner = call.bucket /\ pc = "grant_more"
      BY <1>2, <1>11, <3>3, AtWork
    <3> QED  BY <1>1, <1>9, <3>1, <3>2, <3>3
  <2> QED  BY <1>1, <1>2, <2>1 DEF OwnersHoused, HasRegion
<1>13. RoomLeft' /\ Len(rows') <= MaxRows
  <2>1. CASE pc = "grant_new"
    <3>1. Room(3) /\ pc' = "region"
      BY <1>1, <2>1 DEF BTypes, RoomLeft
    <3>2. Room(2)' /\ Len(rows') <= MaxRows
      BY <1>1, <1>4, <1>7, <3>1, BoundsAre DEF Room
    <3> QED  BY <1>2, <3>1, <3>2 DEF RoomLeft
  <2>2. CASE pc = "grant_more"
    <3>1. Len(rows) + 1 <= MaxRows /\ (NeedsRegion(reg) => Room(2)) /\ pc' = "number"
      BY <1>1, <2>2 DEF BTypes, RoomLeft
    <3>2. NeedsRegion(reg)' => NeedsRegion(reg)
      BY <1>1, Zenon DEF NeedsRegion, HasRegion, LastRegion, RegionHasRoom
    <3>3. Room(2) => Room(1)'
      BY <1>1, <1>4, <1>7, BoundsAre DEF Room
    <3>4. Len(rows') <= MaxRows
      BY <1>7, <3>1
    <3> QED  BY <1>2, <3>1, <3>2, <3>3, <3>4 DEF RoomLeft
  <2> QED  BY <1>1, <2>1, <2>2
<1>14. CallTypes'
  <2>1. placed' \in Seq([off : Cells, len : Lens]) /\ (pc' # "number" => placed' = <<>>)
    <3>1. CASE pc = "grant_new"
      BY <1>1, <1>4, <3>1
    <3>2. CASE pc = "grant_more"
      <4>1. st \in Cells
        <5>1. call.len <= sz /\ st + sz <= MaxCell
          BY <1>2, <3>2, BoundsAre
        <5> QED  BY <1>4, <5>1, BoundsAre
      <4> DEFINE r == [off |-> st, len |-> call.len]
      <4>2. r \in [off : Cells, len : Lens]
        BY <1>4, <4>1
      <4> HIDE DEF r
      <4>3. placed' = Append(<<>>, r) /\ pc' = "number"
        BY <1>1, <1>4, <3>2 DEF r
      <4> QED  BY <4>2, <4>3
    <3> QED  BY <1>1, <3>1, <3>2
  <2>2. \E i \in DOMAIN ext' : ext'[i].owner = call'.bucket
    <3>1. Len(ext') \in DOMAIN ext'
      BY <1>8
    <3> QED  BY <1>1, <1>8, <3>1
  <2>3. /\ op'.kind \in {"insert", "update"} /\ op'.bucket \in Buckets
        /\ op'.len \in Lens /\ op'.ver \in Nat /\ (op'.kind = "update" => op'.id \in Ids)
        /\ numbers' \in Seq(Ids) /\ ops' \in Nat
        /\ call' = [kind |-> op'.kind, bucket |-> op'.bucket, len |-> op'.len]
    BY <1>1, <1>2, <1>3, AtWork
  <2>4. pc' \in {"number", "region"}
    BY <1>1
  <2> QED  BY <1>2, <2>1, <2>2, <2>3, <2>4, ActiveAre DEF CallTypes
<1>15. Len(rows) <= Len(rows')
  BY <1>4, <1>7
<1> QED  BY <1>7, <1>10, <1>12, <1>13, <1>14, <1>15, AroundStep

\* Extents stay in a file that grows.
LEMMA ExtentsGrow ==
    ASSUME NEW f \in Nat, NEW g \in Nat, f <= g, NEW e \in Seq(ExtentsIn(f))
    PROVE  e \in Seq(ExtentsIn(g))
<1>1. ASSUME NEW x \in ExtentsIn(f) PROVE x \in ExtentsIn(g)
  <2>1. x \in ExtentType /\ x.start >= PAGE /\ x.start + x.size <= f /\ x.used <= x.size
    BY ExtentsInIs
  <2>2. x.start \in Nat /\ x.size \in Nat
    BY <2>1, ExtentFields
  <2>3. x.start + x.size <= g
    BY <2>1, <2>2
  <2> QED  BY <2>1, <2>3, ExtentsInIs
<1> QED  BY <1>1

\* The file after ensure_alloc is whole pages, and reaches as far as was asked for.
LEMMA EnsureIs ==
    ASSUME allocEnd \in Nat, allocEnd % PAGE = 0, NEW upto \in Nat, NEW chunk \in Nat
    PROVE  /\ EnsureAlloc(upto, chunk) \in Nat /\ upto <= EnsureAlloc(upto, chunk)
           /\ allocEnd <= EnsureAlloc(upto, chunk) /\ EnsureAlloc(upto, chunk) % PAGE = 0
<1> DEFINE y == IF upto > allocEnd + chunk THEN upto ELSE allocEnd + chunk
           z == PageUp(y)
<1>1. y \in Nat /\ upto <= y
  OBVIOUS
<1>2. upto > allocEnd => allocEnd <= y
  OBVIOUS
<1> HIDE DEF y
<1>3. z \in Nat /\ y <= z /\ z % PAGE = 0
  BY <1>1, PageBounds, PagesBelow
<1>4. EnsureAlloc(upto, chunk) = IF upto <= allocEnd THEN allocEnd ELSE z
  BY DEF EnsureAlloc, y
<1> HIDE DEF z
<1>5. CASE upto <= allocEnd
  BY <1>4, <1>5
<1>6. CASE ~(upto <= allocEnd)
  BY <1>1, <1>2, <1>3, <1>4, <1>6
<1> QED  BY <1>5, <1>6

\* The first extent is the file behind its header page.
LEMMA FirstGrantTypes ==
    ASSUME BTypes, Around, FirstGrant
    PROVE  BTypes'
<1>1. /\ Granting /\ grantCount = 0 /\ fileSize' = fileSize /\ allocEnd' = allocEnd
      /\ Grant(ext, [start |-> PAGE, size |-> fileSize - PAGE])
  BY DEF FirstGrant
<1>2. hpc = "alloc"
  BY DEF Around
<1>3. /\ ext \in Seq(ExtentsIn(fileSize)) /\ ext = <<>> /\ fileSize \in Nat /\ PAGE <= fileSize
      /\ initial_size <= fileSize /\ fileSize <= allocEnd /\ allocEnd \in Nat /\ allocEnd % PAGE = 0
  BY <1>1, <1>2, AtWork
<1>4. pc # "grant_more"
  BY <1>2, <1>3, AtWork
<1> DEFINE sz == fileSize - PAGE
<1>5. sz \in Nat /\ PAGE + sz <= fileSize' /\ PAGE \in Nat /\ PAGE >= PAGE /\ allocEnd <= allocEnd'
  BY <1>1, <1>3, BoundsAre
<1>6. Grant(ext, [start |-> PAGE, size |-> sz])
  BY <1>1
<1>7. ext \in Seq(ExtentsIn(fileSize'))
  BY <1>1, <1>3
<1> HIDE DEF sz
<1> QED  BY <1>1, <1>3, <1>4, <1>5, <1>6, <1>7, GrantStepTypes

\* The file grows by the new extent.
LEMMA GrowTypes ==
    ASSUME BTypes, Around, Grow
    PROVE  BTypes'
<1>1. /\ Granting /\ Grant(ext, [start |-> fileSize, size |-> grow])
      /\ fileSize' = fileSize + grow /\ allocEnd' = EnsureAlloc(fileSize + grow, grow)
  BY DEF Grow
<1>2. hpc = "alloc"
  BY DEF Around
<1>3. /\ ext \in Seq(ExtentsIn(fileSize)) /\ fileSize \in Nat /\ PAGE <= fileSize
      /\ initial_size <= fileSize /\ fileSize <= allocEnd /\ allocEnd \in Nat /\ allocEnd % PAGE = 0
      /\ call.len \in Lens
  BY <1>1, <1>2, AtWork, ActiveAre
<1>4. grow \in Nat /\ call.len <= grow
  BY <1>3, NeedCovers
<1>5. fileSize' \in Nat /\ fileSize <= fileSize' /\ fileSize + grow <= fileSize' /\ initial_size <= fileSize'
      /\ fileSize >= PAGE
  BY <1>1, <1>3, <1>4, BoundsAre
<1>6. allocEnd' \in Nat /\ fileSize' <= allocEnd' /\ allocEnd <= allocEnd' /\ allocEnd' % PAGE = 0
  BY <1>1, <1>3, <1>4, <1>5, EnsureIs
<1>7. ext \in Seq(ExtentsIn(fileSize'))
  BY <1>3, <1>5, ExtentsGrow
<1> QED  BY <1>1, <1>3, <1>4, <1>5, <1>6, <1>7, GrantStepTypes

\* The new extent is the tail of another bucket's last one.
LEMMA SplitTypes ==
    ASSUME BTypes, Around, Split
    PROVE  BTypes'
<1> DEFINE v == LastExtent(victim)
           c == Cut(Free(ext[v]))
           e == Shorter(ext, v, c)
           st == ext[v].start + ext[v].size - c
<1>1. /\ Granting /\ Owned(victim) # {} /\ Free(ext[v]) >= need
      /\ Grant(e, [start |-> st, size |-> c]) /\ fileSize' = fileSize /\ allocEnd' = allocEnd
  BY DEF Split, Shorter
<1>2. hpc = "alloc"
  BY DEF Around
<1>3. /\ ext \in Seq(ExtentsIn(fileSize)) /\ ext \in Seq(ExtentType)
      /\ fileSize \in Nat /\ PAGE <= fileSize
      /\ initial_size <= fileSize /\ fileSize <= allocEnd /\ allocEnd \in Nat /\ allocEnd % PAGE = 0
      /\ call.len \in Lens
  BY <1>1, <1>2, AtWork, ActiveAre
<1>4. v \in DOMAIN ext
  BY <1>1, <1>3, LastExtentIn
<1>5. ext[v] \in ExtentsIn(fileSize)
  BY <1>3, <1>4
<1>6. /\ ext[v] \in ExtentType /\ ext[v].start >= PAGE /\ ext[v].start + ext[v].size <= fileSize
      /\ ext[v].used <= ext[v].size
  BY <1>5, ExtentsInIs
<1>7. need \in Nat /\ call.len <= need /\ call.len \in Nat
  BY <1>3, NeedCovers
<1>8. c \in Nat /\ need <= c /\ ext[v].used + c <= ext[v].size
  BY <1>1, <1>6, <1>7, CutFits
<1>9. ext[v].start \in Nat /\ ext[v].size \in Nat /\ ext[v].used \in Nat
  BY <1>6, ExtentFields
<1> HIDE DEF c, v
<1>10. st \in Nat /\ st >= PAGE /\ st + c <= fileSize /\ c <= ext[v].size /\ call.len <= c
  <2> DEFINE a == ext[v].start
             z == ext[v].size
             u == ext[v].used
  <2>1. /\ a \in Nat /\ z \in Nat /\ u \in Nat /\ a >= PAGE /\ a + z <= fileSize /\ u + c <= z
        /\ c \in Nat /\ st = a + z - c /\ PAGE \in Nat
    BY <1>6, <1>8, <1>9, BoundsAre
  <2> HIDE DEF a, z, u, st
  <2>2. st \in Nat /\ st >= PAGE /\ st + c <= fileSize /\ c <= z
    BY <1>3, <2>1
  <2> QED  BY <1>7, <1>8, <2>2 DEF z
<1> HIDE DEF st
<1>11. /\ e \in Seq(ExtentType) /\ DOMAIN e = DOMAIN ext
       /\ \A i \in DOMAIN ext : /\ e[i].owner = ext[i].owner /\ e[i].start = ext[i].start
                                /\ e[i].used = ext[i].used /\ (i # v => e[i].size = ext[i].size)
       /\ e[v].size = ext[v].size - c
  BY <1>3, <1>4, <1>8, <1>10, ShorterIs
<1> HIDE DEF e
<1>12. ASSUME NEW i \in DOMAIN ext PROVE e[i] \in ExtentsIn(fileSize)
  <2>1. e[i] \in ExtentType
    BY <1>11
  <2>2. /\ ext[i] \in ExtentType /\ ext[i].start >= PAGE /\ ext[i].start + ext[i].size <= fileSize
        /\ ext[i].used <= ext[i].size
    BY <1>3, ExtentsInIs
  <2>3. ext[i].start \in Nat /\ ext[i].size \in Nat /\ ext[i].used \in Nat
    BY <2>2, ExtentFields
  <2>4. CASE i # v
    <3>1. e[i].start = ext[i].start /\ e[i].used = ext[i].used /\ e[i].size = ext[i].size
      BY <1>11, <2>4
    <3> QED  BY <2>1, <2>2, <3>1, ExtentsInIs
  <2>5. CASE i = v
    <3>1. e[i].start = ext[i].start /\ e[i].used = ext[i].used /\ e[i].size = ext[i].size - c
      BY <1>11, <2>5
    <3> DEFINE a == ext[i].start
               z == ext[i].size
               u == ext[i].used
    <3>2. /\ a \in Nat /\ z \in Nat /\ u \in Nat /\ a >= PAGE /\ a + z <= fileSize /\ u + c <= z
          /\ c \in Nat
      BY <1>8, <2>2, <2>3, <2>5
    <3>3. e[i].start = a /\ e[i].used = u /\ e[i].size = z - c
      BY <3>1
    <3> HIDE DEF a, z, u
    <3>4. e[i].start >= PAGE /\ e[i].start + e[i].size <= fileSize /\ e[i].used <= e[i].size
      BY <1>3, <3>2, <3>3
    <3> QED  BY <2>1, <3>4, ExtentsInIs
  <2> QED  BY <2>4, <2>5
<1>13. e \in Seq(ExtentsIn(fileSize'))
  <2>1. \A i \in DOMAIN e : e[i] \in ExtentsIn(fileSize)
    BY <1>11, <1>12
  <2>2. e \in Seq(ExtentsIn(fileSize))
    BY <1>11, <2>1
  <2> QED  BY <1>1, <2>2
<1>14. st + c <= fileSize' /\ allocEnd <= allocEnd' /\ fileSize' <= allocEnd' /\ allocEnd' \in Nat
       /\ fileSize' \in Nat /\ initial_size <= fileSize' /\ allocEnd' % PAGE = 0
  BY <1>1, <1>3, <1>10
<1>15. Grant(e, [start |-> st, size |-> c])
  BY <1>1
<1> QED  BY <1>1, <1>8, <1>10, <1>11, <1>13, <1>14, <1>15, GrantStepTypes

\* A record is placed within the last extent of its bucket.
LEMMA PlaceTypes ==
    ASSUME BTypes, Around, Place
    PROVE  BTypes'
<1> DEFINE v == LastExtent(call.bucket)
           off == ext[v].start + ext[v].used
           r == [off |-> off, len |-> call.len]
<1>1. /\ pc = "place" /\ Owned(call.bucket) # {} /\ ext[v].used + call.len <= ext[v].size
      /\ ext' = Fuller(ext, v, call.len) /\ placed' = Append(placed, r) /\ pc' = "number"
      /\ order' = order /\ reg' = reg /\ grantCount' = grantCount /\ fileSize' = fileSize
      /\ allocEnd' = allocEnd /\ nextRegion' = nextRegion /\ rows' = rows
      /\ call' = call /\ numbers' = numbers
  BY DEF Place, Fuller
<1>2. hpc = "alloc" /\ hpc' = "alloc" /\ op' = op /\ ops' = ops /\ pc \in Active
  BY <1>1, ActiveAre DEF Around
<1>3. /\ ext \in Seq(ExtentsIn(fileSize)) /\ ext \in Seq(ExtentType) /\ fileSize \in Nat
      /\ fileSize <= allocEnd /\ allocEnd \in Nat /\ allocEnd <= MaxCell
      /\ call.len \in Lens /\ call.len \in Nat /\ call.len > 0 /\ placed = <<>>
  BY <1>1, <1>2, AtWork
<1>4. v \in DOMAIN ext
  BY <1>1, <1>3, LastExtentIn
<1>5. /\ ext[v] \in ExtentType /\ ext[v].start >= PAGE /\ ext[v].start + ext[v].size <= fileSize
      /\ ext[v].used <= ext[v].size
  BY <1>3, <1>4, ExtentsInIs
<1>6. ext[v].start \in Nat /\ ext[v].size \in Nat /\ ext[v].used \in Nat
  BY <1>5, ExtentFields
<1> HIDE DEF v
<1>7. /\ ext' \in Seq(ExtentType) /\ DOMAIN ext' = DOMAIN ext
      /\ \A i \in DOMAIN ext : /\ ext'[i].owner = ext[i].owner /\ ext'[i].start = ext[i].start
                               /\ ext'[i].size = ext[i].size /\ (i # v => ext'[i].used = ext[i].used)
      /\ ext'[v].used = ext[v].used + call.len
  <2> DEFINE g == Fuller(ext, v, call.len)
  <2>1. /\ g \in Seq(ExtentType) /\ DOMAIN g = DOMAIN ext
        /\ \A i \in DOMAIN ext : /\ g[i].owner = ext[i].owner /\ g[i].start = ext[i].start
                                 /\ g[i].size = ext[i].size /\ (i # v => g[i].used = ext[i].used)
        /\ g[v].used = ext[v].used + call.len
    <3> DEFINE l == call.len
    <3>1. l \in Nat
      BY <1>3
    <3> HIDE DEF l
    <3>2. \A c \in Nat :
             /\ Fuller(ext, v, c) \in Seq(ExtentType) /\ DOMAIN Fuller(ext, v, c) = DOMAIN ext
             /\ \A i \in DOMAIN ext :
                   /\ Fuller(ext, v, c)[i].owner = ext[i].owner
                   /\ Fuller(ext, v, c)[i].start = ext[i].start
                   /\ Fuller(ext, v, c)[i].size = ext[i].size
                   /\ (i # v => Fuller(ext, v, c)[i].used = ext[i].used)
             /\ Fuller(ext, v, c)[v].used = ext[v].used + c
      BY <1>3, <1>4, FullerIs
    <3> QED  BY <3>1, <3>2, Zenon DEF l
  <2>2. ext' = g
    BY <1>1
  <2> HIDE DEF g
  <2> QED  BY <2>1, <2>2
<1>8. off \in Cells
  <2> DEFINE a == ext[v].start
             z == ext[v].size
             u == ext[v].used
             l == call.len
  <2>1. /\ a \in Nat /\ z \in Nat /\ u \in Nat /\ l \in Nat /\ l > 0 /\ a >= PAGE
        /\ a + z <= fileSize /\ u + l <= z /\ off = a + u /\ PAGE \in Nat /\ MaxCell \in Nat
    BY <1>1, <1>3, <1>5, <1>6, BoundsAre
  <2> HIDE DEF a, z, u, l, off
  <2>2. off \in Nat /\ off >= PAGE /\ off < MaxCell
    BY <1>3, <2>1
  <2> QED  BY <2>2, BoundsAre
<1> HIDE DEF off
<1>9. ASSUME NEW i \in DOMAIN ext PROVE ext'[i] \in ExtentsIn(fileSize)
  <2>1. ext'[i] \in ExtentType
    BY <1>7
  <2>2. /\ ext[i] \in ExtentType /\ ext[i].start >= PAGE /\ ext[i].start + ext[i].size <= fileSize
        /\ ext[i].used <= ext[i].size
    BY <1>3, ExtentsInIs
  <2>3. ext'[i].start = ext[i].start /\ ext'[i].size = ext[i].size
    BY <1>7
  <2>4. ext'[i].used <= ext'[i].size
    <3>1. CASE i # v
      BY <1>7, <2>2, <2>3, <3>1
    <3>2. CASE i = v
      BY <1>1, <1>7, <2>3, <3>2 DEF v
    <3> QED  BY <3>1, <3>2
  <2>5. ext'[i].start >= PAGE /\ ext'[i].start + ext'[i].size <= fileSize
    BY <2>2, <2>3
  <2> QED  BY <2>1, <2>4, <2>5, ExtentsInIs
<1>10. ext' \in Seq(ExtentsIn(fileSize))
  <2>1. \A i \in DOMAIN ext' : ext'[i] \in ExtentsIn(fileSize)
    BY <1>7, <1>9
  <2> QED  BY <1>7, <2>1
<1>11. AllocTypes'
  <2>1. ExtentsIn(fileSize)' = ExtentsIn(fileSize) /\ RegionsIn' = RegionsIn
    BY <1>1 DEF ExtentsIn, RegionsIn
  <2>2. grantCount' = 0 => ext' = <<>>
    <3>1. grantCount # 0
      BY <1>2, <1>4, AtWork
    <3> QED  BY <1>1, <3>1
  <2> QED  BY <1>1, <1>10, <2>1, <2>2, Zenon DEF BTypes, AllocTypes
<1>12. OwnersHoused'
  <2>1. \A i \in DOMAIN ext' : HasRegion(reg', ext'[i].owner)
    BY <1>1, <1>2, <1>7, AtWork
  <2> QED  BY <1>2, <2>1 DEF OwnersHoused, HasRegion
<1>13. RoomLeft'
  <2>1. NeedsRegion(reg) => Room(2)
    BY <1>1 DEF BTypes, RoomLeft
  <2>2. NeedsRegion(reg)' => NeedsRegion(reg)
    BY <1>1, Zenon DEF NeedsRegion, HasRegion, LastRegion, RegionHasRoom
  <2>3. Room(2) => Room(1)'
    BY <1>1, <1>2, AtWork, BoundsAre DEF Room
  <2> QED  BY <1>1, <1>2, <2>1, <2>2, <2>3 DEF RoomLeft
<1>14. CallTypes'
  <2>1. placed' \in Seq([off : Cells, len : Lens])
    <3>1. r \in [off : Cells, len : Lens]
      BY <1>3, <1>8
    <3> HIDE DEF r
    <3> QED  BY <1>1, <1>3, <3>1
  <2>2. \E i \in DOMAIN ext' : ext'[i].owner = call'.bucket
    <3>1. PICK i \in DOMAIN ext : ext[i].owner = call.bucket
      BY <1>1 DEF Owned
    <3> QED  BY <1>1, <1>7, <3>1
  <2>3. /\ op'.kind \in {"insert", "update"} /\ op'.bucket \in Buckets
        /\ op'.len \in Lens /\ op'.ver \in Nat /\ (op'.kind = "update" => op'.id \in Ids)
        /\ numbers' \in Seq(Ids) /\ ops' \in Nat
        /\ call' = [kind |-> op'.kind, bucket |-> op'.bucket, len |-> op'.len]
    BY <1>1, <1>2, AtWork
  <2> QED  BY <1>1, <1>2, <2>1, <2>2, <2>3, ActiveAre DEF CallTypes
<1>15. allocEnd' \in Nat /\ allocEnd <= allocEnd' /\ rows' \in Seq(RowsIn(allocEnd'))
       /\ Len(rows') <= MaxRows /\ Len(rows) <= Len(rows')
  <2>1. Len(rows) <= Len(rows) /\ allocEnd <= allocEnd
    BY <1>2, AtWork
  <2> QED  BY <1>1, <1>2, <2>1, AtWork
<1> QED  BY <1>11, <1>12, <1>13, <1>14, <1>15, AroundStep

\* The last region of a bucket that has one.
LEMMA LastRegionOf ==
    ASSUME NEW V, reg \in Seq(V), NEW b, HasRegion(reg, b)
    PROVE  /\ LastRegion(b) \in DOMAIN reg /\ reg[LastRegion(b)].owner = b
           /\ \A i \in DOMAIN reg : reg[i].owner = b => i <= LastRegion(b)
<1> DEFINE R == {i \in DOMAIN reg : reg[i].owner = b}
<1>1. R # {} /\ R \subseteq 1 .. Len(reg) /\ Len(reg) \in Nat
  BY DEF HasRegion
<1>2. LastRegion(b) = CHOOSE i \in R : \A j \in R : j <= i
  BY DEF LastRegion
<1>3. \E i \in R : \A j \in R : j <= i
  <2> HIDE DEF R
  <2> QED  BY <1>1, LastExists
<1>4. LastRegion(b) \in R /\ \A j \in R : j <= LastRegion(b)
  <2> HIDE DEF R
  <2> QED  BY <1>2, <1>3
<1> QED  BY <1>4

\* grant_region: a row and a region, when there is room for them.
LEMMA NewRegionTypes ==
    ASSUME BTypes, hpc = "alloc", call.bucket \in Buckets, Room(1), NEW u \in Nat, NewRegion(u)
    PROVE  /\ AllocTypes' /\ rows' \in Seq(RowsIn(allocEnd')) /\ Len(rows') = Len(rows) + 1
           /\ allocEnd' = allocEnd /\ order' = order /\ ext' = ext
           /\ DOMAIN reg' = 1 .. Len(reg) + 1 /\ DOMAIN reg = 1 .. Len(reg) /\ Len(reg) \in Nat
           /\ \A i \in DOMAIN reg : reg'[i] = reg[i]
           /\ reg'[Len(reg) + 1] = [owner |-> call.bucket, start |-> nextRegion, used |-> u]
           /\ nextRegion \in Ids /\ nextRegion' = nextRegion + region_slots
           /\ \A b : HasRegion(reg, b) => HasRegion(reg', b)
           /\ HasRegion(reg', call.bucket)
<1> DEFINE x == [owner |-> call.bucket, start |-> nextRegion, used |-> u]
           row == [kind |-> "S", bucket |-> call.bucket, start |-> nextRegion, size |-> region_slots]
<1>1. /\ reg' = Append(reg, x) /\ rows' = Append(rows, row)
      /\ nextRegion' = nextRegion + region_slots
      /\ order' = order /\ ext' = ext /\ grantCount' = grantCount /\ fileSize' = fileSize
      /\ allocEnd' = allocEnd
  BY DEF NewRegion, PushRow
<1>2. /\ nextRegion \in Nat /\ region_slots \in Nat /\ region_slots > 0 /\ MaxIds \in Nat
      /\ nextRegion + region_slots <= MaxIds /\ reg \in Seq(RegionsIn)
      /\ rows \in Seq(RowsIn(allocEnd))
  BY AtWork, BoundsAre DEF Room
<1>3. x \in RegionsIn /\ row \in RowsIn(allocEnd)
  BY <1>2 DEF RegionsIn, RawRegion, RowsIn, RowType
<1>4. x.owner = call.bucket
  OBVIOUS
<1> HIDE DEF x, row
<1>5. /\ reg' \in Seq(RegionsIn) /\ rows' \in Seq(RowsIn(allocEnd)) /\ Len(rows') = Len(rows) + 1
      /\ Len(reg) \in Nat /\ DOMAIN reg = 1 .. Len(reg) /\ DOMAIN reg' = 1 .. Len(reg) + 1
      /\ reg'[Len(reg) + 1] = x
      /\ \A i \in DOMAIN reg : reg'[i] = reg[i]
  BY <1>1, <1>2, <1>3
<1>6. nextRegion \in Ids /\ nextRegion' \in Nat
  BY <1>1, <1>2, BoundsAre
<1>7. AllocTypes'
  <2>1. ExtentsIn(fileSize)' = ExtentsIn(fileSize) /\ RegionsIn' = RegionsIn
    BY <1>1 DEF ExtentsIn, RegionsIn
  <2> QED  BY <1>1, <1>5, <1>6, <2>1, Zenon DEF BTypes, AllocTypes
<1>8. \A b : HasRegion(reg, b) => HasRegion(reg', b)
  <2>1. \A i \in DOMAIN reg : i \in DOMAIN reg'
    BY <1>5
  <2> QED  BY <1>5, <2>1 DEF HasRegion
<1>9. HasRegion(reg', call.bucket)
  <2>1. Len(reg) + 1 \in DOMAIN reg'
    BY <1>5
  <2> QED  BY <1>4, <1>5, <2>1 DEF HasRegion
<1> QED  BY <1>1, <1>5, <1>6, <1>7, <1>8, <1>9 DEF x

\* A new bucket gets its first region, which has room for the number of the call.
LEMMA GrantRegionTypes ==
    ASSUME BTypes, Around, GrantRegion
    PROVE  BTypes'
<1>1. /\ pc = "region" /\ NewRegion(0) /\ pc' = "place" /\ call' = call /\ placed' = placed
      /\ numbers' = numbers
  BY DEF GrantRegion, history
<1>2. hpc = "alloc" /\ hpc' = "alloc" /\ op' = op /\ ops' = ops /\ pc \in Active
  BY <1>1, ActiveAre DEF Around
<1>3. call.bucket \in Buckets /\ placed = <<>> /\ Len(rows) \in Nat /\ allocEnd \in Nat
  BY <1>1, <1>2, AtWork
<1>4. Room(2)
  BY <1>1 DEF BTypes, RoomLeft
<1>5. Room(1) /\ Len(rows) + 2 <= MaxRows
  BY <1>3, <1>4, BoundsAre DEF Room
<1>6. /\ AllocTypes' /\ rows' \in Seq(RowsIn(allocEnd')) /\ Len(rows') = Len(rows) + 1
      /\ allocEnd' = allocEnd /\ ext' = ext
      /\ DOMAIN reg' = 1 .. Len(reg) + 1 /\ Len(reg) \in Nat
      /\ reg'[Len(reg) + 1] = [owner |-> call.bucket, start |-> nextRegion, used |-> 0]
      /\ \A b : HasRegion(reg, b) => HasRegion(reg', b)
      /\ HasRegion(reg', call.bucket)
  BY <1>1, <1>2, <1>3, <1>5, NewRegionTypes
<1>7. OwnersHoused'
  <2>1. \A i \in DOMAIN ext : HasRegion(reg', ext[i].owner)
    BY <1>2, <1>6, AtWork
  <2> QED  BY <1>2, <1>6, <2>1 DEF OwnersHoused, HasRegion
<1>8. ~NeedsRegion(reg)'
  <2> DEFINE L == Len(reg) + 1
             R == {i \in DOMAIN reg' : reg'[i].owner = call.bucket}
  <2>1. L \in R /\ \A j \in R : j <= L
    BY <1>6
  <2>2. R \subseteq Nat
    BY <1>6
  <2>3. LastRegion(call.bucket)' = CHOOSE i \in R : \A j \in R : j <= i
    BY <1>1 DEF LastRegion
  <2>4. LastRegion(call.bucket)' = L
    <3> DEFINE c == CHOOSE i \in R : \A j \in R : j <= i
    <3> HIDE DEF R
    <3>1. c \in R /\ \A j \in R : j <= c
      BY <2>1
    <3> HIDE DEF c, L
    <3>2. c <= L /\ L <= c /\ c \in Nat /\ L \in Nat
      BY <2>1, <2>2, <3>1
    <3>3. c = L
      BY <3>2
    <3> QED  BY <2>3, <3>3 DEF c
  <2>5. reg'[L].used = 0
    BY <1>6
  <2>6. RegionHasRoom(reg'[L])
    BY <2>5, BoundsAre DEF RegionHasRoom
  <2>7. HasRegion(reg, call.bucket)' /\ RegionHasRoom(reg[LastRegion(call.bucket)])'
    BY <1>1, <1>6, <2>4, <2>6 DEF HasRegion, RegionHasRoom
  <2> QED  BY <2>7 DEF NeedsRegion
<1>9. RoomLeft'
  <2>1. Len(rows') + 1 <= MaxRows
    BY <1>3, <1>5, <1>6
  <2> QED  BY <1>1, <1>2, <1>8, <2>1 DEF RoomLeft
<1>10. CallTypes'
  <2>1. /\ op'.kind \in {"insert", "update"} /\ op'.bucket \in Buckets
        /\ op'.len \in Lens /\ op'.ver \in Nat /\ (op'.kind = "update" => op'.id \in Ids)
        /\ numbers' \in Seq(Ids) /\ ops' \in Nat /\ placed' \in Seq([off : Cells, len : Lens])
        /\ call' = [kind |-> op'.kind, bucket |-> op'.bucket, len |-> op'.len]
    BY <1>1, <1>2, AtWork
  <2> QED  BY <1>1, <1>2, <1>3, <2>1, ActiveAre DEF CallTypes
<1>11. Len(rows') <= MaxRows /\ Len(rows) <= Len(rows') /\ allocEnd' \in Nat /\ allocEnd <= allocEnd'
  BY <1>3, <1>5, <1>6, BoundsAre
<1> QED  BY <1>6, <1>7, <1>9, <1>10, <1>11, AroundStep

\* The number of a record lies in a region of its bucket.
LEMMA NumberTypes ==
    ASSUME BTypes, Around, Number
    PROVE  BTypes'
<1> DEFINE i == LastRegion(call.bucket)
<1>1. /\ pc = "number" /\ call.kind = "insert" /\ pc' = "idle" /\ placed' = placed
      /\ \/ /\ RegionHasRoom(reg[i])
            /\ reg' = [reg EXCEPT ![i].used = @ + 1]
            /\ numbers' = Append(numbers, reg[i].start + reg[i].used)
            /\ UNCHANGED <<order, ext, grantCount, fileSize, allocEnd, nextRegion, rows>>
         \/ /\ ~RegionHasRoom(reg[i])
            /\ NewRegion(1) /\ numbers' = Append(numbers, nextRegion)
  BY DEF Number, Return
<1>2. hpc = "alloc" /\ hpc' = "alloc" /\ op' = op /\ ops' = ops /\ pc \in Active
  BY <1>1, ActiveAre DEF Around
<1>3. /\ call.bucket \in Buckets /\ Len(rows) \in Nat /\ Len(rows) <= MaxRows /\ allocEnd \in Nat
      /\ reg \in Seq(RegionsIn) /\ numbers \in Seq(Ids)
  BY <1>2, AtWork
<1>4. HasRegion(reg, call.bucket) /\ \A j \in DOMAIN ext : HasRegion(reg, ext[j].owner)
  BY <1>1, <1>2, AtWork
<1>5. i \in DOMAIN reg
  BY <1>3, <1>4, LastRegionOf
<1>6. reg[i] \in RegionsIn
  BY <1>3, <1>5
<1>7. /\ reg[i].start \in Nat /\ reg[i].used \in Nat /\ reg[i].start + region_slots <= MaxIds
  BY <1>6 DEF RegionsIn, RawRegion
<1>8. /\ AllocTypes' /\ ext' = ext /\ allocEnd' = allocEnd
      /\ rows' \in Seq(RowsIn(allocEnd')) /\ Len(rows') <= MaxRows /\ Len(rows) <= Len(rows')
      /\ \A b : HasRegion(reg, b) => HasRegion(reg', b)
      /\ numbers' \in Seq(Ids) /\ numbers' # <<>>
  <2>1. CASE ~RegionHasRoom(reg[i])
    <3>1. NewRegion(1) /\ numbers' = Append(numbers, nextRegion)
      BY <1>1, <2>1
    <3>2. Room(1)
      BY <1>1, <2>1 DEF BTypes, RoomLeft, NeedsRegion
    <3>3. /\ AllocTypes' /\ rows' \in Seq(RowsIn(allocEnd')) /\ Len(rows') = Len(rows) + 1
          /\ allocEnd' = allocEnd /\ ext' = ext /\ nextRegion \in Ids
          /\ \A b : HasRegion(reg, b) => HasRegion(reg', b)
      BY <1>2, <1>3, <3>1, <3>2, NewRegionTypes
    <3>4. Len(rows') <= MaxRows /\ Len(rows) <= Len(rows')
      BY <1>3, <3>2, <3>3 DEF Room
    <3>5. numbers' \in Seq(Ids) /\ numbers' # <<>>
      BY <1>3, <3>1, <3>3
    <3> QED  BY <3>3, <3>4, <3>5
  <2>2. CASE RegionHasRoom(reg[i])
    <3> DEFINE x == [reg[i] EXCEPT !.used = @ + 1]
    <3>1. /\ reg' = [reg EXCEPT ![i] = x] /\ numbers' = Append(numbers, reg[i].start + reg[i].used)
          /\ order' = order /\ ext' = ext /\ grantCount' = grantCount /\ fileSize' = fileSize
          /\ allocEnd' = allocEnd /\ nextRegion' = nextRegion /\ rows' = rows
      BY <1>1, <2>2
    <3>2. x \in RegionsIn /\ x.owner = reg[i].owner
      BY <1>6 DEF RegionsIn, RawRegion
    <3> HIDE DEF x
    <3>3. reg' \in Seq(RegionsIn) /\ DOMAIN reg' = DOMAIN reg /\ \A j \in DOMAIN reg : reg'[j].owner = reg[j].owner
      BY <1>3, <1>5, <3>1, <3>2
    <3>4. reg[i].start + reg[i].used \in Ids
      <4> DEFINE s == reg[i].start
                 u == reg[i].used
      <4>1. s \in Nat /\ u \in Nat /\ s + region_slots <= MaxIds /\ u < region_slots
        BY <1>7, <2>2 DEF RegionHasRoom
      <4> HIDE DEF s, u
      <4>2. s + u \in Ids
        BY <4>1, BoundsAre
      <4> QED  BY <4>2 DEF s, u
    <3>5. numbers' \in Seq(Ids) /\ numbers' # <<>>
      BY <1>3, <3>1, <3>4
    <3>6. AllocTypes'
      <4>1. ExtentsIn(fileSize)' = ExtentsIn(fileSize) /\ RegionsIn' = RegionsIn
        BY <3>1 DEF ExtentsIn, RegionsIn
      <4> QED  BY <3>1, <3>3, <4>1, Zenon DEF BTypes, AllocTypes
    <3>7. \A b : HasRegion(reg, b) => HasRegion(reg', b)
      BY <3>3 DEF HasRegion
    <3>8. rows' \in Seq(RowsIn(allocEnd')) /\ Len(rows') <= MaxRows /\ Len(rows) <= Len(rows')
      <4>1. Len(rows) <= Len(rows)
        BY <1>3
      <4> QED  BY <1>2, <3>1, <4>1, AtWork
    <3> QED  BY <3>1, <3>5, <3>6, <3>7, <3>8
  <2> QED  BY <2>1, <2>2
<1>9. OwnersHoused'
  <2>1. \A j \in DOMAIN ext' : HasRegion(reg', ext'[j].owner)
    BY <1>4, <1>8
  <2> QED  BY <1>2, <2>1 DEF OwnersHoused, HasRegion
<1>10. RoomLeft'
  BY <1>1, <1>2 DEF RoomLeft
<1>11. CallTypes'
  <2>1. /\ op'.kind \in {"insert", "update"} /\ op'.bucket \in Buckets
        /\ op'.len \in Lens /\ op'.ver \in Nat /\ (op'.kind = "update" => op'.id \in Ids)
        /\ ops' \in Nat /\ placed' \in Seq([off : Cells, len : Lens])
    BY <1>1, <1>2, AtWork
  <2> QED  BY <1>1, <1>2, <1>8, <2>1, ActiveAre DEF CallTypes
<1>12. allocEnd' \in Nat /\ allocEnd <= allocEnd'
  BY <1>3, <1>8
<1> QED  BY <1>8, <1>9, <1>10, <1>11, <1>12, AroundStep

\* alloc_update returns without a number.
LEMMA UpdateReturnsTypes ==
    ASSUME BTypes, Around, UpdateReturns
    PROVE  BTypes'
<1>1. /\ pc = "number" /\ call.kind = "update" /\ pc' = "idle" /\ placed' = placed /\ numbers' = numbers
      /\ UNCHANGED <<order, ext, reg, fileSize, allocEnd, nextRegion, rows>> /\ grantCount' = grantCount
  BY DEF UpdateReturns, Return, allocator
<1>2. hpc = "alloc" /\ pc \in Active
  BY <1>1, ActiveAre DEF Around
<1>3. call = [kind |-> op.kind, bucket |-> op.bucket, len |-> op.len] /\ grantCount \in Nat
  BY <1>2, AtWork
<1>4. op.kind # "insert" /\ grantCount' \in Nat /\ grantCount <= grantCount'
  BY <1>1, <1>3
<1> QED  BY <1>1, <1>4, QuietStep

\* The steps that only look for an extent, or fail to find one.
LEMMA QuietTypes ==
    ASSUME BTypes, Around, GrowFails \/ Skip \/ NoExtent \/ PlaceFull
    PROVE  BTypes'
<1>1. /\ UNCHANGED <<order, ext, reg, fileSize, allocEnd, nextRegion, rows>>
      /\ UNCHANGED <<placed, numbers>>
      /\ grantCount' = grantCount \/ grantCount' = grantCount + 1
  BY DEF GrowFails, Skip, NoExtent, PlaceFull, allocator, history
<1>2. pc \in {"grant_new", "grant_more", "place"}
  BY ActiveAre DEF GrowFails, Skip, NoExtent, PlaceFull
<1>3. hpc = "alloc" /\ pc \in Active /\ pc # "region" /\ pc # "number" /\ pc \notin {"idle", "number"}
  BY <1>2, ActiveAre DEF Around
<1>4. placed = <<>> /\ grantCount \in Nat
  BY <1>3, AtWork
<1>5. grantCount' \in Nat /\ grantCount <= grantCount'
  BY <1>1, <1>4
<1>6. \/ pc' = "panicked" /\ placed = <<>>
      \/ pc' = "idle" /\ (placed # <<>> => op.kind # "insert")
      \/ /\ pc' = pc \/ (pc' = "grant_more" /\ pc = "place" /\ Owned(call.bucket) # {})
         /\ pc \in Active /\ pc # "number" /\ call' = call
  BY <1>3, <1>4 DEF GrowFails, Skip, NoExtent, PlaceFull
<1> QED  BY <1>1, <1>3, <1>5, <1>6, QuietStep

\* Every step of the allocator keeps the type invariant.
LEMMA AllocateStep ==
    ASSUME BTypes, Allocate
    PROVE  BTypes'
<1>1. Around /\ Step
  BY DEF Allocate, Around, files, staged, opening, heapHistory
<1>2. \/ FirstGrant \/ Grow \/ Split \/ Place \/ GrantRegion \/ Number \/ UpdateReturns
      \/ GrowFails \/ Skip \/ NoExtent \/ PlaceFull
  BY <1>1 DEF Step, GrantStep
<1> QED  BY <1>1, <1>2, FirstGrantTypes, GrowTypes, SplitTypes, PlaceTypes, GrantRegionTypes,
            NumberTypes, UpdateReturnsTypes, QuietTypes

\* A call hands over to the allocator.
LEMMA HandOver ==
    ASSUME BTypes, Up, hpc # "alloc", hpc' = "alloc", ops' = ops, upd' = upd, DOMAIN op' = OpFields,
           FileTypes', rDisk' = rDisk, rDone' = rDone, Room(3),
           UNCHANGED <<ext, reg, grantCount, fileSize, allocEnd, nextRegion, rows>>,
           UNCHANGED <<placed, numbers>>, order' \in Seq(Buckets),
           pc' = "place" \/ (pc' = "grant_new" /\ op'.kind = "insert"),
           call' = [kind |-> op'.kind, bucket |-> op'.bucket, len |-> op'.len],
           op'.kind \in {"insert", "update"}, op'.bucket \in Buckets, op'.len \in Lens,
           op'.ver \in Nat, op'.kind = "update" => op'.id \in Ids
    PROVE  BTypes'
<1>1. pc = "idle" /\ placed = <<>> /\ numbers \in Seq(Ids) /\ ops \in Nat
  BY AtRest
<1>2. /\ ext' = ext /\ reg' = reg /\ grantCount' = grantCount /\ fileSize' = fileSize
      /\ allocEnd' = allocEnd /\ nextRegion' = nextRegion /\ rows' = rows
      /\ placed' = placed /\ numbers' = numbers
  OBVIOUS
<1>3. AllocTypes'
  <2>1. ExtentsIn(fileSize)' = ExtentsIn(fileSize) /\ RegionsIn' = RegionsIn
    BY <1>2 DEF ExtentsIn, RegionsIn
  <2> QED  BY <1>2, <2>1, Zenon DEF BTypes, AllocTypes
<1>4. RegistryTypes'
  <2>1. RowsIn(allocEnd)' = RowsIn(allocEnd)
    BY <1>2 DEF RowsIn
  <2>2. hpc' \notin Closed
    BY DEF Closed
  <2> QED  BY <1>2, <2>1, <2>2, Zenon DEF BTypes, RegistryTypes
<1>5. OwnersHoused'
  <2>1. \A i \in DOMAIN ext : HasRegion(reg, ext[i].owner)
    BY <1>1 DEF BTypes, OwnersHoused
  <2>2. hpc' \notin {"recover", "restore"} /\ hpc' # "restore"
    OBVIOUS
  <2> QED  BY <1>2, <2>1, <2>2, Zenon DEF OwnersHoused, HasRegion
<1>6. RoomLeft'
  <2>1. Len(rows) \in Nat
    BY FlushTypes
  <2>2. Room(3)' /\ Room(2)' /\ Len(rows') + 1 <= MaxRows
    BY <1>2, <2>1, BoundsAre DEF Room
  <2> QED  BY <2>2 DEF RoomLeft
<1>7. CallTypes'
  <2>1. placed' = <<>> /\ placed' \in Seq([off : Cells, len : Lens]) /\ numbers' \in Seq(Ids) /\ ops' \in Nat
    BY <1>1, <1>2
  <2>2. pc' = "grant_new" => call'.kind = "insert"
    OBVIOUS
  <2> QED  BY <2>1, <2>2, ActiveAre DEF CallTypes
<1>8. OpTypes'
  BY DEF OpTypes
<1>9. UpdTypes' /\ hpc' \in Places
  BY DEF BTypes, UpdTypes, Places
<1> QED  BY <1>3, <1>4, <1>5, <1>6, <1>7, <1>8, <1>9 DEF BTypes

\* insert_into begins.
LEMMA BeginInsertStep ==
    ASSUME BTypes, NEW b \in Buckets, NEW len \in Lens, BeginInsert(b, len)
    PROVE  BTypes'
<1>1. /\ hpc = "idle" /\ RoomFor(len) /\ Insert(b, len) /\ hpc' = "alloc"
      /\ op' = [NoOp EXCEPT !.kind = "insert", !.bucket = b, !.len = len, !.ver = 1]
      /\ UNCHANGED <<dDisk, iDisk, rDisk>> /\ UNCHANGED <<dRuns, iRuns, rDone>>
      /\ upd' = upd /\ ops' = ops
  BY DEF BeginInsert, files, staged, opening, heapHistory
<1>2. Up /\ hpc # "alloc"
  BY <1>1, UpIs DEF CallPlaces
<1>3. FileTypes'
  BY <1>1 DEF BTypes, FileTypes
<1>4. /\ op'.kind = "insert" /\ op'.bucket = b /\ op'.len = len /\ op'.ver = 1 /\ DOMAIN op' = OpFields
  BY <1>1, NoOpIs
<1>5. /\ call' = [kind |-> "insert", bucket |-> b, len |-> len]
      /\ pc' = "place" \/ pc' = "grant_new"
      /\ order' = order \/ order' = Append(order, b)
      /\ UNCHANGED <<ext, reg, grantCount, fileSize, allocEnd, nextRegion, rows>>
      /\ UNCHANGED <<placed, numbers>>
  BY <1>1 DEF Insert, history
<1>6. order' \in Seq(Buckets)
  <2>1. order \in Seq(Buckets)
    BY DEF BTypes, AllocTypes
  <2> QED  BY <1>5, <2>1
<1>7. Room(3)
  BY <1>1 DEF RoomFor, Room
<1> QED  BY <1>1, <1>2, <1>3, <1>4, <1>5, <1>6, <1>7, HandOver

\* update finds the bucket of the old record, or ends with an error.
LEMMA UpdateRecordStep ==
    ASSUME BTypes, UpdateRecord
    PROVE  BTypes'
<1> DEFINE old == dView[op.slot.off].rec
<1>1. /\ hpc = "record_read" /\ op.kind = "update" /\ dDisk' = dView /\ dRuns' = <<>>
      /\ \/ /\ ReadHeader(dView, op.slot.off, op.id) /\ Update(old.bucket, op.len) /\ hpc' = "alloc"
            /\ op' = [op EXCEPT !.bucket = old.bucket, !.ver = old.ver + 1]
         \/ hpc' = "idle" /\ op' = NoOp /\ UNCHANGED vars
      /\ UNCHANGED <<iDisk, rDisk>> /\ UNCHANGED <<iRuns, rDone>> /\ upd' = upd /\ ops' = ops
  BY DEF UpdateRecord, FlushData, Returns, opening, heapHistory
<1>2. Up /\ hpc # "alloc"
  BY <1>1, UpIs DEF CallPlaces
<1>3. FileTypes'
  BY <1>1, FlushTypes DEF FileTypes
<1>4. pc = "idle" /\ placed = <<>> /\ numbers \in Seq(Ids) /\ ops \in Nat
  BY <1>2, AtRest
<1>5. CASE hpc' = "idle" /\ op' = NoOp /\ UNCHANGED vars
  <2>1. hpc' \in CallPlaces /\ hpc' # "alloc"
    BY <1>5 DEF CallPlaces
  <2>2. UNCHANGED allocator /\ pc' = "idle" /\ placed' = <<>> /\ numbers' \in Seq(Ids) /\ ops' \in Nat
    BY <1>1, <1>4, <1>5, Unchanged
  <2>3. OpTypes'
    BY <1>5, NoOpIs DEF OpTypes
  <2> QED  BY <1>1, <1>2, <1>3, <1>4, <1>5, <2>1, <2>2, <2>3, FlushTypes, CallQuiet
<1>6. CASE /\ ReadHeader(dView, op.slot.off, op.id) /\ Update(old.bucket, op.len) /\ hpc' = "alloc"
           /\ op' = [op EXCEPT !.bucket = old.bucket, !.ver = old.ver + 1]
  <2>1. old.bucket \in Buckets /\ old.ver \in Nat
    <3>1. HeaderAt(dView, op.slot.off) /\ dView \in [Cells -> BCells]
      BY <1>6, FlushTypes DEF ReadHeader
    <3> QED  BY <3>1, BHeadersAre
  <2> DEFINE a == old.bucket
             n == old.ver + 1
  <2>2. a \in Buckets /\ n \in Nat
    BY <2>1
  <2>3. Update(a, op.len) /\ op' = [op EXCEPT !.bucket = a, !.ver = n]
    BY <1>6
  <2> HIDE DEF a, n
  <2>4. op.id \in Ids /\ op.len \in Lens /\ DOMAIN op = OpFields /\ Room(3)
    BY <1>1 DEF BTypes, OpTypes, RoomLeft
  <2>5. op'.kind = "update" /\ op'.bucket = a /\ op'.ver = n /\ op'.id = op.id /\ op'.len = op.len
        /\ DOMAIN op' = OpFields
    BY <1>1, <2>3, <2>4, OpWith
  <2>6. /\ call' = [kind |-> "update", bucket |-> a, len |-> op.len] /\ pc' = "place"
        /\ UNCHANGED <<ext, reg, grantCount, fileSize, allocEnd, nextRegion, rows>>
        /\ UNCHANGED <<placed, numbers>> /\ order' = order
    BY <2>3 DEF Update, allocator, history
  <2>7. order' \in Seq(Buckets)
    BY <2>6 DEF BTypes, AllocTypes
  <2> QED  BY <1>1, <1>2, <1>3, <1>6, <2>2, <2>4, <2>5, <2>6, <2>7, HandOver
<1> QED  BY <1>1, <1>5, <1>6

\* The record is staged where the allocator put it.
LEMMA StageRecordStep ==
    ASSUME BTypes, StageRecord
    PROVE  BTypes'
<1> DEFINE id == IF op.kind = "insert" THEN Last(numbers) ELSE op.id
           off == Last(placed).off
           r == [id |-> id, ver |-> op.ver, len |-> op.len, tag |-> ops + 1, bucket |-> op.bucket]
<1>1. /\ hpc = "alloc" /\ pc = "idle" /\ placed # <<>>
      /\ \/ dDisk' = dView /\ dRuns' = Data!Staged(<<>>, off, CellsOf(r))
         \/ dDisk' = dDisk /\ dRuns' = Data!Staged(dRuns, off, CellsOf(r))
      /\ hpc' = "slot_stage" /\ op' = [op EXCEPT !.id = id, !.slot = Live(off, op.len)]
      /\ placed' = <<>> /\ numbers' = <<>> /\ UNCHANGED allocator /\ pc' = pc
      /\ UNCHANGED <<iDisk, rDisk>> /\ UNCHANGED <<iRuns, rDone>> /\ upd' = upd /\ ops' = ops
  BY DEF StageRecord, opening, heapHistory
<1>2. Up /\ hpc' \in CallPlaces /\ hpc' # "alloc" /\ pc' = "idle"
  BY <1>1, UpIs DEF CallPlaces
<1>3. /\ op.kind \in {"insert", "update"} /\ op.bucket \in Buckets /\ op.len \in Lens
      /\ op.ver \in Nat /\ (op.kind = "update" => op.id \in Ids) /\ DOMAIN op = OpFields
      /\ placed \in Seq([off : Cells, len : Lens]) /\ numbers \in Seq(Ids) /\ ops \in Nat
  BY <1>1, AtWork
<1>4. op.kind = "insert" => numbers # <<>>
  BY <1>1 DEF BTypes, CallTypes
<1>5. id \in Ids
  <2>1. CASE op.kind = "insert"
    <3>1. numbers # <<>> /\ Len(numbers) \in 1 .. Len(numbers)
      BY <1>3, <1>4, <2>1
    <3>2. numbers[Len(numbers)] \in Ids
      BY <1>3, <3>1
    <3> QED  BY <2>1, <3>2 DEF Last
  <2>2. CASE op.kind # "insert"
    BY <1>3, <2>2
  <2> QED  BY <2>1, <2>2
<1>6. off \in Cells /\ off \in Nat
  <2> DEFINE V == [off : Cells, len : Lens]
  <2>1. placed[Len(placed)] \in V
    <3>1. placed \in Seq(V)
      BY <1>3
    <3> HIDE DEF V
    <3>2. Len(placed) \in 1 .. Len(placed)
      BY <1>1, <3>1
    <3> QED  BY <3>1, <3>2
  <2>2. off \in Cells
    BY <2>1 DEF Last
  <2> QED  BY <2>2, BoundsAre
<1> HIDE DEF id, off
<1>7. r \in BRecords
  BY <1>3, <1>5 DEF BRecords
<1> HIDE DEF r
<1>8. FileTypes'
  <2>1. dDisk' \in [Cells -> BCells] /\ dRuns' \in Seq(Runs(BCells))
    BY <1>1, <1>6, <1>7, FlushTypes, StagedTypes
  <2> QED  BY <1>1, <2>1, FlushTypes DEF FileTypes
<1> DEFINE s == Live(off, op.len)
<1>9. s \in BSlots /\ s # Empty
  BY <1>3, <1>6, SlotsAre
<1>10. op' = [op EXCEPT !.id = id, !.slot = s]
  BY <1>1
<1> HIDE DEF s
<1>11. op'.id = id /\ op'.slot = s /\ op'.kind = op.kind /\ DOMAIN op' = OpFields
  BY <1>3, <1>10, OpWith
<1>12. OpTypes'
  BY <1>1, <1>5, <1>9, <1>11 DEF OpTypes
<1>13. numbers' \in Seq(Ids) /\ ops' \in Nat
  BY <1>1, <1>3
<1> QED  BY <1>1, <1>2, <1>8, <1>12, <1>13, FlushTypes, CallQuiet

\* A new store has the types.
LEMMA BTypesInit == HeapInit => BTypes
<1> SUFFICES ASSUME HeapInit PROVE BTypes
  OBVIOUS
<1>1. /\ order = <<>> /\ ext = <<>> /\ reg = <<>> /\ rows = <<>> /\ grantCount = 0 /\ nextRegion = 0
      /\ fileSize = initial_size /\ allocEnd = NewEnd /\ pc = "idle" /\ placed = <<>> /\ numbers = <<>>
      /\ dDisk = [p \in Cells |-> Zero] /\ dRuns = <<>> /\ iDisk = [id \in Ids |-> Empty] /\ iRuns = <<>>
      /\ rDisk = [n \in 1 .. MaxRows |-> NoRow] /\ rDone = 0 /\ hpc = "idle" /\ op = NoOp
      /\ upd = <<>> /\ ops = 0
  BY DEF HeapInit, Init
<1>2. \A V : <<>> \in Seq(V) /\ DOMAIN <<>> = {} /\ Len(<<>>) = 0
  OBVIOUS
<1>3. /\ hpc \in Places /\ hpc \notin Closed /\ hpc \notin {"recover", "restore"} /\ hpc # "restore"
      /\ hpc # "alloc" /\ hpc \notin {"slot_read", "record_read", "slot_stage"}
      /\ hpc \notin {"slot_read", "record_read"}
  BY <1>1 DEF Places, Closed
<1>4. FileTypes
  <2>1. dDisk \in [Cells -> BCells] /\ iDisk \in [Ids -> BSlots]
    BY <1>1 DEF BCells, BSlots
  <2> QED  BY <1>1, <2>1, NoRuns DEF FileTypes
<1>5. NewEnd \in Nat /\ initial_size <= NewEnd /\ NewEnd % PAGE = 0 /\ NewEnd <= MaxCell
  <2> DEFINE y == IF initial_size > PAGE + growth THEN initial_size ELSE PAGE + growth
             z == PageUp(y)
  <2>1. y \in Nat /\ initial_size <= y
    BY BoundsAre
  <2> HIDE DEF y
  <2>2. z \in Nat /\ y <= z /\ z % PAGE = 0
    BY <2>1, PageBounds, PagesBelow
  <2>3. NewEnd = IF initial_size <= PAGE THEN PAGE ELSE z
    BY DEF NewEnd, y
  <2> HIDE DEF z
  <2>4. PAGE % PAGE = 0
    BY PageAssumption
  <2>5. NewEnd \in Nat /\ initial_size <= NewEnd /\ NewEnd % PAGE = 0
    BY <2>1, <2>2, <2>3, <2>4, BoundsAre
  <2> QED  BY <2>5, BucketHeapAssumption
<1>6. RegistryTypes
  <2>1. rDisk \in [1 .. MaxRows -> RowsIn(allocEnd) \union {NoRow, BadRow}]
    BY <1>1
  <2>2. Len(rows) = 0 /\ rows \in Seq(RowsIn(allocEnd))
    BY <1>1, <1>2
  <2>3. Len(rows) <= MaxRows /\ rDone \in 0 .. Len(rows)
    BY <1>1, <2>2, BoundsAre
  <2> QED  BY <1>3, <2>1, <2>2, <2>3 DEF RegistryTypes
<1>7. AllocTypes
  BY <1>1, <1>2, <1>5, BoundsAre DEF AllocTypes
<1>8. OwnersHoused
  BY <1>1, <1>2, <1>3 DEF OwnersHoused
<1>9. RoomLeft
  BY <1>1, <1>3 DEF RoomLeft
<1>10. CallTypes
  BY <1>1, <1>2, <1>3 DEF CallTypes, Active
<1>11. OpTypes
  BY <1>1, <1>3, NoOpIs DEF OpTypes
<1>12. UpdTypes
  BY <1>1, <1>2 DEF UpdTypes
<1> QED  BY <1>3, <1>4, <1>6, <1>7, <1>8, <1>9, <1>10, <1>11, <1>12 DEF BTypes

\* Every step of the heap keeps the types.
LEMMA BTypesStep == BTypes /\ [HeapNext]_heapVars => BTypes'
<1> SUFFICES ASSUME BTypes, [HeapNext]_heapVars PROVE BTypes'
  OBVIOUS
<1>1. CASE Calls
  <2>1. \A b \in Buckets, len \in Lens : BeginInsert(b, len) => BTypes'
    BY BeginInsertStep
  <2>2. \A id \in Ids : Begin("read", id, 0) \/ Begin("delete", id, 0) => BTypes'
    BY BeginStep
  <2>3. \A id \in Ids, len \in Lens : Begin("update", id, len) => BTypes'
    BY BeginStep
  <2>4. \A kind \in {"flush", "close"} : BeginFlush(kind) => BTypes'
    BY BeginFlushStep
  <2>5. ReadSlot \/ ReadRecord \/ UpdateRecord \/ Allocate \/ AllocFails \/ Unwind => BTypes'
    BY ReadSlotStep, ReadRecordStep, UpdateRecordStep, AllocateStep, AllocFailsStep, UnwindStep
  <2>6. StageRecord \/ SlotStage \/ CommitRegistry \/ CommitData \/ CommitIndex => BTypes'
    BY StageRecordStep, SlotStageStep, CommitRegistryStep, CommitDataStep, CommitIndexStep
  <2> QED  BY <1>1, <2>1, <2>2, <2>3, <2>4, <2>5, <2>6, Zenon DEF Calls
<1>2. CASE Opening
  <2>1. Open \/ ReadBucket \/ EndBucket \/ EndOpen \/ OpenAgain => BTypes'
    BY OpenStep, ReadBucketStep, EndBucketStep, EndOpenStep, OpenAgainStep
  <2>2. \A id \in DOMAIN upd : RestoreSlot(id) => BTypes'
    BY RestoreSlotStep
  <2>3. BeginRebuild \/ RebuildHeader \/ RebuildSlot \/ RebuildFlush => BTypes'
    BY BeginRebuildStep, RebuildHeaderStep, RebuildSlotStep, RebuildFlushStep
  <2>4. RebuildRegistry \/ RebuildRows => BTypes'
    BY RebuildRegistryStep, RebuildRowsStep
  <2> QED  BY <1>2, <2>1, <2>2, <2>3, <2>4, Zenon DEF Opening
<1>3. CASE Kill \/ LoseIndex \/ LoseRegistry
  BY <1>3, KillStep, LoseIndexStep, LoseRegistryStep
<1>4. CASE \E n \in DOMAIN DiskRows : DamageRow(n)
  BY <1>4, DamageRowStep
<1>5. CASE UNCHANGED heapVars
  <2>1. /\ UNCHANGED <<order, ext, reg, grantCount, fileSize, allocEnd, nextRegion, rows>>
        /\ UNCHANGED <<pc, call, placed, numbers>> /\ UNCHANGED <<dDisk, iDisk, rDisk>>
        /\ UNCHANGED <<dRuns, iRuns, rDone>> /\ UNCHANGED <<hpc, op, at, upd, ops>>
    BY <1>5 DEF heapVars, vars, allocator, history, files, staged, opening, heapHistory
  <2>2. FileTypes' /\ UpdTypes' /\ OpTypes'
    BY <2>1 DEF BTypes, FileTypes, UpdTypes, OpTypes
  <2>3. RegistryTypes' /\ AllocTypes'
    BY <2>1, Zenon DEF BTypes, RegistryTypes, AllocTypes, RowsIn, ExtentsIn, RegionsIn
  <2>4. OwnersHoused'
    BY <2>1, Zenon DEF BTypes, OwnersHoused, HasRegion, Up
  <2>5. RoomLeft'
    <3>1. NeedsRegion(reg)' => NeedsRegion(reg)
      BY <2>1, Zenon DEF NeedsRegion, HasRegion, LastRegion, RegionHasRoom
    <3>2. (Room(1)' <=> Room(1)) /\ (Room(2)' <=> Room(2)) /\ (Room(3)' <=> Room(3))
      BY <2>1 DEF Room
    <3> QED  BY <2>1, <3>1, <3>2 DEF BTypes, RoomLeft
  <2>6. CallTypes'
    BY <2>1, Zenon DEF BTypes, CallTypes
  <2>7. hpc' \in Places
    BY <2>1 DEF BTypes
  <2> QED  BY <2>2, <2>3, <2>4, <2>5, <2>6, <2>7 DEF BTypes
<1> QED  BY <1>1, <1>2, <1>3, <1>4, <1>5 DEF HeapNext

\* The inductive type invariant of the heap with buckets, for any sync policy, any order
\* of page writes, and any kills, losses and rebuilds of metadata.
THEOREM HeapTypesInvariant == HeapSpecification => []BTypes
BY BTypesInit, BTypesStep, PTL DEF HeapSpecification

\* BucketTypeOK holds whatever happens to the process and to its files.
THEOREM BucketHeapTypes == HeapSpecification => []BucketTypeOK
<1>1. BTypes => BucketTypeOK
  <2> SUFFICES ASSUME BTypes PROVE BucketTypeOK
    OBVIOUS
  <2>1. /\ ext \in Seq(ExtentsIn(fileSize)) /\ fileSize <= allocEnd /\ allocEnd <= MaxCell
        /\ rDone \in 0 .. Len(rows) /\ Len(rows) <= MaxRows /\ hpc \in Places /\ DOMAIN upd \subseteq Ids
    BY DEF BTypes, AllocTypes, RegistryTypes, UpdTypes
  <2>2. ASSUME NEW i \in DOMAIN ext
        PROVE  /\ ext[i].start >= PAGE /\ ExtentEnd(ext[i]) <= fileSize
               /\ ext[i].used \in 0 .. ext[i].size
    <3>1. /\ ext[i] \in ExtentType /\ ext[i].start >= PAGE /\ ext[i].start + ext[i].size <= fileSize
          /\ ext[i].used <= ext[i].size
      BY <2>1, ExtentsInIs
    <3>2. ext[i].used \in Nat /\ ext[i].size \in Nat
      BY <3>1, ExtentFields
    <3> QED  BY <3>1, <3>2 DEF ExtentEnd
  <2>3. dView \in [Cells -> BCells] /\ iView \in [Ids -> BSlots]
    BY FlushTypes
  <2>4. \A c \in BCells : IsCell(c)
    BY DEF BCells, BRecords, IsCell
  <2>5. \A s \in BSlots : IsSlot(s)
    BY DEF BSlots, IsSlot
  <2>6. (\A c \in Range(dView) : IsCell(c)) /\ (\A s \in Range(iView) : IsSlot(s))
    BY <2>3, <2>4, <2>5 DEF Range
  <2> QED  BY <2>1, <2>2, <2>6 DEF BucketTypeOK, Places
<1> QED  BY <1>1, HeapTypesInvariant, PTL

-----------------------------------------------------------------------------
(* The rows of the registry through kills, when pages are written in order and no *)
(* file is lost.                                                                  *)

\* Some row of rs of this kind is the bucket's.
HasRow(rs, kind, b) == \E n \in DOMAIN rs : rs[n].kind = kind /\ rs[n].bucket = b

\* A row of an extent has a row of a region of its bucket before it, or it is the first
\* of its bucket and the row of the region is the next one, if there is a next one.
Paired(rs) ==
    \A n \in DOMAIN rs : rs[n].kind = "D" =>
        \/ \E m \in 1 .. n - 1 : rs[m].kind = "S" /\ rs[m].bucket = rs[n].bucket
        \/ /\ \A m \in 1 .. n - 1 : rs[m].bucket # rs[n].bucket
           /\ n + 1 \in DOMAIN rs => rs[n + 1].kind = "S" /\ rs[n + 1].bucket = rs[n].bucket

\* The file d holds the first k rows of rs and no other.
FileHolds(d, rs, k) == \A n \in 1 .. MaxRows : d[n] = IF n <= k THEN rs[n] ELSE NoRow

\* An extent of e is the bucket's.
OwnsPart(e, b) == \E i \in DOMAIN e : e[i].owner = b

\* Every row has its extent or region, and none is without a row.
Mirrored(rs, e, r, o) ==
    /\ \A n \in DOMAIN rs : rs[n].bucket \in Range(o)
    /\ \A b \in Buckets : HasRow(rs, "D", b) <=> OwnsPart(e, b)
    /\ \A b \in Buckets : HasRow(rs, "S", b) <=> HasRegion(r, b)

NothingLost ==
    /\ losses = 0 /\ cut = FALSE /\ iFile = "sound" /\ rFile = "sound"
    /\ hpc \in Places \ {"rebuild_header", "rebuild_index", "rebuild_registry", "rebuild_rows"}

\* The rows while the process runs, and in the file when it does not.
RowsRunning ==
    hpc \notin Closed =>
        /\ Paired(rows) /\ FileHolds(rDisk, rows, rDone)
        /\ Mirrored(rows, ext, reg, order)
        /\ hpc \in {"recover", "restore"} => rDone = Len(rows)
        /\ pc = "grant_new" => /\ call.bucket \in Range(order)
                               /\ \A n \in DOMAIN rows : rows[n].bucket # call.bucket
        /\ pc = "region" => /\ rows # <<>> /\ rows[Len(rows)].kind = "D"
                            /\ rows[Len(rows)].bucket = call.bucket

RowsAtRest ==
    hpc \in Closed =>
        Paired(DiskRows) /\ FileHolds(rDisk, DiskRows, Len(DiskRows)) /\ ~RowsCorrupt

RowsInv == NothingLost /\ RowsRunning /\ RowsAtRest /\ PanicsOnlyAtHalfBucket

\* A prefix of paired rows is paired.
LEMMA PairedPrefix ==
    ASSUME NEW V, NEW rs \in Seq(V), Paired(rs), NEW W, NEW q \in Seq(W),
           Len(q) <= Len(rs), \A n \in 1 .. Len(q) : q[n] = rs[n]
    PROVE  Paired(q)
<1>1. /\ Len(q) \in Nat /\ Len(rs) \in Nat /\ DOMAIN q = 1 .. Len(q) /\ DOMAIN rs = 1 .. Len(rs)
  OBVIOUS
<1>2. ASSUME NEW n \in 1 .. Len(q), q[n].kind = "D"
      PROVE  \/ \E m \in 1 .. n - 1 : q[m].kind = "S" /\ q[m].bucket = q[n].bucket
             \/ /\ \A m \in 1 .. n - 1 : q[m].bucket # q[n].bucket
                /\ n + 1 \in 1 .. Len(q) => q[n + 1].kind = "S" /\ q[n + 1].bucket = q[n].bucket
  <2>1. n \in 1 .. Len(rs) /\ rs[n] = q[n] /\ n \in Nat /\ n <= Len(q)
    BY <1>1
  <2>2. \A m \in 1 .. n - 1 : rs[m] = q[m]
    BY <1>1, <2>1
  <2>3. n + 1 \in 1 .. Len(q) => n + 1 \in 1 .. Len(rs) /\ rs[n + 1] = q[n + 1]
    BY <1>1
  <2>4. \/ \E m \in 1 .. n - 1 : rs[m].kind = "S" /\ rs[m].bucket = rs[n].bucket
        \/ /\ \A m \in 1 .. n - 1 : rs[m].bucket # rs[n].bucket
           /\ n + 1 \in 1 .. Len(rs) => rs[n + 1].kind = "S" /\ rs[n + 1].bucket = rs[n].bucket
    BY <1>1, <1>2, <2>1 DEF Paired
  <2> QED  BY <2>1, <2>2, <2>3, <2>4
<1> QED  BY <1>1, <1>2 DEF Paired

\* A row more: the last row is complete or is completed by it, and the new row is the
\* first of its bucket or behind the row of a region.
LEMMA PairedAppend ==
    ASSUME NEW V, NEW rs \in Seq(V), Paired(rs), NEW row \in V,
           rs # <<>> /\ rs[Len(rs)].kind = "D" =>
              \/ HasRow(rs, "S", rs[Len(rs)].bucket)
              \/ row.kind = "S" /\ row.bucket = rs[Len(rs)].bucket,
           row.kind = "D" => \/ HasRow(rs, "S", row.bucket)
                             \/ \A n \in DOMAIN rs : rs[n].bucket # row.bucket
    PROVE  Paired(Append(rs, row))
<1> DEFINE q == Append(rs, row)
           l == Len(rs)
<1>1. /\ q \in Seq(V) /\ l \in Nat /\ DOMAIN q = 1 .. l + 1 /\ DOMAIN rs = 1 .. l
      /\ q[l + 1] = row /\ \A n \in 1 .. l : q[n] = rs[n]
  OBVIOUS
<1>2. rs = <<>> <=> l = 0
  OBVIOUS
<1> HIDE DEF q, l
<1>3. ASSUME NEW n \in 1 .. l + 1, q[n].kind = "D"
      PROVE  \/ \E m \in 1 .. n - 1 : q[m].kind = "S" /\ q[m].bucket = q[n].bucket
             \/ /\ \A m \in 1 .. n - 1 : q[m].bucket # q[n].bucket
                /\ n + 1 \in 1 .. l + 1 => q[n + 1].kind = "S" /\ q[n + 1].bucket = q[n].bucket
  <2>1. n \in Nat /\ \A m \in 1 .. n - 1 : m \in 1 .. l /\ q[m] = rs[m]
    BY <1>1
  <2>2. CASE n = l + 1
    <3>1. q[n] = row /\ n + 1 \notin 1 .. l + 1 /\ n - 1 = l
      BY <1>1, <2>2
    <3>2. CASE HasRow(rs, "S", row.bucket)
      BY <1>1, <2>1, <3>1, <3>2 DEF HasRow
    <3>3. CASE \A m \in DOMAIN rs : rs[m].bucket # row.bucket
      BY <1>1, <2>1, <3>1, <3>3
    <3> QED  BY <1>3, <3>1, <3>2, <3>3
  <2>3. CASE n \in 1 .. l
    <3>1. q[n] = rs[n]
      BY <1>1, <2>3
    <3>2. \/ \E m \in 1 .. n - 1 : rs[m].kind = "S" /\ rs[m].bucket = rs[n].bucket
          \/ /\ \A m \in 1 .. n - 1 : rs[m].bucket # rs[n].bucket
             /\ n + 1 \in 1 .. l => rs[n + 1].kind = "S" /\ rs[n + 1].bucket = rs[n].bucket
      BY <1>1, <1>3, <2>3, <3>1 DEF Paired
    <3>3. CASE n < l
      <4>1. n + 1 \in 1 .. l /\ q[n + 1] = rs[n + 1]
        BY <1>1, <2>1, <3>3
      <4> QED  BY <2>1, <3>1, <3>2, <4>1
    <3>4. CASE n = l
      <4>1. rs # <<>> /\ rs[l].kind = "D" /\ rs[l] = rs[Len(rs)] /\ q[n + 1] = row
        BY <1>1, <1>2, <1>3, <2>3, <3>1, <3>4 DEF l
      <4>2. CASE HasRow(rs, "S", rs[l].bucket)
        <5>1. PICK m \in 1 .. l : rs[m].kind = "S" /\ rs[m].bucket = rs[l].bucket
          BY <1>1, <4>2 DEF HasRow
        <5>2. m # l
          BY <4>1, <5>1
        <5>3. m \in 1 .. n - 1
          BY <1>1, <3>4, <5>2
        <5> QED  BY <2>1, <3>1, <3>4, <5>1, <5>3
      <4>3. CASE row.kind = "S" /\ row.bucket = rs[l].bucket
        BY <2>1, <3>1, <3>2, <3>4, <4>1, <4>3
      <4> QED  BY <4>1, <4>2, <4>3
    <3> QED  BY <1>1, <2>3, <3>3, <3>4
  <2> QED  BY <1>1, <2>2, <2>3
<1> QED  BY <1>1, <1>3 DEF Paired, q

\* The rows of a file that holds the first k rows of rs.
LEMMA FilePrefix ==
    ASSUME NEW e \in Nat, NEW rs \in Seq(RowsIn(e)), Len(rs) <= MaxRows, NEW k \in 0 .. Len(rs),
           NEW d \in [1 .. MaxRows -> FileRows(e)], FileHolds(d, rs, k)
    PROVE  /\ Leading(d) \in Seq(FileRows(e)) /\ Len(Leading(d)) = k
           /\ \A n \in 1 .. k : Leading(d)[n] = rs[n]
<1>0. \A V : \A r \in [1 .. MaxRows -> V] :
         \E n \in 0 .. MaxRows : /\ Leading(r) \in Seq(V) /\ Len(Leading(r)) = n
                                 /\ \A j \in 1 .. n : Leading(r)[j] = r[j] /\ r[j] # NoRow
                                 /\ n < MaxRows => r[n + 1] = NoRow
  BY LeadingIs
<1>1. PICK n \in 0 .. MaxRows : /\ Leading(d) \in Seq(FileRows(e)) /\ Len(Leading(d)) = n
                                /\ \A j \in 1 .. n : Leading(d)[j] = d[j] /\ d[j] # NoRow
                                /\ n < MaxRows => d[n + 1] = NoRow
  BY <1>0, Zenon
<1>2. MaxRows \in Nat /\ Len(rs) \in Nat /\ k \in Nat /\ n \in Nat /\ k <= MaxRows
  BY BoundsAre
<1>3. \A j \in 1 .. MaxRows : d[j] = IF j <= k THEN rs[j] ELSE NoRow
  BY DEF FileHolds
<1>4. \A j \in 1 .. k : rs[j] # NoRow
  BY <1>2, RowsAre
<1>5. ~(n < k)
  <2> SUFFICES ASSUME n < k PROVE FALSE
    OBVIOUS
  <2>1. n + 1 \in 1 .. MaxRows /\ n + 1 \in 1 .. k /\ n < MaxRows
    BY <1>2
  <2> QED  BY <1>1, <1>3, <1>4, <2>1
<1>6. ~(k < n)
  <2> SUFFICES ASSUME k < n PROVE FALSE
    OBVIOUS
  <2>1. k + 1 \in 1 .. MaxRows /\ k + 1 \in 1 .. n /\ ~(k + 1 <= k)
    BY <1>2
  <2> QED  BY <1>1, <1>3, <2>1
<1>7. n = k
  BY <1>2, <1>5, <1>6
<1>8. \A j \in 1 .. k : j \in 1 .. MaxRows /\ j <= k
  BY <1>2
<1> QED  BY <1>1, <1>3, <1>7, <1>8

\* Division rounds down, and so keeps the order.
LEMMA QuotientGrows ==
    ASSUME NEW m \in Nat \ {0}, NEW x \in Nat, NEW y \in Nat, x <= y
    PROVE  x \div m \in Nat /\ y \div m \in Nat /\ x \div m <= y \div m
<1> DEFINE p == x \div m
           q == y \div m
           r == x % m
           t == y % m
<1>1. p \in Nat /\ q \in Nat /\ r \in 0 .. m - 1 /\ t \in 0 .. m - 1
  OBVIOUS
<1>2. x = m * p + r /\ y = m * q + t
  OBVIOUS
<1>3. p <= q
  <2> SUFFICES ASSUME q + 1 <= p PROVE FALSE
    BY <1>1
  <2> HIDE DEF p, q, r, t
  <2>1. m * (q + 1) <= m * p
    BY <1>1
  <2>2. m * (q + 1) = m * q + m /\ m * q \in Nat /\ m * p \in Nat
    BY <1>1
  <2> QED  BY <1>1, <1>2, <2>1, <2>2
<1> QED  BY <1>1, <1>3

\* A flush of the registry that is cut short leaves a prefix of the rows when pages are
\* written in order.
LEMMA TornPrefix ==
    ASSUME BTypes, InOrder, FileHolds(rDisk, rows, rDone), hpc # "rebuild_rows",
           NEW d \in RegistryTorn
    PROVE  \E k \in 0 .. Len(rows) : FileHolds(d, rows, k)
<1> DEFINE RowPage(n) == (n - 1) \div ROWS_PER_PAGE
           pages == IF rDone = Len(rows) THEN <<>>
                    ELSE [k \in 1 .. RowPage(Len(rows)) - RowPage(rDone + 1) + 1 |->
                             RowPage(rDone + 1) + k - 1]
           Torn(s) == [n \in 1 .. MaxRows |-> IF RowPage(n) \in s THEN rView[n] ELSE rDisk[n]]
<1>1. RegistryTorn = IF hpc \in {"commit_registry", "rebuild_rows"}
                     THEN {Torn(s) : s \in TornPages(pages)} ELSE {rDisk}
  BY Zenon DEF RegistryTorn
<1>2. /\ rDone \in Nat /\ Len(rows) \in Nat /\ rDone <= Len(rows) /\ Len(rows) <= MaxRows
      /\ MaxRows \in Nat
  BY FlushTypes, BoundsAre DEF BTypes, RegistryTypes
<1>3. CASE d = rDisk
  BY <1>2, <1>3
<1>4. CASE d \in {Torn(s) : s \in TornPages(pages)}
  <2>1. TornPages(pages) = {{pages[k] : k \in 1 .. n} : n \in 0 .. Len(pages)}
    BY Zenon DEF TornPages
  <2>2. PICK s \in {{pages[k] : k \in 1 .. n} : n \in 0 .. Len(pages)} : d = Torn(s)
    BY <1>4, <2>1, Zenon
  <2>3. PICK c \in 0 .. Len(pages) : s = {pages[k] : k \in 1 .. c}
    BY <2>2, Zenon
  <2>4. CASE rDone = Len(rows)
    <3>1. pages = <<>> /\ Len(<<>>) = 0
      BY <2>4
    <3>2. c = 0
      <4> HIDE DEF pages
      <4> QED  BY <3>1
    <3>3. s = {}
      BY <2>3, <3>2
    <3>4. \A n \in 1 .. MaxRows : d[n] = rDisk[n]
      <4> HIDE DEF RowPage
      <4> QED  BY <2>2, <3>3
    <3> QED  BY <1>2, <3>4 DEF FileHolds
  <2>5. CASE rDone # Len(rows)
    <3> DEFINE p0 == RowPage(rDone + 1)
               K == {n \in 0 .. Len(rows) : n <= rDone \/ RowPage(n) \in s}
    <3>1. \A a, b \in 1 .. MaxRows : a <= b => RowPage(a) \in Nat /\ RowPage(b) \in Nat
                                              /\ RowPage(a) <= RowPage(b)
      <4> SUFFICES ASSUME NEW a \in 1 .. MaxRows, NEW b \in 1 .. MaxRows, a <= b
                   PROVE  RowPage(a) \in Nat /\ RowPage(b) \in Nat /\ RowPage(a) <= RowPage(b)
        OBVIOUS
      <4>1. a - 1 \in Nat /\ b - 1 \in Nat /\ a - 1 <= b - 1 /\ ROWS_PER_PAGE \in Nat \ {0}
        BY <1>2, BucketHeapAssumption
      <4> QED  BY <4>1, QuotientGrows
    <3> HIDE DEF RowPage
    <3>2. rDone + 1 \in 1 .. MaxRows /\ Len(rows) \in 1 .. MaxRows /\ rDone + 1 <= Len(rows)
      BY <1>2, <2>5
    <3>3. p0 \in Nat /\ RowPage(Len(rows)) \in Nat /\ p0 <= RowPage(Len(rows))
      BY <3>1, <3>2
    <3>4. /\ pages = [k \in 1 .. RowPage(Len(rows)) - p0 + 1 |-> p0 + k - 1]
          /\ Len(pages) = RowPage(Len(rows)) - p0 + 1
      BY <2>5, <3>3
    <3> HIDE DEF pages, p0
    <3>5. \A x \in Nat : x \in s <=> x >= p0 /\ x < p0 + c
      <4>1. c \in Nat /\ \A k \in 1 .. c : pages[k] = p0 + k - 1
        BY <3>3, <3>4
      <4>2. ASSUME NEW x \in Nat, x >= p0, x < p0 + c PROVE x \in s
        <5>1. x - p0 + 1 \in 1 .. c /\ pages[x - p0 + 1] = x
          BY <3>3, <4>1, <4>2
        <5> QED  BY <2>3, <5>1
      <4>3. ASSUME NEW x \in Nat, x \in s PROVE x >= p0 /\ x < p0 + c
        <5>1. PICK k \in 1 .. c : x = pages[k]
          BY <2>3, <4>3
        <5> QED  BY <3>3, <4>1, <5>1
      <4> QED  BY <4>2, <4>3
    <3>6. K \subseteq 0 .. Len(rows) /\ rDone \in K
      BY <1>2
    <3>7. PICK k \in K : \A j \in K : j <= k
      <4> HIDE DEF K
      <4> QED  BY <1>2, <3>6, GreatestNat
    <3>8. k \in Nat /\ k <= Len(rows) /\ rDone <= k
      BY <1>2, <3>6, <3>7
    <3>9. ASSUME NEW n \in 1 .. MaxRows PROVE d[n] = IF n <= k THEN rows[n] ELSE NoRow
      <4>1. /\ d[n] = IF RowPage(n) \in s THEN rView[n] ELSE rDisk[n]
            /\ rView[n] = IF n > rDone /\ n <= Len(rows) THEN rows[n] ELSE rDisk[n]
            /\ rDisk[n] = IF n <= rDone THEN rows[n] ELSE NoRow
        BY <2>2 DEF rView, FileHolds
      <4>2. CASE n <= rDone
        <5>1. n <= k /\ ~(n > rDone)
          BY <1>2, <3>8, <4>2
        <5> QED  BY <4>1, <4>2, <5>1
      <4>3. CASE n > rDone /\ n <= k
        <5>1. k \in 1 .. MaxRows /\ RowPage(k) \in s /\ n <= Len(rows) /\ rDone + 1 <= n
          BY <1>2, <3>7, <3>8, <4>3
        <5>2. RowPage(n) \in Nat /\ RowPage(k) \in Nat /\ p0 <= RowPage(n) /\ RowPage(n) <= RowPage(k)
          BY <3>1, <3>2, <4>3, <5>1 DEF p0
        <5>3. RowPage(n) \in s
          BY <3>3, <3>5, <5>1, <5>2
        <5> QED  BY <4>1, <4>3, <5>1, <5>3
      <4>4. CASE n > k
        <5>1. ~(n <= rDone) /\ ~(n <= k)
          BY <1>2, <3>8, <4>4
        <5>2. CASE n > Len(rows)
          <6>1. ~(n <= Len(rows))
            BY <1>2, <5>2
          <6> QED  BY <4>1, <5>1, <6>1
        <5>3. CASE n <= Len(rows)
          <6>1. n \in 0 .. Len(rows) /\ n \notin K
            BY <1>2, <3>7, <3>8, <4>4, <5>3
          <6>2. RowPage(n) \notin s
            BY <6>1
          <6> QED  BY <4>1, <5>1, <6>2
        <5> QED  BY <1>2, <5>2, <5>3
      <4> QED  BY <1>2, <3>8, <4>2, <4>3, <4>4
    <3>10. k \in 0 .. Len(rows)
      BY <1>2, <3>8
    <3> QED  BY <3>9, <3>10 DEF FileHolds
  <2> QED  BY <2>4, <2>5
<1> QED
  <2> HIDE DEF Torn, pages
  <2> QED  BY <1>1, <1>3, <1>4

\* A row more, with its extent or its region.
LEMMA MirroredAppend ==
    ASSUME NEW V, NEW rs \in Seq(V), NEW row \in V, NEW e, NEW r, NEW o, NEW f, NEW s, NEW p,
           Mirrored(rs, e, r, o), row.kind \in {"D", "S"},
           Range(o) \subseteq Range(p), row.bucket \in Range(p),
           \A b : OwnsPart(f, b) <=> OwnsPart(e, b) \/ (row.kind = "D" /\ b = row.bucket),
           \A b : HasRegion(s, b) <=> HasRegion(r, b) \/ (row.kind = "S" /\ b = row.bucket)
    PROVE  Mirrored(Append(rs, row), f, s, p)
<1> DEFINE q == Append(rs, row)
           l == Len(rs)
<1>1. /\ q \in Seq(V) /\ l \in Nat /\ DOMAIN q = 1 .. l + 1 /\ DOMAIN rs = 1 .. l
      /\ q[l + 1] = row /\ \A n \in 1 .. l : q[n] = rs[n]
  OBVIOUS
<1> HIDE DEF q, l
<1>2. \A kind, b : HasRow(q, kind, b) <=> HasRow(rs, kind, b) \/ (row.kind = kind /\ row.bucket = b)
  <2> TAKE kind, b
  <2>1. ASSUME HasRow(q, kind, b) PROVE HasRow(rs, kind, b) \/ (row.kind = kind /\ row.bucket = b)
    <3>1. PICK n \in 1 .. l + 1 : q[n].kind = kind /\ q[n].bucket = b
      BY <1>1, <2>1 DEF HasRow
    <3>2. n = l + 1 \/ n \in 1 .. l
      BY <1>1
    <3> QED  BY <1>1, <3>1, <3>2 DEF HasRow
  <2>2. ASSUME HasRow(rs, kind, b) PROVE HasRow(q, kind, b)
    <3>1. PICK n \in 1 .. l : rs[n].kind = kind /\ rs[n].bucket = b
      BY <1>1, <2>2 DEF HasRow
    <3>2. n \in 1 .. l + 1
      BY <1>1
    <3> QED  BY <1>1, <3>1, <3>2 DEF HasRow
  <2>3. ASSUME row.kind = kind, row.bucket = b PROVE HasRow(q, kind, b)
    <3>1. l + 1 \in 1 .. l + 1
      BY <1>1
    <3> QED  BY <1>1, <2>3, <3>1 DEF HasRow
  <2> QED  BY <2>1, <2>2, <2>3
<1>3. \A n \in DOMAIN q : q[n].bucket \in Range(p)
  <2> SUFFICES ASSUME NEW n \in 1 .. l + 1 PROVE q[n].bucket \in Range(p)
    BY <1>1
  <2>1. n = l + 1 \/ n \in 1 .. l
    BY <1>1
  <2>2. \A m \in 1 .. l : rs[m].bucket \in Range(o)
    BY <1>1 DEF Mirrored
  <2> QED  BY <1>1, <2>1, <2>2
<1>4. /\ \A b \in Buckets : HasRow(rs, "D", b) <=> OwnsPart(e, b)
      /\ \A b \in Buckets : HasRow(rs, "S", b) <=> HasRegion(r, b)
  BY DEF Mirrored
<1>5. /\ \A b \in Buckets : HasRow(q, "D", b) <=> OwnsPart(f, b)
      /\ \A b \in Buckets : HasRow(q, "S", b) <=> HasRegion(s, b)
  BY <1>2, <1>4
<1> QED  BY <1>3, <1>5 DEF Mirrored, q

\* The owners of something appended.
LEMMA OwnersAppended ==
    ASSUME NEW V, NEW e \in Seq(V), NEW x \in V
    PROVE  /\ \A b : OwnsPart(Append(e, x), b) <=> OwnsPart(e, b) \/ b = x.owner
           /\ \A b : HasRegion(Append(e, x), b) <=> HasRegion(e, b) \/ b = x.owner
<1> DEFINE q == Append(e, x)
           l == Len(e)
<1>1. /\ l \in Nat /\ DOMAIN q = 1 .. l + 1 /\ DOMAIN e = 1 .. l
      /\ q[l + 1] = x /\ \A n \in 1 .. l : q[n] = e[n]
  OBVIOUS
<1> HIDE DEF q, l
<1>2. /\ l + 1 \in 1 .. l + 1 /\ \A n \in 1 .. l : n \in 1 .. l + 1
      /\ \A n \in 1 .. l + 1 : n \in 1 .. l \/ n = l + 1
  BY <1>1
<1>3. \A b : (\E n \in DOMAIN q : q[n].owner = b) <=> (\E n \in DOMAIN e : e[n].owner = b) \/ b = x.owner
  BY <1>1, <1>2
<1> QED  BY <1>3 DEF OwnsPart, HasRegion, q

\* The same owners.
LEMMA OwnersSame ==
    ASSUME NEW e, NEW f, DOMAIN e = DOMAIN f, \A i \in DOMAIN e : e[i].owner = f[i].owner
    PROVE  /\ \A b : OwnsPart(e, b) <=> OwnsPart(f, b)
           /\ \A b : HasRegion(e, b) <=> HasRegion(f, b)
BY DEF OwnsPart, HasRegion

\* A replay knows the buckets of its rows, and gives back an extent or a region for each.
LEMMA ReplayMirrors ==
    ASSUME NEW e \in Nat, initial_size <= e, NEW rs \in Seq(RowsIn(e))
    PROVE  Mirrored(rs, Replay(rs).ext, Replay(rs).reg, Replay(rs).order)
<1> DEFINE l == Len(rs)
           First(k) == SubSeq(rs, 1, k)
<1>1. rs \in Seq(RowType) /\ l \in Nat
  <2>1. \A i \in 1 .. Len(rs) : rs[i] \in RowType
    BY DEF RowsIn
  <2> QED  BY <2>1
<1>2. PICK h : Stages(h, rs) /\ Replay(rs) = h[l]
  BY <1>1, ReplayStages
<1> DEFINE S == {k \in Nat : k <= l => /\ ReplayIn(h[k], e)
                                       /\ Mirrored(First(k), h[k].ext, h[k].reg, h[k].order)}
<1>3. 0 \in S
  <2>1. h[0] = Blank /\ ReplayIn(h[0], e)
    BY <1>2, ReplayInBlank DEF Stages
  <2>2. h[0].ext = <<>> /\ h[0].reg = <<>> /\ First(0) = <<>>
    BY <2>1 DEF Blank
  <2>3. DOMAIN <<>> = {}
    OBVIOUS
  <2> HIDE DEF First
  <2>4. Mirrored(First(0), h[0].ext, h[0].reg, h[0].order)
    BY <2>2, <2>3 DEF Mirrored, HasRow, OwnsPart, HasRegion
  <2> QED  BY <2>1, <2>4
<1>4. ASSUME NEW k \in Nat, k \in S PROVE k + 1 \in S
  <2> SUFFICES ASSUME k + 1 <= l
               PROVE  /\ ReplayIn(h[k + 1], e)
                      /\ Mirrored(First(k + 1), h[k + 1].ext, h[k + 1].reg, h[k + 1].order)
    OBVIOUS
  <2> DEFINE x == h[k]
             y == h[k + 1]
             row == rs[k + 1]
  <2>1. /\ ReplayIn(x, e) /\ Mirrored(First(k), x.ext, x.reg, x.order)
        /\ k + 1 \in 1 .. Len(rs) /\ k + 1 - 1 = k
    BY <1>1, <1>4
  <2>2. y = ReplayRow(x, row) /\ row \in RowsIn(e)
    BY <1>2, <2>1 DEF Stages
  <2>3. First(k + 1) = Append(First(k), row) /\ First(k) \in Seq(RowsIn(e))
    BY <1>1, <2>1
  <2> HIDE DEF S, First, x, y, row
  <2>4. ReplayIn(y, e)
    BY <2>1, <2>2, ReplayInStep
  <2>5. /\ row \in RowType /\ row.bucket \in Buckets /\ row.kind \in {"D", "S"}
    BY <2>2, RowIs
  <2>6. /\ x \in Images /\ Listed(x.ext, x.order)
        /\ x.ext \in Seq(RawExtent) /\ x.reg \in Seq(RawRegion) /\ x.order \in Seq(Buckets)
    BY <2>1 DEF ReplayIn, Images
  <2>7. /\ y \in Images /\ y.order = NextOrder(x.order, row.bucket)
        /\ row.kind = "S" => /\ y.ext = x.ext
                             /\ y.reg = Append(x.reg, [owner |-> row.bucket, start |-> row.start,
                                                       used |-> 0])
        /\ row.kind = "D" => /\ y.reg = x.reg
                             /\ \E g \in Seq(RawExtent) :
                                   /\ Len(g) = Len(x.ext)
                                   /\ \A i \in 1 .. Len(g) : Narrower(g[i], x.ext[i], row)
                                   /\ y.ext = Append(g, [owner |-> row.bucket, start |-> row.start,
                                                         size |-> row.size, used |-> 0])
    BY <2>2, <2>5, <2>6, RowReplayed
  <2>8. Range(x.order) \subseteq Range(y.order) /\ row.bucket \in Range(y.order)
    <3>1. /\ \A n \in DOMAIN x.order : n \in DOMAIN y.order /\ y.order[n] = x.order[n]
          /\ \E n \in DOMAIN y.order : y.order[n] = row.bucket
      <4>1. \A o \in Seq(Buckets), b \in Buckets :
               /\ \A n \in DOMAIN o : n \in DOMAIN NextOrder(o, b) /\ NextOrder(o, b)[n] = o[n]
               /\ \E n \in DOMAIN NextOrder(o, b) : NextOrder(o, b)[n] = b
        BY NextOrderIs
      <4> QED  BY <2>5, <2>6, <2>7, <4>1
    <3> QED  BY <3>1 DEF Range
  <2>9. CASE row.kind = "S"
    <3> DEFINE new == [owner |-> row.bucket, start |-> row.start, used |-> 0]
    <3>1. row.start \in Nat
      BY <2>2, RowIs
    <3>2. new \in RawRegion /\ new.owner = row.bucket
      BY <2>5, <3>1 DEF RawRegion
    <3>3. \A b : HasRegion(y.reg, b) <=> HasRegion(x.reg, b) \/ b = row.bucket
      <4>1. y.reg = Append(x.reg, new)
        BY <2>7, <2>9
      <4> HIDE DEF new
      <4>2. \A b : HasRegion(Append(x.reg, new), b) <=> HasRegion(x.reg, b) \/ b = new.owner
        BY <2>6, <3>2, OwnersAppended
      <4> QED  BY <3>2, <4>1, <4>2
    <3>4. Mirrored(Append(First(k), row), y.ext, y.reg, y.order)
      BY <2>1, <2>2, <2>3, <2>5, <2>7, <2>8, <2>9, <3>3, MirroredAppend
    <3> QED  BY <2>3, <2>4, <3>4 DEF y
  <2>10. CASE row.kind = "D"
    <3> DEFINE new == [owner |-> row.bucket, start |-> row.start, size |-> row.size, used |-> 0]
    <3>1. row.start \in Nat /\ row.size \in Nat
      BY <2>2, RowIs
    <3>2. new \in RawExtent /\ new.owner = row.bucket
      BY <2>5, <3>1 DEF RawExtent
    <3>3. PICK g \in Seq(RawExtent) : /\ Len(g) = Len(x.ext)
                                      /\ \A i \in 1 .. Len(g) : Narrower(g[i], x.ext[i], row)
                                      /\ y.ext = Append(g, new)
      BY <2>7, <2>10
    <3> HIDE DEF new
    <3>4. DOMAIN g = DOMAIN x.ext /\ \A i \in DOMAIN g : g[i].owner = x.ext[i].owner
      <4>1. DOMAIN g = 1 .. Len(g) /\ DOMAIN x.ext = 1 .. Len(x.ext)
        BY <2>6
      <4>2. \A i \in 1 .. Len(g) : g[i].owner = x.ext[i].owner
        BY <3>3 DEF Narrower
      <4> QED  BY <3>3, <4>1, <4>2
    <3>5. \A b : OwnsPart(g, b) <=> OwnsPart(x.ext, b)
      BY <3>4, OwnersSame
    <3>6. \A b : OwnsPart(Append(g, new), b) <=> OwnsPart(g, b) \/ b = new.owner
      BY <3>2, <3>3, OwnersAppended
    <3>7. \A b : OwnsPart(y.ext, b) <=> OwnsPart(x.ext, b) \/ b = row.bucket
      BY <3>2, <3>3, <3>5, <3>6
    <3>8. Mirrored(Append(First(k), row), y.ext, y.reg, y.order)
      BY <2>1, <2>2, <2>3, <2>5, <2>7, <2>8, <2>10, <3>7, MirroredAppend
    <3> QED  BY <2>3, <2>4, <3>8 DEF y
  <2> QED  BY <2>5, <2>9, <2>10
<1>5. l \in S
  <2> HIDE DEF S
  <2> QED  BY <1>1, <1>3, <1>4, SetInduction
<1>6. First(l) = rs
  BY <1>1
<1>7. Mirrored(First(l), h[l].ext, h[l].reg, h[l].order)
  <2>1. l <= l
    BY <1>1
  <2> HIDE DEF First, l
  <2> QED  BY <1>5, <2>1
<1> QED  BY <1>2, <1>6, <1>7

-----------------------------------------------------------------------------
(* Steps, as long as no metadata is lost. *)

\* A step leaves the registry and what was lost alone.
Still == /\ UNCHANGED <<rows, rDisk, rDone>> /\ UNCHANGED <<losses, cut, iFile, rFile>>

\* The process goes on without a new row.
LEMMA RunStep ==
    ASSUME RowsInv, hpc \notin Closed, hpc' \in Places, hpc' \notin Closed, Still,
           Mirrored(rows, ext', reg', order'),
           hpc' \in {"recover", "restore"} => hpc \in {"recover", "restore"},
           pc' = "grant_new" => /\ call'.bucket \in Range(order')
                                /\ \A n \in DOMAIN rows : rows[n].bucket # call'.bucket,
           pc' # "region"
    PROVE  RowsInv'
<1>1. /\ rows' = rows /\ rDisk' = rDisk /\ rDone' = rDone
      /\ losses' = losses /\ cut' = cut /\ iFile' = iFile /\ rFile' = rFile
  BY DEF Still
<1>2. NothingLost'
  BY <1>1 DEF RowsInv, NothingLost, Closed
<1>3. /\ Paired(rows) /\ FileHolds(rDisk, rows, rDone)
      /\ hpc \in {"recover", "restore"} => rDone = Len(rows)
  BY DEF RowsInv, RowsRunning
<1>4. Mirrored(rows', ext', reg', order')
  BY <1>1
<1>5. RowsRunning'
  BY <1>1, <1>3, <1>4, Zenon DEF RowsRunning, FileHolds
<1>6. RowsAtRest' /\ PanicsOnlyAtHalfBucket'
  BY DEF RowsAtRest, PanicsOnlyAtHalfBucket, Closed
<1> QED  BY <1>2, <1>5, <1>6 DEF RowsInv

\* What is known of the rows while the process runs.
LEMMA Running ==
    ASSUME BTypes, RowsInv, hpc \notin Closed
    PROVE  /\ Paired(rows) /\ FileHolds(rDisk, rows, rDone)
           /\ Mirrored(rows, ext, reg, order)
           /\ hpc \in {"recover", "restore"} => rDone = Len(rows)
           /\ pc = "grant_new" => /\ call.bucket \in Range(order)
                                  /\ \A n \in DOMAIN rows : rows[n].bucket # call.bucket
           /\ pc = "region" => /\ rows # <<>> /\ rows[Len(rows)].kind = "D"
                               /\ rows[Len(rows)].bucket = call.bucket
           /\ rows \in Seq(RowsIn(allocEnd)) /\ Len(rows) \in Nat /\ Len(rows) <= MaxRows
           /\ rDone \in 0 .. Len(rows) /\ allocEnd \in Nat
           /\ hpc # "alloc" => pc = "idle"
<1>1. /\ rows \in Seq(RowsIn(allocEnd)) /\ Len(rows) <= MaxRows /\ rDone \in 0 .. Len(rows)
      /\ allocEnd \in Nat /\ (hpc # "alloc" => pc = "idle")
  BY DEF BTypes, RegistryTypes, AllocTypes, CallTypes
<1> QED  BY <1>1 DEF RowsInv, RowsRunning

\* A step of a heap call that leaves the allocator alone, or only ends its call.
LEMMA CallRun ==
    ASSUME BTypes, RowsInv, hpc \in CallPlaces, hpc' \in CallPlaces, Still,
           UNCHANGED <<order, ext, reg>>, pc' = "idle" \/ pc' = "place"
    PROVE  RowsInv'
<1>1. /\ hpc \notin Closed /\ hpc' \in Places /\ hpc' \notin Closed
      /\ hpc' \notin {"recover", "restore"}
  BY UpIs
<1>2. Mirrored(rows, ext', reg', order')
  BY <1>1, Running
<1> QED  BY <1>1, <1>2, RunStep

\* The process ends, and the file holds a prefix of its rows.
LEMMA GoneRows ==
    ASSUME BTypes, RowsInv, hpc \notin Closed, hpc' \in {"down", "dead"},
           UNCHANGED <<losses, cut, iFile, rFile>>,
           NEW k \in 0 .. Len(rows), FileHolds(rDisk', rows, k),
           rDisk' \in [1 .. MaxRows -> FileRows(allocEnd)],
           hpc' = "dead" => PanicsOnlyAtHalfBucket'
    PROVE  RowsInv'
<1>1. /\ rows \in Seq(RowsIn(allocEnd)) /\ Len(rows) \in Nat /\ Len(rows) <= MaxRows
      /\ allocEnd \in Nat /\ Paired(rows)
  BY Running
<1>2. DiskRows' = Leading(rDisk')
  BY DEF DiskRows, Leading
<1>3. /\ Leading(rDisk') \in Seq(FileRows(allocEnd)) /\ Len(Leading(rDisk')) = k
      /\ \A n \in 1 .. k : Leading(rDisk')[n] = rows[n]
  BY <1>1, FilePrefix
<1>4. /\ DiskRows' \in Seq(FileRows(allocEnd)) /\ Len(DiskRows') = k
      /\ \A n \in 1 .. k : DiskRows'[n] = rows[n]
  BY <1>2, <1>3
<1>5. Paired(DiskRows')
  <2> DEFINE q == DiskRows'
  <2>1. q \in Seq(FileRows(allocEnd)) /\ Len(q) <= Len(rows) /\ \A n \in 1 .. Len(q) : q[n] = rows[n]
    BY <1>1, <1>4
  <2> HIDE DEF q
  <2>2. Paired(q)
    BY <1>1, <2>1, PairedPrefix
  <2> QED  BY <2>2 DEF q
<1>6. FileHolds(rDisk', DiskRows', Len(DiskRows'))
  <2>1. \A n \in 1 .. MaxRows : rDisk'[n] = IF n <= k THEN rows[n] ELSE NoRow
    BY DEF FileHolds
  <2>2. \A n \in 1 .. MaxRows : n <= k => n \in 1 .. k
    OBVIOUS
  <2>3. \A n \in 1 .. MaxRows : rDisk'[n] = IF n <= k THEN DiskRows'[n] ELSE NoRow
    BY <1>4, <2>1, <2>2
  <2> QED  BY <1>4, <2>3 DEF FileHolds
<1>7. ~RowsCorrupt'
  <2> SUFFICES ASSUME BadRow \in Range(DiskRows') PROVE FALSE
    BY DEF RowsCorrupt
  <2>1. PICK n \in DOMAIN DiskRows' : DiskRows'[n] = BadRow
    BY DEF Range
  <2>2. n \in 1 .. k /\ n \in 1 .. Len(rows)
    BY <1>1, <1>4
  <2>3. rows[n] = BadRow /\ rows[n] \in RowsIn(allocEnd)
    BY <1>1, <1>4, <2>1, <2>2
  <2> QED  BY <1>1, <2>3, RowsAre
<1>8. NothingLost'
  BY DEF RowsInv, NothingLost, Places
<1>9. RowsRunning'
  BY DEF RowsRunning, Closed
<1>10. RowsAtRest'
  BY <1>5, <1>6, <1>7 DEF RowsAtRest, FileHolds
<1>11. PanicsOnlyAtHalfBucket'
  BY DEF PanicsOnlyAtHalfBucket
<1> QED  BY <1>8, <1>9, <1>10, <1>11 DEF RowsInv

\* A kill leaves a prefix of the rows.
LEMMA KillRows ==
    ASSUME BTypes, RowsInv, InOrder, Kill
    PROVE  RowsInv'
<1>1. /\ hpc \notin {"down", "dead"} /\ hpc' = "down" /\ rDisk' \in RegistryTorn
      /\ UNCHANGED <<losses, iFile, rFile>>
      /\ cut' = \/ cut \/ hpc = "rebuild_rows"
                \/ hpc = "rebuild_index" /\ rFile = "sound" /\ ~RowsCorrupt
  BY DEF Kill
<1>2. hpc \notin Closed /\ hpc # "rebuild_rows" /\ hpc # "rebuild_index" /\ cut = FALSE
  BY <1>1 DEF RowsInv, NothingLost, Closed
<1>3. cut' = cut
  BY <1>1, <1>2
<1>4. FileHolds(rDisk, rows, rDone)
  BY <1>2, Running
<1>5. PICK k \in 0 .. Len(rows) : FileHolds(rDisk', rows, k)
  BY <1>1, <1>2, <1>4, TornPrefix
<1>6. rDisk' \in [1 .. MaxRows -> FileRows(allocEnd)]
  BY <1>1, RegistryViews DEF BTypes
<1> QED  BY <1>1, <1>2, <1>3, <1>5, <1>6, GoneRows

\* The commit ends, and the heap is closed or goes on.
LEMMA CommitIndexRows ==
    ASSUME BTypes, RowsInv, CommitIndex
    PROVE  RowsInv'
<1>1. /\ hpc = "commit_index" /\ UNCHANGED rDisk /\ UNCHANGED <<losses, cut, iFile, rFile>>
      /\ \/ hpc' = "down"
         \/ hpc' = "idle" /\ UNCHANGED <<order, ext, reg, rows>> /\ UNCHANGED pc /\ UNCHANGED rDone
  BY DEF CommitIndex, Returns, vars, allocator
<1>2. hpc \notin Closed /\ hpc \in CallPlaces /\ "idle" \in CallPlaces /\ pc = "idle"
  BY <1>1, Running DEF Closed, CallPlaces
<1>3. CASE hpc' = "down"
  <2>1. FileHolds(rDisk', rows, rDone) /\ rDone \in 0 .. Len(rows)
    BY <1>1, <1>2, Running DEF FileHolds
  <2>2. rDisk' \in [1 .. MaxRows -> FileRows(allocEnd)]
    BY <1>1, RegistryViews DEF BTypes
  <2> QED  BY <1>1, <1>2, <1>3, <2>1, <2>2, GoneRows
<1>4. CASE hpc' = "idle" /\ UNCHANGED <<order, ext, reg, rows>> /\ UNCHANGED pc /\ UNCHANGED rDone
  BY <1>1, <1>2, <1>4, CallRun DEF Still
<1> QED  BY <1>1, <1>3, <1>4

\* The rows are flushed.
LEMMA CommitRegistryRows ==
    ASSUME BTypes, RowsInv, CommitRegistry
    PROVE  RowsInv'
<1>1. /\ hpc = "commit_registry" /\ hpc' = "commit_data" /\ rDisk' = rView /\ rDone' = Len(rows)
      /\ UNCHANGED <<order, ext, reg, rows>> /\ UNCHANGED pc /\ UNCHANGED <<losses, cut, iFile, rFile>>
  BY DEF CommitRegistry, FlushRegistry, vars, allocator, heapHistory
<1>2. hpc \notin Closed /\ hpc' \notin Closed /\ hpc' \in Places
  BY <1>1 DEF Closed, Places
<1>3. /\ Paired(rows) /\ FileHolds(rDisk, rows, rDone) /\ Mirrored(rows, ext, reg, order)
      /\ pc = "idle" /\ Len(rows) \in Nat /\ rDone \in 0 .. Len(rows) /\ Len(rows) <= MaxRows
  BY <1>1, <1>2, Running
<1>4. FileHolds(rDisk', rows, Len(rows))
  <2> SUFFICES ASSUME NEW n \in 1 .. MaxRows
               PROVE  rView[n] = IF n <= Len(rows) THEN rows[n] ELSE NoRow
    BY <1>1 DEF FileHolds
  <2>1. /\ rView[n] = IF n > rDone /\ n <= Len(rows) THEN rows[n] ELSE rDisk[n]
        /\ rDisk[n] = IF n <= rDone THEN rows[n] ELSE NoRow
    BY <1>3 DEF rView, FileHolds
  <2> QED  BY <1>3, <2>1
<1>5. RowsRunning'
  BY <1>1, <1>3, <1>4 DEF RowsRunning, FileHolds
<1>6. RowsAtRest' /\ PanicsOnlyAtHalfBucket' /\ NothingLost'
  BY <1>1, <1>2 DEF RowsAtRest, PanicsOnlyAtHalfBucket, RowsInv, NothingLost, Closed
<1> QED  BY <1>5, <1>6 DEF RowsInv

\* insert finds its bucket or enters it.
LEMMA BeginInsertRows ==
    ASSUME BTypes, RowsInv, NEW b \in Buckets, NEW len \in Lens, BeginInsert(b, len)
    PROVE  RowsInv'
<1>1. /\ hpc = "idle" /\ hpc' = "alloc" /\ Still /\ call'.bucket = b
      /\ UNCHANGED <<ext, reg>>
      /\ IF b \in Known THEN pc' = "place" /\ UNCHANGED order
                        ELSE pc' = "grant_new" /\ order' = Append(order, b)
  BY DEF BeginInsert, Insert, Still, files, staged, heapHistory
<1>2. hpc \notin Closed /\ hpc' \in Places /\ hpc' \notin Closed /\ hpc' \notin {"recover", "restore"}
  BY <1>1 DEF Closed, Places
<1>3. Mirrored(rows, ext, reg, order)
  BY <1>2, Running
<1>4. CASE b \in Known
  <2>1. Mirrored(rows, ext', reg', order')
    BY <1>1, <1>3, <1>4
  <2> QED  BY <1>1, <1>2, <1>4, <2>1, RunStep
<1>5. CASE b \notin Known
  <2>1. order \in Seq(Buckets)
    BY DEF BTypes, AllocTypes
  <2>2. Range(order) \subseteq Range(order') /\ b \in Range(order')
    <3> DEFINE q == Append(order, b)
               l == Len(order)
    <3>1. /\ l \in Nat /\ DOMAIN q = 1 .. l + 1 /\ DOMAIN order = 1 .. l
          /\ q[l + 1] = b /\ \A n \in 1 .. l : q[n] = order[n]
      BY <2>1
    <3>2. order' = q
      BY <1>1, <1>5
    <3> HIDE DEF q, l
    <3>3. l + 1 \in 1 .. l + 1 /\ \A n \in 1 .. l : n \in 1 .. l + 1
      BY <3>1
    <3> QED  BY <3>1, <3>2, <3>3 DEF Range
  <2>3. \A n \in DOMAIN rows : rows[n].bucket # b
    BY <1>3, <1>5 DEF Mirrored, Known
  <2>4. Mirrored(rows, ext', reg', order')
    BY <1>1, <1>3, <2>2 DEF Mirrored
  <2> QED  BY <1>1, <1>2, <1>5, <2>2, <2>3, <2>4, RunStep
<1> QED  BY <1>4, <1>5

\* The calls that neither allocate nor flush the registry.
LEMMA CallRows ==
    ASSUME BTypes, RowsInv,
           \/ \E id \in Ids : Begin("read", id, 0) \/ Begin("delete", id, 0)
           \/ \E id \in Ids, len \in Lens : Begin("update", id, len)
           \/ \E kind \in {"flush", "close"} : BeginFlush(kind)
           \/ ReadSlot \/ ReadRecord \/ UpdateRecord \/ AllocFails \/ Unwind
           \/ StageRecord \/ SlotStage \/ CommitData
    PROVE  RowsInv'
<1>1. /\ hpc \in CallPlaces /\ hpc' \in CallPlaces /\ Still /\ UNCHANGED <<order, ext, reg>>
      /\ hpc # "alloc" \/ pc \in {"idle", "panicked"}
      /\ pc' = pc \/ pc' = "idle" \/ pc' = "place"
  <2>1. CASE \/ \E id \in Ids : Begin("read", id, 0) \/ Begin("delete", id, 0)
             \/ \E id \in Ids, len \in Lens : Begin("update", id, len)
    BY <2>1 DEF Begin, CallPlaces, Still, vars, allocator, files, staged, heapHistory
  <2>2. CASE \E kind \in {"flush", "close"} : BeginFlush(kind)
    BY <2>2 DEF BeginFlush, CallPlaces, Still, vars, allocator, files, staged, heapHistory
  <2>3. CASE ReadSlot
    BY <2>3 DEF ReadSlot, Returns, CallPlaces, Still, vars, allocator, heapHistory
  <2>4. CASE ReadRecord
    BY <2>4 DEF ReadRecord, Returns, CallPlaces, Still, vars, allocator, heapHistory
  <2>5. CASE UpdateRecord
    BY <2>5 DEF UpdateRecord, Update, Returns, CallPlaces, Still, vars, allocator, heapHistory
  <2>6. CASE AllocFails
    BY <2>6 DEF AllocFails, Returns, CallPlaces, Still, vars, allocator, files, staged, heapHistory
  <2>7. CASE Unwind
    BY <2>7 DEF Unwind, CallPlaces, Still, allocator, files, staged, heapHistory
  <2>8. CASE StageRecord
    BY <2>8 DEF StageRecord, CallPlaces, Still, allocator, heapHistory
  <2>9. CASE SlotStage
    BY <2>9 DEF SlotStage, Returns, CallPlaces, Still, vars, allocator
  <2>10. CASE CommitData
    BY <2>10 DEF CommitData, CallPlaces, Still, vars, allocator, heapHistory
  <2> QED  BY <2>1, <2>2, <2>3, <2>4, <2>5, <2>6, <2>7, <2>8, <2>9, <2>10
<1>2. hpc # "alloc" => pc = "idle"
  BY DEF BTypes, CallTypes
<1>3. CASE pc' = "idle" \/ pc' = "place"
  BY <1>1, <1>3, CallRun
<1>4. CASE pc' = "panicked"
  <2>1. /\ hpc \notin Closed /\ hpc' \in Places /\ hpc' \notin Closed
        /\ hpc' \notin {"recover", "restore"}
    BY <1>1, UpIs
  <2>2. Mirrored(rows, ext', reg', order')
    BY <1>1, <2>1, Running
  <2> QED  BY <1>1, <1>4, <2>1, <2>2, RunStep
<1> QED  BY <1>1, <1>2, <1>3, <1>4

-----------------------------------------------------------------------------
(* The allocator at work. *)

\* What a step of the allocator leaves alone of the registry.
Aside == /\ hpc = "alloc" /\ hpc' = "alloc" /\ UNCHANGED <<rDisk, rDone>>
         /\ UNCHANGED <<losses, cut, iFile, rFile>>

\* A row more.
LEMMA NewRow ==
    ASSUME BTypes, RowsInv, Aside, NEW row, row.kind \in {"D", "S"}, row.bucket = call.bucket,
           rows' = Append(rows, row), order' = order, call.bucket \in Range(order),
           rows # <<>> /\ rows[Len(rows)].kind = "D" =>
              \/ HasRow(rows, "S", rows[Len(rows)].bucket)
              \/ row.kind = "S" /\ row.bucket = rows[Len(rows)].bucket,
           row.kind = "D" => \/ HasRow(rows, "S", row.bucket)
                             \/ \A n \in DOMAIN rows : rows[n].bucket # row.bucket,
           \A b : OwnsPart(ext', b) <=> OwnsPart(ext, b) \/ (row.kind = "D" /\ b = row.bucket),
           \A b : HasRegion(reg', b) <=> HasRegion(reg, b) \/ (row.kind = "S" /\ b = row.bucket),
           pc' # "grant_new", pc' = "region" => row.kind = "D" /\ call' = call
    PROVE  RowsInv'
<1>1. hpc \notin Closed /\ hpc' \in Places /\ hpc' \notin Closed /\ hpc' \notin {"recover", "restore"}
  BY DEF Aside, Closed, Places
<1>2. /\ Paired(rows) /\ FileHolds(rDisk, rows, rDone) /\ Mirrored(rows, ext, reg, order)
      /\ rows \in Seq(RowsIn(allocEnd)) /\ Len(rows) \in Nat /\ rDone \in 0 .. Len(rows)
  BY <1>1, Running
<1> DEFINE V == RowsIn(allocEnd) \union {row}
           l == Len(rows)
<1>3. rows \in Seq(V) /\ row \in V
  <2>1. \A n \in 1 .. Len(rows) : rows[n] \in V
    BY <1>2
  <2> QED  BY <1>2, <2>1
<1>4. /\ DOMAIN rows' = 1 .. l + 1 /\ DOMAIN rows = 1 .. l /\ rows'[l + 1] = row
      /\ \A n \in 1 .. l : rows'[n] = rows[n]
      /\ Len(rows') = l + 1
  <2> HIDE DEF V
  <2> QED  BY <1>3
<1> HIDE DEF V
<1>5. Paired(rows')
  BY <1>2, <1>3, PairedAppend
<1>6. Mirrored(rows', ext', reg', order')
  <2>1. Range(order) \subseteq Range(order') /\ row.bucket \in Range(order')
    OBVIOUS
  <2>2. Mirrored(Append(rows, row), ext', reg', order')
    BY <1>2, <1>3, <2>1, MirroredAppend
  <2> QED  BY <2>2
<1>7. FileHolds(rDisk', rows', rDone')
  <2>1. rDisk' = rDisk /\ rDone' = rDone
    BY DEF Aside
  <2>2. \A n \in 1 .. MaxRows : n <= rDone => n \in 1 .. l
    BY <1>2
  <2>3. \A n \in 1 .. MaxRows : rDisk[n] = IF n <= rDone THEN rows[n] ELSE NoRow
    BY <1>2 DEF FileHolds
  <2>4. \A n \in 1 .. MaxRows : rDisk[n] = IF n <= rDone THEN rows'[n] ELSE NoRow
    BY <1>4, <2>2, <2>3
  <2> QED  BY <2>1, <2>4 DEF FileHolds
<1>8. pc' = "region" => /\ rows' # <<>> /\ rows'[Len(rows')].kind = "D"
                        /\ rows'[Len(rows')].bucket = call'.bucket
  <2>1. Len(<<>>) = 0 /\ l + 1 # 0
    BY <1>2
  <2> QED  BY <1>4, <2>1
<1>9. RowsRunning'
  BY <1>1, <1>5, <1>6, <1>7, <1>8, Zenon DEF RowsRunning, FileHolds
<1>10. RowsAtRest' /\ PanicsOnlyAtHalfBucket' /\ NothingLost'
  BY <1>1 DEF Aside, RowsAtRest, PanicsOnlyAtHalfBucket, RowsInv, NothingLost, Closed
<1> QED  BY <1>9, <1>10 DEF RowsInv

\* The buckets that have an extent have a row, and outside of the creation of a bucket one
\* of a region too.
LEMMA AllComplete ==
    ASSUME BTypes, RowsInv, hpc = "alloc"
    PROVE  /\ \A b \in Buckets : OwnsPart(ext, b) => b \in Range(order)
           /\ pc # "region" => \A b \in Buckets : OwnsPart(ext, b) => HasRow(rows, "S", b)
           /\ pc # "region" => (rows # <<>> /\ rows[Len(rows)].kind = "D" =>
                                   HasRow(rows, "S", rows[Len(rows)].bucket))
<1>1. hpc \notin Closed
  BY DEF Closed
<1>2. Mirrored(rows, ext, reg, order) /\ rows \in Seq(RowsIn(allocEnd)) /\ allocEnd \in Nat
  BY <1>1, Running
<1>3. /\ \A n \in DOMAIN rows : rows[n].bucket \in Range(order)
      /\ \A b \in Buckets : HasRow(rows, "D", b) <=> OwnsPart(ext, b)
      /\ \A b \in Buckets : HasRow(rows, "S", b) <=> HasRegion(reg, b)
  BY <1>2 DEF Mirrored
<1>4. \A b \in Buckets : OwnsPart(ext, b) => b \in Range(order)
  BY <1>3 DEF HasRow
<1>5. ASSUME pc # "region", NEW b \in Buckets, OwnsPart(ext, b) PROVE HasRow(rows, "S", b)
  <2>1. PICK i \in DOMAIN ext : ext[i].owner = b
    BY <1>5 DEF OwnsPart
  <2>2. HasRegion(reg, ext[i].owner)
    BY <1>5, AtWork
  <2> QED  BY <1>3, <2>1, <2>2
<1>6. ASSUME pc # "region", rows # <<>>, rows[Len(rows)].kind = "D"
      PROVE  HasRow(rows, "S", rows[Len(rows)].bucket)
  <2>1. Len(rows) \in DOMAIN rows /\ rows[Len(rows)] \in RowsIn(allocEnd)
    BY <1>2, <1>6
  <2>2. rows[Len(rows)].bucket \in Buckets
    BY <1>2, <2>1, RowIs
  <2>3. OwnsPart(ext, rows[Len(rows)].bucket)
    BY <1>3, <1>6, <2>1, <2>2 DEF HasRow
  <2> QED  BY <1>5, <1>6, <2>2, <2>3
<1> QED  BY <1>4, <1>5, <1>6

\* An extent is granted: the row of a new bucket's first, or of one that has a region.
LEMMA GrantedRows ==
    ASSUME BTypes, RowsInv, Aside, Granting, NEW W, NEW e \in Seq(W), DOMAIN e = DOMAIN ext,
           \A i \in DOMAIN ext : e[i].owner = ext[i].owner, NEW g, Grant(e, g)
    PROVE  RowsInv'
<1> DEFINE used == IF pc = "grant_more" THEN call.len ELSE 0
           x == [owner |-> call.bucket, start |-> g.start, size |-> g.size, used |-> used]
           row == [kind |-> "D", bucket |-> call.bucket, start |-> g.start, size |-> g.size]
<1>1. /\ ext' = Append(e, x) /\ rows' = Append(rows, row) /\ order' = order /\ reg' = reg
      /\ call' = call /\ pc' \in {"number", "region"}
  BY DEF Grant, PushRow
<1>2. hpc = "alloc" /\ hpc \notin Closed /\ pc \in {"grant_new", "grant_more"}
  BY DEF Aside, Granting, Closed
<1>3. call.bucket \in Buckets /\ (pc = "grant_more" => OwnsPart(ext, call.bucket))
  BY <1>2, AtWork, ActiveAre DEF OwnsPart
<1>4. row.kind = "D" /\ row.bucket = call.bucket /\ x.owner = call.bucket
  OBVIOUS
<1> HIDE DEF x, row
<1>5. \A b : OwnsPart(ext', b) <=> OwnsPart(ext, b) \/ b = row.bucket
  <2>1. \A b : OwnsPart(e, b) <=> OwnsPart(ext, b)
    BY OwnersSame
  <2>2. e \in Seq(W \union {x}) /\ x \in W \union {x}
    <3>1. \A n \in 1 .. Len(e) : e[n] \in W \union {x}
      OBVIOUS
    <3> QED  BY <3>1
  <2>3. \A b : OwnsPart(Append(e, x), b) <=> OwnsPart(e, b) \/ b = x.owner
    BY <2>2, OwnersAppended
  <2> QED  BY <1>1, <1>4, <2>1, <2>3
<1>6. \A b : HasRegion(reg', b) <=> HasRegion(reg, b)
  BY <1>1
<1>7. call.bucket \in Range(order) /\ \/ HasRow(rows, "S", row.bucket)
                                      \/ \A n \in DOMAIN rows : rows[n].bucket # row.bucket
  BY <1>2, <1>3, <1>4, AllComplete, Running
<1>8. rows # <<>> /\ rows[Len(rows)].kind = "D" => HasRow(rows, "S", rows[Len(rows)].bucket)
  BY <1>2, AllComplete
<1> QED  BY <1>1, <1>4, <1>5, <1>6, <1>7, <1>8, NewRow

\* A region is granted: the row completes a new bucket, or all are complete.
LEMMA RegionRows ==
    ASSUME BTypes, RowsInv, Aside, NEW used, NewRegion(used), pc \in {"region", "number"},
           pc' \notin {"grant_new", "region"}
    PROVE  RowsInv'
<1> DEFINE x == [owner |-> call.bucket, start |-> nextRegion, used |-> used]
           row == [kind |-> "S", bucket |-> call.bucket, start |-> nextRegion, size |-> region_slots]
<1>1. /\ reg' = Append(reg, x) /\ rows' = Append(rows, row) /\ order' = order /\ ext' = ext
  BY DEF NewRegion, PushRow
<1>2. hpc = "alloc" /\ hpc \notin Closed
  BY DEF Aside, Closed
<1>3. /\ call.bucket \in Buckets /\ (pc = "number" => OwnsPart(ext, call.bucket))
      /\ reg \in Seq(RegionsIn)
  BY <1>2, AtWork, ActiveAre DEF OwnsPart
<1>4. row.kind = "S" /\ row.bucket = call.bucket /\ x.owner = call.bucket
  OBVIOUS
<1> HIDE DEF x, row
<1>5. \A b : HasRegion(reg', b) <=> HasRegion(reg, b) \/ b = row.bucket
  <2>1. reg \in Seq(RegionsIn \union {x}) /\ x \in RegionsIn \union {x}
    <3>1. \A n \in 1 .. Len(reg) : reg[n] \in RegionsIn \union {x}
      BY <1>3
    <3> QED  BY <1>3, <3>1
  <2>2. \A b : HasRegion(Append(reg, x), b) <=> HasRegion(reg, b) \/ b = x.owner
    BY <2>1, OwnersAppended
  <2> QED  BY <1>1, <1>4, <2>2
<1>6. \A b : OwnsPart(ext', b) <=> OwnsPart(ext, b)
  BY <1>1
<1>7. call.bucket \in Range(order)
  <2>1. CASE pc = "number"
    BY <1>2, <1>3, <2>1, AllComplete
  <2>2. CASE pc = "region"
    <3>1. /\ rows # <<>> /\ rows[Len(rows)].bucket = call.bucket /\ rows \in Seq(RowsIn(allocEnd))
          /\ Mirrored(rows, ext, reg, order)
      BY <1>2, <2>2, Running
    <3>2. Len(rows) \in DOMAIN rows
      BY <3>1
    <3> QED  BY <3>1, <3>2 DEF Mirrored
  <2> QED  BY <2>1, <2>2
<1>8. rows # <<>> /\ rows[Len(rows)].kind = "D" => \/ HasRow(rows, "S", rows[Len(rows)].bucket)
                                                   \/ row.bucket = rows[Len(rows)].bucket
  BY <1>2, <1>4, AllComplete, Running
<1> QED  BY <1>1, <1>4, <1>5, <1>6, <1>7, <1>8, NewRow

\* The allocator goes on without a new row.
LEMMA WorkRun ==
    ASSUME BTypes, RowsInv, Aside, rows' = rows, order' = order,
           \A b : OwnsPart(ext', b) <=> OwnsPart(ext, b),
           \A b : HasRegion(reg', b) <=> HasRegion(reg, b),
           pc' # "region", pc' = "grant_new" => pc = "grant_new" /\ call' = call
    PROVE  RowsInv'
<1>1. hpc \notin Closed /\ hpc' \in Places /\ hpc' \notin Closed /\ hpc' \notin {"recover", "restore"}
  BY DEF Aside, Closed, Places
<1>2. Mirrored(rows, ext', reg', order')
  BY <1>1, Running DEF Mirrored
<1>3. Still
  BY DEF Aside, Still
<1>4. pc' = "grant_new" => /\ call'.bucket \in Range(order')
                           /\ \A n \in DOMAIN rows : rows[n].bucket # call'.bucket
  BY <1>1, Running
<1> QED  BY <1>1, <1>2, <1>3, <1>4, RunStep

\* Every step of the allocator keeps the rows paired.
LEMMA AllocateRows ==
    ASSUME BTypes, RowsInv, Allocate
    PROVE  RowsInv'
<1>1. Aside /\ Step
  BY DEF Allocate, Aside, files, staged, heapHistory
<1>2. hpc = "alloc"
  BY <1>1 DEF Aside
<1>3. ext \in Seq(ExtentType) /\ reg \in Seq(RegionsIn)
  BY <1>2, AtWork
<1>4. CASE FirstGrant \/ Grow
  <2>1. Granting /\ \E g : Grant(ext, g)
    BY <1>4 DEF FirstGrant, Grow
  <2> QED  BY <1>1, <1>3, <2>1, GrantedRows
<1>5. CASE Split
  <2> DEFINE v == LastExtent(victim)
             e == [ext EXCEPT ![v].size = @ - Cut(Free(ext[v]))]
  <2>1. Granting /\ \E g : Grant(e, g)
    BY <1>5 DEF Split
  <2>2. DOMAIN e = DOMAIN ext /\ DOMAIN ext = 1 .. Len(ext) /\ Len(ext) \in Nat
    BY <1>3
  <2>3. \A i \in DOMAIN ext : e[i].owner = ext[i].owner
    <3>1. \A i \in DOMAIN ext : ext[i] \in ExtentType
      BY <1>3
    <3> HIDE DEF v
    <3> QED  BY <3>1 DEF ExtentType
  <2> HIDE DEF e
  <2> DEFINE W == {e[i] : i \in 1 .. Len(ext)}
  <2>4. e \in Seq(W)
    <3>1. e = [i \in 1 .. Len(ext) |-> e[i]]
      BY <2>2 DEF e
    <3>2. \A i \in 1 .. Len(ext) : e[i] \in W
      OBVIOUS
    <3> HIDE DEF W
    <3> QED  BY <2>2, <3>1, <3>2
  <2> HIDE DEF W
  <2> QED  BY <1>1, <2>1, <2>2, <2>3, <2>4, GrantedRows
<1>6. CASE GrantRegion
  BY <1>1, <1>6, RegionRows DEF GrantRegion
<1>7. CASE Number
  <2> DEFINE i == LastRegion(call.bucket)
             r == [reg EXCEPT ![i].used = @ + 1]
  <2>1. /\ pc = "number" /\ pc' = "idle"
        /\ \/ reg' = r /\ UNCHANGED <<order, ext, rows>>
           \/ NewRegion(1)
    BY <1>7 DEF Number, Return
  <2>2. CASE NewRegion(1)
    BY <1>1, <2>1, <2>2, RegionRows
  <2>3. CASE reg' = r /\ UNCHANGED <<order, ext, rows>>
    <3>1. DOMAIN r = DOMAIN reg /\ \A j \in DOMAIN reg : r[j].owner = reg[j].owner
      <4>1. \A j \in DOMAIN reg : reg[j] \in RawRegion
        BY <1>3 DEF RegionsIn
      <4> HIDE DEF i
      <4> QED  BY <4>1 DEF RawRegion
    <3> HIDE DEF r
    <3>2. \A b : HasRegion(r, b) <=> HasRegion(reg, b)
      BY <3>1, OwnersSame
    <3> QED  BY <1>1, <2>1, <2>3, <3>2, WorkRun
  <2> QED  BY <2>1, <2>2, <2>3
<1>8. CASE Place
  <2> DEFINE i == LastExtent(call.bucket)
             e == [ext EXCEPT ![i].used = @ + call.len]
  <2>1. pc' = "number" /\ ext' = e /\ UNCHANGED <<order, reg, rows>>
    BY <1>8 DEF Place
  <2>2. DOMAIN e = DOMAIN ext /\ \A j \in DOMAIN ext : e[j].owner = ext[j].owner
    <3>1. \A j \in DOMAIN ext : ext[j] \in ExtentType
      BY <1>3
    <3> HIDE DEF i
    <3> QED  BY <3>1 DEF ExtentType
  <2> HIDE DEF e
  <2>3. \A b : OwnsPart(e, b) <=> OwnsPart(ext, b)
    BY <2>2, OwnersSame
  <2> QED  BY <1>1, <2>1, <2>3, WorkRun
<1>9. CASE GrowFails \/ Skip \/ NoExtent \/ PlaceFull \/ UpdateReturns
  <2>1. /\ UNCHANGED <<order, ext, reg, rows>>
        /\ pc' \in {"idle", "panicked", "grant_more"} \/ (pc' = pc /\ call' = call /\ Granting)
    BY <1>9 DEF GrowFails, Skip, NoExtent, PlaceFull, UpdateReturns, Return, allocator
  <2> QED  BY <1>1, <2>1, WorkRun DEF Granting
<1> QED  BY <1>1, <1>4, <1>5, <1>6, <1>7, <1>8, <1>9 DEF Step, GrantStep

-----------------------------------------------------------------------------
(* Recovery, and all steps. *)

\* The replay mirrors the rows in the file.
LEMMA OpenRows ==
    ASSUME BTypes, RowsInv, Open
    PROVE  RowsInv'
<1> DEFINE x == Replay(DiskRows)
<1>1. /\ hpc = "down" /\ MetadataSound /\ hpc' = "recover"
      /\ order' = x.order /\ ext' = x.ext /\ reg' = x.reg
      /\ rows' = DiskRows /\ rDone' = Len(DiskRows) /\ UNCHANGED rDisk /\ UNCHANGED pc
      /\ UNCHANGED <<losses, cut, iFile, rFile>>
  BY DEF Open, files, heapHistory
<1>2. hpc \in Closed /\ hpc' \notin Closed /\ hpc' \in Places
  BY <1>1 DEF Closed, Places
<1>3. pc = "idle" /\ allocEnd \in Nat /\ initial_size <= allocEnd
  <2>1. /\ fileSize \in Nat /\ initial_size <= fileSize /\ fileSize <= allocEnd /\ allocEnd \in Nat
    BY DEF BTypes, AllocTypes
  <2>2. pc = "idle"
    BY <1>1 DEF BTypes, CallTypes
  <2> QED  BY <2>1, <2>2, BoundsAre
<1>4. Paired(DiskRows) /\ FileHolds(rDisk, DiskRows, Len(DiskRows))
  BY <1>2 DEF RowsInv, RowsAtRest
<1>5. DiskRows \in Seq(RowsIn(allocEnd))
  BY <1>1, <1>3, DiskRowsAre DEF BTypes, MetadataSound
<1>6. Mirrored(DiskRows, x.ext, x.reg, x.order)
  BY <1>3, <1>5, ReplayMirrors
<1> HIDE DEF x
<1>7. Paired(rows') /\ FileHolds(rDisk', rows', rDone') /\ Mirrored(rows', ext', reg', order')
  BY <1>1, <1>4, <1>6
<1>8. RowsRunning'
  BY <1>1, <1>3, <1>7 DEF RowsRunning, FileHolds
<1>9. RowsAtRest' /\ PanicsOnlyAtHalfBucket' /\ NothingLost'
  BY <1>1, <1>2 DEF RowsAtRest, PanicsOnlyAtHalfBucket, RowsInv, NothingLost, Closed
<1> QED  BY <1>8, <1>9 DEF RowsInv

\* Recovering a bucket changes no owner.
LEMMA ReadBucketRows ==
    ASSUME BTypes, RowsInv, ReadBucket
    PROVE  RowsInv'
<1> DEFINE b == order[at]
<1>1. /\ hpc = "recover" /\ hpc' = "restore" /\ UNCHANGED order /\ UNCHANGED pc /\ Still
      /\ DOMAIN reg' = DOMAIN reg /\ DOMAIN ext' = DOMAIN ext
      /\ \A i \in DOMAIN reg : reg'[i] = reg[i] \/ \E u : reg'[i] = [reg[i] EXCEPT !.used = u]
      /\ \A i \in DOMAIN ext : ext'[i] = ext[i] \/ \E u : ext'[i] = [ext[i] EXCEPT !.used = u]
  BY DEF ReadBucket, Still, heapHistory
<1>2. hpc \notin Closed /\ hpc' \notin Closed /\ hpc' \in Places
  BY <1>1 DEF Closed, Places
<1>3. pc = "idle" /\ Mirrored(rows, ext, reg, order)
  BY <1>1, <1>2, Running
<1>4. \A i \in DOMAIN reg : reg'[i].owner = reg[i].owner
  <2>1. \A i \in DOMAIN reg : reg[i] \in RawRegion
    BY DEF BTypes, AllocTypes, RegionsIn
  <2> QED  BY <1>1, <2>1 DEF RawRegion
<1>5. \A i \in DOMAIN ext : ext'[i].owner = ext[i].owner
  <2>1. \A i \in DOMAIN ext : ext[i] \in ExtentType
    BY DEF BTypes, AllocTypes, ExtentsIn
  <2> QED  BY <1>1, <2>1 DEF ExtentType
<1>6. /\ \A c : OwnsPart(ext', c) <=> OwnsPart(ext, c)
      /\ \A c : HasRegion(reg', c) <=> HasRegion(reg, c)
  BY <1>1, <1>4, <1>5, OwnersSame
<1>7. Mirrored(rows, ext', reg', order')
  BY <1>1, <1>3, <1>6 DEF Mirrored
<1> QED  BY <1>1, <1>2, <1>3, <1>7, RunStep

\* A slot is restored, or the open ends.
LEMMA RestoreRows ==
    ASSUME BTypes, RowsInv, EndOpen \/ \E id \in DOMAIN upd : RestoreSlot(id)
    PROVE  RowsInv'
<1>1. /\ hpc \in {"recover", "restore"} /\ hpc' \in {"idle", "restore"} /\ Still
      /\ UNCHANGED <<order, ext, reg>> /\ UNCHANGED pc
  BY DEF EndOpen, RestoreSlot, Still, vars, allocator, heapHistory
<1>2. hpc \notin Closed /\ hpc' \notin Closed /\ hpc' \in Places /\ hpc # "alloc"
  BY <1>1 DEF Closed, Places
<1>3. pc = "idle" /\ Mirrored(rows, ext, reg, order)
  BY <1>2, Running
<1> QED  BY <1>1, <1>2, <1>3, RunStep

\* A bucket with an extent and without a region has one row, the last.
LEMMA HalfBucket ==
    ASSUME NEW V, NEW rs \in Seq(V), Paired(rs), NEW b, HasRow(rs, "D", b), ~HasRow(rs, "S", b)
    PROVE  \E n \in DOMAIN rs : /\ rs[n].kind = "D"
                                /\ \A m \in DOMAIN rs : rs[m].bucket = rs[n].bucket => m = n
<1>1. PICK n \in DOMAIN rs : rs[n].kind = "D" /\ rs[n].bucket = b
  BY DEF HasRow
<1>2. DOMAIN rs = 1 .. Len(rs) /\ Len(rs) \in Nat
  OBVIOUS
<1>3. \A m \in DOMAIN rs : ~(rs[m].kind = "S" /\ rs[m].bucket = b)
  BY DEF HasRow
<1>4. \A m \in 1 .. n - 1 : m \in DOMAIN rs
  BY <1>2
<1>5. /\ \A m \in 1 .. n - 1 : rs[m].bucket # b
      /\ n + 1 \notin DOMAIN rs
  BY <1>1, <1>3, <1>4 DEF Paired
<1>6. \A m \in DOMAIN rs : rs[m].bucket = b => m = n
  <2> SUFFICES ASSUME NEW m \in DOMAIN rs, rs[m].bucket = b, m # n PROVE FALSE
    OBVIOUS
  <2>1. m \notin 1 .. n - 1
    BY <1>5
  <2> QED  BY <1>2, <1>5, <2>1
<1> QED  BY <1>1, <1>6

\* The next bucket, or the panic: then its extent is the last row there is.
LEMMA EndBucketRows ==
    ASSUME BTypes, RowsInv, EndBucket
    PROVE  RowsInv'
<1> DEFINE b == order[at]
<1>1. /\ hpc = "restore" /\ UNCHANGED rDisk /\ UNCHANGED <<losses, cut, iFile, rFile>>
      /\ \/ hpc' = "dead" /\ Owned(b) # {} /\ RegionsOf(b) = {}
         \/ hpc' = "recover" /\ UNCHANGED <<order, ext, reg, rows>> /\ UNCHANGED pc /\ UNCHANGED rDone
  BY DEF EndBucket, vars, allocator, staged, files, heapHistory
<1>2. hpc \notin Closed /\ hpc # "alloc" /\ hpc \in {"recover", "restore"}
  BY <1>1 DEF Closed
<1>3. /\ Paired(rows) /\ FileHolds(rDisk, rows, Len(rows)) /\ Mirrored(rows, ext, reg, order)
      /\ rDone = Len(rows) /\ pc = "idle" /\ allocEnd \in Nat
      /\ rows \in Seq(RowsIn(allocEnd)) /\ Len(rows) \in Nat /\ Len(rows) <= MaxRows
  BY <1>2, Running
<1>4. CASE hpc' = "recover" /\ UNCHANGED <<order, ext, reg, rows>> /\ UNCHANGED pc /\ UNCHANGED rDone
  <2>1. hpc' \in Places /\ hpc' \notin Closed
    BY <1>4 DEF Places, Closed
  <2> QED  BY <1>1, <1>2, <1>3, <1>4, <2>1, RunStep DEF Still
<1>5. CASE hpc' = "dead" /\ Owned(b) # {} /\ RegionsOf(b) = {}
  <2>1. b \in Buckets
    <3>1. at \in DOMAIN order /\ order \in Seq(Buckets)
      BY <1>1 DEF BTypes, OwnersHoused, AllocTypes
    <3> QED  BY <3>1
  <2>2. HasRow(rows, "D", b) /\ ~HasRow(rows, "S", b)
    <3>1. OwnsPart(ext, b) /\ ~HasRegion(reg, b)
      BY <1>5 DEF OwnsPart, Owned, HasRegion, RegionsOf
    <3> HIDE DEF b
    <3> QED  BY <1>3, <2>1, <3>1 DEF Mirrored
  <2>3. rDisk' \in [1 .. MaxRows -> FileRows(allocEnd)] /\ rDisk' = rDisk
    BY <1>1, RegistryViews DEF BTypes
  <2>4. Len(rows) \in 0 .. Len(rows) /\ FileHolds(rDisk', rows, Len(rows))
    BY <1>3, <2>3
  <2>5. /\ Leading(rDisk') \in Seq(FileRows(allocEnd)) /\ Len(Leading(rDisk')) = Len(rows)
        /\ \A n \in 1 .. Len(rows) : Leading(rDisk')[n] = rows[n]
    BY <1>3, <2>3, <2>4, FilePrefix
  <2>6. DiskRows' = Leading(rDisk')
    BY DEF DiskRows, Leading
  <2>7. PICK n \in DOMAIN rows :
           /\ rows[n].kind = "D"
           /\ \A m \in DOMAIN rows : rows[m].bucket = rows[n].bucket => m = n
    <3> HIDE DEF b
    <3> QED  BY <1>3, <2>2, HalfBucket
  <2>8. DOMAIN DiskRows' = DOMAIN rows /\ \A m \in DOMAIN rows : DiskRows'[m] = rows[m]
    BY <1>3, <2>5, <2>6
  <2>9. PanicsOnlyAtHalfBucket'
    BY <2>7, <2>8 DEF PanicsOnlyAtHalfBucket
  <2>10. Len(rows) \in 0 .. Len(rows)
    BY <1>3
  <2> QED  BY <1>1, <1>2, <1>5, <2>3, <2>4, <2>9, <2>10, GoneRows
<1> QED  BY <1>1, <1>4, <1>5

\* The caller opens again: the file is as it was.
LEMMA OpenAgainRows ==
    ASSUME BTypes, RowsInv, OpenAgain
    PROVE  RowsInv'
<1>1. /\ hpc = "dead" /\ hpc' = "down" /\ UNCHANGED rDisk /\ UNCHANGED <<losses, cut, iFile, rFile>>
  BY DEF OpenAgain, files, heapHistory
<1>2. DiskRows' = DiskRows /\ (RowsCorrupt' <=> RowsCorrupt)
  BY <1>1 DEF DiskRows, RowsCorrupt
<1>3. RowsAtRest'
  BY <1>1, <1>2 DEF RowsInv, RowsAtRest, FileHolds, Closed
<1>4. RowsRunning' /\ PanicsOnlyAtHalfBucket' /\ NothingLost'
  BY <1>1 DEF RowsRunning, PanicsOnlyAtHalfBucket, RowsInv, NothingLost, Closed, Places
<1> QED  BY <1>3, <1>4 DEF RowsInv

LEMMA RowsInvInit == HeapInit => RowsInv
<1> SUFFICES ASSUME HeapInit PROVE RowsInv
  OBVIOUS
<1>1. /\ order = <<>> /\ ext = <<>> /\ reg = <<>> /\ rows = <<>> /\ pc = "idle" /\ hpc = "idle"
      /\ rDisk = [n \in 1 .. MaxRows |-> NoRow] /\ rDone = 0
      /\ losses = 0 /\ cut = FALSE /\ iFile = "sound" /\ rFile = "sound"
  BY DEF HeapInit, Init
<1>2. DOMAIN <<>> = {}
  OBVIOUS
<1>3. Paired(rows) /\ Mirrored(rows, ext, reg, order)
  BY <1>1, <1>2 DEF Paired, Mirrored, HasRow, OwnsPart, HasRegion
<1>4. FileHolds(rDisk, rows, rDone)
  BY <1>1, BoundsAre DEF FileHolds
<1>5. RowsRunning
  BY <1>1, <1>3, <1>4 DEF RowsRunning
<1>6. RowsAtRest /\ PanicsOnlyAtHalfBucket /\ NothingLost
  BY <1>1 DEF RowsAtRest, PanicsOnlyAtHalfBucket, NothingLost, Closed, Places
<1> QED  BY <1>5, <1>6 DEF RowsInv

LEMMA RowsInvStep ==
    ASSUME InOrder, MaxLosses = 0
    PROVE  BTypes /\ RowsInv /\ [HeapNext]_heapVars => RowsInv'
<1> SUFFICES ASSUME BTypes, RowsInv, [HeapNext]_heapVars PROVE RowsInv'
  OBVIOUS
<1>1. CASE Calls
  <2>1. \A b \in Buckets, len \in Lens : BeginInsert(b, len) => RowsInv'
    BY BeginInsertRows
  <2> QED  BY <1>1, <2>1, CallRows, AllocateRows, CommitRegistryRows, CommitIndexRows, Zenon DEF Calls
<1>2. CASE Opening
  <2>1. hpc \notin {"rebuild_header", "rebuild_index", "rebuild_registry", "rebuild_rows"}
    BY DEF RowsInv, NothingLost
  <2>2. hpc = "down" => MetadataSound
    BY DEF RowsInv, NothingLost, RowsAtRest, MetadataSound, Closed
  <2>3. ~(BeginRebuild \/ RebuildHeader \/ RebuildSlot \/ RebuildFlush \/ RebuildRegistry \/ RebuildRows)
    BY <2>1, <2>2 DEF BeginRebuild, RebuildHeader, RebuildSlot, RebuildFlush, RebuildRegistry,
                      RebuildRows
  <2> QED  BY <1>2, <2>3, OpenRows, ReadBucketRows, EndBucketRows, RestoreRows, OpenAgainRows, Zenon
              DEF Opening
<1>3. CASE Kill
  BY <1>3, KillRows
<1>4. CASE LoseIndex \/ LoseRegistry \/ \E n \in DOMAIN DiskRows : DamageRow(n)
  <2>1. losses < MaxLosses
    BY <1>4 DEF LoseIndex, LoseRegistry, DamageRow
  <2>2. losses = 0
    BY DEF RowsInv, NothingLost
  <2> QED  BY <2>1, <2>2
<1>5. CASE UNCHANGED heapVars
  <2>1. /\ UNCHANGED <<order, ext, reg, rows>> /\ UNCHANGED <<pc, call>>
        /\ UNCHANGED <<rDisk, rDone, hpc>> /\ UNCHANGED <<losses, cut, iFile, rFile>>
    BY <1>5 DEF heapVars, vars, allocator, files, staged, heapHistory
  <2>2. DiskRows' = DiskRows /\ (RowsCorrupt' <=> RowsCorrupt)
    BY <2>1 DEF DiskRows, RowsCorrupt
  <2>3. RowsRunning'
    BY <2>1 DEF RowsInv, RowsRunning, FileHolds
  <2>4. RowsAtRest' /\ PanicsOnlyAtHalfBucket'
    BY <2>1, <2>2 DEF RowsInv, RowsAtRest, PanicsOnlyAtHalfBucket, FileHolds
  <2>5. NothingLost'
    BY <2>1 DEF RowsInv, NothingLost
  <2> QED  BY <2>3, <2>4, <2>5 DEF RowsInv
<1> QED  BY <1>1, <1>2, <1>3, <1>4, <1>5 DEF HeapNext

\* When pages reach the registry in order and no file is lost, an open panics only over
\* the bucket whose extent is the last row of the registry: a kill cut its creation short
\* between the rows of its first extent and its first region.  The order is needed: with
\* pages in any order and group sync, rows that an earlier process left behind a gap
\* join those of a later one.
THEOREM PanicIsHalfBucket ==
    ASSUME InOrder, MaxLosses = 0
    PROVE  HeapSpecification => []PanicsOnlyAtHalfBucket
<1>1. RowsInv => PanicsOnlyAtHalfBucket
  BY DEF RowsInv
<1> QED  BY <1>1, RowsInvInit, RowsInvStep, HeapTypesInvariant, PTL DEF HeapSpecification
=============================================================================
