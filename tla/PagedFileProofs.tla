--------------------------- MODULE PagedFileProofs ---------------------------
(***************************************************************************)
(* Proofs about PagedFile, for every page size, every number of pages and  *)
(* every limit on staged writes.  The pages of the staged writes are       *)
(* disjoint, so a flush writes, page by page, exactly what a reader would  *)
(* see; until an I/O error that is because the head of every staged write  *)
(* and every cached last page agree with the file (InMemoryAgrees), which  *)
(* is the strengthening that makes the refinement of LogicalFile           *)
(* inductive.                                                              *)
(***************************************************************************)
EXTENDS PagedFile, DataInduction

-----------------------------------------------------------------------------
(* Page arithmetic. *)

Aligned(p) == p \in Nat /\ p % PAGE = 0

\* A page boundary is a multiple of PAGE.
LEMMA AlignedIs ==
    ASSUME NEW p, Aligned(p)
    PROVE  p \div PAGE \in Nat /\ p = PAGE * (p \div PAGE)
BY PageAssumption DEF Aligned

\* A multiple of PAGE is a page boundary.
LEMMA TimesPage ==
    ASSUME NEW a \in Nat
    PROVE  Aligned(PAGE * a) /\ (PAGE * a) \div PAGE = a
BY PageAssumption DEF Aligned

\* Two page boundaries are at least a page apart.
LEMMA PageSteps ==
    ASSUME NEW p, NEW q, Aligned(p), Aligned(q), p < q
    PROVE  p + PAGE <= q /\ p \div PAGE < q \div PAGE
<1>1. PICK a \in Nat : p = PAGE * a /\ p \div PAGE = a
  BY AlignedIs
<1>2. PICK b \in Nat : q = PAGE * b /\ q \div PAGE = b
  BY AlignedIs
<1>3. a < b
  <2> SUFFICES ASSUME b <= a PROVE FALSE
    OBVIOUS
  <2>1. PAGE * b <= PAGE * a
    BY PageAssumption
  <2> QED  BY <1>1, <1>2, <2>1 DEF Aligned
<1>4. a + 1 <= b
  BY <1>3
<1>5. PAGE * (a + 1) <= PAGE * b
  BY <1>4, PageAssumption
<1>6. PAGE * (a + 1) = PAGE * a + PAGE
  BY PageAssumption
<1> QED  BY <1>1, <1>2, <1>3, <1>5, <1>6

\* The boundary after a page is a page boundary.
LEMMA AlignedNext ==
    ASSUME NEW p, Aligned(p)
    PROVE  Aligned(p + PAGE)
<1>1. PICK a \in Nat : p = PAGE * a
  BY AlignedIs
<1>2. p + PAGE = PAGE * (a + 1)
  BY <1>1, PageAssumption
<1> QED  BY <1>2, TimesPage

\* page_down finds the page that holds x.
LEMMA PageDownIs ==
    ASSUME NEW x \in Nat
    PROVE  /\ Aligned(PageDown(x)) /\ PageDown(x) \in Nat
           /\ PageDown(x) <= x /\ x < PageDown(x) + PAGE
           /\ PageDown(x) \div PAGE = x \div PAGE
<1>0. PAGE \in Nat /\ PAGE > 0
  BY PageAssumption
<1>1. x % PAGE \in 0 .. PAGE - 1
  BY <1>0
<1>2. x \div PAGE \in Nat
  BY <1>0
<1>3. x % PAGE = x - PAGE * (x \div PAGE)
  BY PageAssumption
<1>4. PAGE * (x \div PAGE) \in Nat
  BY <1>0, <1>2
<1>5. PageDown(x) = PAGE * (x \div PAGE)
  BY <1>3, <1>4 DEF PageDown
<1>6. Aligned(PageDown(x)) /\ PageDown(x) \div PAGE = x \div PAGE
  BY <1>2, <1>5, TimesPage
<1>7. PageDown(x) = x - (x % PAGE)
  BY DEF PageDown
<1> DEFINE r == x % PAGE
<1> HIDE DEF r
<1>8. r \in 0 .. PAGE - 1 /\ PageDown(x) = x - r
  BY <1>1, <1>7 DEF r
<1>9. PageDown(x) <= x /\ x < PageDown(x) + PAGE
  BY <1>0, <1>8
<1> QED  BY <1>4, <1>5, <1>6, <1>9

\* page_up stays at a page boundary and otherwise goes to the next one.
LEMMA PageUpIs ==
    ASSUME NEW x \in Nat
    PROVE  /\ Aligned(PageUp(x)) /\ PageUp(x) \in Nat /\ x <= PageUp(x)
           /\ PageDown(x) = x => PageUp(x) = x
           /\ PageDown(x) # x => PageUp(x) = PageDown(x) + PAGE
<1>1. x + PAGE - 1 \in Nat /\ PAGE \in Nat /\ PAGE > 0
  BY PageAssumption
<1>2. /\ Aligned(PageUp(x)) /\ PageUp(x) \in Nat /\ PageUp(x) <= x + PAGE - 1
      /\ x + PAGE - 1 < PageUp(x) + PAGE
  BY <1>1, PageDownIs DEF PageUp
<1>3. /\ Aligned(PageDown(x)) /\ PageDown(x) \in Nat
      /\ PageDown(x) <= x /\ x < PageDown(x) + PAGE
  BY PageDownIs
<1>4. ASSUME PageDown(x) = x PROVE PageUp(x) = x
  <2>1. ~(x < PageUp(x))
    BY <1>1, <1>2, <1>3, <1>4, PageSteps
  <2> QED  BY <1>1, <1>2, <2>1
<1>5. ASSUME PageDown(x) # x PROVE PageUp(x) = PageDown(x) + PAGE
  <2>1. PageDown(x) < PageUp(x)
    BY <1>1, <1>2, <1>3, <1>5
  <2>2. PageDown(x) + PAGE <= PageUp(x)
    BY <1>2, <1>3, <2>1, PageSteps
  <2>3. PageUp(x) < x + PAGE /\ x < PageDown(x) + PAGE
    BY <1>1, <1>2, <1>3
  <2>4. ~(PageDown(x) + PAGE < PageUp(x))
    <3> SUFFICES ASSUME PageDown(x) + PAGE < PageUp(x) PROVE FALSE
      OBVIOUS
    <3>1. Aligned(PageDown(x) + PAGE)
      BY <1>3, AlignedNext
    <3>2. PageDown(x) + PAGE + PAGE <= PageUp(x)
      BY <1>2, <3>1, PageSteps
    <3> QED  BY <1>1, <1>2, <1>3, <3>2
  <2> QED  BY <1>1, <1>2, <1>3, <2>2, <2>4
<1> QED  BY <1>1, <1>2, <1>4, <1>5

\* page_down of a byte of the page at p is p.
LEMMA PageOf ==
    ASSUME NEW p, Aligned(p), NEW x \in Nat, p <= x, x < p + PAGE
    PROVE  PageDown(x) = p
<1>0. p \in Nat /\ PAGE \in Nat
  BY PageAssumption DEF Aligned
<1>1. /\ Aligned(PageDown(x)) /\ PageDown(x) \in Nat
      /\ PageDown(x) <= x /\ x < PageDown(x) + PAGE
  BY PageDownIs
<1>2. p < PageDown(x) => p + PAGE <= PageDown(x)
  BY <1>1, PageSteps
<1>3. PageDown(x) < p => PageDown(x) + PAGE <= p
  BY <1>1, PageSteps
<1> QED  BY <1>0, <1>1, <1>2, <1>3

-----------------------------------------------------------------------------
(* What a staged write and the cache of last pages are. *)

Size == Pages * PAGE

\* The file is a whole number of pages.
LEMMA SizeIs == Size \in Nat /\ Aligned(Size) /\ Offsets = 0 .. Size - 1
<1>1. Size = PAGE * Pages
  BY PagedAssumption, PageAssumption DEF Size
<1>2. Aligned(Size)
  BY <1>1, TimesPage, PagedAssumption
<1> QED  BY <1>2 DEF Offsets, Aligned, Size

PageStarts == {p \in Offsets : Aligned(p)}
PageFn == [1 .. PAGE -> Bytes]

Writes == {w \in [start : Offsets, vals : Seq(Bytes), head : {<<>>} \union PageFn] :
              /\ w.vals # <<>> /\ End(w) <= Size
              /\ w.head = <<>> <=> w.start = Base(w)}

Tails == UNION {[D -> PageFn] : D \in SUBSET PageStarts}

\* The writes cover pages of their own.
Apart(ws) == \A i, j \in DOMAIN ws :
                i # j => \/ PageUp(End(ws[i])) <= Base(ws[j])
                         \/ PageUp(End(ws[j])) <= Base(ws[i])

\* A page is not the empty head that stands for None.
LEMMA NotEmptyPage == ASSUME NEW h \in PageFn PROVE h # <<>>
<1>1. DOMAIN h = 1 .. PAGE /\ 1 \in 1 .. PAGE
  BY PageAssumption DEF PageFn
<1>2. DOMAIN <<>> = {}
  OBVIOUS
<1> QED  BY <1>1, <1>2

\* A page of the file is PAGE bytes.
LEMMA PageBytesType ==
    ASSUME NEW d \in [Offsets -> Bytes], NEW p \in PageStarts
    PROVE  PageBytes(d, p) \in PageFn
<1>1. p \in Nat /\ Aligned(p) /\ p < Size /\ p + PAGE <= Size
  BY SizeIs, PageSteps DEF PageStarts
<1>2. \A k \in 1 .. PAGE : p + k - 1 \in Offsets
  BY <1>1, SizeIs, PageAssumption
<1> QED  BY <1>2 DEF PageBytes, PageFn

\* Where the pages of a write lie.
LEMMA WritePages ==
    ASSUME NEW w \in Writes
    PROVE  /\ w.start \in Nat /\ End(w) \in Nat /\ Len(w.vals) \in Nat /\ Len(w.vals) > 0
           /\ Base(w) \in Nat /\ PageUp(End(w)) \in Nat /\ PageDown(End(w)) \in Nat
           /\ PAGE \in Nat /\ PAGE > 0
           /\ Aligned(Base(w)) /\ Base(w) <= w.start /\ w.start < Base(w) + PAGE
           /\ w.start < End(w) /\ End(w) = w.start + Len(w.vals)
           /\ Aligned(PageUp(End(w))) /\ End(w) <= PageUp(End(w)) /\ PageUp(End(w)) <= Size
           /\ Aligned(PageDown(End(w))) /\ Base(w) <= PageDown(End(w))
           /\ PageDown(End(w)) <= End(w)
           /\ PageDown(End(w)) # End(w) => /\ PageUp(End(w)) = PageDown(End(w)) + PAGE
                                           /\ PageDown(End(w)) \in PageStarts
           /\ PageDown(End(w)) = End(w) => PageUp(End(w)) = End(w)
           /\ Base(w) \in PageStarts
<1>1. w.start \in Nat /\ w.start \in Offsets /\ w.vals \in Seq(Bytes) /\ w.vals # <<>>
      /\ End(w) <= Size
  BY SizeIs DEF Writes
<1>2. Len(w.vals) \in Nat /\ Len(w.vals) > 0
  BY <1>1
<1>3. End(w) = w.start + Len(w.vals) /\ End(w) \in Nat /\ w.start < End(w)
  BY <1>1, <1>2 DEF End
<1>4. /\ Aligned(Base(w)) /\ Base(w) \in Nat /\ Base(w) <= w.start
      /\ w.start < Base(w) + PAGE /\ PAGE \in Nat /\ PAGE > 0
  <2>1. PAGE \in Nat /\ PAGE > 0
    BY PageAssumption
  <2>2. Base(w) = PageDown(w.start)
    BY DEF Base
  <2> QED  BY <1>1, <2>1, <2>2, PageDownIs
<1>5. /\ Aligned(PageUp(End(w))) /\ PageUp(End(w)) \in Nat /\ End(w) <= PageUp(End(w))
      /\ PageDown(End(w)) = End(w) => PageUp(End(w)) = End(w)
      /\ PageDown(End(w)) # End(w) => PageUp(End(w)) = PageDown(End(w)) + PAGE
  BY <1>3, PageUpIs
<1>6. /\ Aligned(PageDown(End(w))) /\ PageDown(End(w)) \in Nat
      /\ PageDown(End(w)) <= End(w) /\ End(w) < PageDown(End(w)) + PAGE
  BY <1>3, PageDownIs
<1>7. Base(w) <= PageDown(End(w))
  <2> SUFFICES ASSUME PageDown(End(w)) < Base(w) PROVE FALSE
    BY <1>4, <1>6
  <2>1. PageDown(End(w)) + PAGE <= Base(w)
    BY <1>4, <1>6, PageSteps
  <2>2. End(w) < Base(w)
    BY <2>1, <1>3, <1>4, <1>6
  <2>3. Base(w) < End(w)
    BY <1>1, <1>3, <1>4
  <2> QED  BY <2>2, <2>3, <1>3, <1>4
<1>8. PageUp(End(w)) <= Size
  <2>1. CASE PageDown(End(w)) = End(w)
    BY <2>1, <1>1, <1>5
  <2>2. CASE PageDown(End(w)) # End(w)
    <3>1. PageDown(End(w)) < Size
      BY <2>2, <1>1, <1>3, <1>6, SizeIs DEF Aligned
    <3> QED  BY <3>1, <2>2, <1>5, <1>6, PageSteps, SizeIs
  <2> QED  BY <2>1, <2>2
<1>9. PageDown(End(w)) # End(w) => PageDown(End(w)) \in PageStarts
  BY <1>1, <1>3, <1>6, SizeIs DEF PageStarts, Aligned
<1>10. Base(w) \in PageStarts
  BY <1>1, <1>4, SizeIs DEF PageStarts, Aligned
<1> QED  BY <1>1, <1>2, <1>3, <1>4, <1>5, <1>6, <1>7, <1>8, <1>9, <1>10

-----------------------------------------------------------------------------
(* What a flush writes. *)

\* The head of w, or the cached page p, is what the file holds.
HeadAgrees(w) == w.head # <<>> => w.head = PageBytes(disk, Base(w))
TailAgrees(t, p) == p \in DOMAIN t => t[p] = PageBytes(disk, p)

\* The page that is read behind the end of w, if any, is.
TailFor(t, w) == PageDown(End(w)) # End(w) => TailAgrees(t, PageDown(End(w)))

\* The page behind the end of w is a page, and it is the file's page when the
\* head of w and the cached page are.
LEMMA SuffixIs ==
    ASSUME disk \in [Offsets -> Bytes], NEW w \in Writes, NEW t \in Tails,
           PageDown(End(w)) # End(w)
    PROVE  /\ Suffix(w, t) \in PageFn
           /\ HeadAgrees(w) /\ TailFor(t, w)
                 => Suffix(w, t) = PageBytes(disk, PageDown(End(w)))
<1> DEFINE last == PageDown(End(w))
<1>1. last \in PageStarts
  BY WritePages
<1>2. PageBytes(disk, last) \in PageFn
  BY <1>1, PageBytesType
<1>3. w.head # <<>> => w.head \in PageFn
  BY DEF Writes
<1>4. last \in DOMAIN t => t[last] \in PageFn
  BY DEF Tails
<1> HIDE DEF last
<1>5. Suffix(w, t) = IF last = Base(w) /\ w.head # <<>> THEN w.head
                     ELSE IF last \in DOMAIN t THEN t[last] ELSE PageBytes(disk, last)
  BY DEF Suffix, HeadPage, last
<1> QED  BY <1>2, <1>3, <1>4, <1>5 DEF HeadAgrees, TailAgrees, TailFor, last

\* A flush writes the bytes of w where w is, and elsewhere in its pages what the
\* file already holds there.
LEMMA ImageAt ==
    ASSUME disk \in [Offsets -> Bytes], NEW w \in Writes, NEW t \in Tails,
           NEW x \in Base(w) .. PageUp(End(w)) - 1
    PROVE  /\ x \in Offsets /\ Image(w, t)[x] \in Bytes
           /\ x >= w.start /\ x < End(w) => Image(w, t)[x] = w.vals[x - w.start + 1]
           /\ /\ HeadAgrees(w) /\ TailFor(t, w)
              /\ ~(x >= w.start /\ x < End(w))
              => Image(w, t)[x] = disk[x]
<1> DEFINE last == PageDown(End(w))
<1>1. x \in Nat /\ x \in Offsets
  BY WritePages, SizeIs DEF Aligned
<1>2. Image(w, t)[x] = IF x < w.start THEN w.head[x - Base(w) + 1]
                       ELSE IF x < End(w) THEN w.vals[x - w.start + 1]
                       ELSE Suffix(w, t)[x - last + 1]
  BY DEF Image
<1>3. CASE x < w.start
  <2>1. w.head \in PageFn /\ w.head # <<>>
    BY <1>3, WritePages DEF Writes
  <2>2. x - Base(w) + 1 \in 1 .. PAGE /\ Base(w) + (x - Base(w) + 1) - 1 = x
    BY <1>3, <1>1, WritePages, PageAssumption
  <2>3. w.head[x - Base(w) + 1] \in Bytes
    BY <2>1, <2>2 DEF PageFn
  <2>4. PageBytes(disk, Base(w))[x - Base(w) + 1] = disk[x]
    BY <2>2 DEF PageBytes
  <2> QED  BY <1>1, <1>2, <1>3, <2>1, <2>3, <2>4, WritePages DEF HeadAgrees
<1>4. CASE x >= w.start /\ x < End(w)
  <2>1. x - w.start + 1 \in 1 .. Len(w.vals)
    BY <1>1, <1>4, WritePages
  <2>2. w.vals[x - w.start + 1] \in Bytes
    BY <2>1 DEF Writes
  <2>3. ~(x < w.start)
    BY <1>1, <1>4, WritePages
  <2> QED  BY <1>1, <1>2, <1>4, <2>2, <2>3
<1>5. CASE x >= End(w)
  <2>1. last # End(w) /\ PageUp(End(w)) = last + PAGE /\ last \in Nat
    BY <1>1, <1>5, WritePages
  <2>2. x - last + 1 \in 1 .. PAGE /\ last + (x - last + 1) - 1 = x
    BY <1>1, <1>5, <2>1, WritePages, PageAssumption
  <2>3. Suffix(w, t) \in PageFn /\ (HeadAgrees(w) /\ TailFor(t, w)
                                       => Suffix(w, t) = PageBytes(disk, last))
    BY <2>1, SuffixIs
  <2>4. Suffix(w, t)[x - last + 1] \in Bytes
    BY <2>2, <2>3 DEF PageFn
  <2>5. PageBytes(disk, last)[x - last + 1] = disk[x]
    BY <2>2 DEF PageBytes
  <2>6. ~(x < w.start) /\ ~(x < End(w))
    BY <1>1, <1>5, WritePages
  <2> HIDE DEF last
  <2> QED  BY <1>1, <1>2, <2>3, <2>4, <2>5, <2>6 DEF last
<1> QED  BY <1>1, <1>3, <1>4, <1>5, WritePages

\* The cached pages after w are those outside of its pages and its own last page.
LEMMA NextTailIs ==
    ASSUME disk \in [Offsets -> Bytes], NEW w \in Writes, NEW t \in Tails
    PROVE  /\ NextTail(t, w) \in Tails
           /\ \A p \in DOMAIN NextTail(t, w) :
                 \/ /\ p \in DOMAIN t /\ NextTail(t, w)[p] = t[p]
                    /\ p < Base(w) \/ p >= PageUp(End(w))
                 \/ /\ p = PageDown(End(w)) /\ p # End(w)
                    /\ NextTail(t, w)[p] = PageBytes(Image(w, t), p)
<1> DEFINE last == PageDown(End(w))
           keep == {p \in DOMAIN t : p < Base(w) \/ p >= PageUp(End(w))}
           D == keep \union ({last} \ {End(w)})
<1>1. PICK E \in SUBSET PageStarts : t \in [E -> PageFn]
  BY DEF Tails
<1>2. last # End(w) => last \in PageStarts /\ PageUp(End(w)) = last + PAGE /\ last \in Nat
  BY WritePages
<1>3. D \in SUBSET PageStarts
  BY <1>1, <1>2
<1>4. ASSUME last # End(w) PROVE PageBytes(Image(w, t), last) \in PageFn
  <2>1. \A k \in 1 .. PAGE : last + k - 1 \in Base(w) .. PageUp(End(w)) - 1
    BY <1>2, <1>4, WritePages, PageAssumption
  <2>2. \A k \in 1 .. PAGE : Image(w, t)[last + k - 1] \in Bytes
    BY <2>1, ImageAt
  <2> QED  BY <2>2 DEF PageBytes, PageFn
<1>5. NextTail(t, w) = [p \in D |-> IF p = last /\ last # End(w)
                                    THEN PageBytes(Image(w, t), last) ELSE t[p]]
  BY DEF NextTail
<1>6. \A p \in D : (IF p = last /\ last # End(w)
                    THEN PageBytes(Image(w, t), last) ELSE t[p]) \in PageFn
  BY <1>1, <1>4
<1>7. NextTail(t, w) \in [D -> PageFn]
  <2> HIDE DEF D, last
  <2> QED  BY <1>5, <1>6
<1>8. NextTail(t, w) \in Tails
  <2> HIDE DEF D
  <2> QED  BY <1>3, <1>7 DEF Tails
<1> QED  BY <1>5, <1>8

\* TailAfter is computed one staged write at a time.
LEMMA TailSteps ==
    ASSUME disk \in [Offsets -> Bytes], staged_writes \in Seq(Writes), tail_pages \in Tails,
           NEW n \in 0 .. Len(staged_writes)
    PROVE  \E f \in [0 .. n -> Tails] :
              /\ f[0] = tail_pages /\ f[n] = TailAfter(n)
              /\ \A k \in 1 .. n : f[k] = NextTail(f[k - 1], staged_writes[k])
<1> DEFINE ws == SubSeq(staged_writes, 1, n)
           step == [k \in 1 .. n |-> [t \in Tails |-> NextTail(t, staged_writes[k])]]
           Eq(it) == it = [s \in SUBSET (1 .. n) |->
                              IF s = {} THEN tail_pages
                              ELSE NextTail(it[s \ {Max(s)}], ws[Max(s)])]
           it == CHOOSE it : Eq(it)
<1>1. n \in Nat /\ DOMAIN ws = 1 .. n /\ \A k \in 1 .. n : ws[k] = staged_writes[k]
                                                           /\ staged_writes[k] \in Writes
  OBVIOUS
<1>2. TailAfter(n) = it[1 .. n]
  BY <1>1, Zenon DEF TailAfter, FoldLeft, MapThenFoldSet
<1>3. step \in [1 .. n -> [Tails -> Tails]]
  BY <1>1, NextTailIs
<1>4. \E g : Eq(g)
  <2>1. PICK g \in [SUBSET (1 .. n) -> Tails] : IsFold(g, n, tail_pages, step)
    <3>1. n \in Nat
      BY <1>1
    <3> HIDE DEF step
    <3> QED  BY <1>3, <3>1, FoldExists
  <2>2. ASSUME NEW s \in SUBSET (1 .. n), s # {}
        PROVE  step[Max(s)][g[s \ {Max(s)}]] = NextTail(g[s \ {Max(s)}], ws[Max(s)])
    <3>0. s \subseteq 0 .. n
      OBVIOUS
    <3>1. Max(s) \in 1 .. n
      BY <1>1, <2>2, <3>0, MaxIsGreatest
    <3>2. g[s \ {Max(s)}] \in Tails
      OBVIOUS
    <3> QED  BY <1>1, <3>1, <3>2
  <2> HIDE DEF step, ws
  <2>3. Eq(g)
    BY <2>1, <2>2 DEF IsFold
  <2> QED  BY <2>3
<1>5. Eq(it)
  <2> HIDE DEF Eq
  <2> QED  BY <1>4, Zenon
<1>6. it[{}] = tail_pages
  <2> HIDE DEF it, ws
  <2> QED  BY <1>5
<1>7. ASSUME NEW k \in 1 .. n
      PROVE  it[1 .. k] = NextTail(it[1 .. k - 1], staged_writes[k])
  <2>1. Max(1 .. k) = k /\ (1 .. k) \ {k} = 1 .. k - 1
    BY MaxOfPrefix
  <2>2. 1 .. k \in SUBSET (1 .. n) /\ 1 .. k # {}
    <3>1. k \in Nat /\ k >= 1 /\ k <= n /\ n \in Nat
      BY <1>1
    <3>2. 1 \in 1 .. k /\ \A j \in 1 .. k : j \in 1 .. n
      BY <3>1
    <3> QED  BY <3>2
  <2>3. it[1 .. k] = NextTail(it[(1 .. k) \ {Max(1 .. k)}], ws[Max(1 .. k)])
    <3> HIDE DEF it, ws
    <3> QED  BY <1>5, <2>2
  <2> HIDE DEF it, ws
  <2> QED  BY <1>1, <2>1, <2>3
<1> HIDE DEF it
<1> DEFINE S == {k \in Nat : k <= n => it[1 .. k] \in Tails}
<1>8. \A k \in Nat : k \in S
  <2>1. 0 \in S
    <3>1. 1 .. 0 = {}
      OBVIOUS
    <3> QED  BY <3>1, <1>6
  <2>2. ASSUME NEW k \in Nat, k \in S PROVE k + 1 \in S
    <3> SUFFICES ASSUME k + 1 <= n PROVE it[1 .. k + 1] \in Tails
      OBVIOUS
    <3>1. it[1 .. k] \in Tails /\ k + 1 \in 1 .. n /\ (k + 1) - 1 = k
      BY <1>1, <2>2
    <3>2. it[1 .. k + 1] = NextTail(it[1 .. k], staged_writes[k + 1])
      BY <1>7, <3>1
    <3> QED  BY <1>1, <3>1, <3>2, NextTailIs
  <2> HIDE DEF S
  <2> QED  BY <2>1, <2>2, SetInduction
<1> DEFINE f == [k \in 0 .. n |-> it[1 .. k]]
<1>9. f \in [0 .. n -> Tails]
  BY <1>1, <1>8
<1>10. 1 .. 0 = {} /\ f[0] = it[1 .. 0] /\ f[n] = it[1 .. n]
  OBVIOUS
<1>11. \A k \in 1 .. n : f[k] = NextTail(f[k - 1], staged_writes[k])
  BY <1>7
<1> HIDE DEF f
<1> QED  BY <1>2, <1>6, <1>9, <1>10, <1>11

-----------------------------------------------------------------------------
(* A flush writes what a reader would see. *)

\* Some page of w holds x.
InPages(w, x) == x >= Base(w) /\ x < PageUp(End(w))

\* x is one of the bytes of w.
InWrite(w, x) == x >= w.start /\ x < End(w)

\* Writes that are apart have no byte of a page in common.
LEMMA OneWrite ==
    ASSUME NEW ws \in Seq(Writes), Apart(ws), NEW x \in Nat,
           NEW i \in DOMAIN ws, NEW j \in DOMAIN ws, InPages(ws[i], x), InPages(ws[j], x)
    PROVE  i = j
<1>1. ws[i] \in Writes /\ ws[j] \in Writes
  OBVIOUS
<1>2. /\ Base(ws[i]) \in Nat /\ PageUp(End(ws[i])) \in Nat
      /\ Base(ws[j]) \in Nat /\ PageUp(End(ws[j])) \in Nat
  BY <1>1, WritePages
<1>3. i # j => \/ PageUp(End(ws[i])) <= Base(ws[j])
               \/ PageUp(End(ws[j])) <= Base(ws[i])
  BY DEF Apart
<1> QED  BY <1>2, <1>3 DEF InPages

\* The bytes of a write lie in its pages.
LEMMA WriteInPages ==
    ASSUME NEW w \in Writes, NEW x \in Nat, InWrite(w, x)
    PROVE  InPages(w, x) /\ x - w.start + 1 \in 1 .. Len(w.vals)
                         /\ w.vals[x - w.start + 1] \in Bytes
<1>1. InPages(w, x) /\ x - w.start + 1 \in 1 .. Len(w.vals)
  BY WritePages DEF InPages, InWrite
<1> QED  BY <1>1 DEF Writes

\* A reader sees the byte of the staged write that holds x, or the file's.
LEMMA OverlayAt ==
    ASSUME NEW d \in [Offsets -> Bytes], NEW ws \in Seq(Writes), Apart(ws)
    PROVE  /\ Overlay(d, ws) \in [Offsets -> Bytes]
           /\ \A x \in Offsets, i \in DOMAIN ws :
                 InWrite(ws[i], x) => Overlay(d, ws)[x] = ws[i].vals[x - ws[i].start + 1]
           /\ \A x \in Offsets :
                 (\A i \in DOMAIN ws : ~InWrite(ws[i], x)) => Overlay(d, ws)[x] = d[x]
<1> DEFINE At(x) == CHOOSE i \in DOMAIN ws : x >= ws[i].start /\ x < End(ws[i])
           Val(x) == IF \E i \in DOMAIN ws : x >= ws[i].start /\ x < End(ws[i])
                     THEN ws[At(x)].vals[x - ws[At(x)].start + 1] ELSE d[x]
<1>1. Overlay(d, ws) = [x \in Offsets |-> Val(x)]
  BY DEF Overlay
<1>2. \A x \in Offsets : x \in Nat
  BY SizeIs
<1>3. ASSUME NEW x \in Offsets, NEW i \in DOMAIN ws, InWrite(ws[i], x)
      PROVE  Val(x) = ws[i].vals[x - ws[i].start + 1] /\ Val(x) \in Bytes
  <2>1. At(x) \in DOMAIN ws /\ InWrite(ws[At(x)], x)
    BY <1>3 DEF InWrite
  <2>2. ws[At(x)] \in Writes /\ ws[i] \in Writes
    BY <2>1
  <2> HIDE DEF At
  <2>3. InPages(ws[At(x)], x) /\ InPages(ws[i], x) /\ ws[i].vals[x - ws[i].start + 1] \in Bytes
    BY <1>2, <1>3, <2>1, <2>2, WriteInPages
  <2>4. At(x) = i
    BY <1>2, <2>1, <2>3, OneWrite
  <2>5. Val(x) = ws[At(x)].vals[x - ws[At(x)].start + 1]
    BY <1>3 DEF InWrite
  <2> QED  BY <2>3, <2>4, <2>5
<1>4. ASSUME NEW x \in Offsets, \A i \in DOMAIN ws : ~InWrite(ws[i], x)
      PROVE  Val(x) = d[x] /\ Val(x) \in Bytes
  <2>1. Val(x) = d[x]
    BY <1>4 DEF InWrite
  <2> QED  BY <2>1
<1> HIDE DEF Val
<1>5. \A x \in Offsets : Val(x) \in Bytes
  BY <1>3, <1>4
<1> QED  BY <1>1, <1>3, <1>4, <1>5

\* With an up to date head and cache, w and the rest of its pages are what a reader
\* would see.
LEMMA ImageIsOverlay ==
    ASSUME disk \in [Offsets -> Bytes], staged_writes \in Seq(Writes), Apart(staged_writes),
           NEW i \in DOMAIN staged_writes, NEW t \in Tails, HeadAgrees(staged_writes[i]),
           TailFor(t, staged_writes[i]),
           NEW x \in Nat, InPages(staged_writes[i], x)
    PROVE  Image(staged_writes[i], t)[x] = Overlay(disk, staged_writes)[x]
<1> DEFINE w == staged_writes[i]
<1>1. w \in Writes
  OBVIOUS
<1>2. x \in Base(w) .. PageUp(End(w)) - 1 /\ x \in Offsets
  BY <1>1, WritePages, SizeIs DEF InPages, Aligned
<1>3. CASE InWrite(w, x)
  <2>1. Image(w, t)[x] = w.vals[x - w.start + 1]
    BY <1>1, <1>2, <1>3, ImageAt DEF InWrite
  <2> QED  BY <1>2, <1>3, <2>1, OverlayAt
<1>4. CASE ~InWrite(w, x)
  <2>1. Image(w, t)[x] = disk[x]
    BY <1>1, <1>2, <1>4, ImageAt DEF InWrite
  <2>2. ASSUME NEW j \in DOMAIN staged_writes, InWrite(staged_writes[j], x) PROVE FALSE
    <3>1. InPages(staged_writes[j], x)
      BY <2>2, WriteInPages
    <3>2. j = i
      BY <3>1, OneWrite
    <3> QED  BY <1>4, <2>2, <3>2
  <2> QED  BY <1>2, <2>1, <2>2, OverlayAt
<1> QED  BY <1>3, <1>4

\* Everything kept in memory of the file is what the file holds.
InMemoryAgrees == /\ \A p \in DOMAIN tail_pages : TailAgrees(tail_pages, p)
                  /\ \A i \in DOMAIN staged_writes : HeadAgrees(staged_writes[i])

\* After n of the writes: a cached page that one of them covers is as a reader would see
\* it, any other as it was.
LEMMA TailsAfter ==
    ASSUME disk \in [Offsets -> Bytes], staged_writes \in Seq(Writes), tail_pages \in Tails,
           Apart(staged_writes), NEW n \in 0 .. Len(staged_writes)
    PROVE  /\ TailAfter(n) \in Tails
           /\ InMemoryAgrees =>
                 \A p \in DOMAIN TailAfter(n) :
                     TailAfter(n)[p] = IF \E j \in 1 .. n : InPages(staged_writes[j], p)
                                       THEN PageBytes(Overlay(disk, staged_writes), p)
                                       ELSE PageBytes(disk, p)
<1> DEFINE ws == staged_writes
           Right(t, k) == \A p \in DOMAIN t :
                             t[p] = IF \E j \in 1 .. k : InPages(ws[j], p)
                                    THEN PageBytes(Overlay(disk, ws), p)
                                    ELSE PageBytes(disk, p)
<1>1. PICK f \in [0 .. n -> Tails] :
              /\ f[0] = tail_pages /\ f[n] = TailAfter(n)
              /\ \A k \in 1 .. n : f[k] = NextTail(f[k - 1], ws[k])
  BY TailSteps
<1>2. SUFFICES ASSUME InMemoryAgrees PROVE Right(f[n], n)
  BY <1>1
<1> DEFINE S == {k \in Nat : k <= n => Right(f[k], k)}
<1>3. 0 \in S
  BY <1>1, <1>2 DEF InMemoryAgrees, TailAgrees
<1>4. ASSUME NEW k \in Nat, k \in S PROVE k + 1 \in S
  <2> DEFINE m == k + 1
             w == ws[m]
             last == PageDown(End(w))
  <2>1. SUFFICES ASSUME m <= n PROVE Right(f[m], m)
    OBVIOUS
  <2>2. Right(f[k], k) /\ m \in 1 .. n /\ k \in 0 .. n /\ m - 1 = k
    BY <1>4, <2>1
  <2>3. m \in DOMAIN ws /\ w \in Writes /\ f[k] \in Tails /\ f[m] = NextTail(f[k], w)
    BY <1>1, <2>2
  <2>4. ASSUME NEW j \in 1 .. k, NEW p \in Nat, InPages(ws[j], p) PROVE ~InPages(w, p)
    <3>1. j \in DOMAIN ws /\ j # m
      BY <2>2
    <3> QED  BY <2>3, <2>4, <3>1, OneWrite
  <2>5. TailFor(f[k], w) /\ HeadAgrees(w)
    <3>1. SUFFICES ASSUME last # End(w), last \in DOMAIN f[k]
                   PROVE  f[k][last] = PageBytes(disk, last)
      BY <1>2, <2>3 DEF InMemoryAgrees, TailAgrees, TailFor
    <3>2. InPages(w, last) /\ last \in Nat
      BY <2>3, <3>1, WritePages, PageAssumption DEF InPages
    <3>3. ~\E j \in 1 .. k : InPages(ws[j], last)
      BY <2>4, <3>2
    <3> QED  BY <2>2, <3>1, <3>3
  <2>6. ASSUME NEW p \in DOMAIN f[m]
        PROVE  f[m][p] = IF \E j \in 1 .. m : InPages(ws[j], p)
                         THEN PageBytes(Overlay(disk, ws), p) ELSE PageBytes(disk, p)
    <3>1. p \in Nat
      <4>1. f[m] \in Tails
        BY <2>1, <2>2
      <4>2. PICK D \in SUBSET PageStarts : f[m] \in [D -> PageFn]
        BY <4>1 DEF Tails
      <4>3. p \in PageStarts
        BY <4>2
      <4> QED  BY <4>3, SizeIs DEF PageStarts
    <3>2. CASE /\ p \in DOMAIN f[k] /\ f[m][p] = f[k][p]
               /\ p < Base(w) \/ p >= PageUp(End(w))
      <4>0. Base(w) \in Nat /\ PageUp(End(w)) \in Nat
        BY <2>3, WritePages
      <4>1. ~InPages(w, p)
        BY <4>0, <3>1, <3>2 DEF InPages
      <4>2. (\E j \in 1 .. m : InPages(ws[j], p)) <=> (\E j \in 1 .. k : InPages(ws[j], p))
        BY <4>1
      <4> QED  BY <2>2, <3>2, <4>2
    <3>3. CASE p = last /\ p # End(w) /\ f[m][p] = PageBytes(Image(w, f[k]), p)
      <4>1. InPages(w, p) /\ p \in Nat /\ PageUp(End(w)) = p + PAGE /\ p >= Base(w)
        BY <2>3, <3>3, WritePages, PageAssumption DEF InPages
      <4>2. \A y \in 1 .. PAGE : p + y - 1 \in Nat /\ InPages(w, p + y - 1)
        BY <2>3, <4>1, WritePages, PageAssumption DEF InPages
      <4>3. \A y \in 1 .. PAGE : Image(w, f[k])[p + y - 1] = Overlay(disk, ws)[p + y - 1]
        BY <2>3, <2>5, <4>2, ImageIsOverlay
      <4>4. PageBytes(Image(w, f[k]), p) = PageBytes(Overlay(disk, ws), p)
        BY <4>3 DEF PageBytes
      <4> QED  BY <2>2, <3>3, <4>1, <4>4
    <3> QED  BY <2>3, <3>2, <3>3, NextTailIs
  <2> QED  BY <2>6
<1>5. n \in S
  <2>1. n \in Nat
    OBVIOUS
  <2> HIDE DEF S
  <2> QED  BY <1>3, <1>4, <2>1, SetInduction
<1> QED  BY <1>5

\* The file after a flush, whole or in part.
LEMMA DiskWithAt ==
    ASSUME disk \in [Offsets -> Bytes], staged_writes \in Seq(Writes), tail_pages \in Tails,
           Apart(staged_writes), NEW pages
    PROVE  /\ DiskWith(pages) \in [Offsets -> Bytes]
           /\ InMemoryAgrees => \A x \in Offsets :
                 /\ DiskWith(pages)[x] \in {disk[x], Overlay(disk, staged_writes)[x]}
                 /\ x \div PAGE \in pages => DiskWith(pages)[x] = Overlay(disk, staged_writes)[x]
<1> DEFINE ws == staged_writes
           At(x) == CHOOSE i \in DOMAIN ws : x >= Base(ws[i]) /\ x < PageUp(End(ws[i]))
           Val(x) == IF /\ x \div PAGE \in pages
                        /\ \E i \in DOMAIN ws : x >= Base(ws[i]) /\ x < PageUp(End(ws[i]))
                     THEN Image(ws[At(x)], TailAfter(At(x) - 1))[x]
                     ELSE disk[x]
<1>1. DiskWith(pages) = [x \in Offsets |-> Val(x)]
  BY DEF DiskWith
<1>2. ASSUME NEW x \in Offsets
      PROVE  /\ Val(x) \in Bytes
             /\ InMemoryAgrees =>
                   /\ DiskWith(pages)[x] \in {disk[x], Overlay(disk, ws)[x]}
                   /\ x \div PAGE \in pages => DiskWith(pages)[x] = Overlay(disk, ws)[x]
  <2>0. DiskWith(pages)[x] = Val(x)
    BY <1>1
  <2>1. x \in Nat
    BY SizeIs
  <2>2. CASE ~\E i \in DOMAIN ws : InPages(ws[i], x)
    <3>1. Val(x) = disk[x]
      BY <2>2 DEF InPages
    <3>2. \A i \in DOMAIN ws : ~InWrite(ws[i], x)
      BY <2>1, <2>2, WriteInPages
    <3>3. Overlay(disk, ws)[x] = disk[x]
      BY <3>2, OverlayAt
    <3> QED  BY <2>0, <3>1, <3>3
  <2>3. CASE x \div PAGE \notin pages
    BY <2>0, <2>3
  <2>4. CASE x \div PAGE \in pages /\ \E i \in DOMAIN ws : InPages(ws[i], x)
    <3> DEFINE i == At(x)
               t == TailAfter(i - 1)
    <3>1. i \in DOMAIN ws /\ InPages(ws[i], x)
      BY <2>4 DEF InPages
    <3> HIDE DEF At
    <3>2. ws[i] \in Writes /\ i - 1 \in 0 .. Len(ws) /\ i \in Nat
      BY <3>1
    <3>3. t \in Tails
      BY <3>2, TailsAfter
    <3>4. Val(x) = Image(ws[i], t)[x]
      BY <2>4 DEF InPages
    <3>5. x \in Base(ws[i]) .. PageUp(End(ws[i])) - 1
      BY <2>1, <3>1, <3>2, WritePages DEF InPages
    <3>6. Val(x) \in Bytes
      BY <3>2, <3>3, <3>4, <3>5, ImageAt
    <3>7. ASSUME InMemoryAgrees PROVE Val(x) = Overlay(disk, ws)[x]
      <4> DEFINE last == PageDown(End(ws[i]))
      <4>1. ASSUME last # End(ws[i]), last \in DOMAIN t PROVE t[last] = PageBytes(disk, last)
        <5>1. InPages(ws[i], last) /\ last \in Nat
          BY <3>2, <4>1, WritePages, PageAssumption DEF InPages
        <5>2. ASSUME NEW j \in 1 .. i - 1, InPages(ws[j], last) PROVE FALSE
          <6>1. j \in DOMAIN ws /\ j # i
            BY <3>2
          <6> QED  BY <3>1, <5>1, <5>2, <6>1, OneWrite
        <5> QED  BY <3>2, <3>7, <4>1, <5>2, TailsAfter
      <4>2. TailFor(t, ws[i]) /\ HeadAgrees(ws[i])
        BY <3>1, <3>7, <4>1 DEF InMemoryAgrees, TailAgrees, TailFor
      <4> HIDE DEF t, i
      <4> QED  BY <2>1, <3>1, <3>3, <3>4, <4>2, ImageIsOverlay
    <3> QED  BY <2>0, <3>6, <3>7
  <2> QED  BY <2>2, <2>3, <2>4
<1>3. DiskWith(pages) \in [Offsets -> Bytes]
  <2>1. \A x \in Offsets : Val(x) \in Bytes
    BY <1>2, Zenon
  <2> HIDE DEF Val
  <2> QED  BY <1>1, <2>1
<1>4. ASSUME InMemoryAgrees, NEW x \in Offsets
      PROVE  /\ DiskWith(pages)[x] \in {disk[x], Overlay(disk, ws)[x]}
             /\ x \div PAGE \in pages => DiskWith(pages)[x] = Overlay(disk, ws)[x]
  BY <1>2, <1>4
<1> QED  BY <1>3, <1>4

-----------------------------------------------------------------------------
(* Staging. *)

\* The open write is a staged write that ends at off.
LEMMA OpenWriteIs ==
    ASSUME NEW ws \in Seq(Writes), NEW off, OpenWrite(ws, off) > 0
    PROVE  OpenWrite(ws, off) \in DOMAIN ws /\ End(ws[OpenWrite(ws, off)]) = off
<1> DEFINE I == {i \in 1 .. Len(ws) : End(ws[i]) = off}
<1>1. OpenWrite(ws, off) = IF I # {} THEN Min(I) ELSE 0
  BY DEF OpenWrite, SelectInSeq
<1>2. I # {}
  BY <1>1
<1>3. I \subseteq Nat
  OBVIOUS
<1>4. Min(I) \in I
  <2> HIDE DEF I
  <2> QED  BY <1>2, <1>3, MinIsLeast
<1> QED  BY <1>1, <1>2, <1>4

\* A write that is staged changes what a reader sees where it is, and nothing else.
Covers(ws, new, off, vals) ==
    \A d \in [Offsets -> Bytes] : \A x \in Offsets :
        Overlay(d, new)[x] = IF x >= off /\ x < off + Len(vals) THEN vals[x - off + 1]
                             ELSE Overlay(d, ws)[x]

\* A write that grows keeps its pages apart from the others', keeps the page it
\* started in, and changes what a reader sees by the bytes appended only.
LEMMA ExtendIs ==
    ASSUME NEW ws \in Seq(Writes), Apart(ws), NEW off \in Offsets,
           NEW vals \in Seq(Bytes), vals # <<>>, off + Len(vals) <= Size,
           CanExtend(ws, off, Len(vals))
    PROVE  /\ Extend(ws, off, vals) \in Seq(Writes) /\ Apart(Extend(ws, off, vals))
           /\ Len(Extend(ws, off, vals)) = Len(ws)
           /\ (\A i \in DOMAIN ws : HeadAgrees(ws[i]))
                 => \A i \in DOMAIN Extend(ws, off, vals) : HeadAgrees(Extend(ws, off, vals)[i])
           /\ Covers(ws, Extend(ws, off, vals), off, vals)
<1> DEFINE o == OpenWrite(ws, off)
           new == Extend(ws, off, vals)
           grown == [start |-> ws[o].start, vals |-> ws[o].vals \o vals, head |-> ws[o].head]
<1>1. o \in DOMAIN ws /\ End(ws[o]) = off /\ ws[o] \in Writes
  BY OpenWriteIs DEF CanExtend
<1>2. /\ off \in Nat /\ Len(vals) \in Nat /\ Len(vals) > 0
      /\ ws[o].vals \in Seq(Bytes) /\ ws[o].start \in Offsets /\ ws[o].start \in Nat
      /\ Len(ws[o].vals) \in Nat /\ off = ws[o].start + Len(ws[o].vals)
  BY <1>1, SizeIs DEF End, Writes
<1>3. /\ Len(ws[o].vals \o vals) = Len(ws[o].vals) + Len(vals)
      /\ ws[o].vals \o vals \in Seq(Bytes) /\ ws[o].vals \o vals # <<>>
  BY <1>2
<1>4. /\ End(grown) = off + Len(vals) /\ Base(grown) = Base(ws[o])
      /\ grown.start = ws[o].start /\ grown.head = ws[o].head
  <2>1. grown.start = ws[o].start /\ grown.head = ws[o].head /\ grown.vals = ws[o].vals \o vals
    OBVIOUS
  <2> HIDE DEF grown
  <2>2. Base(grown) = Base(ws[o])
    BY <2>1 DEF Base
  <2>3. End(grown) = ws[o].start + Len(ws[o].vals \o vals)
    BY <2>1 DEF End
  <2>4. End(grown) = ws[o].start + (Len(ws[o].vals) + Len(vals))
    BY <1>3, <2>3
  <2>5. End(grown) = off + Len(vals)
    BY <1>2, <2>4
  <2> QED  BY <2>1, <2>2, <2>5
<1>5. grown \in Writes
  <2>1. grown \in [start : Offsets, vals : Seq(Bytes), head : {<<>>} \union PageFn]
    BY <1>1, <1>2, <1>3 DEF Writes
  <2>2. grown.vals # <<>> /\ (grown.head = <<>> <=> grown.start = Base(grown))
    BY <1>1, <1>3, <1>4 DEF Writes
  <2> HIDE DEF grown
  <2> QED  BY <1>4, <2>1, <2>2 DEF Writes
<1>6. new = [ws EXCEPT ![o] = grown]
  <2>1. ws[o] = [start |-> ws[o].start, vals |-> ws[o].vals, head |-> ws[o].head]
    BY <1>1 DEF Writes
  <2> DEFINE x == ws[o]
             a == ws[o].start
             b == ws[o].vals
             c == ws[o].head
             v == b \o vals
  <2>2. x = [start |-> a, vals |-> b, head |-> c] /\ x.vals = b
    BY <2>1
  <2>3. [x EXCEPT !.vals = v] = [start |-> a, vals |-> v, head |-> c]
    <3> HIDE DEF x, a, b, c, v
    <3> QED  BY <2>2
  <2> QED  BY <2>2, <2>3 DEF Extend
<1> HIDE DEF o, new, grown
<1>7. /\ new \in Seq(Writes) /\ Len(new) = Len(ws) /\ DOMAIN new = DOMAIN ws
      /\ new[o] = grown /\ \A i \in DOMAIN ws \ {o} : new[i] = ws[i]
  BY <1>1, <1>5, <1>6
<1>8. ASSUME NEW j \in DOMAIN ws \ {o}
      PROVE  \/ PageUp(End(grown)) <= Base(ws[j])
             \/ PageUp(End(ws[j])) <= Base(grown)
  <2>1. ~Overlaps(ws[j], Base(ws[o]), PageUp(off + Len(vals)))
    BY <1>8 DEF CanExtend, o
  <2>2. ws[j] \in Writes
    OBVIOUS
  <2>3. /\ Base(ws[j]) \in Nat /\ PageUp(End(ws[j])) \in Nat
        /\ Base(grown) \in Nat /\ PageUp(End(grown)) \in Nat
    BY <1>5, <2>2, WritePages
  <2> QED  BY <1>4, <2>1, <2>3 DEF Overlaps
<1>9. Apart(new)
  <2> SUFFICES ASSUME NEW i \in DOMAIN ws, NEW j \in DOMAIN ws, i # j
               PROVE  \/ PageUp(End(new[i])) <= Base(new[j])
                      \/ PageUp(End(new[j])) <= Base(new[i])
    BY <1>7 DEF Apart
  <2>1. CASE i # o /\ j # o
    BY <1>7, <2>1 DEF Apart
  <2>2. CASE i = o
    BY <1>7, <1>8, <2>2
  <2>3. CASE j = o
    BY <1>7, <1>8, <2>3
  <2> QED  BY <2>1, <2>2, <2>3
<1>10. (\A i \in DOMAIN ws : HeadAgrees(ws[i])) => \A i \in DOMAIN new : HeadAgrees(new[i])
  BY <1>1, <1>4, <1>7 DEF HeadAgrees
<1>11. Covers(ws, new, off, vals)
  <2> SUFFICES ASSUME NEW d \in [Offsets -> Bytes], NEW x \in Offsets
               PROVE  Overlay(d, new)[x] = IF x >= off /\ x < off + Len(vals)
                                           THEN vals[x - off + 1] ELSE Overlay(d, ws)[x]
    BY DEF Covers
  <2>0. x \in Nat
    BY SizeIs
  <2>1. CASE x >= off /\ x < off + Len(vals)
    <3>1. InWrite(new[o], x)
      BY <1>2, <1>4, <1>7, <2>0, <2>1 DEF InWrite
    <3>2. Overlay(d, new)[x] = new[o].vals[x - new[o].start + 1]
      BY <1>1, <1>7, <1>9, <3>1, OverlayAt
    <3>3. grown.vals = ws[o].vals \o vals
      BY DEF grown
    <3> DEFINE k == x - off + 1
    <3>4. /\ x - ws[o].start + 1 = Len(ws[o].vals) + k
          /\ k \in 1 .. Len(vals)
      <4>1. k \in 1 .. Len(vals)
        BY <1>2, <2>0, <2>1
      <4> DEFINE a == ws[o].start
                 m == Len(ws[o].vals)
      <4>2. a \in Nat /\ m \in Nat /\ off = a + m /\ off \in Nat
        BY <1>2
      <4> HIDE DEF a, m
      <4>3. x - a + 1 = m + k
        BY <2>0, <4>2
      <4> QED  BY <4>1, <4>3 DEF a, m
    <3>5. (ws[o].vals \o vals)[Len(ws[o].vals) + k] = vals[k]
      <4> HIDE DEF k
      <4> QED  BY <1>2, <3>4
    <3> QED  BY <1>4, <1>7, <2>1, <3>2, <3>3, <3>4, <3>5
  <2>2. CASE ~(x >= off /\ x < off + Len(vals))
    <3>1. CASE \E i \in DOMAIN ws : InWrite(ws[i], x)
      <4>1. PICK i \in DOMAIN ws : InWrite(ws[i], x)
        BY <3>1
      <4>2. Overlay(d, ws)[x] = ws[i].vals[x - ws[i].start + 1]
        BY <4>1, OverlayAt
      <4>3. ws[i] \in Writes /\ x - ws[i].start + 1 \in 1 .. Len(ws[i].vals)
        BY <2>0, <4>1, WriteInPages
      <4>4. InWrite(new[i], x) /\ new[i].vals[x - new[i].start + 1]
                                     = ws[i].vals[x - ws[i].start + 1]
        <5>1. CASE i # o
          BY <1>7, <4>1, <5>1
        <5>2. CASE i = o
          <6>1. InWrite(grown, x)
            BY <1>1, <1>2, <1>4, <2>0, <4>1, <5>2 DEF InWrite
          <6>2. (ws[o].vals \o vals)[x - ws[o].start + 1] = ws[o].vals[x - ws[o].start + 1]
            BY <1>2, <4>3, <5>2
          <6>3. grown.vals = ws[o].vals \o vals
            BY DEF grown
          <6> QED  BY <1>4, <1>7, <5>2, <6>1, <6>2, <6>3
        <5> QED  BY <5>1, <5>2
      <4>5. Overlay(d, new)[x] = new[i].vals[x - new[i].start + 1]
        <5>1. new \in Seq(Writes) /\ Apart(new) /\ i \in DOMAIN new
          BY <1>7, <1>9
        <5>2. \A y \in Offsets, j \in DOMAIN new :
                 InWrite(new[j], y) => Overlay(d, new)[y] = new[j].vals[y - new[j].start + 1]
          BY <5>1, OverlayAt
        <5> QED  BY <4>4, <5>1, <5>2
      <4> QED  BY <2>2, <4>2, <4>4, <4>5
    <3>2. CASE \A i \in DOMAIN ws : ~InWrite(ws[i], x)
      <4>1. ASSUME NEW i \in DOMAIN new PROVE ~InWrite(new[i], x)
        <5>1. CASE i # o
          BY <1>7, <3>2, <5>1
        <5>2. CASE i = o
          BY <1>1, <1>2, <1>4, <1>7, <2>0, <2>2, <3>2, <5>2 DEF InWrite
        <5> QED  BY <5>1, <5>2
      <4>2. new \in Seq(Writes) /\ Apart(new)
        BY <1>7, <1>9
      <4>3. Overlay(d, new)[x] = d[x]
        BY <4>1, <4>2, OverlayAt
      <4>4. Overlay(d, ws)[x] = d[x]
        BY <3>2, OverlayAt
      <4> QED  BY <2>2, <4>3, <4>4
    <3> QED  BY <3>1, <3>2
  <2> QED  BY <2>1, <2>2
<1> QED  BY <1>7, <1>9, <1>10, <1>11 DEF new

\* A write that is pushed is apart from the others, keeps the page it starts in,
\* and changes what a reader sees by its own bytes only.
LEMMA PushIs ==
    ASSUME NEW ws \in Seq(Writes), Apart(ws), NEW d \in [Offsets -> Bytes], NEW t \in Tails,
           NEW off \in Offsets, NEW len \in Nat \ {0}, off + len <= Size, count + 1 \in Bytes,
           \A i \in DOMAIN ws : ~Overlaps(ws[i], PageDown(off), PageUp(off + len))
    PROVE  /\ Push(ws, d, t, off, len) \in Seq(Writes) /\ Apart(Push(ws, d, t, off, len))
           /\ Len(Push(ws, d, t, off, len)) = Len(ws) + 1
           /\ \A i \in DOMAIN ws : Push(ws, d, t, off, len)[i] = ws[i]
           /\ LET w == Push(ws, d, t, off, len)[Len(ws) + 1]
              IN  w.head # <<>> => /\ Base(w) = PageDown(off)
                                   /\ w.head = HeadPage(d, t, PageDown(off))
           /\ Covers(ws, Push(ws, d, t, off, len), off, Vals(len))
<1> DEFINE new == Push(ws, d, t, off, len)
           n == Len(ws) + 1
           h == IF off = PageDown(off) THEN <<>> ELSE HeadPage(d, t, PageDown(off))
           w == [start |-> off, vals |-> Vals(len), head |-> h]
<1>1. off \in Nat /\ len > 0 /\ off + len \in Nat
  BY SizeIs
<1>2. Vals(len) \in Seq(Bytes) /\ Len(Vals(len)) = len /\ Vals(len) # <<>>
  BY DEF Vals
<1>3. PageDown(off) \in PageStarts
  <2>1. Aligned(PageDown(off)) /\ PageDown(off) \in Nat /\ PageDown(off) <= off
    BY <1>1, PageDownIs
  <2>2. PageDown(off) \in Offsets
    BY <1>1, <2>1, SizeIs
  <2> QED  BY <2>1, <2>2 DEF PageStarts
<1>4. HeadPage(d, t, PageDown(off)) \in PageFn
  <2>1. PageDown(off) \in DOMAIN t => t[PageDown(off)] \in PageFn
    BY DEF Tails
  <2> QED  BY <1>3, <2>1, PageBytesType DEF HeadPage
<1>5. End(w) = off + len /\ Base(w) = PageDown(off)
  BY <1>2 DEF End, Base
<1>6. w \in Writes
  <2>1. h \in {<<>>} \union PageFn /\ (h = <<>> <=> off = PageDown(off))
    BY <1>4, NotEmptyPage
  <2>2. w \in [start : Offsets, vals : Seq(Bytes), head : {<<>>} \union PageFn]
    BY <1>2, <2>1
  <2>3. w.vals # <<>> /\ End(w) <= Size /\ (w.head = <<>> <=> w.start = Base(w))
    BY <1>2, <1>5, <2>1
  <2> HIDE DEF w
  <2> QED  BY <2>2, <2>3 DEF Writes
<1>7. new = Append(ws, w)
  BY DEF Push
<1> HIDE DEF new, w, h
<1>8. /\ new \in Seq(Writes) /\ Len(new) = n /\ n \in DOMAIN new
      /\ DOMAIN new = DOMAIN ws \union {n}
      /\ new[n] = w /\ \A i \in DOMAIN ws : new[i] = ws[i] /\ i # n
  BY <1>6, <1>7
<1>9. Apart(new)
  <2>1. ASSUME NEW i \in DOMAIN ws
        PROVE  PageUp(End(ws[i])) <= Base(w) \/ PageUp(End(w)) <= Base(ws[i])
    <3>1. ~Overlaps(ws[i], Base(w), PageUp(End(w))) /\ ws[i] \in Writes
      BY <1>5
    <3>2. /\ Base(ws[i]) \in Nat /\ PageUp(End(ws[i])) \in Nat
          /\ Base(w) \in Nat /\ PageUp(End(w)) \in Nat
      BY <1>6, <3>1, WritePages
    <3> QED  BY <3>1, <3>2 DEF Overlaps
  <2>2. SUFFICES ASSUME NEW i \in DOMAIN new, NEW j \in DOMAIN new, i # j
                 PROVE  \/ PageUp(End(new[i])) <= Base(new[j])
                        \/ PageUp(End(new[j])) <= Base(new[i])
    BY DEF Apart
  <2>3. CASE i = n
    <3>1. j \in DOMAIN ws
      BY <1>8, <2>2, <2>3
    <3> QED  BY <1>8, <2>1, <2>3, <3>1
  <2>4. CASE j = n
    <3>1. i \in DOMAIN ws
      BY <1>8, <2>2, <2>4
    <3> QED  BY <1>8, <2>1, <2>4, <3>1
  <2>5. CASE i # n /\ j # n
    <3>1. i \in DOMAIN ws /\ j \in DOMAIN ws
      BY <1>8, <2>5
    <3> QED  BY <1>8, <2>2, <3>1 DEF Apart
  <2> QED  BY <2>3, <2>4, <2>5
<1>10. w.head # <<>> => Base(w) = PageDown(off) /\ w.head = HeadPage(d, t, PageDown(off))
  BY <1>5 DEF w, h
<1>11. Covers(ws, new, off, Vals(len))
  <2> SUFFICES ASSUME NEW c \in [Offsets -> Bytes], NEW x \in Offsets
               PROVE  Overlay(c, new)[x] = IF x >= off /\ x < off + len
                                           THEN Vals(len)[x - off + 1] ELSE Overlay(c, ws)[x]
    BY <1>2 DEF Covers
  <2>0. w.start = off /\ w.vals = Vals(len)
    BY DEF w
  <2>1. CASE x >= off /\ x < off + len
    <3>1. InWrite(new[n], x)
      BY <1>5, <1>8, <2>0, <2>1 DEF InWrite
    <3> QED  BY <1>8, <1>9, <2>0, <2>1, <3>1, OverlayAt
  <2>2. CASE ~(x >= off /\ x < off + len)
    <3>1. ~InWrite(new[n], x)
      BY <1>5, <1>8, <2>0, <2>2 DEF InWrite
    <3>2. CASE \E i \in DOMAIN ws : InWrite(ws[i], x)
      <4>1. PICK i \in DOMAIN ws : InWrite(ws[i], x)
        BY <3>2
      <4>2. Overlay(c, ws)[x] = ws[i].vals[x - ws[i].start + 1]
        BY <4>1, OverlayAt
      <4>3. Overlay(c, new)[x] = new[i].vals[x - new[i].start + 1]
        BY <1>8, <1>9, <4>1, OverlayAt
      <4> QED  BY <1>8, <2>2, <4>2, <4>3
    <3>3. CASE \A i \in DOMAIN ws : ~InWrite(ws[i], x)
      <4>1. \A i \in DOMAIN new : ~InWrite(new[i], x)
        BY <1>8, <3>1, <3>3
      <4>2. new \in Seq(Writes) /\ Apart(new)
        BY <1>8, <1>9
      <4>3. Overlay(c, new)[x] = c[x]
        BY <4>1, <4>2, OverlayAt
      <4>4. Overlay(c, ws)[x] = c[x]
        BY <3>3, OverlayAt
      <4> QED  BY <2>2, <4>3, <4>4
    <3> QED  BY <3>2, <3>3
  <2> QED  BY <2>1, <2>2
<1> QED  BY <1>8, <1>9, <1>10, <1>11 DEF new, w

-----------------------------------------------------------------------------
(* The invariant. *)

PInv ==
    /\ disk \in [Offsets -> Bytes]
    /\ staged_writes \in Seq(Writes) /\ Len(staged_writes) <= MAX_STAGED_WRITES
    /\ Apart(staged_writes)
    /\ tail_pages \in Tails
    /\ pending_bytes \in Nat /\ count \in 0 .. MaxStaged /\ faults \in 0 .. MaxFaults
    /\ faults = 0 => InMemoryAgrees

\* The invariant holds of a new file.
LEMMA InitPInv == Init => PInv
<1> SUFFICES ASSUME Init PROVE PInv
  OBVIOUS
<1>1. disk \in [Offsets -> Bytes] /\ 0 \in Bytes
  BY PagedAssumption DEF Init, Bytes
<1>2. staged_writes \in Seq(Writes) /\ Len(staged_writes) = 0 /\ DOMAIN staged_writes = {}
  BY DEF Init
<1>3. tail_pages \in Tails /\ DOMAIN tail_pages = {}
  <2>1. tail_pages = <<>> /\ DOMAIN tail_pages = {}
    BY DEF Init
  <2>2. tail_pages \in [{} -> PageFn]
    BY <2>1
  <2> QED  BY <2>1, <2>2 DEF Tails
<1> QED  BY <1>1, <1>2, <1>3, StagingAssumption, PagedAssumption
         DEF Init, PInv, Apart, InMemoryAgrees

\* A whole flush brings the file to what a reader sees, and leaves in the cache only
\* pages that are in the file.
LEMMA FlushIs ==
    ASSUME PInv
    PROVE  /\ DiskWith(AllPages) \in [Offsets -> Bytes]
           /\ TailAfter(Len(staged_writes)) \in Tails
           /\ faults = 0 =>
                /\ DiskWith(AllPages) = Overlay(disk, staged_writes)
                /\ \A p \in DOMAIN TailAfter(Len(staged_writes)) :
                      TailAfter(Len(staged_writes))[p] = PageBytes(DiskWith(AllPages), p)
<1> DEFINE ws == staged_writes
           n == Len(ws)
<1>1. n \in 0 .. Len(ws) /\ DOMAIN ws = 1 .. n
  BY DEF PInv
<1>2. DiskWith(AllPages) \in [Offsets -> Bytes] /\ TailAfter(n) \in Tails
  BY <1>1, DiskWithAt, TailsAfter DEF PInv
<1>3. SUFFICES ASSUME faults = 0
               PROVE  /\ DiskWith(AllPages) = Overlay(disk, ws)
                      /\ \A p \in DOMAIN TailAfter(n) :
                            TailAfter(n)[p] = PageBytes(DiskWith(AllPages), p)
  BY <1>2
<1>4. InMemoryAgrees
  BY <1>3 DEF PInv
<1>5. DiskWith(AllPages) = Overlay(disk, ws)
  <2>1. ASSUME NEW x \in Offsets PROVE x \div PAGE \in AllPages
    <3>1. x \in Nat /\ x < Size
      BY SizeIs
    <3>2. Aligned(PageDown(x)) /\ PageDown(x) <= x /\ PageDown(x) \div PAGE = x \div PAGE
      BY <3>1, PageDownIs
    <3>3. PageDown(x) < Size
      BY <3>1, <3>2, SizeIs DEF Aligned
    <3>4. x \div PAGE < Size \div PAGE
      BY <3>2, <3>3, SizeIs, PageSteps
    <3>5. Size \div PAGE = Pages
      BY TimesPage, PagedAssumption, PageAssumption DEF Size
    <3> QED  BY <3>1, <3>4, <3>5, PageAssumption, PagedAssumption DEF AllPages
  <2>2. \A x \in Offsets : DiskWith(AllPages)[x] = Overlay(disk, ws)[x]
    BY <1>4, <2>1, DiskWithAt DEF PInv
  <2>3. Overlay(disk, ws) \in [Offsets -> Bytes]
    BY OverlayAt DEF PInv
  <2> QED  BY <1>2, <2>2, <2>3
<1>6. ASSUME NEW p \in DOMAIN TailAfter(n)
      PROVE  TailAfter(n)[p] = PageBytes(Overlay(disk, ws), p)
  <2>1. CASE \E j \in 1 .. n : InPages(ws[j], p)
    BY <1>1, <1>4, <2>1, TailsAfter DEF PInv
  <2>2. CASE ~\E j \in 1 .. n : InPages(ws[j], p)
    <3>1. TailAfter(n)[p] = PageBytes(disk, p)
      BY <1>1, <1>4, <2>2, TailsAfter DEF PInv
    <3>2. p \in PageStarts
      BY <1>2 DEF Tails
    <3>3. p \in Nat /\ Aligned(p) /\ p < Size /\ p + PAGE <= Size
      BY <3>2, SizeIs, PageSteps DEF PageStarts
    <3>4. ASSUME NEW k \in 1 .. PAGE PROVE Overlay(disk, ws)[p + k - 1] = disk[p + k - 1]
      <4>1. p + k - 1 \in Offsets /\ p + k - 1 \in Nat
        BY <3>3, SizeIs, PageAssumption
      <4>2. ASSUME NEW i \in DOMAIN ws, InWrite(ws[i], p + k - 1) PROVE FALSE
        <5>1. ws[i] \in Writes /\ InPages(ws[i], p + k - 1)
          BY <4>1, <4>2, WriteInPages DEF PInv
        <5>2. ~InPages(ws[i], p)
          BY <1>1, <2>2, <4>2
        <5>3. /\ Aligned(Base(ws[i])) /\ Aligned(PageUp(End(ws[i])))
              /\ Base(ws[i]) \in Nat /\ PageUp(End(ws[i])) \in Nat
          BY <5>1, WritePages
        <5>4. CASE p < Base(ws[i])
          <6>1. p + PAGE <= Base(ws[i])
            BY <3>3, <5>3, <5>4, PageSteps
          <6> QED  BY <3>3, <5>1, <5>3, <6>1, PageAssumption DEF InPages
        <5>5. CASE p >= PageUp(End(ws[i]))
          BY <3>3, <5>1, <5>3, <5>5, PageAssumption DEF InPages
        <5> QED  BY <3>3, <5>2, <5>3, <5>4, <5>5 DEF InPages
      <4> QED  BY <4>1, <4>2, OverlayAt DEF PInv
    <3>5. PageBytes(Overlay(disk, ws), p) = PageBytes(disk, p)
      BY <3>4 DEF PageBytes
    <3> QED  BY <3>1, <3>5
  <2> QED  BY <2>1, <2>2
<1> QED  BY <1>5, <1>6

\* A step of stage keeps the invariant, and until a flush has failed it is a write of the
\* logical file.
LEMMA StageIs ==
    ASSUME PInv, NEW off \in Offsets, NEW len \in Lens, Stage(off, len)
    PROVE  /\ PInv' /\ off + len <= Size
           /\ faults' = 0 =>
                 \A x \in Offsets :
                    Overlay(disk, staged_writes)'[x] =
                       IF x >= off /\ x < off + len THEN count + 1
                       ELSE Overlay(disk, staged_writes)[x]
<1> DEFINE ws == staged_writes
<1>1. /\ len \in Nat \ {0} /\ off + len <= Size /\ off \in Nat /\ len \in Nat /\ len > 0
      /\ count' = count + 1 /\ faults' = faults /\ count < MaxStaged
      /\ count \in 0 .. MaxStaged /\ count' \in 0 .. MaxStaged
  BY PagedAssumption, SizeIs DEF Stage, PInv, Size
<1>2. /\ Vals(len) \in Seq(Bytes) /\ Len(Vals(len)) = len /\ Vals(len) # <<>>
      /\ count + 1 \in Bytes /\ \A k \in 1 .. len : Vals(len)[k] = count + 1
  BY <1>1 DEF Vals, Bytes
<1>3. CASE /\ CanExtend(ws, off, len) /\ staged_writes' = Extend(ws, off, Vals(len))
           /\ pending_bytes' = pending_bytes + len /\ UNCHANGED <<disk, tail_pages>>
  <2> DEFINE new == Extend(ws, off, Vals(len))
  <2>1. /\ new \in Seq(Writes) /\ Apart(new) /\ Len(new) = Len(ws)
        /\ (\A i \in DOMAIN ws : HeadAgrees(ws[i]))
                 => \A i \in DOMAIN new : HeadAgrees(new[i])
        /\ Covers(ws, new, off, Vals(len))
    BY <1>1, <1>2, <1>3, ExtendIs DEF PInv
  <2> HIDE DEF new
  <2>2. staged_writes' = new
    BY <1>3 DEF new
  <2>3. faults' = 0 => InMemoryAgrees'
    BY <1>1, <1>3, <2>1, <2>2 DEF PInv, InMemoryAgrees, TailAgrees, HeadAgrees
  <2>4. PInv'
    BY <1>1, <1>3, <2>1, <2>2, <2>3 DEF PInv
  <2>5. \A x \in Offsets : Overlay(disk, staged_writes)'[x] =
              IF x >= off /\ x < off + len THEN Vals(len)[x - off + 1] ELSE Overlay(disk, ws)[x]
    BY <1>2, <1>3, <2>1, <2>2 DEF Covers, PInv
  <2>6. \A x \in Offsets : x >= off /\ x < off + len => x - off + 1 \in 1 .. len
    BY <1>1, SizeIs
  <2> QED  BY <1>1, <1>2, <2>4, <2>5, <2>6
<1>4. CASE /\ MustFlush(ws, off, len) /\ disk' = DiskWith(AllPages)
           /\ tail_pages' = TailAfter(Len(ws))
           /\ staged_writes' = Push(<<>>, disk', tail_pages', off, len)
           /\ pending_bytes' = len
  <2> DEFINE new == Push(<<>>, disk', tail_pages', off, len)
  <2>1. /\ disk' \in [Offsets -> Bytes] /\ tail_pages' \in Tails
        /\ faults = 0 => /\ disk' = Overlay(disk, ws)
                         /\ \A p \in DOMAIN tail_pages' : tail_pages'[p] = PageBytes(disk', p)
    BY <1>4, FlushIs
  <2>2. <<>> \in Seq(Writes) /\ Len(<<>>) = 0 /\ DOMAIN <<>> = {} /\ Apart(<<>>)
    BY DEF Apart
  <2>3. /\ new \in Seq(Writes) /\ Apart(new) /\ Len(new) = 1
        /\ new[1].head # <<>> => /\ Base(new[1]) = PageDown(off)
                                 /\ new[1].head = HeadPage(disk', tail_pages', PageDown(off))
        /\ Covers(<<>>, new, off, Vals(len))
    <3> HIDE DEF new
    <3>1. /\ new \in Seq(Writes) /\ Apart(new) /\ Len(new) = Len(<<>>) + 1
          /\ LET w == new[Len(<<>>) + 1]
             IN  w.head # <<>> => /\ Base(w) = PageDown(off)
                                  /\ w.head = HeadPage(disk', tail_pages', PageDown(off))
          /\ Covers(<<>>, new, off, Vals(len))
      <4>1. \A i \in DOMAIN <<>> : ~Overlaps(<<>>[i], PageDown(off), PageUp(off + len))
        BY <2>2
      <4> DEFINE d == disk'
                 t == tail_pages'
      <4>2. d \in [Offsets -> Bytes] /\ t \in Tails /\ new = Push(<<>>, d, t, off, len)
        BY <2>1 DEF new
      <4> HIDE DEF d, t
      <4> DEFINE ws0 == <<>>
      <4>3. ws0 \in Seq(Writes) /\ Apart(ws0) /\ new = Push(ws0, d, t, off, len)
            /\ \A i \in DOMAIN ws0 : ~Overlaps(ws0[i], PageDown(off), PageUp(off + len))
        BY <2>2, <4>1, <4>2
      <4> HIDE DEF ws0
      <4>4. /\ new \in Seq(Writes) /\ Apart(new) /\ Len(new) = Len(ws0) + 1
            /\ LET w == new[Len(ws0) + 1]
               IN  w.head # <<>> => /\ Base(w) = PageDown(off)
                                    /\ w.head = HeadPage(d, t, PageDown(off))
            /\ Covers(ws0, new, off, Vals(len))
        BY <1>1, <1>2, <4>2, <4>3, PushIs
      <4> QED  BY <4>4 DEF d, t, ws0
    <3> QED  BY <2>2, <3>1
  <2> HIDE DEF new
  <2>4. staged_writes' = new
    BY <1>4 DEF new
  <2>5. faults' = 0 => InMemoryAgrees'
    <3> SUFFICES ASSUME faults = 0
                 PROVE  /\ \A p \in DOMAIN tail_pages' : tail_pages'[p] = PageBytes(disk', p)
                        /\ \A i \in DOMAIN new :
                              new[i].head # <<>> => new[i].head = PageBytes(disk', Base(new[i]))
      BY <1>1, <2>4 DEF InMemoryAgrees, HeadAgrees, TailAgrees
    <3>1. HeadPage(disk', tail_pages', PageDown(off)) = PageBytes(disk', PageDown(off))
      BY <2>1 DEF HeadPage
    <3>2. DOMAIN new = {1}
      BY <2>3
    <3> QED  BY <2>1, <2>3, <3>1, <3>2
  <2>6. PInv'
    <3>1. 1 <= MAX_STAGED_WRITES /\ pending_bytes' \in Nat /\ faults' \in 0 .. MaxFaults
      BY <1>1, <1>4, StagingAssumption DEF PInv
    <3> QED  BY <1>1, <2>1, <2>3, <2>4, <2>5, <3>1 DEF PInv
  <2>7. ASSUME faults = 0, NEW x \in Offsets
        PROVE  Overlay(disk, staged_writes)'[x] =
                 IF x >= off /\ x < off + len THEN Vals(len)[x - off + 1]
                 ELSE Overlay(disk, ws)[x]
    <3>1. Overlay(disk', <<>>)[x] = disk'[x]
      BY <2>1, <2>2, OverlayAt
    <3> QED  BY <1>2, <2>1, <2>3, <2>4, <2>7, <3>1 DEF Covers
  <2>8. \A x \in Offsets : x >= off /\ x < off + len => x - off + 1 \in 1 .. len
    BY <1>1, SizeIs
  <2> QED  BY <1>1, <1>2, <2>6, <2>7, <2>8
<1>5. CASE /\ ~CanExtend(ws, off, len) /\ ~MustFlush(ws, off, len)
           /\ staged_writes' = Push(ws, disk, tail_pages, off, len)
           /\ pending_bytes' = pending_bytes + len /\ UNCHANGED <<disk, tail_pages>>
  <2> DEFINE new == Push(ws, disk, tail_pages, off, len)
             n == Len(ws) + 1
  <2>0. Len(ws) \in Nat /\ DOMAIN ws = 1 .. Len(ws)
    BY DEF PInv
  <2>1. /\ \A i \in DOMAIN ws : ~Overlaps(ws[i], PageDown(off), PageUp(off + len))
        /\ Len(ws) < MAX_STAGED_WRITES
    BY <1>5, <2>0, StagingAssumption DEF MustFlush
  <2>2. /\ new \in Seq(Writes) /\ Apart(new) /\ Len(new) = n
        /\ \A i \in DOMAIN ws : new[i] = ws[i]
        /\ new[n].head # <<>> => /\ Base(new[n]) = PageDown(off)
                                 /\ new[n].head = HeadPage(disk, tail_pages, PageDown(off))
        /\ Covers(ws, new, off, Vals(len))
    BY <1>1, <1>2, <2>1, PushIs DEF PInv
  <2> HIDE DEF new
  <2>3. staged_writes' = new
    BY <1>5 DEF new
  <2>4. faults' = 0 => InMemoryAgrees'
    <3> SUFFICES ASSUME faults = 0
                 PROVE  /\ \A p \in DOMAIN tail_pages : tail_pages[p] = PageBytes(disk, p)
                        /\ \A i \in DOMAIN new :
                              new[i].head # <<>> => new[i].head = PageBytes(disk, Base(new[i]))
      BY <1>1, <1>5, <2>3 DEF InMemoryAgrees, HeadAgrees, TailAgrees
    <3>1. InMemoryAgrees
      BY DEF PInv
    <3>2. HeadPage(disk, tail_pages, PageDown(off)) = PageBytes(disk, PageDown(off))
      BY <3>1 DEF HeadPage, InMemoryAgrees, TailAgrees
    <3>3. DOMAIN new = DOMAIN ws \union {n}
      BY <2>0, <2>2
    <3> QED  BY <2>2, <3>1, <3>2, <3>3 DEF InMemoryAgrees, HeadAgrees, TailAgrees
  <2>5. PInv'
    BY <1>1, <1>5, <2>0, <2>1, <2>2, <2>3, <2>4, StagingAssumption DEF PInv
  <2>6. \A x \in Offsets : Overlay(disk, staged_writes)'[x] =
              IF x >= off /\ x < off + len THEN Vals(len)[x - off + 1] ELSE Overlay(disk, ws)[x]
    BY <1>2, <1>5, <2>2, <2>3 DEF Covers, PInv
  <2>7. \A x \in Offsets : x >= off /\ x < off + len => x - off + 1 \in 1 .. len
    BY <1>1, SizeIs
  <2> QED  BY <1>1, <1>2, <2>5, <2>6, <2>7
<1> QED  BY <1>3, <1>4, <1>5 DEF Stage

\* A whole flush keeps the invariant and is invisible.
LEMMA FlushStep ==
    ASSUME PInv, Flush
    PROVE  PInv' /\ (faults' = 0 => Overlay(disk, staged_writes)' = Overlay(disk, staged_writes))
<1>1. /\ disk' \in [Offsets -> Bytes] /\ tail_pages' \in Tails
      /\ faults = 0 => /\ disk' = Overlay(disk, staged_writes)
                       /\ \A p \in DOMAIN tail_pages' : tail_pages'[p] = PageBytes(disk', p)
  BY FlushIs DEF Flush
<1>2. /\ staged_writes' = <<>> /\ <<>> \in Seq(Writes) /\ Len(<<>>) = 0 /\ DOMAIN <<>> = {}
      /\ Apart(<<>>) /\ faults' = faults /\ count' = count /\ pending_bytes' = 0
  BY DEF Flush, Apart
<1>3. faults' = 0 => InMemoryAgrees'
  BY <1>1, <1>2 DEF InMemoryAgrees, TailAgrees
<1>4. PInv'
  BY <1>1, <1>2, <1>3, StagingAssumption DEF PInv
<1>5. ASSUME faults = 0 PROVE Overlay(disk', <<>>) = Overlay(disk, staged_writes)
  <2>1. Overlay(disk', <<>>) \in [Offsets -> Bytes]
        /\ \A x \in Offsets : Overlay(disk', <<>>)[x] = disk'[x]
    BY <1>1, <1>2, OverlayAt
  <2> QED  BY <1>1, <1>5, <2>1
<1> QED  BY <1>2, <1>4, <1>5

\* A flush that fails keeps the types and the writes apart, and the first one changes
\* no byte outside the staged writes.
LEMMA ErrorStep ==
    ASSUME PInv, FlushError
    PROVE  /\ PInv'
           /\ faults = 0 => \A x \in Offsets :
                 disk'[x] # disk[x] => \E i \in DOMAIN staged_writes : InWrite(staged_writes[i], x)
<1>1. /\ staged_writes' = <<>> /\ <<>> \in Seq(Writes) /\ Len(<<>>) = 0 /\ DOMAIN <<>> = {}
      /\ Apart(<<>>) /\ faults' = faults + 1 /\ faults < MaxFaults
      /\ count' = count /\ pending_bytes' = pending_bytes
  BY DEF FlushError, Apart
<1> DEFINE Fine == /\ disk' \in [Offsets -> Bytes] /\ tail_pages' \in Tails
                   /\ faults = 0 => \A x \in Offsets :
                         disk'[x] # disk[x] =>
                             \E i \in DOMAIN staged_writes : InWrite(staged_writes[i], x)
<1>2. Fine
  <2>1. ASSUME NEW i \in DOMAIN staged_writes, tail_pages' = TailAfter(i - 1), UNCHANGED disk
        PROVE  Fine
    <3>1. i - 1 \in 0 .. Len(staged_writes)
      BY DEF PInv
    <3> QED  BY <2>1, <3>1, TailsAfter DEF PInv
  <2>2. ASSUME NEW pages, disk' = DiskWith(pages), tail_pages' = TailAfter(Len(staged_writes))
        PROVE  Fine
    <3>1. Len(staged_writes) \in 0 .. Len(staged_writes)
      BY DEF PInv
    <3>2. disk' \in [Offsets -> Bytes] /\ tail_pages' \in Tails
      BY <2>2, <3>1, TailsAfter, DiskWithAt DEF PInv
    <3>3. ASSUME faults = 0, NEW x \in Offsets, disk'[x] # disk[x]
          PROVE  \E i \in DOMAIN staged_writes : InWrite(staged_writes[i], x)
      <4>1. disk'[x] \in {disk[x], Overlay(disk, staged_writes)[x]}
        BY <2>2, <3>3, DiskWithAt DEF PInv
      <4> QED  BY <3>3, <4>1, OverlayAt DEF PInv
    <3> QED  BY <3>2, <3>3
  <2> QED  BY <2>1, <2>2 DEF FlushError
<1>3. PInv'
  BY <1>1, <1>2, StagingAssumption, PagedAssumption DEF PInv
<1> QED  BY <1>2, <1>3

\* Every step keeps the invariant.
LEMMA StepPInv == PInv /\ [Next]_vars => PInv'
<1> SUFFICES ASSUME PInv, [Next]_vars PROVE PInv'
  OBVIOUS
<1>1. ASSUME NEW off \in Offsets, NEW len \in Lens, Stage(off, len) PROVE PInv'
  BY <1>1, StageIs
<1>2. CASE Flush
  BY <1>2, FlushStep
<1>3. CASE FlushError
  BY <1>3, ErrorStep
<1>4. CASE UNCHANGED vars
  BY <1>4 DEF vars, PInv, InMemoryAgrees, TailAgrees, HeadAgrees
<1> QED  BY <1>1, <1>2, <1>3, <1>4 DEF Next

\* The invariant holds in every state, whatever is staged, flushed and fails.
THEOREM PagedInvariance == Spec => []PInv
<1> QED  BY InitPInv, StepPInv, PTL DEF Spec

\* PagedFile's state stays in range: staged writes lie in the file, no more than
\* MAX_STAGED_WRITES are kept, and cached pages are whole (data.rs, stage and flush).
THEOREM PagedTypeCorrect == Spec => []TypeOK
<1>1. PInv => TypeOK
  <2> SUFFICES ASSUME PInv PROVE TypeOK
    OBVIOUS
  <2>1. DOMAIN disk = Offsets /\ Range(disk) \subseteq Bytes
    BY DEF PInv, Range
  <2>2. ASSUME NEW i \in DOMAIN staged_writes
        PROVE  /\ staged_writes[i].start \in Offsets
               /\ End(staged_writes[i]) <= Pages * PAGE
               /\ Len(staged_writes[i].head) \in {0, PAGE}
    <3>1. staged_writes[i] \in Writes
      BY DEF PInv
    <3>2. ASSUME staged_writes[i].head # <<>> PROVE Len(staged_writes[i].head) = PAGE
      <4>1. staged_writes[i].head \in PageFn
        BY <3>1, <3>2 DEF Writes
      <4> QED  BY <4>1, PageAssumption DEF PageFn
    <3> QED  BY <3>1, <3>2 DEF Writes, Size
  <2>3. \A p \in DOMAIN tail_pages : p = PageDown(p) /\ DOMAIN tail_pages[p] = 1 .. PAGE
    BY PageAssumption DEF PInv, Tails, PageStarts, PageFn, Aligned, PageDown
  <2> QED  BY <2>1, <2>2, <2>3 DEF PInv, TypeOK
<1> QED  BY <1>1, PagedInvariance, PTL

\* No page is in two staged writes, for every page size and every number of staged writes.
THEOREM NoSharedPages == Spec => []StagedApart
<1>1. PInv => StagedApart
  <2> SUFFICES ASSUME PInv, NEW i \in DOMAIN staged_writes, NEW j \in DOMAIN staged_writes, i # j,
                      NEW q \in Range(PagesOf(staged_writes[i])),
                      q \in Range(PagesOf(staged_writes[j]))
               PROVE  FALSE
    BY DEF StagedApart
  <2>1. ASSUME NEW w \in Writes, q \in Range(PagesOf(w))
        PROVE  q \in Nat /\ Base(w) \div PAGE <= q /\ q < PageUp(End(w)) \div PAGE
               /\ Base(w) \div PAGE \in Nat /\ PageUp(End(w)) \div PAGE \in Nat
    <3> DEFINE b == Base(w)
               u == PageUp(End(w))
    <3>1. Aligned(b) /\ Aligned(u) /\ b <= u /\ b \in Nat /\ u \in Nat
      BY WritePages
    <3>2. PICK c \in Nat : b = PAGE * c /\ b \div PAGE = c
      BY <3>1, AlignedIs
    <3>3. PICK v \in Nat : u = PAGE * v /\ u \div PAGE = v
      BY <3>1, AlignedIs
    <3>4. c <= v
      <4>1. b < u \/ b = u
        BY <3>1
      <4> QED  BY <3>1, <3>2, <3>3, <4>1, PageSteps
    <3>5. u - b = PAGE * (v - c) /\ v - c \in Nat
      BY <3>2, <3>3, <3>4, PageAssumption
    <3>6. (u - b) \div PAGE = v - c
      BY <3>5, TimesPage
    <3>7. PICK k \in 1 .. v - c : q = c + k - 1
      BY <2>1, <3>2, <3>6 DEF PagesOf, Range
    <3> QED  BY <3>2, <3>3, <3>4, <3>7
  <2>2. staged_writes[i] \in Writes /\ staged_writes[j] \in Writes
    BY DEF PInv
  <2>3. ASSUME NEW v \in Writes, NEW w \in Writes, PageUp(End(v)) <= Base(w)
        PROVE  PageUp(End(v)) \div PAGE <= Base(w) \div PAGE
    <3>1. /\ Aligned(PageUp(End(v))) /\ Aligned(Base(w))
          /\ PageUp(End(v)) \in Nat /\ Base(w) \in Nat
      BY WritePages
    <3>2. PageUp(End(v)) = Base(w) \/ PageUp(End(v)) < Base(w)
      BY <2>3, <3>1
    <3>3. PageUp(End(v)) \div PAGE \in Nat /\ Base(w) \div PAGE \in Nat
      BY <3>1, AlignedIs
    <3>4. CASE PageUp(End(v)) < Base(w)
      BY <3>1, <3>3, <3>4, PageSteps
    <3>5. CASE PageUp(End(v)) = Base(w)
      BY <3>3, <3>5
    <3> QED  BY <3>2, <3>4, <3>5
  <2>4. \/ PageUp(End(staged_writes[i])) <= Base(staged_writes[j])
        \/ PageUp(End(staged_writes[j])) <= Base(staged_writes[i])
    BY DEF PInv, Apart
  <2>5. /\ q \in Nat /\ Base(staged_writes[i]) \div PAGE <= q
        /\ q < PageUp(End(staged_writes[i])) \div PAGE
        /\ Base(staged_writes[i]) \div PAGE \in Nat
        /\ PageUp(End(staged_writes[i])) \div PAGE \in Nat
    BY <2>1, <2>2
  <2>6. /\ q \in Nat /\ Base(staged_writes[j]) \div PAGE <= q
        /\ q < PageUp(End(staged_writes[j])) \div PAGE
        /\ Base(staged_writes[j]) \div PAGE \in Nat
        /\ PageUp(End(staged_writes[j])) \div PAGE \in Nat
    BY <2>1, <2>2
  <2>7. CASE PageUp(End(staged_writes[i])) <= Base(staged_writes[j])
    <3>1. PageUp(End(staged_writes[i])) \div PAGE <= Base(staged_writes[j]) \div PAGE
      BY <2>2, <2>3, <2>7
    <3> QED  BY <2>5, <2>6, <3>1
  <2>8. CASE PageUp(End(staged_writes[j])) <= Base(staged_writes[i])
    <3>1. PageUp(End(staged_writes[j])) \div PAGE <= Base(staged_writes[i]) \div PAGE
      BY <2>2, <2>3, <2>8
    <3> QED  BY <2>5, <2>6, <3>1
  <2> QED  BY <2>4, <2>7, <2>8
<1> QED  BY <1>1, PagedInvariance, PTL

\* The first flush that fails changes no byte that is not staged: the partly filled pages
\* it writes back are those of the file.
THEOREM ErrorsLoseOnlyStaged == Spec => ErrorLosesOnlyStaged
<1> DEFINE A == faults = 0 /\ faults' > 0 => \A x \in Offsets :
                    disk'[x] # disk[x] =>
                       \E i \in DOMAIN staged_writes :
                           x >= staged_writes[i].start /\ x < End(staged_writes[i])
<1>1. PInv /\ [Next]_vars => [A]_vars
  <2> SUFFICES ASSUME PInv, Next, faults = 0, faults' > 0 PROVE A
    OBVIOUS
  <2>1. FlushError
    BY DEF Next, Stage, Flush
  <2> QED  BY <2>1, ErrorStep DEF InWrite
<1> QED  BY <1>1, PagedInvariance, PTL DEF Spec, ErrorLosesOnlyStaged

\* PagedFile implements LogicalFile until a flush fails: staging is a write of the logical
\* file and a flush, with its cached and merged pages, is invisible.
THEOREM StagingIsTransparent == Spec => FileContents
<1> DEFINE content == Overlay(disk, staged_writes)
           A == faults' = 0 => Logical!Next \/ UNCHANGED <<content, count>>
<1>1. Init => Logical!Init
  <2> SUFFICES ASSUME Init PROVE content = [x \in DOMAIN content |-> 0] /\ count = 0
    BY DEF Logical!Init
  <2>1. PInv /\ staged_writes = <<>> /\ DOMAIN staged_writes = {}
    BY InitPInv DEF Init
  <2>2. content \in [Offsets -> Bytes] /\ \A x \in Offsets : content[x] = disk[x]
    BY <2>1, OverlayAt DEF PInv
  <2>3. \A x \in Offsets : disk[x] = 0
    BY DEF Init
  <2> HIDE DEF content
  <2> QED  BY <2>2, <2>3 DEF Init
<1>2. PInv /\ [Next]_vars => [A]_vars
  <2> SUFFICES ASSUME PInv, Next, faults' = 0
               PROVE  Logical!Next \/ UNCHANGED <<content, count>>
    OBVIOUS
  <2>1. ASSUME NEW off \in Offsets, NEW len \in Lens, Stage(off, len)
        PROVE  Logical!Next
    <3>1. /\ off + len <= Size /\ PInv'
          /\ \A x \in Offsets :
                content'[x] = IF x >= off /\ x < off + len THEN count + 1 ELSE content[x]
      BY <2>1, StageIs
    <3>2. DOMAIN content = Offsets
      BY DEF Overlay, PInv
    <3>3. off + len - 1 \in Offsets /\ count' = count + 1
      BY <2>1, <3>1, SizeIs, PagedAssumption DEF Stage
    <3>4. Logical!Write(off, len)
      <4> HIDE DEF content
      <4> QED  BY <3>1, <3>2, <3>3 DEF Logical!Write, content
    <3> QED  BY <3>2, <3>4 DEF Logical!Next
  <2>2. CASE Flush
    BY <2>2, FlushStep DEF Flush
  <2>3. CASE FlushError
    BY <2>3 DEF FlushError, PInv
  <2> QED  BY <2>1, <2>2, <2>3 DEF Next
<1> QED  BY <1>1, <1>2, PagedInvariance, PTL DEF Spec, FileContents
=============================================================================
