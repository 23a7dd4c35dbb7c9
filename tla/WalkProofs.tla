----------------------------- MODULE WalkProofs -----------------------------
(***************************************************************************)
(* Proofs about reads in pieces.  The loop of walk, for every file, magic, *)
(* chunk size and length of the stretch: the buffer is in place and        *)
(* bounded, and the walk visits what is there.  read_batch, for every      *)
(* batch and index: it returns what single reads return.                   *)
(***************************************************************************)
EXTENDS Walk, ReadPlan, DataInduction, FiniteSetTheorems

M == Len(Magic)

\* The scanned bytes that are kept.
Kept == DrainFactor * chunk

\* The buffer holds the bytes of the file from buffer_start on.
Place ==
    /\ bytes \in [0 .. EndOffset - 1 -> Alphabet] /\ chunk \in Chunks /\ allow_resync \in BOOLEAN
    /\ buffer \in Seq(Alphabet) /\ buffer_start \in Nat
    /\ buffer_start + Len(buffer) <= EndOffset
    /\ \A n \in 1 .. Len(buffer) : buffer[n] = bytes[buffer_start + n - 1]
    /\ Len(buffer) < Kept + chunk + HeaderSize + MaxPayload

\* What the loop is at, or fills the buffer for.
Doing == IF wpc = "fill" THEN after ELSE wpc

\* The offset up to which the buffer has to be filled for a part of the loop.
Goal(b, at, pos, search) ==
    IF at = "decode" THEN pos + HeaderSize
    ELSE IF at = "visit" THEN RecordEnd(b, pos)
    ELSE search + M

\* There is no record at pos and no magic between there and where the search is.
Searched(b, pos, search) ==
    /\ pos + HeaderSize <= EndOffset /\ ~RecordAt(b, pos) /\ pos < search
    /\ \A q \in pos + 1 .. search - 1 : ~MagicAt(b, q)

LoopInv ==
    /\ position \in 0 .. EndOffset /\ search_offset \in Nat /\ needed \in Nat
    /\ stopped \in BOOLEAN /\ (stopped => wpc = "done")
    /\ wpc \in {"top", "fill", "decode", "visit", "search", "scan", "done"}
    /\ Doing \in {"top", "decode", "visit"} => position \in buffer_start .. BufferEnd
    /\ Doing \in {"decode", "visit"} => /\ position - buffer_start <= Kept
                                        /\ position + HeaderSize <= EndOffset
    /\ Doing = "visit" => RecordAt(bytes, position)
    /\ Doing \in {"search", "scan"} => /\ allow_resync /\ search_offset \in buffer_start .. BufferEnd
                                       /\ Searched(bytes, position, search_offset)
    /\ Doing = "scan" => search_offset - buffer_start <= Kept
    /\ wpc = "fill" => /\ after \in {"decode", "visit", "scan"}
                       /\ position + needed = Goal(bytes, after, position, search_offset)
    /\ wpc \in {"decode", "visit", "scan"} => Goal(bytes, wpc, position, search_offset) <= BufferEnd

\* What is visited.
Entries == [at : Nat, valid : BOOLEAN]

\* f[p] are the records found from p on.
FoundFrom(b, resync, f) ==
    \A p \in 0 .. EndOffset :
        f[p] = IF RecordAt(b, p) THEN <<Entry(b, p)>> \o f[RecordEnd(b, p)]
               ELSE IF Later(b, resync, p) # {} THEN f[Min(Later(b, resync, p))] ELSE <<>>

\* What was visited and what is found from here on are what is found from the start.
VisitInv ==
    /\ visited \in Seq(Entries)
    /\ \A f \in [0 .. EndOffset -> Seq(Entries)] : FoundFrom(bytes, allow_resync, f) =>
          /\ wpc # "done" => visited \o f[position] = f[0]
          /\ wpc = "done" => \E w \in Seq(Entries) : visited \o w = f[0] /\ (~stopped => w = <<>>)

WalkInv == Place /\ LoopInv /\ VisitInv

-----------------------------------------------------------------------------
(* Numbers and bytes. *)

\* The constants.
LEMMA Sizes ==
    /\ M \in Nat /\ M >= 1 /\ HeaderSize = M + 1 /\ EndOffset \in Nat
    /\ Magic \in Seq(Alphabet)
    /\ MaxPayload \in Nat /\ \A l \in PayloadLens : l \in Nat /\ l <= MaxPayload
<1>1. /\ Magic \in Seq(Range(Magic)) /\ Magic # <<>>
      /\ PayloadLens \subseteq Nat /\ \E m \in PayloadLens : \A l \in PayloadLens : l <= m
      /\ EndOffset \in Nat
  BY WalkAssumption
<1>2. M \in Nat /\ M >= 1
  BY <1>1 DEF M
<1>3. Magic \in Seq(Alphabet)
  <2>1. Range(Magic) \subseteq Alphabet
    BY DEF Alphabet
  <2> HIDE DEF Alphabet
  <2> QED  BY <1>1, <2>1
<1>4. \E m \in PayloadLens : \A l \in PayloadLens : m >= l
  BY <1>1
<1>5. MaxPayload \in PayloadLens /\ \A l \in PayloadLens : MaxPayload >= l
  BY <1>4, Zenon DEF MaxPayload, Max
<1> QED  BY <1>1, <1>2, <1>3, <1>5 DEF HeaderSize, M

\* What is kept.
LEMMA KeptSize ==
    ASSUME chunk \in Chunks
    PROVE  chunk \in Nat \ {0} /\ Kept \in Nat /\ M - 1 <= Kept
<1>1. chunk \in Nat \ {0} /\ DrainFactor \in Nat \ {0} /\ Len(Magic) - 1 <= DrainFactor * chunk
  BY WalkAssumption
<1> QED  BY <1>1 DEF Kept, M

\* A sequence without its first i elements.
LEMMA Dropped ==
    ASSUME NEW A, NEW s \in Seq(A), NEW i \in 0 .. Len(s)
    PROVE  /\ SubSeq(s, i + 1, Len(s)) \in Seq(A) /\ Len(SubSeq(s, i + 1, Len(s))) = Len(s) - i
           /\ \A n \in 1 .. Len(s) - i : SubSeq(s, i + 1, Len(s))[n] = s[i + n]
<1>1. Len(s) \in Nat /\ i \in Nat /\ i <= Len(s)
  OBVIOUS
<1>2. SubSeq(s, i + 1, Len(s)) \in Seq(A) /\ Len(SubSeq(s, i + 1, Len(s))) = Len(s) - i
  BY <1>1
<1>3. ASSUME NEW n \in 1 .. Len(s) - i PROVE SubSeq(s, i + 1, Len(s))[n] = s[i + n]
  <2>1. (i + 1) + n - 1 = i + n
    BY <1>1
  <2> QED  BY <1>1, <2>1
<1> QED  BY <1>2, <1>3

\* Two sequences, one behind the other.
LEMMA Joined ==
    ASSUME NEW A, NEW s \in Seq(A), NEW t \in Seq(A)
    PROVE  /\ s \o t \in Seq(A) /\ Len(s \o t) = Len(s) + Len(t)
           /\ \A n \in 1 .. Len(s) : (s \o t)[n] = s[n]
           /\ \A n \in 1 .. Len(t) : (s \o t)[Len(s) + n] = t[n]
  OBVIOUS

\* The buffer from p on is the file from p on.
LEMMA FromIs ==
    ASSUME Place, NEW p \in buffer_start .. BufferEnd
    PROVE  /\ p \in 0 .. EndOffset /\ BufferEnd \in 0 .. EndOffset /\ From(p) \in Seq(Alphabet)
           /\ Len(From(p)) = BufferEnd - p
           /\ \A n \in 1 .. BufferEnd - p : From(p)[n] = bytes[p + n - 1]
<1> DEFINE i == p - buffer_start
           k == Len(buffer)
<1>1. /\ buffer \in Seq(Alphabet) /\ k \in Nat /\ buffer_start \in Nat /\ k = Len(buffer)
      /\ buffer_start + k <= EndOffset /\ EndOffset \in Nat /\ BufferEnd = buffer_start + k
      /\ \A n \in 1 .. k : buffer[n] = bytes[buffer_start + n - 1]
  BY Sizes DEF Place, BufferEnd
<1>2. i \in 0 .. k /\ BufferEnd - p = k - i /\ p = buffer_start + i
  BY <1>1
<1>3. From(p) = SubSeq(buffer, i + 1, k)
  BY DEF From
<1> HIDE DEF i, k
<1>4. From(p) \in Seq(Alphabet) /\ Len(From(p)) = k - i /\ \A n \in 1 .. k - i : From(p)[n] = buffer[i + n]
  <2>1. i \in 0 .. Len(buffer) /\ From(p) = SubSeq(buffer, i + 1, Len(buffer))
    BY <1>1, <1>2, <1>3
  <2>2. /\ From(p) \in Seq(Alphabet) /\ Len(From(p)) = Len(buffer) - i
        /\ \A n \in 1 .. Len(buffer) - i : From(p)[n] = buffer[i + n]
    <3>1. /\ SubSeq(buffer, i + 1, Len(buffer)) \in Seq(Alphabet)
          /\ Len(SubSeq(buffer, i + 1, Len(buffer))) = Len(buffer) - i
          /\ \A n \in 1 .. Len(buffer) - i : SubSeq(buffer, i + 1, Len(buffer))[n] = buffer[i + n]
      BY <1>1, <2>1, Dropped
    <3> QED  BY <2>1, <3>1, Zenon
  <2> QED  BY <1>1, <2>2, Zenon
<1>5. ASSUME NEW n \in 1 .. k - i PROVE From(p)[n] = bytes[p + n - 1]
  <2>1. i + n \in 1 .. k /\ buffer_start + (i + n) - 1 = p + n - 1
    BY <1>1, <1>2
  <2> QED  BY <1>1, <1>4, <2>1
<1>6. p \in 0 .. EndOffset /\ BufferEnd \in 0 .. EndOffset
  BY <1>1, <1>2
<1>7. Len(From(p)) = BufferEnd - p /\ 1 .. BufferEnd - p = 1 .. k - i
  BY <1>2, <1>4
<1> QED  BY <1>4, <1>5, <1>6, <1>7

\* The magic at a place of a sequence.
LEMMA MagicIn ==
    ASSUME NEW s \in Seq(Alphabet), NEW n \in Nat, n >= 1, n + M - 1 <= Len(s)
    PROVE  SubSeq(s, n, n + M - 1) = Magic <=> \A j \in 1 .. M : s[n + j - 1] = Magic[j]
<1> DEFINE t == SubSeq(s, n, n + M - 1)
<1>1. M \in Nat /\ M >= 1 /\ Magic \in Seq(Alphabet) /\ Len(Magic) = M
  BY Sizes DEF M
<1>2. t \in Seq(Alphabet) /\ Len(t) = M /\ \A j \in 1 .. M : t[j] = s[n + j - 1]
  BY <1>1
<1> HIDE DEF t
<1>3. (\A j \in 1 .. M : t[j] = Magic[j]) => t = Magic
  BY <1>1, <1>2
<1>4. t = Magic <=> \A j \in 1 .. M : s[n + j - 1] = Magic[j]
  BY <1>2, <1>3
<1> QED  BY <1>4 DEF t

\* The magic in the buffer is the magic in the file.
LEMMA MagicInBuffer ==
    ASSUME Place, NEW p \in buffer_start .. BufferEnd, NEW n \in Nat, n >= 1, p + n - 1 + M <= BufferEnd
    PROVE  SubSeq(From(p), n, n + M - 1) = Magic <=> MagicAt(bytes, p + n - 1)
<1>1. /\ M \in Nat /\ M >= 1 /\ p \in Nat /\ BufferEnd \in Nat /\ BufferEnd <= EndOffset /\ EndOffset \in Nat
      /\ From(p) \in Seq(Alphabet) /\ Len(From(p)) = BufferEnd - p
      /\ \A m \in 1 .. BufferEnd - p : From(p)[m] = bytes[p + m - 1]
  BY Sizes, FromIs
<1>2. n + M - 1 <= Len(From(p))
  BY <1>1
<1>3. ASSUME NEW j \in 1 .. M PROVE From(p)[n + j - 1] = bytes[p + n - 1 + j - 1]
  <2>1. n + j - 1 \in 1 .. BufferEnd - p /\ p + (n + j - 1) - 1 = p + n - 1 + j - 1
    BY <1>1
  <2> QED  BY <1>1, <2>1
<1>4. MagicAt(bytes, p + n - 1) <=> \A j \in 1 .. M : bytes[p + n - 1 + j - 1] = Magic[j]
  <2>1. p + n - 1 + M <= EndOffset
    BY <1>1
  <2> QED  BY <2>1 DEF MagicAt, M
<1>5. SubSeq(From(p), n, n + M - 1) = Magic <=> \A j \in 1 .. M : From(p)[n + j - 1] = Magic[j]
  BY <1>1, <1>2, MagicIn
<1> QED  BY <1>3, <1>4, <1>5

\* A header that decodes and a payload that fits are a record of the file.
LEMMA DecodeIs ==
    ASSUME Place, NEW p \in buffer_start .. BufferEnd, p + HeaderSize <= BufferEnd
    PROVE  /\ From(p)[HeaderSize] = bytes[p + M]
           /\ Decodes(From(p)) /\ p + HeaderSize + From(p)[HeaderSize] <= EndOffset <=> RecordAt(bytes, p)
<1> DEFINE s == From(p)
<1>1. /\ M \in Nat /\ M >= 1 /\ HeaderSize = M + 1 /\ p \in Nat /\ BufferEnd \in Nat /\ BufferEnd <= EndOffset
      /\ EndOffset \in Nat /\ Len(s) = BufferEnd - p
      /\ \A m \in 1 .. BufferEnd - p : s[m] = bytes[p + m - 1]
  <2>1. M \in Nat /\ M >= 1 /\ HeaderSize = M + 1 /\ EndOffset \in Nat
    BY Sizes
  <2>2. /\ p \in 0 .. EndOffset /\ BufferEnd \in 0 .. EndOffset /\ Len(s) = BufferEnd - p
        /\ \A m \in 1 .. BufferEnd - p : s[m] = bytes[p + m - 1]
    BY FromIs
  <2> HIDE DEF s
  <2> QED  BY <2>1, <2>2
<1>2. s[HeaderSize] = bytes[p + M]
  <2>1. M + 1 \in 1 .. BufferEnd - p /\ p + (M + 1) - 1 = p + M
    BY <1>1
  <2> HIDE DEF s
  <2> QED  BY <1>1, <2>1
<1>3. SubSeq(s, 1, M) = Magic <=> MagicAt(bytes, p)
  <2>1. p + 1 - 1 + M <= BufferEnd /\ p + 1 - 1 = p /\ 1 + M - 1 = M
    BY <1>1
  <2>2. SubSeq(s, 1, 1 + M - 1) = Magic <=> MagicAt(bytes, p + 1 - 1)
    BY <2>1, MagicInBuffer
  <2> HIDE DEF s
  <2> QED  BY <2>1, <2>2
<1>4. Len(s) >= HeaderSize /\ p + HeaderSize <= EndOffset
  BY <1>1
<1> HIDE DEF s
<1>5. Decodes(s) <=> MagicAt(bytes, p) /\ bytes[p + M] \in PayloadLens
  BY <1>2, <1>3, <1>4 DEF Decodes, M
<1>6. RecordEnd(bytes, p) = p + HeaderSize + s[HeaderSize]
  BY <1>2 DEF RecordEnd, M
<1> QED  BY <1>2, <1>4, <1>5, <1>6 DEF RecordAt, M, s

-----------------------------------------------------------------------------
(* The buffer. *)

\* The numbers of a state.
LEMMA Measures ==
    ASSUME Place
    PROVE  /\ M \in Nat /\ M >= 1 /\ HeaderSize = M + 1 /\ EndOffset \in Nat /\ MaxPayload \in Nat
           /\ chunk \in Nat \ {0} /\ Kept \in Nat /\ M - 1 <= Kept
           /\ buffer_start \in Nat /\ Len(buffer) \in Nat /\ BufferEnd = buffer_start + Len(buffer)
           /\ BufferEnd \in 0 .. EndOffset
<1>1. /\ M \in Nat /\ M >= 1 /\ HeaderSize = M + 1 /\ EndOffset \in Nat /\ MaxPayload \in Nat
  BY Sizes
<1>2. chunk \in Nat \ {0} /\ Kept \in Nat /\ M - 1 <= Kept
  BY KeptSize DEF Place
<1>3. buffer_start \in Nat /\ Len(buffer) \in Nat /\ BufferEnd = buffer_start + Len(buffer)
  BY DEF Place, BufferEnd
<1>4. BufferEnd <= EndOffset
  BY DEF Place, BufferEnd
<1> QED  BY <1>1, <1>2, <1>3, <1>4

\* The first n bytes are dropped.
LEMMA DrainPlace ==
    ASSUME Place, NEW n \in 0 .. Len(buffer), Drain(n), UNCHANGED input
    PROVE  Place' /\ BufferEnd' = BufferEnd /\ buffer_start' = buffer_start + n
<1>1. /\ buffer' = SubSeq(buffer, n + 1, Len(buffer)) /\ buffer_start' = buffer_start + n
      /\ UNCHANGED <<bytes, chunk, allow_resync>>
  BY DEF Drain, input
<1>2. /\ buffer \in Seq(Alphabet) /\ buffer_start \in Nat /\ buffer_start + Len(buffer) <= EndOffset
      /\ \A m \in 1 .. Len(buffer) : buffer[m] = bytes[buffer_start + m - 1]
      /\ Len(buffer) < Kept + chunk + HeaderSize + MaxPayload
      /\ bytes \in [0 .. EndOffset - 1 -> Alphabet] /\ chunk \in Chunks /\ allow_resync \in BOOLEAN
  BY DEF Place
<1>3. /\ buffer' \in Seq(Alphabet) /\ Len(buffer') = Len(buffer) - n
      /\ \A m \in 1 .. Len(buffer) - n : buffer'[m] = buffer[n + m]
  <2>1. /\ SubSeq(buffer, n + 1, Len(buffer)) \in Seq(Alphabet)
        /\ Len(SubSeq(buffer, n + 1, Len(buffer))) = Len(buffer) - n
        /\ \A m \in 1 .. Len(buffer) - n : SubSeq(buffer, n + 1, Len(buffer))[m] = buffer[n + m]
    BY <1>2, Dropped
  <2> QED  BY <1>1, <2>1, Zenon
<1>4. Len(buffer) \in Nat /\ n \in Nat /\ n <= Len(buffer)
  BY <1>2
<1>5. ASSUME NEW m \in 1 .. Len(buffer') PROVE buffer'[m] = bytes'[buffer_start' + m - 1]
  <2>1. /\ m \in 1 .. Len(buffer) - n /\ n + m \in 1 .. Len(buffer)
        /\ buffer_start + (n + m) - 1 = (buffer_start + n) + m - 1
    BY <1>2, <1>3, <1>4
  <2> QED  BY <1>1, <1>2, <1>3, <2>1
<1>6. buffer_start' \in Nat /\ buffer_start' + Len(buffer') = buffer_start + Len(buffer)
  <2>1. buffer_start' = buffer_start + n /\ Len(buffer') = Len(buffer) - n /\ buffer_start \in Nat
    BY <1>1, <1>2, <1>3
  <2> QED  BY <1>4, <2>1
<1>7. Len(buffer') < Kept' + chunk' + HeaderSize + MaxPayload
  <2>1. Kept' = Kept
    BY <1>1 DEF Kept
  <2>2. Kept \in Nat /\ chunk \in Nat /\ HeaderSize \in Nat /\ MaxPayload \in Nat
    BY Measures
  <2> QED  BY <1>1, <1>2, <1>3, <1>4, <2>1, <2>2
<1>8. Place'
  BY <1>1, <1>2, <1>3, <1>5, <1>6, <1>7 DEF Place
<1> QED  BY <1>1, <1>6, <1>8 DEF BufferEnd

\* A chunk is read behind the buffer while it is shorter than what it is filled for.
LEMMA ReadPlace ==
    ASSUME Place, NEW k \in Nat, k <= chunk, BufferEnd + k <= EndOffset, UNCHANGED <<input, buffer_start>>,
           buffer' = buffer \o Slice(BufferEnd, BufferEnd + k),
           BufferEnd - buffer_start < Kept + HeaderSize + MaxPayload
    PROVE  Place' /\ BufferEnd' = BufferEnd + k
<1> DEFINE s == Slice(BufferEnd, BufferEnd + k)
           e == BufferEnd
<1>1. /\ buffer' = buffer \o s /\ UNCHANGED <<bytes, chunk, allow_resync, buffer_start>>
  BY DEF input
<1>2. /\ buffer \in Seq(Alphabet) /\ buffer_start \in Nat /\ buffer_start + Len(buffer) <= EndOffset
      /\ \A m \in 1 .. Len(buffer) : buffer[m] = bytes[buffer_start + m - 1]
      /\ bytes \in [0 .. EndOffset - 1 -> Alphabet] /\ chunk \in Chunks /\ allow_resync \in BOOLEAN
  BY DEF Place
<1>3. /\ Len(buffer) \in Nat /\ EndOffset \in Nat /\ e = buffer_start + Len(buffer) /\ e \in Nat
      /\ Kept \in Nat /\ chunk \in Nat /\ HeaderSize \in Nat /\ MaxPayload \in Nat
      /\ e - buffer_start < Kept + HeaderSize + MaxPayload /\ e + k <= EndOffset
  BY Measures
<1>4. s = [n \in 1 .. k |-> bytes[e + n - 1]]
  <2>1. (e + k) - e = k
    BY <1>3
  <2>2. s = [n \in 1 .. (e + k) - e |-> bytes[e + n - 1]]
    BY DEF Slice
  <2> HIDE DEF s, e
  <2> QED  BY <2>1, <2>2
<1> HIDE DEF s, e
<1>5. \A n \in 1 .. k : s[n] = bytes[e + n - 1] /\ bytes[e + n - 1] \in Alphabet
  BY <1>2, <1>3, <1>4
<1>6. s \in Seq(Alphabet) /\ Len(s) = k
  BY <1>4, <1>5
<1>7. /\ buffer' \in Seq(Alphabet) /\ Len(buffer') = Len(buffer) + k
      /\ \A m \in 1 .. Len(buffer) : buffer'[m] = buffer[m]
      /\ \A m \in 1 .. k : buffer'[Len(buffer) + m] = s[m]
  <2>2. buffer \in Seq(Alphabet) /\ s \in Seq(Alphabet)
    BY <1>2, <1>6
  <2>1. /\ buffer \o s \in Seq(Alphabet) /\ Len(buffer \o s) = Len(buffer) + Len(s)
        /\ \A m \in 1 .. Len(buffer) : (buffer \o s)[m] = buffer[m]
        /\ \A m \in 1 .. Len(s) : (buffer \o s)[Len(buffer) + m] = s[m]
    BY <2>2, Joined
  <2> QED  BY <1>1, <1>6, <2>1, Zenon
<1>8. ASSUME NEW m \in 1 .. Len(buffer') PROVE buffer'[m] = bytes'[buffer_start' + m - 1]
  <2>1. CASE m <= Len(buffer)
    BY <1>1, <1>2, <1>7, <2>1
  <2>2. CASE m > Len(buffer)
    <3> DEFINE j == m - Len(buffer)
    <3>1. j \in 1 .. k /\ Len(buffer) + j = m /\ e + j - 1 = buffer_start + m - 1
      BY <1>2, <1>3, <1>7, <2>2
    <3> HIDE DEF j
    <3> QED  BY <1>1, <1>5, <1>7, <3>1
  <2> QED  BY <1>3, <2>1, <2>2
<1>9. buffer_start' + Len(buffer') = e + k
  BY <1>1, <1>2, <1>3, <1>7
<1>10. Len(buffer') < Kept' + chunk' + HeaderSize + MaxPayload
  <2>1. Kept' = Kept
    BY <1>1 DEF Kept
  <2> QED  BY <1>1, <1>2, <1>3, <1>7, <2>1
<1>11. Place'
  BY <1>1, <1>2, <1>3, <1>7, <1>8, <1>9, <1>10 DEF Place
<1> QED  BY <1>9, <1>11 DEF BufferEnd, e

\* The buffer is left alone.
LEMMA StayPlace ==
    ASSUME Place, UNCHANGED <<input, buffer, buffer_start>>
    PROVE  Place' /\ BufferEnd' = BufferEnd /\ Kept' = Kept
  BY DEF Place, input, Kept, BufferEnd

-----------------------------------------------------------------------------
(* The loop. *)

\* The top of the loop drops at most what was scanned.
LEMMA TopLoop ==
    ASSUME Place, LoopInv, Top
    PROVE  Place' /\ LoopInv'
<1>1. /\ wpc = "top" /\ UNCHANGED <<bytes, chunk, allow_resync, position, search_offset, stopped>>
      /\ UNCHANGED input
      /\ IF Scanned(position) THEN Drain(position - buffer_start) ELSE UNCHANGED <<buffer, buffer_start>>
      /\ IF position + HeaderSize > EndOffset THEN wpc' = "done" /\ UNCHANGED <<needed, after>>
         ELSE wpc' = "fill" /\ needed' = HeaderSize /\ after' = "decode"
  BY DEF Top, input, Ensure
<1>2. /\ position \in 0 .. EndOffset /\ search_offset \in Nat /\ needed \in Nat
      /\ stopped = FALSE /\ position \in buffer_start .. BufferEnd
  BY <1>1 DEF LoopInv, Doing
<1>3. /\ HeaderSize \in Nat /\ EndOffset \in Nat /\ Kept \in Nat
      /\ buffer_start \in Nat /\ Len(buffer) \in Nat /\ BufferEnd = buffer_start + Len(buffer)
  BY Measures
<1>4. Kept' = Kept
  BY <1>1 DEF Kept
<1>5. /\ Place' /\ BufferEnd' = BufferEnd /\ position - buffer_start' <= Kept
      /\ buffer_start' \in Nat /\ buffer_start' <= position
  <2>1. CASE Scanned(position)
    <3> DEFINE n == position - buffer_start
    <3>1. n \in 0 .. Len(buffer) /\ Drain(n)
      BY <1>1, <1>2, <1>3, <2>1
    <3> HIDE DEF n
    <3>2. Place' /\ BufferEnd' = BufferEnd /\ buffer_start' = buffer_start + n
      BY <1>1, <3>1, DrainPlace
    <3> QED  BY <1>2, <1>3, <3>2 DEF n
  <2>2. CASE ~Scanned(position)
    <3>1. UNCHANGED <<buffer, buffer_start>> /\ position - buffer_start <= Kept
      BY <1>1, <1>2, <1>3, <2>2 DEF Scanned, Kept
    <3> QED  BY <1>1, <1>2, <1>3, <3>1, StayPlace
  <2> QED  BY <2>1, <2>2
<1>6. position' \in 0 .. EndOffset /\ search_offset' \in Nat /\ needed' \in Nat /\ stopped' = FALSE
  BY <1>1, <1>2, <1>3
<1>7. position' \in buffer_start' .. BufferEnd'
  BY <1>1, <1>2, <1>3, <1>5
<1>8. CASE position + HeaderSize > EndOffset
  BY <1>1, <1>5, <1>6, <1>8 DEF LoopInv, Doing
<1>9. CASE ~(position + HeaderSize > EndOffset)
  <2>1. wpc' = "fill" /\ needed' = HeaderSize /\ after' = "decode" /\ position' + HeaderSize <= EndOffset
    BY <1>1, <1>2, <1>3, <1>9
  <2>2. position' + needed' = Goal(bytes', after', position', search_offset')
    BY <2>1 DEF Goal
  <2> QED  BY <1>1, <1>4, <1>5, <1>6, <1>7, <2>1, <2>2 DEF LoopInv, Doing
<1> QED  BY <1>8, <1>9

\* What the buffer is filled for is not further than a record behind what is kept.
LEMMA GoalNear ==
    ASSUME Place, LoopInv, wpc = "fill"
    PROVE  /\ Goal(bytes, after, position, search_offset) \in Nat
           /\ Goal(bytes, after, position, search_offset) - buffer_start <= Kept + HeaderSize + MaxPayload
           /\ after \in {"decode", "visit"} => Goal(bytes, after, position, search_offset) <= EndOffset
<1> DEFINE g == Goal(bytes, after, position, search_offset)
<1>1. /\ M \in Nat /\ M >= 1 /\ HeaderSize = M + 1 /\ EndOffset \in Nat /\ MaxPayload \in Nat
      /\ Kept \in Nat /\ buffer_start \in Nat
  BY Measures
<1>2. /\ position \in 0 .. EndOffset /\ search_offset \in Nat /\ after \in {"decode", "visit", "scan"}
      /\ after \in {"decode", "visit"} => position - buffer_start <= Kept /\ position + HeaderSize <= EndOffset
      /\ after = "visit" => RecordAt(bytes, position)
      /\ after = "scan" => search_offset - buffer_start <= Kept
  BY DEF LoopInv, Doing
<1>3. CASE after = "decode"
  <2>1. g = position + HeaderSize
    BY <1>3 DEF Goal
  <2> QED  BY <1>1, <1>2, <1>3, <2>1
<1>4. CASE after = "visit"
  <2> DEFINE len == bytes[position + M]
  <2>1. g = position + HeaderSize + len
    BY <1>4 DEF Goal, RecordEnd, M
  <2>2. len \in PayloadLens /\ RecordEnd(bytes, position) <= EndOffset
    BY <1>2, <1>4 DEF RecordAt, M
  <2>3. len \in Nat /\ len <= MaxPayload /\ g <= EndOffset
    <3>1. g = RecordEnd(bytes, position)
      BY <1>4 DEF Goal
    <3> HIDE DEF len, g
    <3> QED  BY <2>2, <3>1, Sizes
  <2> HIDE DEF len, g
  <2>4. g \in Nat /\ g - buffer_start <= Kept + HeaderSize + MaxPayload
    BY <1>1, <1>2, <1>4, <2>1, <2>3
  <2> QED  BY <2>3, <2>4 DEF g
<1>5. CASE after = "scan"
  <2>1. g = search_offset + M
    BY <1>5 DEF Goal
  <2> QED  BY <1>1, <1>2, <1>5, <2>1
<1> QED  BY <1>2, <1>3, <1>4, <1>5

\* A chunk is read, or the loop goes on.
LEMMA FillLoop ==
    ASSUME Place, LoopInv, Fill
    PROVE  Place' /\ LoopInv'
<1> DEFINE g == Goal(bytes, after, position, search_offset)
           k == Min({chunk, EndOffset - BufferEnd})
<1>1. /\ wpc = "fill" /\ UNCHANGED <<bytes, chunk, allow_resync, position, search_offset, stopped>>
      /\ UNCHANGED <<input, buffer_start, needed, after>>
      /\ IF BufferEnd - position >= needed THEN wpc' = after /\ UNCHANGED buffer
         ELSE IF BufferEnd >= EndOffset THEN wpc' = "done" /\ UNCHANGED buffer
         ELSE buffer' = buffer \o Slice(BufferEnd, BufferEnd + k) /\ UNCHANGED wpc
  BY DEF Fill, input
<1> HIDE DEF k
<1>2. /\ position \in 0 .. EndOffset /\ search_offset \in Nat /\ needed \in Nat /\ stopped = FALSE
      /\ after \in {"decode", "visit", "scan"} /\ position + needed = g
      /\ after \in {"decode", "visit"} => position \in buffer_start .. BufferEnd
      /\ after \in {"decode", "visit"} => position - buffer_start <= Kept /\ position + HeaderSize <= EndOffset
      /\ after = "visit" => RecordAt(bytes, position)
      /\ after = "scan" => /\ allow_resync /\ search_offset \in buffer_start .. BufferEnd
                           /\ Searched(bytes, position, search_offset)
                           /\ search_offset - buffer_start <= Kept
  BY <1>1 DEF LoopInv, Doing
<1>3. /\ HeaderSize \in Nat /\ EndOffset \in Nat /\ Kept \in Nat /\ chunk \in Nat \ {0} /\ MaxPayload \in Nat
      /\ buffer_start \in Nat /\ BufferEnd \in 0 .. EndOffset
  BY Measures
<1>4. g \in Nat /\ g - buffer_start <= Kept + HeaderSize + MaxPayload
  BY <1>1, GoalNear
<1>5. Kept' = Kept /\ g' = g /\ Goal(bytes', after', position', search_offset') = g
  BY <1>1 DEF Kept
<1> HIDE DEF g
<1>6. CASE BufferEnd - position >= needed
  <2>1. Place' /\ BufferEnd' = BufferEnd /\ wpc' = after
    BY <1>1, <1>6, StayPlace
  <2>2. Goal(bytes', wpc', position', search_offset') <= BufferEnd'
    BY <1>1, <1>2, <1>3, <1>4, <1>5, <1>6, <2>1
  <2> QED  BY <1>1, <1>2, <1>5, <2>1, <2>2 DEF LoopInv, Doing
<1>7. CASE ~(BufferEnd - position >= needed) /\ BufferEnd >= EndOffset
  <2>1. Place' /\ BufferEnd' = BufferEnd /\ wpc' = "done"
    BY <1>1, <1>7, StayPlace
  <2> QED  BY <1>1, <1>2, <2>1 DEF LoopInv, Doing
<1>8. CASE ~(BufferEnd - position >= needed) /\ ~(BufferEnd >= EndOffset)
  <2>1. buffer' = buffer \o Slice(BufferEnd, BufferEnd + k) /\ wpc' = wpc
    BY <1>1, <1>8
  <2>2. k \in Nat /\ k <= chunk /\ BufferEnd + k <= EndOffset
    <3> DEFINE S == {chunk, EndOffset - BufferEnd}
    <3>1. S \subseteq Nat /\ S # {} /\ chunk \in S /\ EndOffset - BufferEnd \in S
      BY <1>3, <1>8
    <3>2. Min(S) \in S /\ \A y \in S : Min(S) <= y
      <4> HIDE DEF S
      <4> QED  BY <3>1, MinIsLeast
    <3>3. k \in Nat /\ k <= chunk /\ k <= EndOffset - BufferEnd
      <4>1. k = Min(S)
        BY DEF k
      <4> HIDE DEF S
      <4> QED  BY <3>1, <3>2, <4>1
    <3> QED  BY <1>3, <3>3
  <2>3. BufferEnd - buffer_start < Kept + HeaderSize + MaxPayload
    BY <1>2, <1>3, <1>4, <1>8
  <2>4. Place' /\ BufferEnd' = BufferEnd + k
    BY <1>1, <2>1, <2>2, <2>3, ReadPlace
  <2>5. /\ after \in {"decode", "visit"} => position \in buffer_start .. BufferEnd + k
        /\ after = "scan" => search_offset \in buffer_start .. BufferEnd + k
    BY <1>2, <1>3, <2>2
  <2> QED  BY <1>1, <1>2, <1>5, <2>1, <2>4, <2>5 DEF LoopInv, Doing
<1> QED  BY <1>6, <1>7, <1>8

\* A header is decoded: a record follows, or the walk searches from the next byte.
LEMMA DecodeLoop ==
    ASSUME Place, LoopInv, Decode
    PROVE  /\ Place' /\ LoopInv' /\ (wpc' = "done" => ~RecordAt(bytes, position) /\ ~allow_resync)
           /\ UNCHANGED <<bytes, allow_resync, position, visited, stopped>>
<1> DEFINE s == From(position)
           fits == Decodes(s) /\ position + HeaderSize + s[HeaderSize] <= EndOffset
<1>1. /\ wpc = "decode" /\ UNCHANGED <<bytes, chunk, allow_resync, position, stopped, visited>>
      /\ UNCHANGED <<input, buffer, buffer_start>>
      /\ \/ /\ fits /\ wpc' = "fill" /\ needed' = HeaderSize + s[HeaderSize] /\ after' = "visit"
            /\ UNCHANGED search_offset
         \/ /\ ~fits /\ ~allow_resync
            /\ wpc' = "done" /\ UNCHANGED <<search_offset, needed, after>>
         \/ /\ ~fits /\ allow_resync
            /\ wpc' = "search" /\ search_offset' = position + 1 /\ UNCHANGED <<needed, after>>
  BY DEF Decode, input, Ensure
<1>2. /\ position \in 0 .. EndOffset /\ search_offset \in Nat /\ needed \in Nat /\ stopped = FALSE
      /\ position \in buffer_start .. BufferEnd /\ position - buffer_start <= Kept
      /\ position + HeaderSize <= EndOffset /\ position + HeaderSize <= BufferEnd
  BY <1>1 DEF LoopInv, Doing, Goal
<1>3. /\ M \in Nat /\ HeaderSize = M + 1 /\ EndOffset \in Nat /\ Kept \in Nat
      /\ buffer_start \in Nat /\ BufferEnd \in 0 .. EndOffset
  BY Measures
<1>4. s[HeaderSize] = bytes[position + M] /\ (fits <=> RecordAt(bytes, position))
  BY <1>2, DecodeIs
<1> HIDE DEF s, fits
<1>5. Place' /\ BufferEnd' = BufferEnd /\ Kept' = Kept
  BY <1>1, StayPlace
<1>6. CASE fits
  <2>1. /\ wpc' = "fill" /\ needed' = HeaderSize + s[HeaderSize] /\ after' = "visit" /\ search_offset' = search_offset
    BY <1>1, <1>6
  <2>2. RecordAt(bytes, position) /\ s[HeaderSize] \in Nat
    <3>1. RecordAt(bytes, position)
      BY <1>4, <1>6
    <3> QED  BY <1>4, <3>1, Sizes DEF RecordAt, M
  <2>3. RecordEnd(bytes, position) = position + HeaderSize + s[HeaderSize]
    BY <1>4 DEF RecordEnd, M
  <2>4. Goal(bytes', after', position', search_offset') = RecordEnd(bytes, position)
    BY <1>1, <2>1 DEF Goal
  <2>5. position' + needed' = Goal(bytes', after', position', search_offset') /\ needed' \in Nat
    BY <1>1, <1>2, <1>3, <2>1, <2>2, <2>3, <2>4
  <2> QED  BY <1>1, <1>2, <1>5, <2>1, <2>2, <2>5 DEF LoopInv, Doing
<1>7. CASE ~fits /\ ~allow_resync
  BY <1>1, <1>2, <1>4, <1>5, <1>7 DEF LoopInv, Doing
<1>8. CASE ~fits /\ allow_resync
  <2>1. wpc' = "search" /\ search_offset' = position + 1 /\ needed' = needed
    BY <1>1, <1>8
  <2>2. Searched(bytes, position, position + 1)
    <3>1. position + 1 .. (position + 1) - 1 = {} /\ position < position + 1
      BY <1>2
    <3> QED  BY <1>2, <1>4, <1>8, <3>1 DEF Searched
  <2>3. position + 1 \in buffer_start .. BufferEnd /\ position + 1 \in Nat
    <3>1. M >= 1
      BY Sizes
    <3> QED  BY <1>2, <1>3, <3>1
  <2> QED  BY <1>1, <1>2, <1>5, <1>8, <2>1, <2>2, <2>3 DEF LoopInv, Doing
<1> QED  BY <1>1, <1>6, <1>7, <1>8

\* The search drops what it has scanned, but for the bytes that may begin a magic.
LEMMA SearchLoop ==
    ASSUME Place, LoopInv, Search
    PROVE  Place' /\ LoopInv' /\ wpc' # "done" /\ UNCHANGED <<bytes, allow_resync, position, visited, stopped>>
<1>1. /\ wpc = "search" /\ UNCHANGED <<bytes, chunk, allow_resync, position, search_offset, stopped, visited>>
      /\ UNCHANGED input
      /\ IF Scanned(search_offset) THEN Drain(search_offset - buffer_start - (Len(Magic) - 1))
         ELSE UNCHANGED <<buffer, buffer_start>>
      /\ wpc' = "fill" /\ needed' = search_offset - position + M /\ after' = "scan"
  BY DEF Search, input, Ensure, M
<1>2. /\ position \in 0 .. EndOffset /\ search_offset \in Nat /\ stopped = FALSE
      /\ allow_resync /\ search_offset \in buffer_start .. BufferEnd
      /\ Searched(bytes, position, search_offset) /\ position < search_offset
  BY <1>1 DEF LoopInv, Doing, Searched
<1>3. /\ M \in Nat /\ M >= 1 /\ EndOffset \in Nat /\ Kept \in Nat /\ M - 1 <= Kept
      /\ buffer_start \in Nat /\ Len(buffer) \in Nat /\ BufferEnd = buffer_start + Len(buffer)
  BY Measures
<1>4. Kept' = Kept
  BY <1>1 DEF Kept
<1>5. /\ Place' /\ BufferEnd' = BufferEnd /\ search_offset - buffer_start' <= Kept
      /\ buffer_start' \in Nat /\ buffer_start' <= search_offset
  <2>1. CASE Scanned(search_offset)
    <3> DEFINE n == search_offset - buffer_start - (M - 1)
    <3>1. search_offset - buffer_start > Kept
      BY <2>1 DEF Scanned, Kept
    <3>2. n \in 0 .. Len(buffer)
      BY <1>2, <1>3, <3>1
    <3>3. Drain(n)
      BY <1>1, <2>1 DEF M
    <3> HIDE DEF n
    <3>4. Place' /\ BufferEnd' = BufferEnd /\ buffer_start' = buffer_start + n
      BY <1>1, <3>2, <3>3, DrainPlace
    <3> QED  BY <1>2, <1>3, <3>2, <3>4 DEF n
  <2>2. CASE ~Scanned(search_offset)
    <3>1. UNCHANGED <<buffer, buffer_start>> /\ search_offset - buffer_start <= Kept
      BY <1>1, <1>2, <1>3, <2>2 DEF Scanned, Kept
    <3> QED  BY <1>1, <1>2, <1>3, <3>1, StayPlace
  <2> QED  BY <2>1, <2>2
<1>6. search_offset' \in buffer_start' .. BufferEnd'
  BY <1>1, <1>2, <1>3, <1>5
<1>7. needed' \in Nat /\ position' + needed' = Goal(bytes', after', position', search_offset')
  <2>1. Goal(bytes', after', position', search_offset') = search_offset + M
    BY <1>1 DEF Goal
  <2> QED  BY <1>1, <1>2, <1>3, <2>1
<1>8. LoopInv'
  BY <1>1, <1>2, <1>4, <1>5, <1>6, <1>7 DEF LoopInv, Doing
<1> QED  BY <1>1, <1>5, <1>8

\* The buffer is scanned for the magic.
LEMMA ScanLoop ==
    ASSUME Place, LoopInv, Scan
    PROVE  /\ Place' /\ LoopInv' /\ wpc' # "done"
           /\ UNCHANGED <<bytes, allow_resync, visited, stopped>>
           /\ position' = position \/ position' = Min(Later(bytes, allow_resync, position))
           /\ position' # position => Later(bytes, allow_resync, position) # {} /\ ~RecordAt(bytes, position)
<1> DEFINE s == From(search_offset)
           hits == {n \in 1 .. Len(s) - M + 1 : SubSeq(s, n, n + M - 1) = Magic}
           later == Later(bytes, allow_resync, position)
<1>1. /\ wpc = "scan" /\ UNCHANGED <<bytes, chunk, allow_resync, needed, stopped, visited>>
      /\ UNCHANGED <<input, buffer, buffer_start>>
      /\ \/ /\ hits # {} /\ position' = search_offset + Min(hits) - 1 /\ search_offset' = position'
            /\ wpc' = "top"
         \/ /\ hits = {} /\ search_offset' = NextSearch /\ wpc' = "search" /\ UNCHANGED position
  BY DEF Scan, input, M
<1>2. /\ position \in 0 .. EndOffset /\ search_offset \in Nat /\ needed \in Nat /\ stopped = FALSE
      /\ allow_resync /\ search_offset \in buffer_start .. BufferEnd
      /\ Searched(bytes, position, search_offset) /\ search_offset + M <= BufferEnd
  BY <1>1 DEF LoopInv, Doing, Goal
<1>3. /\ M \in Nat /\ M >= 1 /\ HeaderSize = M + 1 /\ EndOffset \in Nat
      /\ buffer_start \in Nat /\ BufferEnd \in 0 .. EndOffset
  BY Measures
<1>4. /\ position + HeaderSize <= EndOffset /\ ~RecordAt(bytes, position) /\ position < search_offset
      /\ \A q \in position + 1 .. search_offset - 1 : ~MagicAt(bytes, q)
  BY <1>2 DEF Searched
<1>5. Place' /\ BufferEnd' = BufferEnd /\ Kept' = Kept
  BY <1>1, StayPlace
<1>6. Len(s) = BufferEnd - search_offset
  BY <1>2, FromIs
<1>7. ASSUME NEW n \in 1 .. Len(s) - M + 1
      PROVE  n \in hits <=> MagicAt(bytes, search_offset + n - 1)
  <2>1. n \in Nat /\ n >= 1 /\ search_offset + n - 1 + M <= BufferEnd
    BY <1>2, <1>3, <1>6
  <2> QED  BY <1>2, <2>1, MagicInBuffer
<1>8. hits \subseteq Nat /\ hits \subseteq 1 .. Len(s) - M + 1
  BY <1>3, <1>6
<1> HIDE DEF s, hits
<1>9. CASE hits # {}
  <2> DEFINE h == Min(hits)
             p == search_offset + h - 1
  <2>1. h \in hits /\ \A y \in hits : h <= y
    BY <1>8, <1>9, MinIsLeast
  <2> HIDE DEF h
  <2>2. /\ h \in 1 .. Len(s) - M + 1 /\ p \in Nat /\ p >= search_offset /\ p + M <= BufferEnd
        /\ p \in position + 1 .. EndOffset
    BY <1>2, <1>3, <1>4, <1>6, <1>8, <2>1
  <2>3. MagicAt(bytes, p)
    BY <1>7, <2>1, <2>2
  <2>4. p \in later
    BY <1>2, <1>4, <2>2, <2>3 DEF Later
  <2>5. ASSUME NEW q \in later PROVE p <= q
    <3>1. q \in position + 1 .. EndOffset /\ MagicAt(bytes, q) /\ q >= search_offset
      BY <1>2, <1>3, <1>4 DEF Later
    <3>2. CASE q + M <= BufferEnd
      <4> DEFINE n == q - search_offset + 1
      <4>1. n \in 1 .. Len(s) - M + 1 /\ search_offset + n - 1 = q
        BY <1>2, <1>3, <1>6, <3>1, <3>2
      <4> HIDE DEF n
      <4>2. n \in hits
        BY <1>7, <3>1, <4>1
      <4> QED  BY <1>2, <2>1, <2>2, <4>1, <4>2
    <3>3. CASE ~(q + M <= BufferEnd)
      BY <1>2, <1>3, <2>2, <3>1, <3>3
    <3> QED  BY <3>2, <3>3
  <2>6. p = Min(later)
    <3>1. later \subseteq Nat /\ later # {}
      BY <1>2, <2>4 DEF Later
    <3>2. Min(later) \in later /\ \A y \in later : Min(later) <= y
      <4> HIDE DEF later, p
      <4> QED  BY <3>1, MinIsLeast
    <3> HIDE DEF later, p
    <3>3. Min(later) \in Nat /\ p <= Min(later) /\ Min(later) <= p
      BY <2>4, <2>5, <3>1, <3>2
    <3> HIDE DEF Min
    <3> QED  BY <2>2, <3>3
  <2>7. wpc' = "top" /\ position' = p /\ search_offset' = p
    BY <1>1, <1>9 DEF h
  <2>8. p \in buffer_start .. BufferEnd /\ p \in 0 .. EndOffset
    BY <1>2, <1>3, <2>2
  <2> HIDE DEF p, later
  <2>9. LoopInv'
    BY <1>1, <1>2, <1>5, <2>2, <2>7, <2>8 DEF LoopInv, Doing
  <2> QED  BY <1>1, <1>4, <1>5, <2>4, <2>6, <2>7, <2>9 DEF later
<1>10. CASE hits = {}
  <2> DEFINE q0 == BufferEnd - (M - 1)
  <2>1. wpc' = "search" /\ search_offset' = q0 /\ position' = position
    BY <1>1, <1>10 DEF NextSearch, M
  <2>2. q0 \in Nat /\ q0 \in buffer_start .. BufferEnd /\ position < q0
    BY <1>2, <1>3, <1>4
  <2>3. ASSUME NEW q \in position + 1 .. q0 - 1 PROVE ~MagicAt(bytes, q)
    <3>1. CASE q < search_offset
      <4>1. q \in position + 1 .. search_offset - 1
        BY <1>2, <3>1
      <4> QED  BY <1>4, <4>1
    <3>2. CASE q >= search_offset
      <4> DEFINE n == q - search_offset + 1
      <4>1. n \in 1 .. Len(s) - M + 1 /\ search_offset + n - 1 = q
        BY <1>2, <1>3, <1>6, <3>2
      <4> HIDE DEF n
      <4> QED  BY <1>7, <1>10, <4>1
    <3> QED  BY <1>2, <3>1, <3>2
  <2> HIDE DEF q0
  <2>4. Searched(bytes, position, q0)
    BY <1>4, <2>2, <2>3 DEF Searched
  <2>5. LoopInv'
    BY <1>1, <1>2, <1>5, <2>1, <2>2, <2>4 DEF LoopInv, Doing
  <2> QED  BY <1>1, <1>5, <2>1, <2>5
<1> QED  BY <1>9, <1>10

\* The payload in the buffer is the payload in the file.
LEMMA PayloadIs ==
    ASSUME Place, NEW p \in buffer_start .. BufferEnd, RecordAt(bytes, p), RecordEnd(bytes, p) <= BufferEnd
    PROVE  [at |-> p, valid |-> PayloadValid(SubSeq(From(p), HeaderSize + 1, HeaderSize + From(p)[HeaderSize]))]
             = Entry(bytes, p)
<1> DEFINE s == From(p)
           len == bytes[p + M]
           t == SubSeq(s, HeaderSize + 1, HeaderSize + len)
           e == RecordEnd(bytes, p)
<1>1. /\ M \in Nat /\ M >= 1 /\ HeaderSize = M + 1 /\ EndOffset \in Nat /\ BufferEnd \in 0 .. EndOffset
  BY Measures
<1>2. /\ p \in 0 .. EndOffset /\ s \in Seq(Alphabet) /\ Len(s) = BufferEnd - p
      /\ \A m \in 1 .. BufferEnd - p : s[m] = bytes[p + m - 1]
  BY FromIs
<1>3. len \in Nat /\ e = p + HeaderSize + len /\ e <= BufferEnd
  <2>1. len \in PayloadLens
    BY DEF RecordAt, M
  <2>2. len \in Nat
    <3> HIDE DEF len
    <3> QED  BY <2>1, Sizes
  <2> QED  BY <2>2 DEF RecordEnd, M
<1>4. s[HeaderSize] = len
  <2>1. p + HeaderSize <= BufferEnd
    <3> HIDE DEF len, e
    <3> QED  BY <1>1, <1>2, <1>3
  <2> QED  BY <2>1, DecodeIs
<1> HIDE DEF s, len, e
<1>5. /\ t \in Seq(Alphabet) /\ Len(t) = len /\ DOMAIN t = 1 .. len
      /\ \A n \in 1 .. len : t[n] = s[HeaderSize + n]
  <2>1. HeaderSize + len <= Len(s) /\ HeaderSize \in Nat /\ Len(s) \in Nat
    BY <1>1, <1>2, <1>3
  <2>2. t \in Seq(Alphabet) /\ Len(t) = len
    BY <1>2, <1>3, <2>1
  <2>3. ASSUME NEW n \in 1 .. len PROVE t[n] = s[HeaderSize + n]
    <3>1. (HeaderSize + 1) + n - 1 = HeaderSize + n
      BY <1>3, <2>1
    <3> QED  BY <1>2, <1>3, <2>1, <3>1
  <2> HIDE DEF t
  <2> QED  BY <2>2, <2>3
<1> HIDE DEF t
<1>6. ASSUME NEW n \in 1 .. len PROVE t[n] = bytes[p + HeaderSize + n - 1]
  <2>1. HeaderSize + n \in 1 .. BufferEnd - p /\ p + (HeaderSize + n) - 1 = p + HeaderSize + n - 1
    BY <1>1, <1>2, <1>3
  <2> QED  BY <1>2, <1>5, <2>1
<1>7. (\A n \in 1 .. len : t[n] = Other) <=> \A q \in p + HeaderSize .. e - 1 : bytes[q] = Other
  <2>1. ASSUME \A n \in 1 .. len : t[n] = Other, NEW q \in p + HeaderSize .. e - 1 PROVE bytes[q] = Other
    <3> DEFINE n == q - p - HeaderSize + 1
    <3>1. n \in 1 .. len /\ p + HeaderSize + n - 1 = q
      <4>1. p \in Nat /\ HeaderSize \in Nat /\ len \in Nat /\ q \in p + HeaderSize .. p + HeaderSize + len - 1
        BY <1>1, <1>2, <1>3
      <4> QED  BY <4>1
    <3> HIDE DEF n
    <3> QED  BY <1>6, <2>1, <3>1
  <2>2. ASSUME \A q \in p + HeaderSize .. e - 1 : bytes[q] = Other, NEW n \in 1 .. len PROVE t[n] = Other
    <3>1. p + HeaderSize + n - 1 \in p + HeaderSize .. e - 1
      BY <1>1, <1>2, <1>3
    <3> QED  BY <1>6, <2>2, <3>1
  <2> QED  BY <2>1, <2>2
<1>8. PayloadValid(t) = \A q \in p + HeaderSize .. e - 1 : bytes[q] = Other
  BY <1>5, <1>7 DEF PayloadValid
<1>9. PayloadValid(SubSeq(From(p), HeaderSize + 1, HeaderSize + From(p)[HeaderSize])) = PayloadValid(t)
  BY <1>4 DEF t, s
<1> QED  BY <1>8, <1>9 DEF Entry, e

\* A record is visited and the walk goes on behind it, or ends.
LEMMA VisitLoop ==
    ASSUME Place, LoopInv, Visit
    PROVE  /\ Place' /\ LoopInv'
           /\ RecordAt(bytes, position) /\ visited' = Append(visited, Entry(bytes, position))
           /\ position' = RecordEnd(bytes, position) /\ UNCHANGED <<bytes, allow_resync>>
           /\ (wpc' = "done" /\ stopped') \/ (wpc' = "top" /\ ~stopped')
<1> DEFINE s == From(position)
           size == HeaderSize + s[HeaderSize]
<1>1. /\ wpc = "visit" /\ UNCHANGED <<bytes, chunk, allow_resync, needed, search_offset>>
      /\ UNCHANGED <<input, buffer, buffer_start>>
      /\ position' = position + size
      /\ visited' = Append(visited, [at |-> position, valid |-> PayloadValid(SubSeq(s, HeaderSize + 1, size))])
      /\ (wpc' = "done" /\ stopped' = TRUE) \/ (wpc' = "top" /\ stopped' = FALSE)
  BY DEF Visit, input
<1>2. /\ position \in 0 .. EndOffset /\ search_offset \in Nat /\ needed \in Nat
      /\ position \in buffer_start .. BufferEnd
      /\ RecordAt(bytes, position) /\ RecordEnd(bytes, position) <= BufferEnd
  BY <1>1 DEF LoopInv, Doing, Goal
<1>3. /\ M \in Nat /\ HeaderSize = M + 1 /\ EndOffset \in Nat
      /\ buffer_start \in Nat /\ BufferEnd \in 0 .. EndOffset
  BY Measures
<1> DEFINE len == bytes[position + M]
<1>4. len \in Nat /\ RecordEnd(bytes, position) = position + HeaderSize + len
  <2>1. len \in PayloadLens
    BY <1>2 DEF RecordAt, M
  <2>2. len \in Nat
    <3> HIDE DEF len
    <3> QED  BY <2>1, Sizes
  <2> QED  BY <2>2 DEF RecordEnd, M
<1>5. s[HeaderSize] = len
  <2>1. position + HeaderSize <= BufferEnd
    <3> HIDE DEF len
    <3> QED  BY <1>2, <1>3, <1>4
  <2> QED  BY <1>2, <2>1, DecodeIs
<1>6. visited' = Append(visited, Entry(bytes, position))
  BY <1>1, <1>2, PayloadIs
<1> HIDE DEF s, len
<1>7. position' = RecordEnd(bytes, position)
  BY <1>1, <1>2, <1>3, <1>4, <1>5
<1>8. position' \in buffer_start .. BufferEnd /\ position' \in 0 .. EndOffset
  BY <1>2, <1>3, <1>4, <1>7
<1>9. Place' /\ BufferEnd' = BufferEnd /\ Kept' = Kept
  BY <1>1, StayPlace
<1>10. LoopInv'
  BY <1>1, <1>2, <1>8, <1>9 DEF LoopInv, Doing
<1> QED  BY <1>1, <1>2, <1>6, <1>7, <1>9, <1>10

-----------------------------------------------------------------------------
(* What is visited. *)

\* The walk has not visited a record and is where what is found is the same.
LEMMA VisitMoves ==
    ASSUME VisitInv, UNCHANGED <<bytes, allow_resync, visited, stopped>>, wpc # "done", wpc' # "done",
           position \in 0 .. EndOffset,
           position' = position \/ position' = Min(Later(bytes, allow_resync, position)),
           position' # position => Later(bytes, allow_resync, position) # {} /\ ~RecordAt(bytes, position)
    PROVE  VisitInv'
<1>1. ASSUME NEW f \in [0 .. EndOffset -> Seq(Entries)], FoundFrom(bytes, allow_resync, f)
      PROVE  visited \o f[position'] = f[0]
  <2>1. visited \o f[position] = f[0]
    BY <1>1 DEF VisitInv
  <2>2. f[position'] = f[position]
    BY <1>1 DEF FoundFrom
  <2> QED  BY <2>1, <2>2
<1>2. visited \in Seq(Entries)
  BY DEF VisitInv
<1> QED  BY <1>1, <1>2 DEF VisitInv

\* The walk ends where nothing is found.
LEMMA VisitEnds ==
    ASSUME VisitInv, UNCHANGED <<bytes, allow_resync, visited, stopped>>, wpc # "done", wpc' = "done",
           position \in 0 .. EndOffset, ~RecordAt(bytes, position),
           Later(bytes, allow_resync, position) = {}
    PROVE  VisitInv'
<1>1. ASSUME NEW f \in [0 .. EndOffset -> Seq(Entries)], FoundFrom(bytes, allow_resync, f)
      PROVE  \E w \in Seq(Entries) : visited \o w = f[0] /\ w = <<>>
  <2>1. visited \o f[position] = f[0]
    BY <1>1 DEF VisitInv
  <2>2. f[position] = <<>> /\ f[position] \in Seq(Entries)
    BY <1>1 DEF FoundFrom
  <2> QED  BY <2>1, <2>2
<1>2. visited \in Seq(Entries)
  BY DEF VisitInv
<1> QED  BY <1>1, <1>2 DEF VisitInv

\* An element between two sequences.
LEMMA Between ==
    ASSUME NEW A, NEW s \in Seq(A), NEW x \in A, NEW t \in Seq(A)
    PROVE  Append(s, x) \o t = s \o (<<x>> \o t)
<1> DEFINE a == Append(s, x) \o t
           b == s \o (<<x>> \o t)
<1>1. /\ a \in Seq(A) /\ b \in Seq(A) /\ Len(a) = Len(s) + 1 + Len(t) /\ Len(b) = Len(s) + 1 + Len(t)
  OBVIOUS
<1>2. \A n \in 1 .. Len(s) + 1 + Len(t) : a[n] = b[n]
  OBVIOUS
<1> QED  BY <1>1, <1>2

\* The record that is visited is the next one that is found.
LEMMA VisitTakes ==
    ASSUME VisitInv, UNCHANGED <<bytes, allow_resync>>, wpc # "done", position \in 0 .. EndOffset,
           RecordAt(bytes, position), visited' = Append(visited, Entry(bytes, position)),
           position' = RecordEnd(bytes, position), position' \in 0 .. EndOffset,
           (wpc' = "done" /\ stopped') \/ (wpc' = "top" /\ ~stopped')
    PROVE  VisitInv'
<1> DEFINE x == Entry(bytes, position)
<1>1. x \in Entries
  BY DEF Entry, Entries
<1>2. visited \in Seq(Entries)
  BY DEF VisitInv
<1>3. visited' \in Seq(Entries)
  <2> HIDE DEF x
  <2>1. visited' = Append(visited, x)
    BY DEF x
  <2> QED  BY <1>1, <1>2, <2>1
<1>4. ASSUME NEW f \in [0 .. EndOffset -> Seq(Entries)], FoundFrom(bytes, allow_resync, f)
      PROVE  visited' \o f[position'] = f[0] /\ f[position'] \in Seq(Entries)
  <2>1. visited \o f[position] = f[0]
    BY <1>4 DEF VisitInv
  <2>2. f[position] = <<x>> \o f[position']
    BY <1>4 DEF FoundFrom
  <2>3. f[position'] \in Seq(Entries)
    BY <1>4
  <2> HIDE DEF x
  <2>4. Append(visited, x) \o f[position'] = visited \o (<<x>> \o f[position'])
    BY <1>1, <1>2, <2>3, Between
  <2>5. visited' = Append(visited, x)
    BY DEF x
  <2> QED  BY <2>1, <2>2, <2>3, <2>4, <2>5
<1> QED  BY <1>3, <1>4 DEF VisitInv

\* Every step keeps the invariant.
LEMMA WalkStep ==
    ASSUME WalkInv, WalkNext
    PROVE  WalkInv'
<1>1. Place /\ LoopInv /\ VisitInv
  BY DEF WalkInv
<1>2. position \in 0 .. EndOffset /\ EndOffset \in Nat /\ M \in Nat /\ M >= 1 /\ HeaderSize = M + 1
      /\ BufferEnd \in 0 .. EndOffset
  BY <1>1, Measures DEF LoopInv
<1>3. CASE Top
  <2>1. Place' /\ LoopInv'
    BY <1>1, <1>3, TopLoop
  <2>2. /\ wpc = "top" /\ UNCHANGED <<bytes, allow_resync, position, visited, stopped>>
        /\ wpc' = "fill" \/ (wpc' = "done" /\ position + HeaderSize > EndOffset)
    BY <1>3 DEF Top, Ensure, input
  <2>3. CASE wpc' = "done"
    <3>1. ~(position + HeaderSize <= EndOffset)
      BY <1>2, <2>2, <2>3
    <3>2. ~RecordAt(bytes, position) /\ Later(bytes, allow_resync, position) = {}
      BY <3>1 DEF RecordAt, Later
    <3> QED  BY <1>1, <1>2, <2>1, <2>2, <2>3, <3>2, VisitEnds DEF WalkInv
  <2>4. CASE wpc' # "done"
    BY <1>1, <1>2, <2>1, <2>2, <2>4, VisitMoves DEF WalkInv
  <2> QED  BY <2>3, <2>4
<1>4. CASE Fill
  <2>1. Place' /\ LoopInv'
    BY <1>1, <1>4, FillLoop
  <2>2. /\ wpc = "fill" /\ UNCHANGED <<bytes, allow_resync, position, visited, stopped>>
        /\ \/ wpc' = after
           \/ wpc' = "done" /\ ~(BufferEnd - position >= needed) /\ BufferEnd >= EndOffset
           \/ wpc' = wpc
    BY <1>4 DEF Fill, input
  <2>3. CASE wpc' = "done"
    <3> DEFINE g == Goal(bytes, after, position, search_offset)
    <3>1. /\ after \in {"decode", "visit", "scan"} /\ position + needed = g /\ needed \in Nat /\ search_offset \in Nat
          /\ after = "scan" => Searched(bytes, position, search_offset)
      BY <1>1, <2>2 DEF LoopInv, Doing
    <3>2. g \in Nat /\ (after \in {"decode", "visit"} => g <= EndOffset)
      BY <1>1, <2>2, GoalNear
    <3>3. ~(BufferEnd - position >= needed) /\ BufferEnd >= EndOffset
      BY <2>2, <2>3, <3>1
    <3>4. g > EndOffset
      <4> HIDE DEF g
      <4> QED  BY <1>2, <3>1, <3>2, <3>3
    <3>5. after = "scan"
      <4> HIDE DEF g
      <4> QED  BY <1>2, <3>1, <3>2, <3>4
    <3>6. search_offset + M > EndOffset
      BY <3>4, <3>5 DEF Goal
    <3>7. /\ ~RecordAt(bytes, position) /\ position < search_offset
          /\ \A q \in position + 1 .. search_offset - 1 : ~MagicAt(bytes, q)
      BY <3>1, <3>5 DEF Searched
    <3>8. ASSUME NEW q \in position + 1 .. EndOffset, MagicAt(bytes, q) PROVE FALSE
      <4>1. q + M <= EndOffset
        BY <3>8 DEF MagicAt, M
      <4>2. q \in position + 1 .. search_offset - 1
        BY <1>2, <3>1, <3>6, <4>1
      <4> QED  BY <3>7, <3>8, <4>2
    <3>9. Later(bytes, allow_resync, position) = {}
      BY <3>8 DEF Later
    <3> QED  BY <1>1, <1>2, <2>1, <2>2, <2>3, <3>7, <3>9, VisitEnds DEF WalkInv
  <2>4. CASE wpc' # "done"
    BY <1>1, <1>2, <2>1, <2>2, <2>4, VisitMoves DEF WalkInv
  <2> QED  BY <2>3, <2>4
<1>5. CASE Decode
  <2>1. /\ Place' /\ LoopInv' /\ (wpc' = "done" => ~RecordAt(bytes, position) /\ ~allow_resync)
        /\ UNCHANGED <<bytes, allow_resync, position, visited, stopped>> /\ wpc # "done"
    BY <1>1, <1>5, DecodeLoop DEF Decode
  <2>2. CASE wpc' = "done"
    <3>1. Later(bytes, allow_resync, position) = {}
      BY <2>1, <2>2 DEF Later
    <3> QED  BY <1>1, <1>2, <2>1, <2>2, <3>1, VisitEnds DEF WalkInv
  <2>3. CASE wpc' # "done"
    BY <1>1, <1>2, <2>1, <2>3, VisitMoves DEF WalkInv
  <2> QED  BY <2>2, <2>3
<1>6. CASE Search
  <2>1. /\ Place' /\ LoopInv' /\ wpc' # "done" /\ wpc # "done"
        /\ UNCHANGED <<bytes, allow_resync, position, visited, stopped>>
    BY <1>1, <1>6, SearchLoop DEF Search
  <2> QED  BY <1>1, <1>2, <2>1, VisitMoves DEF WalkInv
<1>7. CASE Scan
  <2>1. /\ Place' /\ LoopInv' /\ wpc' # "done" /\ wpc # "done"
        /\ UNCHANGED <<bytes, allow_resync, visited, stopped>>
        /\ position' = position \/ position' = Min(Later(bytes, allow_resync, position))
        /\ position' # position => Later(bytes, allow_resync, position) # {} /\ ~RecordAt(bytes, position)
    BY <1>1, <1>7, ScanLoop DEF Scan
  <2> QED  BY <1>1, <1>2, <2>1, VisitMoves DEF WalkInv
<1>8. CASE Visit
  <2>1. /\ Place' /\ LoopInv' /\ wpc # "done"
        /\ RecordAt(bytes, position) /\ visited' = Append(visited, Entry(bytes, position))
        /\ position' = RecordEnd(bytes, position) /\ UNCHANGED <<bytes, allow_resync>>
        /\ (wpc' = "done" /\ stopped') \/ (wpc' = "top" /\ ~stopped')
    BY <1>1, <1>8, VisitLoop DEF Visit
  <2>2. position' \in 0 .. EndOffset
    BY <2>1 DEF LoopInv
  <2> QED  BY <1>1, <1>2, <2>1, <2>2, VisitTakes DEF WalkInv
<1> QED  BY <1>3, <1>4, <1>5, <1>6, <1>7, <1>8 DEF WalkNext

\* The invariant holds when the walk starts.
LEMMA WalkStarts ==
    ASSUME WalkInit
    PROVE  WalkInv
<1>1. /\ bytes \in [0 .. EndOffset - 1 -> Alphabet] /\ chunk \in Chunks /\ allow_resync \in BOOLEAN
      /\ wpc = "top" /\ buffer = <<>> /\ buffer_start = 0 /\ position = 0
      /\ search_offset = 0 /\ needed = 0 /\ visited = <<>> /\ stopped = FALSE
  BY DEF WalkInit
<1>2. /\ M \in Nat /\ HeaderSize = M + 1 /\ EndOffset \in Nat /\ MaxPayload \in Nat
      /\ chunk \in Nat \ {0} /\ Kept \in Nat
  BY <1>1, Sizes, KeptSize
<1>3. Len(buffer) = 0 /\ buffer \in Seq(Alphabet)
  BY <1>1
<1>4. Place
  BY <1>1, <1>2, <1>3 DEF Place
<1>5. BufferEnd = 0
  BY <1>1, <1>3 DEF BufferEnd
<1>6. LoopInv
  <2>1. position \in 0 .. EndOffset /\ position \in buffer_start .. BufferEnd
    BY <1>1, <1>2, <1>5
  <2>2. search_offset \in Nat /\ needed \in Nat /\ Doing = "top"
    BY <1>1 DEF Doing
  <2> QED  BY <1>1, <2>1, <2>2 DEF LoopInv
<1>7. ASSUME NEW f \in [0 .. EndOffset -> Seq(Entries)] PROVE visited \o f[position] = f[0]
  <2>1. f[0] \in Seq(Entries)
    BY <1>2
  <2> QED  BY <1>1, <2>1
<1>8. VisitInv
  BY <1>1, <1>7 DEF VisitInv
<1> QED  BY <1>4, <1>6, <1>8 DEF WalkInv

\* A step that changes nothing.
LEMMA WalkIdles ==
    ASSUME WalkInv, UNCHANGED walkVars
    PROVE  WalkInv'
<1>1. UNCHANGED <<bytes, chunk, allow_resync, wpc, buffer, buffer_start, position, search_offset,
                  needed, after, visited, stopped>>
  BY DEF walkVars, input
<1>2. Kept' = Kept /\ BufferEnd' = BufferEnd /\ Doing' = Doing
  BY <1>1 DEF Kept, BufferEnd, Doing
<1>3. Place'
  BY <1>1, <1>2 DEF WalkInv, Place
<1>4. LoopInv'
  BY <1>1, <1>2 DEF WalkInv, LoopInv
<1>5. VisitInv'
  BY <1>1 DEF WalkInv, VisitInv
<1> QED  BY <1>3, <1>4, <1>5 DEF WalkInv

\* The records of the whole stretch are what the equation of Found says.
LEMMA FoundIs ==
    ASSUME bytes \in [0 .. EndOffset - 1 -> Alphabet]
    PROVE  \E f \in [0 .. EndOffset -> Seq(Entries)] : FoundFrom(bytes, allow_resync, f) /\ Found = f[0]
<1> DEFINE D == 0 .. EndOffset
           L(p) == Later(bytes, allow_resync, p)
           go == {p \in D : RecordAt(bytes, p) \/ L(p) # {}}
           next == [p \in go |-> IF RecordAt(bytes, p) THEN RecordEnd(bytes, p) ELSE Min(L(p))]
           step == [p \in go |-> [v \in Seq(Entries) |->
                       IF RecordAt(bytes, p) THEN <<Entry(bytes, p)>> \o v ELSE v]]
           end == [p \in D |-> <<>>]
           Eq(f) == f = [p \in D |-> IF RecordAt(bytes, p) THEN <<Entry(bytes, p)>> \o f[RecordEnd(bytes, p)]
                                     ELSE IF L(p) # {} THEN f[Min(L(p))] ELSE <<>>]
           from == CHOOSE f : Eq(f)
<1>1. M \in Nat /\ HeaderSize = M + 1 /\ EndOffset \in Nat
  BY Sizes
<1>2. ASSUME NEW p \in D, RecordAt(bytes, p)
      PROVE  RecordEnd(bytes, p) \in D /\ p < RecordEnd(bytes, p)
  <2> DEFINE len == bytes[p + M]
  <2>1. len \in PayloadLens /\ RecordEnd(bytes, p) <= EndOffset /\ RecordEnd(bytes, p) = p + HeaderSize + len
    BY <1>2 DEF RecordAt, RecordEnd, M
  <2> HIDE DEF len
  <2>2. len \in Nat
    BY <2>1, Sizes
  <2> QED  BY <1>1, <2>1, <2>2
<1>3. ASSUME NEW p \in D, L(p) # {}
      PROVE  Min(L(p)) \in D /\ p < Min(L(p))
  <2>1. L(p) \subseteq p + 1 .. EndOffset
    BY DEF Later
  <2>2. L(p) \subseteq Nat
    BY <1>1, <2>1
  <2>3. Min(L(p)) \in L(p)
    <3> HIDE DEF L
    <3> QED  BY <1>3, <2>2, MinIsLeast
  <2>4. Min(L(p)) \in p + 1 .. EndOffset
    <3> HIDE DEF L
    <3> QED  BY <2>1, <2>3
  <2> HIDE DEF L
  <2> QED  BY <1>1, <2>4
<1>4. \A p \in D : Entry(bytes, p) \in Entries
  BY <1>1 DEF Entry, Entries
<1> HIDE DEF L
<1>5. next \in [go -> D] /\ \A p \in go : p < next[p]
  BY <1>2, <1>3
<1>6. step \in [go -> [Seq(Entries) -> Seq(Entries)]]
  <2> SUFFICES ASSUME NEW p \in go, NEW v \in Seq(Entries), RecordAt(bytes, p)
               PROVE  <<Entry(bytes, p)>> \o v \in Seq(Entries)
    OBVIOUS
  <2>1. Entry(bytes, p) \in Entries
    BY <1>4
  <2> QED  BY <2>1
<1>7. end \in [D -> Seq(Entries)] /\ go \in SUBSET D
  OBVIOUS
<1>8. PICK g \in [D -> Seq(Entries)] : IsWalk(g, 0, EndOffset, go, next, step, end)
  <2> HIDE DEF go, next, step, end
  <2> QED  BY <1>1, <1>5, <1>6, <1>7, WalkExists
<1>9. ASSUME NEW p \in D
      PROVE  (IF p \in go THEN step[p][g[next[p]]] ELSE end[p])
               = IF RecordAt(bytes, p) THEN <<Entry(bytes, p)>> \o g[RecordEnd(bytes, p)]
                 ELSE IF L(p) # {} THEN g[Min(L(p))] ELSE <<>>
  <2>1. p \in go => g[next[p]] \in Seq(Entries)
    BY <1>5
  <2> QED  BY <2>1
<1>10. Eq(g)
  <2> HIDE DEF go, next, step, end
  <2> QED  BY <1>8, <1>9 DEF IsWalk
<1>11. Eq(from)
  <2>1. \E f : Eq(f)
    BY <1>10
  <2> HIDE DEF Eq
  <2> QED  BY <2>1
<1>12. Found = from[0]
  BY DEF Found, L
<1>13. ASSUME NEW p \in D
       PROVE  from[p] = IF RecordAt(bytes, p) THEN <<Entry(bytes, p)>> \o from[RecordEnd(bytes, p)]
                        ELSE IF L(p) # {} THEN from[Min(L(p))] ELSE <<>>
  <2> HIDE DEF from
  <2> QED  BY <1>11
<1>14. from = [p \in D |-> from[p]]
  <2> HIDE DEF from
  <2> QED  BY <1>11
<1> HIDE DEF from, Eq
<1> DEFINE S == {p \in D : from[p] \in Seq(Entries)}
<1>15. ASSUME NEW p \in 0 .. EndOffset, \A q \in p + 1 .. EndOffset : q \in S PROVE p \in S
  <2>1. CASE RecordAt(bytes, p)
    <3> DEFINE r == RecordEnd(bytes, p)
    <3>1. r \in p + 1 .. EndOffset
      BY <1>1, <1>2, <2>1
    <3>2. from[r] \in Seq(Entries) /\ Entry(bytes, p) \in Entries
      BY <1>4, <1>15, <3>1
    <3>3. from[p] = <<Entry(bytes, p)>> \o from[r]
      BY <1>13, <2>1
    <3>4. \A x \in Entries, v \in Seq(Entries) : <<x>> \o v \in Seq(Entries)
      OBVIOUS
    <3>5. from[p] \in Seq(Entries)
      BY <3>2, <3>3, <3>4, Zenon
    <3> QED  BY <3>5
  <2>2. CASE ~RecordAt(bytes, p) /\ L(p) # {}
    <3> DEFINE r == Min(L(p))
    <3>1. r \in p + 1 .. EndOffset
      BY <1>1, <1>3, <2>2
    <3>2. from[r] \in Seq(Entries) /\ from[p] = from[r]
      BY <1>13, <1>15, <2>2, <3>1
    <3> QED  BY <3>2
  <2>3. CASE ~RecordAt(bytes, p) /\ L(p) = {}
    <3>1. from[p] = <<>>
      BY <1>13, <2>3
    <3>2. <<>> \in Seq(Entries)
      OBVIOUS
    <3> QED  BY <3>1, <3>2
  <2> QED  BY <2>1, <2>2, <2>3
<1>16. \A p \in 0 .. EndOffset : p \in S
  <2> HIDE DEF S
  <2> QED  BY <1>1, <1>15, WalkInduction
<1>17. from \in [0 .. EndOffset -> Seq(Entries)]
  BY <1>14, <1>16
<1>18. FoundFrom(bytes, allow_resync, from)
  BY <1>13 DEF FoundFrom, L
<1> QED  BY <1>12, <1>17, <1>18

-----------------------------------------------------------------------------
(* Theorems. *)

\* WalkInv is an invariant of the walk: the buffer is a window of the file that is long
\* enough for the next part of the loop and no longer than it may be, and what was visited
\* and what is found from here on are together what is found from the start.
THEOREM WalkInvariance == WalkSpec => []WalkInv
<1>1. WalkInit => WalkInv
  BY WalkStarts
<1>2. WalkInv /\ [WalkNext]_walkVars => WalkInv'
  BY WalkStep, WalkIdles
<1> QED  BY <1>1, <1>2, PTL DEF WalkSpec

\* walk indexes its buffer in range and never subtracts a larger offset from a smaller one,
\* whatever the chunk size (src/src/recovery.rs:44).
THEOREM BufferStaysInPlace == WalkSpec => []BufferInPlace
<1>1. WalkInv => BufferInPlace
  <2> SUFFICES ASSUME WalkInv PROVE BufferInPlace
    OBVIOUS
  <2>1. Place /\ LoopInv
    BY DEF WalkInv
  <2>2. /\ buffer \in Seq(Alphabet) /\ buffer_start \in Nat
        /\ \A n \in 1 .. Len(buffer) : buffer[n] = bytes[buffer_start + n - 1]
    BY <2>1 DEF Place
  <2>3. Len(buffer) \in Nat /\ BufferEnd = buffer_start + Len(buffer) /\ BufferEnd <= EndOffset
    BY <2>1, <2>2 DEF Place, BufferEnd
  <2>4. buffer = Slice(buffer_start, BufferEnd)
    <3>1. BufferEnd - buffer_start = Len(buffer)
      BY <2>2, <2>3
    <3>2. buffer = [n \in 1 .. Len(buffer) |-> buffer[n]]
      BY <2>2
    <3>3. buffer = [n \in 1 .. Len(buffer) |-> bytes[buffer_start + n - 1]]
      BY <2>2, <3>2
    <3> QED  BY <3>1, <3>3 DEF Slice
  <2>5. /\ wpc \in {"top", "decode", "visit"} => position \in buffer_start .. BufferEnd
        /\ wpc \in {"search", "scan"} => search_offset \in buffer_start .. BufferEnd
    BY <2>1 DEF LoopInv, Doing
  <2> QED  BY <2>3, <2>4, <2>5 DEF BufferInPlace
<1> QED  BY <1>1, WalkInvariance, PTL

\* The memory of a walk is bounded by the chunks that are kept, one more chunk and the
\* largest record, however long the stretch is ("discard scanned bytes to bound recovery
\* memory", src/src/recovery.rs).
THEOREM BufferStaysBounded == WalkSpec => []BufferBounded
<1>1. WalkInv => BufferBounded
  <2> SUFFICES ASSUME WalkInv PROVE BufferBounded
    OBVIOUS
  <2>1. Len(buffer) < Kept + chunk + HeaderSize + MaxPayload /\ chunk \in Chunks
    BY DEF WalkInv, Place
  <2>2. chunk \in Nat /\ DrainFactor \in Nat
    BY <2>1, WalkAssumption
  <2>3. (DrainFactor + 1) * chunk = Kept + chunk
    BY <2>2 DEF Kept
  <2> QED  BY <2>1, <2>3 DEF BufferBounded
<1> QED  BY <1>1, WalkInvariance, PTL

\* A walk visits exactly the records that are there, in order, unless its visitor ends it:
\* where chunks end, what was drained and where a search began never shows.
THEOREM WalkVisits == WalkSpec => []VisitsWhatIsThere
<1>1. WalkInv => VisitsWhatIsThere
  <2> SUFFICES ASSUME WalkInv PROVE VisitsWhatIsThere
    OBVIOUS
  <2>1. bytes \in [0 .. EndOffset - 1 -> Alphabet] /\ position \in 0 .. EndOffset
    BY DEF WalkInv, Place, LoopInv
  <2>2. PICK f \in [0 .. EndOffset -> Seq(Entries)] : FoundFrom(bytes, allow_resync, f) /\ Found = f[0]
    BY <2>1, FoundIs
  <2>3. visited \in Seq(Entries)
    BY DEF WalkInv, VisitInv
  <2>4. PICK w \in Seq(Entries) : visited \o w = Found /\ (wpc = "done" /\ ~stopped => w = <<>>)
    BY <2>1, <2>2 DEF WalkInv, VisitInv
  <2>5. IsPrefix(visited, visited \o w)
    BY <2>3 DEF IsPrefix
  <2>6. w = <<>> => visited \o w = visited
    BY <2>3
  <2> QED  BY <2>4, <2>5, <2>6 DEF VisitsWhatIsThere
<1> QED  BY <1>1, WalkInvariance, PTL

-----------------------------------------------------------------------------
(* read_batch.  A batch is read in the order of the pages and cut out of   *)
(* the buffers; the proof follows the groups page by page and item by      *)
(* item.                                                                   *)

\* R orders the elements of S.
Orders(R, S) ==
    /\ \A x \in S : <<x, x>> \notin R
    /\ \A x, y, z \in S : (<<x, y>> \in R /\ <<y, z>> \in R) => <<x, z>> \in R
    /\ \A x, y \in S : x # y => (<<x, y>> \in R \/ <<y, x>> \in R)

\* f lists elements of S in the order of R.
Lists(f, S, R) ==
    /\ f \in [1 .. Cardinality(S) -> S]
    /\ \A i, j \in 1 .. Cardinality(S) : i < j => <<f[i], f[j]>> \in R

\* A finite set can be sorted: an element's place is the number of elements before it.
LEMMA CanBeSorted ==
    ASSUME NEW S, IsFiniteSet(S), NEW R, Orders(R, S)
    PROVE  \E f : Lists(f, S, R)
<1> DEFINE n == Cardinality(S)
           Below(x) == {y \in S : <<y, x>> \in R}
           rank == [x \in S |-> Cardinality(Below(x)) + 1]
<1>1. n \in Nat
  BY FS_CardinalityType
<1>2. ASSUME NEW x \in S
      PROVE  IsFiniteSet(Below(x)) /\ Cardinality(Below(x)) \in Nat /\ Cardinality(Below(x)) < n
  <2>1. Below(x) \in SUBSET S /\ x \notin Below(x)
    BY DEF Orders
  <2> HIDE DEF Below
  <2>2. /\ IsFiniteSet(Below(x)) /\ Cardinality(Below(x)) <= n
        /\ Cardinality(Below(x)) # n
    BY <2>1, FS_Subset
  <2>3. Cardinality(Below(x)) \in Nat
    BY <2>2, FS_CardinalityType
  <2> QED  BY <1>1, <2>2, <2>3
<1>3. ASSUME NEW x \in S, NEW y \in S, <<x, y>> \in R PROVE rank[x] < rank[y]
  <2>1. Below(x) \in SUBSET Below(y) /\ x \in Below(y) /\ x \notin Below(x)
    BY <1>3 DEF Orders
  <2> HIDE DEF Below
  <2>2. Cardinality(Below(x)) <= Cardinality(Below(y)) /\ Cardinality(Below(x)) # Cardinality(Below(y))
    BY <1>2, <2>1, FS_Subset
  <2> QED  BY <1>2, <2>2
<1>4. rank \in [S -> 1 .. n]
  <2> HIDE DEF Below
  <2> QED  BY <1>1, <1>2
<1>5. ASSUME NEW x \in S, NEW y \in S, x # y PROVE rank[x] # rank[y]
  <2>1. <<x, y>> \in R \/ <<y, x>> \in R
    BY <1>5 DEF Orders
  <2>2. rank[x] \in Int /\ rank[y] \in Int
    <3> HIDE DEF rank
    <3> QED  BY <1>4
  <2> HIDE DEF rank
  <2> QED  BY <1>3, <2>1, <2>2
<1> HIDE DEF rank
<1>6. rank \in Surjection(S, 1 .. n)
  <2>1. rank \in Injection(S, 1 .. n)
    BY <1>4, <1>5, Zenon DEF Injection, IsInjective
  <2>2. IsFiniteSet(1 .. n) /\ Cardinality(1 .. n) = n
    <3>1. IsFiniteSet(1 .. n) /\ Cardinality(1 .. n) = IF 1 > n THEN 0 ELSE n - 1 + 1
      BY <1>1, FS_Interval
    <3> QED  BY <1>1, <3>1
  <2> QED  BY <2>1, <2>2, FS_Injection
<1> DEFINE f == [i \in 1 .. n |-> CHOOSE x \in S : rank[x] = i]
<1>7. ASSUME NEW i \in 1 .. n PROVE f[i] \in S /\ rank[f[i]] = i
  <2>1. \E x \in S : rank[x] = i
    BY <1>6, Zenon DEF Surjection
  <2> QED  BY <2>1
<1>8. f \in [1 .. n -> S]
  BY <1>7
<1>9. ASSUME NEW i \in 1 .. n, NEW j \in 1 .. n, i < j PROVE <<f[i], f[j]>> \in R
  <2> HIDE DEF f
  <2>1. f[i] # f[j]
    BY <1>7, <1>9
  <2>2. ~(<<f[j], f[i]>> \in R)
    <3>1. SUFFICES ASSUME <<f[j], f[i]>> \in R PROVE FALSE
      OBVIOUS
    <3>2. rank[f[j]] < rank[f[i]]
      BY <1>3, <1>7, <3>1
    <3> QED  BY <1>7, <1>9, <3>2
  <2> QED  BY <1>7, <2>1, <2>2 DEF Orders
<1> HIDE DEF f
<1> QED  BY <1>8, <1>9 DEF Lists

\* What is sorted lists every element.
LEMMA ListsAll ==
    ASSUME NEW S, IsFiniteSet(S), NEW R, Orders(R, S), NEW f, Lists(f, S, R), NEW x \in S
    PROVE  \E i \in 1 .. Cardinality(S) : f[i] = x
<1> DEFINE n == Cardinality(S)
<1>1. n \in Nat
  BY FS_CardinalityType
<1>2. f \in [1 .. n -> S]
  BY DEF Lists
<1>3. ASSUME NEW i \in 1 .. n, NEW j \in 1 .. n, i # j PROVE f[i] # f[j]
  <2>1. <<f[i], f[j]>> \in R \/ <<f[j], f[i]>> \in R
    <3>1. i < j \/ j < i
      BY <1>1, <1>3
    <3> QED  BY <3>1 DEF Lists
  <2> QED  BY <1>2, <2>1 DEF Orders
<1>4. f \in Injection(1 .. n, S)
  BY <1>2, <1>3, Zenon DEF Injection, IsInjective
<1>5. Cardinality(1 .. n) = n
  <2>1. Cardinality(1 .. n) = IF 1 > n THEN 0 ELSE n - 1 + 1
    BY <1>1, FS_Interval
  <2> QED  BY <1>1, <2>1
<1>6. f \in Surjection(1 .. n, S)
  BY <1>4, <1>5, FS_Injection
<1> QED  BY <1>6, Zenon DEF Surjection

-----------------------------------------------------------------------------
(* The device. *)

\* Whatever segment a byte of the buffer comes from, it is the byte of the request.
LEMMA BufferBytes ==
    ASSUME NEW off \in Nat, NEW len \in Nat, NEW k \in 0 .. len - 1
    PROVE  Buffer(off, len)[k] = off + k
<1> DEFINE Has(s) == k >= s.ptr /\ k < s.ptr + s.len
           d == k - (k % SplitSize)
           seg == CHOOSE s \in Split(off, len) : Has(s)
<1>1. SplitSize \in Nat \ {0} /\ len \in Nat \ {0}
  BY ReadPlanAssumption
<1>2. d \in 0 .. len - 1 /\ d % SplitSize = 0 /\ d <= k /\ k < d + SplitSize
  <2>1. k % SplitSize \in 0 .. SplitSize - 1 /\ k = SplitSize * (k \div SplitSize) + (k % SplitSize)
    BY <1>1
  <2>2. d = SplitSize * (k \div SplitSize) /\ k \div SplitSize \in Nat /\ d \in Nat
    BY <1>1, <2>1
  <2>3. d % SplitSize = 0
    <3> DEFINE q == k \div SplitSize
    <3>1. d = SplitSize * q /\ q \in Nat
      BY <2>2
    <3> HIDE DEF d, q
    <3> QED  BY <1>1, <3>1, SMTT(30)
  <2> QED  BY <1>1, <2>1, <2>2, <2>3
<1> HIDE DEF d
<1>3. Min({SplitSize, len - d}) \in {SplitSize, len - d}
  <2>1. {SplitSize, len - d} \subseteq Nat
    BY <1>1, <1>2
  <2> QED  BY <2>1, MinIsLeast
<1>4. \E s \in Split(off, len) : Has(s)
  <2> DEFINE s == [off |-> off + d, ptr |-> d, len |-> Min({SplitSize, len - d})]
  <2>1. s \in Split(off, len)
    BY <1>2 DEF Split
  <2>2. Has(s)
    BY <1>1, <1>2, <1>3
  <2> QED  BY <2>1, <2>2
<1>5. seg \in Split(off, len) /\ Has(seg)
  <2> HIDE DEF Has
  <2> QED  BY <1>4
<1>6. PICK e \in 0 .. len - 1 : seg.off = off + e /\ seg.ptr = e
  <2> HIDE DEF seg
  <2>1. PICK e \in {x \in 0 .. len - 1 : x % SplitSize = 0} :
             seg = [off |-> off + e, ptr |-> e, len |-> Min({SplitSize, len - e})]
    BY <1>5, Zenon DEF Split
  <2> QED  BY <2>1
<1>7. Buffer(off, len)[k] = seg.off + (k - seg.ptr)
  BY Zenon DEF Buffer
<1> HIDE DEF seg
<1> QED  BY <1>6, <1>7

-----------------------------------------------------------------------------
(* read_slots. *)

\* The request of a slot's page is the first that ends behind the slot.
PageGroup == [start : Nat, end : Nat]

\* Groups of pages lie one behind the other.
Apart(gs) ==
    /\ \A g \in DOMAIN gs : gs[g].start < gs[g].end
    /\ \A g, h \in DOMAIN gs : g < h => gs[g].end <= gs[h].start

\* Some group holds the page.
HasPage(gs, p) == \E g \in DOMAIN gs : gs[g].start <= p /\ p + SLOTS_PER_PAGE <= gs[g].end

LEMMA SlotPageOf ==
    ASSUME NEW id \in Nat
    PROVE  /\ SlotPage(id) \in Nat /\ SlotPage(id) % SLOTS_PER_PAGE = 0
           /\ SlotPage(id) <= id /\ id < SlotPage(id) + SLOTS_PER_PAGE
<1> DEFINE n == SLOTS_PER_PAGE
           q == id \div n
           r == id % n
<1>1. n \in Nat \ {0}
  BY ReadPlanAssumption
<1>2. q \in Nat /\ r \in 0 .. n - 1 /\ id = n * q + r
  BY <1>1
<1>3. SlotPage(id) = n * q
  BY <1>1, <1>2 DEF SlotPage
<1> HIDE DEF n, q, r
<1>4. n * q \in Nat /\ (n * q) % n = 0
  BY <1>1, <1>2, SMTT(30)
<1>5. SlotPage(id) % n = 0
  BY <1>3, <1>4
<1>6. SlotPage(id) \in Nat /\ SlotPage(id) <= id /\ id < SlotPage(id) + n
  BY <1>1, <1>2, <1>3, <1>4
<1> QED  BY <1>5, <1>6 DEF n

\* Pages in ascending order do not overlap.
LEMMA NextPage ==
    ASSUME NEW p \in Nat, NEW q \in Nat, p % SLOTS_PER_PAGE = 0, q % SLOTS_PER_PAGE = 0, p < q
    PROVE  p + SLOTS_PER_PAGE <= q
<1> DEFINE n == SLOTS_PER_PAGE
           a == p \div n
           b == q \div n
<1>1. n \in Nat \ {0}
  BY ReadPlanAssumption
<1>2. a \in Nat /\ b \in Nat /\ p = n * a /\ q = n * b
  BY <1>1
<1> HIDE DEF n, a, b
<1>3. a < b
  BY <1>1, <1>2, SMTT(30)
<1>4. n * a + n <= n * b
  BY <1>1, <1>2, <1>3, SMTT(30)
<1>5. p + n <= q
  BY <1>2, <1>4
<1> QED  BY <1>5 DEF n

\* One page more.
LEMMA AddPageStep ==
    ASSUME NEW gs \in Seq(PageGroup), Apart(gs), NEW p \in Nat,
           gs # <<>> => Last(gs).end <= p
    PROVE  /\ AddPage(gs, p) \in Seq(PageGroup) /\ Apart(AddPage(gs, p))
           /\ AddPage(gs, p) # <<>> /\ Last(AddPage(gs, p)).end = p + SLOTS_PER_PAGE
           /\ HasPage(AddPage(gs, p), p)
           /\ \A q \in Nat : HasPage(gs, q) => HasPage(AddPage(gs, p), q)
<1> DEFINE n == SLOTS_PER_PAGE
           m == Len(gs)
           new == AddPage(gs, p)
<1>1. n \in Nat \ {0}
  BY ReadPlanAssumption
<1>2. CASE gs # <<>> /\ Last(gs).end = p
  <2> DEFINE l == [start |-> gs[m].start, end |-> gs[m].end + n]
  <2>1. m \in Nat \ {0} /\ Last(gs) = gs[m] /\ gs[m] \in PageGroup /\ gs[m].end = p
    BY <1>2 DEF Last
  <2>2. new = [gs EXCEPT ![m].end = @ + n]
    BY <1>2, Zenon DEF AddPage
  <2>3. [gs[m] EXCEPT !.end = @ + n] = l
    <3>1. gs[m] = [start |-> gs[m].start, end |-> gs[m].end]
      BY <2>1, Zenon DEF PageGroup
    <3> QED  BY <3>1
  <2>4. new = [gs EXCEPT ![m] = l]
    BY <2>1, <2>2, <2>3
  <2>5. l \in PageGroup
    BY <1>1, <2>1 DEF PageGroup
  <2> HIDE DEF l, new
  <2>6. /\ new \in Seq(PageGroup) /\ Len(new) = m /\ DOMAIN new = 1 .. m /\ new[m] = l
        /\ \A g \in 1 .. m - 1 : new[g] = gs[g]
    BY <2>1, <2>4, <2>5
  <2>7. l.start = gs[m].start /\ l.end = gs[m].end + n
    BY DEF l
  <2>8. \A g \in 1 .. m : gs[g].start \in Nat /\ gs[g].end \in Nat
    <3>1. \A g \in 1 .. m : gs[g] \in PageGroup
      OBVIOUS
    <3> QED  BY <3>1, Zenon DEF PageGroup
  <2>9. \A g \in 1 .. m : new[g].start = gs[g].start /\ new[g].end >= gs[g].end
    BY <1>1, <2>1, <2>6, <2>7, <2>8
  <2>10. \A g \in 1 .. m - 1 : new[g].end = gs[g].end
    BY <2>6
  <2>11. \A g \in 1 .. m : new[g].end \in Nat
    <3>1. \A g \in 1 .. m : new[g] \in PageGroup
      BY <2>6
    <3> QED  BY <3>1, Zenon DEF PageGroup
  <2>12. DOMAIN gs = 1 .. m
    OBVIOUS
  <2>13. Apart(new)
    <3>1. \A g \in DOMAIN new : new[g].start < new[g].end
      BY <2>6, <2>8, <2>9, <2>11, <2>12 DEF Apart
    <3>2. ASSUME NEW g \in 1 .. m, NEW h \in 1 .. m, g < h PROVE new[g].end <= new[h].start
      <4>1. g \in 1 .. m - 1
        BY <2>1, <3>2
      <4>2. gs[g].end <= gs[h].start
        BY <2>12, <3>2 DEF Apart
      <4> QED  BY <2>9, <2>10, <4>1, <4>2
    <3> QED  BY <2>6, <3>1, <3>2 DEF Apart
  <2>14. HasPage(new, p)
    <3>1. gs[m].start < gs[m].end
      BY <2>1, <2>12 DEF Apart
    <3>2. new[m].start <= p /\ p + n <= new[m].end
      BY <1>1, <2>1, <2>6, <2>7, <2>8, <3>1
    <3> QED  BY <2>1, <2>6, <3>2 DEF HasPage
  <2>15. ASSUME NEW q \in Nat, HasPage(gs, q) PROVE HasPage(new, q)
    <3>1. PICK g \in 1 .. m : gs[g].start <= q /\ q + n <= gs[g].end
      BY <2>12, <2>15 DEF HasPage
    <3>2. new[g].start <= q /\ q + n <= new[g].end
      BY <1>1, <2>8, <2>9, <2>11, <3>1
    <3> QED  BY <2>6, <3>2 DEF HasPage
  <2>16. new # <<>> /\ Last(new).end = p + n
    BY <2>1, <2>6, <2>7 DEF Last
  <2> QED  BY <2>6, <2>13, <2>14, <2>15, <2>16 DEF new
<1>3. CASE ~(gs # <<>> /\ Last(gs).end = p)
  <2> DEFINE l == [start |-> p, end |-> p + n]
  <2>1. new = Append(gs, l)
    BY <1>3, Zenon DEF AddPage
  <2>2. l \in PageGroup /\ l.start = p /\ l.end = p + n
    BY <1>1 DEF PageGroup
  <2> HIDE DEF l, new
  <2>3. /\ m \in Nat /\ new \in Seq(PageGroup) /\ Len(new) = m + 1 /\ new[m + 1] = l
        /\ \A g \in 1 .. m : new[g] = gs[g]
    BY <2>1, <2>2
  <2>4. DOMAIN new = 1 .. m + 1 /\ DOMAIN gs = 1 .. m
    BY <2>3
  <2>5. \A g \in 1 .. m : gs[g].start \in Nat /\ gs[g].end \in Nat /\ gs[g].start < gs[g].end
    <3>1. \A g \in 1 .. m : gs[g] \in PageGroup
      OBVIOUS
    <3> QED  BY <2>4, <3>1, Zenon DEF PageGroup, Apart
  <2>6. \A g \in 1 .. m : gs[g].end <= p
    <3>1. ASSUME NEW g \in 1 .. m PROVE gs[g].end <= p
      <4>1. gs[m].end <= p
        BY <3>1 DEF Last
      <4>2. g < m => gs[g].end <= gs[m].start
        BY <2>4 DEF Apart
      <4> QED  BY <2>3, <2>5, <4>1, <4>2
    <3> QED  BY <3>1
  <2>7. Apart(new)
    <3>1. \A g \in 1 .. m + 1 : new[g].start < new[g].end
      BY <1>1, <2>2, <2>3, <2>5
    <3>2. ASSUME NEW g \in 1 .. m + 1, NEW h \in 1 .. m + 1, g < h PROVE new[g].end <= new[h].start
      <4>1. g \in 1 .. m
        BY <2>3, <3>2
      <4>2. CASE h = m + 1
        BY <2>2, <2>3, <2>6, <4>1, <4>2
      <4>3. CASE h \in 1 .. m
        BY <2>3, <2>4, <3>2, <4>1, <4>3 DEF Apart
      <4> QED  BY <2>3, <4>2, <4>3
    <3> QED  BY <2>4, <3>1, <3>2 DEF Apart
  <2>8. HasPage(new, p)
    BY <1>1, <2>2, <2>3, <2>4 DEF HasPage
  <2>9. ASSUME NEW q \in Nat, HasPage(gs, q) PROVE HasPage(new, q)
    BY <2>3, <2>4, <2>9 DEF HasPage
  <2>10. new # <<>> /\ Last(new).end = p + n
    BY <2>2, <2>3 DEF Last
  <2> QED  BY <2>3, <2>7, <2>8, <2>9, <2>10 DEF new
<1> QED  BY <1>2, <1>3

\* A page keeps the groups groups, wherever it lies.
LEMMA AddPageType ==
    ASSUME NEW gs \in Seq(PageGroup), NEW p \in Nat
    PROVE  AddPage(gs, p) \in Seq(PageGroup)
<1> DEFINE n == SLOTS_PER_PAGE
           m == Len(gs)
<1>1. n \in Nat
  BY ReadPlanAssumption
<1>2. CASE gs # <<>> /\ Last(gs).end = p
  <2>1. m \in Nat \ {0} /\ gs[m] \in PageGroup
    BY <1>2
  <2>2. gs[m] = [start |-> gs[m].start, end |-> gs[m].end] /\ gs[m].start \in Nat /\ gs[m].end \in Nat
    BY <2>1, Zenon DEF PageGroup
  <2>3. [gs[m] EXCEPT !.end = @ + n] = [start |-> gs[m].start, end |-> gs[m].end + n]
    BY <2>2
  <2>4. [start |-> gs[m].start, end |-> gs[m].end + n] \in PageGroup
    BY <1>1, <2>2 DEF PageGroup
  <2>5. AddPage(gs, p) = [gs EXCEPT ![m].end = @ + n]
    BY <1>2, Zenon DEF AddPage
  <2> QED  BY <2>1, <2>3, <2>4, <2>5
<1>3. CASE ~(gs # <<>> /\ Last(gs).end = p)
  <2>1. [start |-> p, end |-> p + n] \in PageGroup
    BY <1>1 DEF PageGroup
  <2>2. AddPage(gs, p) = Append(gs, [start |-> p, end |-> p + n])
    BY <1>3, Zenon DEF AddPage
  <2> QED  BY <2>1, <2>2
<1> QED  BY <1>2, <1>3

\* h goes through the groups page by page.
PageStages(h, n, ps) ==
    /\ h \in [0 .. n -> Seq(PageGroup)] /\ h[0] = <<>>
    /\ \A k \in 1 .. n : h[k] = AddPage(h[k - 1], ps[k])

LEMMA PagesInStages ==
    ASSUME NEW n \in Nat, NEW ps \in [1 .. n -> Nat]
    PROVE  \E h : PageStages(h, n, ps) /\ FoldLeft(AddPage, <<>>, ps) = h[n]
<1> DEFINE V == Seq(PageGroup)
           step == [k \in 1 .. n |-> [v \in V |-> AddPage(v, ps[k])]]
           Eq(it) == it = [s \in SUBSET (1 .. n) |->
                              IF s = {} THEN <<>> ELSE AddPage(it[s \ {Max(s)}], ps[Max(s)])]
           it == CHOOSE it : Eq(it)
<1>1. DOMAIN ps = 1 .. n
  OBVIOUS
<1>2. FoldLeft(AddPage, <<>>, ps) = it[1 .. n]
  BY <1>1, Zenon DEF FoldLeft, MapThenFoldSet
<1>3. ASSUME NEW k \in 1 .. n, NEW v \in V PROVE AddPage(v, ps[k]) \in V
  <2>1. ps[k] \in Nat
    OBVIOUS
  <2> QED  BY <2>1, AddPageType
<1>4. step \in [1 .. n -> [V -> V]]
  BY <1>3
<1>5. \E g : Eq(g)
  <2>0. <<>> \in V
    OBVIOUS
  <2>1. PICK g \in [SUBSET (1 .. n) -> V] : IsFold(g, n, <<>>, step)
    <3> HIDE DEF step, V
    <3> QED  BY <1>4, <2>0, FoldExists
  <2>2. ASSUME NEW s \in SUBSET (1 .. n), s # {}
        PROVE  step[Max(s)][g[s \ {Max(s)}]] = AddPage(g[s \ {Max(s)}], ps[Max(s)])
    <3>0. s \subseteq 0 .. n
      OBVIOUS
    <3>1. Max(s) \in 1 .. n
      BY <2>2, <3>0, MaxIsGreatest
    <3>2. g[s \ {Max(s)}] \in V
      OBVIOUS
    <3> QED  BY <3>1, <3>2
  <2> HIDE DEF step, V
  <2>3. Eq(g)
    BY <2>1, <2>2 DEF IsFold
  <2> QED  BY <2>3
<1>6. Eq(it)
  <2> HIDE DEF Eq
  <2> QED  BY <1>5, Zenon
<1> HIDE DEF it
<1> DEFINE h == [k \in 0 .. n |-> it[1 .. k]]
<1>7. it[{}] = <<>> /\ 1 .. 0 = {}
  BY <1>6
<1>8. ASSUME NEW m \in 1 .. n PROVE it[1 .. m] = AddPage(it[1 .. m - 1], ps[m])
  <2>1. m \in Nat \ {0}
    OBVIOUS
  <2>2. Max(1 .. m) = m /\ (1 .. m) \ {m} = 1 .. m - 1
    BY <2>1, MaxOfPrefix
  <2>3. 1 .. m \in SUBSET (1 .. n) /\ 1 .. m # {}
    <3>1. 1 \in 1 .. m /\ \A j \in 1 .. m : j \in 1 .. n
      BY <2>1
    <3> QED  BY <3>1
  <2> QED  BY <1>6, <2>2, <2>3
<1> DEFINE S == {k \in Nat : k <= n => it[1 .. k] \in V}
<1>9. 0 \in S
  <2>1. <<>> \in V
    OBVIOUS
  <2> HIDE DEF V
  <2> QED  BY <1>7, <2>1
<1>10. ASSUME NEW k \in Nat, k \in S PROVE k + 1 \in S
  <2> SUFFICES ASSUME k + 1 <= n PROVE it[1 .. k + 1] \in V
    OBVIOUS
  <2>1. it[1 .. k] \in V /\ k + 1 \in 1 .. n /\ k + 1 - 1 = k
    BY <1>10
  <2>2. it[1 .. k + 1] = AddPage(it[1 .. k], ps[k + 1])
    BY <1>8, <2>1
  <2> HIDE DEF V
  <2> QED  BY <1>3, <2>1, <2>2
<1>11. \A k \in Nat : k \in S
  <2> HIDE DEF S
  <2> QED  BY <1>9, <1>10, SetInduction
<1>12. PageStages(h, n, ps)
  <2>1. h \in [0 .. n -> V]
    <3> HIDE DEF V
    <3> QED  BY <1>11
  <2>2. h[0] = <<>>
    BY <1>7
  <2>3. ASSUME NEW k \in 1 .. n PROVE h[k] = AddPage(h[k - 1], ps[k])
    BY <1>8
  <2> HIDE DEF h
  <2> QED  BY <2>1, <2>2, <2>3 DEF PageStages
<1>13. h[n] = it[1 .. n]
  OBVIOUS
<1> HIDE DEF h
<1> QED  BY <1>2, <1>12, <1>13

\* The groups of the pages of a batch.
LEMMA PagesGrouped ==
    ASSUME NEW n \in Nat, NEW ps \in [1 .. n -> Nat],
           \A k \in 1 .. n : ps[k] % SLOTS_PER_PAGE = 0,
           \A i, j \in 1 .. n : i < j => ps[i] < ps[j],
           NEW gs, gs = FoldLeft(AddPage, <<>>, ps)
    PROVE  /\ gs \in Seq(PageGroup) /\ Apart(gs)
           /\ \A k \in 1 .. n : HasPage(gs, ps[k])
<1>1. PICK h : PageStages(h, n, ps) /\ gs = h[n]
  BY PagesInStages
<1> DEFINE Good(k) == /\ Apart(h[k])
                      /\ h[k] # <<>> => k > 0 /\ Last(h[k]).end = ps[k] + SLOTS_PER_PAGE
                      /\ \A i \in 1 .. k : HasPage(h[k], ps[i])
           S == {k \in Nat : k <= n => Good(k)}
<1>2. 0 \in S
  <2>1. h[0] = <<>> /\ DOMAIN <<>> = {}
    BY <1>1 DEF PageStages
  <2>2. Apart(<<>>)
    BY <2>1 DEF Apart
  <2>3. \A i \in 1 .. 0 : FALSE
    OBVIOUS
  <2> QED  BY <2>1, <2>2, <2>3
<1>3. ASSUME NEW k \in Nat, k \in S PROVE k + 1 \in S
  <2> SUFFICES ASSUME k + 1 <= n PROVE Good(k + 1)
    OBVIOUS
  <2> DEFINE p == ps[k + 1]
  <2>1. Good(k) /\ k \in 0 .. n /\ k + 1 \in 1 .. n /\ k + 1 - 1 = k /\ p \in Nat
    BY <1>3
  <2>2. h[k] \in Seq(PageGroup) /\ h[k + 1] = AddPage(h[k], p)
    BY <1>1, <2>1 DEF PageStages
  <2>3. h[k] # <<>> => Last(h[k]).end <= p
    <3>1. SUFFICES ASSUME h[k] # <<>> PROVE Last(h[k]).end <= p
      OBVIOUS
    <3>2. k \in 1 .. n /\ Last(h[k]).end = ps[k] + SLOTS_PER_PAGE
      BY <2>1, <3>1
    <3>3. ps[k] \in Nat /\ ps[k] < p /\ ps[k] % SLOTS_PER_PAGE = 0 /\ p % SLOTS_PER_PAGE = 0
      BY <2>1, <3>2
    <3>4. ps[k] + SLOTS_PER_PAGE <= p
      BY <2>1, <3>3, NextPage
    <3> QED  BY <3>2, <3>4
  <2>4. Apart(h[k])
    BY <2>1
  <2> HIDE DEF p
  <2>5. /\ Apart(AddPage(h[k], p)) /\ Last(AddPage(h[k], p)).end = p + SLOTS_PER_PAGE
        /\ HasPage(AddPage(h[k], p), p)
        /\ \A q \in Nat : HasPage(h[k], q) => HasPage(AddPage(h[k], p), q)
    BY <2>1, <2>2, <2>3, <2>4, AddPageStep
  <2>6. ASSUME NEW i \in 1 .. k + 1 PROVE HasPage(h[k + 1], ps[i])
    <3>1. CASE i = k + 1
      BY <2>2, <2>5, <3>1 DEF p
    <3>2. CASE i # k + 1
      <4>1. i \in 1 .. k /\ ps[i] \in Nat
        BY <2>1, <3>2
      <4>2. HasPage(h[k], ps[i])
        BY <2>1, <4>1
      <4> QED  BY <2>2, <2>5, <4>1, <4>2
    <3> QED  BY <3>1, <3>2
  <2>7. k + 1 > 0
    OBVIOUS
  <2> QED  BY <2>2, <2>5, <2>6, <2>7 DEF p
<1>4. \A k \in Nat : k \in S
  <2> HIDE DEF S
  <2> QED  BY <1>2, <1>3, SetInduction
<1>5. Good(n)
  BY <1>4
<1>6. gs \in Seq(PageGroup)
  BY <1>1 DEF PageStages
<1> QED  BY <1>1, <1>5, <1>6

\* The numbers of a batch.
Batches == UNION {[1 .. n -> Numbers] : n \in 0 .. MaxBatch}

LEMMA BatchIs ==
    ASSUME NEW b \in Batches
    PROVE  \E n \in Nat : b \in [1 .. n -> Numbers] /\ DOMAIN b = 1 .. n
<1>1. PICK n \in 0 .. MaxBatch : b \in [1 .. n -> Numbers]
  BY DEF Batches
<1>2. n \in Nat
  BY <1>1, ReadPlanAssumption
<1> QED  BY <1>1, <1>2

\* The group partition_point finds is the one that holds the page.
LEMMA GroupFound ==
    ASSUME NEW gs \in Seq(PageGroup), Apart(gs), NEW id \in Nat, HasPage(gs, SlotPage(id))
    PROVE  LET g == gs[GroupOf(gs, id)]
           IN  g.start \in Nat /\ g.end \in Nat /\ g.start <= id /\ id < g.end
<1> DEFINE n == SLOTS_PER_PAGE
           m == Len(gs)
           B == {g \in DOMAIN gs : gs[g].end <= id}
<1>1. n \in Nat \ {0}
  BY ReadPlanAssumption
<1>2. m \in Nat /\ DOMAIN gs = 1 .. m
  OBVIOUS
<1>3. \A g \in 1 .. m : gs[g].start \in Nat /\ gs[g].end \in Nat /\ gs[g].start < gs[g].end
  <2>1. \A g \in 1 .. m : gs[g] \in PageGroup
    OBVIOUS
  <2> QED  BY <1>2, <2>1, Zenon DEF PageGroup, Apart
<1>4. PICK x \in 1 .. m : gs[x].start <= SlotPage(id) /\ SlotPage(id) + n <= gs[x].end
  BY <1>2, Zenon DEF HasPage
<1>5. gs[x].start <= id /\ id < gs[x].end
  <2>1. SlotPage(id) \in Nat /\ SlotPage(id) <= id /\ id < SlotPage(id) + n
    BY SlotPageOf
  <2> QED  BY <1>1, <1>3, <1>4, <2>1
<1>6. B = 1 .. x - 1
  <2>1. ASSUME NEW g \in 1 .. m, g < x PROVE gs[g].end <= id
    <3>1. gs[g].end <= gs[x].start
      BY <1>2, <2>1 DEF Apart
    <3> QED  BY <1>3, <1>5, <3>1
  <2>2. ASSUME NEW g \in 1 .. m, g >= x PROVE ~(gs[g].end <= id)
    <3>1. g # x => gs[x].end <= gs[g].start
      BY <1>2, <2>2 DEF Apart
    <3> QED  BY <1>3, <1>5, <3>1
  <2> QED  BY <1>2, <2>1, <2>2
<1>7. Cardinality(1 .. x - 1) = x - 1
  <2>1. Cardinality(1 .. x - 1) = IF 1 > x - 1 THEN 0 ELSE x - 1 - 1 + 1
    BY FS_Interval
  <2> QED  BY <2>1
<1>8. GroupOf(gs, id) = x
  <2>1. GroupOf(gs, id) = Cardinality(B) + 1
    BY Zenon DEF GroupOf
  <2> HIDE DEF B
  <2> QED  BY <1>6, <1>7, <2>1
<1> QED  BY <1>3, <1>5, <1>8

\* read_slots cuts the slot of each number out of its place.
LEMMA SlotRead ==
    ASSUME NEW m \in Nat, ids \in [1 .. m -> Numbers], NEW k \in 1 .. m
    PROVE  SlotFrom(PageGroups, ids[k]) = index[ids[k]]
<1> DEFINE P == {SlotPage(id) : id \in Range(ids)}
           R == {ss \in Nat \X Nat : ss[1] < ss[2]}
           n == Cardinality(P)
           ps == Sorted(P)
           id == ids[k]
<1>1. Numbers \subseteq Nat
  BY ReadPlanAssumption
<1>2. Range(ids) = {ids[i] : i \in 1 .. m} /\ Range(ids) \subseteq Nat
  BY <1>1 DEF Range
<1>3. P \subseteq Nat /\ \A p \in P : p % SLOTS_PER_PAGE = 0
  BY <1>2, SlotPageOf
<1>4. IsFiniteSet(P)
  <2> DEFINE f == [i \in 1 .. m |-> SlotPage(ids[i])]
  <2>1. f \in Surjection(1 .. m, P)
    BY <1>2 DEF Surjection
  <2>2. IsFiniteSet(1 .. m)
    BY FS_Interval
  <2> HIDE DEF f, P
  <2> QED  BY <2>1, <2>2, FS_Surjection
<1>5. Orders(R, P)
  <2>1. \A x, y \in P : <<x, y>> \in R <=> x < y
    BY <1>3
  <2> HIDE DEF R, P
  <2> QED  BY <1>3, <2>1 DEF Orders
<1>6. Lists(ps, P, R)
  <2> DEFINE Ok(f) == \A i, j \in 1 .. n : i < j => f[i] < f[j]
  <2>1. PICK f : Lists(f, P, R)
    <3> HIDE DEF P, R
    <3> QED  BY <1>4, <1>5, CanBeSorted
  <2>2. f \in [1 .. n -> P] /\ Ok(f)
    <3> HIDE DEF P
    <3> QED  BY <2>1 DEF Lists
  <2>3. ps = CHOOSE g \in [1 .. n -> P] : Ok(g)
    <3> HIDE DEF P
    <3> QED  BY Zenon DEF Sorted
  <2>4. ps \in [1 .. n -> P] /\ Ok(ps)
    <3> HIDE DEF Ok, ps, P
    <3> QED  BY <2>2, <2>3, Zenon
  <2>5. ASSUME NEW i \in 1 .. n, NEW j \in 1 .. n, i < j PROVE <<ps[i], ps[j]>> \in R
    <3>1. ps[i] \in P /\ ps[j] \in P /\ ps[i] < ps[j]
      <4> HIDE DEF P, ps
      <4> QED  BY <2>4, <2>5
    <3> HIDE DEF P, ps
    <3> QED  BY <1>3, <3>1
  <2> HIDE DEF P, ps, R
  <2> QED  BY <2>4, <2>5 DEF Lists
<1>7. n \in Nat
  BY <1>4, FS_CardinalityType
<1>8. ps \in [1 .. n -> Nat] /\ \A i \in 1 .. n : ps[i] % SLOTS_PER_PAGE = 0
  <2> HIDE DEF P, ps, R
  <2> QED  BY <1>3, <1>6 DEF Lists
<1>9. \A i, j \in 1 .. n : i < j => ps[i] < ps[j]
  <2>1. \A i, j \in 1 .. n : i < j => <<ps[i], ps[j]>> \in R
    <3> HIDE DEF P, ps, R
    <3> QED  BY <1>6 DEF Lists
  <2> HIDE DEF P, ps
  <2> QED  BY <2>1
<1> DEFINE gs == PageGroups
<1>10. gs = FoldLeft(AddPage, <<>>, ps)
  BY Zenon DEF PageGroups
<1>11. SlotPage(id) \in P /\ id \in Nat /\ id \in Numbers
  BY <1>1, <1>2
<1> HIDE DEF P, ps, R, gs
<1>12. /\ gs \in Seq(PageGroup) /\ Apart(gs)
       /\ \A i \in 1 .. n : HasPage(gs, ps[i])
  BY <1>7, <1>8, <1>9, <1>10, PagesGrouped
<1>13. PICK i \in 1 .. n : ps[i] = SlotPage(id)
  BY <1>4, <1>5, <1>6, <1>11, ListsAll
<1> DEFINE g == gs[GroupOf(gs, id)]
<1>14. HasPage(gs, SlotPage(id))
  BY <1>12, <1>13
<1> HIDE DEF id
<1>15. g.start \in Nat /\ g.end \in Nat /\ g.start <= id /\ id < g.end
  BY <1>11, <1>12, <1>14, GroupFound
<1>16. Buffer(g.start, g.end - g.start)[id - g.start] = id
  <2> DEFINE a == g.start
             b == g.end
  <2>0. a \in Nat /\ b \in Nat /\ a <= id /\ id < b
    BY <1>15, Zenon
  <2> HIDE DEF g, a, b
  <2>1. a \in Nat /\ b - a \in Nat /\ id - a \in 0 .. (b - a) - 1
    BY <1>11, <2>0
  <2>2. Buffer(a, b - a)[id - a] = a + (id - a)
    BY <2>1, BufferBytes
  <2>3. a + (id - a) = id
    BY <1>11, <2>1
  <2> QED  BY <2>2, <2>3, Zenon DEF a, b
<1>17. SlotFrom(gs, id) = index[id]
  BY <1>11, <1>16, Zenon DEF SlotFrom
<1> QED  BY <1>17 DEF gs, id

-----------------------------------------------------------------------------
(* read_many. *)

Located == [off : Nat, len : Nat \ {0}]
Piece(m) == [start : Nat, end : Nat, items : Seq(1 .. m)]

\* Every item of a group is whole in the group's buffer.
Whole(gs, ss) ==
    \A g \in DOMAIN gs : \A k \in DOMAIN gs[g].items :
        LET s == ss[gs[g].items[k]] IN gs[g].start <= s.off /\ s.off + s.len <= gs[g].end

HasItem(gs, n) == \E g \in DOMAIN gs : \E k \in DOMAIN gs[g].items : gs[g].items[k] = n

LEMMA PagesAround ==
    ASSUME NEW x \in Nat
    PROVE  /\ PageDown(x) \in Nat /\ PageDown(x) <= x
           /\ PageUp(x) \in Nat /\ x <= PageUp(x)
<1>1. PAGE \in Nat \ {0}
  BY PageAssumption
<1>2. \A y \in Nat : y % PAGE \in 0 .. PAGE - 1 /\ y % PAGE <= y
  <2>1. ASSUME NEW y \in Nat PROVE y % PAGE \in 0 .. PAGE - 1 /\ y % PAGE <= y
    <3>1. y % PAGE \in 0 .. PAGE - 1 /\ y = PAGE * (y \div PAGE) + (y % PAGE) /\ y \div PAGE \in Nat
      BY <1>1
    <3>2. PAGE * (y \div PAGE) \in Nat
      <4> DEFINE q == y \div PAGE
      <4>1. q \in Nat
        BY <3>1
      <4> HIDE DEF q
      <4>2. PAGE * q \in Nat
        BY <1>1, <4>1, SMTT(30)
      <4> QED  BY <4>2 DEF q
    <3> QED  BY <3>1, <3>2
  <2> QED  BY <2>1
<1>3. x + PAGE - 1 \in Nat
  BY <1>1
<1>4. (x + PAGE - 1) % PAGE \in 0 .. PAGE - 1 /\ (x + PAGE - 1) % PAGE <= x + PAGE - 1
  BY <1>2, <1>3
<1>5. x % PAGE \in 0 .. PAGE - 1 /\ x % PAGE <= x
  BY <1>2
<1> QED  BY <1>1, <1>3, <1>4, <1>5 DEF PageDown, PageUp

\* One item more.
LEMMA JoinStep ==
    ASSUME NEW m \in Nat, slots \in [1 .. m -> Located], NEW gs \in Seq(Piece(m)), NEW n \in 1 .. m
    PROVE  /\ Join(gs, n) \in Seq(Piece(m))
           /\ (Whole(gs, slots) /\ (gs # <<>> => Last(gs).start <= slots[n].off)) =>
                  /\ Whole(Join(gs, n), slots)
                  /\ Join(gs, n) # <<>> /\ Last(Join(gs, n)).start <= slots[n].off
                  /\ HasItem(Join(gs, n), n)
                  /\ \A x : HasItem(gs, x) => HasItem(Join(gs, n), x)
<1> DEFINE from == PageDown(slots[n].off)
           to == PageUp(slots[n].off + slots[n].len)
           new == Join(gs, n)
           q == Len(gs)
<1>1. slots[n] \in Located
  OBVIOUS
<1>2. slots[n].off \in Nat /\ slots[n].len \in Nat
  BY <1>1, Zenon DEF Located
<1>3. slots[n].off + slots[n].len \in Nat
  BY <1>2
<1>4. from \in Nat /\ from <= slots[n].off /\ to \in Nat /\ slots[n].off + slots[n].len <= to
  BY <1>2, <1>3, PagesAround
<1>5. q \in Nat /\ DOMAIN gs = 1 .. q /\ \A g \in 1 .. q : gs[g] \in Piece(m)
  OBVIOUS
<1>6. \A p \in Piece(m) : p.start \in Nat /\ p.end \in Nat /\ p.items \in Seq(1 .. m)
  BY Zenon DEF Piece
<1>7. CASE gs # <<>> /\ from <= Last(gs).end
  <2> DEFINE o == gs[q]
             l == [start |-> o.start, end |-> Max({o.end, to}), items |-> Append(o.items, n)]
  <2>1. q \in 1 .. q /\ Last(gs) = o /\ o \in Piece(m)
    BY <1>5, <1>7 DEF Last
  <2>2. new = [gs EXCEPT ![q] = l]
    BY <1>7, Zenon DEF Join
  <2>3. o.start \in Nat /\ o.end \in Nat /\ o.items \in Seq(1 .. m)
    BY <1>6, <2>1
  <2>4. Max({o.end, to}) \in Nat /\ Max({o.end, to}) >= o.end /\ Max({o.end, to}) >= to
    <3> DEFINE e == o.end
               t == to
               b == e + t
    <3>1. e \in Nat /\ t \in Nat
      BY <1>4, <2>3
    <3> HIDE DEF e, t
    <3>2. b \in Nat /\ {e, t} \subseteq 0 .. b
      BY <3>1
    <3> HIDE DEF b
    <3>3. Max({e, t}) \in {e, t} /\ \A y \in {e, t} : y <= Max({e, t})
      BY <3>2, MaxIsGreatest
    <3>4. Max({e, t}) \in Nat /\ Max({e, t}) >= e /\ Max({e, t}) >= t
      BY <3>1, <3>3
    <3> QED  BY <3>4 DEF e, t
  <2>5. Append(o.items, n) \in Seq(1 .. m)
    BY <2>3
  <2>6. l \in Piece(m)
    BY <2>3, <2>4, <2>5 DEF Piece
  <2>7. l.start = o.start /\ l.end = Max({o.end, to}) /\ l.items = Append(o.items, n)
    OBVIOUS
  <2> HIDE DEF l, new, o, to, from
  <2>8. /\ new \in Seq(Piece(m)) /\ Len(new) = q /\ DOMAIN new = 1 .. q /\ new[q] = l
        /\ \A g \in 1 .. q - 1 : new[g] = gs[g]
    BY <2>1, <2>2, <2>6
  <2>9. /\ DOMAIN l.items = 1 .. Len(o.items) + 1 /\ l.items[Len(o.items) + 1] = n
        /\ Len(o.items) \in Nat /\ \A k \in 1 .. Len(o.items) : l.items[k] = o.items[k]
        /\ DOMAIN o.items = 1 .. Len(o.items)
    BY <2>3, <2>7
  <2>10. SUFFICES ASSUME Whole(gs, slots), Last(gs).start <= slots[n].off
                  PROVE  /\ Whole(new, slots) /\ new # <<>> /\ Last(new).start <= slots[n].off
                         /\ HasItem(new, n) /\ \A x : HasItem(gs, x) => HasItem(new, x)
    BY <1>7, <2>8, Zenon DEF new
  <2>11. new # <<>> /\ Last(new).start <= slots[n].off
    BY <2>1, <2>7, <2>8, <2>10 DEF Last
  <2>12. HasItem(new, n)
    <3>1. Len(o.items) + 1 \in DOMAIN l.items
      BY <2>9
    <3> QED  BY <2>1, <2>8, <2>9, <3>1, Zenon DEF HasItem
  <2>13. ASSUME NEW x, HasItem(gs, x) PROVE HasItem(new, x)
    <3>1. PICK g \in 1 .. q : \E k \in DOMAIN gs[g].items : gs[g].items[k] = x
      BY <1>5, <2>13, Zenon DEF HasItem
    <3>2. CASE g = q
      <4>1. PICK k \in DOMAIN o.items : o.items[k] = x
        BY <3>1, <3>2 DEF o
      <4>2. k \in DOMAIN l.items /\ l.items[k] = x
        BY <2>9, <4>1
      <4> QED  BY <2>1, <2>8, <4>2, Zenon DEF HasItem
    <3>3. CASE g # q
      <4>0. g \in 1 .. q - 1
        <5>1. q \in Nat
          BY <1>5
        <5> HIDE DEF q
        <5> QED  BY <3>3, <5>1
      <4>1. new[g] = gs[g] /\ g \in DOMAIN new
        BY <2>8, <4>0
      <4> QED  BY <3>1, <4>1, Zenon DEF HasItem
    <3> QED  BY <3>2, <3>3
  <2>14. ASSUME NEW g \in DOMAIN new, NEW k \in DOMAIN new[g].items
         PROVE  /\ new[g].start <= slots[new[g].items[k]].off
                /\ slots[new[g].items[k]].off + slots[new[g].items[k]].len <= new[g].end
    <3>1. CASE g # q
      <4>1. new[g] = gs[g] /\ g \in DOMAIN gs
        BY <1>5, <2>8, <3>1
      <4> QED  BY <2>10, <2>14, <4>1, Zenon DEF Whole
    <3>2. CASE g = q
      <4>1. new[g] = l /\ k \in 1 .. Len(o.items) + 1
        BY <2>8, <2>9, <2>14, <3>2
      <4>2. CASE k = Len(o.items) + 1
        <5>1. l.items[k] = n /\ l.start <= slots[n].off /\ slots[n].off + slots[n].len <= l.end
          BY <1>3, <1>4, <2>1, <2>4, <2>7, <2>9, <2>10, <4>2
        <5> QED  BY <4>1, <5>1
      <4>3. CASE k # Len(o.items) + 1
        <5> DEFINE y == o.items[k]
        <5>1. k \in DOMAIN o.items /\ l.items[k] = y /\ y \in 1 .. m
          <6>1. k \in 1 .. Len(o.items)
            BY <2>9, <4>1, <4>3
          <6>2. o.items[k] \in 1 .. m
            BY <2>3, <6>1
          <6> QED  BY <2>9, <6>1, <6>2
        <5>2. o.start <= slots[y].off /\ slots[y].off + slots[y].len <= o.end
          BY <1>5, <2>1, <2>10, <5>1, Zenon DEF Whole, o
        <5>3. slots[y] \in Located
          BY <5>1
        <5>4. slots[y].off \in Nat /\ slots[y].len \in Nat
          BY <5>3, Zenon DEF Located
        <5>5. slots[y].off + slots[y].len <= l.end
          <6> DEFINE e == Max({o.end, to})
          <6>1. e \in Nat /\ e >= o.end /\ l.end = e
            BY <2>4, <2>7
          <6> HIDE DEF e, y
          <6> QED  BY <2>3, <5>2, <5>4, <6>1
        <5> QED  BY <2>7, <4>1, <5>1, <5>2, <5>5
      <4> QED  BY <4>2, <4>3
    <3> QED  BY <3>1, <3>2
  <2> QED  BY <2>11, <2>12, <2>13, <2>14, Zenon DEF Whole
<1>8. CASE ~(gs # <<>> /\ from <= Last(gs).end)
  <2> DEFINE l == [start |-> from, end |-> to, items |-> <<n>>]
  <2>1. new = Append(gs, l)
    BY <1>8, Zenon DEF Join
  <2>2. <<n>> \in Seq(1 .. m)
    OBVIOUS
  <2>3. l \in Piece(m) /\ l.start = from /\ l.end = to /\ l.items = <<n>>
    BY <1>4, <2>2 DEF Piece
  <2> HIDE DEF l, new, to, from
  <2>4. /\ new \in Seq(Piece(m)) /\ Len(new) = q + 1 /\ DOMAIN new = 1 .. q + 1 /\ new[q + 1] = l
        /\ \A g \in 1 .. q : new[g] = gs[g]
    BY <1>5, <2>1, <2>3
  <2>5. DOMAIN l.items = {1} /\ l.items[1] = n
    BY <2>3
  <2>6. SUFFICES ASSUME Whole(gs, slots)
                 PROVE  /\ Whole(new, slots) /\ new # <<>> /\ Last(new).start <= slots[n].off
                        /\ HasItem(new, n) /\ \A x : HasItem(gs, x) => HasItem(new, x)
    BY <2>4, Zenon DEF new
  <2>7. new # <<>> /\ Last(new).start <= slots[n].off
    BY <1>4, <1>5, <2>3, <2>4 DEF Last
  <2>8. HasItem(new, n)
    <3>1. q + 1 \in DOMAIN new /\ 1 \in DOMAIN l.items
      BY <1>5, <2>4, <2>5
    <3> QED  BY <2>4, <2>5, <3>1, Zenon DEF HasItem
  <2>9. ASSUME NEW x, HasItem(gs, x) PROVE HasItem(new, x)
    <3>1. \A g \in 1 .. q : g \in DOMAIN new
      BY <1>5, <2>4
    <3> QED  BY <1>5, <2>4, <2>9, <3>1, Zenon DEF HasItem
  <2>10. ASSUME NEW g \in DOMAIN new, NEW k \in DOMAIN new[g].items
         PROVE  /\ new[g].start <= slots[new[g].items[k]].off
                /\ slots[new[g].items[k]].off + slots[new[g].items[k]].len <= new[g].end
    <3>1. CASE g # q + 1
      <4>1. new[g] = gs[g] /\ g \in DOMAIN gs
        BY <1>5, <2>4, <3>1
      <4> QED  BY <2>6, <2>10, <4>1, Zenon DEF Whole
    <3>2. CASE g = q + 1
      <4>1. new[g].items[k] = n
        BY <2>4, <2>5, <2>10, <3>2
      <4> QED  BY <1>4, <2>3, <2>4, <3>2, <4>1
    <3> QED  BY <3>1, <3>2
  <2> QED  BY <2>7, <2>8, <2>9, <2>10, Zenon DEF Whole
<1> QED  BY <1>7, <1>8

\* h goes through the groups item by item.
JoinStages(h, m, n, ord) ==
    /\ h \in [0 .. n -> Seq(Piece(m))] /\ h[0] = <<>>
    /\ \A k \in 1 .. n : h[k] = Join(h[k - 1], ord[k])

LEMMA ItemsInStages ==
    ASSUME NEW m \in Nat, slots \in [1 .. m -> Located], NEW n \in Nat, NEW ord \in [1 .. n -> 1 .. m]
    PROVE  \E h : JoinStages(h, m, n, ord) /\ FoldLeft(Join, <<>>, ord) = h[n]
<1> DEFINE V == Seq(Piece(m))
           step == [k \in 1 .. n |-> [v \in V |-> Join(v, ord[k])]]
           Eq(it) == it = [s \in SUBSET (1 .. n) |->
                              IF s = {} THEN <<>> ELSE Join(it[s \ {Max(s)}], ord[Max(s)])]
           it == CHOOSE it : Eq(it)
<1>1. DOMAIN ord = 1 .. n
  OBVIOUS
<1>2. FoldLeft(Join, <<>>, ord) = it[1 .. n]
  BY <1>1, Zenon DEF FoldLeft, MapThenFoldSet
<1>3. ASSUME NEW k \in 1 .. n, NEW v \in V PROVE Join(v, ord[k]) \in V
  <2>1. ord[k] \in 1 .. m
    OBVIOUS
  <2> QED  BY <2>1, JoinStep
<1>4. step \in [1 .. n -> [V -> V]]
  BY <1>3
<1>5. \E g : Eq(g)
  <2>0. <<>> \in V
    OBVIOUS
  <2>1. PICK g \in [SUBSET (1 .. n) -> V] : IsFold(g, n, <<>>, step)
    <3> HIDE DEF step, V
    <3> QED  BY <1>4, <2>0, FoldExists
  <2>2. ASSUME NEW s \in SUBSET (1 .. n), s # {}
        PROVE  step[Max(s)][g[s \ {Max(s)}]] = Join(g[s \ {Max(s)}], ord[Max(s)])
    <3>0. s \subseteq 0 .. n
      OBVIOUS
    <3>1. Max(s) \in 1 .. n
      BY <2>2, <3>0, MaxIsGreatest
    <3>2. g[s \ {Max(s)}] \in V
      OBVIOUS
    <3> QED  BY <3>1, <3>2
  <2> HIDE DEF step, V
  <2>3. Eq(g)
    BY <2>1, <2>2 DEF IsFold
  <2> QED  BY <2>3
<1>6. Eq(it)
  <2> HIDE DEF Eq
  <2> QED  BY <1>5, Zenon
<1> HIDE DEF it
<1> DEFINE h == [k \in 0 .. n |-> it[1 .. k]]
<1>7. it[{}] = <<>> /\ 1 .. 0 = {}
  BY <1>6
<1>8. ASSUME NEW i \in 1 .. n PROVE it[1 .. i] = Join(it[1 .. i - 1], ord[i])
  <2>1. i \in Nat \ {0}
    OBVIOUS
  <2>2. Max(1 .. i) = i /\ (1 .. i) \ {i} = 1 .. i - 1
    BY <2>1, MaxOfPrefix
  <2>3. 1 .. i \in SUBSET (1 .. n) /\ 1 .. i # {}
    <3>1. 1 \in 1 .. i /\ \A j \in 1 .. i : j \in 1 .. n
      BY <2>1
    <3> QED  BY <3>1
  <2> QED  BY <1>6, <2>2, <2>3
<1> DEFINE S == {k \in Nat : k <= n => it[1 .. k] \in V}
<1>9. 0 \in S
  <2>1. <<>> \in V
    OBVIOUS
  <2> HIDE DEF V
  <2> QED  BY <1>7, <2>1
<1>10. ASSUME NEW k \in Nat, k \in S PROVE k + 1 \in S
  <2> SUFFICES ASSUME k + 1 <= n PROVE it[1 .. k + 1] \in V
    OBVIOUS
  <2>1. it[1 .. k] \in V /\ k + 1 \in 1 .. n /\ k + 1 - 1 = k
    BY <1>10
  <2>2. it[1 .. k + 1] = Join(it[1 .. k], ord[k + 1])
    BY <1>8, <2>1
  <2> HIDE DEF V
  <2> QED  BY <1>3, <2>1, <2>2
<1>11. \A k \in Nat : k \in S
  <2> HIDE DEF S
  <2> QED  BY <1>9, <1>10, SetInduction
<1>12. JoinStages(h, m, n, ord)
  <2>1. h \in [0 .. n -> V]
    <3> HIDE DEF V
    <3> QED  BY <1>11
  <2>2. h[0] = <<>>
    BY <1>7
  <2>3. ASSUME NEW k \in 1 .. n PROVE h[k] = Join(h[k - 1], ord[k])
    BY <1>8
  <2> HIDE DEF h
  <2> QED  BY <2>1, <2>2, <2>3 DEF JoinStages
<1>13. h[n] = it[1 .. n]
  OBVIOUS
<1> HIDE DEF h
<1> QED  BY <1>2, <1>12, <1>13

\* The order is by offset.
LEMMA InOffsetOrder ==
    ASSUME NEW m \in Nat, slots \in [1 .. m -> Located]
    PROVE  /\ Order \in [1 .. m -> 1 .. m]
           /\ \A i, j \in 1 .. m : i < j => slots[Order[i]].off <= slots[Order[j]].off
           /\ \A x \in 1 .. m : \E i \in 1 .. m : Order[i] = x
<1> DEFINE P == 1 .. m
           R == {ss \in P \X P : ByOffset(ss[1], ss[2])}
<1>1. DOMAIN slots = P /\ IsFiniteSet(P) /\ Cardinality(P) = m
  <2>1. IsFiniteSet(1 .. m) /\ Cardinality(1 .. m) = IF 1 > m THEN 0 ELSE m - 1 + 1
    BY FS_Interval
  <2> QED  BY <2>1
<1>2. \A x \in P : slots[x].off \in Nat /\ x \in Nat
  <2>1. \A x \in P : slots[x] \in Located
    OBVIOUS
  <2>2. \A x \in P : x \in Nat
    OBVIOUS
  <2> QED  BY <2>1, <2>2, Zenon DEF Located
<1>3. \A x, y \in P : <<x, y>> \in R <=> ByOffset(x, y)
  <2> HIDE DEF P
  <2> QED  OBVIOUS
<1>4. Orders(R, P)
  <2> HIDE DEF R, P
  <2>1. \A x \in P : ~ByOffset(x, x)
    BY <1>2 DEF ByOffset
  <2>2. \A x, y, z \in P : (ByOffset(x, y) /\ ByOffset(y, z)) => ByOffset(x, z)
    BY <1>2 DEF ByOffset
  <2>3. \A x, y \in P : x # y => (ByOffset(x, y) \/ ByOffset(y, x))
    BY <1>2 DEF ByOffset
  <2> QED  BY <1>3, <2>1, <2>2, <2>3, Zenon DEF Orders
<1>5. Lists(Order, P, R)
  <2> DEFINE c == Cardinality(P)
             Ok(f) == \A i, j \in 1 .. c : i < j => ByOffset(f[i], f[j])
  <2>1. PICK f : Lists(f, P, R)
    <3> HIDE DEF P, R
    <3> QED  BY <1>1, <1>4, CanBeSorted
  <2>2. f \in [1 .. c -> P] /\ Ok(f)
    <3> HIDE DEF P, R
    <3>1. f \in [1 .. c -> P]
      BY <2>1 DEF Lists
    <3>2. ASSUME NEW i \in 1 .. c, NEW j \in 1 .. c, i < j PROVE ByOffset(f[i], f[j])
      <4>1. <<f[i], f[j]>> \in R /\ f[i] \in P /\ f[j] \in P
        BY <2>1, <3>1, <3>2 DEF Lists
      <4> QED  BY <1>3, <4>1
    <3> QED  BY <3>1, <3>2
  <2>3. Order = CHOOSE g \in [1 .. c -> P] : Ok(g)
    <3> HIDE DEF P
    <3> QED  BY <1>1, Zenon DEF Order
  <2>4. Order \in [1 .. c -> P] /\ Ok(Order)
    <3> HIDE DEF Ok, P
    <3> QED  BY <2>2, <2>3, Zenon
  <2>5. ASSUME NEW i \in 1 .. c, NEW j \in 1 .. c, i < j PROVE <<Order[i], Order[j]>> \in R
    <3> HIDE DEF P, R
    <3>1. Order[i] \in P /\ Order[j] \in P /\ ByOffset(Order[i], Order[j])
      BY <2>4, <2>5
    <3> QED  BY <1>3, <3>1
  <2> HIDE DEF P, R
  <2> QED  BY <2>4, <2>5 DEF Lists
<1>6. Order \in [1 .. m -> P]
  <2> HIDE DEF P, R
  <2> QED  BY <1>1, <1>5 DEF Lists
<1>7. ASSUME NEW i \in 1 .. m, NEW j \in 1 .. m, i < j
      PROVE  slots[Order[i]].off <= slots[Order[j]].off
  <2>1. <<Order[i], Order[j]>> \in R /\ Order[i] \in P /\ Order[j] \in P
    <3> HIDE DEF P, R
    <3> QED  BY <1>1, <1>5, <1>6, <1>7 DEF Lists
  <2>2. ByOffset(Order[i], Order[j])
    <3> HIDE DEF P, R
    <3> QED  BY <1>3, <2>1
  <2> QED  BY <1>2, <2>1, <2>2 DEF ByOffset
<1>8. ASSUME NEW x \in P PROVE \E i \in 1 .. m : Order[i] = x
  <2> HIDE DEF P, R
  <2>1. \E i \in 1 .. Cardinality(P) : Order[i] = x
    BY <1>1, <1>4, <1>5, <1>8, ListsAll
  <2> QED  BY <1>1, <2>1
<1> QED  BY <1>6, <1>7, <1>8

\* read_many's groups: every item is whole in the buffer of its group, and no item is lost.
LEMMA ItemsGrouped ==
    ASSUME NEW m \in Nat, slots \in [1 .. m -> Located],
           NEW gs, gs = FoldLeft(Join, <<>>, Order)
    PROVE  /\ gs \in Seq(Piece(m)) /\ Whole(gs, slots)
           /\ \A x \in 1 .. m : HasItem(gs, x)
<1> DEFINE ord == Order
<1>1. /\ ord \in [1 .. m -> 1 .. m]
      /\ \A i, j \in 1 .. m : i < j => slots[ord[i]].off <= slots[ord[j]].off
      /\ \A x \in 1 .. m : \E i \in 1 .. m : ord[i] = x
  BY InOffsetOrder
<1>2. gs = FoldLeft(Join, <<>>, ord)
  OBVIOUS
<1> HIDE DEF ord
<1>3. PICK h : JoinStages(h, m, m, ord) /\ gs = h[m]
  <2>1. \E h : JoinStages(h, m, m, ord) /\ FoldLeft(Join, <<>>, ord) = h[m]
    <3>1. ord \in [1 .. m -> 1 .. m]
      BY <1>1
    <3> QED  BY <3>1, ItemsInStages, Zenon
  <2> QED  BY <1>2, <2>1, Zenon
<1>4. \A x \in 1 .. m : slots[x].off \in Nat
  <2>1. \A x \in 1 .. m : slots[x] \in Located
    OBVIOUS
  <2> QED  BY <2>1, Zenon DEF Located
<1> DEFINE Good(k) == /\ Whole(h[k], slots)
                      /\ h[k] # <<>> => k > 0 /\ Last(h[k]).start <= slots[ord[k]].off
                      /\ \A i \in 1 .. k : HasItem(h[k], ord[i])
           S == {k \in Nat : k <= m => Good(k)}
<1>5. 0 \in S
  <2>1. h[0] = <<>> /\ DOMAIN <<>> = {}
    BY <1>3 DEF JoinStages
  <2>2. Whole(<<>>, slots)
    BY <2>1 DEF Whole
  <2>3. \A i \in 1 .. 0 : FALSE
    OBVIOUS
  <2> QED  BY <2>1, <2>2, <2>3
<1>6. ASSUME NEW k \in Nat, k \in S PROVE k + 1 \in S
  <2> SUFFICES ASSUME k + 1 <= m PROVE Good(k + 1)
    OBVIOUS
  <2> DEFINE n == ord[k + 1]
             a == h[k]
  <2>1. Good(k) /\ k \in 0 .. m /\ k + 1 \in 1 .. m /\ k + 1 - 1 = k
    BY <1>6
  <2>2. n \in 1 .. m
    BY <1>1, <2>1
  <2>3. a \in Seq(Piece(m)) /\ h[k + 1] = Join(a, n)
    BY <1>3, <2>1 DEF JoinStages
  <2>4. a # <<>> => Last(a).start <= slots[n].off
    <3>1. SUFFICES ASSUME a # <<>> PROVE Last(a).start <= slots[n].off
      OBVIOUS
    <3>2. k \in 1 .. m /\ Last(a).start <= slots[ord[k]].off
      BY <2>1, <3>1
    <3>3. slots[ord[k]].off <= slots[n].off
      <4>1. k < k + 1
        OBVIOUS
      <4> QED  BY <1>1, <2>1, <3>2, <4>1, Zenon
    <3>4. slots[ord[k]].off \in Nat /\ slots[n].off \in Nat /\ Last(a).start \in Nat
      <4>1. Last(a) \in Piece(m)
        BY <2>3, <3>1 DEF Last
      <4>2. Last(a).start \in Nat
        BY <4>1, Zenon DEF Piece
      <4> QED  BY <1>1, <1>4, <2>2, <3>2, <4>2
    <3> HIDE DEF a, n
    <3> QED  BY <3>2, <3>3, <3>4
  <2>5. Whole(a, slots)
    BY <2>1
  <2> HIDE DEF a, n
  <2>6. /\ Whole(Join(a, n), slots)
        /\ Last(Join(a, n)).start <= slots[n].off
        /\ HasItem(Join(a, n), n)
        /\ \A x : HasItem(a, x) => HasItem(Join(a, n), x)
    BY <2>2, <2>3, <2>4, <2>5, JoinStep
  <2>7. ASSUME NEW i \in 1 .. k + 1 PROVE HasItem(h[k + 1], ord[i])
    <3>1. CASE i = k + 1
      BY <2>3, <2>6, <3>1 DEF n
    <3>2. CASE i # k + 1
      <4>1. i \in 1 .. k
        BY <3>2
      <4>2. HasItem(a, ord[i])
        BY <2>1, <4>1 DEF a
      <4> QED  BY <2>3, <2>6, <4>2
    <3> QED  BY <3>1, <3>2
  <2>8. k + 1 > 0
    OBVIOUS
  <2> QED  BY <2>3, <2>6, <2>7, <2>8 DEF n
<1>7. \A k \in Nat : k \in S
  <2> HIDE DEF S
  <2> QED  BY <1>5, <1>6, SetInduction
<1>8. Good(m)
  BY <1>7
<1>9. gs \in Seq(Piece(m))
  BY <1>3 DEF JoinStages
<1> QED  BY <1>1, <1>3, <1>8, <1>9

\* The items of the first n sequences, in order.
Flat(f, n, seqs) ==
    /\ \A i \in 1 .. Len(f) : \E g \in 1 .. n : \E k \in DOMAIN seqs[g] : f[i] = seqs[g][k]
    /\ \A g \in 1 .. n : \A k \in DOMAIN seqs[g] : \E i \in 1 .. Len(f) : f[i] = seqs[g][k]

LEMMA FlatStep ==
    ASSUME NEW T, NEW n \in Nat, NEW m \in Nat, n < m, NEW seqs \in [1 .. m -> Seq(T)],
           NEW f \in Seq(T), Flat(f, n, seqs)
    PROVE  f \o seqs[n + 1] \in Seq(T) /\ Flat(f \o seqs[n + 1], n + 1, seqs)
<1> DEFINE s == seqs[n + 1]
           t == f \o s
           a == Len(f)
           b == Len(s)
<1>1. n + 1 \in 1 .. n + 1 /\ \A g \in 1 .. n : g \in 1 .. n + 1
  OBVIOUS
<1>2. s \in Seq(T)
  OBVIOUS
<1>3. DOMAIN s = 1 .. b /\ a \in Nat /\ b \in Nat /\ t \in Seq(T) /\ Len(t) = a + b
  <2> HIDE DEF s
  <2> QED  BY <1>2
<1>4. \A i \in 1 .. a : t[i] = f[i] /\ i \in 1 .. a + b
  <2> HIDE DEF s
  <2> QED  BY <1>2, <1>3
<1>5. \A k \in 1 .. b : t[a + k] = s[k] /\ a + k \in 1 .. a + b
  <2> HIDE DEF s
  <2> QED  BY <1>2, <1>3
<1> HIDE DEF t, a, b
<1>6. ASSUME NEW i \in 1 .. Len(t) PROVE \E g \in 1 .. n + 1 : \E k \in DOMAIN seqs[g] : t[i] = seqs[g][k]
  <2>1. CASE i \in 1 .. a
    <3>1. PICK g \in 1 .. n : \E k \in DOMAIN seqs[g] : f[i] = seqs[g][k]
      BY <2>1, Zenon DEF Flat, a
    <3> QED  BY <1>1, <1>4, <2>1, <3>1, Zenon
  <2>2. CASE i \notin 1 .. a
    <3> DEFINE k == i - a
    <3>1. k \in 1 .. b /\ a + k = i
      BY <1>3, <2>2
    <3>2. k \in DOMAIN s /\ t[i] = s[k]
      BY <1>3, <1>5, <3>1
    <3> HIDE DEF k
    <3> QED  BY <1>1, <3>2, Zenon DEF s
  <2> QED  BY <2>1, <2>2
<1>7. ASSUME NEW g \in 1 .. n + 1, NEW k \in DOMAIN seqs[g]
      PROVE  \E i \in 1 .. Len(t) : t[i] = seqs[g][k]
  <2>1. CASE g = n + 1
    <3>1. k \in 1 .. b /\ seqs[g][k] = s[k]
      BY <1>3, <2>1, Zenon
    <3> QED  BY <1>3, <1>5, <3>1, Zenon
  <2>2. CASE g # n + 1
    <3>1. g \in 1 .. n
      BY <2>2
    <3>2. PICK i \in 1 .. a : f[i] = seqs[g][k]
      BY <3>1, Zenon DEF Flat, a
    <3> QED  BY <1>3, <1>4, <3>2, Zenon
  <2> QED  BY <2>1, <2>2
<1>8. t \in Seq(T) /\ Flat(t, n + 1, seqs)
  BY <1>3, <1>6, <1>7, Zenon DEF Flat
<1> QED  BY <1>8 DEF t, s

\* FlattenSeq holds what its sequences hold.
LEMMA Flattened ==
    ASSUME NEW T, NEW m \in Nat, NEW seqs \in [1 .. m -> Seq(T)]
    PROVE  FlattenSeq(seqs) \in Seq(T) /\ Flat(FlattenSeq(seqs), m, seqs)
<1> DEFINE V == Seq(T)
           step == [k \in 1 .. m |-> [v \in V |-> v \o seqs[k]]]
           Body(f, i) == IF i = 1 THEN seqs[i] ELSE f[i - 1] \o seqs[i]
           Eq(f) == f = [i \in 1 .. m |-> Body(f, i)]
           flatten == CHOOSE f : Eq(f)
<1>1. seqs \in Seq(V) /\ Len(seqs) = m
  OBVIOUS
<1>2. CASE m = 0
  <2>1. seqs = <<>>
    BY <1>1, <1>2
  <2>2. FlattenSeq(seqs) = <<>>
    BY <1>1, <1>2, <2>1 DEF FlattenSeq
  <2>3. Flat(<<>>, m, seqs)
    BY <1>2 DEF Flat
  <2> QED  BY <2>2, <2>3
<1>3. CASE m # 0
  <2>1. FlattenSeq(seqs) = flatten[m]
    <3>1. Len(seqs) # 0 /\ Len(seqs) = m
      BY <1>1, <1>3
    <3> QED  BY <3>1, Zenon DEF FlattenSeq
  <2>2. \A k \in 1 .. m : \A v \in V : v \o seqs[k] \in V
    OBVIOUS
  <2>3. step \in [1 .. m -> [V -> V]] /\ <<>> \in V
    <3>1. <<>> \in V
      OBVIOUS
    <3> HIDE DEF V
    <3> QED  BY <2>2, <3>1
  <2>4. PICK it \in [SUBSET (1 .. m) -> V] : IsFold(it, m, <<>>, step)
    <3> HIDE DEF step, V
    <3> QED  BY <2>3, FoldExists
  <2>5. ASSUME NEW i \in 1 .. m PROVE it[1 .. i] = it[1 .. i - 1] \o seqs[i]
    <3>1. Max(1 .. i) = i /\ (1 .. i) \ {i} = 1 .. i - 1
      BY MaxOfPrefix
    <3>2. 1 .. i \in SUBSET (1 .. m) /\ 1 .. i # {} /\ 1 .. i - 1 \in SUBSET (1 .. m)
      <4>1. 1 \in 1 .. i /\ (\A j \in 1 .. i : j \in 1 .. m) /\ \A j \in 1 .. i - 1 : j \in 1 .. m
        OBVIOUS
      <4> QED  BY <4>1
    <3>3. it[1 .. i] = step[i][it[1 .. i - 1]]
      <4> HIDE DEF step, V
      <4> QED  BY <2>4, <3>1, <3>2 DEF IsFold
    <3>4. it[1 .. i - 1] \in V
      <4> HIDE DEF V
      <4> QED  BY <3>2
    <3> HIDE DEF V
    <3> QED  BY <3>3, <3>4
  <2>6. it[1 .. 1] = seqs[1]
    <3>1. 1 \in 1 .. m /\ 1 .. 1 - 1 = {}
      BY <1>3
    <3>2. it[{}] = <<>>
      <4> HIDE DEF V, step
      <4> QED  BY <2>4 DEF IsFold
    <3>3. it[1 .. 1] = <<>> \o seqs[1]
      BY <2>5, <3>1, <3>2
    <3>4. seqs[1] \in V
      BY <3>1
    <3> QED  BY <3>3, <3>4
  <2> DEFINE F == [i \in 1 .. m |-> it[1 .. i]]
  <2>7. Eq(F)
    <3>1. ASSUME NEW i \in 1 .. m PROVE F[i] = IF i = 1 THEN seqs[i] ELSE F[i - 1] \o seqs[i]
      <4>1. CASE i = 1
        BY <2>6, <4>1
      <4>2. CASE i # 1
        <5>1. i - 1 \in 1 .. m
          BY <4>2
        <5> QED  BY <2>5, <4>2, <5>1
      <4> QED  BY <4>1, <4>2
    <3> QED  BY <3>1
  <2>8. Eq(flatten)
    <3> HIDE DEF Eq, F
    <3> QED  BY <2>7, Zenon
  <2> HIDE DEF flatten
  <2>8a. \A i \in 1 .. m : flatten[i] = Body(flatten, i)
    <3> HIDE DEF Body
    <3> QED  BY <2>8
  <2> DEFINE Good(i) == flatten[i] \in V /\ Flat(flatten[i], i, seqs)
             S == {k \in Nat : k + 1 <= m => Good(k + 1)}
  <2>9. 0 \in S
    <3>1. 1 \in 1 .. m
      BY <1>3
    <3>2. flatten[1] = seqs[1] /\ seqs[1] \in V
      BY <2>8, <3>1
    <3>3. Flat(seqs[1], 1, seqs)
      <4>1. DOMAIN seqs[1] = 1 .. Len(seqs[1])
        BY <3>2
      <4>2. \A g \in 1 .. 1 : g = 1
        OBVIOUS
      <4>3. 1 \in 1 .. 1
        OBVIOUS
      <4> QED  BY <4>1, <4>2, <4>3, Zenon DEF Flat
    <3> QED  BY <3>2, <3>3
  <2>10. ASSUME NEW k \in Nat, k \in S PROVE k + 1 \in S
    <3> SUFFICES ASSUME k + 1 + 1 <= m PROVE Good(k + 1 + 1)
      OBVIOUS
    <3> DEFINE j == k + 1
    <3>1. Good(j) /\ j \in Nat /\ j < m /\ j + 1 \in 1 .. m /\ j + 1 # 1 /\ j + 1 - 1 = j
      BY <2>10
    <3> HIDE DEF j
    <3>2. flatten[j + 1] = flatten[j] \o seqs[j + 1]
      <4> DEFINE i == j + 1
      <4>1. i \in 1 .. m /\ i # 1 /\ i - 1 = j
        BY <3>1
      <4> HIDE DEF i
      <4>2. flatten[i] = flatten[i - 1] \o seqs[i]
        BY <2>8a, <4>1, Zenon
      <4>3. flatten[i] = flatten[j] \o seqs[i]
        BY <4>1, <4>2, Zenon
      <4> QED  BY <4>3 DEF i
    <3>3. flatten[j] \o seqs[j + 1] \in V /\ Flat(flatten[j] \o seqs[j + 1], j + 1, seqs)
      BY <3>1, FlatStep
    <3>4. Good(j + 1)
      BY <3>2, <3>3
    <3> QED  BY <3>4 DEF j
  <2>11. \A k \in Nat : k \in S
    <3> HIDE DEF S
    <3> QED  BY <2>9, <2>10, SetInduction
  <2>12. Good(m)
    <3>1. m - 1 \in Nat /\ m - 1 + 1 = m
      BY <1>3
    <3>2. m - 1 \in S
      <4> HIDE DEF S
      <4> QED  BY <2>11, <3>1
    <3> HIDE DEF Good
    <3> QED  BY <3>1, <3>2
  <2> QED  BY <2>1, <2>12
<1> QED  BY <1>2, <1>3

\* The items of a list of groups, each with its group.
QueueOf(gs) == FlattenSeq([g \in DOMAIN gs |-> [k \in DOMAIN gs[g].items |-> <<g, gs[g].items[k]>>]])

LEMMA QueueIs ==
    ASSUME NEW m \in Nat, NEW gs \in Seq(Piece(m))
    PROVE  /\ QueueOf(gs) \in Seq(Nat \X (1 .. m))
           /\ \A i \in 1 .. Len(QueueOf(gs)) :
                  \E g \in DOMAIN gs : \E k \in DOMAIN gs[g].items :
                      QueueOf(gs)[i] = <<g, gs[g].items[k]>> /\ gs[g].items[k] \in 1 .. m
           /\ \A x : HasItem(gs, x) => \E i \in 1 .. Len(QueueOf(gs)) : QueueOf(gs)[i][2] = x
<1> DEFINE q == Len(gs)
           T == Nat \X (1 .. m)
           One(g) == [k \in DOMAIN gs[g].items |-> <<g, gs[g].items[k]>>]
           seqs == [g \in DOMAIN gs |-> One(g)]
           all == FlattenSeq(seqs)
<1>1. q \in Nat /\ DOMAIN gs = 1 .. q
  OBVIOUS
<1>2. ASSUME NEW g \in 1 .. q PROVE gs[g].items \in Seq(1 .. m)
  <2>1. gs[g] \in Piece(m)
    OBVIOUS
  <2> QED  BY <2>1, Zenon DEF Piece
<1>3. ASSUME NEW g \in 1 .. q PROVE One(g) \in Seq(T) /\ DOMAIN One(g) = DOMAIN gs[g].items
  <2> DEFINE it == gs[g].items
  <2>1. it \in Seq(1 .. m)
    BY <1>2
  <2> HIDE DEF it
  <2>2. g \in Nat /\ Len(it) \in Nat /\ DOMAIN it = 1 .. Len(it) /\ \A k \in 1 .. Len(it) : it[k] \in 1 .. m
    BY <1>1, <2>1
  <2>3. [k \in DOMAIN it |-> <<g, it[k]>>] \in Seq(T)
    BY <2>2
  <2> QED  BY <2>3 DEF it
<1>4. seqs \in [1 .. q -> Seq(T)]
  <2> HIDE DEF One, T
  <2> QED  BY <1>1, <1>3
<1>5. QueueOf(gs) = all
  BY Zenon DEF QueueOf
<1>6. all \in Seq(T) /\ Flat(all, q, seqs)
  <2> HIDE DEF T, seqs
  <2> QED  BY <1>1, <1>4, Flattened
<1>7. \A g \in 1 .. q : seqs[g] = One(g)
  <2> HIDE DEF One
  <2> QED  BY <1>1
<1>8. ASSUME NEW g \in 1 .. q, NEW k \in DOMAIN gs[g].items
      PROVE  seqs[g][k] = <<g, gs[g].items[k]>> /\ k \in DOMAIN seqs[g]
  <2> HIDE DEF seqs
  <2> QED  BY <1>7
<1>9. ASSUME NEW g \in 1 .. q, NEW k \in DOMAIN gs[g].items
      PROVE  gs[g].items[k] \in 1 .. m
  <2> DEFINE it == gs[g].items
  <2>1. it \in Seq(1 .. m)
    BY <1>2
  <2> HIDE DEF it
  <2>2. \A j \in DOMAIN it : it[j] \in 1 .. m
    BY <2>1
  <2> QED  BY <2>2 DEF it
<1> HIDE DEF seqs, all, One
<1>10. ASSUME NEW i \in 1 .. Len(all)
       PROVE  \E g \in DOMAIN gs : \E k \in DOMAIN gs[g].items :
                  all[i] = <<g, gs[g].items[k]>> /\ gs[g].items[k] \in 1 .. m
  <2>1. PICK g \in 1 .. q : \E k \in DOMAIN seqs[g] : all[i] = seqs[g][k]
    BY <1>6, Zenon DEF Flat
  <2>2. PICK k \in DOMAIN seqs[g] : all[i] = seqs[g][k]
    BY <2>1
  <2>3. k \in DOMAIN gs[g].items
    BY <1>3, <1>7, <2>2, Zenon
  <2> QED  BY <1>1, <1>8, <1>9, <2>2, <2>3, Zenon
<1>11. ASSUME NEW x, HasItem(gs, x) PROVE \E i \in 1 .. Len(all) : all[i][2] = x
  <2>1. PICK g \in 1 .. q : \E k \in DOMAIN gs[g].items : gs[g].items[k] = x
    BY <1>1, <1>11, Zenon DEF HasItem
  <2>2. PICK k \in DOMAIN gs[g].items : gs[g].items[k] = x
    BY <2>1
  <2>3. PICK i \in 1 .. Len(all) : all[i] = seqs[g][k]
    BY <1>6, <1>8, Zenon DEF Flat
  <2>4. all[i] = <<g, x>>
    BY <1>8, <2>2, <2>3, Zenon
  <2> QED  BY <2>4
<1> QED  BY <1>5, <1>6, <1>10, <1>11, Zenon

-----------------------------------------------------------------------------
(* The invariant. *)

\* What a read of one item returns.
Alone(s) == [k \in 1 .. s.len |-> s.off + k - 1]

\* read_many has its groups and has parsed the first items of the queue.
Parsing ==
    /\ groups \in Seq(Piece(Len(ids))) /\ Whole(groups, slots)
    /\ \A n \in DOMAIN ids : HasItem(groups, n)
    /\ done \in 0 .. Len(Queue)
    /\ out = [n \in DOMAIN ids |-> out[n]]
    /\ \A i \in 1 .. done : LET n == Queue[i][2]
                            IN  ids[n] \notin damaged /\ out[n] = Alone(slots[n])

PlanInv ==
    /\ index \in [Numbers -> Slots] /\ ids \in Batches
    /\ rpc \in {"slots", "items", "group", "parse", "done"}
    /\ rpc # "slots" => slots = [n \in DOMAIN ids |-> index[ids[n]]]
    /\ rpc # "done" => error = "none"
    /\ rpc \in {"slots", "items", "group"} => done = 0
    /\ rpc \in {"group", "parse"} => \A n \in DOMAIN ids : slots[n] # None
    /\ rpc = "parse" => Parsing
    /\ BatchAsSingles

\* A slot that is not empty says where a record is.
LEMMA SlotsLocated ==
    ASSUME PlanInv, NEW m \in Nat, ids \in [1 .. m -> Numbers],
           slots = [n \in DOMAIN ids |-> index[ids[n]]], \A n \in DOMAIN ids : slots[n] # None
    PROVE  slots \in [1 .. m -> Located]
<1>1. Offsets \subseteq Nat /\ Lengths \subseteq Nat \ {0}
  BY ReadPlanAssumption
<1>2. [off : Offsets, len : Lengths] \subseteq Located
  BY <1>1 DEF Located
<1>3. ASSUME NEW n \in 1 .. m PROVE slots[n] \in Located
  <2>1. DOMAIN ids = 1 .. m /\ ids[n] \in Numbers
    OBVIOUS
  <2>2. slots[n] = index[ids[n]] /\ slots[n] # None
    BY <2>1
  <2>3. index[ids[n]] \in Slots
    BY <2>1, Zenon DEF PlanInv
  <2> QED  BY <1>2, <2>2, <2>3, Zenon DEF Slots
<1> QED  BY <1>3

LEMMA PlanStarts == PlanInit => PlanInv
<1> SUFFICES ASSUME PlanInit PROVE PlanInv
  OBVIOUS
<1>1. ids \in Batches
  BY Zenon DEF PlanInit, Batches
<1>2. rpc = "slots" /\ error = "none" /\ done = 0 /\ index \in [Numbers -> Slots]
  BY DEF PlanInit
<1>3. BatchAsSingles
  BY <1>2 DEF BatchAsSingles
<1> QED  BY <1>1, <1>2, <1>3 DEF PlanInv

LEMMA SlotsStep == PlanInv /\ ReadSlots => PlanInv'
<1> SUFFICES ASSUME PlanInv, ReadSlots PROVE PlanInv'
  OBVIOUS
<1>1. PICK m \in Nat : ids \in [1 .. m -> Numbers] /\ DOMAIN ids = 1 .. m
  BY BatchIs DEF PlanInv
<1>2. slots' = [n \in DOMAIN ids |-> SlotFrom(PageGroups, ids[n])]
  BY Zenon DEF ReadSlots
<1>3. ASSUME NEW n \in 1 .. m PROVE SlotFrom(PageGroups, ids[n]) = index[ids[n]]
  BY <1>1, SlotRead
<1>4. slots' = [n \in DOMAIN ids |-> index[ids[n]]]
  BY <1>1, <1>2, <1>3, Zenon
<1>5. rpc = "slots" /\ rpc' = "items" /\ error' = error /\ done' = done /\ index' = index /\ ids' = ids
  BY DEF ReadSlots, batch
<1>6. error = "none" /\ done = 0 /\ index \in [Numbers -> Slots] /\ ids \in Batches
  BY <1>5 DEF PlanInv
<1>7. BatchAsSingles'
  BY <1>5 DEF BatchAsSingles
<1> QED  BY <1>4, <1>5, <1>6, <1>7 DEF PlanInv

LEMMA ItemsStep == PlanInv /\ Items => PlanInv'
<1> SUFFICES ASSUME PlanInv, Items PROVE PlanInv'
  OBVIOUS
<1>1. /\ rpc = "items" /\ index' = index /\ ids' = ids /\ damaged' = damaged
      /\ slots' = slots /\ groups' = groups /\ done' = done /\ out' = out
  BY DEF Items, batch
<1>2. /\ slots = [n \in DOMAIN ids |-> index[ids[n]]] /\ error = "none" /\ done = 0
      /\ index \in [Numbers -> Slots] /\ ids \in Batches
  BY <1>1 DEF PlanInv
<1>3. DOMAIN slots = DOMAIN ids
  BY <1>2
<1>4. CASE \E n \in DOMAIN slots : slots[n] = None
  <2>1. rpc' = "done" /\ error' = "NotFound"
    BY <1>4 DEF Items
  <2>2. \E id \in Range(ids) : index[id] = None
    BY <1>2, <1>4 DEF Range
  <2>3. BatchAsSingles'
    BY <1>1, <2>1, <2>2 DEF BatchAsSingles
  <2> QED  BY <1>1, <1>2, <2>1, <2>3 DEF PlanInv
<1>5. CASE ~ \E n \in DOMAIN slots : slots[n] = None
  <2>1. rpc' = "group" /\ error' = error
    BY <1>5 DEF Items
  <2>2. BatchAsSingles'
    BY <2>1 DEF BatchAsSingles
  <2>3. \A n \in DOMAIN ids : slots[n] # None
    BY <1>3, <1>5
  <2> QED  BY <1>1, <1>2, <2>1, <2>2, <2>3 DEF PlanInv
<1> QED  BY <1>4, <1>5

LEMMA GroupsStep == PlanInv /\ ReadGroups => PlanInv'
<1> SUFFICES ASSUME PlanInv, ReadGroups PROVE PlanInv'
  OBVIOUS
<1>1. PICK m \in Nat : ids \in [1 .. m -> Numbers] /\ DOMAIN ids = 1 .. m
  BY BatchIs DEF PlanInv
<1>2. /\ rpc = "group" /\ rpc' = "parse" /\ index' = index /\ ids' = ids /\ damaged' = damaged
      /\ slots' = slots /\ done' = done /\ error' = error
      /\ groups' = FoldLeft(Join, <<>>, Order) /\ out' = [n \in DOMAIN ids |-> <<>>]
  BY Zenon DEF ReadGroups, batch
<1>3. /\ slots = [n \in DOMAIN ids |-> index[ids[n]]] /\ error = "none" /\ done = 0
      /\ index \in [Numbers -> Slots] /\ ids \in Batches /\ \A n \in DOMAIN ids : slots[n] # None
  BY <1>2 DEF PlanInv
<1>4. slots \in [1 .. m -> Located]
  BY <1>1, <1>3, SlotsLocated
<1>5. groups' \in Seq(Piece(m)) /\ Whole(groups', slots) /\ \A x \in 1 .. m : HasItem(groups', x)
  <2> DEFINE gs == groups'
  <2>1. gs = FoldLeft(Join, <<>>, Order)
    BY <1>2
  <2> HIDE DEF gs
  <2>2. gs \in Seq(Piece(m)) /\ Whole(gs, slots) /\ \A x \in 1 .. m : HasItem(gs, x)
    BY <1>4, <2>1, ItemsGrouped, Zenon
  <2> QED  BY <2>2 DEF gs
<1>6. Len(ids) = m
  BY <1>1
<1>7. Len(Queue') \in Nat
  <2> DEFINE gs == groups'
             q == QueueOf(gs)
  <2>1. Queue' = q
    BY Zenon DEF Queue, QueueOf
  <2>2. gs \in Seq(Piece(m))
    BY <1>5
  <2> HIDE DEF gs
  <2>3. q \in Seq(Nat \X (1 .. m))
    BY <2>2, QueueIs
  <2> HIDE DEF q
  <2> QED  BY <2>1, <2>3
<1>8. Parsing'
  <2>1. done' \in 0 .. Len(Queue') /\ (\A i \in 1 .. done' : FALSE)
    BY <1>2, <1>3, <1>7
  <2>2. out' = [n \in DOMAIN ids |-> out'[n]]
    BY <1>2
  <2>3. /\ groups' \in Seq(Piece(Len(ids'))) /\ Whole(groups', slots')
        /\ \A n \in DOMAIN ids' : HasItem(groups', n)
    BY <1>1, <1>2, <1>5, <1>6, Zenon
  <2> QED  BY <1>2, <2>1, <2>2, <2>3, Zenon DEF Parsing
<1>9. BatchAsSingles'
  BY <1>2 DEF BatchAsSingles
<1> QED  BY <1>2, <1>3, <1>8, <1>9 DEF PlanInv

\* What read_many knows while it parses.
LEMMA ParsingIs ==
    ASSUME PlanInv, rpc = "parse"
    PROVE  \E m \in Nat :
              /\ ids \in [1 .. m -> Numbers] /\ DOMAIN ids = 1 .. m
              /\ slots \in [1 .. m -> Located] /\ \A n \in 1 .. m : slots[n] = index[ids[n]]
              /\ groups \in Seq(Piece(m)) /\ Queue \in Seq(Nat \X (1 .. m))
              /\ \A i \in 1 .. Len(Queue) :
                     \E g \in DOMAIN groups : \E k \in DOMAIN groups[g].items :
                         Queue[i] = <<g, groups[g].items[k]>> /\ groups[g].items[k] \in 1 .. m
              /\ \A n \in 1 .. m : \E i \in 1 .. Len(Queue) : Queue[i][2] = n
              /\ \A id \in Range(ids) : index[id] # None
<1>1. PICK m \in Nat : ids \in [1 .. m -> Numbers] /\ DOMAIN ids = 1 .. m
  BY BatchIs DEF PlanInv
<1>2. /\ slots = [n \in DOMAIN ids |-> index[ids[n]]]
      /\ \A n \in DOMAIN ids : slots[n] # None
      /\ Parsing
  BY DEF PlanInv
<1>3. slots \in [1 .. m -> Located]
  BY <1>1, <1>2, SlotsLocated
<1>4. groups \in Seq(Piece(m)) /\ \A n \in 1 .. m : HasItem(groups, n)
  <2>1. Len(ids) = m
    BY <1>1
  <2> QED  BY <1>1, <1>2, <2>1, Zenon DEF Parsing
<1>5. /\ QueueOf(groups) \in Seq(Nat \X (1 .. m))
      /\ \A i \in 1 .. Len(QueueOf(groups)) :
             \E g \in DOMAIN groups : \E k \in DOMAIN groups[g].items :
                 QueueOf(groups)[i] = <<g, groups[g].items[k]>> /\ groups[g].items[k] \in 1 .. m
      /\ \A x : HasItem(groups, x) => \E i \in 1 .. Len(QueueOf(groups)) : QueueOf(groups)[i][2] = x
  BY <1>4, QueueIs, Zenon
<1>6. Queue = QueueOf(groups)
  BY Zenon DEF Queue, QueueOf
<1>7. \A id \in Range(ids) : index[id] # None
  BY <1>1, <1>2, Zenon DEF Range
<1>8. \A n \in 1 .. m : slots[n] = index[ids[n]]
  BY <1>1, <1>2
<1>9. \A n \in 1 .. m : \E i \in 1 .. Len(Queue) : Queue[i][2] = n
  BY <1>4, <1>5, <1>6, Zenon
<1> QED  BY <1>1, <1>3, <1>4, <1>5, <1>6, <1>7, <1>8, <1>9, Zenon

\* The record is whole in the buffer of its group and is cut out of its place.
LEMMA CutOut ==
    ASSUME NEW s \in Located, NEW a \in Nat, NEW b \in Nat, a <= s.off, s.off + s.len <= b
    PROVE  /\ ~((s.off - a) + s.len > b - a)
           /\ [k \in 1 .. s.len |-> Buffer(a, b - a)[(s.off - a) + k - 1]] = Alone(s)
<1>1. s.off \in Nat /\ s.len \in Nat \ {0}
  BY Zenon DEF Located
<1> DEFINE o == s.off
           l == s.len
<1> HIDE DEF o, l
<1>2. o \in Nat /\ l \in Nat \ {0} /\ a <= o /\ o + l <= b
  BY <1>1 DEF o, l
<1>3. ~((o - a) + l > b - a)
  BY <1>2
<1>4. ASSUME NEW k \in 1 .. l PROVE Buffer(a, b - a)[(o - a) + k - 1] = o + k - 1
  <2> DEFINE x == (o - a) + k - 1
  <2>1. b - a \in Nat /\ x \in 0 .. (b - a) - 1 /\ a + x = o + k - 1
    BY <1>2
  <2> HIDE DEF x
  <2>2. Buffer(a, b - a)[x] = a + x
    BY <2>1, BufferBytes
  <2> QED  BY <2>1, <2>2 DEF x
<1>5. [k \in 1 .. l |-> Buffer(a, b - a)[(o - a) + k - 1]] = [k \in 1 .. l |-> o + k - 1]
  BY <1>4, Zenon
<1> QED  BY <1>3, <1>5, Zenon DEF Alone, o, l

LEMMA ParseStep == PlanInv /\ Parse => PlanInv'
<1> SUFFICES ASSUME PlanInv, Parse PROVE PlanInv'
  OBVIOUS
<1>0. /\ rpc = "parse" /\ done < Len(Queue) /\ done' = done + 1
      /\ index' = index /\ ids' = ids /\ damaged' = damaged /\ slots' = slots /\ groups' = groups
  BY DEF Parse, batch
<1>1. PICK m \in Nat :
              /\ ids \in [1 .. m -> Numbers] /\ DOMAIN ids = 1 .. m
              /\ slots \in [1 .. m -> Located] /\ \A n \in 1 .. m : slots[n] = index[ids[n]]
              /\ groups \in Seq(Piece(m)) /\ Queue \in Seq(Nat \X (1 .. m))
              /\ \A i \in 1 .. Len(Queue) :
                     \E g \in DOMAIN groups : \E k \in DOMAIN groups[g].items :
                         Queue[i] = <<g, groups[g].items[k]>> /\ groups[g].items[k] \in 1 .. m
              /\ \A n \in 1 .. m : \E i \in 1 .. Len(Queue) : Queue[i][2] = n
              /\ \A id \in Range(ids) : index[id] # None
  BY <1>0, ParsingIs
<1>2. /\ Parsing /\ index \in [Numbers -> Slots] /\ ids \in Batches
      /\ slots = [n \in DOMAIN ids |-> index[ids[n]]]
      /\ \A n \in DOMAIN ids : slots[n] # None
  BY <1>0 DEF PlanInv
<1>3. done \in Nat /\ Len(Queue) \in Nat /\ done + 1 \in 1 .. Len(Queue)
  <2>1. Len(Queue) \in Nat
    BY <1>1
  <2> QED  BY <1>0, <1>2, <2>1 DEF Parsing
<1>4. PICK g \in DOMAIN groups : \E k \in DOMAIN groups[g].items :
              Queue[done + 1] = <<g, groups[g].items[k]>> /\ groups[g].items[k] \in 1 .. m
  BY <1>1, <1>3, Zenon
<1>5. PICK k \in DOMAIN groups[g].items :
              Queue[done + 1] = <<g, groups[g].items[k]>> /\ groups[g].items[k] \in 1 .. m
  BY <1>4
<1> DEFINE p == groups[g]
           n == p.items[k]
           s == slots[n]
           data == Buffer(p.start, p.end - p.start)
           at == s.off - p.start
           fails == IF at + s.len > p.end - p.start THEN "panic"
                    ELSE IF ids[n] \in damaged THEN "Corrupt" ELSE "none"
           cut == [j \in 1 .. s.len |-> data[at + j - 1]]
<1>6. Queue[done + 1][1] = g /\ Queue[done + 1][2] = n /\ n \in 1 .. m
  BY <1>5
<1>7. error' = fails
      /\ (fails = "none" => out' = [out EXCEPT ![n] = cut] /\ rpc' = rpc)
      /\ (fails # "none" => rpc' = "done" /\ out' = out)
  BY <1>6, Zenon DEF Parse
<1>8. p.start <= s.off /\ s.off + s.len <= p.end
  BY <1>2, <1>5, Zenon DEF Parsing, Whole
<1>9. p.start \in Nat /\ p.end \in Nat /\ s \in Located
  <2>1. p \in Piece(m)
    BY <1>1
  <2> QED  BY <1>1, <1>6, <2>1, Zenon DEF Piece
<1>10. ~(at + s.len > p.end - p.start) /\ cut = Alone(s)
  <2> DEFINE a == p.start
             b == p.end
             z == s
  <2>1. a \in Nat /\ b \in Nat /\ z \in Located /\ a <= z.off /\ z.off + z.len <= b
    BY <1>8, <1>9, Zenon
  <2> HIDE DEF a, b, z
  <2>2. /\ ~((z.off - a) + z.len > b - a)
        /\ [j \in 1 .. z.len |-> Buffer(a, b - a)[(z.off - a) + j - 1]] = Alone(z)
    BY <2>1, CutOut, Zenon
  <2> QED  BY <2>2, Zenon DEF a, b, z
<1>11. fails = IF ids[n] \in damaged THEN "Corrupt" ELSE "none"
  BY <1>10, Zenon
<1>12. ids[n] \in Range(ids)
  BY <1>1, <1>6, Zenon DEF Range
<1> HIDE DEF fails, cut, data, at
<1>13. CASE ids[n] \in damaged
  <2>1. rpc' = "done" /\ error' = "Corrupt"
    BY <1>7, <1>11, <1>13
  <2>2. BatchAsSingles'
    <3>1. ~(\E id \in Range(ids) : index[id] = None) /\ Range(ids) \intersect damaged # {}
      BY <1>1, <1>12, <1>13, Zenon
    <3> QED  BY <1>0, <2>1, <3>1 DEF BatchAsSingles
  <2> QED  BY <1>0, <1>2, <2>1, <2>2 DEF PlanInv
<1>14. CASE ids[n] \notin damaged
  <2>1. out' = [out EXCEPT ![n] = cut] /\ rpc' = "parse" /\ error' = "none"
    BY <1>0, <1>7, <1>11, <1>14
  <2>2. BatchAsSingles'
    BY <2>1 DEF BatchAsSingles
  <2>3. Queue' = Queue
    BY <1>0, Zenon DEF Queue
  <2>4. DOMAIN out = 1 .. m /\ out' = [x \in DOMAIN ids |-> out'[x]]
    <3>1. DOMAIN out = DOMAIN ids
      BY <1>2 DEF Parsing
    <3> QED  BY <1>1, <2>1, <3>1, Zenon
  <2>5. out'[n] = Alone(slots[n])
    BY <1>6, <1>10, <2>1, <2>4, Zenon
  <2>6. ASSUME NEW i \in 1 .. done + 1
        PROVE  ids[Queue[i][2]] \notin damaged /\ out'[Queue[i][2]] = Alone(slots[Queue[i][2]])
    <3> DEFINE x == Queue[i][2]
    <3>1. CASE x = n
      BY <1>14, <2>5, <3>1, Zenon
    <3>2. CASE x # n
      <4>1. i # done + 1
        BY <1>6, <3>2, Zenon
      <4>2. i \in 1 .. done /\ i \in 1 .. Len(Queue)
        BY <1>3, <4>1
      <4>3. ids[x] \notin damaged /\ out[x] = Alone(slots[x])
        BY <1>2, <4>2, Zenon DEF Parsing
      <4>4. x \in 1 .. m
        <5>1. Queue[i] \in Nat \X (1 .. m)
          BY <1>1, <4>2
        <5> QED  BY <5>1
      <4>5. out'[x] = out[x]
        BY <2>1, <2>4, <3>2, <4>4, Zenon
      <4> QED  BY <4>3, <4>5
    <3> QED  BY <3>1, <3>2
  <2>7. done + 1 \in 0 .. Len(Queue)
    BY <1>3
  <2>8. groups \in Seq(Piece(Len(ids))) /\ Whole(groups, slots) /\ \A x \in DOMAIN ids : HasItem(groups, x)
    BY <1>2, Zenon DEF Parsing
  <2>9. Parsing'
    BY <1>0, <2>3, <2>4, <2>6, <2>7, <2>8, Zenon DEF Parsing
  <2> QED  BY <1>0, <1>2, <2>1, <2>2, <2>9 DEF PlanInv
<1> QED  BY <1>13, <1>14

LEMMA FinishStep == PlanInv /\ Finish => PlanInv'
<1> SUFFICES ASSUME PlanInv, Finish PROVE PlanInv'
  OBVIOUS
<1>0. /\ rpc = "parse" /\ done = Len(Queue) /\ rpc' = "done" /\ error' = error /\ out' = out
      /\ index' = index /\ ids' = ids /\ damaged' = damaged /\ slots' = slots
  BY DEF Finish, batch
<1>1. PICK m \in Nat :
              /\ ids \in [1 .. m -> Numbers] /\ DOMAIN ids = 1 .. m
              /\ slots \in [1 .. m -> Located] /\ \A n \in 1 .. m : slots[n] = index[ids[n]]
              /\ groups \in Seq(Piece(m)) /\ Queue \in Seq(Nat \X (1 .. m))
              /\ \A i \in 1 .. Len(Queue) :
                     \E g \in DOMAIN groups : \E k \in DOMAIN groups[g].items :
                         Queue[i] = <<g, groups[g].items[k]>> /\ groups[g].items[k] \in 1 .. m
              /\ \A n \in 1 .. m : \E i \in 1 .. Len(Queue) : Queue[i][2] = n
              /\ \A id \in Range(ids) : index[id] # None
  BY <1>0, ParsingIs
<1>2. /\ Parsing /\ index \in [Numbers -> Slots] /\ ids \in Batches /\ error = "none"
      /\ slots = [n \in DOMAIN ids |-> index[ids[n]]]
  BY <1>0 DEF PlanInv
<1>3. ASSUME NEW n \in 1 .. m PROVE ids[n] \notin damaged /\ out[n] = Alone(index[ids[n]])
  <2>1. PICK i \in 1 .. Len(Queue) : Queue[i][2] = n
    BY <1>1
  <2>2. ids[n] \notin damaged /\ out[n] = Alone(slots[n])
    BY <1>0, <1>2, <2>1, Zenon DEF Parsing
  <2> QED  BY <1>1, <2>2
<1>4. Range(ids) \intersect damaged = {}
  <2>1. \A id \in Range(ids) : id \notin damaged
    BY <1>1, <1>3 DEF Range
  <2> QED  BY <2>1
<1>5. out = [n \in DOMAIN ids |-> Alone(index[ids[n]])]
  <2>1. out = [n \in DOMAIN ids |-> out[n]]
    BY <1>2 DEF Parsing
  <2> QED  BY <1>1, <1>3, <2>1, Zenon
<1>6. BatchAsSingles'
  <2>1. out = [n \in DOMAIN ids |-> LET s == index[ids[n]] IN [k \in 1 .. s.len |-> s.off + k - 1]]
    BY <1>5, Zenon DEF Alone
  <2> QED  BY <1>0, <1>1, <1>2, <1>4, <2>1, Zenon DEF BatchAsSingles
<1> QED  BY <1>0, <1>2, <1>6 DEF PlanInv

\* read_batch returns what reads of its numbers one by one return, and fails exactly when one
\* of them does (src/src/heap.rs:217), for every batch, every index, every page, slot and
\* segment size: what is grouped, split and joined again comes out of the right place.
THEOREM BatchesAsSingles == PlanSpec => []BatchAsSingles
<1>1. PlanInit => PlanInv
  BY PlanStarts
<1>2. PlanInv /\ [PlanNext]_planVars => PlanInv'
  <2>1. PlanInv /\ PlanNext => PlanInv'
    BY SlotsStep, ItemsStep, GroupsStep, ParseStep, FinishStep DEF PlanNext
  <2>2. PlanInv /\ UNCHANGED planVars => PlanInv'
    <3> SUFFICES ASSUME PlanInv, UNCHANGED planVars PROVE PlanInv'
      OBVIOUS
    <3>1. /\ index' = index /\ damaged' = damaged /\ ids' = ids /\ rpc' = rpc /\ slots' = slots
          /\ groups' = groups /\ done' = done /\ out' = out /\ error' = error
      BY DEF planVars, batch
    <3>2. Queue' = Queue
      BY <3>1, Zenon DEF Queue
    <3>3. Parsing' = Parsing /\ BatchAsSingles' = BatchAsSingles
      BY <3>1, <3>2 DEF Parsing, BatchAsSingles
    <3> QED  BY <3>1, <3>3 DEF PlanInv
  <2> QED  BY <2>1, <2>2
<1>3. PlanInv => BatchAsSingles
  BY DEF PlanInv
<1> QED  BY <1>1, <1>2, <1>3, PTL DEF PlanSpec
=============================================================================
