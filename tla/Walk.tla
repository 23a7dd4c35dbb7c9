-------------------------------- MODULE Walk --------------------------------
(***************************************************************************)
(* The loop of walk (src/src/recovery.rs:34): the records of a stretch of  *)
(* a file are visited through a buffer that is filled a chunk at a time    *)
(* and drained from the front, and after bytes that are no header the walk *)
(* searches on for the record magic.  Records!Walk and Records!WalkAll say *)
(* what is found; here the bytes, the buffer and its indices are modelled. *)
(*                                                                         *)
(* A byte is part of the magic, a length (that stands for the rest of a    *)
(* sound header) or anything else; offsets are relative to start_offset.   *)
(***************************************************************************)
EXTENDS Integers, Sequences, SequencesExt, FiniteSetsExt

CONSTANTS
    Magic,         \* the bytes of RECORD_MAGIC
    PayloadLens,   \* lengths a header may state
    Other,         \* any other byte
    EndOffset,     \* end_offset - start_offset
    Chunks,        \* the values of RECOVERY_SCAN_CHUNK_SIZE considered
    DrainFactor    \* chunks of scanned bytes that are kept, 8 in the code

ASSUME WalkAssumption ==
    /\ Magic \in Seq(Range(Magic)) /\ Magic # <<>>
    /\ PayloadLens \subseteq Nat /\ \E m \in PayloadLens : \A l \in PayloadLens : l <= m
    /\ EndOffset \in Nat
    /\ Chunks \subseteq Nat \ {0} /\ DrainFactor \in Nat \ {0}
    /\ \A c \in Chunks : Len(Magic) - 1 <= DrainFactor * c

VARIABLES
    bytes,         \* the file, [0 .. EndOffset - 1 -> byte]
    chunk,         \* the chunk size
    allow_resync,
    wpc,           \* where the loop stands
    buffer, buffer_start, position, search_offset,
    needed, after, \* ensure_available: bytes asked for and where to go on
    visited,       \* the records visited: offset and whether the payload is valid
    stopped        \* the visitor ended the walk

input == <<bytes, chunk, allow_resync>>
walkVars == <<input, wpc, buffer, buffer_start, position, search_offset, needed, after,
              visited, stopped>>

HeaderSize == Len(Magic) + 1
MaxPayload == Max(PayloadLens)
Alphabet == Range(Magic) \union PayloadLens \union {Other}

\* RecordHeader::decode on the first bytes of s.
Decodes(s) == Len(s) >= HeaderSize /\ SubSeq(s, 1, Len(Magic)) = Magic /\ s[HeaderSize] \in PayloadLens

\* The checksum of a payload.
PayloadValid(s) == \A n \in DOMAIN s : s[n] = Other

Slice(from, to) == [n \in 1 .. to - from |-> bytes[from + n - 1]]

BufferEnd == buffer_start + Len(buffer)

\* The buffer from offset p on, as the code indexes it.
From(p) == SubSeq(buffer, p - buffer_start + 1, Len(buffer))

WalkInit ==
    /\ bytes \in [0 .. EndOffset - 1 -> Alphabet]
    /\ chunk \in Chunks /\ allow_resync \in BOOLEAN
    /\ wpc = "top" /\ buffer = <<>> /\ buffer_start = 0 /\ position = 0
    /\ search_offset = 0 /\ needed = 0 /\ after = "top"
    /\ visited = <<>> /\ stopped = FALSE

-----------------------------------------------------------------------------
\* ensure_available!(n), and where the walk goes on when the bytes are there.
Ensure(n, next) == wpc' = "fill" /\ needed' = n /\ after' = next

\* Variant: the start of the buffer is left behind.
DrainOnly(n) == buffer' = SubSeq(buffer, n + 1, Len(buffer)) /\ UNCHANGED buffer_start

\* Dropping the first n bytes of the buffer.
Drain(n) == /\ buffer' = SubSeq(buffer, n + 1, Len(buffer))
            /\ buffer_start' = buffer_start + n

\* The scanned bytes before offset p are more than are kept.
Scanned(p) == p - buffer_start > DrainFactor * chunk

\* The top of the loop.
Top ==
    /\ wpc = "top"
    /\ IF Scanned(position) THEN Drain(position - buffer_start)
       ELSE UNCHANGED <<buffer, buffer_start>>
    /\ IF position + HeaderSize > EndOffset
       THEN wpc' = "done" /\ UNCHANGED <<needed, after>>
       ELSE Ensure(HeaderSize, "decode")
    /\ UNCHANGED <<input, position, search_offset, visited, stopped>>

\* A turn of the loop of ensure_available: one chunk is read.  Every caller leaves the
\* walk when the stretch ends before there is enough.
Fill ==
    LET read_len == Min({chunk, EndOffset - BufferEnd})
    IN  /\ wpc = "fill"
        /\ IF BufferEnd - position >= needed THEN wpc' = after /\ UNCHANGED buffer
           ELSE IF BufferEnd >= EndOffset THEN wpc' = "done" /\ UNCHANGED buffer
           ELSE buffer' = buffer \o Slice(BufferEnd, BufferEnd + read_len) /\ UNCHANGED wpc
        /\ UNCHANGED <<input, buffer_start, position, search_offset, needed, after, visited,
                       stopped>>

Decode ==
    LET s == From(position)
        fits == Decodes(s) /\ position + HeaderSize + s[HeaderSize] <= EndOffset
    IN  /\ wpc = "decode"
        /\ \/ /\ fits /\ Ensure(HeaderSize + s[HeaderSize], "visit")
              /\ UNCHANGED search_offset
           \/ /\ ~fits /\ ~allow_resync
              /\ wpc' = "done" /\ UNCHANGED <<search_offset, needed, after>>
           \/ /\ ~fits /\ allow_resync
              /\ wpc' = "search" /\ search_offset' = position + 1
              /\ UNCHANGED <<needed, after>>
        /\ UNCHANGED <<input, buffer, buffer_start, position, visited, stopped>>

\* Variant: the search never lets go of what it has scanned.
SearchKeeping ==
    /\ wpc = "search"
    /\ Ensure(search_offset - position + Len(Magic), "scan")
    /\ UNCHANGED <<input, buffer, buffer_start, position, search_offset, visited, stopped>>

\* The top of the loop of resync.
Search ==
    /\ wpc = "search"
    /\ IF Scanned(search_offset)
       THEN Drain(search_offset - buffer_start - (Len(Magic) - 1))
       ELSE UNCHANGED <<buffer, buffer_start>>
    /\ Ensure(search_offset - position + Len(Magic), "scan")
    /\ UNCHANGED <<input, position, search_offset, visited, stopped>>

\* Variants: where the search goes on leaves out a byte, or is where it was.
SkipByte == BufferEnd - (Len(Magic) - 2)
SameBytes == BufferEnd - Len(Magic)

\* The last bytes of the buffer may begin a magic.
NextSearch == BufferEnd - (Len(Magic) - 1)

Scan ==
    LET s == From(search_offset)
        hits == {n \in 1 .. Len(s) - Len(Magic) + 1 : SubSeq(s, n, n + Len(Magic) - 1) = Magic}
    IN  /\ wpc = "scan"
        /\ \/ /\ hits # {}
              /\ position' = search_offset + Min(hits) - 1 /\ search_offset' = position'
              /\ wpc' = "top"
           \/ /\ hits = {}
              /\ search_offset' = NextSearch /\ wpc' = "search" /\ UNCHANGED position
        /\ UNCHANGED <<input, buffer, buffer_start, needed, after, visited, stopped>>

\* The visitor is called and may end the walk.
Visit ==
    LET s == From(position)
        size == HeaderSize + s[HeaderSize]
    IN  /\ wpc = "visit"
        /\ visited' = Append(visited, [at |-> position,
                                       valid |-> PayloadValid(SubSeq(s, HeaderSize + 1, size))])
        /\ position' = position + size
        /\ \E continue_walk \in BOOLEAN :
              /\ wpc' = IF continue_walk THEN "top" ELSE "done"
              /\ stopped' = ~continue_walk
        /\ UNCHANGED <<input, buffer, buffer_start, search_offset, needed, after>>

WalkNext == Top \/ Fill \/ Decode \/ Search \/ Scan \/ Visit

-----------------------------------------------------------------------------
(* Properties. *)

\* The magic is at offset q of the file b; a record with header and payload is at p.
MagicAt(b, q) == /\ q + Len(Magic) <= EndOffset
                 /\ \A n \in 1 .. Len(Magic) : b[q + n - 1] = Magic[n]

RecordEnd(b, p) == p + HeaderSize + b[p + Len(Magic)]

RecordAt(b, p) == /\ p + HeaderSize <= EndOffset /\ MagicAt(b, p)
                  /\ b[p + Len(Magic)] \in PayloadLens /\ RecordEnd(b, p) <= EndOffset

Entry(b, p) ==
    [at |-> p, valid |-> \A q \in p + HeaderSize .. RecordEnd(b, p) - 1 : b[q] = Other]

\* Where a walk that may search goes on after bytes at p that are no record.
Later(b, resync, p) == {q \in p + 1 .. EndOffset :
                           resync /\ p + HeaderSize <= EndOffset /\ MagicAt(b, q)}

\* The records of the whole stretch, read at once.
Found ==
    LET f[p \in 0 .. EndOffset] ==
            IF RecordAt(bytes, p) THEN <<Entry(bytes, p)>> \o f[RecordEnd(bytes, p)]
            ELSE LET later == Later(bytes, allow_resync, p)
                 IN  IF later # {} THEN f[Min(later)] ELSE <<>>
    IN  f[0]

\* However the stretch is cut into chunks and the buffer drained, walk visits the
\* records that are there, in order, and all of them unless the visitor ends it.
VisitsWhatIsThere ==
    /\ IsPrefix(visited, Found)
    /\ wpc = "done" /\ ~stopped => visited = Found

\* Every index into the buffer and every difference of offsets is in range, and the
\* buffer holds the bytes of the file from buffer_start on.
BufferInPlace ==
    /\ buffer = Slice(buffer_start, BufferEnd) /\ BufferEnd <= EndOffset
    /\ wpc \in {"top", "decode", "visit"} => position \in buffer_start .. BufferEnd
    /\ wpc \in {"search", "scan"} => search_offset \in buffer_start .. BufferEnd

\* "discard scanned bytes to bound recovery memory": the buffer is always smaller than
\* the scanned bytes that are kept, a record and a chunk together.
BufferBounded == Len(buffer) < (DrainFactor + 1) * chunk + HeaderSize + MaxPayload

\* The walk ends, also in a search that finds nothing.
WalkEnds == (wpc = "top") ~> (wpc = "done")

WalkSpec == WalkInit /\ [][WalkNext]_walkVars /\ WF_walkVars(WalkNext)
=============================================================================
