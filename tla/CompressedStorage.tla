-------------------------- MODULE CompressedStorage --------------------------
(***************************************************************************)
(* One CompressedStorage of storage.c: for every channel of the compressor *)
(* a linked list of segments, a cursor that compresses into it and one     *)
(* that decompresses from it.  A CFR job reads the old contents and writes *)
(* the new ones at the same time, giving segments back as it reads; a      *)
(* best-response job only reads; the scratch loader discards a storage and *)
(* loads another subgame's into it.  The work of one thread between its    *)
(* calls; FreeSegments has the threads that share the free list.           *)
(***************************************************************************)
EXTENDS Integers, SequencesExt

CONSTANTS NumChannels,  \* COMPRESSOR_MAX_CHANNELS
          SegmentSize,  \* SEGMENTED_ARRAY_SIZE
          MaxSegments,  \* bound: segments that can be xmalloc'd
          MaxLength,    \* bound: bytes a compressor writes to a channel
          Ahead         \* bound: bytes a reader asks for past the end

ASSUME SizesAssumption ==
  {NumChannels, SegmentSize, MaxSegments, MaxLength, Ahead} \subseteq Nat \ {0}

VARIABLES
  top, made,     \* g_freeSegments, g_numSegments
  next, data,    \* the fields of every segment
  head,          \* channels[ i ].head
  compress,      \* channels[ i ].compressIndex
  decompress,    \* channels[ i ].decompressIndex
  bytes,         \* compressedBytes, counted without per-segment overhead
  numSegments,
  mode,          \* which of the init and finish functions have been called
  reader,        \* the decompressor: "none", or its read function
  got,           \* bytes the reader has delivered on each channel
  written,       \* bytes the compressor has written on each channel
  stored,        \* history: what the last finished compression wrote
  generation,    \* history: tells the bytes of successive compressions apart
  file           \* the scratch file that the discarded storage is to load:
                 \* the segments' data of each channel

segments == <<top, made, next, data>>
cursors  == <<head, compress, decompress>>
streams  == <<got, written, stored, generation>>
vars     == <<segments, cursors, bytes, numSegments, mode, reader, streams, file>>

Nil == 0
Channels  == 1 .. NumChannels
Segments  == 1 .. MaxSegments
Positions == 0 .. SegmentSize - 1
Unwritten == 0                    \* a byte of memset, or of a fresh segment

NewIndex(s) == [segment |-> s, pos |-> 0, finished |-> 0]
Empty == [ch \in Channels |-> <<>>]
NoFile == [chunks |-> Empty, stored |-> Empty]

(* initFreeSegments, initCompressedArrays *)
Init ==
  /\ top = Nil /\ made = 0
  /\ next = [s \in Segments |-> Nil]
  /\ data = [s \in Segments |-> [i \in Positions |-> Unwritten]]
  /\ head = [ch \in Channels |-> Nil]
  /\ compress = [ch \in Channels |-> NewIndex(Nil)]
  /\ decompress = [ch \in Channels |-> NewIndex(Nil)]
  /\ bytes = 0 /\ numSegments = 0
  /\ mode = "idle" /\ reader = "none"
  /\ got = Empty /\ written = Empty /\ stored = Empty /\ generation = 0
  /\ file = NoFile

(* Faulty: one byte too many goes to a segment. *)
FullTooLate(cursor) == cursor.segment # Nil /\ cursor.pos > SegmentSize

(* The test of curPos in readBytes, readBytesAndConsume and writeBytes. *)
Full(cursor) == cursor.segment # Nil /\ cursor.pos = SegmentSize

(* The segments of the list that starts at s, in order. *)
List(s) ==
  LET prefix[n \in 0 .. MaxSegments] ==
        IF n = 0 THEN <<>>
        ELSE LET l == prefix[n - 1]
                 e == IF l = <<>> THEN s ELSE next[Last(l)]
             IN IF e = Nil THEN l ELSE Append(l, e)
  IN IF s = Nil THEN <<>> ELSE prefix[MaxSegments]

(* The next fields after the segments of l are linked in order before s.   *)
Linked(l, s) == [e \in Segments |->
                   IF \E i \in DOMAIN l : l[i] = e
                   THEN LET i == CHOOSE i \in DOMAIN l : l[i] = e
                        IN IF i = Len(l) THEN s ELSE l[i + 1]
                   ELSE next[e]]

(* releaseSegments of a list that holds the segments l. *)
Release(l) == /\ next' = Linked(l, top)
              /\ top' = IF l = <<>> THEN top ELSE Head(l)

(* The lists of all channels in one, the last channel's first. *)
Joined(lists) ==
  LET upTo[ch \in 0 .. NumChannels] == IF ch = 0 THEN <<>> ELSE lists[ch] \o upTo[ch - 1]
  IN upTo[NumChannels]

(* computeMemoryUsage *)
Filled(cursor) == cursor.pos + SegmentSize * cursor.finished

BytesAt(index) ==
  LET upTo[ch \in 0 .. NumChannels] == IF ch = 0 THEN 0 ELSE Filled(index[ch]) + upTo[ch - 1]
  IN upTo[NumChannels]

-----------------------------------------------------------------------------
(* Decompression *)

(* Faulty: the channel keeps the list that is being consumed. *)
InitDecompressKeepsHead(consume) ==
  /\ mode = "idle"
  /\ mode' = IF consume THEN "opened" ELSE "reading"
  /\ IF bytes = 0
     THEN reader' = "none" /\ UNCHANGED decompress
     ELSE /\ reader' = IF consume THEN "readBytesAndConsume" ELSE "readBytes"
          /\ decompress' = [ch \in Channels |-> NewIndex(head[ch])]
  /\ got' = Empty
  /\ UNCHANGED <<segments, head, compress, bytes, numSegments, written, stored,
                 generation, file>>

(* initDecompressStorage; with consume the list remains in the cursor only.*)
InitDecompress(consume) ==
  /\ mode = "idle"
  /\ mode' = IF consume THEN "opened" ELSE "reading"
  /\ IF bytes = 0
     THEN reader' = "none" /\ UNCHANGED <<decompress, head>>
     ELSE /\ reader' = IF consume THEN "readBytesAndConsume" ELSE "readBytes"
          /\ decompress' = [ch \in Channels |-> NewIndex(head[ch])]
          /\ head' = IF consume THEN [ch \in Channels |-> Nil] ELSE head
  /\ got' = Empty
  /\ UNCHANGED <<segments, compress, bytes, numSegments, written, stored,
                 generation, file>>

(* One byte of readBytes or readBytesAndConsume.  A cursor at the end of a *)
(* segment moves on only when another byte is asked for; past the last     *)
(* segment the reader, which fetches ahead, gets zeros.                    *)
Read(ch) ==
  LET d       == decompress[ch]
      crosses == Full(d)
      cursor  == IF crosses THEN [d EXCEPT !.segment = next[d.segment], !.pos = 0] ELSE d
  IN /\ mode \in {"reading", "update"} /\ reader # "none"
     /\ Len(got[ch]) < Len(stored[ch]) + Ahead
     /\ IF cursor.segment = Nil
        THEN /\ got' = [got EXCEPT ![ch] = Append(@, Unwritten)]
             /\ decompress' = [decompress EXCEPT ![ch] = cursor]
        ELSE /\ got' = [got EXCEPT ![ch] = Append(@, data[cursor.segment][cursor.pos])]
             /\ decompress' = [decompress EXCEPT ![ch] = [cursor EXCEPT !.pos = @ + 1]]
     /\ IF crosses /\ reader = "readBytesAndConsume" THEN Release(<<d.segment>>)
                                                    ELSE UNCHANGED <<next, top>>
     /\ UNCHANGED <<made, data, head, compress, bytes, numSegments, mode, reader,
                    written, stored, generation, file>>

(* What finishDecompressStorage collects, last segment first. *)
Collected == Joined([ch \in Channels |-> Reverse(List(decompress[ch].segment))])

(* Faulty: what the job did not read is not given back. *)
FinishConsumingKeeps ==
  /\ mode = "update"
  /\ mode' = "closing" /\ reader' = "none"
  /\ decompress' = [ch \in Channels |-> [decompress[ch] EXCEPT !.segment = Nil]]
  /\ got' = Empty
  /\ UNCHANGED <<segments, head, compress, bytes, numSegments, written, stored,
                 generation, file>>

(* finishDecompressStorage after a job that consumed, whether or not there *)
(* was anything to decompress.                                             *)
FinishConsuming ==
  /\ mode = "update"
  /\ mode' = "closing" /\ reader' = "none"
  /\ Release(Collected)
  /\ decompress' = [ch \in Channels |-> [decompress[ch] EXCEPT !.segment = Nil]]
  /\ got' = Empty
  /\ UNCHANGED <<made, data, head, compress, bytes, numSegments, written, stored,
                 generation, file>>

(* ... and after one that did not: the cursors keep their segments.        *)
FinishReading ==
  /\ mode = "reading"
  /\ mode' = "idle" /\ reader' = "none"
  /\ got' = Empty
  /\ UNCHANGED <<segments, cursors, bytes, numSegments, written, stored,
                 generation, file>>

-----------------------------------------------------------------------------
(* Compression *)

(* initCompressStorage, after initDecompressStorage. *)
InitCompress ==
  /\ mode = "opened"
  /\ mode' = "update"
  /\ compress' = [ch \in Channels |-> NewIndex(head[ch])]
  /\ written' = Empty
  /\ UNCHANGED <<segments, head, decompress, bytes, numSegments, reader, got,
                 stored, generation, file>>

(* newSegmentedArraySegment: the top of the free list, or a new segment.   *)
Fresh == IF top = Nil THEN made + 1 ELSE top
Allocate == IF top = Nil THEN made' = made + 1 /\ UNCHANGED top
                         ELSE top' = next[top] /\ UNCHANGED made

(* One byte of writeBytes.  A full segment is left only when another byte  *)
(* comes, for the segment linked behind it or for one that is allocated.   *)
Put(ch, byte) ==
  LET c       == compress[ch]
      first   == c.segment = Nil
      crosses == Full(c)
      grows   == first \/ (crosses /\ next[c.segment] = Nil)
      target  == IF grows THEN Fresh
                 ELSE IF crosses THEN next[c.segment] ELSE c.segment
      pos     == IF crosses THEN 0 ELSE c.pos
  IN /\ target \in Segments
     /\ IF grows
        THEN /\ Allocate
             /\ next' = [s \in Segments |-> IF s = target THEN Nil
                                            ELSE IF crosses /\ s = c.segment THEN target
                                            ELSE next[s]]
             /\ numSegments' = numSegments + 1
        ELSE UNCHANGED <<top, made, next, numSegments>>
     /\ head' = IF first THEN [head EXCEPT ![ch] = target] ELSE head
     /\ data' = [data EXCEPT ![target][pos] = byte]
     /\ compress' = [compress EXCEPT ![ch] =
                       [segment |-> target, pos |-> pos + 1,
                        finished |-> c.finished + (IF crosses THEN 1 ELSE 0)]]

(* Bytes are told apart by position and generation. *)
Byte(n) == 2 * n + generation

(* compressArray, or the flush in DeleteCompressor.                        *)
Write(ch) ==
  /\ mode \in {"update", "closing"} /\ Len(written[ch]) < MaxLength
  /\ LET byte == Byte(Len(written[ch]) + 1)
     IN Put(ch, byte) /\ written' = [written EXCEPT ![ch] = Append(@, byte)]
  /\ UNCHANGED <<decompress, bytes, mode, reader, got, stored, generation, file>>

(* finishCompressStorage *)
FinishCompress ==
  /\ mode = "closing"
  /\ mode' = "idle"
  /\ bytes' = BytesAt(compress)
  /\ stored' = written
  /\ generation' = 1 - generation
  /\ written' = Empty
  /\ UNCHANGED <<segments, cursors, numSegments, reader, got, file>>

-----------------------------------------------------------------------------
(* Scratch files *)

(* discardSingleCompressedStorage, as the loader gives the arrays to a     *)
(* subgame; that has no file yet, or the one dumpCompressedStorage makes   *)
(* of this contents: whole segments, whatever is used of the last.         *)
Discard ==
  /\ mode = "idle"
  /\ file' \in {NoFile, [chunks |-> [ch \in Channels |->
                                       LET l == List(head[ch])
                                       IN [i \in DOMAIN l |-> data[l[i]]]],
                         stored |-> stored]}
  /\ Release(Joined([ch \in Channels |-> List(head[ch])]))
  /\ head' = [ch \in Channels |-> Nil]
  /\ compress' = [ch \in Channels |-> NewIndex(Nil)]
  /\ decompress' = [ch \in Channels |-> NewIndex(Nil)]
  /\ bytes' = 0
  /\ mode' = "discarded"
  /\ stored' = Empty
  /\ UNCHANGED <<made, data, numSegments, reader, got, written, generation>>

(* loadCompressedStorage, a byte at a time. *)
Missing(ch) == SegmentSize * Len(file.chunks[ch]) - Filled(compress[ch])

LoadByte(ch) ==
  /\ mode = "discarded" /\ Missing(ch) > 0
  /\ LET n == SegmentSize * Len(file.chunks[ch]) - Missing(ch)
     IN Put(ch, file.chunks[ch][n \div SegmentSize + 1][n % SegmentSize])
  /\ UNCHANGED <<decompress, bytes, mode, reader, streams, file>>

FinishLoad ==
  /\ mode = "discarded" /\ \A ch \in Channels : Missing(ch) = 0
  /\ mode' = "idle"
  /\ bytes' = BytesAt(compress)
  /\ stored' = file.stored
  /\ file' = NoFile
  /\ UNCHANGED <<segments, cursors, numSegments, reader, got, written, generation>>

-----------------------------------------------------------------------------
Next == \/ \E consume \in BOOLEAN : InitDecompress(consume)
        \/ \E ch \in Channels : Read(ch) \/ Write(ch) \/ LoadByte(ch)
        \/ InitCompress \/ FinishConsuming \/ FinishReading \/ FinishCompress
        \/ Discard \/ FinishLoad

Spec == Init /\ [][Next]_vars
-----------------------------------------------------------------------------
(* Properties *)

IndexType == [segment : 0 .. MaxSegments, pos : 0 .. SegmentSize, finished : Nat]

TypeOK ==
  /\ top \in 0 .. MaxSegments /\ made \in 0 .. MaxSegments
  /\ next \in [Segments -> 0 .. MaxSegments]
  /\ data \in [Segments -> [Positions -> Nat]]
  /\ head \in [Channels -> 0 .. MaxSegments]
  /\ compress \in [Channels -> IndexType] /\ decompress \in [Channels -> IndexType]
  /\ bytes \in Nat /\ numSegments \in Nat
  /\ mode \in {"idle", "opened", "update", "closing", "reading", "discarded"}
  /\ reader \in {"none", "readBytes", "readBytesAndConsume"}
  /\ \A f \in {got, written, stored, file.stored} : f \in [Channels -> Seq(Nat)]

(* What the reader of a channel delivers begins with exactly the bytes     *)
(* that the last compression of the channel wrote, also while new contents *)
(* are written into segments it has given back (readBytesAndConsume and    *)
(* writeBytes on the same channel in a CFR job).  And a storage that has    *)
(* contents is never opened as if it had none (the NULL decompressor that  *)
(* decompresses to zeros), nor the other way.                              *)
ReadsBack ==
  /\ \A ch \in Channels : \A i \in DOMAIN got[ch] \cap DOMAIN stored[ch] :
       reader # "none" => got[ch][i] = stored[ch][i]
  /\ mode \in {"reading", "opened", "update"} => (reader = "none" <=> stored = Empty)

(* Every segment made is in one place only, once: the free list, a         *)
(* channel's list, or what a consuming reader has still to read.           *)
Places == {<<"free", 0>>} \cup ({"contents", "unread"} \X Channels)

Start(x) == CASE x[1] = "free" -> top
              [] x[1] = "contents" -> head[x[2]]
              [] x[1] = "unread" -> IF reader = "readBytesAndConsume"
                                    THEN decompress[x[2]].segment ELSE Nil

SegmentsConserved ==
  LET lists == [x \in Places |-> List(Start(x))]
      Uses(s) == {use \in Places \X Segments :
                    use[2] \in DOMAIN lists[use[1]] /\ lists[use[1]][use[2]] = s}
  IN \A s \in Segments : Cardinality(Uses(s)) = IF s <= made THEN 1 ELSE 0
=============================================================================
