---------------------------- MODULE FreeSegments ----------------------------
(***************************************************************************)
(* The global list of free segments of storage.c: newSegmentedArraySegment *)
(* pops its first element and releaseSegments pushes a whole linked list,  *)
(* both with a compare-and-swap of g_freeSegments and no lock.  Each       *)
(* thread writes one linked list of segments (a channel of a compressed    *)
(* array) while it consumes another (the channel's previous contents).     *)
(***************************************************************************)
EXTENDS Integers, SequencesExt

CONSTANTS Segments,   \* bounds the segments that may be xmalloc'd
          Threads,    \* threads with compressed arrays of their own
          Takers,     \* those that also compress, i.e. take new segments
          MaxHeld,    \* bound: segments one thread holds at once
          Nil

ASSUME TakersAssumption == Takers \subseteq Threads
ASSUME SegmentsAssumption == Nil \notin Segments /\ IsFiniteSet(Segments)

VARIABLES top,      \* g_freeSegments
          made,     \* the segments xmalloc'd so far (g_numSegments of them)
          next,     \* SegmentedArraySegment.next of every segment
          chain,    \* the segments each thread has written, first to last
          old,      \* those it is reading and giving back
          out,      \* the list it is inside releaseSegments with (*s)
          pc,       \* each thread's program point
          seg,      \* its local variable t
          succ      \* the t->next it passed to the compare-and-swap

lists == <<chain, old, out>>
vars == <<top, made, next, lists, pc, seg, succ>>

Goto(w, point) == pc' = [pc EXCEPT ![w] = point]

(* Each thread starts with a channel of its own, correctly linked.         *)
Init ==
  /\ top = Nil
  /\ \E f \in Injection(Threads, Segments) : chain = [w \in Threads |-> <<f[w]>>]
  /\ made = UNION {Range(chain[w]) : w \in Threads}
  /\ next = [s \in Segments |-> Nil]
  /\ old = [w \in Threads |-> <<>>]
  /\ out = [w \in Threads |-> <<>>]
  /\ pc = [w \in Threads |-> "idle"]
  /\ seg = [w \in Threads |-> Nil]
  /\ succ = [w \in Threads |-> Nil]

-----------------------------------------------------------------------------
(* newSegmentedArraySegment, called by writeBytes, loadCompressedStorage   *)

(* Faulty: an empty free list is not noticed. *)
ReadTopNoMalloc(w) ==
  /\ \/ pc[w] = "idle" /\ w \in Takers /\ Len(chain[w]) + Len(old[w]) < MaxHeld
     \/ pc[w] = "retry"
  /\ seg' = [seg EXCEPT ![w] = top]
  /\ Goto(w, IF top = Nil THEN "init" ELSE "next")
  /\ UNCHANGED <<top, made, next, lists, succ>>

(* t = g_freeSegments *)
ReadTop(w) ==
  /\ \/ pc[w] = "idle" /\ w \in Takers /\ Len(chain[w]) + Len(old[w]) < MaxHeld
     \/ pc[w] = "retry"
  /\ seg' = [seg EXCEPT ![w] = top]
  /\ Goto(w, IF top = Nil THEN "malloc" ELSE "next")
  /\ UNCHANGED <<top, made, next, lists, succ>>

(* The argument t->next is read before the compare-and-swap is executed.   *)
ReadNext(w) ==
  /\ pc[w] = "next"
  /\ succ' = [succ EXCEPT ![w] = next[seg[w]]]
  /\ Goto(w, "pop")
  /\ UNCHANGED <<top, made, next, lists, seg>>

PopCas(w) ==
  /\ pc[w] = "pop"
  /\ IF top = seg[w] THEN top' = succ[w] /\ Goto(w, "init")
                     ELSE UNCHANGED top /\ Goto(w, "retry")
  /\ succ' = [succ EXCEPT ![w] = Nil]
  /\ UNCHANGED <<made, next, lists, seg>>

(* xmalloc returns a new segment, counted in g_numSegments. *)
Malloc(w) ==
  /\ pc[w] = "malloc"
  /\ \E s \in Segments \ made : /\ seg' = [seg EXCEPT ![w] = s]
                               /\ made' = made \cup {s}
  /\ Goto(w, "init")
  /\ UNCHANGED <<top, next, lists, succ>>

(* Faulty: a recycled segment keeps its next. *)
InitSegmentForgotten(w) ==
  /\ pc[w] = "init"
  /\ Goto(w, "append")
  /\ UNCHANGED <<top, made, next, lists, seg, succ>>

(* t->next = NULL *)
InitSegment(w) ==
  /\ pc[w] = "init"
  /\ next' = [next EXCEPT ![seg[w]] = Nil]
  /\ Goto(w, "append")
  /\ UNCHANGED <<top, made, lists, seg, succ>>

(* writeBytes: the channel's head, or curSegment->next, becomes t. *)
LinkSegment(w) ==
  /\ pc[w] = "append"
  /\ next' = IF chain[w] = <<>> THEN next
             ELSE [next EXCEPT ![Last(chain[w])] = seg[w]]
  /\ chain' = [chain EXCEPT ![w] = Append(@, seg[w])]
  /\ seg' = [seg EXCEPT ![w] = Nil]
  /\ Goto(w, "idle")
  /\ UNCHANGED <<top, made, old, out, succ>>

-----------------------------------------------------------------------------
(* Giving segments back *)

(* initDecompressStorage with consumeCompressed: the channel's segments    *)
(* stay reachable from the decompress index only.                          *)
StartConsuming(w) ==
  /\ pc[w] = "idle" /\ old[w] = <<>> /\ chain[w] # <<>>
  /\ old' = [old EXCEPT ![w] = chain[w]]
  /\ chain' = [chain EXCEPT ![w] = <<>>]
  /\ UNCHANGED <<top, made, next, out, pc, seg, succ>>

(* readBytesAndConsume and finishDecompressStorage relink the segments     *)
(* they have read, last read first, and release them.                      *)
Consume(w) ==
  /\ pc[w] = "idle" /\ old[w] # <<>>
  /\ \E n \in 1 .. Len(old[w]) :
       /\ out' = [out EXCEPT ![w] = Reverse(SubSeq(old[w], 1, n))]
       /\ old' = [old EXCEPT ![w] = SubSeq(@, n + 1, Len(@))]
       /\ next' = [s \in Segments |->
            IF \E i \in 1 .. n : old[w][i] = s
            THEN LET i == CHOOSE i \in 1 .. n : old[w][i] = s
                 IN IF i = 1 THEN Nil ELSE old[w][i - 1]
            ELSE next[s]]
  /\ Goto(w, "link")
  /\ UNCHANGED <<top, made, chain, seg, succ>>

(* discardSingleCompressedStorage releases a channel from its head. *)
Discard(w) ==
  /\ pc[w] = "idle" /\ old[w] = <<>> /\ chain[w] # <<>>
  /\ out' = [out EXCEPT ![w] = chain[w]]
  /\ chain' = [chain EXCEPT ![w] = <<>>]
  /\ Goto(w, "link")
  /\ UNCHANGED <<top, made, next, old, seg, succ>>

(* releaseSegments: e, the last segment, gets e->next = g_freeSegments. *)
LinkToFree(w) ==
  /\ pc[w] = "link"
  /\ next' = [next EXCEPT ![Last(out[w])] = top]
  /\ Goto(w, "push")
  /\ UNCHANGED <<top, made, lists, seg, succ>>

(* Faulty: the new top is stored without comparing, *)
PushBlind(w) ==
  /\ pc[w] = "push"
  /\ top' = Head(out[w])
  /\ out' = [out EXCEPT ![w] = <<>>]
  /\ Goto(w, "idle")
  /\ UNCHANGED <<made, next, chain, old, seg, succ>>

(* or is not tried again when the top has changed. *)
PushOnce(w) ==
  /\ pc[w] = "push"
  /\ top' = IF top = next[Last(out[w])] THEN Head(out[w]) ELSE top
  /\ out' = [out EXCEPT ![w] = <<>>]
  /\ Goto(w, "idle")
  /\ UNCHANGED <<made, next, chain, old, seg, succ>>

(* CAS( &g_freeSegments, e->next, *s ); *s = NULL *)
PushCas(w) ==
  /\ pc[w] = "push"
  /\ IF top = next[Last(out[w])]
     THEN /\ top' = Head(out[w])
          /\ out' = [out EXCEPT ![w] = <<>>]
          /\ Goto(w, "idle")
     ELSE UNCHANGED <<top, out>> /\ Goto(w, "link")
  /\ UNCHANGED <<made, next, chain, old, seg, succ>>

NewSegment(w) == ReadTop(w) \/ ReadNext(w) \/ PopCas(w) \/ Malloc(w)
                 \/ InitSegment(w) \/ LinkSegment(w)
Release(w)    == StartConsuming(w) \/ Consume(w) \/ Discard(w)
                 \/ LinkToFree(w) \/ PushCas(w)

Next == \E w \in Threads : NewSegment(w) \/ Release(w)

Spec == Init /\ [][Next]_vars

-----------------------------------------------------------------------------
(* Properties *)

TypeOK ==
  /\ top \in Segments \cup {Nil}
  /\ made \subseteq Segments
  /\ next \in [Segments -> Segments \cup {Nil}]
  /\ \A l \in {chain, old, out} : l \in [Threads -> Seq(Segments)]
  /\ pc \in [Threads -> {"idle", "retry", "next", "pop", "malloc", "init",
                         "append", "link", "push"}]
  /\ seg \in [Threads -> Segments \cup {Nil}]
  /\ succ \in [Threads -> Segments \cup {Nil}]

(* The list from top, cut off when it is longer than it can be. *)
Reached[n \in 0 .. Cardinality(Segments)] ==
  IF n = 0 THEN top
  ELSE IF Reached[n - 1] = Nil THEN Nil ELSE next[Reached[n - 1]]

FreeList == {Reached[n] : n \in 0 .. Cardinality(Segments)} \ {Nil}

Held(w) == Range(chain[w]) \cup Range(old[w]) \cup Range(out[w])
           \cup (IF pc[w] \in {"init", "append"} THEN {seg[w]} ELSE {})

(* A segment holds the data of one channel only: it is never linked into   *)
(* two channels, nor into one and into the free list.                      *)
OneUse ==
  /\ \A v, w \in Threads : v # w => Held(v) \cap Held(w) = {}
  /\ \A w \in Threads : Held(w) \cap FreeList = {}

(* Following `next` meets the segments of a list in their order, so the    *)
(* decompressor reads the bytes in the order the compressor wrote them.    *)
(* The free list ends (destroyFreeSegments terminates, nothing is freed    *)
(* twice).                                                                 *)
Linked(l) == \A i \in 1 .. Len(l) - 1 : next[l[i]] = l[i + 1]
Ended(l)  == l # <<>> => next[Last(l)] = Nil

ListsLinked ==
  /\ Reached[Cardinality(Segments)] = Nil
  /\ \A w \in Threads : /\ Linked(chain[w]) /\ Ended(chain[w])
                         /\ Linked(old[w]) /\ Ended(old[w])
                         /\ Linked(out[w])

(* Taking and releasing look like single steps of an allocator. *)
Pool == INSTANCE SegmentPool WITH free <- FreeList, held <- [w \in Threads |-> Held(w)]
Linearizes == Pool!Spec
=============================================================================
