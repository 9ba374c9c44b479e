---------------------------- MODULE SegmentPool ----------------------------
(***************************************************************************)
(* What compressed storage needs of its segment allocator: every segment   *)
(* ever allocated is either free or held by one thread, taking a segment   *)
(* and releasing a whole list of them are single steps, and none is lost.  *)
(***************************************************************************)
CONSTANTS Segments, Threads

VARIABLES free,  \* segments in the global free list
          held   \* the segments each thread's compressed arrays use

Allocated == free \cup UNION {held[w] : w \in Threads}

Init == /\ free = {}
        /\ held \in [Threads -> SUBSET Segments]
        /\ \A v, w \in Threads : v # w => held[v] \cap held[w] = {}

(* A free segment, or a new one (xmalloc). *)
Take(w) == \E s \in free \cup (Segments \ Allocated) :
             /\ free' = free \ {s}
             /\ held' = [held EXCEPT ![w] = @ \cup {s}]

(* A list of segments the thread no longer needs. *)
Release(w) == \E S \in (SUBSET held[w]) \ {{}} :
                /\ free' = free \cup S
                /\ held' = [held EXCEPT ![w] = @ \ S]

Next == \E w \in Threads : Take(w) \/ Release(w)

Spec == Init /\ [][Next]_<<free, held>>
=============================================================================
