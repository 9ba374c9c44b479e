------------------------------ MODULE WorkQueue ------------------------------
(***************************************************************************)
(* The ring buffer that carries subgame indices between threads (struct    *)
(* Queue in cfr.c and the g_work/g_scratch* arrays beside it), at the      *)
(* granularity of its semaphore operations, its plain reads and writes     *)
(* and its compare-and-swap.  Producers submit the jobs of one pass of     *)
(* the game tree; consumers take them, perform them and post `finished`;   *)
(* the next pass starts when every job of the pass has been reported.      *)
(***************************************************************************)
EXTENDS Integers, FiniteSets

CONSTANTS Jobs,       \* subgames submitted in one pass
          Producers,  \* threads that add (trunk thread, loader, main, ...)
          Consumers,  \* threads that remove (workers, or the one loader ...)
          Size,       \* CFRParams.queueSize
          None        \* "no job"

ASSUME SizeAssumption == Size \in Nat \ {0}
ASSUME ThreadAssumption == /\ IsFiniteSet(Producers) /\ IsFiniteSet(Consumers)
                           /\ Producers \cap Consumers = {}
ASSUME JobsAssumption == IsFiniteSet(Jobs) /\ None \notin Jobs

VARIABLES
  head, tail,             \* the Queue's two indices
  numReady, spaceLeft,    \* its counting semaphores
  addSerialise,           \* its binary semaphore
  slot,                   \* the array of items beside the Queue
  pc, at, item,           \* each thread's program point, ring index (0 when
                          \* out of scope) and job
  submitted,              \* jobs a producer has taken up in this pass
  finished,               \* SubgameSpec.finished, a semaphore per subgame
  unread,                 \* history: slots filled and not yet copied out
  base, added, claimed    \* history: tail when the pass began, and how many
                          \* items were added and claimed since

queue   == <<head, tail, numReady, spaceLeft, addSerialise, slot>>
threads == <<pc, at, item>>
history == <<unread, base, added, claimed>>
vars    == <<queue, threads, submitted, finished, history>>

Threads == Producers \cup Consumers
Slots   == 0 .. Size - 1

(* ( i + 1 ) % size, for i a slot. *)
Advance(i) == IF i + 1 = Size THEN 0 ELSE i + 1

ProducerPoints == {"idle", "serialise", "fill", "finish", "postReady"}
ConsumerPoints == {"wait", "claim", "cas", "copy", "postSpace", "perform"}

(* initQueue, and the threads before their first call. *)
Init ==
  /\ head = 0 /\ tail = 0
  /\ numReady = 0 /\ spaceLeft = Size /\ addSerialise = 1
  /\ slot = [i \in Slots |-> None]
  /\ pc = [t \in Threads |-> IF t \in Producers THEN "idle" ELSE "wait"]
  /\ at = [t \in Threads |-> 0]
  /\ item = [t \in Threads |-> None]
  /\ submitted = {}
  /\ finished = [j \in Jobs |-> 0]
  /\ unread = {} /\ base = 0 /\ added = 0 /\ claimed = 0

Goto(t, point) == pc' = [pc EXCEPT ![t] = point]

-----------------------------------------------------------------------------
(* Adding: waitToAddToQueue, the caller's store, finishAddToQueue. *)

(* sem_wait( &wq->spaceLeft ), with the job the caller is about to add. *)
WaitSpace(p) ==
  /\ pc[p] = "idle" /\ spaceLeft > 0
  /\ \E j \in Jobs \ submitted :
       /\ item' = [item EXCEPT ![p] = j]
       /\ submitted' = submitted \cup {j}
  /\ spaceLeft' = spaceLeft - 1
  /\ Goto(p, "serialise")
  /\ UNCHANGED <<head, tail, numReady, addSerialise, slot, at, finished, history>>

(* Faulty: producers are not serialised. *)
WaitSerialiseOpen(p) ==
  /\ pc[p] = "serialise"
  /\ at' = [at EXCEPT ![p] = tail]
  /\ Goto(p, "fill")
  /\ UNCHANGED <<head, tail, numReady, spaceLeft, addSerialise, slot, item,
                 submitted, finished, history>>

(* sem_wait( &wq->addSerialise ); return wq->tail *)
WaitSerialise(p) ==
  /\ pc[p] = "serialise" /\ addSerialise > 0
  /\ addSerialise' = addSerialise - 1
  /\ at' = [at EXCEPT ![p] = tail]
  /\ Goto(p, "fill")
  /\ UNCHANGED <<head, tail, numReady, spaceLeft, slot, item, submitted,
                 finished, history>>

(* The caller copies its item into the slot. *)
Fill(p) ==
  /\ pc[p] = "fill"
  /\ slot' = [slot EXCEPT ![at[p]] = item[p]]
  /\ unread' = unread \cup {at[p]}
  /\ Goto(p, "finish")
  /\ UNCHANGED <<head, tail, numReady, spaceLeft, addSerialise, at, item,
                 submitted, finished, base, added, claimed>>

(* Moves the tail and lets the next producer in. *)
FinishAdd(p) ==
  /\ pc[p] = "finish"
  /\ tail' = Advance(tail)
  /\ addSerialise' = addSerialise + 1
  /\ added' = added + 1
  /\ Goto(p, "postReady")
  /\ UNCHANGED <<head, numReady, spaceLeft, slot, at, item, submitted,
                 finished, unread, base, claimed>>

(* sem_post( &wq->numReady ) *)
PostReady(p) ==
  /\ pc[p] = "postReady"
  /\ numReady' = numReady + 1
  /\ item' = [item EXCEPT ![p] = None]
  /\ at' = [at EXCEPT ![p] = 0]
  /\ Goto(p, "idle")
  /\ UNCHANGED <<head, tail, spaceLeft, addSerialise, slot, submitted,
                 finished, history>>

-----------------------------------------------------------------------------
(* Removing: waitToRemoveFromQueue, the caller's copy, its sem_post. *)

(* sem_wait( &wq->numReady ) *)
WaitReady(c) ==
  /\ pc[c] = "wait" /\ numReady > 0
  /\ numReady' = numReady - 1
  /\ Goto(c, "claim")
  /\ UNCHANGED <<head, tail, spaceLeft, addSerialise, slot, at, item,
                 submitted, finished, history>>

(* curHead = wq->head *)
ReadHead(c) ==
  /\ pc[c] = "claim"
  /\ at' = [at EXCEPT ![c] = head]
  /\ Goto(c, "cas")
  /\ UNCHANGED <<queue, item, submitted, finished, history>>

(* Faulty: head is stored without comparing it. *)
CasBlind(c) ==
  /\ pc[c] = "cas"
  /\ head' = Advance(at[c]) /\ claimed' = claimed + 1
  /\ Goto(c, "copy")
  /\ UNCHANGED <<tail, numReady, spaceLeft, addSerialise, slot, at, item,
                 submitted, finished, unread, base, added>>

(* Faulty: after a failed compare-and-swap the consumer waits again. *)
CasGivesUp(c) ==
  /\ pc[c] = "cas"
  /\ IF head = at[c]
     THEN head' = Advance(head) /\ claimed' = claimed + 1 /\ Goto(c, "copy")
     ELSE UNCHANGED <<head, claimed>> /\ Goto(c, "wait")
  /\ UNCHANGED <<tail, numReady, spaceLeft, addSerialise, slot, at, item,
                 submitted, finished, unread, base, added>>

(* The compare-and-swap of head; a failed one loops. *)
Cas(c) ==
  /\ pc[c] = "cas"
  /\ IF head = at[c]
     THEN head' = Advance(head) /\ claimed' = claimed + 1 /\ Goto(c, "copy")
     ELSE UNCHANGED <<head, claimed>> /\ Goto(c, "claim")
  /\ UNCHANGED <<tail, numReady, spaceLeft, addSerialise, slot, at, item,
                 submitted, finished, unread, base, added>>

(* The caller copies the item out of the slot it claimed. *)
CopyOut(c) ==
  /\ pc[c] = "copy"
  /\ item' = [item EXCEPT ![c] = slot[at[c]]]
  /\ unread' = unread \ {at[c]}
  /\ Goto(c, "postSpace")
  /\ UNCHANGED <<queue, at, submitted, finished, base, added, claimed>>

(* sem_post( &wq->spaceLeft ) *)
PostSpace(c) ==
  /\ pc[c] = "postSpace"
  /\ spaceLeft' = spaceLeft + 1
  /\ at' = [at EXCEPT ![c] = 0]
  /\ Goto(c, "perform")
  /\ UNCHANGED <<head, tail, numReady, addSerialise, slot, item, submitted,
                 finished, history>>

(* The job is performed and its subgame's `finished` posted. *)
Perform(c) ==
  /\ pc[c] = "perform"
  /\ finished' = [finished EXCEPT ![item[c]] = @ + 1]
  /\ item' = [item EXCEPT ![c] = None]
  /\ Goto(c, "wait")
  /\ UNCHANGED <<queue, at, submitted, history>>

-----------------------------------------------------------------------------
(* Faulty: main waits for one of the jobs only. *)
NextPassEarly ==
  /\ submitted = Jobs /\ \E j \in Jobs : finished[j] > 0
  /\ \A p \in Producers : pc[p] = "idle"
  /\ finished' = [j \in Jobs |-> 0]
  /\ submitted' = {}
  /\ base' = tail /\ added' = 0 /\ claimed' = 0
  /\ UNCHANGED <<queue, threads, unread>>

(* The main thread has waited on `finished` of every subgame of the pass   *)
(* and starts the next one.                                                *)
NextPass ==
  /\ submitted = Jobs /\ \A j \in Jobs : finished[j] > 0
  /\ \A p \in Producers : pc[p] = "idle"
  /\ finished' = [j \in Jobs |-> finished[j] - 1]
  /\ submitted' = {}
  /\ base' = tail /\ added' = 0 /\ claimed' = 0
  /\ UNCHANGED <<queue, threads, unread>>

Add(p)    == WaitSpace(p) \/ WaitSerialise(p) \/ Fill(p) \/ FinishAdd(p)
             \/ PostReady(p)
Remove(c) == WaitReady(c) \/ ReadHead(c) \/ Cas(c) \/ CopyOut(c)
             \/ PostSpace(c) \/ Perform(c)

Next == \/ \E p \in Producers : Add(p)
        \/ \E c \in Consumers : Remove(c)
        \/ NextPass

Spec == Init /\ [][Next]_vars

(* The operating system runs every runnable thread: weak fairness.  The    *)
(* binary semaphore is given to each of the producers that compete for it  *)
(* in the end: strong fairness.                                            *)
FairSpec ==
  /\ Spec
  /\ \A p \in Producers : WF_vars(Add(p)) /\ SF_vars(WaitSerialise(p))
  /\ \A c \in Consumers : WF_vars(Remove(c))
  /\ WF_vars(NextPass)
-----------------------------------------------------------------------------
(* Properties *)

TypeOK ==
  /\ head \in Slots /\ tail \in Slots
  /\ numReady \in Nat /\ spaceLeft \in Nat /\ addSerialise \in {0, 1}
  /\ slot \in [Slots -> Jobs \cup {None}]
  /\ pc \in [Threads -> ProducerPoints \cup ConsumerPoints]
  /\ \A p \in Producers : pc[p] \in ProducerPoints
  /\ \A c \in Consumers : pc[c] \in ConsumerPoints
  /\ at \in [Threads -> Slots]
  /\ item \in [Threads -> Jobs \cup {None}]
  /\ submitted \subseteq Jobs
  /\ finished \in [Jobs -> Nat]
  /\ unread \subseteq Slots
  /\ base \in Slots /\ added \in Nat /\ claimed \in Nat

(* A producer never stores over an item nobody has copied out yet: no job  *)
(* of the pass is lost (the store between waitToAddToQueue and             *)
(* finishAddToQueue).                                                      *)
NoOverwrite == \A p \in Producers : pc[p] = "fill" => at[p] \notin unread

(* A consumer copies out a slot that was filled for it, and no other       *)
(* consumer is about to copy the same slot: no job is handed out twice     *)
(* (the lock-free removal in waitToRemoveFromQueue).                       *)
OwnsClaim ==
  \A c \in Consumers : pc[c] = "copy" =>
    /\ at[c] \in unread
    /\ \A d \in Consumers \ {c} : pc[d] = "copy" => at[d] # at[c]

(* The ring, its semaphores and its threads together are the job service:  *)
(* within a pass each submitted job is started once and finished once, and *)
(* the next pass starts only when nothing is pending or running.           *)
ToFill  == {p \in Producers : pc[p] \in {"serialise", "fill"}}
InHand  == {c \in Consumers : pc[c] \in {"postSpace", "perform"}}
Pending == {item[p] : p \in ToFill} \cup {slot[i] : i \in unread}
Running == {item[c] : c \in InHand}
Done    == {j \in Jobs : finished[j] > 0}

Service == INSTANCE JobService
           WITH pending <- Pending, running <- Running, finished <- Done

ServesJobs == Service!Spec

(* A pass that has begun ends: no producer, consumer or main thread waits  *)
(* for a semaphore that nobody will post, and no job is left in the ring.  *)
PassesComplete == (submitted # {}) ~> (submitted = {})

-----------------------------------------------------------------------------
(* The inductive invariant for passes that fit into the ring,              *)
(* Cardinality(Jobs) <= Size, with any number of producers and consumers.  *)

(* The slot k places after the one where the pass began. *)
Place(k) == IF base + k < Size THEN base + k ELSE base + k - Size

(* How many threads are at the given points. *)
Count(T, points) == Cardinality({t \in T : pc[t] \in points})

NumAdding   == Count(Producers, {"serialise", "fill", "finish"})
NumPosting  == Count(Producers, {"postReady"})
NumClaiming == Count(Consumers, {"claim", "cas"})
NumHolding  == Count(Consumers, {"copy", "postSpace", "perform"})

(* Threads that hold a job which is in no slot. *)
Carrying == ToFill \cup InHand

IndicesInv == /\ claimed <= added /\ added <= Size
              /\ head = Place(claimed) /\ tail = Place(added)

OneFillerInv ==
  \A p \in Producers : pc[p] \in {"fill", "finish"} =>
    /\ addSerialise = 0 /\ at[p] = tail
    /\ pc[p] = "finish" => at[p] \in unread
    /\ \A q \in Producers \ {p} : pc[q] \notin {"fill", "finish"}

(* unread is what is added and unclaimed, claimed and uncopied, or filled  *)
(* and not yet added.                                                      *)
AddedUnread == \A k \in claimed .. added - 1 : Place(k) \in unread

UnreadPlaces ==
  \A i \in unread :
    \/ \E k \in claimed .. added - 1 : i = Place(k)
    \/ \E c \in Consumers : pc[c] = "copy" /\ at[c] = i
    \/ \E p \in Producers : pc[p] = "finish" /\ at[p] = i

CopyPlaces == \A c \in Consumers : pc[c] = "copy" =>
                \E k \in 0 .. claimed - 1 : at[c] = Place(k)

CountInv ==
  /\ added + NumAdding = Cardinality(submitted)
  /\ numReady + NumPosting + NumClaiming + claimed = added
  /\ NumHolding + Cardinality(Done) = claimed

(* Every job is in one place only. *)
JobsInv ==
  /\ \A t \in Carrying : item[t] \in submitted /\ finished[item[t]] = 0
  /\ \A i \in unread : slot[i] \in submitted /\ finished[slot[i]] = 0
  /\ \A s, t \in Carrying : item[s] = item[t] => s = t
  /\ \A i, k \in unread : slot[i] = slot[k] => i = k
  /\ \A t \in Carrying, i \in unread : item[t] # slot[i]
  /\ \A j \in Jobs : finished[j] <= 1 /\ (finished[j] > 0 => j \in submitted)

PassInv == TypeOK /\ IndicesInv /\ OneFillerInv /\ OwnsClaim
           /\ AddedUnread /\ UnreadPlaces /\ CopyPlaces /\ CountInv /\ JobsInv
=============================================================================
