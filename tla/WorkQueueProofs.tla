-------------------------- MODULE WorkQueueProofs --------------------------
(***************************************************************************)
(* For every number of producers and consumers: if the jobs of a pass fit  *)
(* into the ring, no job is overwritten or handed out twice, and the ring  *)
(* implements the job service.  With a single consumer (the loader, the    *)
(* dumper) the same is so for a ring of any size.                          *)
(***************************************************************************)
EXTENDS WorkQueue, FiniteSetTheorems, TLAPS

PassFits    == Cardinality(Jobs) <= Size
OneConsumer == \A c, d \in Consumers : c = d

-----------------------------------------------------------------------------
(* Counting threads *)

(* Putting t into a finite set, or taking it out.                          *)
LEMMA CardinalityChange ==
  ASSUME NEW S, IsFiniteSet(S), NEW t, NEW G, NEW enters \in BOOLEAN,
         G = IF enters THEN S \cup {t} ELSE S \ {t}
  PROVE  /\ Cardinality(S) \in Nat
         /\ Cardinality(G) = Cardinality(S) + (IF enters THEN 1 ELSE 0)
                               - (IF t \in S THEN 1 ELSE 0)
<1>1. Cardinality(S) \in Nat BY FS_CardinalityType
<1>2. CASE enters
  <2>1. Cardinality(G) = IF t \in S THEN Cardinality(S) ELSE Cardinality(S) + 1
    BY <1>2, FS_AddElement
  <2> QED BY <2>1, <1>1, <1>2
<1>3. CASE ~enters
  <2>1. Cardinality(G) = IF t \in S THEN Cardinality(S) - 1 ELSE Cardinality(S)
    BY <1>3, FS_RemoveElement
  <2> QED BY <2>1, <1>1, <1>3
<1> QED BY <1>1, <1>2, <1>3

(* A count is a number, and it is zero only when no thread is there.      *)
LEMMA CountZero ==
  ASSUME NEW T, IsFiniteSet(T), NEW f, NEW points
  PROVE  LET n == Cardinality({x \in T : f[x] \in points})
         IN n \in Nat /\ (n = 0 => \A x \in T : f[x] \notin points)
<1> DEFINE S == {x \in T : f[x] \in points}
<1>1. IsFiniteSet(S) BY FS_Subset
<1>2. Cardinality(S) \in Nat BY <1>1, FS_CardinalityType
<1>3. Cardinality(S) = 0 => S = {} BY <1>1, FS_EmptySet
<1> QED BY <1>2, <1>3

Numbers == /\ NumAdding \in Nat /\ NumPosting \in Nat
           /\ NumClaiming \in Nat /\ NumHolding \in Nat

LEMMA NumbersType == Numbers
BY CountZero, ThreadAssumption
DEF Numbers, NumAdding, NumPosting, NumClaiming, NumHolding, Count

LEMMA NoneThere ==
  /\ NumAdding = 0 => \A p \in Producers : pc[p] \notin {"serialise", "fill", "finish"}
  /\ NumPosting = 0 => \A p \in Producers : pc[p] # "postReady"
  /\ NumClaiming = 0 => \A c \in Consumers : pc[c] \notin {"claim", "cas"}
  /\ NumHolding = 0 => \A c \in Consumers : pc[c] \notin {"copy", "postSpace", "perform"}
<1>1. NumAdding = 0 => \A p \in Producers : pc[p] \notin {"serialise", "fill", "finish"}
  BY CountZero, ThreadAssumption DEF NumAdding, Count
<1>2. NumPosting = 0 => \A p \in Producers : pc[p] \notin {"postReady"}
  BY CountZero, ThreadAssumption DEF NumPosting, Count
<1>3. NumClaiming = 0 => \A c \in Consumers : pc[c] \notin {"claim", "cas"}
  BY CountZero, ThreadAssumption DEF NumClaiming, Count
<1>4. NumHolding = 0 => \A c \in Consumers : pc[c] \notin {"copy", "postSpace", "perform"}
  BY CountZero, ThreadAssumption DEF NumHolding, Count
<1> QED BY <1>1, <1>2, <1>3, <1>4

(* Moving one thread to another program point changes the number of        *)
(* threads at given points by at most one.                                 *)
Bit(b) == IF b THEN 1 ELSE 0

LEMMA CountMoves ==
  ASSUME TypeOK, NEW t \in Threads, NEW v, Goto(t, v), NEW points,
         NEW T \in {Producers, Consumers}
  PROVE  Count(T, points)' = Count(T, points) + Bit(t \in T /\ v \in points)
                               - Bit(t \in T /\ pc[t] \in points)
<1> DEFINE S == {x \in T : pc[x] \in points}
           G == {x \in T : pc'[x] \in points}
           enters == t \in T /\ v \in points
<1>1. IsFiniteSet(S) BY ThreadAssumption, FS_Subset
<1>2. t \in S <=> t \in T /\ pc[t] \in points OBVIOUS
<1>3. T \subseteq Threads /\ pc \in [Threads -> ProducerPoints \cup ConsumerPoints]
  BY DEF Threads, TypeOK
<1>4. G = IF enters THEN S \cup {t} ELSE S \ {t} BY <1>3 DEF Goto
<1>5. enters \in BOOLEAN OBVIOUS
<1>6. /\ Cardinality(S) \in Nat
      /\ Cardinality(G) = Cardinality(S) + (IF enters THEN 1 ELSE 0)
                            - (IF t \in S THEN 1 ELSE 0)
  <2> HIDE DEF S, G, enters
  <2> QED BY ONLY <1>1, <1>4, <1>5, CardinalityChange
<1> QED BY <1>2, <1>6 DEF Count, Bit

(* How a producer's, and a consumer's, move changes the four numbers.     *)
LEMMA ProducerMoves ==
  ASSUME TypeOK, NEW p \in Producers, NEW v, Goto(p, v)
  PROVE  /\ NumAdding' = NumAdding + Bit(v \in {"serialise", "fill", "finish"})
                           - Bit(pc[p] \in {"serialise", "fill", "finish"})
         /\ NumPosting' = NumPosting + Bit(v = "postReady") - Bit(pc[p] = "postReady")
         /\ NumClaiming' = NumClaiming /\ NumHolding' = NumHolding
<1>1. p \in Threads /\ p \notin Consumers BY ThreadAssumption DEF Threads
<1>2. \A points : Count(Producers, points)' = Count(Producers, points)
                   + Bit(v \in points) - Bit(pc[p] \in points)
  BY <1>1, CountMoves DEF Bit
<1>3. \A points : Count(Consumers, points)' = Count(Consumers, points) + 0 - 0
  BY <1>1, CountMoves DEF Bit
<1> QED BY <1>2, <1>3, NumbersType
        DEF Numbers, NumAdding, NumPosting, NumClaiming, NumHolding, Bit

LEMMA ConsumerMoves ==
  ASSUME TypeOK, NEW c \in Consumers, NEW v, Goto(c, v)
  PROVE  /\ NumClaiming' = NumClaiming + Bit(v \in {"claim", "cas"})
                             - Bit(pc[c] \in {"claim", "cas"})
         /\ NumHolding' = NumHolding + Bit(v \in {"copy", "postSpace", "perform"})
                            - Bit(pc[c] \in {"copy", "postSpace", "perform"})
         /\ NumAdding' = NumAdding /\ NumPosting' = NumPosting
<1>1. c \in Threads /\ c \notin Producers BY ThreadAssumption DEF Threads
<1>2. \A points : Count(Consumers, points)' = Count(Consumers, points)
                   + Bit(v \in points) - Bit(pc[c] \in points)
  BY <1>1, CountMoves DEF Bit
<1>3. \A points : Count(Producers, points)' = Count(Producers, points) + 0 - 0
  BY <1>1, CountMoves DEF Bit
<1> QED BY <1>2, <1>3, NumbersType
        DEF Numbers, NumAdding, NumPosting, NumClaiming, NumHolding, Bit

(* The sets of jobs that are counted are finite. *)
LEMMA Cards ==
  ASSUME TypeOK
  PROVE  /\ IsFiniteSet(submitted) /\ IsFiniteSet(Done)
         /\ Cardinality(submitted) \in Nat /\ Cardinality(Done) \in Nat
         /\ Cardinality(Jobs) \in Nat
         /\ Cardinality(submitted) <= Cardinality(Jobs)
<1>1. submitted \subseteq Jobs /\ Done \subseteq Jobs BY DEF TypeOK, Done
<1>2. IsFiniteSet(Jobs) BY JobsAssumption
<1> QED BY <1>1, <1>2, FS_Subset, FS_CardinalityType

-----------------------------------------------------------------------------
(* What each step keeps, whatever the reason why the ring does not overflow *)

SoundInv == TypeOK /\ OneFillerInv /\ OwnsClaim /\ CountInv /\ JobsInv

(* What that relies on: which slots are unread. *)
RingFacts ==
  /\ NoOverwrite
  /\ \A c \in Consumers : (pc[c] = "cas" /\ at[c] = head) =>
       /\ head \in unread
       /\ \A d \in Consumers : pc[d] = "copy" => at[d] # head
  /\ \A c \in Consumers, p \in Producers :
       (pc[c] = "copy" /\ pc[p] = "finish") => at[c] # at[p]

LEMMA WaitSpaceKeeps ==
  ASSUME SoundInv, RingFacts, NEW p \in Producers, WaitSpace(p)
  PROVE  SoundInv'
<1> USE ThreadAssumption, SizeAssumption
    DEF SoundInv, Threads, Slots, queue, threads, history, ProducerPoints,
        ConsumerPoints, WaitSpace
<1>1. TypeOK' BY DEF Goto, TypeOK, Advance, OneFillerInv
<1>3. OneFillerInv' BY DEF Goto, TypeOK, OneFillerInv
<1>4. OwnsClaim' BY DEF Goto, TypeOK, OwnsClaim
<1>8. CountInv'
  <2>1. TypeOK /\ Numbers /\ Goto(p, "serialise") /\ Cardinality(Done) \in Nat
          /\ Cardinality(submitted) \in Nat
    BY NumbersType, Cards
  <2>2. /\ NumAdding' = NumAdding + 1
        /\ NumPosting' = NumPosting
        /\ NumClaiming' = NumClaiming
        /\ NumHolding' = NumHolding
    BY <2>1, ProducerMoves DEF Bit, Numbers
  <2>3. Done' = Done BY DEF Goto, Done
  <2>4. PICK j \in Jobs \ submitted : submitted' = submitted \cup {j} OBVIOUS
  <2>5. Cardinality(submitted') = Cardinality(submitted) + 1
    BY <2>1, <2>4, Cards, FS_AddElement
  <2> QED BY <2>1, <2>2, <2>3, <2>5 DEF Goto, CountInv, Numbers, TypeOK
<1>9. JobsInv' BY DEF Goto, TypeOK, JobsInv, Carrying, ToFill, InHand
<1> QED BY <1>1, <1>3, <1>4, <1>8, <1>9

LEMMA WaitSerialiseKeeps ==
  ASSUME SoundInv, RingFacts, NEW p \in Producers, WaitSerialise(p)
  PROVE  SoundInv'
<1> USE ThreadAssumption, SizeAssumption
    DEF SoundInv, Threads, Slots, queue, threads, history, ProducerPoints,
        ConsumerPoints, WaitSerialise
<1>1. TypeOK' BY DEF Goto, TypeOK, Advance, OneFillerInv
<1>3. OneFillerInv' BY DEF Goto, TypeOK, OneFillerInv
<1>4. OwnsClaim' BY DEF Goto, TypeOK, OwnsClaim
<1>8. CountInv'
  <2>1. TypeOK /\ Numbers /\ Goto(p, "fill") /\ Cardinality(Done) \in Nat
          /\ Cardinality(submitted) \in Nat
    BY NumbersType, Cards
  <2>2. /\ NumAdding' = NumAdding
        /\ NumPosting' = NumPosting
        /\ NumClaiming' = NumClaiming
        /\ NumHolding' = NumHolding
    BY <2>1, ProducerMoves DEF Bit, Numbers
  <2>3. submitted' = submitted /\ Done' = Done BY DEF Goto, Done
  <2> QED BY <2>1, <2>2, <2>3 DEF Goto, CountInv, Numbers, TypeOK
<1>9. JobsInv' BY DEF Goto, TypeOK, JobsInv, Carrying, ToFill, InHand
<1> QED BY <1>1, <1>3, <1>4, <1>8, <1>9

LEMMA FillKeeps ==
  ASSUME SoundInv, RingFacts, NEW p \in Producers, Fill(p)
  PROVE  SoundInv'
<1> USE ThreadAssumption, SizeAssumption
    DEF SoundInv, Threads, Slots, queue, threads, history, ProducerPoints,
        ConsumerPoints, Fill
<1>1. TypeOK' BY DEF Goto, TypeOK, Advance, OneFillerInv
<1>3. OneFillerInv' BY DEF Goto, TypeOK, OneFillerInv
<1>4. OwnsClaim' BY DEF Goto, TypeOK, OwnsClaim
<1>8. CountInv'
  <2>1. TypeOK /\ Numbers /\ Goto(p, "finish") /\ Cardinality(Done) \in Nat
          /\ Cardinality(submitted) \in Nat
    BY NumbersType, Cards
  <2>2. /\ NumAdding' = NumAdding
        /\ NumPosting' = NumPosting
        /\ NumClaiming' = NumClaiming
        /\ NumHolding' = NumHolding
    BY <2>1, ProducerMoves DEF Bit, Numbers
  <2>3. submitted' = submitted /\ Done' = Done BY DEF Goto, Done
  <2> QED BY <2>1, <2>2, <2>3 DEF Goto, CountInv, Numbers, TypeOK
<1>9. JobsInv' BY DEF RingFacts, NoOverwrite, Goto, TypeOK, JobsInv, Carrying, ToFill, InHand
<1> QED BY <1>1, <1>3, <1>4, <1>8, <1>9

LEMMA FinishAddKeeps ==
  ASSUME SoundInv, RingFacts, NEW p \in Producers, FinishAdd(p)
  PROVE  SoundInv'
<1> USE ThreadAssumption, SizeAssumption
    DEF SoundInv, Threads, Slots, queue, threads, history, ProducerPoints,
        ConsumerPoints, FinishAdd
<1>1. TypeOK' BY DEF Goto, TypeOK, Advance, OneFillerInv
<1>3. OneFillerInv' BY DEF Goto, TypeOK, OneFillerInv
<1>4. OwnsClaim' BY DEF Goto, TypeOK, OwnsClaim
<1>8. CountInv'
  <2>1. TypeOK /\ Numbers /\ Goto(p, "postReady") /\ Cardinality(Done) \in Nat
          /\ Cardinality(submitted) \in Nat
    BY NumbersType, Cards
  <2>2. /\ NumAdding' = NumAdding - 1
        /\ NumPosting' = NumPosting + 1
        /\ NumClaiming' = NumClaiming
        /\ NumHolding' = NumHolding
    BY <2>1, ProducerMoves DEF Bit, Numbers
  <2>3. submitted' = submitted /\ Done' = Done BY DEF Goto, Done
  <2> QED BY <2>1, <2>2, <2>3 DEF Goto, CountInv, Numbers, TypeOK
<1>9. JobsInv' BY DEF Goto, TypeOK, JobsInv, Carrying, ToFill, InHand
<1> QED BY <1>1, <1>3, <1>4, <1>8, <1>9

LEMMA PostReadyKeeps ==
  ASSUME SoundInv, RingFacts, NEW p \in Producers, PostReady(p)
  PROVE  SoundInv'
<1> USE ThreadAssumption, SizeAssumption
    DEF SoundInv, Threads, Slots, queue, threads, history, ProducerPoints,
        ConsumerPoints, PostReady
<1>1. TypeOK' BY DEF Goto, TypeOK, Advance, OneFillerInv
<1>3. OneFillerInv' BY DEF Goto, TypeOK, OneFillerInv
<1>4. OwnsClaim' BY DEF Goto, TypeOK, OwnsClaim
<1>8. CountInv'
  <2>1. TypeOK /\ Numbers /\ Goto(p, "idle") /\ Cardinality(Done) \in Nat
          /\ Cardinality(submitted) \in Nat
    BY NumbersType, Cards
  <2>2. /\ NumAdding' = NumAdding
        /\ NumPosting' = NumPosting - 1
        /\ NumClaiming' = NumClaiming
        /\ NumHolding' = NumHolding
    BY <2>1, ProducerMoves DEF Bit, Numbers
  <2>3. submitted' = submitted /\ Done' = Done BY DEF Goto, Done
  <2> QED BY <2>1, <2>2, <2>3 DEF Goto, CountInv, Numbers, TypeOK
<1>9. JobsInv' BY DEF Goto, TypeOK, JobsInv, Carrying, ToFill, InHand
<1> QED BY <1>1, <1>3, <1>4, <1>8, <1>9

LEMMA WaitReadyKeeps ==
  ASSUME SoundInv, RingFacts, NEW c \in Consumers, WaitReady(c)
  PROVE  SoundInv'
<1> USE ThreadAssumption, SizeAssumption
    DEF SoundInv, Threads, Slots, queue, threads, history, ProducerPoints,
        ConsumerPoints, WaitReady
<1>1. TypeOK' BY DEF Goto, TypeOK, Advance, OneFillerInv
<1>3. OneFillerInv' BY DEF Goto, TypeOK, OneFillerInv
<1>4. OwnsClaim' BY DEF Goto, TypeOK, OwnsClaim
<1>8. CountInv'
  <2>1. TypeOK /\ Numbers /\ Goto(c, "claim") /\ Cardinality(Done) \in Nat
          /\ Cardinality(submitted) \in Nat
    BY NumbersType, Cards
  <2>2. /\ NumAdding' = NumAdding
        /\ NumPosting' = NumPosting
        /\ NumClaiming' = NumClaiming + 1
        /\ NumHolding' = NumHolding
    BY <2>1, ConsumerMoves DEF Bit, Numbers
  <2>3. submitted' = submitted /\ Done' = Done BY DEF Goto, Done
  <2> QED BY <2>1, <2>2, <2>3 DEF Goto, CountInv, Numbers, TypeOK
<1>9. JobsInv' BY DEF Goto, TypeOK, JobsInv, Carrying, ToFill, InHand
<1> QED BY <1>1, <1>3, <1>4, <1>8, <1>9

LEMMA ReadHeadKeeps ==
  ASSUME SoundInv, RingFacts, NEW c \in Consumers, ReadHead(c)
  PROVE  SoundInv'
<1> USE ThreadAssumption, SizeAssumption
    DEF SoundInv, Threads, Slots, queue, threads, history, ProducerPoints,
        ConsumerPoints, ReadHead
<1>1. TypeOK' BY DEF Goto, TypeOK, Advance, OneFillerInv
<1>3. OneFillerInv' BY DEF Goto, TypeOK, OneFillerInv
<1>4. OwnsClaim' BY DEF Goto, TypeOK, OwnsClaim
<1>8. CountInv'
  <2>1. TypeOK /\ Numbers /\ Goto(c, "cas") /\ Cardinality(Done) \in Nat
          /\ Cardinality(submitted) \in Nat
    BY NumbersType, Cards
  <2>2. /\ NumAdding' = NumAdding
        /\ NumPosting' = NumPosting
        /\ NumClaiming' = NumClaiming
        /\ NumHolding' = NumHolding
    BY <2>1, ConsumerMoves DEF Bit, Numbers
  <2>3. submitted' = submitted /\ Done' = Done BY DEF Goto, Done
  <2> QED BY <2>1, <2>2, <2>3 DEF Goto, CountInv, Numbers, TypeOK
<1>9. JobsInv' BY DEF Goto, TypeOK, JobsInv, Carrying, ToFill, InHand
<1> QED BY <1>1, <1>3, <1>4, <1>8, <1>9

LEMMA CasKeeps ==
  ASSUME SoundInv, RingFacts, NEW c \in Consumers, Cas(c)
  PROVE  SoundInv'
<1> USE ThreadAssumption, SizeAssumption
    DEF SoundInv, Threads, Slots, queue, threads, history, ProducerPoints,
        ConsumerPoints, Cas
<1>b. CASE head = at[c]
  <2>0. /\ head' = Advance(head) /\ claimed' = claimed + 1
        /\ pc' = [pc EXCEPT ![c] = "copy"]
    BY <1>b DEF Goto
  <2>a. at[c] \in unread /\ \A d \in Consumers : pc[d] = "copy" => at[d] # at[c]
    BY <1>b DEF RingFacts
  <2>1. TypeOK' BY <2>0 DEF Goto, TypeOK, Advance
  <2>3. OneFillerInv' BY <2>0 DEF Goto, OneFillerInv, TypeOK
  <2>4. OwnsClaim' BY <2>0, <2>a DEF Goto, OwnsClaim, TypeOK
  <2>8. CountInv'
    <3>1. TypeOK /\ Goto(c, "copy") BY <2>0 DEF Goto
    <3>2. NumAdding' = NumAdding /\ NumPosting' = NumPosting
          /\ NumClaiming' = NumClaiming - 1 /\ NumHolding' = NumHolding + 1
      BY <3>1, ConsumerMoves, NumbersType DEF Bit, Numbers
    <3>3. Done' = Done /\ Cardinality(Done) \in Nat BY <3>1, Cards DEF Goto, Done
    <3>4. UNCHANGED <<numReady, added, submitted>> OBVIOUS
    <3>5. /\ numReady \in Nat /\ added \in Nat /\ claimed \in Nat /\ Numbers
      BY NumbersType DEF TypeOK
    <3>6. numReady' + NumPosting' + NumClaiming' + claimed' = added'
      BY ONLY CountInv, <2>0, <3>2, <3>4, <3>5 DEF Goto, CountInv, Numbers
    <3>7. NumHolding' + Cardinality(Done') = claimed'
      BY ONLY CountInv, <2>0, <3>2, <3>3, <3>5 DEF Goto, CountInv, Numbers
    <3>8. added' + NumAdding' = Cardinality(submitted')
      BY ONLY CountInv, <3>2, <3>4 DEF Goto, CountInv
    <3> QED BY <3>6, <3>7, <3>8 DEF Goto, CountInv
  <2>9. JobsInv' BY <2>0 DEF Goto, JobsInv, Carrying, ToFill, InHand, TypeOK
  <2> QED BY <2>1, <2>3, <2>4, <2>8, <2>9
<1>c. CASE head # at[c]
  <2>0. head' = head /\ claimed' = claimed /\ pc' = [pc EXCEPT ![c] = "claim"]
    BY <1>c DEF Goto
  <2>1. TypeOK' BY <2>0 DEF Goto, TypeOK
  <2>3. OneFillerInv' BY <2>0 DEF Goto, OneFillerInv, TypeOK
  <2>4. OwnsClaim' BY <2>0 DEF Goto, OwnsClaim, TypeOK
  <2>8. CountInv'
    <3>1. TypeOK /\ Goto(c, "claim") BY <2>0 DEF Goto
    <3>2. NumAdding' = NumAdding /\ NumPosting' = NumPosting
          /\ NumClaiming' = NumClaiming /\ NumHolding' = NumHolding
      BY <3>1, ConsumerMoves, NumbersType DEF Bit, Numbers
    <3>3. Done' = Done BY DEF Goto, Done
    <3> QED BY <2>0, <3>2, <3>3 DEF Goto, CountInv
  <2>9. JobsInv' BY <2>0 DEF Goto, JobsInv, Carrying, ToFill, InHand, TypeOK
  <2> QED BY <2>1, <2>3, <2>4, <2>8, <2>9
<1> QED BY <1>b, <1>c

LEMMA CopyOutKeeps ==
  ASSUME SoundInv, RingFacts, NEW c \in Consumers, CopyOut(c)
  PROVE  SoundInv'
<1> USE ThreadAssumption, SizeAssumption
    DEF SoundInv, Threads, Slots, queue, threads, history, ProducerPoints,
        ConsumerPoints, CopyOut
<1>a. at[c] \in unread BY DEF OwnsClaim
<1>1. TypeOK' BY DEF Goto, TypeOK, Advance, OneFillerInv
<1>3. OneFillerInv' BY DEF Goto, TypeOK, OneFillerInv, RingFacts
<1>4. OwnsClaim' BY DEF Goto, TypeOK, OwnsClaim
<1>8. CountInv'
  <2>1. TypeOK /\ Numbers /\ Goto(c, "postSpace") /\ Cardinality(Done) \in Nat
          /\ Cardinality(submitted) \in Nat
    BY NumbersType, Cards
  <2>2. /\ NumAdding' = NumAdding
        /\ NumPosting' = NumPosting
        /\ NumClaiming' = NumClaiming
        /\ NumHolding' = NumHolding
    BY <2>1, ConsumerMoves DEF Bit, Numbers
  <2>3. submitted' = submitted /\ Done' = Done BY DEF Goto, Done
  <2> QED BY <2>1, <2>2, <2>3 DEF Goto, CountInv, Numbers, TypeOK
<1>9. JobsInv'
  <2>1. slot[at[c]] \in submitted /\ finished[slot[at[c]]] = 0 BY <1>a DEF Goto, JobsInv
  <2>2. \A t \in Carrying : item[t] # slot[at[c]] BY <1>a DEF Goto, JobsInv
  <2>3. Carrying' = Carrying \cup {c} /\ c \notin Carrying BY DEF Goto, Carrying, ToFill, InHand, TypeOK
  <2>4. \A t \in Carrying : item'[t] = item[t] BY <2>3 DEF Goto, TypeOK, Carrying, ToFill, InHand
  <2>5. item'[c] = slot[at[c]] BY DEF Goto, TypeOK
  <2> QED BY <1>a, <2>1, <2>2, <2>3, <2>4, <2>5 DEF Goto, JobsInv
<1> QED BY <1>1, <1>3, <1>4, <1>8, <1>9

LEMMA PostSpaceKeeps ==
  ASSUME SoundInv, RingFacts, NEW c \in Consumers, PostSpace(c)
  PROVE  SoundInv'
<1> USE ThreadAssumption, SizeAssumption
    DEF SoundInv, Threads, Slots, queue, threads, history, ProducerPoints,
        ConsumerPoints, PostSpace
<1>1. TypeOK' BY DEF Goto, TypeOK, Advance, OneFillerInv
<1>3. OneFillerInv' BY DEF Goto, TypeOK, OneFillerInv
<1>4. OwnsClaim' BY DEF Goto, TypeOK, OwnsClaim
<1>8. CountInv'
  <2>1. TypeOK /\ Numbers /\ Goto(c, "perform") /\ Cardinality(Done) \in Nat
          /\ Cardinality(submitted) \in Nat
    BY NumbersType, Cards
  <2>2. /\ NumAdding' = NumAdding
        /\ NumPosting' = NumPosting
        /\ NumClaiming' = NumClaiming
        /\ NumHolding' = NumHolding
    BY <2>1, ConsumerMoves DEF Bit, Numbers
  <2>3. submitted' = submitted /\ Done' = Done BY DEF Goto, Done
  <2> QED BY <2>1, <2>2, <2>3 DEF Goto, CountInv, Numbers, TypeOK
<1>9. JobsInv' BY DEF Goto, TypeOK, JobsInv, Carrying, ToFill, InHand
<1> QED BY <1>1, <1>3, <1>4, <1>8, <1>9

LEMMA PerformKeeps ==
  ASSUME SoundInv, RingFacts, NEW c \in Consumers, Perform(c)
  PROVE  SoundInv'
<1> USE ThreadAssumption, SizeAssumption
    DEF SoundInv, Threads, Slots, queue, threads, history, ProducerPoints,
        ConsumerPoints, Perform
<1>1. TypeOK' BY DEF Goto, TypeOK, JobsInv, Carrying, ToFill, InHand
<1>3. OneFillerInv' BY DEF Goto, TypeOK, OneFillerInv
<1>4. OwnsClaim' BY DEF Goto, TypeOK, OwnsClaim
<1>8. CountInv'
  <2>1. TypeOK /\ Numbers /\ Goto(c, "wait") /\ Cardinality(Done) \in Nat
          /\ Cardinality(submitted) \in Nat
    BY NumbersType, Cards
  <2>2. /\ NumAdding' = NumAdding
        /\ NumPosting' = NumPosting
        /\ NumClaiming' = NumClaiming
        /\ NumHolding' = NumHolding - 1
    BY <2>1, ConsumerMoves DEF Bit, Numbers
  <2>3. submitted' = submitted OBVIOUS
  <2>4. item[c] \in Jobs /\ finished[item[c]] = 0 BY DEF Goto, JobsInv, Carrying, ToFill, InHand, TypeOK
  <2>5. Done' = Done \cup {item[c]} /\ item[c] \notin Done BY <2>4 DEF Goto, Done, TypeOK
  <2>6. Cardinality(Done') = Cardinality(Done) + 1
    BY <2>1, <2>5, Cards, FS_AddElement
  <2> QED BY <2>1, <2>2, <2>3, <2>6 DEF Goto, CountInv, Numbers, TypeOK
<1>9. JobsInv' BY DEF Goto, TypeOK, JobsInv, Carrying, ToFill, InHand
<1> QED BY <1>1, <1>3, <1>4, <1>8, <1>9

(* All jobs of the pass have been reported. *)
PassOver == submitted = Jobs /\ \A j \in Jobs : finished[j] > 0

(* When the main thread has seen every job of the pass finished, nothing   *)
(* is left in a thread's hands.                                            *)
LEMMA PassEnds ==
  ASSUME SoundInv, submitted = Jobs, \A j \in Jobs : finished[j] > 0
  PROVE  /\ NumAdding = 0 /\ NumPosting = 0 /\ NumClaiming = 0 /\ NumHolding = 0
         /\ numReady = 0 /\ claimed = added /\ Carrying = {}
<1>1. TypeOK /\ CountInv BY DEF SoundInv
<1>2. Done = Jobs BY DEF Done
<1>3. /\ NumAdding = 0 /\ NumPosting = 0 /\ NumClaiming = 0 /\ NumHolding = 0
      /\ numReady = 0 /\ claimed = added
  BY <1>1, <1>2, Cards, NumbersType DEF CountInv, TypeOK, Numbers
<1>4. Carrying = {} BY <1>3, NoneThere DEF Carrying, ToFill, InHand
<1> QED BY <1>3, <1>4

LEMMA NextPassKeeps ==
  ASSUME SoundInv, unread = {}, NextPass
  PROVE  SoundInv'
<1> USE DEF NextPass, queue, threads
<1>1. TypeOK /\ OneFillerInv /\ OwnsClaim /\ CountInv /\ JobsInv BY DEF SoundInv
<1>2. /\ NumAdding = 0 /\ NumPosting = 0 /\ NumClaiming = 0 /\ NumHolding = 0
      /\ numReady = 0 /\ claimed = added /\ Carrying = {}
  BY PassEnds
<1>4. Done' = {} /\ submitted' = {} BY <1>1 DEF Done, JobsInv, TypeOK
<1>5. TypeOK' BY <1>1 DEF TypeOK
<1>7. OneFillerInv' BY <1>1 DEF OneFillerInv
<1>8. OwnsClaim' BY <1>1 DEF OwnsClaim
<1>12. CountInv'
  <2>1. /\ NumAdding' = NumAdding /\ NumPosting' = NumPosting
        /\ NumClaiming' = NumClaiming /\ NumHolding' = NumHolding
    BY DEF NumAdding, NumPosting, NumClaiming, NumHolding, Count
  <2>2. Cardinality(Done') = 0 /\ Cardinality(submitted') = 0
    BY <1>4, FS_EmptySet
  <2> QED BY <1>2, <2>1, <2>2 DEF CountInv
<1>13. JobsInv' BY <1>1, <1>2 DEF JobsInv, Carrying, ToFill, InHand, TypeOK
<1> QED BY <1>5, <1>7, <1>8, <1>12, <1>13 DEF SoundInv

LEMMA SoundStep ==
  ASSUME SoundInv, RingFacts, [Next]_vars, PassOver => unread = {}
  PROVE  SoundInv'
<1>1. ASSUME NEW p \in Producers, Add(p) PROVE SoundInv'
  BY <1>1, WaitSpaceKeeps, WaitSerialiseKeeps, FillKeeps, FinishAddKeeps,
     PostReadyKeeps DEF Add
<1>2. ASSUME NEW c \in Consumers, Remove(c) PROVE SoundInv'
  BY <1>2, WaitReadyKeeps, ReadHeadKeeps, CasKeeps, CopyOutKeeps,
     PostSpaceKeeps, PerformKeeps DEF Remove
<1>3. CASE NextPass BY <1>3, NextPassKeeps DEF NextPass, PassOver
<1>4. CASE UNCHANGED vars
  BY <1>4 DEF vars, queue, threads, history, SoundInv, TypeOK,
     OneFillerInv, OwnsClaim, CountInv,
     JobsInv, Carrying, ToFill, InHand, Done, NumAdding, NumPosting,
     NumClaiming, NumHolding, Count
<1> QED BY <1>1, <1>2, <1>3, <1>4 DEF Next

LEMMA InitSound == Init => SoundInv /\ NumAdding = 0 /\ NumPosting = 0 /\ NumClaiming = 0
<1> SUFFICES ASSUME Init
             PROVE  SoundInv /\ NumAdding = 0 /\ NumPosting = 0 /\ NumClaiming = 0
  OBVIOUS
<1> USE SizeAssumption, ThreadAssumption, JobsAssumption DEF Init
<1>1. TypeOK BY DEF TypeOK, Slots, Threads, ProducerPoints, ConsumerPoints
<1>2. \A t \in Threads : pc[t] \in {"idle", "wait"} BY DEF Threads
<1>3. NumAdding = 0 /\ NumPosting = 0 /\ NumClaiming = 0 /\ NumHolding = 0
  <2>1. {p \in Producers : pc[p] \in {"serialise", "fill", "finish"}} = {}
    BY <1>2 DEF Threads
  <2>2. {p \in Producers : pc[p] \in {"postReady"}} = {} BY <1>2 DEF Threads
  <2>3. {c \in Consumers : pc[c] \in {"claim", "cas"}} = {} BY <1>2 DEF Threads
  <2>4. {c \in Consumers : pc[c] \in {"copy", "postSpace", "perform"}} = {}
    BY <1>2 DEF Threads
  <2> QED BY <2>1, <2>2, <2>3, <2>4, FS_EmptySet
          DEF NumAdding, NumPosting, NumClaiming, NumHolding, Count
<1>5. OneFillerInv /\ OwnsClaim BY <1>2 DEF OneFillerInv, OwnsClaim, Threads
<1>7. CountInv
  <2>1. Done = {} BY DEF Done
  <2> QED BY <1>3, <2>1, FS_EmptySet DEF CountInv
<1>8. JobsInv BY <1>2 DEF JobsInv, Carrying, ToFill, InHand, Threads
<1> QED BY <1>1, <1>3, <1>5, <1>7, <1>8 DEF SoundInv

-----------------------------------------------------------------------------
(* A pass that fits *)

PlacesInv == IndicesInv /\ AddedUnread /\ UnreadPlaces /\ CopyPlaces

LEMMA PassParts == PassInv <=> SoundInv /\ PlacesInv
BY DEF PassInv, SoundInv, PlacesInv

(* Places are slots, distinct within one turn of the ring, and consecutive. *)
LEMMA Places ==
  ASSUME TypeOK
  PROVE  /\ \A k \in 0 .. Size : Place(k) \in Slots
         /\ \A k, l \in 0 .. Size - 1 : Place(k) = Place(l) => k = l
         /\ \A k \in 0 .. Size - 1 : Place(k + 1) = Advance(Place(k))
BY SizeAssumption DEF TypeOK, Place, Slots, Advance

(* A producer that is adding has room, a consumer that is claiming has an  *)
(* item to claim.                                                          *)
LEMMA AddedRoom ==
  ASSUME PassFits, SoundInv, NEW p \in Producers, pc[p] \in {"serialise", "fill", "finish"}
  PROVE  added < Size
<1>1. TypeOK /\ CountInv BY DEF SoundInv
<1>2. NumAdding # 0 BY NoneThere
<1> QED BY <1>1, <1>2, Cards, NumbersType, SizeAssumption
        DEF CountInv, PassFits, TypeOK, Numbers

LEMMA Unclaimed ==
  ASSUME SoundInv, NEW c \in Consumers, pc[c] \in {"claim", "cas"}
  PROVE  claimed < added
<1>1. TypeOK /\ CountInv BY DEF SoundInv
<1>2. NumClaiming # 0 BY NoneThere
<1> QED BY <1>1, <1>2, NumbersType DEF CountInv, TypeOK, Numbers

(* The slot a producer is about to fill has been copied out; so has the    *)
(* one it has filled been, and nobody copies it.                           *)
LEMMA PlacesSuffice ==
  ASSUME PassFits, SoundInv, PlacesInv
  PROVE  RingFacts
<1>1. TypeOK /\ IndicesInv /\ OneFillerInv /\ UnreadPlaces /\ CopyPlaces /\ AddedUnread
  BY DEF SoundInv, PlacesInv
<1>2. ASSUME NEW p \in Producers, pc[p] \in {"fill", "finish"}
      PROVE  added < Size /\ \A k \in 0 .. added - 1 : at[p] # Place(k)
  <2>0. at[p] = Place(added) /\ added < Size
    BY <1>1, <1>2, AddedRoom DEF OneFillerInv, IndicesInv
  <2>1. added \in 0 .. Size - 1 /\ 0 .. added - 1 \subseteq 0 .. Size - 1
    BY <1>1, <2>0, SizeAssumption DEF TypeOK
  <2>2. \A k \in 0 .. added - 1 : Place(added) = Place(k) => added = k
    BY <1>1, <2>1, Places
  <2> QED BY <1>1, <2>0, <2>1, <2>2 DEF TypeOK
<1>3. NoOverwrite
  <2> SUFFICES ASSUME NEW p \in Producers, pc[p] = "fill" PROVE at[p] \notin unread
    BY DEF NoOverwrite
  <2>1. \A q \in Producers : pc[q] # "finish" BY <1>1 DEF OneFillerInv
  <2> QED BY <1>1, <1>2, <2>1 DEF UnreadPlaces, CopyPlaces, IndicesInv, TypeOK
<1>4. ASSUME NEW c \in Consumers, pc[c] = "cas", at[c] = head
      PROVE  head \in unread /\ \A d \in Consumers : pc[d] = "copy" => at[d] # head
  <2>1. claimed < added /\ added <= Size BY <1>1, <1>4, Unclaimed DEF IndicesInv
  <2>2. head = Place(claimed) /\ claimed \in claimed .. added - 1 /\ claimed \in 0 .. Size - 1
        /\ 0 .. claimed - 1 \subseteq 0 .. Size - 1
    BY <1>1, <2>1, SizeAssumption DEF IndicesInv, TypeOK
  <2>3. head \in unread BY <1>1, <2>2 DEF AddedUnread
  <2>4. \A k \in 0 .. claimed - 1 : Place(claimed) = Place(k) => claimed = k
    BY <1>1, <2>2, Places
  <2> QED BY <1>1, <2>2, <2>3, <2>4 DEF CopyPlaces, TypeOK
<1>5. ASSUME NEW c \in Consumers, NEW p \in Producers, pc[c] = "copy", pc[p] = "finish"
      PROVE  at[c] # at[p]
  BY <1>1, <1>2, <1>5 DEF CopyPlaces, IndicesInv, TypeOK
<1> QED BY <1>3, <1>4, <1>5 DEF RingFacts

LEMMA PlacesEnd ==
  ASSUME SoundInv, PlacesInv, PassOver
  PROVE  unread = {}
<1>1. TypeOK /\ UnreadPlaces /\ IndicesInv BY DEF SoundInv, PlacesInv
<1>2. NumAdding = 0 /\ NumHolding = 0 /\ claimed = added BY PassEnds DEF PassOver
<1> QED BY <1>1, <1>2, NoneThere DEF UnreadPlaces, TypeOK

LEMMA AddPlaces ==
  ASSUME PassFits, SoundInv, PlacesInv, NEW p \in Producers, Add(p)
  PROVE  PlacesInv'
<1> USE ThreadAssumption, SizeAssumption
    DEF SoundInv, PlacesInv, Threads, Slots, queue, threads, history, ProducerPoints,
        ConsumerPoints
<1>0. \A k : Place(k)' = Place(k)
  BY DEF Add, WaitSpace, WaitSerialise, Fill, FinishAdd, PostReady, Place
<1>1. CASE WaitSpace(p) \/ WaitSerialise(p) \/ Fill(p) \/ PostReady(p)
  <2>1. IndicesInv'
    BY <1>0, <1>1 DEF Goto, TypeOK, IndicesInv, WaitSpace, WaitSerialise, Fill, PostReady
  <2>2. AddedUnread'
    BY <1>0, <1>1 DEF Goto, TypeOK, AddedUnread, WaitSpace, WaitSerialise, Fill, PostReady
  <2>3. UnreadPlaces'
    <3>1. CASE WaitSpace(p) BY <1>0, <3>1 DEF Goto, TypeOK, UnreadPlaces, WaitSpace
    <3>2. CASE WaitSerialise(p) BY <1>0, <3>2 DEF Goto, TypeOK, UnreadPlaces, WaitSerialise
    <3>3. CASE Fill(p) BY <1>0, <3>3 DEF Goto, TypeOK, UnreadPlaces, Fill
    <3>4. CASE PostReady(p) BY <1>0, <3>4 DEF Goto, TypeOK, UnreadPlaces, PostReady
    <3> QED BY <1>1, <3>1, <3>2, <3>3, <3>4
  <2>4. CopyPlaces'
    BY <1>0, <1>1 DEF Goto, TypeOK, CopyPlaces, WaitSpace, WaitSerialise, Fill, PostReady
  <2> QED BY <2>1, <2>2, <2>3, <2>4
<1>2. CASE FinishAdd(p)
  <2> USE <1>2 DEF FinishAdd
  <2>1. added < Size BY AddedRoom
  <2>2. at[p] = Place(added) /\ at[p] \in unread /\ tail' = Place(added + 1)
    BY <2>1, Places DEF Goto, OneFillerInv, IndicesInv, TypeOK
  <2>3. IndicesInv' BY <1>0, <2>1, <2>2 DEF Goto, TypeOK, IndicesInv
  <2>4. AddedUnread' BY <1>0, <2>2 DEF Goto, TypeOK, AddedUnread
  <2>5. UnreadPlaces'
    <3> SUFFICES ASSUME NEW i \in unread
                 PROVE  \/ \E k \in claimed .. added : i = Place(k)
                        \/ \E c \in Consumers : pc'[c] = "copy" /\ at[c] = i
                        \/ \E q \in Producers : pc'[q] = "finish" /\ at[q] = i
      BY <1>0 DEF Goto, UnreadPlaces, TypeOK
    <3>1. CASE \E k \in claimed .. added - 1 : i = Place(k) BY <3>1 DEF Goto, TypeOK
    <3>2. CASE \E c \in Consumers : pc[c] = "copy" /\ at[c] = i BY <3>2 DEF Goto, TypeOK
    <3>3. CASE \E q \in Producers : pc[q] = "finish" /\ at[q] = i
      <4>1. at[p] = i BY <3>3 DEF Goto, OneFillerInv
      <4> QED BY <4>1, <2>2 DEF Goto, TypeOK, IndicesInv
    <3> QED BY <3>1, <3>2, <3>3 DEF Goto, UnreadPlaces
  <2>6. CopyPlaces' BY <1>0 DEF Goto, TypeOK, CopyPlaces
  <2> QED BY <2>3, <2>4, <2>5, <2>6
<1> QED BY <1>1, <1>2 DEF Add

LEMMA RemovePlaces ==
  ASSUME PassFits, SoundInv, PlacesInv, NEW c \in Consumers, Remove(c)
  PROVE  PlacesInv'
<1> USE ThreadAssumption, SizeAssumption
    DEF SoundInv, PlacesInv, Threads, Slots, queue, threads, history, ProducerPoints,
        ConsumerPoints
<1>0. \A k : Place(k)' = Place(k)
  BY DEF Remove, WaitReady, ReadHead, Cas, CopyOut, PostSpace, Perform, Place
<1>1. CASE WaitReady(c) \/ ReadHead(c) \/ PostSpace(c) \/ Perform(c)
  <2>1. IndicesInv'
    BY <1>0, <1>1 DEF Goto, TypeOK, IndicesInv, WaitReady, ReadHead, PostSpace, Perform
  <2>2. AddedUnread'
    BY <1>0, <1>1 DEF Goto, TypeOK, AddedUnread, WaitReady, ReadHead, PostSpace, Perform
  <2>3. UnreadPlaces'
    <3>1. CASE WaitReady(c) BY <1>0, <3>1 DEF Goto, TypeOK, UnreadPlaces, WaitReady
    <3>2. CASE ReadHead(c) BY <1>0, <3>2 DEF Goto, TypeOK, UnreadPlaces, ReadHead
    <3>3. CASE PostSpace(c) BY <1>0, <3>3 DEF Goto, TypeOK, UnreadPlaces, PostSpace
    <3>4. CASE Perform(c) BY <1>0, <3>4 DEF Goto, TypeOK, UnreadPlaces, Perform
    <3> QED BY <1>1, <3>1, <3>2, <3>3, <3>4
  <2>4. CopyPlaces'
    BY <1>0, <1>1 DEF Goto, TypeOK, CopyPlaces, WaitReady, ReadHead, PostSpace, Perform
  <2> QED BY <2>1, <2>2, <2>3, <2>4
<1>2. CASE Cas(c) /\ head = at[c]
  <2>0. /\ head' = Advance(head) /\ claimed' = claimed + 1
        /\ pc' = [pc EXCEPT ![c] = "copy"] /\ pc[c] = "cas"
        /\ UNCHANGED <<tail, at, unread, base, added>>
    BY <1>2 DEF Goto, Cas
  <2>1. claimed < added /\ added <= Size BY <2>0, Unclaimed DEF IndicesInv
  <2>2. head = Place(claimed) /\ head' = Place(claimed + 1)
    BY <2>0, <2>1, Places DEF IndicesInv, TypeOK
  <2>3. IndicesInv' BY <1>0, <2>0, <2>1, <2>2 DEF IndicesInv, TypeOK
  <2>4. AddedUnread' BY <1>0, <2>0 DEF AddedUnread, TypeOK
  <2>5. UnreadPlaces'
    <3> SUFFICES ASSUME NEW i \in unread
                 PROVE  \/ \E k \in claimed + 1 .. added - 1 : i = Place(k)
                        \/ \E d \in Consumers : pc'[d] = "copy" /\ at[d] = i
                        \/ \E q \in Producers : pc'[q] = "finish" /\ at[q] = i
      BY <1>0, <2>0 DEF UnreadPlaces
    <3>1. CASE \E k \in claimed .. added - 1 : i = Place(k)
      <4>1. PICK k \in claimed .. added - 1 : i = Place(k) BY <3>1
      <4>2. CASE k = claimed BY <1>2, <2>0, <2>2, <4>1, <4>2 DEF TypeOK
      <4>3. CASE k # claimed BY <4>1, <4>3 DEF TypeOK
      <4> QED BY <4>2, <4>3
    <3>2. CASE \E d \in Consumers : pc[d] = "copy" /\ at[d] = i BY <2>0, <3>2 DEF TypeOK
    <3>3. CASE \E q \in Producers : pc[q] = "finish" /\ at[q] = i BY <2>0, <3>3 DEF TypeOK
    <3> QED BY <3>1, <3>2, <3>3 DEF UnreadPlaces
  <2>6. CopyPlaces'
    <3> SUFFICES ASSUME NEW d \in Consumers, pc'[d] = "copy"
                 PROVE  \E k \in 0 .. claimed : at[d] = Place(k)
      BY <1>0, <2>0 DEF CopyPlaces, TypeOK
    <3>1. CASE d = c BY <3>1, <1>2, <2>2 DEF TypeOK
    <3>2. CASE d # c BY <3>2, <2>0 DEF CopyPlaces, TypeOK
    <3> QED BY <3>1, <3>2
  <2> QED BY <2>3, <2>4, <2>5, <2>6
<1>3. CASE Cas(c) /\ head # at[c]
  <2>0. /\ pc' = [pc EXCEPT ![c] = "claim"] /\ pc[c] = "cas"
        /\ UNCHANGED <<head, claimed, tail, at, unread, base, added>>
    BY <1>3 DEF Goto, Cas
  <2> QED BY <1>0, <2>0 DEF IndicesInv, AddedUnread, UnreadPlaces, CopyPlaces, TypeOK
<1>4. CASE CopyOut(c)
  <2> USE <1>4 DEF CopyOut
  <2>1. \E k \in 0 .. claimed - 1 : at[c] = Place(k) BY DEF CopyPlaces
  <2>2. \A l \in claimed .. Size - 1 : Place(l) # at[c]
    BY <2>1, Places DEF TypeOK, IndicesInv
  <2>3. IndicesInv' BY <1>0 DEF Goto, TypeOK, IndicesInv
  <2>4. AddedUnread' BY <1>0, <2>2 DEF Goto, TypeOK, AddedUnread, IndicesInv
  <2>5. UnreadPlaces' BY <1>0 DEF Goto, TypeOK, UnreadPlaces
  <2>6. CopyPlaces' BY <1>0 DEF Goto, TypeOK, CopyPlaces
  <2> QED BY <2>3, <2>4, <2>5, <2>6
<1> QED BY <1>1, <1>2, <1>3, <1>4 DEF Remove

LEMMA PlacesStep ==
  ASSUME PassFits, SoundInv, PlacesInv, [Next]_vars
  PROVE  PlacesInv'
<1>1. CASE NextPass
  <2>1. unread = {} /\ NumHolding = 0 /\ claimed = added BY <1>1, PassEnds, PlacesEnd DEF NextPass, PassOver
  <2>2. \A c \in Consumers : pc[c] # "copy" BY <2>1, NoneThere
  <2>3. /\ base' = tail /\ added' = 0 /\ claimed' = 0
        /\ UNCHANGED <<head, tail, pc, at, unread>>
    BY <1>1 DEF NextPass, queue, threads
  <2>4. IndicesInv'
    BY <2>1, <2>3, SizeAssumption DEF SoundInv, PlacesInv, IndicesInv, Place, TypeOK, Slots
  <2> QED BY <2>1, <2>2, <2>3, <2>4 DEF PlacesInv, AddedUnread, UnreadPlaces, CopyPlaces
<1>2. CASE UNCHANGED vars
  BY <1>2 DEF vars, queue, threads, history, PlacesInv, IndicesInv, AddedUnread,
     UnreadPlaces, CopyPlaces, Place
<1> QED BY <1>1, <1>2, AddPlaces, RemovePlaces DEF Next

LEMMA InitPlaces == Init => PlacesInv
BY SizeAssumption, ThreadAssumption DEF Init, PlacesInv, IndicesInv, AddedUnread, UnreadPlaces,
   CopyPlaces, Place, Threads

(* PassInv holds in every reachable state when a pass fits into the ring.  *)
THEOREM PassInvariant ==
  ASSUME PassFits PROVE Spec => []PassInv
<1>1. PassInv /\ [Next]_vars => PassInv'
  BY PassParts, PlacesSuffice, PlacesEnd, SoundStep, PlacesStep DEF SoundInv, PlacesInv, PassInv
<1>2. Init => PassInv BY InitSound, InitPlaces, PassParts
<1> QED BY <1>1, <1>2, PTL DEF Spec

-----------------------------------------------------------------------------
(* One consumer and a ring of any size *)

(* The slot k behind slot i. *)
From(i, k) == IF i + k < Size THEN i + k ELSE i + k - Size

Queued     == numReady + NumPosting + NumClaiming
NumCopying == Count(Consumers, {"copy", "postSpace"})

(* Every slot is a credit of spaceLeft, a producer's, queued, or held by   *)
(* the consumer that has claimed it, until it posts spaceLeft.             *)
CreditInv == spaceLeft + NumAdding + Queued + NumCopying = Size

QueuedUnread == \A k \in 0 .. Queued - 1 : From(head, k) \in unread

UnreadQueued ==
  \A i \in unread :
    \/ \E k \in 0 .. Queued - 1 : i = From(head, k)
    \/ \E c \in Consumers : pc[c] = "copy" /\ at[c] = i
    \/ \E p \in Producers : pc[p] = "finish" /\ at[p] = i

(* The queued items lie between head and tail, the one that is copied just *)
(* before head.                                                            *)
TurnInv ==
  /\ CreditInv /\ QueuedUnread /\ UnreadQueued
  /\ tail = From(head, Queued)
  /\ \A c \in Consumers : pc[c] = "copy" => head = From(at[c], 1)

LEMMA Turns ==
  /\ \A i \in Slots : /\ From(i, 0) = i
                      /\ From(i, 1) = Advance(i) /\ From(i, 1) \in Slots
                      /\ From(From(i, 1), Size - 1) = i
  /\ \A i \in Slots : \A k \in 0 .. Size : From(i, k) \in Slots
  /\ \A i \in Slots : \A k \in 0 .. Size - 1 : /\ From(From(i, 1), k) = From(i, k + 1)
                                               /\ From(i, k + 1) = Advance(From(i, k))
  /\ \A i \in Slots : \A k, l \in 0 .. Size - 1 : From(i, k) = From(i, l) => k = l
BY SizeAssumption DEF From, Slots, Advance

LEMMA Credits ==
  ASSUME SoundInv, TurnInv
  PROVE  /\ Numbers /\ Queued \in 0 .. Size /\ NumCopying \in Nat /\ spaceLeft \in Nat
         /\ \A p \in Producers : pc[p] \in {"serialise", "fill", "finish"} => Queued < Size
         /\ \A c \in Consumers : pc[c] \in {"copy", "postSpace"} =>
              /\ Queued < Size
              /\ \A p \in Producers : pc[p] \in {"serialise", "fill", "finish"} => Queued < Size - 1
         /\ \A c \in Consumers : pc[c] \in {"claim", "cas"} => Queued > 0
<1>1. numReady \in Nat /\ spaceLeft \in Nat BY DEF SoundInv, TypeOK
<1>2. /\ NumCopying \in Nat
      /\ NumCopying = 0 => \A c \in Consumers : pc[c] \notin {"copy", "postSpace"}
  BY CountZero, ThreadAssumption DEF NumCopying, Count
<1>3. spaceLeft + NumAdding + Queued + NumCopying = Size BY DEF TurnInv, CreditInv
<1> QED BY <1>1, <1>2, <1>3, NumbersType, NoneThere, SizeAssumption DEF Queued, Numbers

LEMMA CopyingMoves ==
  ASSUME TypeOK
  PROVE  /\ \A p \in Producers : \A v : Goto(p, v) => NumCopying' = NumCopying
         /\ \A c \in Consumers : \A v : Goto(c, v) =>
              NumCopying' = NumCopying + Bit(v \in {"copy", "postSpace"})
                              - Bit(pc[c] \in {"copy", "postSpace"})
<1>1. NumCopying \in Nat BY CountZero, ThreadAssumption DEF NumCopying, Count
<1>2. ASSUME NEW p \in Producers, NEW v, Goto(p, v) PROVE NumCopying' = NumCopying
  <2>1. p \in Threads /\ p \notin Consumers BY ThreadAssumption DEF Threads
  <2>2. \A points : Count(Consumers, points)' = Count(Consumers, points) + 0 - 0
    BY <1>2, <2>1, CountMoves DEF Bit
  <2> QED BY <1>1, <2>2 DEF NumCopying
<1>3. ASSUME NEW c \in Consumers, NEW v, Goto(c, v)
      PROVE  NumCopying' = NumCopying + Bit(v \in {"copy", "postSpace"})
                              - Bit(pc[c] \in {"copy", "postSpace"})
  <2>1. c \in Threads BY DEF Threads
  <2>2. \A points : Count(Consumers, points)' = Count(Consumers, points)
                   + Bit(v \in points) - Bit(pc[c] \in points)
    BY <1>3, <2>1, CountMoves DEF Bit
  <2> QED BY <2>2 DEF NumCopying
<1> QED BY <1>2, <1>3

LEMMA TurnsSuffice ==
  ASSUME OneConsumer, SoundInv, TurnInv
  PROVE  RingFacts
<1>1. TypeOK /\ OneFillerInv /\ UnreadQueued /\ QueuedUnread /\ tail = From(head, Queued)
  BY DEF SoundInv, TurnInv
<1>2. head \in Slots /\ at \in [Threads -> Slots] BY <1>1 DEF TypeOK
<1>3. ASSUME NEW c \in Consumers, pc[c] = "copy"
      PROVE  at[c] = From(head, Size - 1) /\ Queued < Size
  BY <1>2, <1>3, Credits, Turns DEF TurnInv, Threads
<1>4. ASSUME NEW p \in Producers, pc[p] \in {"fill", "finish"}
      PROVE  /\ \A k \in 0 .. Queued - 1 : at[p] # From(head, k)
             /\ \A c \in Consumers : pc[c] = "copy" => at[p] # at[c]
  <2>1. at[p] = From(head, Queued) BY <1>1, <1>4 DEF OneFillerInv
  <2>2. Queued \in 0 .. Size - 1 /\ Size - 1 \in 0 .. Size - 1 /\ 0 .. Queued - 1 \subseteq 0 .. Size - 1
    BY <1>4, Credits, SizeAssumption
  <2>3. \A k \in 0 .. Queued - 1 : at[p] # From(head, k) BY <1>2, <2>1, <2>2, Turns
  <2>4. ASSUME NEW c \in Consumers, pc[c] = "copy" PROVE at[p] # at[c]
    <3>1. Queued < Size - 1 BY <1>4, <2>4, Credits
    <3> QED BY <1>2, <1>3, <2>1, <2>2, <2>4, <3>1, Turns
  <2> QED BY <2>3, <2>4
<1>5. NoOverwrite
  <2> SUFFICES ASSUME NEW p \in Producers, pc[p] = "fill" PROVE at[p] \notin unread
    BY DEF NoOverwrite
  <2>1. \A q \in Producers : pc[q] # "finish" BY <1>1 DEF OneFillerInv
  <2> QED BY <1>1, <1>4, <2>1 DEF UnreadQueued
<1>6. ASSUME NEW c \in Consumers, pc[c] = "cas", at[c] = head
      PROVE  head \in unread /\ \A d \in Consumers : pc[d] = "copy" => at[d] # head
  <2>1. Queued > 0 /\ Queued \in 0 .. Size BY <1>6, Credits
  <2>2. head \in unread BY <1>1, <1>2, <2>1, Turns DEF QueuedUnread
  <2>3. \A d \in Consumers : d = c BY DEF OneConsumer
  <2> QED BY <1>6, <2>2, <2>3
<1> QED BY <1>4, <1>5, <1>6 DEF RingFacts

LEMMA TurnsEnd ==
  ASSUME SoundInv, TurnInv, PassOver
  PROVE  unread = {}
<1>1. TypeOK /\ UnreadQueued BY DEF SoundInv, TurnInv
<1>2. NumAdding = 0 /\ NumHolding = 0 /\ Queued = 0 BY PassEnds DEF PassOver, Queued
<1> QED BY <1>1, <1>2, NoneThere DEF UnreadQueued, TypeOK

LEMMA AddTurns ==
  ASSUME SoundInv, TurnInv, NEW p \in Producers, Add(p)
  PROVE  TurnInv'
<1> USE ThreadAssumption DEF queue, threads, history
<1>1. TypeOK /\ OneFillerInv /\ CreditInv /\ UnreadQueued /\ QueuedUnread
      /\ tail = From(head, Queued) /\ \A c \in Consumers : pc[c] = "copy" => head = From(at[c], 1)
  BY DEF SoundInv, TurnInv
<1>2. /\ head \in Slots /\ at \in [Threads -> Slots] /\ p \in Threads /\ p \notin Consumers
      /\ pc \in [Threads -> ProducerPoints \cup ConsumerPoints]
      /\ \A c \in Consumers : c \in Threads /\ c # p
      /\ numReady \in Nat
  BY <1>1 DEF TypeOK, Threads
<1>3. /\ Numbers /\ Queued \in 0 .. Size /\ NumCopying \in Nat /\ spaceLeft \in Nat
      /\ \A q \in Producers : pc[q] \in {"serialise", "fill", "finish"} => Queued < Size
  BY Credits
<1>4. \A i, k : From(i, k)' = From(i, k) BY DEF From
<1>6. CASE WaitSpace(p)
  <2>0. Goto(p, "serialise") BY <1>6 DEF WaitSpace
  <2>1. /\ pc[p] = "idle" /\ pc' = [pc EXCEPT ![p] = "serialise"] /\ spaceLeft' = spaceLeft - 1
        /\ UNCHANGED <<head, tail, numReady, at, unread>>
    BY <1>6 DEF WaitSpace, Goto
  <2>a. /\ NumAdding' = NumAdding + 1 /\ NumPosting' = NumPosting
        /\ NumClaiming' = NumClaiming
    BY <1>1, <1>3, <2>0, <2>1, ProducerMoves DEF Bit, Numbers
  <2>b. NumCopying' = NumCopying BY <1>1, <1>3, <2>0, <2>1, CopyingMoves DEF Bit
  <2>2. NumAdding' = NumAdding + 1 /\ Queued' = Queued /\ NumCopying' = NumCopying
    BY <1>2, <1>3, <2>1, <2>a, <2>b DEF Numbers, Queued
  <2>3. CreditInv' BY <1>1, <1>3, <2>1, <2>2 DEF CreditInv, Numbers
  <2>4. QueuedUnread' BY <1>1, <1>4, <2>1, <2>2 DEF QueuedUnread
  <2>5. UnreadQueued' BY <1>1, <1>2, <1>4, <2>1, <2>2 DEF UnreadQueued
  <2> QED BY <1>1, <1>2, <1>4, <2>1, <2>2, <2>3, <2>4, <2>5 DEF TurnInv
<1>7. CASE WaitSerialise(p)
  <2>0. Goto(p, "fill") BY <1>7 DEF WaitSerialise
  <2>1. /\ pc[p] = "serialise" /\ pc' = [pc EXCEPT ![p] = "fill"] /\ at' = [at EXCEPT ![p] = tail]
        /\ UNCHANGED <<head, tail, numReady, spaceLeft, unread>>
    BY <1>7 DEF WaitSerialise, Goto
  <2>a. /\ NumAdding' = NumAdding /\ NumPosting' = NumPosting
        /\ NumClaiming' = NumClaiming
    BY <1>1, <1>3, <2>0, <2>1, ProducerMoves DEF Bit, Numbers
  <2>b. NumCopying' = NumCopying BY <1>1, <1>3, <2>0, <2>1, CopyingMoves DEF Bit
  <2>2. NumAdding' = NumAdding /\ Queued' = Queued /\ NumCopying' = NumCopying
    BY <1>2, <1>3, <2>1, <2>a, <2>b DEF Numbers, Queued
  <2>3. CreditInv' BY <1>1, <1>3, <2>1, <2>2 DEF CreditInv, Numbers
  <2>4. QueuedUnread' BY <1>1, <1>4, <2>1, <2>2 DEF QueuedUnread
  <2>5. UnreadQueued' BY <1>1, <1>2, <1>4, <2>1, <2>2 DEF UnreadQueued, Threads
  <2> QED BY <1>1, <1>2, <1>4, <2>1, <2>2, <2>3, <2>4, <2>5 DEF TurnInv
<1>8. CASE Fill(p)
  <2>0. Goto(p, "finish") BY <1>8 DEF Fill
  <2>1. /\ pc[p] = "fill" /\ pc' = [pc EXCEPT ![p] = "finish"] /\ unread' = unread \cup {at[p]}
        /\ UNCHANGED <<head, tail, numReady, spaceLeft, at>>
    BY <1>8 DEF Fill, Goto
  <2>a. /\ NumAdding' = NumAdding /\ NumPosting' = NumPosting
        /\ NumClaiming' = NumClaiming
    BY <1>1, <1>3, <2>0, <2>1, ProducerMoves DEF Bit, Numbers
  <2>b. NumCopying' = NumCopying BY <1>1, <1>3, <2>0, <2>1, CopyingMoves DEF Bit
  <2>2. NumAdding' = NumAdding /\ Queued' = Queued /\ NumCopying' = NumCopying
    BY <1>2, <1>3, <2>1, <2>a, <2>b DEF Numbers, Queued
  <2>3. CreditInv' BY <1>1, <1>3, <2>1, <2>2 DEF CreditInv, Numbers
  <2>4. QueuedUnread' BY <1>1, <1>4, <2>1, <2>2 DEF QueuedUnread
  <2>5. UnreadQueued' BY <1>1, <1>2, <1>4, <2>1, <2>2 DEF UnreadQueued, Threads
  <2> QED BY <1>1, <1>2, <1>4, <2>1, <2>2, <2>3, <2>4, <2>5 DEF TurnInv
<1>9. CASE FinishAdd(p)
  <2>0. Goto(p, "postReady") BY <1>9 DEF FinishAdd
  <2>1. /\ pc[p] = "finish" /\ pc' = [pc EXCEPT ![p] = "postReady"] /\ tail' = Advance(tail)
        /\ UNCHANGED <<head, numReady, spaceLeft, at, unread>>
    BY <1>9 DEF FinishAdd, Goto
  <2>a. /\ NumAdding' = NumAdding - 1 /\ NumPosting' = NumPosting + 1
        /\ NumClaiming' = NumClaiming
    BY <1>1, <1>3, <2>0, <2>1, ProducerMoves DEF Bit, Numbers
  <2>b. NumCopying' = NumCopying BY <1>1, <1>3, <2>0, <2>1, CopyingMoves DEF Bit
  <2>2. NumAdding' = NumAdding - 1 /\ Queued' = Queued + 1 /\ NumCopying' = NumCopying
    BY <1>2, <1>3, <2>1, <2>a, <2>b DEF Numbers, Queued
  <2>3. CreditInv' BY <1>1, <1>3, <2>1, <2>2 DEF CreditInv, Numbers
  <2>4. Queued \in 0 .. Size - 1 BY <1>3, <2>1, SizeAssumption
  <2>5. at[p] = From(head, Queued) /\ at[p] \in unread BY <1>1, <2>1 DEF OneFillerInv
  <2>6. tail' = From(head, Queued') BY <1>1, <1>2, <2>1, <2>2, <2>4, Turns
  <2>7. QueuedUnread'
    <3> SUFFICES ASSUME NEW k \in 0 .. Queued PROVE From(head, k) \in unread
      BY <1>3, <1>4, <2>1, <2>2 DEF QueuedUnread
    <3> QED BY <1>1, <1>3, <2>5 DEF QueuedUnread
  <2>8. UnreadQueued'
    <3> SUFFICES ASSUME NEW i \in unread
                 PROVE  \/ \E k \in 0 .. Queued : i = From(head, k)
                        \/ \E c \in Consumers : pc'[c] = "copy" /\ at[c] = i
                        \/ \E q \in Producers : pc'[q] = "finish" /\ at[q] = i
      BY <1>3, <1>4, <2>1, <2>2 DEF UnreadQueued
    <3>1. CASE \E k \in 0 .. Queued - 1 : i = From(head, k) BY <1>3, <3>1
    <3>2. CASE \E c \in Consumers : pc[c] = "copy" /\ at[c] = i BY <1>2, <2>1, <3>2
    <3>3. CASE \E q \in Producers : pc[q] = "finish" /\ at[q] = i
      <4>1. at[p] = i BY <1>1, <2>1, <3>3 DEF OneFillerInv
      <4>2. Queued \in 0 .. Queued BY <1>3
      <4> QED BY <2>5, <4>1, <4>2
    <3> QED BY <1>1, <3>1, <3>2, <3>3 DEF UnreadQueued
  <2> QED BY <1>1, <1>2, <1>4, <2>1, <2>3, <2>6, <2>7, <2>8 DEF TurnInv
<1>10. CASE PostReady(p)
  <2>0. Goto(p, "idle") BY <1>10 DEF PostReady
  <2>1. /\ pc[p] = "postReady" /\ pc' = [pc EXCEPT ![p] = "idle"] /\ numReady' = numReady + 1
        /\ at' = [at EXCEPT ![p] = 0]
        /\ UNCHANGED <<head, tail, spaceLeft, unread>>
    BY <1>10 DEF PostReady, Goto
  <2>a. /\ NumAdding' = NumAdding /\ NumPosting' = NumPosting - 1
        /\ NumClaiming' = NumClaiming
    BY <1>1, <1>3, <2>0, <2>1, ProducerMoves DEF Bit, Numbers
  <2>b. NumCopying' = NumCopying BY <1>1, <1>3, <2>0, <2>1, CopyingMoves DEF Bit
  <2>2. NumAdding' = NumAdding /\ Queued' = Queued /\ NumCopying' = NumCopying
    BY <1>2, <1>3, <2>1, <2>a, <2>b DEF Numbers, Queued
  <2>3. CreditInv' BY <1>1, <1>3, <2>1, <2>2 DEF CreditInv, Numbers
  <2>4. QueuedUnread' BY <1>1, <1>4, <2>1, <2>2 DEF QueuedUnread
  <2>5. UnreadQueued' BY <1>1, <1>2, <1>4, <2>1, <2>2 DEF UnreadQueued, Threads
  <2> QED BY <1>1, <1>2, <1>4, <2>1, <2>2, <2>3, <2>4, <2>5 DEF TurnInv
<1> QED BY <1>6, <1>7, <1>8, <1>9, <1>10 DEF Add

LEMMA RemoveTurns ==
  ASSUME OneConsumer, SoundInv, TurnInv, NEW c \in Consumers, Remove(c)
  PROVE  TurnInv'
<1> USE ThreadAssumption DEF queue, threads, history
<1>1. TypeOK /\ OneFillerInv /\ CreditInv /\ UnreadQueued /\ QueuedUnread
      /\ tail = From(head, Queued) /\ \A d \in Consumers : pc[d] = "copy" => head = From(at[d], 1)
  BY DEF SoundInv, TurnInv
<1>2. /\ head \in Slots /\ at \in [Threads -> Slots] /\ c \in Threads /\ c \notin Producers
      /\ pc \in [Threads -> ProducerPoints \cup ConsumerPoints]
      /\ \A q \in Producers : q \in Threads /\ q # c
      /\ numReady \in Nat
      /\ \A d \in Consumers : d = c
  BY <1>1 DEF TypeOK, Threads, OneConsumer
<1>3. /\ Numbers /\ Queued \in 0 .. Size /\ NumCopying \in Nat /\ spaceLeft \in Nat
      /\ pc[c] \in {"copy", "postSpace"} => Queued < Size
      /\ pc[c] \in {"claim", "cas"} => Queued > 0
  BY Credits
<1>4. \A i, k : From(i, k)' = From(i, k) BY DEF From
<1>6. CASE WaitReady(c)
  <2>0. Goto(c, "claim") BY <1>6 DEF WaitReady
  <2>1. /\ pc[c] = "wait" /\ pc' = [pc EXCEPT ![c] = "claim"] /\ numReady' = numReady - 1
        /\ UNCHANGED <<head, tail, spaceLeft, at, unread>>
    BY <1>6 DEF WaitReady, Goto
  <2>a. /\ NumAdding' = NumAdding /\ NumPosting' = NumPosting
        /\ NumClaiming' = NumClaiming + 1
    BY <1>1, <1>3, <2>0, <2>1, ConsumerMoves DEF Bit, Numbers
  <2>b. NumCopying' = NumCopying BY <1>1, <1>3, <2>0, <2>1, CopyingMoves DEF Bit
  <2>2. NumAdding' = NumAdding /\ Queued' = Queued /\ NumCopying' = NumCopying
    BY <1>2, <1>3, <2>1, <2>a, <2>b DEF Numbers, Queued
  <2>3. CreditInv' BY <1>1, <1>3, <2>1, <2>2 DEF CreditInv, Numbers
  <2>4. QueuedUnread' BY <1>1, <1>4, <2>1, <2>2 DEF QueuedUnread
  <2>5. UnreadQueued' BY <1>1, <1>2, <1>4, <2>1, <2>2 DEF UnreadQueued
  <2> QED BY <1>1, <1>2, <1>4, <2>1, <2>2, <2>3, <2>4, <2>5 DEF TurnInv
<1>7. CASE ReadHead(c)
  <2>0. Goto(c, "cas") BY <1>7 DEF ReadHead
  <2>1. /\ pc[c] = "claim" /\ pc' = [pc EXCEPT ![c] = "cas"] /\ at' = [at EXCEPT ![c] = head]
        /\ UNCHANGED <<head, tail, numReady, spaceLeft, unread>>
    BY <1>7 DEF ReadHead, Goto
  <2>a. /\ NumAdding' = NumAdding /\ NumPosting' = NumPosting
        /\ NumClaiming' = NumClaiming
    BY <1>1, <1>3, <2>0, <2>1, ConsumerMoves DEF Bit, Numbers
  <2>b. NumCopying' = NumCopying BY <1>1, <1>3, <2>0, <2>1, CopyingMoves DEF Bit
  <2>2. NumAdding' = NumAdding /\ Queued' = Queued /\ NumCopying' = NumCopying
    BY <1>2, <1>3, <2>1, <2>a, <2>b DEF Numbers, Queued
  <2>3. CreditInv' BY <1>1, <1>3, <2>1, <2>2 DEF CreditInv, Numbers
  <2>4. QueuedUnread' BY <1>1, <1>4, <2>1, <2>2 DEF QueuedUnread
  <2>5. UnreadQueued' BY <1>1, <1>2, <1>4, <2>1, <2>2 DEF UnreadQueued
  <2> QED BY <1>1, <1>2, <1>4, <2>1, <2>2, <2>3, <2>4, <2>5 DEF TurnInv
<1>8. CASE Cas(c) /\ head = at[c]
  <2>0. Goto(c, "copy") BY <1>8 DEF Cas
  <2>1. /\ pc[c] = "cas" /\ pc' = [pc EXCEPT ![c] = "copy"] /\ head' = Advance(head)
        /\ UNCHANGED <<tail, numReady, spaceLeft, at, unread>>
    BY <1>8 DEF Cas, Goto
  <2>a. /\ NumAdding' = NumAdding /\ NumPosting' = NumPosting
        /\ NumClaiming' = NumClaiming - 1
    BY <1>1, <1>3, <2>0, <2>1, ConsumerMoves DEF Bit, Numbers
  <2>b. NumCopying' = NumCopying + 1 BY <1>1, <1>3, <2>0, <2>1, CopyingMoves DEF Bit
  <2>2. NumAdding' = NumAdding /\ Queued' = Queued - 1 /\ NumCopying' = NumCopying + 1
    BY <1>2, <1>3, <2>1, <2>a, <2>b DEF Numbers, Queued
  <2>3. CreditInv' BY <1>1, <1>3, <2>1, <2>2 DEF CreditInv, Numbers
  <2>4. head' = From(head, 1) /\ at'[c] = head /\ Queued \in 1 .. Size
    BY <1>2, <1>3, <1>8, <2>1, Turns
  <2>c. 0 .. Queued - 1 \subseteq 0 .. Size - 1 BY <1>3, SizeAssumption
  <2>5. \A k \in 0 .. Queued - 1 : From(head', k) = From(head, k + 1)
    BY <1>2, <2>4, <2>c, Turns
  <2>6. tail' = From(head', Queued - 1) BY <1>1, <2>1, <2>4, <2>5
  <2>7. QueuedUnread'
    <3> SUFFICES ASSUME NEW k \in 0 .. Queued - 2 PROVE From(head', k) \in unread
      BY <1>3, <1>4, <2>1, <2>2 DEF QueuedUnread
    <3>1. k + 1 \in 0 .. Queued - 1 /\ k \in 0 .. Queued - 1 BY <1>3
    <3> QED BY <1>1, <2>5, <3>1 DEF QueuedUnread
  <2>8. UnreadQueued'
    <3> SUFFICES ASSUME NEW i \in unread
                 PROVE  \/ \E k \in 0 .. Queued - 2 : i = From(head', k)
                        \/ \E d \in Consumers : pc'[d] = "copy" /\ at[d] = i
                        \/ \E q \in Producers : pc'[q] = "finish" /\ at[q] = i
      BY <1>3, <1>4, <2>1, <2>2 DEF UnreadQueued
    <3>1. CASE \E k \in 0 .. Queued - 1 : i = From(head, k)
      <4>1. PICK k \in 0 .. Queued - 1 : i = From(head, k) BY <3>1
      <4>2. CASE k = 0 BY <1>2, <1>8, <2>1, <4>1, <4>2, Turns
      <4>3. CASE k # 0
        <5>1. k - 1 \in 0 .. Queued - 2 /\ k - 1 \in 0 .. Queued - 1 /\ k - 1 + 1 = k
          BY <1>3, <4>1, <4>3
        <5> QED BY <2>5, <4>1, <5>1
      <4> QED BY <4>2, <4>3
    <3>2. CASE \E d \in Consumers : pc[d] = "copy" /\ at[d] = i BY <1>2, <2>1, <3>2
    <3>3. CASE \E q \in Producers : pc[q] = "finish" /\ at[q] = i BY <1>2, <2>1, <3>3
    <3> QED BY <1>1, <3>1, <3>2, <3>3 DEF UnreadQueued
  <2> QED BY <1>2, <1>4, <2>1, <2>2, <2>3, <2>4, <2>6, <2>7, <2>8 DEF TurnInv
<1>9. CASE Cas(c) /\ head # at[c]
  <2>0. Goto(c, "claim") BY <1>9 DEF Cas
  <2>1. /\ pc[c] = "cas" /\ pc' = [pc EXCEPT ![c] = "claim"]
        /\ UNCHANGED <<head, tail, numReady, spaceLeft, at, unread>>
    BY <1>9 DEF Cas, Goto
  <2>a. /\ NumAdding' = NumAdding /\ NumPosting' = NumPosting
        /\ NumClaiming' = NumClaiming
    BY <1>1, <1>3, <2>0, <2>1, ConsumerMoves DEF Bit, Numbers
  <2>b. NumCopying' = NumCopying BY <1>1, <1>3, <2>0, <2>1, CopyingMoves DEF Bit
  <2>2. NumAdding' = NumAdding /\ Queued' = Queued /\ NumCopying' = NumCopying
    BY <1>2, <1>3, <2>1, <2>a, <2>b DEF Numbers, Queued
  <2>3. CreditInv' BY <1>1, <1>3, <2>1, <2>2 DEF CreditInv, Numbers
  <2>4. QueuedUnread' BY <1>1, <1>4, <2>1, <2>2 DEF QueuedUnread
  <2>5. UnreadQueued' BY <1>1, <1>2, <1>4, <2>1, <2>2 DEF UnreadQueued
  <2> QED BY <1>1, <1>2, <1>4, <2>1, <2>2, <2>3, <2>4, <2>5 DEF TurnInv
<1>10. CASE CopyOut(c)
  <2>0. Goto(c, "postSpace") BY <1>10 DEF CopyOut
  <2>1. /\ pc[c] = "copy" /\ pc' = [pc EXCEPT ![c] = "postSpace"] /\ unread' = unread \ {at[c]}
        /\ UNCHANGED <<head, tail, numReady, spaceLeft, at>>
    BY <1>10 DEF CopyOut, Goto
  <2>a. /\ NumAdding' = NumAdding /\ NumPosting' = NumPosting
        /\ NumClaiming' = NumClaiming
    BY <1>1, <1>3, <2>0, <2>1, ConsumerMoves DEF Bit, Numbers
  <2>b. NumCopying' = NumCopying BY <1>1, <1>3, <2>0, <2>1, CopyingMoves DEF Bit
  <2>2. NumAdding' = NumAdding /\ Queued' = Queued /\ NumCopying' = NumCopying
    BY <1>2, <1>3, <2>1, <2>a, <2>b DEF Numbers, Queued
  <2>3. CreditInv' BY <1>1, <1>3, <2>1, <2>2 DEF CreditInv, Numbers
  <2>4. at[c] = From(head, Size - 1) BY <1>1, <1>2, <2>1, Turns
  <2>5. Queued < Size /\ Size - 1 \in 0 .. Size - 1 /\ \A k \in 0 .. Queued - 1 : k \in 0 .. Size - 1 /\ k # Size - 1
    BY <1>3, <2>1, SizeAssumption
  <2>6. \A k \in 0 .. Queued - 1 : From(head, k) # at[c] BY <1>2, <2>4, <2>5, Turns
  <2>7. QueuedUnread' BY <1>1, <1>4, <2>1, <2>2, <2>6 DEF QueuedUnread
  <2>8. UnreadQueued' BY <1>1, <1>2, <1>4, <2>1, <2>2 DEF UnreadQueued
  <2> QED BY <1>1, <1>2, <1>4, <2>1, <2>2, <2>3, <2>7, <2>8 DEF TurnInv
<1>11. CASE PostSpace(c)
  <2>0. Goto(c, "perform") BY <1>11 DEF PostSpace
  <2>1. /\ pc[c] = "postSpace" /\ pc' = [pc EXCEPT ![c] = "perform"] /\ spaceLeft' = spaceLeft + 1
        /\ at' = [at EXCEPT ![c] = 0]
        /\ UNCHANGED <<head, tail, numReady, unread>>
    BY <1>11 DEF PostSpace, Goto
  <2>a. /\ NumAdding' = NumAdding /\ NumPosting' = NumPosting
        /\ NumClaiming' = NumClaiming
    BY <1>1, <1>3, <2>0, <2>1, ConsumerMoves DEF Bit, Numbers
  <2>b. NumCopying' = NumCopying - 1 BY <1>1, <1>3, <2>0, <2>1, CopyingMoves DEF Bit
  <2>2. NumAdding' = NumAdding /\ Queued' = Queued /\ NumCopying' = NumCopying - 1
    BY <1>2, <1>3, <2>1, <2>a, <2>b DEF Numbers, Queued
  <2>3. CreditInv' BY <1>1, <1>3, <2>1, <2>2 DEF CreditInv, Numbers
  <2>4. QueuedUnread' BY <1>1, <1>4, <2>1, <2>2 DEF QueuedUnread
  <2>5. UnreadQueued' BY <1>1, <1>2, <1>4, <2>1, <2>2 DEF UnreadQueued
  <2> QED BY <1>1, <1>2, <1>4, <2>1, <2>2, <2>3, <2>4, <2>5 DEF TurnInv
<1>12. CASE Perform(c)
  <2>0. Goto(c, "wait") BY <1>12 DEF Perform
  <2>1. /\ pc[c] = "perform" /\ pc' = [pc EXCEPT ![c] = "wait"]
        /\ UNCHANGED <<head, tail, numReady, spaceLeft, at, unread>>
    BY <1>12 DEF Perform, Goto
  <2>a. /\ NumAdding' = NumAdding /\ NumPosting' = NumPosting
        /\ NumClaiming' = NumClaiming
    BY <1>1, <1>3, <2>0, <2>1, ConsumerMoves DEF Bit, Numbers
  <2>b. NumCopying' = NumCopying BY <1>1, <1>3, <2>0, <2>1, CopyingMoves DEF Bit
  <2>2. NumAdding' = NumAdding /\ Queued' = Queued /\ NumCopying' = NumCopying
    BY <1>2, <1>3, <2>1, <2>a, <2>b DEF Numbers, Queued
  <2>3. CreditInv' BY <1>1, <1>3, <2>1, <2>2 DEF CreditInv, Numbers
  <2>4. QueuedUnread' BY <1>1, <1>4, <2>1, <2>2 DEF QueuedUnread
  <2>5. UnreadQueued' BY <1>1, <1>2, <1>4, <2>1, <2>2 DEF UnreadQueued
  <2> QED BY <1>1, <1>2, <1>4, <2>1, <2>2, <2>3, <2>4, <2>5 DEF TurnInv
<1> QED BY <1>6, <1>7, <1>8, <1>9, <1>10, <1>11, <1>12 DEF Remove

LEMMA TurnStep ==
  ASSUME OneConsumer, SoundInv, TurnInv, [Next]_vars
  PROVE  TurnInv'
<1>1. CASE UNCHANGED <<head, tail, numReady, spaceLeft, pc, at, unread>>
  BY <1>1 DEF TurnInv, CreditInv, QueuedUnread, UnreadQueued, From, Queued, NumCopying, NumAdding,
     NumPosting, NumClaiming, Count
<1>2. NextPass \/ UNCHANGED vars => UNCHANGED <<head, tail, numReady, spaceLeft, pc, at, unread>>
  BY DEF NextPass, vars, queue, threads, history
<1> QED BY <1>1, <1>2, AddTurns, RemoveTurns DEF Next

LEMMA InitTurns == Init => TurnInv
<1> SUFFICES ASSUME Init PROVE TurnInv OBVIOUS
<1>1. NumAdding = 0 /\ NumPosting = 0 /\ NumClaiming = 0 BY InitSound
<1>2. {c \in Consumers : pc[c] \in {"copy", "postSpace"}} = {}
  BY ThreadAssumption DEF Init, Threads
<1>3. NumCopying = 0 BY <1>2, FS_EmptySet DEF NumCopying, Count
<1>4. Queued = 0 BY <1>1 DEF Queued, Init
<1>5. \A c \in Consumers : pc[c] # "copy" BY <1>2
<1> QED BY <1>1, <1>3, <1>4, <1>5, SizeAssumption
        DEF Init, TurnInv, CreditInv, QueuedUnread, UnreadQueued, From

(* With one consumer the invariant holds for a ring of any size: the slot  *)
(* that waitToAddToQueue returns is queued, or the one being copied out,   *)
(* only when the ring is full, and then spaceLeft lets no producer in.     *)
THEOREM TurnInvariant ==
  ASSUME OneConsumer PROVE Spec => [](SoundInv /\ TurnInv)
<1>1. (SoundInv /\ TurnInv) /\ [Next]_vars => (SoundInv /\ TurnInv)'
  BY TurnsSuffice, TurnsEnd, SoundStep, TurnStep
<1>2. Init => SoundInv /\ TurnInv BY InitSound, InitTurns
<1> QED BY <1>1, <1>2, PTL DEF Spec

-----------------------------------------------------------------------------
(* The theorems *)

(* What both invariants give: in every reachable state the ring is sound,  *)
(* and empty when a pass ends.                                             *)
RingInv == SoundInv /\ RingFacts /\ (PassOver => unread = {})

LEMMA RingInvariant ==
  ASSUME PassFits \/ OneConsumer PROVE Spec => []RingInv
<1>1. CASE PassFits
  <2>1. PassInv => RingInv
    BY <1>1, PassParts, PlacesSuffice, PlacesEnd DEF RingInv
  <2> QED BY <1>1, <2>1, PassInvariant, PTL
<1>2. CASE OneConsumer
  <2>1. SoundInv /\ TurnInv => RingInv
    BY <1>2, TurnsSuffice, TurnsEnd DEF RingInv
  <2> QED BY <1>2, <2>1, TurnInvariant, PTL
<1> QED BY <1>1, <1>2

(* Type correctness of the ring and its threads. *)
THEOREM TypeCorrect ==
  ASSUME PassFits \/ OneConsumer PROVE Spec => []TypeOK
<1>1. RingInv => TypeOK BY DEF RingInv, SoundInv
<1> QED BY <1>1, RingInvariant, PTL

(* waitToAddToQueue never returns a slot that still holds an unread job,   *)
(* for any number of producers and workers when the jobs of a pass fit,    *)
(* for one consumer whatever the size of the ring.                         *)
THEOREM NoJobOverwritten ==
  ASSUME PassFits \/ OneConsumer PROVE Spec => []NoOverwrite
<1>1. RingInv => NoOverwrite BY DEF RingInv, RingFacts
<1> QED BY <1>1, RingInvariant, PTL

(* Two workers never copy out the same slot, and never an unfilled one.    *)
THEOREM ClaimsAreOwned ==
  ASSUME PassFits \/ OneConsumer PROVE Spec => []OwnsClaim
<1>1. RingInv => OwnsClaim BY DEF RingInv, SoundInv
<1> QED BY <1>1, RingInvariant, PTL

-----------------------------------------------------------------------------
(* Refinement of the job service *)

(* The jobs a state maps to are jobs, and no two places hold the same one. *)
LEMMA StepRefines ==
  ASSUME RingInv, [Next]_vars
  PROVE  [Service!Next]_(Service!vars)
<1> USE ThreadAssumption DEF Threads, queue, threads, history, Goto
<1>0. TypeOK /\ JobsInv /\ OwnsClaim /\ NoOverwrite /\ SoundInv
  BY DEF RingInv, SoundInv, RingFacts
<1>1. ASSUME NEW p \in Producers, WaitSpace(p) PROVE \E j \in Jobs : Service!Submit(j)
  <2>1. PICK j \in Jobs \ submitted : /\ item' = [item EXCEPT ![p] = j]
                                      /\ pc' = [pc EXCEPT ![p] = "serialise"]
    BY <1>1 DEF WaitSpace
  <2>2. j \notin Pending \cup Running \cup Done
    BY <1>0 DEF JobsInv, Pending, Running, Done, Carrying, ToFill, InHand
  <2>3. Pending' = Pending \cup {j}
    <3>1. ToFill' = ToFill \cup {p} BY <1>0, <2>1 DEF ToFill, TypeOK
    <3>2. \A q \in ToFill' : item'[q] = IF q = p THEN j ELSE item[q]
      BY <1>0, <2>1 DEF ToFill, TypeOK
    <3>3. p \notin ToFill BY <1>1 DEF WaitSpace, ToFill
    <3>4. UNCHANGED <<slot, unread>> BY <1>1 DEF WaitSpace
    <3> QED BY <3>1, <3>2, <3>3, <3>4 DEF Pending
  <2>4. Running' = Running /\ Done' = Done
    BY <1>0, <1>1, <2>1 DEF Running, InHand, Done, WaitSpace, TypeOK
  <2> QED BY <2>2, <2>3, <2>4 DEF Service!Submit
<1>2. ASSUME NEW p \in Producers, WaitSerialise(p) \/ FinishAdd(p) \/ PostReady(p)
      PROVE  UNCHANGED <<Pending, Running, Done>>
  <2>1. ToFill' = ToFill /\ InHand' = InHand
    BY <1>0, <1>2 DEF ToFill, InHand, WaitSerialise, FinishAdd, PostReady, TypeOK
  <2>2. \A t \in ToFill \cup InHand : item'[t] = item[t]
    BY <1>0, <1>2 DEF ToFill, InHand, WaitSerialise, FinishAdd, PostReady, TypeOK
  <2>3. UNCHANGED <<slot, unread, finished>>
    BY <1>2 DEF WaitSerialise, FinishAdd, PostReady
  <2> QED BY <2>1, <2>2, <2>3 DEF Pending, Running, Done
<1>3. ASSUME NEW p \in Producers, Fill(p)
      PROVE  UNCHANGED <<Pending, Running, Done>>
  <2>1. p \in ToFill /\ ToFill' = ToFill \ {p} /\ InHand' = InHand /\ item' = item
    BY <1>0, <1>3 DEF ToFill, InHand, Fill, TypeOK
  <2>2. at[p] \notin unread BY <1>0, <1>3 DEF Fill, NoOverwrite
  <2>3. unread' = unread \cup {at[p]} /\ slot'[at[p]] = item[p]
        /\ \A i \in unread : slot'[i] = slot[i]
    BY <1>0, <1>3, <2>2 DEF Fill, TypeOK
  <2>4. Pending' = Pending BY <2>1, <2>3 DEF Pending
  <2>5. Running' = Running /\ Done' = Done BY <1>3, <2>1 DEF Running, Done, Fill
  <2> QED BY <2>4, <2>5
<1>4. ASSUME NEW c \in Consumers,
             WaitReady(c) \/ ReadHead(c) \/ Cas(c) \/ PostSpace(c)
      PROVE  UNCHANGED <<Pending, Running, Done>>
  <2>1. ToFill' = ToFill /\ InHand' = InHand
    BY <1>0, <1>4 DEF ToFill, InHand, WaitReady, ReadHead, Cas, PostSpace, TypeOK
  <2>2. UNCHANGED <<slot, unread, finished, item>>
    BY <1>4 DEF WaitReady, ReadHead, Cas, PostSpace
  <2> QED BY <2>1, <2>2 DEF Pending, Running, Done
<1>5. ASSUME NEW c \in Consumers, CopyOut(c) PROVE \E j \in Jobs : Service!Start(j)
  <2> DEFINE j == slot[at[c]]
  <2>1. at[c] \in unread /\ j \in Jobs
    BY <1>0, <1>5 DEF OwnsClaim, CopyOut, JobsInv, TypeOK
  <2>2. j \in Pending BY <2>1 DEF Pending
  <2>3. ToFill' = ToFill /\ InHand' = InHand \cup {c} /\ c \notin InHand
    BY <1>0, <1>5 DEF ToFill, InHand, CopyOut, TypeOK
  <2>4. item'[c] = j /\ \A t \in ToFill \cup InHand : item'[t] = item[t]
    BY <1>0, <1>5, <2>3 DEF ToFill, InHand, CopyOut, TypeOK
  <2>5. unread' = unread \ {at[c]} /\ UNCHANGED <<slot, finished>>
    BY <1>5 DEF CopyOut
  <2>6. \A i \in unread \ {at[c]} : slot[i] # j BY <1>0, <2>1 DEF JobsInv
  <2>7. \A p \in ToFill : item[p] # j BY <1>0, <2>1 DEF JobsInv, Carrying
  <2>8. Pending' = Pending \ {j} BY <2>1, <2>3, <2>4, <2>5, <2>6, <2>7 DEF Pending
  <2>9. Running' = Running \cup {j} BY <2>3, <2>4 DEF Running
  <2>10. Done' = Done BY <2>5 DEF Done
  <2> QED BY <2>1, <2>2, <2>8, <2>9, <2>10 DEF Service!Start
<1>6. ASSUME NEW c \in Consumers, Perform(c) PROVE \E j \in Jobs : Service!Finish(j)
  <2> DEFINE j == item[c]
  <2>1. c \in InHand /\ j \in Jobs /\ finished[j] = 0
    BY <1>0, <1>6 DEF JobsInv, Carrying, InHand, Perform, TypeOK
  <2>2. j \in Running BY <2>1 DEF Running
  <2>3. ToFill' = ToFill /\ InHand' = InHand \ {c}
    BY <1>0, <1>6 DEF ToFill, InHand, Perform, TypeOK
  <2>4. \A t \in ToFill \cup (InHand \ {c}) : item'[t] = item[t]
    BY <1>0, <1>6, <2>1 DEF ToFill, InHand, Perform, TypeOK
  <2>5. \A d \in InHand \ {c} : item[d] # j BY <1>0, <2>1 DEF JobsInv, Carrying
  <2>6. Running' = Running \ {j} BY <2>1, <2>3, <2>4, <2>5 DEF Running
  <2>7. Pending' = Pending BY <1>6, <2>3, <2>4 DEF Pending, Perform
  <2>8. Done' = Done \cup {j} BY <1>0, <1>6, <2>1 DEF Done, Perform, TypeOK
  <2> QED BY <2>1, <2>2, <2>6, <2>7, <2>8 DEF Service!Finish
<1>7. ASSUME NextPass PROVE Service!NextPass \/ UNCHANGED <<Pending, Running, Done>>
  <2>1. unread = {} /\ Carrying = {} BY <1>0, <1>7, PassEnds DEF NextPass, PassOver, RingInv
  <2>2. unread' = {} /\ ToFill' = {} /\ InHand' = {}
    BY <1>7, <2>1 DEF NextPass, Carrying, ToFill, InHand
  <2>3. Pending = {} /\ Running = {} /\ Pending' = {} /\ Running' = {}
    BY <2>1, <2>2 DEF Pending, Running, Carrying
  <2>4. Done = Jobs /\ Done' = {}
    BY <1>0, <1>7 DEF NextPass, Done, JobsInv, TypeOK
  <2> QED BY <2>3, <2>4 DEF Service!NextPass
<1>8. CASE UNCHANGED vars
  BY <1>8 DEF vars, Pending, Running, Done, ToFill, InHand, Service!vars
<1> QED BY <1>1, <1>2, <1>3, <1>4, <1>5, <1>6, <1>7, <1>8
        DEF Next, Add, Remove, Service!Next, Service!vars

(* The ring implements the job service: within a pass every submitted job  *)
(* is handed to exactly one worker and performed once, whatever the number *)
(* of workers, and the next pass starts with an empty ring.                *)
THEOREM RingServesJobs ==
  ASSUME PassFits \/ OneConsumer PROVE Spec => ServesJobs
<1>1. Init => Service!Init
  BY DEF Init, Service!Init, Pending, Running, Done, ToFill, InHand, Threads
<1>2. RingInv /\ [Next]_vars => [Service!Next]_(Service!vars) BY StepRefines
<1> QED BY <1>1, <1>2, RingInvariant, PTL DEF Spec, ServesJobs, Service!Spec
=============================================================================
