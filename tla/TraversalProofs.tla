-------------------------- MODULE TraversalProofs --------------------------
(***************************************************************************)
(* Proofs about the walks of Traversal, for all games in which no round    *)
(* can be skipped (NoSkips, of BettingTreeProofs): the stack, the boards   *)
(* and the pointers of a walk stay what the recursion of the code has.     *)
(*   The storage: which boards a run of processStorage tries is counted    *)
(* round by round (BoardsInv).                                             *)
(*   The stack: of the chance nodes on it the boards tried lie within      *)
(* those of the parent's, and each is above those that are tried later     *)
(* (StackOK).                                                              *)
(*   The order: every walk comes to the chance nodes and boards in one     *)
(* order, whatever it cuts (StepOrder), so that what one walk puts into a  *)
(* stream is what the next takes out (StreamsInOrder).                     *)
(*   What recompress writes: the boards that follow different boards are   *)
(* different ones (RowsApart) and the choices of a tree share no entry     *)
(* (TreeTiled), so what is written belongs to what has been visited, and   *)
(* nothing is written twice (ReorderPreserves).                            *)
(***************************************************************************)
EXTENDS BettingTreeProofs
-----------------------------------------------------------------------------
(* Sets in their order                                                     *)

Orders(R, S) ==
  /\ \A x \in S : <<x, x>> \notin R
  /\ \A x, y \in S : x # y => <<x, y>> \in R \/ <<y, x>> \in R
  /\ \A x, y, z \in S : (<<x, y>> \in R /\ <<y, z>> \in R) => <<x, z>> \in R

BeforeIn(R, S, x) == {y \in S : <<y, x>> \in R}

(* Of each rank in a finite set there is an element. *)
LEMMA Ranks ==
  ASSUME NEW S, IsFiniteSet(S), NEW R, Orders(R, S), NEW k \in 1 .. Cardinality(S)
  PROVE  \E x \in S : Cardinality(BeforeIn(R, S, x)) = k - 1
<1> DEFINE n == Cardinality(S)
           T == 0 .. n - 1
           f == [x \in S |-> Cardinality(BeforeIn(R, S, x))]
<1>1. n \in Nat BY FS_CardinalityType
<1>2. ASSUME NEW x \in S
      PROVE  IsFiniteSet(BeforeIn(R, S, x)) /\ Cardinality(BeforeIn(R, S, x)) \in 0 .. n - 1
  <2>1. BeforeIn(R, S, x) \in SUBSET S /\ x \notin BeforeIn(R, S, x) BY DEF BeforeIn, Orders
  <2>2. /\ IsFiniteSet(BeforeIn(R, S, x)) /\ Cardinality(BeforeIn(R, S, x)) <= Cardinality(S)
        /\ Cardinality(S) = Cardinality(BeforeIn(R, S, x)) => S = BeforeIn(R, S, x)
    BY <2>1, FS_Subset
  <2>3. Cardinality(BeforeIn(R, S, x)) \in Nat BY <2>2, FS_CardinalityType
  <2> QED BY <1>1, <2>1, <2>2, <2>3
<1>3. ASSUME NEW x \in S, NEW y \in S, x # y PROVE f[x] # f[y]
  <2>1. ASSUME NEW a \in S, NEW b \in S, <<a, b>> \in R PROVE f[a] < f[b]
    <3>1. /\ BeforeIn(R, S, a) \in SUBSET BeforeIn(R, S, b)
          /\ a \in BeforeIn(R, S, b) /\ a \notin BeforeIn(R, S, a)
      BY <2>1 DEF BeforeIn, Orders
    <3>2. IsFiniteSet(BeforeIn(R, S, b)) BY <1>2
    <3>3. /\ Cardinality(BeforeIn(R, S, a)) <= Cardinality(BeforeIn(R, S, b))
          /\ Cardinality(BeforeIn(R, S, a)) # Cardinality(BeforeIn(R, S, b))
      BY <3>1, <3>2, FS_Subset
    <3>4. Cardinality(BeforeIn(R, S, a)) \in Int /\ Cardinality(BeforeIn(R, S, b)) \in Int
      BY <1>1, <1>2
    <3> QED BY <3>3, <3>4
  <2>2. <<x, y>> \in R \/ <<y, x>> \in R BY <1>3 DEF Orders
  <2>3. f[x] \in Int /\ f[y] \in Int BY <1>1, <1>2
  <2>4. f[x] < f[y] \/ f[y] < f[x] BY <2>1, <2>2
  <2> QED BY <2>3, <2>4
<1>4. f \in [S -> T] BY <1>2
<1>5. IsFiniteSet(T) /\ Cardinality(T) = n
  <2> HIDE DEF n
  <2>1. IsFiniteSet(T) /\ Cardinality(T) = IF 0 > n - 1 THEN 0 ELSE (n - 1) - 0 + 1
    <3>1. 0 \in Int /\ n - 1 \in Int BY <1>1
    <3> QED BY <3>1, FS_Interval
  <2> HIDE DEF T
  <2> QED BY <1>1, <2>1
<1> HIDE DEF f, T
<1>6. f \in Injection(S, T)
  <2>1. DOMAIN f = S BY <1>4
  <2>2. IsInjective(f)
    <3>1. \A x, y \in S : f[x] = f[y] => x = y BY <1>3
    <3> QED BY <2>1, <3>1 DEF IsInjective
  <2> QED BY <1>4, <2>2 DEF Injection
<1>7. f \in Surjection(S, T) BY <1>5, <1>6, FS_Injection
<1>8. k - 1 \in T BY <1>1 DEF T
<1>9. PICK x \in S : f[x] = k - 1 BY <1>7, <1>8 DEF Surjection
<1> QED BY <1>9 DEF f

(* A finite set of numbers as a sequence. *)
LEMMA AscendingFacts ==
  ASSUME NEW S \in SUBSET Int, IsFiniteSet(S)
  PROVE  /\ Ascending(S) \in Seq(S) /\ Len(Ascending(S)) = Cardinality(S)
         /\ DOMAIN Ascending(S) = 1 .. Cardinality(S)
         /\ \A k \in DOMAIN Ascending(S) : Ascending(S)[k] \in S
<1>1. Cardinality(S) \in Nat BY FS_CardinalityType
<1> DEFINE R == {z \in S \X S : z[1] < z[2]}
<1>2. Orders(R, S) BY DEF Orders
<1>3. \A x \in S : BeforeIn(R, S, x) = {d \in S : d < x} BY DEF BeforeIn
<1> HIDE DEF R
<1>4. ASSUME NEW k \in 1 .. Cardinality(S) PROVE Ascending(S)[k] \in S
  <2>1. \E x \in S : Cardinality(BeforeIn(R, S, x)) = k - 1 BY <1>2, Ranks
  <2>2. \E x \in S : Cardinality({d \in S : d < x}) = k - 1 BY <1>3, <2>1
  <2>3. Ascending(S)[k] = CHOOSE c \in S : Cardinality({d \in S : d < c}) = k - 1
    BY DEF Ascending
  <2> QED BY <2>2, <2>3
<1>5. DOMAIN Ascending(S) = 1 .. Cardinality(S) BY DEF Ascending
<1>6. Ascending(S) \in [1 .. Cardinality(S) -> S] BY <1>4 DEF Ascending
<1>7. Ascending(S) \in Seq(S) /\ Len(Ascending(S)) = Cardinality(S) BY <1>1, <1>6, SeqOfFunction
<1> QED BY <1>4, <1>5, <1>7

LEMMA AscendingOne ==
  ASSUME NEW x \in Int PROVE Ascending({x})[1] = x
<1>1. IsFiniteSet({x}) /\ Cardinality({x}) = 1 BY FS_Singleton
<1>2. 1 \in DOMAIN Ascending({x}) BY <1>1, AscendingFacts
<1>3. Ascending({x})[1] \in {x} BY <1>1, <1>2, AscendingFacts
<1> QED BY <1>3

-----------------------------------------------------------------------------
(* The boards of the storage                                               *)

(* A list of nothing but elements of another. *)
Picks(l, list) == \A k \in DOMAIN l : \E i \in DOMAIN list : l[k] = list[i]

LEMMA Sorted ==
  ASSUME NEW g \in Walked, NEW parent, NEW list \in Seq(Board(g)),
         \A i \in DOMAIN list : RankCardset(g, list[i].board) \in Nat
  PROVE  LET l == SortBoards(g, parent, list)
         IN l \in Seq(Board(g)) /\ Len(l) = Len(list) /\ Picks(l, list)
<1> DEFINE D == DOMAIN list
           fl(i) == Cardinality(FlushSuits(g, parent, list[i].board))
           rk(i) == RankCardset(g, list[i].board)
           before(i, j) == \/ fl(i) < fl(j)
                           \/ fl(i) = fl(j) /\ rk(i) < rk(j)
                           \/ fl(i) = fl(j) /\ rk(i) = rk(j) /\ i < j
           R == {z \in D \X D : before(z[1], z[2])}
           l == SortBoards(g, parent, list)
<1>1. Len(list) \in Nat /\ D = 1 .. Len(list) /\ \A i \in D : list[i] \in Board(g) OBVIOUS
<1>2. IsFiniteSet(D) /\ Cardinality(D) = Len(list)
  <2>1. 1 \in Int /\ Len(list) \in Int BY <1>1
  <2> HIDE DEF D
  <2>2. IsFiniteSet(D) /\ Cardinality(D) = IF 1 > Len(list) THEN 0 ELSE Len(list) - 1 + 1
    BY <1>1, <2>1, FS_Interval
  <2> QED BY <1>1, <2>2
<1>3. ASSUME NEW i \in D PROVE fl(i) \in Nat
  <2>1. g.numSuits \in Nat BY DeckAssumption
  <2>2. IsFiniteSet(Suits(g))
    <3>1. 0 \in Int /\ g.numSuits - 1 \in Int BY <2>1
    <3> QED BY <3>1, FS_Interval DEF Suits
  <2>3. FlushSuits(g, parent, list[i].board) \in SUBSET Suits(g) BY DEF FlushSuits
  <2>4. IsFiniteSet(FlushSuits(g, parent, list[i].board)) BY <2>2, <2>3, FS_Subset
  <2> QED BY <2>4, FS_CardinalityType
<1>4. \A i \in D : fl(i) \in Nat /\ rk(i) \in Nat /\ i \in Nat BY <1>1, <1>3
<1>5. l = [k \in D |-> list[CHOOSE i \in D : Cardinality({j \in D : before(j, i)}) = k - 1]]
  BY DEF SortBoards
<1> HIDE DEF D, fl, rk, l
<1>6. /\ \A x \in D : ~before(x, x)
      /\ \A x, y \in D : x # y => before(x, y) \/ before(y, x)
      /\ \A x, y, z \in D : (before(x, y) /\ before(y, z)) => before(x, z)
  BY <1>4
<1>7. \A x, y \in D : <<x, y>> \in R <=> before(x, y) OBVIOUS
<1> HIDE DEF before, R
<1>70. Orders(R, D) BY <1>6, <1>7 DEF Orders
<1>71. \A i \in D : BeforeIn(R, D, i) = {j \in D : before(j, i)} BY <1>7 DEF BeforeIn
<1>8. ASSUME NEW k \in D PROVE \E i \in D : l[k] = list[i]
  <2>1. k \in 1 .. Cardinality(D) BY <1>1, <1>2
  <2>2. \E i \in D : Cardinality(BeforeIn(R, D, i)) = k - 1 BY <1>2, <1>70, <2>1, Ranks
  <2>3. \E i \in D : Cardinality({j \in D : before(j, i)}) = k - 1 BY <1>71, <2>2
  <2> DEFINE c == CHOOSE i \in D : Cardinality({j \in D : before(j, i)}) = k - 1
  <2>4. c \in D BY <2>3
  <2>5. l[k] = list[c] BY <1>5
  <2> QED BY <2>4, <2>5
<1>9. DOMAIN l = 1 .. Len(list) BY <1>1, <1>5
<1>10. l \in [1 .. Len(list) -> Board(g)]
  <2>1. \A k \in 1 .. Len(list) : l[k] \in Board(g) BY <1>1, <1>8
  <2>2. l = [k \in 1 .. Len(list) |-> l[k]] BY <1>1, <1>5
  <2> QED BY <2>1, <2>2
<1>11. l \in Seq(Board(g)) /\ Len(l) = Len(list) BY <1>1, <1>10, SeqOfFunction
<1>12. Picks(l, list) BY <1>1, <1>8, <1>9 DEF Picks, D
<1> QED BY <1>11, <1>12 DEF l

LEMMA SampledPicks ==
  ASSUME NEW T, NEW list \in Seq(T), list # <<>>, NEW n \in Nat, NEW l \in Sampled(list, n)
  PROVE  l \in Seq(T) /\ Len(l) \in Nat \ {0} /\ Picks(l, list)
<1>1. Len(list) \in Nat \ {0} /\ DOMAIN list = 1 .. Len(list) /\ \A i \in DOMAIN list : list[i] \in T
  OBVIOUS
<1>2. CASE l = list BY <1>1, <1>2 DEF Picks
<1>3. CASE n # 0 /\ l \in {[i \in 1 .. n |-> list[Ascending(I)[i]]] : I \in kSubset(n, DOMAIN list)}
  <2>1. PICK I \in kSubset(n, DOMAIN list) : l = [i \in 1 .. n |-> list[Ascending(I)[i]]] BY <1>3
  <2>2. I \in SUBSET DOMAIN list /\ Cardinality(I) = n BY DEF kSubset
  <2>3. IsFiniteSet(1 .. Len(list))
    <3>1. 1 \in Int /\ Len(list) \in Int BY <1>1
    <3> QED BY <3>1, FS_Interval
  <2>4. IsFiniteSet(I) /\ I \in SUBSET Int BY <1>1, <2>2, <2>3, FS_Subset
  <2>5. \A k \in 1 .. n : Ascending(I)[k] \in I BY <2>2, <2>4, AscendingFacts
  <2>6. \A k \in 1 .. n : Ascending(I)[k] \in DOMAIN list /\ l[k] = list[Ascending(I)[k]]
    BY <2>1, <2>2, <2>5
  <2>7. l \in [1 .. n -> T]
    <3>1. \A k \in 1 .. n : list[Ascending(I)[k]] \in T BY <1>1, <2>6
    <3> QED BY <2>1, <3>1
  <2>8. l \in Seq(T) /\ Len(l) = n BY <2>7, SeqOfFunction
  <2>9. Picks(l, list) BY <2>1, <2>6 DEF Picks
  <2> QED BY <1>3, <2>8, <2>9
<1> QED BY <1>2, <1>3 DEF Sampled

Begins(b) == [board |-> b.board, suitGroups |-> b.suitGroups]

(* What follows the boards of D in round r. *)
DealtNext(g, r, D) ==
  UNION {LET new == NewBoards(g, r, b.board, b.suitGroups)
         IN {[board |-> new[i].board, suitGroups |-> new[i].suitGroups] : i \in DOMAIN new} : b \in D}

DealtFirst(g) == {[board |-> {}, suitGroups |-> InitSuitGroups(g)]}

LEMMA DealtUnfolds ==
  ASSUME NEW g, g.numRounds \in Nat
  PROVE  /\ Dealt(g)[0] = DealtFirst(g)
         /\ \A r \in 1 .. g.numRounds : Dealt(g)[r] = DealtNext(g, r - 1, Dealt(g)[r - 1])
<1> DEFINE N == g.numRounds
           Makes(D, n) == D = [r \in 0 .. n |-> IF r = 0 THEN DealtFirst(g) ELSE DealtNext(g, r - 1, D[r - 1])]
           E == {n \in 0 .. N : \E D : Makes(D, n)}
<1>1. 0 \in E
  <2> DEFINE D == [r \in 0 .. 0 |-> DealtFirst(g)]
  <2>1. Makes(D, 0) OBVIOUS
  <2> HIDE DEF D
  <2>2. \E C : Makes(C, 0) BY <2>1
  <2>3. 0 \in 0 .. N OBVIOUS
  <2> QED BY <2>2, <2>3
<1>2. ASSUME NEW n \in 0 .. N - 1, n \in E PROVE n + 1 \in E
  <2>1. PICK D : Makes(D, n) BY <1>2
  <2> DEFINE x == DealtNext(g, n, D[n])
             C == [r \in 0 .. n + 1 |-> IF r = n + 1 THEN x ELSE D[r]]
  <2> HIDE DEF x
  <2>2. C[n + 1] = x /\ \A r \in 0 .. n : C[r] = D[r] OBVIOUS
  <2>3. \A r \in 0 .. n : D[r] = IF r = 0 THEN DealtFirst(g) ELSE DealtNext(g, r - 1, D[r - 1])
    BY <2>1
  <2>4. ASSUME NEW r \in 0 .. n + 1
        PROVE  C[r] = IF r = 0 THEN DealtFirst(g) ELSE DealtNext(g, r - 1, C[r - 1])
    <3>1. CASE r = n + 1
      <4>1. r - 1 = n /\ r # 0 /\ n \in 0 .. n BY <3>1
      <4>2. C[n] = D[n] BY <2>2, <4>1
      <4> HIDE DEF C
      <4>3. C[r] = DealtNext(g, r - 1, C[r - 1]) BY <2>2, <3>1, <4>1, <4>2 DEF x
      <4> QED BY <4>1, <4>3
    <3>2. CASE r # n + 1
      <4>1. r \in 0 .. n /\ (r # 0 => r - 1 \in 0 .. n) BY <3>2
      <4>2. C[r] = D[r] /\ (r # 0 => C[r - 1] = D[r - 1]) BY <2>2, <4>1
      <4> HIDE DEF C
      <4> QED BY <2>3, <4>1, <4>2
    <3> QED BY <3>1, <3>2
  <2>5. C = [r \in 0 .. n + 1 |-> C[r]] OBVIOUS
  <2> HIDE DEF C
  <2>6. C = [r \in 0 .. n + 1 |-> IF r = 0 THEN DealtFirst(g) ELSE DealtNext(g, r - 1, C[r - 1])]
    BY <2>4, <2>5, Zenon
  <2>7. n + 1 \in 0 .. N OBVIOUS
  <2> QED BY <2>6, <2>7
<1> HIDE DEF E
<1>3. 0 .. N \subseteq E BY <1>1, <1>2, Induction
<1>4. N \in E BY <1>3
<1>5. \E D : Makes(D, N) BY <1>4 DEF E
<1>6. Dealt(g) = CHOOSE D : Makes(D, N) BY Zenon DEF Dealt, DealtFirst, DealtNext
<1>7. Makes(Dealt(g), N) BY <1>5, <1>6
<1> DEFINE D == Dealt(g)
<1>8. \A r \in 0 .. N : D[r] = IF r = 0 THEN DealtFirst(g) ELSE DealtNext(g, r - 1, D[r - 1])
  <2>1. Makes(D, N) BY <1>7
  <2> HIDE DEF D
  <2> QED BY <2>1
<1> HIDE DEF D
<1>9. 0 \in 0 .. N /\ \A r \in 1 .. N : r \in 0 .. N /\ r # 0 OBVIOUS
<1> QED BY <1>8, <1>9 DEF D

LEMMA DealtFollows ==
  ASSUME NEW g \in Walked, NEW r \in RoundsOf(g), NEW b \in Dealt(g)[r],
         NEW i \in DOMAIN NewBoards(g, r, b.board, b.suitGroups)
  PROVE  Begins(NewBoards(g, r, b.board, b.suitGroups)[i]) \in Dealt(g)[r + 1]
<1>1. g \in Games BY WalkedAssumption
<1>2. g.numRounds \in Nat BY <1>1, GamesAssumption
<1>3. r + 1 \in 1 .. g.numRounds /\ (r + 1) - 1 = r BY <1>2 DEF RoundsOf
<1>4. Dealt(g)[r + 1] = DealtNext(g, r, Dealt(g)[r]) BY <1>2, <1>3, DealtUnfolds
<1> DEFINE new == NewBoards(g, r, b.board, b.suitGroups)
           next(c) == LET n == NewBoards(g, r, c.board, c.suitGroups)
                      IN {[board |-> n[k].board, suitGroups |-> n[k].suitGroups] : k \in DOMAIN n}
<1>5. Begins(new[i]) \in next(b) BY DEF Begins
<1>6. DealtNext(g, r, Dealt(g)[r]) = UNION {next(c) : c \in Dealt(g)[r]} BY DEF DealtNext
<1> HIDE DEF next, new
<1> QED BY <1>4, <1>5, <1>6 DEF new

(* A board that nothing follows yet. *)
Fresh(e) == e.firstChildIndex = 0 /\ e.endChildIndex = 0

LEMMA NewList ==
  ASSUME NEW g \in Walked, NEW r \in RoundsOf(g), NEW b, Begins(b) \in Dealt(g)[r], NEW parent,
         NEW list \in Sampled(NewBoards(g, r, b.board, b.suitGroups), g.numSampledBoards[r])
  PROVE  LET l == SortBoards(g, parent, list)
         IN /\ l \in Seq(Board(g)) /\ Len(l) = Len(list) /\ Len(l) \in Nat \ {0}
            /\ \A k \in DOMAIN l : Begins(l[k]) \in Dealt(g)[r + 1] /\ Fresh(l[k])
<1> DEFINE l   == SortBoards(g, parent, list)
           new == NewBoards(g, r, b.board, b.suitGroups)
           c   == Begins(b)
<1>1. c.board = b.board /\ c.suitGroups = b.suitGroups BY DEF Begins
<1>2. new = NewBoards(g, r, c.board, c.suitGroups) BY <1>1
<1>3. g.numSampledBoards[r] \in Nat BY DeckAssumption
<1> HIDE DEF c
<1>4. new \in Seq(Board(g)) /\ new # <<>> /\ \A i \in DOMAIN new : RankCardset(g, new[i].board) \in Nat
  BY <1>2, DeckAssumption DEF c
<1>5. \A i \in DOMAIN new : Begins(new[i]) \in Dealt(g)[r + 1] BY <1>2, DealtFollows DEF c
<1>6. list \in Sampled(new, g.numSampledBoards[r]) OBVIOUS
<1>7. \A i \in DOMAIN new : Fresh(new[i]) BY DEF NewBoards, BoardInfo, Fresh
<1> HIDE DEF new
<1>8. list \in Seq(Board(g)) /\ Len(list) \in Nat \ {0} /\ Picks(list, new)
  BY <1>3, <1>4, <1>6, SampledPicks
<1>9. \A i \in DOMAIN list : /\ RankCardset(g, list[i].board) \in Nat
                             /\ Begins(list[i]) \in Dealt(g)[r + 1] /\ Fresh(list[i])
  BY <1>4, <1>5, <1>8, <1>7 DEF Picks
<1>10. l \in Seq(Board(g)) /\ Len(l) = Len(list) /\ Picks(l, list) BY <1>8, <1>9, Sorted
<1> HIDE DEF l
<1>11. \A k \in DOMAIN l : Begins(l[k]) \in Dealt(g)[r + 1] /\ Fresh(l[k]) BY <1>9, <1>10 DEF Picks
<1> QED BY <1>8, <1>10, <1>11 DEF l

StorageType(g) ==
  [tree : Nat, startRound : RoundsOf(g), endRound : 1 .. g.numRounds, board : SUBSET Deck(g),
   suitGroups : [Suits(g) -> Suits(g)], round : Nat, calls : Nat,
   boards : [RoundsOf(g) -> Seq(Board(g))]]

(* Two fields of a record within a record change together.                 *)
RowOf(S, q, a, e) ==
  /\ "boards" \in DOMAIN S /\ q \in DOMAIN S.boards /\ a \in DOMAIN S.boards[q]
  /\ e = S.boards[q][a] /\ "firstChildIndex" \in DOMAIN e /\ "endChildIndex" \in DOMAIN e

FieldsChanged(S, q, a, x, y) ==
  [S EXCEPT !.boards[q][a].firstChildIndex = x, !.boards[q][a].endChildIndex = y]

RowChanged(S, q, a, e, x, y) ==
  [S EXCEPT !.boards = [S.boards EXCEPT ![q] = [S.boards[q] EXCEPT ![a] =
     [e EXCEPT !.firstChildIndex = x, !.endChildIndex = y]]]]

LEMMA RowChange ==
  ASSUME NEW S, NEW q, NEW a, NEW e, RowOf(S, q, a, e), NEW x, NEW y
  PROVE  FieldsChanged(S, q, a, x, y) = RowChanged(S, q, a, e, x, y)
BY DEF RowOf, FieldsChanged, RowChanged

(* There are boards of the next round for board a of a list. *)
Leads(bs, r, a) == /\ bs[r][a].firstChildIndex < bs[r][a].endChildIndex
                   /\ bs[r][a].endChildIndex <= Len(bs[r + 1])

(* What is set up is part of the tree and can be dealt. *)
StorageBegun ==
  /\ todo = <<>> /\ game \in Walked /\ storage \in StorageType(game)
  /\ storage.startRound <= storage.round /\ storage.round <= storage.endRound
  /\ storage.startRound < storage.endRound
  /\ storage.tree = 0 => storage.startRound = 0 /\ storage.endRound = TrunkRounds
  /\ storage.tree # 0 =>
       /\ storage.endRound = game.numRounds
       /\ \E i \in SubgameNodes : /\ nodes[i].u.index + 1 = storage.tree
                                  /\ nodes[i].round = storage.startRound
  /\ Begins(storage) \in Dealt(game)[storage.startRound]
  /\ \A r \in Rounds : \A i \in DOMAIN storage.boards[r] :
       Begins(storage.boards[r][i]) \in Dealt(game)[r + 1]

(* The rounds before the current one have boards, and every board of a     *)
(* round is followed by some of the next; in the current round, each board *)
(* of the round before that there has been a call for.                     *)
BoardsInv ==
  LET now == storage.round  bs == storage.boards
  IN /\ \A r \in storage.startRound .. now - 1 : bs[r] # <<>>
     /\ \A r \in storage.startRound .. now - 2 : \A a \in DOMAIN bs[r] : Leads(bs, r, a)
     /\ now < storage.endRound =>
          IF now = storage.startRound THEN storage.calls > 0 => bs[now] # <<>>
          ELSE \A a \in DOMAIN bs[now - 1] : a <= storage.calls => Leads(bs, now - 1, a)

StorageInv ==
  \/ storage = EmptyStorage(game, 0, 0, 0, {}, InitSuitGroups(game))
  \/ StorageBegun /\ BoardsInv

LEMMA BegunStays ==
  ASSUME StorageBegun, UNCHANGED vars, storage' \in StorageType(game),
         storage'.tree = storage.tree, storage'.startRound = storage.startRound,
         storage'.endRound = storage.endRound, storage'.board = storage.board,
         storage'.suitGroups = storage.suitGroups,
         storage.startRound <= storage'.round, storage'.round <= storage.endRound,
         \A r \in Rounds : \A i \in DOMAIN storage'.boards[r] :
           Begins(storage'.boards[r][i]) \in Dealt(game)[r + 1]
  PROVE  StorageBegun'
<1>1. /\ game' = game /\ todo' = todo /\ nodes' = nodes BY DEF vars
<1>2. /\ Rounds' = Rounds /\ TrunkRounds' = TrunkRounds /\ SubgameNodes' = SubgameNodes
  BY <1>1 DEF Rounds, TrunkRounds, SubgameNodes
<1>3. Begins(storage)' = Begins(storage) BY DEF Begins
<1> QED BY <1>1, <1>2, <1>3 DEF StorageBegun

(* The boards that one call sets up come behind those of its round. *)
LEMMA ListAdded ==
  ASSUME NEW T, NEW s \in Seq(T), NEW l \in Seq(T), Len(l) # 0
  PROVE  /\ s \o l \in Seq(T) /\ Len(s \o l) = Len(s) + Len(l) /\ s \o l # <<>>
         /\ Len(s) \in Nat /\ Len(l) \in Nat
         /\ \A i \in DOMAIN (s \o l) : \/ i \in DOMAIN s /\ (s \o l)[i] = s[i]
                                       \/ \E k \in DOMAIN l : (s \o l)[i] = l[k]
<1>1. /\ s \o l \in Seq(T) /\ Len(s \o l) = Len(s) + Len(l)
      /\ \A i \in 1 .. Len(s) + Len(l) : (s \o l)[i] = IF i <= Len(s) THEN s[i] ELSE l[i - Len(s)]
  BY ConcatProperties
<1>2. Len(s) \in Nat /\ Len(l) \in Nat /\ DOMAIN s = 1 .. Len(s) /\ DOMAIN l = 1 .. Len(l) OBVIOUS
<1>3. DOMAIN (s \o l) = 1 .. Len(s) + Len(l) BY <1>1
<1>4. ASSUME NEW i \in DOMAIN (s \o l)
      PROVE  \/ i \in DOMAIN s /\ (s \o l)[i] = s[i]
             \/ \E k \in DOMAIN l : (s \o l)[i] = l[k]
  <2>1. CASE i <= Len(s) BY <1>1, <1>2, <1>3, <1>4, <2>1
  <2>2. CASE ~(i <= Len(s))
    <3>1. i - Len(s) \in DOMAIN l BY <1>2, <1>3, <1>4, <2>2
    <3> QED BY <1>1, <1>3, <1>4, <2>2, <3>1
  <2> QED BY <2>1, <2>2
<1> QED BY <1>1, <1>2, <1>4

LEMMA SetUpFirst ==
  ASSUME StorageBegun, BoardsInv, SetUpBoards(game), UNCHANGED vars,
         storage.round = storage.startRound
  PROVE  (StorageBegun /\ BoardsInv)'
<1> DEFINE r  == storage.round
           bs == storage.boards
<1>1. /\ game \in Walked /\ storage \in StorageType(game) /\ r \in Rounds /\ r < storage.endRound
      /\ Begins(storage) \in Dealt(game)[r] /\ bs \in [Rounds -> Seq(Board(game))]
      /\ r \in Nat /\ storage.calls \in Nat /\ storage.endRound \in Int
  BY AllGamesOK, WalkedAssumption DEF StorageBegun, StorageType, SetUpBoards, Rounds, RoundsOf, GameOK
<1>2. PICK list \in Sampled(NewBoards(game, r, storage.board, storage.suitGroups),
                            game.numSampledBoards[r]) :
        storage' = [storage EXCEPT !.calls = @ + 1,
                      !.boards[r] = @ \o SortBoards(game, storage.board, list)]
  BY DEF SetUpBoards
<1> DEFINE l == SortBoards(game, storage.board, list)
<1>3. /\ l \in Seq(Board(game)) /\ Len(l) \in Nat \ {0}
      /\ \A k \in DOMAIN l : Begins(l[k]) \in Dealt(game)[r + 1]
  BY <1>1, NewList DEF Rounds
<1>4. storage' = [storage EXCEPT !.calls = @ + 1, !.boards = [bs EXCEPT ![r] = @ \o l]]
  BY <1>1, <1>2 DEF StorageType
<1> HIDE DEF l
<1>5. bs[r] \in Seq(Board(game)) BY <1>1
<1>6. /\ bs[r] \o l \in Seq(Board(game)) /\ bs[r] \o l # <<>>
      /\ \A i \in DOMAIN (bs[r] \o l) : \/ i \in DOMAIN bs[r] /\ (bs[r] \o l)[i] = bs[r][i]
                                        \/ \E k \in DOMAIN l : (bs[r] \o l)[i] = l[k]
  BY <1>3, <1>5, ListAdded
<1> DEFINE s == bs[r] \o l
           bs2 == [bs EXCEPT ![r] = s]
<1> HIDE DEF s
<1>7. bs2 \in [Rounds -> Seq(Board(game))] /\ bs2[r] = s /\ \A q \in Rounds : q # r => bs2[q] = bs[q]
  BY <1>1, <1>6 DEF s
<1>8. storage' = [storage EXCEPT !.calls = @ + 1, !.boards = bs2] BY <1>4 DEF s
<1> HIDE DEF bs2
<1>9. /\ storage' \in StorageType(game) /\ storage'.boards = bs2 /\ storage'.calls = storage.calls + 1
      /\ storage'.tree = storage.tree /\ storage'.startRound = storage.startRound
      /\ storage'.endRound = storage.endRound /\ storage'.board = storage.board
      /\ storage'.suitGroups = storage.suitGroups /\ storage'.round = storage.round
  <2>1. bs2 \in [RoundsOf(game) -> Seq(Board(game))] BY <1>7 DEF Rounds
  <2>2. storage.calls + 1 \in Nat BY <1>1
  <2> QED BY <1>1, <1>8, <2>1, <2>2 DEF StorageType
<1>10. \A q \in Rounds : \A i \in DOMAIN bs2[q] : Begins(bs2[q][i]) \in Dealt(game)[q + 1]
  <2>1. \A q \in Rounds : \A i \in DOMAIN bs[q] : Begins(bs[q][i]) \in Dealt(game)[q + 1]
    BY DEF StorageBegun
  <2>2. \A i \in DOMAIN s : Begins(s[i]) \in Dealt(game)[r + 1] BY <1>1, <1>3, <1>6, <2>1 DEF s
  <2> QED BY <1>7, <2>1, <2>2
<1>11. StorageBegun'
  <2>1. storage.startRound <= storage'.round /\ storage'.round <= storage.endRound
    BY <1>9 DEF StorageBegun
  <2> QED BY <1>9, <1>10, <2>1, BegunStays
<1>12. BoardsInv'
  <2>1. bs2[r] # <<>> BY <1>6, <1>7 DEF s
  <2>2. \A q : q \notin r .. r - 1 /\ q \notin r .. r - 2 BY <1>1
  <2> QED BY <1>9, <2>1, <2>2 DEF BoardsInv
<1> QED BY <1>11, <1>12

(* What a call of a later round does to the lists of boards: board a of    *)
(* the round before gets the boards l behind it.                           *)
OneCall(bs, bs2, r, a, l) ==
  /\ bs2 \in [Rounds -> Seq(Board(game))] /\ bs2[r] = bs[r] \o l
  /\ \A q \in Rounds : (q # r /\ q # r - 1) => bs2[q] = bs[q]
  /\ Len(bs2[r - 1]) = Len(bs[r - 1])
  /\ \A i \in DOMAIN bs[r - 1] : /\ Begins(bs2[r - 1][i]) = Begins(bs[r - 1][i])
                                 /\ i # a => bs2[r - 1][i] = bs[r - 1][i]
  /\ bs2[r - 1][a].firstChildIndex = Len(bs[r])
  /\ bs2[r - 1][a].endChildIndex = Len(bs[r]) + Len(l)

SameStorage == /\ storage'.tree = storage.tree /\ storage'.startRound = storage.startRound
               /\ storage'.endRound = storage.endRound /\ storage'.board = storage.board
               /\ storage'.suitGroups = storage.suitGroups

LEMMA Remainder ==
  ASSUME NEW N \in Nat \ {0}, NEW x \in Nat
  PROVE  x % N \in 0 .. N - 1 /\ (x < N => x % N = x)
OBVIOUS

LEMMA SetUpCall ==
  ASSUME StorageBegun, BoardsInv, SetUpBoards(game), storage.round # storage.startRound
  PROVE  LET r  == storage.round
             bs == storage.boards
             a  == (storage.calls % Len(bs[r - 1])) + 1
         IN /\ r \in Rounds /\ r - 1 \in Rounds /\ a \in DOMAIN bs[r - 1]
            /\ storage' \in StorageType(game) /\ SameStorage
            /\ storage'.calls = storage.calls + 1 /\ storage'.round = r
            /\ \E l \in Seq(Board(game)) :
                 /\ Len(l) # 0
                 /\ \A k \in DOMAIN l : Begins(l[k]) \in Dealt(game)[r + 1] /\ Fresh(l[k])
                 /\ OneCall(bs, storage'.boards, r, a, l)
<1> DEFINE r  == storage.round
           bs == storage.boards
           a  == (storage.calls % Len(bs[r - 1])) + 1
<1>1. /\ game \in Walked /\ storage \in StorageType(game) /\ r \in Rounds /\ r - 1 \in Rounds
      /\ r < storage.endRound /\ r # storage.startRound
      /\ bs \in [Rounds -> Seq(Board(game))] /\ r \in Nat /\ storage.calls \in Nat
  <2>1. /\ game \in Walked /\ storage \in StorageType(game) /\ r < storage.endRound
        /\ storage.startRound <= r /\ storage.startRound # r
    BY DEF StorageBegun, SetUpBoards
  <2>2. game.numRounds \in Nat BY <2>1, AllGamesOK, WalkedAssumption DEF GameOK
  <2>3. /\ storage.startRound \in RoundsOf(game) /\ storage.endRound \in 1 .. game.numRounds
        /\ r \in Nat /\ storage.calls \in Nat /\ bs \in [RoundsOf(game) -> Seq(Board(game))]
    BY <2>1 DEF StorageType
  <2>4. r \in RoundsOf(game) /\ r - 1 \in RoundsOf(game) BY <2>1, <2>2, <2>3 DEF RoundsOf
  <2> QED BY <2>1, <2>3, <2>4 DEF Rounds
<1>2. bs[r - 1] \in Seq(Board(game)) /\ bs[r] \in Seq(Board(game)) BY <1>1
<1>3. bs[r - 1] # <<>>
  <2>1. storage.startRound \in Nat /\ storage.startRound <= r
    BY <1>1 DEF StorageBegun, StorageType, RoundsOf
  <2>2. r - 1 \in storage.startRound .. r - 1 BY <1>1, <2>1
  <2> QED BY <2>2 DEF BoardsInv
<1>4. Len(bs[r - 1]) \in Nat \ {0} /\ DOMAIN bs[r - 1] = 1 .. Len(bs[r - 1]) BY <1>2, <1>3
<1>5. a \in DOMAIN bs[r - 1]
  <2>1. storage.calls % Len(bs[r - 1]) \in 0 .. Len(bs[r - 1]) - 1 BY <1>1, <1>4, Remainder
  <2> QED BY <1>4, <2>1
<1> DEFINE parent == bs[r - 1][a]
<1>6. BoardAt(r - 1, storage.calls % NumBoards(r - 1)) = parent BY DEF BoardAt, NumBoards
<1>7. PICK list \in Sampled(NewBoards(game, r, parent.board, parent.suitGroups),
                            game.numSampledBoards[r]) :
        LET begin == [storage EXCEPT
                         !.calls = @ + 1,
                         !.boards[r] = @ \o SortBoards(game, parent.board, list)]
        IN storage' = [begin EXCEPT !.boards[r - 1][a].firstChildIndex = Len(bs[r]),
                                    !.boards[r - 1][a].endChildIndex = Len(bs[r]) + Len(list)]
  BY <1>1, <1>6 DEF SetUpBoards, NumBoards
<1> DEFINE l == SortBoards(game, parent.board, list)
<1>8. Begins(parent) \in Dealt(game)[r]
  <2>1. Begins(bs[r - 1][a]) \in Dealt(game)[(r - 1) + 1] BY <1>1, <1>5 DEF StorageBegun
  <2>2. (r - 1) + 1 = r BY <1>1
  <2> QED BY <2>1, <2>2
<1> HIDE DEF parent
<1>9. /\ l \in Seq(Board(game)) /\ Len(l) \in Nat \ {0} /\ Len(l) = Len(list)
      /\ \A k \in DOMAIN l : Begins(l[k]) \in Dealt(game)[r + 1] /\ Fresh(l[k])
  BY <1>1, <1>8, NewList DEF Rounds
<1> DEFINE begin == [storage EXCEPT !.calls = @ + 1, !.boards[r] = @ \o l]
           x == Len(bs[r])
           y == Len(bs[r]) + Len(list)
<1>10. storage' = [begin EXCEPT !.boards[r - 1][a].firstChildIndex = x,
                                !.boards[r - 1][a].endChildIndex = y]
  BY <1>7
<1> HIDE DEF l
<1>11. bs[r] \o l \in Seq(Board(game)) /\ Len(bs[r]) \in Nat BY <1>2, <1>9, ListAdded
<1>12. x \in Nat /\ y \in Nat /\ y = Len(bs[r]) + Len(l) BY <1>9, <1>11
<1> DEFINE b1 == [bs EXCEPT ![r] = bs[r] \o l]
<1>13. /\ b1 \in [Rounds -> Seq(Board(game))] /\ b1[r] = bs[r] \o l
       /\ \A q \in Rounds : q # r => b1[q] = bs[q]
  BY <1>1, <1>11
<1>14. begin = [storage EXCEPT !.calls = @ + 1, !.boards = b1] BY <1>1 DEF StorageType
<1> HIDE DEF begin, b1, x, y
<1>15. b1[r - 1] = bs[r - 1] /\ r - 1 # r BY <1>1, <1>13
<1>16. /\ begin \in StorageType(game) /\ begin.boards = b1 /\ begin.calls = storage.calls + 1
       /\ begin.tree = storage.tree /\ begin.startRound = storage.startRound
       /\ begin.endRound = storage.endRound /\ begin.board = storage.board
       /\ begin.suitGroups = storage.suitGroups /\ begin.round = storage.round
  <2>1. b1 \in [RoundsOf(game) -> Seq(Board(game))] BY <1>13 DEF Rounds
  <2>2. storage.calls + 1 \in Nat BY <1>1
  <2> QED BY <1>1, <1>14, <2>1, <2>2 DEF StorageType
<1> DEFINE row  == bs[r - 1]
           new  == [row[a] EXCEPT !.firstChildIndex = x, !.endChildIndex = y]
           row2 == [row EXCEPT ![a] = new]
           bs2  == [b1 EXCEPT ![r - 1] = row2]
<1>17. row[a] \in Board(game) /\ row \in Seq(Board(game)) /\ a \in DOMAIN row BY <1>2, <1>5
<1>18. /\ new \in Board(game) /\ new.firstChildIndex = x /\ new.endChildIndex = y
       /\ Begins(new) = Begins(row[a])
  BY <1>12, <1>17 DEF Board, Begins
<1>19. storage' = [begin EXCEPT !.boards = [b1 EXCEPT ![r - 1] = [row EXCEPT ![a] =
                     [row[a] EXCEPT !.firstChildIndex = x, !.endChildIndex = y]]]]
  <2>1. "boards" \in DOMAIN begin /\ r - 1 \in DOMAIN b1 /\ begin.boards[r - 1] = row
    BY <1>1, <1>13, <1>15, <1>16 DEF StorageType
  <2>2. "firstChildIndex" \in DOMAIN row[a] /\ "endChildIndex" \in DOMAIN row[a]
    BY <1>17 DEF Board
  <2> HIDE DEF row
  <2> DEFINE e == begin.boards[r - 1][a]
  <2>3. begin.boards = b1 /\ b1[r - 1] = row /\ e = row[a] BY <1>16, <2>1
  <2> HIDE DEF e
  <2>4. /\ r - 1 \in DOMAIN begin.boards /\ a \in DOMAIN begin.boards[r - 1]
        /\ "firstChildIndex" \in DOMAIN e /\ "endChildIndex" \in DOMAIN e
    BY <1>17, <2>1, <2>2, <2>3
  <2>5. storage' = [begin EXCEPT !.boards = [begin.boards EXCEPT ![r - 1] =
                      [begin.boards[r - 1] EXCEPT ![a] =
                        [e EXCEPT !.firstChildIndex = x, !.endChildIndex = y]]]]
    <3>1. e = begin.boards[r - 1][a] BY DEF e
    <3>2. RowOf(begin, r - 1, a, e) BY <2>1, <2>4, <3>1 DEF RowOf
    <3> HIDE DEF bs, r, a, new, row2, bs2
    <3>3. storage' = FieldsChanged(begin, r - 1, a, x, y) BY <1>10, Zenon DEF FieldsChanged
    <3>4. storage' = RowChanged(begin, r - 1, a, e, x, y) BY <3>2, <3>3, RowChange
    <3> QED BY <3>4, Zenon DEF RowChanged
  <2> QED BY <2>3, <2>5, Zenon
<1>20. storage' = [begin EXCEPT !.boards = bs2] BY <1>19
<1> HIDE DEF new
<1>21. /\ row2 \in Seq(Board(game)) /\ Len(row2) = Len(row) /\ row2[a] = new
       /\ \A i \in DOMAIN row : i # a => row2[i] = row[i]
  BY <1>17, <1>18
<1> HIDE DEF row2
<1>22. /\ bs2 \in [Rounds -> Seq(Board(game))] /\ bs2[r - 1] = row2
       /\ \A q \in Rounds : q # r - 1 => bs2[q] = b1[q]
  BY <1>1, <1>13, <1>21
<1> HIDE DEF bs2
<1>23. /\ storage' \in StorageType(game) /\ storage'.boards = bs2
       /\ storage'.calls = storage.calls + 1 /\ storage'.round = r /\ SameStorage
  <2>1. bs2 \in [RoundsOf(game) -> Seq(Board(game))] BY <1>22 DEF Rounds
  <2> QED BY <1>16, <1>20, <2>1 DEF StorageType, SameStorage
<1>24. OneCall(bs, bs2, r, a, l)
  <2>1. bs2[r] = bs[r] \o l BY <1>1, <1>13, <1>15, <1>22
  <2>2. \A q \in Rounds : (q # r /\ q # r - 1) => bs2[q] = bs[q] BY <1>13, <1>22
  <2>3. \A i \in DOMAIN row : /\ Begins(bs2[r - 1][i]) = Begins(row[i])
                              /\ i # a => bs2[r - 1][i] = row[i]
    BY <1>18, <1>21, <1>22
  <2>4. Len(bs2[r - 1]) = Len(row) BY <1>21, <1>22
  <2>5. bs2[r - 1][a].firstChildIndex = Len(bs[r]) /\ bs2[r - 1][a].endChildIndex = Len(bs[r]) + Len(l)
    BY <1>12, <1>18, <1>21, <1>22 DEF x
  <2> QED BY <1>22, <2>1, <2>2, <2>3, <2>4, <2>5 DEF OneCall
<1> QED BY <1>1, <1>5, <1>9, <1>23, <1>24

LEMMA SetUpNext ==
  ASSUME StorageBegun, BoardsInv, SetUpBoards(game), UNCHANGED vars,
         storage.round # storage.startRound
  PROVE  (StorageBegun /\ BoardsInv)'
<1> DEFINE r  == storage.round
           bs == storage.boards
           bs2 == storage'.boards
           N  == Len(bs[r - 1])
           a  == (storage.calls % N) + 1
<1>1. /\ r \in Rounds /\ r - 1 \in Rounds /\ a \in DOMAIN bs[r - 1]
      /\ storage' \in StorageType(game) /\ SameStorage
      /\ storage'.calls = storage.calls + 1 /\ storage'.round = r
      /\ \E l \in Seq(Board(game)) :
           /\ Len(l) # 0 /\ \A k \in DOMAIN l : Begins(l[k]) \in Dealt(game)[r + 1]
           /\ OneCall(bs, bs2, r, a, l)
  BY SetUpCall
<1>2. PICK l \in Seq(Board(game)) :
        /\ Len(l) # 0 /\ \A k \in DOMAIN l : Begins(l[k]) \in Dealt(game)[r + 1]
        /\ OneCall(bs, bs2, r, a, l)
  BY <1>1
<1>3. /\ bs \in [Rounds -> Seq(Board(game))] /\ storage.calls \in Nat /\ r \in Nat
      /\ storage.startRound \in Nat /\ storage.startRound <= r /\ r <= storage.endRound
      /\ storage.startRound # r
  BY DEF StorageBegun, StorageType, Rounds, RoundsOf
<1>4. /\ \A q \in storage.startRound .. r - 1 : bs[q] # <<>>
      /\ \A q \in storage.startRound .. r - 2 : \A i \in DOMAIN bs[q] : Leads(bs, q, i)
      /\ \A i \in DOMAIN bs[r - 1] : i <= storage.calls => Leads(bs, r - 1, i)
  BY <1>3 DEF BoardsInv, SetUpBoards
<1>5. N \in Nat \ {0} /\ DOMAIN bs[r - 1] = 1 .. N
  <2>1. bs[r - 1] \in Seq(Board(game)) /\ bs[r - 1] # <<>> BY <1>1, <1>3, <1>4
  <2> QED BY <2>1
<1>6. storage.calls < N => a = storage.calls + 1 BY <1>3, <1>5, Remainder
<1>7. /\ bs2 \in [Rounds -> Seq(Board(game))] /\ bs2[r] = bs[r] \o l
      /\ \A q \in Rounds : (q # r /\ q # r - 1) => bs2[q] = bs[q]
      /\ Len(bs2[r - 1]) = N
      /\ \A i \in DOMAIN bs[r - 1] : /\ Begins(bs2[r - 1][i]) = Begins(bs[r - 1][i])
                                     /\ i # a => bs2[r - 1][i] = bs[r - 1][i]
      /\ bs2[r - 1][a].firstChildIndex = Len(bs[r])
      /\ bs2[r - 1][a].endChildIndex = Len(bs[r]) + Len(l)
  BY <1>2 DEF OneCall
<1>8. bs[r] \in Seq(Board(game)) BY <1>1, <1>3
<1> HIDE DEF bs2, a, N
<1>9. /\ Len(bs2[r]) = Len(bs[r]) + Len(l) /\ Len(bs[r]) \in Nat /\ Len(l) \in Nat
      /\ \A i \in DOMAIN (bs[r] \o l) : \/ i \in DOMAIN bs[r] /\ (bs[r] \o l)[i] = bs[r][i]
                                        \/ \E k \in DOMAIN l : (bs[r] \o l)[i] = l[k]
  <2>1. Len(l) # 0 BY <1>2
  <2>2. /\ Len(bs[r] \o l) = Len(bs[r]) + Len(l) /\ Len(bs[r]) \in Nat /\ Len(l) \in Nat
        /\ \A i \in DOMAIN (bs[r] \o l) : \/ i \in DOMAIN bs[r] /\ (bs[r] \o l)[i] = bs[r][i]
                                          \/ \E k \in DOMAIN l : (bs[r] \o l)[i] = l[k]
    BY <1>8, <2>1, ListAdded
  <2> QED BY <1>7, <2>2
<1>10. DOMAIN bs2[r - 1] = DOMAIN bs[r - 1]
  <2>1. bs2[r - 1] \in Seq(Board(game)) BY <1>1, <1>7
  <2> QED BY <1>5, <1>7, <2>1
<1>11. bs2[r - 1] \in Seq(Board(game)) /\ bs[r - 1] \in Seq(Board(game)) BY <1>1, <1>3, <1>7
<1>12. \A q \in Rounds : \A i \in DOMAIN bs2[q] : Begins(bs2[q][i]) \in Dealt(game)[q + 1]
  <2>1. \A q \in Rounds : \A i \in DOMAIN bs[q] : Begins(bs[q][i]) \in Dealt(game)[q + 1]
    BY DEF StorageBegun
  <2>2. \A i \in DOMAIN bs2[r] : Begins(bs2[r][i]) \in Dealt(game)[r + 1]
    <3> DEFINE s == bs[r] \o l
    <3>1. \A i \in DOMAIN s : \/ i \in DOMAIN bs[r] /\ s[i] = bs[r][i]
                              \/ \E k \in DOMAIN l : s[i] = l[k]
      BY <1>9
    <3>2. bs2[r] = s BY <1>7
    <3> HIDE DEF s
    <3>3. \A i \in DOMAIN s : Begins(s[i]) \in Dealt(game)[r + 1] BY <1>1, <1>2, <2>1, <3>1
    <3> QED BY <3>2, <3>3
  <2>3. \A i \in DOMAIN bs2[r - 1] : Begins(bs2[r - 1][i]) \in Dealt(game)[(r - 1) + 1]
    BY <1>1, <1>7, <1>10, <2>1
  <2> QED BY <1>7, <2>1, <2>2, <2>3
<1>13. StorageBegun'
  <2>1. storage'.boards = bs2 BY DEF bs2
  <2> QED BY <1>1, <1>3, <1>12, <2>1, BegunStays DEF SameStorage
<1>14. \A i \in DOMAIN bs2[r - 1] : i <= storage.calls + 1 => Leads(bs2, r - 1, i)
  <2> SUFFICES ASSUME NEW i \in DOMAIN bs2[r - 1], i <= storage.calls + 1
               PROVE  Leads(bs2, r - 1, i)
    OBVIOUS
  <2>0. (r - 1) + 1 = r BY <1>3
  <2>1. CASE i = a
    <3> DEFINE k == Len(bs[r])
               m == Len(l)
    <3>1. k \in Nat /\ m \in Nat /\ m # 0 /\ Len(bs2[r]) = k + m BY <1>2, <1>9
    <3>2. bs2[r - 1][i].firstChildIndex = k /\ bs2[r - 1][i].endChildIndex = k + m BY <1>7, <2>1
    <3> HIDE DEF k, m
    <3>3. k < k + m /\ k + m <= k + m BY <3>1
    <3> QED BY <2>0, <3>1, <3>2, <3>3 DEF Leads
  <2>2. CASE i # a
    <3>1. i \in 1 .. N BY <1>5, <1>10
    <3>2. i <= storage.calls BY <1>3, <1>5, <1>6, <2>2, <3>1
    <3>3. Leads(bs, r - 1, i) BY <1>4, <1>10, <3>2
    <3>4. bs2[r - 1][i] = bs[r - 1][i] BY <1>7, <1>10, <2>2
    <3>5. bs[r - 1][i] \in Board(game) BY <1>10, <1>11
    <3>6. bs[r - 1][i].endChildIndex \in Nat BY <3>5 DEF Board
    <3> DEFINE e == bs[r - 1][i].endChildIndex
               k == Len(bs[r])
               m == Len(l)
    <3>7. bs[r - 1][i].firstChildIndex < e /\ e <= k BY <2>0, <3>3 DEF Leads
    <3>8. e \in Nat /\ k \in Nat /\ m \in Nat /\ Len(bs2[r]) = k + m BY <1>9, <3>6
    <3>9. bs2[r - 1][i].firstChildIndex < e /\ bs2[r - 1][i].endChildIndex = e BY <3>4, <3>7
    <3> HIDE DEF e, k, m
    <3>10. e <= k + m BY <3>7, <3>8
    <3> QED BY <2>0, <3>8, <3>9, <3>10 DEF Leads
  <2> QED BY <2>1, <2>2
<1>15. \A q \in storage.startRound .. r - 1 : q \in Rounds
  <2>1. storage.startRound \in Nat BY DEF StorageBegun, StorageType, RoundsOf
  <2>2. r \in RoundsOf(game) BY <1>1 DEF Rounds
  <2>3. game.numRounds \in Nat BY AllGamesOK, WalkedAssumption DEF StorageBegun, GameOK
  <2>4. \A q \in storage.startRound .. r - 1 : q \in RoundsOf(game) BY <2>1, <2>2, <2>3 DEF RoundsOf
  <2> QED BY <2>4 DEF Rounds
<1>16. \A q \in storage.startRound .. r - 1 : bs2[q] # <<>>
  <2> SUFFICES ASSUME NEW q \in storage.startRound .. r - 1 PROVE bs2[q] # <<>> OBVIOUS
  <2>1. CASE q = r - 1 BY <1>5, <1>7, <1>11, <2>1
  <2>2. CASE q # r - 1
    <3>1. q # r BY <1>3
    <3> QED BY <1>4, <1>7, <1>15, <2>2, <3>1
  <2> QED BY <2>1, <2>2
<1>17. \A q \in storage.startRound .. r - 2 : \A i \in DOMAIN bs2[q] : Leads(bs2, q, i)
  <2> SUFFICES ASSUME NEW q \in storage.startRound .. r - 2, NEW i \in DOMAIN bs2[q]
               PROVE  Leads(bs2, q, i)
    OBVIOUS
  <2>1. q \in storage.startRound .. r - 1 /\ q # r /\ q # r - 1 /\ q + 1 # r /\ q \in Int
    BY <1>3
  <2>2. q \in Rounds /\ q + 1 \in Rounds
    <3>1. q + 1 \in storage.startRound .. r - 1 BY <1>3
    <3> QED BY <1>15, <2>1, <3>1
  <2>3. bs2[q] = bs[q] BY <1>7, <2>1, <2>2
  <2>4. Len(bs2[q + 1]) = Len(bs[q + 1])
    <3>1. CASE q + 1 = r - 1 BY <1>7, <3>1 DEF N
    <3>2. CASE q + 1 # r - 1 BY <1>7, <2>1, <2>2, <3>2
    <3> QED BY <3>1, <3>2
  <2>5. Leads(bs, q, i) BY <1>4, <2>3
  <2> QED BY <2>3, <2>4, <2>5 DEF Leads
<1>18. BoardsInv'
  <2>1. storage'.boards = bs2 BY DEF bs2
  <2>2. storage'.round = r /\ storage'.startRound = storage.startRound /\ storage'.calls = storage.calls + 1
        /\ storage'.round # storage'.startRound
    BY <1>1, <1>3 DEF SameStorage
  <2> QED BY <1>14, <1>16, <1>17, <2>1, <2>2 DEF BoardsInv
<1> QED BY <1>13, <1>18

Further(s, r, n) ==
  /\ s + (n + 1) \in s .. r /\ s + (n + 1) # s /\ (s + (n + 1)) - 1 = s + n
  /\ s + n \in s .. r - 1

LEMMA OneFurther ==
  ASSUME NEW s \in Nat, NEW r \in Nat, NEW n \in 0 .. (r - s) - 1
  PROVE  Further(s, r, n)
BY DEF Further

LEMMA CallsFacts ==
  ASSUME NEW s \in Nat, NEW r \in Nat, s = storage.startRound, s <= r,
         \A q \in s .. r - 1 : Len(storage.boards[q]) \in Nat \ {0}
  PROVE  /\ r = s => Calls(r) = 1
         /\ r # s => \E k \in Nat \ {0} : Calls(r) = Len(storage.boards[r - 1]) * k
<1> DEFINE num(q) == Len(storage.boards[q])
           N == r - s
           st == [z \in (1 .. N) \X Nat |-> num(s + z[1] - 1) * z[2]]
           Counts(C) == C = [q \in s .. r |-> IF q = s THEN 1 ELSE num(q - 1) * C[q - 1]]
<1>1. N \in Nat /\ 1 \in Nat OBVIOUS
<1>2. st \in [(1 .. N) \X Nat -> Nat]
  <2> SUFFICES ASSUME NEW z \in (1 .. N) \X Nat PROVE num(s + z[1] - 1) * z[2] \in Nat
    OBVIOUS
  <2>1. s + z[1] - 1 \in s .. r - 1 /\ z[2] \in Nat OBVIOUS
  <2>2. num(s + z[1] - 1) \in Nat BY <2>1
  <2> HIDE DEF num
  <2> QED BY <2>1, <2>2
<1>3. PICK h : Recurs(h, N, Nat, 1, st)
  <2> HIDE DEF st, N
  <2> QED BY <1>1, <1>2, Recursion
<1>4. h \in [0 .. N -> Nat] /\ h[0] = 1 /\ \A n \in 1 .. N : h[n] = st[<<n, h[n - 1]>>]
  BY <1>3 DEF Recurs
<1> HIDE DEF num
<1>5. ASSUME NEW n \in 1 .. N PROVE h[n] = num(s + n - 1) * h[n - 1]
  <2>1. h[n - 1] \in Nat BY <1>4
  <2>2. <<n, h[n - 1]>> \in (1 .. N) \X Nat BY <2>1
  <2>3. st[<<n, h[n - 1]>>] = num(s + n - 1) * h[n - 1] BY <2>2
  <2> HIDE DEF st
  <2> QED BY <1>4, <2>3
<1> DEFINE D == [q \in s .. r |-> h[q - s]]
<1>6. ASSUME NEW q \in s .. r PROVE D[q] = IF q = s THEN 1 ELSE num(q - 1) * D[q - 1]
  <2>1. CASE q = s
    <3>1. q - s = 0 BY <2>1
    <3> QED BY <1>4, <2>1, <3>1
  <2>2. CASE q # s
    <3>1. q - s \in 1 .. N /\ q - 1 \in s .. r /\ (q - 1) - s = (q - s) - 1 /\ s + (q - s) - 1 = q - 1
      BY <2>2
    <3>2. D[q] = h[q - s] /\ D[q - 1] = h[(q - s) - 1] BY <3>1
    <3> HIDE DEF D, N
    <3>3. h[q - s] = num(q - 1) * h[(q - s) - 1] BY <1>5, <3>1
    <3> QED BY <2>2, <3>2, <3>3
  <2> QED BY <2>1, <2>2
<1>7. D = [q \in s .. r |-> D[q]] OBVIOUS
<1>8. Counts(D)
  <2> HIDE DEF D
  <2> QED BY <1>6, <1>7, Zenon
<1> DEFINE C == CHOOSE C : Counts(C)
<1>9. Counts(C)
  <2>1. \E X : Counts(X)
    <3> HIDE DEF D
    <3> QED BY <1>8
  <2> HIDE DEF Counts
  <2> QED BY <2>1
<1>10. Calls(r) = C[r] BY Zenon DEF Calls, NumBoards, num
<1> HIDE DEF C
<1>11. \A q \in s .. r : C[q] = IF q = s THEN 1 ELSE num(q - 1) * C[q - 1] BY <1>9
<1> HIDE DEF Counts
<1> DEFINE E == {n \in 0 .. N : C[s + n] \in Nat \ {0}}
<1>12. 0 \in E
  <2>1. C[s] = 1 /\ s + 0 = s BY <1>11
  <2> QED BY <2>1
<1>13. ASSUME NEW n \in 0 .. N - 1, n \in E PROVE n + 1 \in E
  <2>1. /\ s + (n + 1) \in s .. r /\ s + (n + 1) # s /\ (s + (n + 1)) - 1 = s + n
        /\ s + n \in s .. r - 1
    <3>1. n \in 0 .. (r - s) - 1 OBVIOUS
    <3> HIDE DEF C, D, E, N, st
    <3>2. Further(s, r, n) BY <3>1, OneFurther
    <3> QED BY <3>2 DEF Further
  <2>2. C[s + (n + 1)] = num(s + n) * C[s + n] BY <1>11, <2>1
  <2>3. num(s + n) \in Nat \ {0} BY <2>1 DEF num
  <2>4. C[s + n] \in Nat \ {0} BY <1>13
  <2>5. num(s + n) * C[s + n] \in Nat \ {0}
    <3> DEFINE x == num(s + n)
               y == C[s + n]
    <3>1. x \in Nat \ {0} /\ y \in Nat \ {0} BY <2>3, <2>4
    <3> HIDE DEF x, y
    <3>2. x * y \in Nat /\ x * y # 0 BY <3>1
    <3> QED BY <3>2 DEF x, y
  <2> QED BY <2>2, <2>5
<1>14. \A n \in 0 .. N : n \in E
  <2>1. 0 .. N \subseteq E
    <3> HIDE DEF E, N
    <3> QED BY <1>1, <1>12, <1>13, Induction
  <2> QED BY <2>1
<1>15. r = s => Calls(r) = 1 BY <1>10, <1>11
<1>16. r # s => \E k \in Nat \ {0} : Calls(r) = Len(storage.boards[r - 1]) * k
  <2> SUFFICES ASSUME r # s PROVE \E k \in Nat \ {0} : Calls(r) = num(r - 1) * k
    BY DEF num
  <2>1. N - 1 \in 0 .. N /\ s + (N - 1) = r - 1 /\ r \in s .. r OBVIOUS
  <2>2. N - 1 \in E BY <1>14, <2>1
  <2>3. C[r - 1] \in Nat \ {0} BY <2>1, <2>2
  <2>4. Calls(r) = num(r - 1) * C[r - 1] BY <1>10, <1>11, <2>1
  <2> QED BY <2>3, <2>4
<1> QED BY <1>15, <1>16

LEMMA RoundGoesOn ==
  ASSUME StorageBegun, BoardsInv, NextRound, UNCHANGED vars
  PROVE  (StorageBegun /\ BoardsInv)'
<1> DEFINE r  == storage.round
           s  == storage.startRound
           bs == storage.boards
<1>1. /\ storage \in StorageType(game) /\ r < storage.endRound /\ s <= r
      /\ s \in Nat /\ r \in Nat /\ storage.endRound \in Nat /\ storage.calls \in Nat
      /\ bs \in [Rounds -> Seq(Board(game))] /\ storage.endRound <= game.numRounds
      /\ game.numRounds \in Nat
  BY AllGamesOK, WalkedAssumption DEF StorageBegun, StorageType, NextRound, Rounds, RoundsOf, GameOK
<1>2. /\ \A q \in s .. r - 1 : bs[q] # <<>>
      /\ \A q \in s .. r - 2 : \A a \in DOMAIN bs[q] : Leads(bs, q, a)
      /\ IF r = s THEN storage.calls > 0 => bs[r] # <<>>
         ELSE \A a \in DOMAIN bs[r - 1] : a <= storage.calls => Leads(bs, r - 1, a)
  BY <1>1 DEF BoardsInv
<1>3. \A q \in s .. r : q \in Rounds /\ bs[q] \in Seq(Board(game)) BY <1>1 DEF Rounds, RoundsOf
<1>4. \A q \in s .. r - 1 : Len(bs[q]) \in Nat \ {0}
  <2> SUFFICES ASSUME NEW q \in s .. r - 1 PROVE Len(bs[q]) \in Nat \ {0} OBVIOUS
  <2>1. q \in s .. r BY <1>1
  <2>2. bs[q] \in Seq(Board(game)) /\ bs[q] # <<>> BY <1>2, <1>3, <2>1
  <2> QED BY <2>2
<1>5. /\ storage' \in StorageType(game) /\ storage'.boards = bs /\ storage'.round = r + 1
      /\ storage'.calls = 0 /\ SameStorage
  <2>1. storage' = [storage EXCEPT !.round = r + 1, !.calls = 0] BY DEF NextRound
  <2>2. r + 1 \in Nat BY <1>1
  <2> QED BY <1>1, <2>1, <2>2 DEF StorageType, SameStorage
<1>6. StorageBegun'
  <2>1. \A q \in Rounds : \A i \in DOMAIN storage'.boards[q] :
          Begins(storage'.boards[q][i]) \in Dealt(game)[q + 1]
    BY <1>5 DEF StorageBegun
  <2>2. storage.startRound <= storage'.round /\ storage'.round <= storage.endRound BY <1>1, <1>5
  <2> QED BY <1>5, <2>1, <2>2, BegunStays DEF SameStorage
<1>7. storage.calls = Calls(r) BY DEF NextRound
<1>8. r # s => /\ bs[r - 1] \in Seq(Board(game)) /\ Len(bs[r - 1]) \in Nat \ {0}
               /\ \A a \in DOMAIN bs[r - 1] : Leads(bs, r - 1, a)
  <2> SUFFICES ASSUME r # s
               PROVE  /\ bs[r - 1] \in Seq(Board(game)) /\ Len(bs[r - 1]) \in Nat \ {0}
                      /\ \A a \in DOMAIN bs[r - 1] : Leads(bs, r - 1, a)
    OBVIOUS
  <2>1. r - 1 \in s .. r - 1 /\ r - 1 \in s .. r BY <1>1
  <2>2. bs[r - 1] \in Seq(Board(game)) /\ Len(bs[r - 1]) \in Nat \ {0} BY <1>3, <1>4, <2>1
  <2>3. PICK k \in Nat \ {0} : Calls(r) = Len(bs[r - 1]) * k BY <1>1, <1>4, CallsFacts
  <2>4. Len(bs[r - 1]) <= storage.calls
    <3> DEFINE n == Len(bs[r - 1])
    <3>1. n \in Nat \ {0} /\ storage.calls = n * k BY <1>7, <2>2, <2>3
    <3> HIDE DEF n
    <3>2. n * k >= n BY <3>1
    <3> QED BY <1>1, <3>1, <3>2 DEF n
  <2>5. \A a \in DOMAIN bs[r - 1] : a <= storage.calls
    <3>1. DOMAIN bs[r - 1] = 1 .. Len(bs[r - 1]) BY <2>2
    <3> QED BY <1>1, <2>2, <2>4, <3>1
  <2> QED BY <1>2, <2>2, <2>5
<1>9. bs[r] # <<>>
  <2>1. CASE r = s
    <3>1. Calls(r) = 1 BY <1>1, <1>4, <2>1, CallsFacts
    <3> QED BY <1>2, <1>7, <2>1, <3>1
  <2>2. CASE r # s
    <3>1. 1 \in DOMAIN bs[r - 1] /\ bs[r - 1][1] \in Board(game) BY <1>8, <2>2
    <3>2. Leads(bs, r - 1, 1) /\ (r - 1) + 1 = r BY <1>1, <1>8, <2>2, <3>1
    <3>3. bs[r] \in Seq(Board(game)) BY <1>1, <1>3
    <3>4. /\ bs[r - 1][1].firstChildIndex \in Nat /\ bs[r - 1][1].endChildIndex \in Nat
          /\ Len(bs[r]) \in Nat
      BY <3>1, <3>3 DEF Board
    <3>5. Len(bs[r]) # 0 BY <3>2, <3>4 DEF Leads
    <3> QED BY <3>5
  <2> QED BY <2>1, <2>2
<1>10. BoardsInv'
  <2>1. \A q \in s .. r : bs[q] # <<>>
    <3>1. \A q \in s .. r : q = r \/ q \in s .. r - 1 BY <1>1
    <3> QED BY <1>2, <1>9, <3>1
  <2>2. \A q \in s .. r - 1 : \A a \in DOMAIN bs[q] : Leads(bs, q, a)
    <3>1. \A q \in s .. r - 1 : r # s /\ (q = r - 1 \/ q \in s .. r - 2) BY <1>1
    <3> QED BY <1>2, <1>8, <3>1
  <2>3. (r + 1) - 1 = r /\ (r + 1) - 2 = r - 1 /\ r + 1 # s BY <1>1
  <2>4. \A a \in DOMAIN bs[r] : ~(a <= 0)
    <3>1. bs[r] \in Seq(Board(game)) BY <1>1, <1>3
    <3> QED BY <3>1
  <2>5. /\ storage'.round = r + 1 /\ storage'.startRound = s /\ storage'.boards = bs
        /\ storage'.calls = 0
    BY <1>5 DEF SameStorage
  <2> HIDE DEF r, s, bs
  <2> QED BY <2>1, <2>2, <2>3, <2>4, <2>5 DEF BoardsInv
<1> QED BY <1>6, <1>10

-----------------------------------------------------------------------------
(* All that is true of the tree. *)
Sound == TreeInv /\ TablesInv /\ RoundsInv /\ LinksInv

LEMMA TrunkFacts ==
  ASSUME Sound
  PROVE  /\ TrunkRounds \in 0 .. game.numRounds /\ game.numRounds \in Nat /\ GameOK(game)
         /\ \A i \in SubgameNodes : nodes[i].round = TrunkRounds /\ TrunkRounds \in Rounds
         /\ \A i \in DOMAIN nodes : (nodes[i].type # "subgame" /\ nodes[i].tree = 0) =>
              nodes[i].round < TrunkRounds
<1>1. GameOK(game) BY AllGamesOK DEF Sound, TreeInv
<1>2. game.numRounds \in Nat BY <1>1 DEF GameOK
<1>3. PICK s \in Int : \A i \in DOMAIN nodes : NodeRounds(nodes, i, s)
  BY DEF Sound, RoundsInv, AllRounds
<1>4. \A i \in DOMAIN nodes : nodes[i].round \in Rounds
  <2>1. \A i \in DOMAIN nodes : nodes[i] \in NodeType(game) BY DEF Sound, TreeInv
  <2> QED BY <2>1 DEF NodeType, Rounds
<1>5. \A i \in SubgameNodes : i \in DOMAIN nodes /\ s # -1 /\ nodes[i].round = s
  BY <1>3 DEF SubgameNodes, NodeRounds
<1>6. CASE SubgameNodes = {}
  <2>1. TrunkRounds = game.numRounds BY <1>6 DEF TrunkRounds
  <2>2. \A i \in DOMAIN nodes : nodes[i].round < TrunkRounds BY <1>2, <1>4, <2>1 DEF Rounds, RoundsOf
  <2> QED BY <1>1, <1>2, <1>6, <2>1, <2>2
<1>7. CASE SubgameNodes # {}
  <2>1. {nodes[i].round : i \in SubgameNodes} = {s} BY <1>5, <1>7
  <2>2. s \in Rounds BY <1>4, <1>5, <1>7
  <2>3. Min({s}) = s BY <1>3 DEF Min
  <2>4. TrunkRounds = s BY <1>7, <2>1, <2>3 DEF TrunkRounds
  <2>5. s # -1 BY <1>5, <1>7
  <2>6. \A i \in DOMAIN nodes : (nodes[i].type # "subgame" /\ nodes[i].tree = 0) => nodes[i].round < s
    BY <1>3, <2>5 DEF NodeRounds
  <2>7. s \in 0 .. game.numRounds BY <1>2, <2>2 DEF Rounds, RoundsOf
  <2> QED BY <1>1, <1>2, <1>5, <2>2, <2>4, <2>6, <2>7
<1> QED BY <1>6, <1>7

(* What is traversed from round r: the trunk from the start, or a subgame. *)
StartsAt(t, r, e) ==
  /\ t = 0 => r = 0 /\ e = TrunkRounds
  /\ t # 0 => /\ e = game.numRounds
              /\ \E i \in SubgameNodes : nodes[i].u.index + 1 = t /\ nodes[i].round = r

LEMMA EmptyBegins ==
  ASSUME todo = <<>>, game \in Walked, game.numRounds \in Nat, UNCHANGED vars, NEW t \in Nat,
         NEW r \in RoundsOf(game), NEW e \in 1 .. game.numRounds, r < e,
         NEW b \in SUBSET Deck(game), NEW groups \in [Suits(game) -> Suits(game)],
         [board |-> b, suitGroups |-> groups] \in Dealt(game)[r],
         StartsAt(t, r, e), storage' = EmptyStorage(game, t, r, e, b, groups)
  PROVE  (StorageBegun /\ BoardsInv)'
<1>1. game' = game /\ todo' = todo /\ nodes' = nodes BY DEF vars
<1>2. Rounds' = Rounds /\ TrunkRounds' = TrunkRounds /\ SubgameNodes' = SubgameNodes
  BY <1>1 DEF Rounds, TrunkRounds, SubgameNodes
<1>3. /\ storage'.tree = t /\ storage'.startRound = r /\ storage'.endRound = e
      /\ storage'.board = b /\ storage'.suitGroups = groups /\ storage'.round = r
      /\ storage'.calls = 0 /\ storage'.boards = [q \in Rounds |-> <<>>]
  BY DEF EmptyStorage, Rounds, RoundsOf
<1>4. storage' \in StorageType(game)
  <2>1. [q \in 0 .. game.numRounds - 1 |-> <<>>] \in [RoundsOf(game) -> Seq(Board(game))]
    BY DEF RoundsOf
  <2>2. r \in Nat BY DEF RoundsOf
  <2> QED BY <2>1, <2>2 DEF EmptyStorage, StorageType
<1>5. \A q \in Rounds : \A i \in DOMAIN storage'.boards[q] : FALSE BY <1>3
<1>6. Begins(storage)' = [board |-> b, suitGroups |-> groups] BY <1>3 DEF Begins
<1>7. StorageBegun' BY <1>1, <1>2, <1>3, <1>4, <1>5, <1>6 DEF StorageBegun, StartsAt, RoundsOf
<1>8. BoardsInv'
  <2>1. r \in Nat BY DEF RoundsOf
  <2>2. \A q : q \notin r .. r - 1 /\ q \notin r .. r - 2 BY <2>1
  <2> QED BY <1>3, <2>2 DEF BoardsInv
<1> QED BY <1>7, <1>8

LEMMA TrunkBegins ==
  ASSUME Sound, StorageInv, SetUpTrunk PROVE StorageInv'
<1>1. /\ todo = <<>> /\ game \in Walked /\ storage.endRound = 0 /\ UNCHANGED vars
      /\ storage' = [storage EXCEPT !.endRound = TrunkRounds]
  BY DEF SetUpTrunk
<1>2. storage = EmptyStorage(game, 0, 0, 0, {}, InitSuitGroups(game))
  <2>1. StorageBegun => storage.endRound \in 1 .. game.numRounds BY DEF StorageBegun, StorageType
  <2> QED BY <1>1, <2>1 DEF StorageInv
<1>3. storage' = EmptyStorage(game, 0, 0, TrunkRounds, {}, InitSuitGroups(game))
  <2> DEFINE e == TrunkRounds
             s == InitSuitGroups(game)
             n == [q \in 0 .. game.numRounds - 1 |-> <<>>]
  <2>1. /\ storage' = [storage EXCEPT !.endRound = e]
        /\ storage = [tree |-> 0, startRound |-> 0, endRound |-> 0, board |-> {}, suitGroups |-> s,
                      round |-> 0, calls |-> 0, boards |-> n]
    BY <1>1, <1>2, Zenon DEF EmptyStorage
  <2> HIDE DEF e, s, n
  <2>2. storage' = [tree |-> 0, startRound |-> 0, endRound |-> e, board |-> {}, suitGroups |-> s,
                    round |-> 0, calls |-> 0, boards |-> n]
    BY <2>1
  <2> QED BY <2>2, Zenon DEF EmptyStorage, e, s, n
<1>4. game' = game BY <1>1 DEF vars
<1>5. TrunkRounds \in 0 .. game.numRounds /\ game.numRounds \in Nat /\ GameOK(game)
  BY TrunkFacts
<1>6. CASE TrunkRounds = 0 BY <1>3, <1>4, <1>6 DEF StorageInv
<1>7. CASE TrunkRounds # 0
  <2>1. TrunkRounds \in 1 .. game.numRounds /\ 0 \in RoundsOf(game) /\ 0 < TrunkRounds
    BY <1>5, <1>7 DEF RoundsOf
  <2>2. game.numSuits \in Nat BY <1>1, DeckAssumption
  <2>3. InitSuitGroups(game) \in [Suits(game) -> Suits(game)]
    <3>1. \A s \in Suits(game) : 0 \in Suits(game) BY <2>2 DEF Suits
    <3> QED BY <3>1 DEF InitSuitGroups
  <2>4. [board |-> {}, suitGroups |-> InitSuitGroups(game)] \in Dealt(game)[0]
    BY <1>5, DealtUnfolds DEF DealtFirst
  <2>5. {} \in SUBSET Deck(game) /\ 0 \in Nat OBVIOUS
  <2>6. StartsAt(0, 0, TrunkRounds) BY DEF StartsAt
  <2>7. (StorageBegun /\ BoardsInv)'
    BY <1>1, <1>3, <1>5, <2>1, <2>3, <2>4, <2>5, <2>6, EmptyBegins
  <2> QED BY <2>7 DEF StorageInv
<1> QED BY <1>6, <1>7

(* What is at rest is set up completely. *)
LEMMA RestBegun ==
  ASSUME StorageInv, storage.endRound > 0 PROVE StorageBegun /\ BoardsInv
<1>1. storage = EmptyStorage(game, 0, 0, 0, {}, InitSuitGroups(game)) => storage.endRound = 0
  BY DEF EmptyStorage
<1> QED BY <1>1 DEF StorageInv

LEMMA EmptyIsOver ==
  ASSUME storage = EmptyStorage(game, 0, 0, 0, {}, InitSuitGroups(game))
  PROVE  /\ storage.tree = 0 /\ storage.startRound = 0 /\ storage.endRound = 0
         /\ storage.round = 0 /\ storage.calls = 0
BY DEF EmptyStorage

LEMMA SubgameBegins ==
  ASSUME Sound, StorageInv, SetUpSubgame PROVE StorageInv'
<1> DEFINE e == TrunkRounds
<1>1. storage.endRound > 0 /\ Ready /\ storage.tree = 0 /\ UNCHANGED vars
  BY DEF SetUpSubgame, AtRest
<1>2. StorageBegun /\ BoardsInv BY <1>1, RestBegun
<1>3. /\ todo = <<>> /\ game \in Walked /\ storage \in StorageType(game) /\ storage.endRound = e
      /\ storage.startRound = 0 /\ storage.round = e
  BY <1>1, <1>2 DEF StorageBegun, Ready
<1>4. PICK i \in SubgameNodes, b \in 0 .. NumBoards(e - 1) - 1 :
        storage' = EmptyStorage(game, nodes[i].u.index + 1, e, game.numRounds,
                                BoardAt(e - 1, b).board, BoardAt(e - 1, b).suitGroups)
  BY DEF SetUpSubgame
<1>5. /\ e \in 0 .. game.numRounds /\ game.numRounds \in Nat /\ e \in Rounds
      /\ nodes[i].round = e
  BY <1>4, TrunkFacts
<1>6. e \in 1 .. game.numRounds /\ e - 1 \in Rounds /\ e < game.numRounds
  BY <1>3, <1>5 DEF StorageType, Rounds, RoundsOf
<1> DEFINE x == BoardAt(e - 1, b)
           t == nodes[i].u.index + 1
<1>7. x \in Board(game) /\ Begins(x) \in Dealt(game)[e]
  <2>1. storage.boards[e - 1] \in Seq(Board(game)) BY <1>3, <1>6 DEF StorageType, Rounds
  <2>2. b + 1 \in DOMAIN storage.boards[e - 1] BY <1>4, <2>1 DEF NumBoards
  <2>3. x = storage.boards[e - 1][b + 1] BY DEF BoardAt
  <2>4. Begins(x) \in Dealt(game)[(e - 1) + 1] BY <1>2, <1>6, <2>2, <2>3 DEF StorageBegun
  <2>5. (e - 1) + 1 = e BY <1>5
  <2> QED BY <2>1, <2>2, <2>3, <2>4, <2>5
<1>8. nodes[i].u.index \in Nat BY DEF Sound, LinksInv, OwnTrees, SubgameNodes
<1>9. t \in Nat /\ t # 0 /\ \E j \in SubgameNodes : nodes[j].u.index + 1 = t /\ nodes[j].round = e
  BY <1>5, <1>8
<1>10. /\ x.board \in SUBSET Deck(game) /\ x.suitGroups \in [Suits(game) -> Suits(game)]
       /\ [board |-> x.board, suitGroups |-> x.suitGroups] \in Dealt(game)[e]
       /\ storage' = EmptyStorage(game, t, e, game.numRounds, x.board, x.suitGroups)
  BY <1>4, <1>7 DEF Board, Begins
<1> HIDE DEF x, t
<1>11. e \in RoundsOf(game) /\ game.numRounds \in 1 .. game.numRounds BY <1>5, <1>6 DEF Rounds
<1>12. (StorageBegun /\ BoardsInv)'
  <2>1. StartsAt(t, e, game.numRounds) BY <1>9 DEF StartsAt
  <2> QED BY <1>1, <1>3, <1>5, <1>6, <1>9, <1>10, <1>11, <2>1, EmptyBegins
<1> QED BY <1>12 DEF StorageInv

LEMMA StorageGoesOn ==
  ASSUME StorageInv, StorageStep PROVE StorageInv'
<1>1. (SetUpBoards(game) \/ NextRound) /\ UNCHANGED vars BY DEF StorageStep
<1>2. storage.round < storage.endRound BY <1>1 DEF SetUpBoards, NextRound
<1>3. StorageBegun /\ BoardsInv BY <1>2, EmptyIsOver DEF StorageInv
<1>4. (StorageBegun /\ BoardsInv)' BY <1>1, <1>3, SetUpFirst, SetUpNext, RoundGoesOn
<1> QED BY <1>4 DEF StorageInv

(* A walk leaves the storage as it is. *)
LEMMA StorageRests ==
  ASSUME StorageInv, UNCHANGED <<vars, storage>> PROVE StorageInv'
<1>1. game' = game /\ todo' = todo /\ nodes' = nodes /\ storage' = storage BY DEF vars
<1>2. Rounds' = Rounds /\ TrunkRounds' = TrunkRounds /\ SubgameNodes' = SubgameNodes
  BY <1>1 DEF Rounds, TrunkRounds, SubgameNodes
<1>3. StorageBegun => StorageBegun' BY <1>1, <1>2 DEF StorageBegun
<1>4. BoardsInv => BoardsInv' BY <1>1 DEF BoardsInv
<1> QED BY <1>1, <1>3, <1>4 DEF StorageInv

LEMMA StorageWaits ==
  ASSUME StorageInv, BuildTree PROVE StorageInv'
<1>1. todo # <<>> /\ game' = game /\ storage' = storage
  BY DEF BuildTree, Build, MakeSubgame, MakeChance, CloseChance, MakeLeaf, MakeChoice, Visits
<1>2. ~StorageBegun BY <1>1 DEF StorageBegun
<1> QED BY <1>1, <1>2 DEF StorageInv

LEMMA StorageNext ==
  ASSUME Sound, StorageInv, [WalkNext]_allVars PROVE StorageInv'
<1>1. CASE UNCHANGED allVars BY <1>1, StorageRests DEF allVars
<1>2. CASE BuildTree BY <1>2, StorageWaits
<1>3. CASE SetUpTrunk BY <1>3, TrunkBegins
<1>4. CASE StorageStep BY <1>4, StorageGoesOn
<1>5. CASE SetUpSubgame BY <1>5, SubgameBegins
<1>6. CASE Begin \/ WalkEnd \/ WalkChoice \/ WalkChance \/ NextBoard \/ LeaveChance \/ Finish \/ Stop
  BY <1>6, StorageRests
     DEF Begin, WalkEnd, WalkChoice, WalkChance, NextBoard, LeaveChance, Finish, Stop, allVars
<1> QED BY <1>1, <1>2, <1>3, <1>4, <1>5, <1>6 DEF WalkNext

LEMMA StorageInit ==
  ASSUME WalkInit PROVE StorageInv
BY DEF WalkInit, StorageInv

-----------------------------------------------------------------------------
(* The tree as a walk finds it                                             *)

(* The tree is complete and the boards of the storage are set up. *)
Standing == /\ Sound /\ StorageBegun /\ BoardsInv /\ Ready
            /\ nodes # <<>>

LEMMA NodesTyped ==
  ASSUME Sound
  PROVE  /\ nodes \in Seq(NodeType(game)) /\ Len(nodes) \in Nat /\ DOMAIN nodes = 1 .. Len(nodes)
         /\ GameOK(game) /\ game.numRounds \in Nat
         /\ \A i \in DOMAIN nodes :
              /\ nodes[i].type \in {"choice", "chance", "leaf", "subgame"} /\ nodes[i].round \in Rounds
              /\ nodes[i].tree \in Nat /\ nodes[i].chance \in Nat /\ nodes[i].parent \in 0 .. i - 1
              /\ nodes[i].round \in Nat
<1>1. /\ nodes \in Seq(NodeType(game)) /\ \A i \in DOMAIN nodes : nodes[i] \in NodeType(game)
      /\ GameOK(game)
  BY AllGamesOK DEF Sound, TreeInv
<1>2. \A i \in DOMAIN nodes : nodes[i].parent \in 0 .. i - 1
  BY DEF Sound, TablesInv, ShapeInv
<1>3. game.numRounds \in Nat BY <1>1 DEF GameOK
<1>4. \A i \in DOMAIN nodes :
        /\ nodes[i].type \in {"choice", "chance", "leaf", "subgame"} /\ nodes[i].round \in RoundsOf(game)
        /\ nodes[i].tree \in Nat /\ nodes[i].chance \in Nat
  BY <1>1 DEF NodeType
<1>5. Len(nodes) \in Nat /\ DOMAIN nodes = 1 .. Len(nodes) BY <1>1
<1>6. \A r \in RoundsOf(game) : r \in Nat /\ r \in Rounds BY DEF RoundsOf, Rounds
<1> QED BY <1>1, <1>2, <1>3, <1>4, <1>5, <1>6

(* What a node has from its parent. *)
LEMMA Parents ==
  ASSUME Sound, NEW i \in DOMAIN nodes, NEW u, u = nodes[i].parent, u # 0
  PROVE  /\ u \in DOMAIN nodes /\ nodes[u].type # "leaf"
         /\ nodes[u].type = "subgame" =>
              /\ nodes[i].tree = nodes[u].u.index + 1 /\ nodes[i].chance = 0
              /\ nodes[i].type = "chance"
         /\ nodes[u].type = "chance" =>
              /\ nodes[i].tree = nodes[u].tree /\ nodes[i].chance = u
              /\ nodes[i].type \in {"choice", "leaf"}
         /\ nodes[u].type = "choice" =>
              nodes[i].tree = nodes[u].tree /\ nodes[i].chance = nodes[u].chance
<1>1. u \in DOMAIN nodes BY NodesTyped
<1>2. Kin(nodes, nodes[i]) /\ Placed(nodes, i) BY DEF Sound, LinksInv, FamilyTies
<1> QED BY <1>1, <1>2 DEF Kin, Placed

(* A choice has the round and the tree of its chance node. *)
LEMMA ChoiceChance ==
  ASSUME Sound, NEW i \in DOMAIN nodes, nodes[i].type = "choice"
  PROVE  /\ nodes[i].chance \in DOMAIN nodes /\ nodes[i].chance # 0
         /\ nodes[nodes[i].chance].type = "chance"
         /\ nodes[i].round = nodes[nodes[i].chance].round
         /\ nodes[i].tree = nodes[nodes[i].chance].tree /\ nodes[i].u \in ChoiceU
<1>1. /\ IsChance(nodes, nodes[i].chance) /\ nodes[i].round = nodes[nodes[i].chance].round
      /\ nodes[i].tree = nodes[nodes[i].chance].tree /\ nodes[i].u \in ChoiceU
  BY DEF Sound, TablesInv, ShapeInv
<1>2. \A x \in DOMAIN nodes : x # 0 BY NodesTyped
<1> QED BY <1>1, <1>2 DEF IsChance

(* The round that was dealt last where a node is. *)
Level(n) == IF nodes[n].chance = 0 THEN storage.startRound - 1 ELSE nodes[nodes[n].chance].round

(* In the tree of the storage a chance node deals the round after the last. *)
LEMMA ChanceAbove ==
  ASSUME Standing, NEW n \in DOMAIN nodes, nodes[n].type = "chance", nodes[n].tree = storage.tree
  PROVE  LET m == nodes[n].chance
         IN IF m = 0 THEN nodes[n].round = storage.startRound
            ELSE /\ m \in DOMAIN nodes /\ nodes[m].type = "chance" /\ nodes[m].tree = storage.tree
                 /\ nodes[n].round = nodes[m].round + 1
<1>1. /\ Sound
      /\ storage.tree = 0 => storage.startRound = 0
      /\ storage.tree # 0 => \E i \in SubgameNodes : /\ nodes[i].u.index + 1 = storage.tree
                                                     /\ nodes[i].round = storage.startRound
  BY DEF Standing, StorageBegun
<1>2. PICK s \in Int : \A i \in DOMAIN nodes : NodeRounds(nodes, i, s)
  BY <1>1 DEF Sound, RoundsInv, AllRounds
<1>3. CASE nodes[n].parent = 0
  <2>1. Placed(nodes, n) /\ Kin(nodes, nodes[n]) BY <1>1 DEF Sound, LinksInv, FamilyTies
  <2> QED BY <1>1, <1>3, <2>1 DEF Placed, Kin
<1>4. CASE nodes[n].parent # 0
  <2> DEFINE u == nodes[n].parent
  <2>1. /\ u \in DOMAIN nodes /\ nodes[u].type # "leaf"
        /\ nodes[u].type = "subgame" => nodes[n].tree = nodes[u].u.index + 1 /\ nodes[n].chance = 0
        /\ nodes[u].type # "chance"
        /\ nodes[u].type = "choice" =>
             nodes[n].tree = nodes[u].tree /\ nodes[n].chance = nodes[u].chance
    BY <1>1, <1>4, Parents
  <2>2. nodes[u].type \in {"choice", "subgame"} BY <1>1, <2>1, NodesTyped
  <2>3. nodes[n].round = IF nodes[u].type = "choice" THEN nodes[u].round + 1 ELSE nodes[u].round
    BY <1>2, <1>4 DEF NodeRounds
  <2>4. CASE nodes[u].type = "subgame"
    <3>1. u \in SubgameNodes /\ nodes[u].u.index + 1 = storage.tree /\ nodes[n].chance = 0
      BY <2>1, <2>4 DEF SubgameNodes
    <3>2. nodes[u].u.index \in Nat /\ OwnTrees(nodes, size)
      BY <1>1, <3>1 DEF Sound, LinksInv, OwnTrees, SubgameNodes
    <3>3. storage.tree # 0 BY <3>1, <3>2
    <3>4. PICK i \in SubgameNodes : /\ nodes[i].u.index + 1 = storage.tree
                                    /\ nodes[i].round = storage.startRound
      BY <1>1, <3>3
    <3>5. nodes[i].u.index \in Nat BY <3>2 DEF OwnTrees, SubgameNodes
    <3>6. nodes[i].u.index = nodes[u].u.index BY <3>1, <3>2, <3>4, <3>5
    <3>7. i = u BY <3>1, <3>2, <3>6 DEF OwnTrees, SubgameNodes
    <3> QED BY <2>3, <2>4, <3>1, <3>4, <3>7
  <2>5. CASE nodes[u].type = "choice" BY <1>1, <2>1, <2>3, <2>5, ChoiceChance
  <2> QED BY <2>2, <2>4, <2>5
<1> QED BY <1>3, <1>4

(* All its rounds are those of the storage. *)
LEMMA ChanceRounds ==
  ASSUME Standing, NEW n \in DOMAIN nodes, nodes[n].type = "chance", nodes[n].tree = storage.tree
  PROVE  /\ nodes[n].round \in storage.startRound .. storage.endRound - 1
         /\ nodes[n].chance = 0 => nodes[n].round = storage.startRound
         /\ nodes[n].chance # 0 => /\ nodes[n].round = nodes[nodes[n].chance].round + 1
                                   /\ nodes[n].round # storage.startRound
         /\ Level(n) = nodes[n].round - 1
<1>1. /\ Sound /\ storage \in StorageType(game)
      /\ storage.tree = 0 => storage.endRound = TrunkRounds
      /\ storage.tree # 0 => storage.endRound = game.numRounds
  BY DEF Standing, StorageBegun
<1> DEFINE s == storage.startRound
           On(i) == i \in DOMAIN nodes /\ nodes[i].type = "chance" /\ nodes[i].tree = storage.tree
           Early == {r \in Nat : r < s /\ \E i : On(i) /\ nodes[i].round = r}
<1>2. s \in Nat /\ storage.endRound \in Nat BY <1>1 DEF StorageType, RoundsOf
<1>3. \A i : On(i) => nodes[i].round \in Nat /\ nodes[i].round < game.numRounds
  BY <1>1, NodesTyped DEF Rounds, RoundsOf
<1>4. ASSUME NEW i, On(i)
      PROVE  LET m == nodes[i].chance
             IN IF m = 0 THEN nodes[i].round = s ELSE On(m) /\ nodes[i].round = nodes[m].round + 1
  BY <1>4, ChanceAbove
<1>5. Early = {}
  <2> SUFFICES ASSUME Early # {} PROVE FALSE OBVIOUS
  <2>1. Early \in SUBSET Nat OBVIOUS
  <2>2. PICK r \in Early : \A q \in Early : r <= q BY <2>1, Smallest
  <2>3. PICK i : On(i) /\ nodes[i].round = r BY <2>2
  <2>4. r < s /\ r \in Nat BY <2>2
  <2> DEFINE m == nodes[i].chance
  <2>5. m # 0 /\ On(m) /\ r = nodes[m].round + 1 BY <1>2, <1>4, <2>3, <2>4
  <2>6. nodes[m].round \in Nat /\ nodes[m].round < r BY <1>3, <2>4, <2>5
  <2>7. nodes[m].round \in Early BY <1>2, <2>4, <2>5, <2>6
  <2> QED BY <2>2, <2>4, <2>6, <2>7
<1>6. \A i : On(i) => s <= nodes[i].round BY <1>2, <1>3, <1>5
<1>7. nodes[n].round < storage.endRound
  <2>1. CASE storage.tree = 0
    <3>1. nodes[n].type # "subgame" /\ nodes[n].tree = 0 BY <2>1
    <3>2. nodes[n].round < TrunkRounds BY <1>1, <3>1, TrunkFacts
    <3> QED BY <1>1, <2>1, <3>2
  <2>2. CASE storage.tree # 0 BY <1>1, <1>3, <2>2
  <2> QED BY <2>1, <2>2
<1>8. On(n) OBVIOUS
<1>9. nodes[n].round \in s .. storage.endRound - 1 BY <1>2, <1>3, <1>6, <1>7, <1>8
<1>10. nodes[n].chance = 0 => nodes[n].round = s /\ Level(n) = nodes[n].round - 1
  BY <1>4, <1>8 DEF Level
<1>11. ASSUME nodes[n].chance # 0
       PROVE  /\ nodes[n].round = nodes[nodes[n].chance].round + 1 /\ nodes[n].round # s
              /\ Level(n) = nodes[n].round - 1
  <2> DEFINE m == nodes[n].chance
  <2>1. On(m) /\ nodes[n].round = nodes[m].round + 1 BY <1>4, <1>8, <1>11
  <2>2. nodes[m].round \in Nat /\ s <= nodes[m].round BY <1>3, <1>6, <2>1
  <2>3. Level(n) = nodes[m].round BY <1>11 DEF Level
  <2> QED BY <1>2, <2>1, <2>2, <2>3
<1> QED BY <1>9, <1>10, <1>11

(* Below a chance node there is one node, which is the next. *)
LEMMA ChanceChild ==
  ASSUME Standing, NEW n \in DOMAIN nodes, nodes[n].type \in {"chance", "subgame"}
  PROVE  /\ n + 1 \in DOMAIN nodes /\ nodes[n + 1].parent = n /\ Children(n)[1] = n + 1
         /\ nodes[n].type = "chance" => nodes[n + 1].tree = nodes[n].tree /\ nodes[n + 1].chance = n
         /\ nodes[n].type = "subgame" => nodes[n + 1].tree = nodes[n].u.index + 1 /\ nodes[n + 1].chance = 0
<1>1. Sound /\ todo = <<>> BY DEF Standing, StorageBegun
<1>2. FirstChildren(nodes, todo) BY <1>1 DEF Sound, LinksInv
<1>3. n \in Nat \ {0} /\ Len(nodes) \in Nat /\ DOMAIN nodes = 1 .. Len(nodes) BY <1>1, NodesTyped
<1>4. DOMAIN todo = {} BY <1>1
<1>5. n # Len(nodes)
  <2>1. n = Len(nodes) => Len(nodes) # 0 /\ nodes[Len(nodes)].type # "leaf" BY <1>3
  <2> QED BY <1>2, <1>4, <2>1 DEF FirstChildren
<1>6. n + 1 \in DOMAIN nodes BY <1>3, <1>5
<1>7. nodes[n + 1].parent = n BY <1>2, <1>5 DEF FirstChildren
<1>8. \A k \in DOMAIN nodes : nodes[k].parent = n => k = n + 1
  <2>1. HasOne(nodes, n) BY DEF HasOne
  <2> QED BY <1>2, <2>1 DEF FirstChildren
<1>9. {i \in DOMAIN nodes : nodes[i].parent = n} = {n + 1} BY <1>6, <1>7, <1>8
<1>10. Children(n)[1] = n + 1
  <2>1. n + 1 \in Int BY <1>3
  <2>2. Ascending({n + 1})[1] = n + 1 BY <2>1, AscendingOne
  <2> QED BY <1>9, <2>2 DEF Children
<1>11. n # 0 BY <1>3
<1> QED BY <1>1, <1>6, <1>7, <1>10, <1>11, Parents

(* A walk begins at a node of the tree that no chance node is above. *)
LEMMA RootFacts ==
  ASSUME Standing
  PROVE  Root \in DOMAIN nodes /\ nodes[Root].tree = storage.tree /\ nodes[Root].chance = 0
<1>1. /\ Sound
      /\ storage.tree # 0 => \E i \in SubgameNodes : nodes[i].u.index + 1 = storage.tree
  BY DEF Standing, StorageBegun
<1>2. /\ Len(nodes) \in Nat /\ DOMAIN nodes = 1 .. Len(nodes) /\ nodes # <<>>
      /\ nodes \in Seq(NodeType(game)) /\ \A i \in DOMAIN nodes : nodes[i].parent \in 0 .. i - 1
  BY <1>1, NodesTyped DEF Standing
<1>3. CASE storage.tree = 0
  <2>1. 1 \in DOMAIN nodes BY <1>2
  <2>2. nodes[1].parent = 0 BY <1>2, <2>1
  <2>3. Kin(nodes, nodes[1]) BY <1>1, <2>1 DEF Sound, LinksInv, FamilyTies
  <2> QED BY <1>3, <2>1, <2>2, <2>3 DEF Kin, Root
<1>4. CASE storage.tree # 0
  <2> DEFINE s == CHOOSE i \in SubgameNodes : nodes[i].u.index = storage.tree - 1
  <2>1. \A i \in SubgameNodes : nodes[i].u.index \in Nat
    BY <1>1 DEF Sound, LinksInv, OwnTrees, SubgameNodes
  <2>2. \E i \in SubgameNodes : nodes[i].u.index = storage.tree - 1 BY <1>1, <1>4, <2>1
  <2>3. s \in SubgameNodes /\ nodes[s].u.index = storage.tree - 1 BY <2>2
  <2>4. Root = Children(s)[1] BY <1>4 DEF Root
  <2> HIDE DEF s
  <2>5. s \in DOMAIN nodes /\ nodes[s].type = "subgame" BY <2>3 DEF SubgameNodes
  <2>6. /\ s + 1 \in DOMAIN nodes /\ Root = s + 1 /\ nodes[s + 1].chance = 0
        /\ nodes[s + 1].tree = nodes[s].u.index + 1
    BY <2>4, <2>5, ChanceChild
  <2>7. nodes[s].u.index + 1 = storage.tree
    <3>1. storage.tree \in Nat BY DEF Standing, StorageBegun, StorageType
    <3> QED BY <2>3, <3>1
  <2> QED BY <2>6, <2>7
<1> QED BY <1>3, <1>4

-----------------------------------------------------------------------------
(* The stack of a walk                                                     *)

Entries == [kind : {"visit"}, node : Nat, reach : BOOLEAN]
           \cup [kind : {"boards"}, node : Nat, reach : BOOLEAN, old : [Players -> Nat]]

(* For the board indices bi, the board that those of round r follow. *)
AboveIn(bi, r) == IF r = storage.startRound THEN 0 ELSE bi[r - 1]

(* The boards of round r are there, and one of them is the current one.    *)
Open(bi, r) ==
  LET first == FirstBoard(r, AboveIn(bi, r))  end == EndBoard(r, AboveIn(bi, r))
  IN first \in Nat /\ end \in Nat /\ first < end /\ end <= NumBoards(r)

(* A chance node whose boards are being tried is at one of those that      *)
(* follow the current one of the round before, and the pointers pt of its  *)
(* round are as many boards behind its block's first entry.                *)
At(bi, pt, e) ==
  LET r == nodes[e.node].round  first == FirstBoard(r, AboveIn(bi, r))
  IN /\ Open(bi, r) /\ bi[r] \in first .. EndBoard(r, AboveIn(bi, r)) - 1
     /\ \A p \in Players : pt[r][p] = e.old[p] + (bi[r] - first) * NumHands(game, r)

EntryOK(bi, pt, e) ==
  /\ e \in Entries /\ e.node \in DOMAIN nodes /\ nodes[e.node].tree = storage.tree
  /\ e.kind = "boards" => nodes[e.node].type = "chance" /\ At(bi, pt, e)

(* Below an entry are the chance nodes it is reached through, and of those *)
(* of one round only the last.                                             *)
Has(st, from, m) == \E k \in DOMAIN st : k >= from /\ st[k].kind = "boards" /\ st[k].node = m
NoneLater(st, from, n) == \A k \in DOMAIN st :
  (k >= from /\ st[k].kind = "boards") => nodes[st[k].node].round <= Level(n)

Held(st, j) ==
  /\ nodes[st[j].node].chance # 0 => Has(st, j + 1, nodes[st[j].node].chance)
  /\ NoneLater(st, j + 1, st[j].node)

StackOK(st, bi, pt) == /\ st \in Seq(Entries)
                       /\ \A k \in DOMAIN st : EntryOK(bi, pt, st[k]) /\ Held(st, k)

(* What may take the place of the top of the stack. *)
Fits(st, new, bi, pt) ==
  /\ new \in Seq(Entries) /\ \A i \in DOMAIN new : EntryOK(bi, pt, new[i])
  /\ \A k \in 2 .. Len(st) : st[k].kind = "boards" => At(bi, pt, st[k])
  /\ \A i \in DOMAIN new :
       /\ nodes[new[i].node].chance # 0 =>
            Has(new, i + 1, nodes[new[i].node].chance) \/ Has(st, 2, nodes[new[i].node].chance)
       /\ NoneLater(new, i + 1, new[i].node) /\ NoneLater(st, 2, new[i].node)

LEMMA Replaced ==
  ASSUME NEW st, NEW bi, NEW pt, StackOK(st, bi, pt), st # <<>>, NEW new, NEW bi2, NEW pt2,
         Fits(st, new, bi2, pt2), NEW st2, st2 = new \o Tail(st)
  PROVE  StackOK(st2, bi2, pt2)
<1>1. st \in Seq(Entries) /\ new \in Seq(Entries) BY DEF StackOK, Fits
<1>2. Stacked(st, new, st2) BY <1>1, StackedFacts
<1>3. st2 \in Seq(Entries)
  <2>1. Tail(st) \in Seq(Entries) BY <1>1
  <2> QED BY <1>1, <2>1, ConcatProperties
<1>4. /\ Len(st) \in Nat \ {0} /\ Len(new) \in Nat /\ DOMAIN st = 1 .. Len(st)
      /\ DOMAIN new = 1 .. Len(new) /\ DOMAIN st2 = 1 .. Len(new) + Len(st) - 1
      /\ \A i \in 1 .. Len(new) : st2[i] = new[i]
      /\ \A k \in 2 .. Len(st) : st2[Len(new) + k - 1] = st[k]
  BY <1>2 DEF Stacked
<1> DEFINE from(i) == i - Len(new) + 1
<1>5. \A i \in DOMAIN st2 : \/ i \in DOMAIN new /\ st2[i] = new[i]
                            \/ i > Len(new) /\ from(i) \in 2 .. Len(st) /\ st2[i] = st[from(i)]
  BY <1>2, Position
<1>6. ASSUME NEW k \in 2 .. Len(st), NEW m
      PROVE  /\ Has(st, k, m) => Has(st2, Len(new) + k - 1, m)
             /\ \A n : NoneLater(st, k, n) => NoneLater(st2, Len(new) + k - 1, n)
  <2>1. ASSUME Has(st, k, m) PROVE Has(st2, Len(new) + k - 1, m)
    <3>1. PICK j \in DOMAIN st : j >= k /\ st[j].kind = "boards" /\ st[j].node = m
      BY <2>1 DEF Has
    <3>2. j \in 2 .. Len(st) /\ Len(new) + j - 1 \in DOMAIN st2 /\ Len(new) + j - 1 >= Len(new) + k - 1
      BY <1>4, <3>1
    <3> QED BY <1>4, <3>1, <3>2 DEF Has
  <2>2. ASSUME NEW n, NoneLater(st, k, n) PROVE NoneLater(st2, Len(new) + k - 1, n)
    <3> SUFFICES ASSUME NEW i \in DOMAIN st2, i >= Len(new) + k - 1, st2[i].kind = "boards"
                 PROVE  nodes[st2[i].node].round <= Level(n)
      BY DEF NoneLater
    <3>1. i > Len(new) /\ i \in Int BY <1>4
    <3>2. from(i) \in DOMAIN st /\ from(i) >= k /\ st2[i] = st[from(i)] BY <1>4, <1>5, <3>1
    <3> QED BY <2>2, <3>2 DEF NoneLater
  <2> QED BY <2>1, <2>2
<1>7. ASSUME NEW i \in DOMAIN new PROVE EntryOK(bi2, pt2, st2[i]) /\ Held(st2, i)
  <2>1. st2[i] = new[i] /\ EntryOK(bi2, pt2, new[i]) BY <1>4 DEF Fits
  <2> DEFINE m == nodes[new[i].node].chance
  <2>2. m # 0 => Has(new, i + 1, m) \/ Has(st, 2, m) BY DEF Fits
  <2>3. Has(new, i + 1, m) => Has(st2, i + 1, m)
    <3>1. DOMAIN new \subseteq DOMAIN st2 BY <1>4
    <3> QED BY <1>4, <3>1 DEF Has
  <2>4. Has(st, 2, m) => Has(st2, i + 1, m)
    <3> SUFFICES ASSUME Has(st, 2, m) PROVE Has(st2, i + 1, m) OBVIOUS
    <3>1. 2 \in 2 .. Len(st) BY <1>4 DEF Has
    <3>2. Has(st2, Len(new) + 2 - 1, m) BY <1>6, <3>1
    <3>3. \A k \in DOMAIN st2 : k >= Len(new) + 2 - 1 => k >= i + 1 BY <1>4
    <3> QED BY <3>2, <3>3 DEF Has
  <2>5. NoneLater(st2, i + 1, new[i].node)
    <3> SUFFICES ASSUME NEW k \in DOMAIN st2, k >= i + 1, st2[k].kind = "boards"
                 PROVE  nodes[st2[k].node].round <= Level(new[i].node)
      BY DEF NoneLater
    <3>1. NoneLater(new, i + 1, new[i].node) /\ NoneLater(st, 2, new[i].node) BY DEF Fits
    <3>2. CASE k \in DOMAIN new /\ st2[k] = new[k] BY <3>1, <3>2 DEF NoneLater
    <3>3. CASE from(k) \in 2 .. Len(st) /\ st2[k] = st[from(k)]
      <4>1. from(k) \in DOMAIN st /\ from(k) >= 2 BY <1>4, <3>3
      <4> QED BY <3>1, <3>3, <4>1 DEF NoneLater
    <3> QED BY <1>5, <3>2, <3>3
  <2> QED BY <2>1, <2>2, <2>3, <2>4, <2>5 DEF Held
<1>8. ASSUME NEW k \in 2 .. Len(st), NEW i, i = Len(new) + k - 1
      PROVE  EntryOK(bi2, pt2, st2[i]) /\ Held(st2, i)
  <2>1. st2[i] = st[k] /\ k \in DOMAIN st BY <1>4, <1>8
  <2>2. EntryOK(bi, pt, st[k]) /\ Held(st, k) BY <2>1 DEF StackOK
  <2>3. EntryOK(bi2, pt2, st[k]) BY <2>2 DEF EntryOK, Fits
  <2> DEFINE n == st[k].node  m == nodes[n].chance
  <2>4. (m # 0 => Has(st, k + 1, m)) /\ NoneLater(st, k + 1, n) BY <2>2 DEF Held
  <2>5. CASE k = Len(st)
    <3>1. ~Has(st, k + 1, m)
      <4>1. \A x \in DOMAIN st : ~(x >= k + 1) BY <1>4, <2>5
      <4> QED BY <4>1 DEF Has
    <3>2. \A x \in DOMAIN st2 : ~(x >= i + 1) BY <1>4, <1>8, <2>5
    <3>3. NoneLater(st2, i + 1, n) BY <3>2 DEF NoneLater
    <3> QED BY <2>1, <2>3, <2>4, <3>1, <3>3 DEF Held
  <2>6. CASE k # Len(st)
    <3>1. k + 1 \in 2 .. Len(st) /\ Len(new) + (k + 1) - 1 = i + 1
      <4> DEFINE a == Len(st)
                 b == Len(new)
      <4>1. a \in Int /\ b \in Int /\ k \in 2 .. a /\ k # a /\ i = b + k - 1
        <5>1. a \in Int /\ b \in Int BY <1>4
        <5>2. k \in 2 .. a /\ k # a BY <2>6
        <5> QED BY <1>8, <5>1, <5>2
      <4> HIDE DEF a, b, n, m, from
      <4>2. k + 1 \in 2 .. a /\ b + (k + 1) - 1 = i + 1 BY <4>1
      <4> QED BY <4>2 DEF a, b
    <3>2. /\ Has(st, k + 1, m) => Has(st2, i + 1, m)
          /\ NoneLater(st, k + 1, n) => NoneLater(st2, i + 1, n)
      BY <1>6, <3>1
    <3> QED BY <2>1, <2>3, <2>4, <3>2 DEF Held
  <2> QED BY <2>5, <2>6
<1>9. ASSUME NEW i \in DOMAIN st2 PROVE EntryOK(bi2, pt2, st2[i]) /\ Held(st2, i)
  <2>1. CASE i \in DOMAIN new BY <1>7, <2>1
  <2>2. CASE i > Len(new)
    <3>1. from(i) \in 2 .. Len(st) /\ i = Len(new) + from(i) - 1 BY <1>4, <1>5, <1>9, <2>2
    <3> HIDE DEF from
    <3> QED BY <1>8, <3>1
  <2> QED BY <1>5, <2>1, <2>2
<1> QED BY <1>3, <1>9 DEF StackOK

LEMMA TopEntry ==
  ASSUME NEW bi, NEW pt, StackOK(stack, bi, pt), stack # <<>>
  PROVE  /\ Len(stack) \in Nat \ {0} /\ DOMAIN stack = 1 .. Len(stack) /\ Current = stack[1]
         /\ EntryOK(bi, pt, Current) /\ Current.node \in DOMAIN nodes
         /\ nodes[Current.node].tree = storage.tree
         /\ Current.reach \in BOOLEAN /\ Node = nodes[Current.node]
         /\ nodes[Current.node].chance # 0 => Has(stack, 2, nodes[Current.node].chance)
         /\ NoneLater(stack, 2, Current.node)
<1>1. /\ Len(stack) \in Nat \ {0} /\ DOMAIN stack = 1 .. Len(stack) /\ Current = stack[1]
  BY DEF StackOK, Current
<1>2. EntryOK(bi, pt, stack[1]) /\ Held(stack, 1) BY <1>1 DEF StackOK
<1>3. Current \in Entries BY <1>1, <1>2 DEF EntryOK
<1>4. 1 + 1 = 2 OBVIOUS
<1> QED BY <1>1, <1>2, <1>3, <1>4 DEF EntryOK, Held, Entries, Node

LEMMA EarlierRound ==
  ASSUME Sound, NEW q \in Rounds, q - 1 \in Nat
  PROVE  q - 1 \in Rounds
<1>1. game.numRounds \in Nat BY NodesTyped
<1>2. q \in Nat /\ q < game.numRounds BY <1>1 DEF Rounds, RoundsOf
<1> QED BY <1>1, <1>2 DEF Rounds, RoundsOf

(* The pointers and boards of earlier rounds, and so all chance nodes      *)
(* below the top, stay where they are.                                     *)
EarlierKept(bi, pt, bi2, pt2) ==
  \A q \in Rounds : q < Node.round => bi2[q] = bi[q] /\ pt2[q] = pt[q]

LEMMA OthersStay ==
  ASSUME Standing, NEW bi, NEW pt, StackOK(stack, bi, pt), stack # <<>>,
         Node.type = "chance", NEW bi2, NEW pt2, EarlierKept(bi, pt, bi2, pt2)
  PROVE  \A k \in 2 .. Len(stack) : stack[k].kind = "boards" => At(bi2, pt2, stack[k])
<1> SUFFICES ASSUME NEW k \in 2 .. Len(stack), stack[k].kind = "boards"
             PROVE  At(bi2, pt2, stack[k])
  OBVIOUS
<1> DEFINE n == Current.node
           e == stack[k]
           q == nodes[e.node].round
<1>1. /\ Len(stack) \in Nat \ {0} /\ DOMAIN stack = 1 .. Len(stack) /\ n \in DOMAIN nodes
      /\ nodes[n].tree = storage.tree /\ nodes[n].type = "chance" /\ Node = nodes[n]
      /\ NoneLater(stack, 2, n)
  BY TopEntry
<1>2. k \in DOMAIN stack /\ k >= 2 BY <1>1
<1>3. EntryOK(bi, pt, e) BY <1>2 DEF StackOK
<1>4. /\ e.node \in DOMAIN nodes /\ nodes[e.node].type = "chance" /\ nodes[e.node].tree = storage.tree
      /\ At(bi, pt, e)
  BY <1>3 DEF EntryOK
<1>5. q <= Level(n) BY <1>1, <1>2 DEF NoneLater
<1>6. /\ q \in storage.startRound .. storage.endRound - 1 /\ Level(n) = nodes[n].round - 1
  BY <1>1, <1>4, ChanceRounds
<1>7. /\ q \in Rounds /\ q \in Nat /\ nodes[n].round \in Nat
      /\ storage.startRound \in Nat
  <2>1. q \in Rounds /\ nodes[n].round \in Nat BY <1>1, <1>4, NodesTyped DEF Standing
  <2>2. q \in Nat BY <2>1 DEF Rounds, RoundsOf
  <2>3. storage.startRound \in Nat BY DEF Standing, StorageBegun, StorageType, RoundsOf
  <2> QED BY <2>1, <2>2, <2>3
<1>8. q < nodes[n].round BY <1>5, <1>6, <1>7
<1>9. bi2[q] = bi[q] /\ pt2[q] = pt[q] BY <1>1, <1>7, <1>8 DEF EarlierKept
<1>10. AboveIn(bi2, q) = AboveIn(bi, q)
  <2>1. CASE q = storage.startRound BY <2>1 DEF AboveIn
  <2>2. CASE q # storage.startRound
    <3>1. storage.startRound <= q BY <1>6
    <3> HIDE DEF n, q
    <3>2. q - 1 \in Nat /\ q - 1 < nodes[n].round BY <1>7, <1>8, <2>2, <3>1
    <3>3. q - 1 \in Rounds BY <1>7, <3>2, EarlierRound DEF Standing
    <3>4. bi2[q - 1] = bi[q - 1] BY <1>1, <3>2, <3>3 DEF EarlierKept
    <3> QED BY <2>2, <3>4 DEF AboveIn
  <2> QED BY <2>1, <2>2
<1> QED BY <1>4, <1>9, <1>10 DEF At, Open

(* When a chance node is visited there are boards to deal. *)
LEMMA BoardsFollow ==
  ASSUME Standing, NEW bi, NEW pt, StackOK(stack, bi, pt), stack # <<>>, Node.type = "chance"
  PROVE  Open(bi, Node.round)
<1> DEFINE n  == Current.node
           r  == nodes[n].round
           bs == storage.boards
           m  == nodes[n].chance
<1>1. /\ n \in DOMAIN nodes /\ nodes[n].tree = storage.tree /\ nodes[n].type = "chance"
      /\ Node = nodes[n]
      /\ m # 0 => Has(stack, 2, m)
  BY TopEntry
<1>2. /\ r \in storage.startRound .. storage.endRound - 1
      /\ m = 0 => r = storage.startRound
      /\ m # 0 => r = nodes[m].round + 1 /\ r # storage.startRound
  BY <1>1, ChanceRounds
<1>3. /\ storage.round = storage.endRound /\ bs \in [Rounds -> Seq(Board(game))]
      /\ storage.startRound \in Nat /\ storage.endRound \in Nat /\ storage.endRound <= game.numRounds
      /\ game.numRounds \in Nat
  BY NodesTyped DEF Standing, Ready, StorageBegun, StorageType, Rounds, RoundsOf
<1>4. /\ \A q \in storage.startRound .. storage.endRound - 1 : bs[q] # <<>>
      /\ \A q \in storage.startRound .. storage.endRound - 2 : \A a \in DOMAIN bs[q] : Leads(bs, q, a)
  BY <1>3 DEF Standing, BoardsInv
<1>5. r \in Rounds /\ r \in Nat BY <1>2, <1>3 DEF Rounds, RoundsOf
<1>6. bs[r] \in Seq(Board(game)) /\ Len(bs[r]) \in Nat BY <1>3, <1>5
<1>7. CASE m = 0
  <2>1. r = storage.startRound BY <1>2, <1>7
  <2>2. Len(bs[r]) # 0 BY <1>2, <1>4, <1>6
  <2>3. FirstBoard(r, AboveIn(bi, r)) = 0 /\ EndBoard(r, AboveIn(bi, r)) = Len(bs[r])
    BY <2>1 DEF FirstBoard, EndBoard, NumBoards
  <2> QED BY <1>1, <1>6, <2>2, <2>3 DEF Open, NumBoards
<1>8. CASE m # 0
  <2>1. PICK k \in DOMAIN stack : stack[k].kind = "boards" /\ stack[k].node = m
    BY <1>1, <1>8 DEF Has
  <2>2. EntryOK(bi, pt, stack[k]) BY DEF StackOK
  <2>3. r - 1 = nodes[m].round /\ r # storage.startRound /\ nodes[m].round \in Nat
    <3>1. m \in DOMAIN nodes BY <2>1, <2>2 DEF EntryOK
    <3>2. nodes[m].round \in Nat BY <3>1, NodesTyped DEF Standing
    <3> QED BY <1>2, <1>8, <3>2
  <2> DEFINE q == r - 1
             a == bi[q]
  <2>4. /\ Open(bi, q) /\ a \in FirstBoard(q, AboveIn(bi, q)) .. EndBoard(q, AboveIn(bi, q)) - 1
    BY <2>1, <2>2, <2>3 DEF EntryOK, At
  <2>5. q \in Rounds /\ q \in storage.startRound .. storage.endRound - 2
    <3> DEFINE s == storage.startRound
               e == storage.endRound
    <3>1. r \in s .. e - 1 /\ r # s /\ s \in Nat /\ e \in Nat /\ e <= game.numRounds
          /\ game.numRounds \in Nat
      BY <1>2, <1>3, <2>3
    <3> HIDE DEF s, e, r
    <3>2. q \in s .. e - 2 /\ q \in 0 .. game.numRounds - 1 BY <3>1
    <3> QED BY <3>2 DEF s, e, Rounds, RoundsOf
  <2>6. bs[q] \in Seq(Board(game)) /\ Len(bs[q]) \in Nat BY <1>3, <2>5
  <2>7. a \in Nat /\ a + 1 \in DOMAIN bs[q]
    <3> DEFINE first == FirstBoard(q, AboveIn(bi, q))
               end   == EndBoard(q, AboveIn(bi, q))
    <3>1. first \in Nat /\ end \in Nat /\ end <= Len(bs[q]) /\ a \in first .. end - 1
      BY <2>4 DEF Open, NumBoards
    <3> HIDE DEF first, end
    <3>2. a \in Nat /\ a + 1 <= Len(bs[q]) BY <2>6, <3>1
    <3> QED BY <2>6, <3>2
  <2> HIDE DEF a
  <2>8. Leads(bs, q, a + 1) /\ bs[q][a + 1] \in Board(game) BY <1>4, <2>5, <2>6, <2>7
  <2>9. FirstBoard(r, AboveIn(bi, r)) = bs[q][a + 1].firstChildIndex
    BY <2>3 DEF FirstBoard, AboveIn, BoardAt, a
  <2>10. EndBoard(r, AboveIn(bi, r)) = bs[q][a + 1].endChildIndex
    BY <2>3 DEF EndBoard, AboveIn, BoardAt, a
  <2>11. q + 1 = r BY <1>5
  <2> DEFINE x == bs[q][a + 1]
  <2>12. /\ x.firstChildIndex \in Nat /\ x.endChildIndex \in Nat BY <2>8 DEF Board
  <2>13. x.firstChildIndex < x.endChildIndex /\ x.endChildIndex <= Len(bs[r]) BY <2>8, <2>11 DEF Leads
  <2> HIDE DEF x
  <2>14. FirstBoard(r, AboveIn(bi, r)) = x.firstChildIndex /\ EndBoard(r, AboveIn(bi, r)) = x.endChildIndex
    BY <2>9, <2>10 DEF x
  <2> QED BY <1>1, <2>12, <2>13, <2>14 DEF Open, NumBoards
<1> QED BY <1>7, <1>8

(* The top of the stack is left. *)
LEMMA Popped ==
  ASSUME NEW bi, NEW pt, StackOK(stack, bi, pt), stack # <<>>, NEW bi2, NEW pt2,
         \A k \in 2 .. Len(stack) : stack[k].kind = "boards" => At(bi2, pt2, stack[k])
  PROVE  StackOK(Tail(stack), bi2, pt2)
<1>1. Fits(stack, <<>>, bi2, pt2) BY DEF Fits
<1>2. stack \in Seq(Entries) BY DEF StackOK
<1>3. Tail(stack) \in Seq(Entries) BY <1>2
<1>4. Tail(stack) = <<>> \o Tail(stack) BY <1>3
<1> QED BY <1>1, <1>4, Replaced

LEMMA SameBelow ==
  ASSUME NEW bi, NEW pt, StackOK(stack, bi, pt), stack # <<>>
  PROVE  \A k \in 2 .. Len(stack) : stack[k].kind = "boards" => At(bi, pt, stack[k])
<1>1. Len(stack) \in Nat \ {0} /\ DOMAIN stack = 1 .. Len(stack) BY TopEntry
<1>2. \A k \in 2 .. Len(stack) : EntryOK(bi, pt, stack[k]) BY <1>1 DEF StackOK
<1> QED BY <1>2 DEF EntryOK

(* A visit of a node of the tree. *)
LEMMA VisitIsEntry ==
  ASSUME NEW bi, NEW pt, NEW n \in DOMAIN nodes, nodes[n].tree = storage.tree, NEW x \in BOOLEAN,
         Sound
  PROVE  EntryOK(bi, pt, VisitNode(n, x)) /\ VisitNode(n, x).kind = "visit"
         /\ VisitNode(n, x).node = n /\ VisitNode(n, x) \in Entries
<1>1. n \in Nat BY NodesTyped
<1> QED BY <1>1 DEF VisitNode, EntryOK, Entries

LEMMA ChoiceStack ==
  ASSUME Standing, StackOK(stack, boardIndex, ptr), WalkChoice
  PROVE  StackOK(stack', boardIndex, ptr)
<1> DEFINE c == Current.node
           all == {i \in DOMAIN nodes : nodes[i].parent = c}
           opponent == job.type = "cfr" /\ Node.u.playerActing # job.player
<1>1. stack # <<>> /\ Node.type = "choice" BY DEF WalkChoice, Visiting
<1>2. PICK reached : LET kept == Ascending({i \in all : ~(opponent /\ Cut(Node.round, i \in reached))})
                     IN stack' = [k \in DOMAIN kept |-> VisitNode(kept[k], kept[k] \in reached)] \o Tail(stack)
  BY DEF WalkChoice
<1> DEFINE S == {i \in all : ~(opponent /\ Cut(Node.round, i \in reached))}
           kept == Ascending(S)
           new == [k \in DOMAIN kept |-> VisitNode(kept[k], kept[k] \in reached)]
<1>3. S \subseteq all OBVIOUS
<1>4. stack' = new \o Tail(stack) BY <1>2
<1> HIDE DEF S, opponent
<1>5. /\ c \in DOMAIN nodes /\ nodes[c].tree = storage.tree /\ nodes[c].type = "choice"
      /\ nodes[c].chance # 0 => Has(stack, 2, nodes[c].chance)
      /\ NoneLater(stack, 2, c)
  BY <1>1, TopEntry
<1>6. /\ Sound /\ DOMAIN nodes = 1 .. Len(nodes) /\ Len(nodes) \in Nat
  BY NodesTyped DEF Standing
<1>7. \A i \in all : i \in DOMAIN nodes /\ nodes[i].tree = storage.tree /\ nodes[i].chance = nodes[c].chance
  <2>1. c # 0 BY <1>5, <1>6
  <2> QED BY <1>5, <1>6, <2>1, Parents
<1>8. S \in SUBSET Int /\ IsFiniteSet(S)
  <2>1. IsFiniteSet(1 .. Len(nodes))
    <3>1. 1 \in Int /\ Len(nodes) \in Int BY <1>6
    <3> QED BY <3>1, FS_Interval
  <2>2. S \subseteq 1 .. Len(nodes) BY <1>3, <1>6
  <2>3. IsFiniteSet(S) BY <2>1, <2>2, FS_Subset
  <2> QED BY <1>6, <2>2, <2>3
<1>9. /\ DOMAIN kept = 1 .. Cardinality(S) /\ Cardinality(S) \in Nat
      /\ \A k \in DOMAIN kept : kept[k] \in S
  BY <1>8, AscendingFacts, FS_CardinalityType
<1> HIDE DEF kept
<1>10. ASSUME NEW k \in DOMAIN kept
       PROVE  /\ EntryOK(boardIndex, ptr, new[k]) /\ new[k] \in Entries /\ new[k].kind = "visit"
              /\ nodes[new[k].node].chance = nodes[c].chance /\ Level(new[k].node) = Level(c)
  <2>1. /\ kept[k] \in DOMAIN nodes /\ nodes[kept[k]].tree = storage.tree
        /\ nodes[kept[k]].chance = nodes[c].chance
    BY <1>3, <1>7, <1>9
  <2>2. new[k] = VisitNode(kept[k], kept[k] \in reached) OBVIOUS
  <2>3. (kept[k] \in reached) \in BOOLEAN OBVIOUS
  <2>4. /\ EntryOK(boardIndex, ptr, new[k]) /\ new[k].kind = "visit" /\ new[k].node = kept[k]
        /\ new[k] \in Entries
    BY <1>6, <2>1, <2>2, <2>3, VisitIsEntry
  <2> QED BY <2>1, <2>4 DEF Level
<1>11. new \in Seq(Entries) /\ DOMAIN new = DOMAIN kept
  <2>1. new \in [1 .. Cardinality(S) -> Entries] BY <1>9, <1>10
  <2> HIDE DEF new
  <2> QED BY <1>9, <2>1, SeqOfFunction
<1> HIDE DEF new
<1>12. Fits(stack, new, boardIndex, ptr)
  <2>1. \A k \in 2 .. Len(stack) : stack[k].kind = "boards" => At(boardIndex, ptr, stack[k])
    BY <1>1, SameBelow
  <2>2. \A i \in DOMAIN new : /\ NoneLater(new, i + 1, new[i].node) /\ NoneLater(stack, 2, new[i].node)
                              /\ nodes[new[i].node].chance # 0 => Has(stack, 2, nodes[new[i].node].chance)
    BY <1>5, <1>10, <1>11 DEF NoneLater
  <2> QED BY <1>10, <1>11, <2>1, <2>2 DEF Fits
<1> QED BY <1>1, <1>4, <1>12, Replaced

(* Of what is dealt one board is visited, or, if it is cut, none.          *)
LEMMA DealFacts ==
  ASSUME Standing, NEW n \in DOMAIN nodes, nodes[n].type = "chance", nodes[n].tree = storage.tree,
         NEW x \in BOOLEAN, NEW deal \in Deal(n, x), NEW bi, NEW pt
  PROVE  /\ deal \in Seq(Entries) /\ Len(deal) \in {0, 1}
         /\ \A k \in DOMAIN deal : /\ EntryOK(bi, pt, deal[k]) /\ deal[k].kind = "visit"
                                   /\ deal[k].node = n + 1
         /\ nodes[n + 1].chance = n
<1>1. /\ n + 1 \in DOMAIN nodes /\ Children(n)[1] = n + 1 /\ nodes[n + 1].tree = storage.tree
      /\ nodes[n + 1].chance = n
  BY ChanceChild
<1>2. PICK y \in BOOLEAN : deal = IF Cut(nodes[n].round, y) THEN <<>> ELSE <<VisitNode(n + 1, y)>>
  BY <1>1 DEF Deal
<1>3. Sound BY DEF Standing
<1> DEFINE v == VisitNode(n + 1, y)
<1>4. EntryOK(bi, pt, v) /\ v.kind = "visit" /\ v.node = n + 1 /\ v \in Entries
  BY <1>1, <1>3, VisitIsEntry
<1>5. deal = <<>> \/ deal = <<v>> BY <1>2
<1> HIDE DEF v
<1>6. CASE deal = <<>> BY <1>1, <1>6
<1>7. CASE deal = <<v>>
  <2>1. deal \in Seq(Entries) /\ Len(deal) = 1 /\ \A k \in DOMAIN deal : deal[k] = v BY <1>4, <1>7
  <2> QED BY <1>1, <1>4, <2>1
<1> QED BY <1>5, <1>6, <1>7

(* The chance node n of round r is tried with one board, and dealt again   *)
(* as long as there are more.                                              *)
FrameOK(frame, bi, pt) ==
  EntryOK(bi, pt, frame) /\ frame.kind = "boards" /\ frame.node = Current.node

LEMMA BoardStack ==
  ASSUME Standing, NEW bi, NEW pt, StackOK(stack, bi, pt), stack # <<>>, Node.type = "chance",
         NEW deal \in Deal(Current.node, Current.reach), NEW frame, NEW bi2, NEW pt2,
         EarlierKept(bi, pt, bi2, pt2), FrameOK(frame, bi2, pt2),
         NEW st2, st2 = (deal \o <<frame>>) \o Tail(stack)
  PROVE  StackOK(st2, bi2, pt2)
<1> DEFINE n == Current.node
           new == deal \o <<frame>>
<1>1. /\ n \in DOMAIN nodes /\ nodes[n].tree = storage.tree /\ nodes[n].type = "chance"
      /\ Node = nodes[n] /\ NoneLater(stack, 2, n) /\ Current.reach \in BOOLEAN
      /\ nodes[n].chance # 0 => Has(stack, 2, nodes[n].chance)
  BY TopEntry
<1>2. /\ deal \in Seq(Entries) /\ Len(deal) \in {0, 1}
      /\ \A k \in DOMAIN deal : /\ EntryOK(bi2, pt2, deal[k]) /\ deal[k].kind = "visit"
                                /\ deal[k].node = n + 1
      /\ nodes[n + 1].chance = n
  BY <1>1, DealFacts
<1>3. EntryOK(bi2, pt2, frame) /\ frame.kind = "boards" /\ frame.node = n /\ frame \in Entries
  BY DEF FrameOK, EntryOK
<1>4. /\ new \in Seq(Entries) /\ Len(new) = Len(deal) + 1 /\ DOMAIN new = 1 .. Len(deal) + 1
      /\ new[Len(deal) + 1] = frame /\ \A i \in 1 .. Len(deal) : new[i] = deal[i]
  <2>1. <<frame>> \in Seq(Entries) /\ Len(<<frame>>) = 1 /\ <<frame>>[1] = frame BY <1>3
  <2> QED BY <1>2, <2>1, ConcatProperties
<1>5. \A i \in DOMAIN new : \/ i = Len(deal) + 1 /\ new[i] = frame
                            \/ /\ i = 1 /\ Len(deal) = 1 /\ i \in DOMAIN deal /\ new[i] = deal[i]
  BY <1>2, <1>4
<1>6. /\ Level(n) = nodes[n].round - 1 /\ Level(n + 1) = nodes[n].round
      /\ nodes[n].round \in Nat /\ n # 0
  <2>1. Level(n) = nodes[n].round - 1 BY <1>1, ChanceRounds
  <2>2. n # 0 /\ nodes[n].round \in Nat BY <1>1, NodesTyped DEF Standing
  <2> HIDE DEF n
  <2> QED BY <1>2, <2>1, <2>2 DEF Level
<1>7. \A k \in 2 .. Len(stack) : stack[k].kind = "boards" => At(bi2, pt2, stack[k])
  BY OthersStay
<1>8. NoneLater(stack, 2, n + 1)
  <2>1. DOMAIN stack = 1 .. Len(stack) /\ Len(stack) \in Nat BY TopEntry
  <2> SUFFICES ASSUME NEW k \in DOMAIN stack, k >= 2, stack[k].kind = "boards"
               PROVE  nodes[stack[k].node].round <= nodes[n].round
    BY <1>6 DEF NoneLater
  <2>2. nodes[stack[k].node].round <= nodes[n].round - 1 BY <1>1, <1>6 DEF NoneLater
  <2>3. nodes[stack[k].node].round \in Nat
    <3>1. EntryOK(bi, pt, stack[k]) BY DEF StackOK
    <3> QED BY <3>1, NodesTyped DEF EntryOK, Standing
  <2> QED BY <1>6, <2>2, <2>3
<1> HIDE DEF new
<1>9. Fits(stack, new, bi2, pt2)
  <2>1. ASSUME NEW i \in DOMAIN new
        PROVE  /\ EntryOK(bi2, pt2, new[i])
               /\ nodes[new[i].node].chance # 0 =>
                    Has(new, i + 1, nodes[new[i].node].chance) \/ Has(stack, 2, nodes[new[i].node].chance)
               /\ NoneLater(new, i + 1, new[i].node) /\ NoneLater(stack, 2, new[i].node)
    <3>1. CASE i = Len(deal) + 1 /\ new[i] = frame
      <4>1. \A k \in DOMAIN new : ~(k >= i + 1) BY <1>2, <1>4, <3>1
      <4>2. NoneLater(new, i + 1, n) BY <4>1 DEF NoneLater
      <4> QED BY <1>1, <1>3, <3>1, <4>2
    <3>2. CASE i = 1 /\ Len(deal) = 1 /\ i \in DOMAIN deal /\ new[i] = deal[i]
      <4>1. /\ EntryOK(bi2, pt2, new[i]) /\ new[i].node = n + 1 BY <1>2, <3>2
      <4>2. 2 \in DOMAIN new /\ new[2] = frame BY <1>4, <3>2
      <4>3. Has(new, i + 1, n) BY <1>3, <3>2, <4>2 DEF Has
      <4>4. \A k \in DOMAIN new : k >= i + 1 => new[k] = frame BY <1>4, <3>2, <4>2
      <4>5. NoneLater(new, i + 1, n + 1) BY <1>3, <1>6, <4>4 DEF NoneLater
      <4> QED BY <1>2, <1>8, <4>1, <4>3, <4>5
    <3> QED BY <1>5, <3>1, <3>2
  <2> QED BY <1>4, <1>7, <2>1 DEF Fits
<1> QED BY <1>9, Replaced DEF new

HandsAreNat == \A r \in Rounds : NumHands(game, r) \in Nat

LEMMA HandsCounted ==
  ASSUME Standing PROVE HandsAreNat
BY DeckAssumption DEF Standing, StorageBegun, Rounds, HandsAreNat

LEMMA Offset ==
  ASSUME NEW a \in Nat, NEW b \in Nat, NEW f \in Nat, NEW h \in Nat, NEW x, x = a + (b - f) * h
  PROVE  x + h = a + ((b + 1) - f) * h /\ (b = f => x = a) /\ a = a + (f - f) * h
OBVIOUS

(* The chance node on top of the stack. *)
LEMMA ChanceOnTop ==
  ASSUME Standing, NEW bi, NEW pt, StackOK(stack, bi, pt), stack # <<>>, Node.type = "chance"
  PROVE  /\ Current.node \in DOMAIN nodes /\ Node = nodes[Current.node] /\ Node.round \in Rounds
         /\ Node.round \in Nat /\ Current.reach \in BOOLEAN /\ Current.node \in Nat
         /\ storage.startRound \in Nat /\ storage.startRound <= Node.round
         /\ Node.round # storage.startRound => Node.round - 1 \in Rounds
         /\ Current.node \in ChanceNodes
<1>1. /\ Current.node \in DOMAIN nodes /\ Node = nodes[Current.node] /\ Current.reach \in BOOLEAN
      /\ nodes[Current.node].tree = storage.tree
  BY TopEntry
<1>2. Node.round \in Rounds /\ Node.round \in Nat /\ Current.node \in Nat
  BY <1>1, NodesTyped DEF Standing
<1>3. Node.round \in storage.startRound .. storage.endRound - 1 BY <1>1, ChanceRounds
<1>4. storage.startRound \in Nat BY DEF Standing, StorageBegun, StorageType, RoundsOf
<1>5. storage.startRound <= Node.round BY <1>2, <1>3, <1>4
<1>6. Node.round # storage.startRound => Node.round - 1 \in Rounds
  <2>1. Node.round # storage.startRound => Node.round - 1 \in Nat BY <1>2, <1>4, <1>5
  <2> QED BY <1>2, <2>1, EarlierRound DEF Standing
<1>7. Current.node \in ChanceNodes BY <1>1 DEF ChanceNodes
<1> QED BY <1>1, <1>2, <1>4, <1>5, <1>6, <1>7

LEMMA ChanceStack ==
  ASSUME Standing, StackOK(stack, boardIndex, ptr), ptr \in Sizes, boardIndex \in [Rounds -> Nat],
         WalkChance
  PROVE  /\ StackOK(stack', boardIndex', ptr') /\ boardIndex' \in [Rounds -> Nat] /\ ptr' = ptr
         /\ Block(Current.node) \in ChanceNodes \X Nat
<1> DEFINE n == Current.node
           r == Node.round
           bi == boardIndex
           bi2 == boardIndex'
           first == FirstBoard(r, Above(r))
           frame == [kind |-> "boards", node |-> n, reach |-> Current.reach, old |-> ptr[r]]
<1>1. stack # <<>> /\ Node.type = "chance" /\ ptr' = ptr BY DEF WalkChance, Visiting
<1>2. PICK deal \in Deal(n, Current.reach) : stack' = deal \o <<frame>> \o Tail(stack)
  BY DEF WalkChance
<1>3. bi2 = [bi EXCEPT ![r] = first] BY DEF WalkChance
<1>4. /\ n \in DOMAIN nodes /\ Node = nodes[n] /\ r \in Rounds /\ r \in Nat
      /\ Current.reach \in BOOLEAN /\ n \in Nat /\ n \in ChanceNodes
      /\ storage.startRound \in Nat /\ storage.startRound <= r
      /\ r # storage.startRound => r - 1 \in Rounds
      /\ nodes[n].tree = storage.tree
  BY <1>1, ChanceOnTop, TopEntry
<1>5. Open(bi, r) BY <1>1, BoardsFollow
<1>6. Above(r) = AboveIn(bi, r) BY DEF Above, AboveIn
<1>7. first \in Nat BY <1>5, <1>6 DEF Open
<1>8. /\ bi2 \in [Rounds -> Nat] /\ bi2[r] = first
      /\ \A q \in Rounds : q # r => bi2[q] = bi[q]
  BY <1>3, <1>4, <1>7
<1>9. AboveIn(bi2, r) = AboveIn(bi, r)
  <2>1. r # storage.startRound => bi2[r - 1] = bi[r - 1] BY <1>4, <1>8
  <2> HIDE DEF bi2
  <2> QED BY <2>1 DEF AboveIn
<1>10. ptr[r] \in [Players -> Nat] BY <1>4 DEF Sizes
<1>11. EntryOK(bi2, ptr, frame)
  <2>1. frame \in Entries BY <1>4, <1>10 DEF Entries
  <2>2. Open(bi2, r) BY <1>5, <1>9 DEF Open
  <2>3. bi2[r] \in first .. EndBoard(r, AboveIn(bi2, r)) - 1
    BY <1>5, <1>6, <1>8, <1>9 DEF Open
  <2>4. \A p \in Players : ptr[r][p] = ptr[r][p] + (bi2[r] - first) * NumHands(game, r)
    <3> SUFFICES ASSUME NEW p \in Players
                 PROVE  ptr[r][p] = ptr[r][p] + (bi2[r] - first) * NumHands(game, r)
      OBVIOUS
    <3> DEFINE h == NumHands(game, r)
               a == ptr[r][p]
    <3>1. h \in Nat /\ a \in Nat BY <1>4, <1>10, HandsCounted DEF HandsAreNat
    <3> HIDE DEF h, a, first, bi2
    <3>2. a = a + (first - first) * h BY <1>7, <3>1
    <3> QED BY <1>8, <3>2 DEF h, a
  <2>5. At(bi2, ptr, frame)
    <3> HIDE DEF bi2
    <3> QED BY <1>1, <1>4, <1>6, <1>9, <2>2, <2>3, <2>4 DEF At
  <2> QED BY <1>1, <1>4, <2>1, <2>5 DEF EntryOK
<1>12. frame.kind = "boards" /\ frame.node = Current.node OBVIOUS
<1>13. FrameOK(frame, bi2, ptr) BY <1>11, <1>12 DEF FrameOK
<1>14. StackOK(stack', bi2, ptr)
  <2>1. EarlierKept(bi, ptr, bi2, ptr) BY <1>4, <1>8 DEF EarlierKept
  <2> HIDE DEF frame, bi2, bi
  <2> QED BY <1>1, <1>2, <1>13, <2>1, BoardStack DEF bi
<1>15. Block(n) \in ChanceNodes \X Nat
  <2>1. Above(r) \in Nat BY <1>4, <1>8 DEF Above
  <2> QED BY <1>4, <2>1 DEF Block
<1> QED BY <1>1, <1>8, <1>14, <1>15 DEF bi2

LEMMA DealingFacts ==
  ASSUME NEW bi, NEW pt, StackOK(stack, bi, pt), Dealing
  PROVE  /\ stack # <<>> /\ Node.type = "chance" /\ At(bi, pt, Current)
         /\ Current.old \in [Players -> Nat] /\ Current \in Entries /\ EntryOK(bi, pt, Current)
<1>1. stack # <<>> /\ Current.kind = "boards" BY DEF Dealing
<1>2. EntryOK(bi, pt, Current) /\ Node = nodes[Current.node] BY <1>1, TopEntry
<1> QED BY <1>1, <1>2 DEF EntryOK, Entries

(* The next board goes on top of the entry of its chance node. *)
LEMMA NextStack ==
  ASSUME Standing, StackOK(stack, boardIndex, ptr), NextBoard
  PROVE  \E deal \in Deal(Current.node, Current.reach) :
           stack' = (deal \o <<Current>>) \o Tail(stack)
<1>1. stack # <<>> /\ Node.type = "chance" /\ Dealing BY DealingFacts DEF NextBoard
<1>2. PICK deal \in Deal(Current.node, Current.reach) : stack' = deal \o stack BY DEF NextBoard
<1>3. /\ Current.node \in DOMAIN nodes /\ Node = nodes[Current.node] /\ Current.reach \in BOOLEAN
      /\ nodes[Current.node].tree = storage.tree
  BY <1>1, TopEntry
<1>4. stack' = (deal \o <<Current>>) \o Tail(stack)
  <2>1. stack \in Seq(Entries) /\ Current \in Entries BY <1>1, DealingFacts DEF StackOK
  <2>2. Tail(stack) \in Seq(Entries) /\ <<Current>> \in Seq(Entries) BY <1>1, <2>1
  <2>3. deal \in Seq(Entries) BY <1>1, <1>3, DealFacts
  <2>4. stack = <<Current>> \o Tail(stack)
    <3>1. /\ Tail(stack) \in Seq(Entries) /\ Len(Tail(stack)) = Len(stack) - 1
          /\ \A i \in 1 .. Len(Tail(stack)) : Tail(stack)[i] = stack[i + 1]
      BY <1>1, <2>1, HeadTailProperties
    <3> DEFINE t == Tail(stack)
               u == <<Current>> \o t
    <3>2. /\ u \in Seq(Entries) /\ Len(u) = 1 + Len(t)
          /\ \A i \in 1 .. 1 + Len(t) : u[i] = IF i <= 1 THEN <<Current>>[i] ELSE t[i - 1]
      BY <2>2, ConcatProperties
    <3>3. /\ Len(t) = Len(stack) - 1 /\ Len(stack) \in Nat \ {0} /\ Current = stack[1]
          /\ \A i \in 1 .. Len(t) : t[i] = stack[i + 1]
      BY <1>1, <3>1, TopEntry
    <3> HIDE DEF t, u
    <3>4. Len(u) = Len(stack) /\ \A i \in 1 .. Len(stack) : u[i] = stack[i]
      <4>1. Len(u) = Len(stack) BY <3>2, <3>3
      <4>2. ASSUME NEW i \in 1 .. Len(stack) PROVE u[i] = stack[i]
        <5>1. CASE i = 1 BY <3>2, <3>3, <5>1
        <5>2. CASE i # 1
          <6>1. i - 1 \in 1 .. Len(t) /\ (i - 1) + 1 = i /\ i \in 1 .. 1 + Len(t) /\ ~(i <= 1)
            BY <3>3, <5>2
          <6> QED BY <3>2, <3>3, <6>1
        <5> QED BY <5>1, <5>2
      <4> QED BY <4>1, <4>2
    <3>5. u = stack BY <2>1, <3>2, <3>4, SeqEqual
    <3> QED BY <3>5 DEF u, t
  <2>5. deal \o stack = deal \o (<<Current>> \o Tail(stack)) BY <2>4
  <2>6. (deal \o <<Current>>) \o Tail(stack) = deal \o (<<Current>> \o Tail(stack))
    BY <2>2, <2>3, ConcatAssociative
  <2> QED BY <1>2, <2>5, <2>6
<1> QED BY <1>4

LEMMA BoardNext ==
  ASSUME Standing, StackOK(stack, boardIndex, ptr), ptr \in Sizes, boardIndex \in [Rounds -> Nat],
         NextBoard
  PROVE  /\ StackOK(stack', boardIndex', ptr') /\ boardIndex' \in [Rounds -> Nat] /\ ptr' \in Sizes
<1> DEFINE n == Current.node
           r == Node.round
           bi == boardIndex
           bi2 == boardIndex'
           pt2 == ptr'
           h == NumHands(game, r)
           first == FirstBoard(r, AboveIn(bi, r))
<1>1. stack # <<>> /\ Node.type = "chance" /\ Dealing BY DealingFacts DEF NextBoard
<1>2. PICK deal \in Deal(n, Current.reach) : stack' = (deal \o <<Current>>) \o Tail(stack)
  BY NextStack
<1>3. /\ MoreBoards(r) /\ ptr' = [ptr EXCEPT ![r] = OneBoard(r, ptr[r])]
      /\ bi2 = [bi EXCEPT ![r] = bi[r] + 1]
  BY DEF NextBoard
<1>4. /\ n \in DOMAIN nodes /\ Node = nodes[n] /\ r \in Rounds /\ r \in Nat
      /\ Current.reach \in BOOLEAN
      /\ storage.startRound \in Nat /\ storage.startRound <= r
      /\ r # storage.startRound => r - 1 \in Rounds
      /\ nodes[n].tree = storage.tree
  BY <1>1, ChanceOnTop, TopEntry
<1>5. /\ At(bi, ptr, Current) /\ Current.old \in [Players -> Nat] /\ EntryOK(bi, ptr, Current)
  BY <1>1, DealingFacts
<1>6. Above(r) = AboveIn(bi, r) BY DEF Above, AboveIn
<1>7. /\ Open(bi, r) /\ first \in Nat /\ bi[r] \in Nat /\ first <= bi[r]
      /\ \A p \in Players : ptr[r][p] = Current.old[p] + (bi[r] - first) * h
      /\ bi[r] + 1 < EndBoard(r, AboveIn(bi, r)) /\ EndBoard(r, AboveIn(bi, r)) \in Nat
  BY <1>3, <1>4, <1>5, <1>6 DEF At, Open, MoreBoards
<1>8. h \in Nat BY <1>4, HandsCounted DEF HandsAreNat
<1>9. ptr[r] \in [Players -> Nat] /\ OneBoard(r, ptr[r]) = [p \in Players |-> ptr[r][p] + h]
  BY <1>4 DEF Sizes, OneBoard
<1>10. /\ bi2 \in [Rounds -> Nat] /\ bi2[r] = bi[r] + 1
       /\ \A q \in Rounds : q # r => bi2[q] = bi[q]
  BY <1>3, <1>4, <1>7
<1> HIDE DEF h
<1>11. /\ pt2 \in Sizes /\ \A p \in Players : pt2[r][p] = ptr[r][p] + h
       /\ \A q \in Rounds : q # r => pt2[q] = ptr[q]
  <2>1. [p \in Players |-> ptr[r][p] + h] \in [Players -> Nat] BY <1>8, <1>9
  <2>2. pt2 = [ptr EXCEPT ![r] = [p \in Players |-> ptr[r][p] + h]] BY <1>3, <1>9
  <2>3. ptr \in [Rounds -> [Players -> Nat]] BY DEF Sizes
  <2> HIDE DEF pt2
  <2> QED BY <1>4, <2>1, <2>2, <2>3 DEF Sizes
<1>12. AboveIn(bi2, r) = AboveIn(bi, r)
  <2>1. r # storage.startRound => bi2[r - 1] = bi[r - 1] BY <1>4, <1>10
  <2> HIDE DEF bi2
  <2> QED BY <2>1 DEF AboveIn
<1>13. EntryOK(bi2, pt2, Current)
  <2>1. Open(bi2, r) BY <1>7, <1>12 DEF Open
  <2>2. bi2[r] \in first .. EndBoard(r, AboveIn(bi2, r)) - 1 BY <1>7, <1>10, <1>12
  <2>3. \A p \in Players : pt2[r][p] = Current.old[p] + (bi2[r] - first) * h
    <3> SUFFICES ASSUME NEW p \in Players PROVE pt2[r][p] = Current.old[p] + (bi2[r] - first) * h
      OBVIOUS
    <3> DEFINE a == Current.old[p]
               b == bi[r]
               x == ptr[r][p]
    <3>1. a \in Nat /\ b \in Nat /\ x = a + (b - first) * h BY <1>5, <1>7
    <3>2. pt2[r][p] = x + h /\ bi2[r] = b + 1 BY <1>10, <1>11
    <3> HIDE DEF a, b, x, first, pt2, bi2
    <3>3. x + h = a + ((b + 1) - first) * h BY <1>7, <1>8, <3>1, Offset
    <3> QED BY <3>2, <3>3 DEF a
  <2>4. At(bi2, pt2, Current)
    <3> HIDE DEF bi2, pt2
    <3> QED BY <1>4, <1>12, <2>1, <2>2, <2>3 DEF At, h
  <2> QED BY <1>5, <2>4 DEF EntryOK
<1>14. EarlierKept(bi, ptr, bi2, pt2) BY <1>4, <1>10, <1>11 DEF EarlierKept
<1>16. Current.kind = "boards" BY <1>1 DEF Dealing
<1> HIDE DEF bi2, pt2
<1>17. FrameOK(Current, bi2, pt2) BY <1>13, <1>16 DEF FrameOK
<1>18. StackOK(stack', bi2, pt2) BY <1>1, <1>2, <1>14, <1>17, BoardStack
<1> QED BY <1>10, <1>11, <1>18 DEF bi2, pt2

(* The entries of a block. *)
LEMMA SizesBelow ==
  ASSUME Sound, NEW n \in DOMAIN nodes, nodes[n].type = "chance", NEW r \in Rounds, NEW p \in Players
  PROVE  nodes[n].u.bettingTreeSize[r][p] \in Nat
<1>1. NodeInv(game, size, nodes[n]) BY DEF Sound, TreeInv
<1>2. nodes[n].u.bettingTreeSize \in SizesOf(game) BY <1>1 DEF NodeInv, ChanceU
<1> QED BY <1>2 DEF SizesOf, Rounds

LEMMA BlockCounted ==
  ASSUME Standing, NEW n \in DOMAIN nodes, nodes[n].type = "chance",
         Open(boardIndex, nodes[n].round), NEW p \in Players
  PROVE  BlockSize(n, p) \in Nat
<1> DEFINE r == nodes[n].round
           b == nodes[n].u.bettingTreeSize[r][p]
           f == NumFollowing(r)
           h == NumHands(game, r)
<1>1. r \in Rounds /\ Sound BY NodesTyped DEF Standing
<1>2. b \in Nat BY <1>1, SizesBelow
<1>3. f \in Nat
  <2>1. AboveIn(boardIndex, r) = Above(r) BY DEF Above, AboveIn
  <2> QED BY <2>1 DEF Open, NumFollowing
<1>4. h \in Nat BY <1>1, HandsCounted DEF HandsAreNat
<1>5. BlockSize(n, p) = b * f * h BY DEF BlockSize
<1> HIDE DEF b, f, h
<1> QED BY <1>2, <1>3, <1>4, <1>5

LEMMA ChanceLeft ==
  ASSUME Standing, StackOK(stack, boardIndex, ptr), ptr \in Sizes, boardIndex \in [Rounds -> Nat],
         LeaveChance
  PROVE  /\ StackOK(stack', boardIndex, ptr') /\ ptr' \in Sizes
         /\ Block(Current.node) \in ChanceNodes \X Nat
<1> DEFINE n == Current.node
           r == Node.round
           behind == [p \in Players |-> Current.old[p] + BlockSize(n, p)]
           next == IF IsCompressed THEN Current.old ELSE behind
           pt2 == ptr'
<1>1. stack # <<>> /\ Node.type = "chance" /\ Dealing BY DealingFacts DEF LeaveChance
<1>2. pt2 = [ptr EXCEPT ![r] = next] /\ stack' = Tail(stack) BY DEF LeaveChance
<1>3. /\ n \in DOMAIN nodes /\ Node = nodes[n] /\ r \in Rounds /\ r \in Nat /\ n \in ChanceNodes
      /\ storage.startRound \in Nat /\ storage.startRound <= r
      /\ r # storage.startRound => r - 1 \in Rounds
  BY <1>1, ChanceOnTop
<1>4. At(boardIndex, ptr, Current) /\ Current.old \in [Players -> Nat] BY <1>1, DealingFacts
<1>5. Open(boardIndex, r) BY <1>3, <1>4 DEF At
<1>6. behind \in [Players -> Nat]
  <2>1. \A p \in Players : BlockSize(n, p) \in Nat /\ Current.old[p] \in Nat
    BY <1>1, <1>3, <1>4, <1>5, BlockCounted
  <2> QED BY <2>1
<1>7. next \in [Players -> Nat] BY <1>4, <1>6
<1> HIDE DEF next
<1>8. pt2 \in Sizes /\ \A q \in Rounds : q # r => pt2[q] = ptr[q]
  BY <1>2, <1>3, <1>7 DEF Sizes
<1>9. EarlierKept(boardIndex, ptr, boardIndex, pt2) BY <1>3, <1>8 DEF EarlierKept
<1> HIDE DEF pt2
<1>10. \A k \in 2 .. Len(stack) : stack[k].kind = "boards" => At(boardIndex, pt2, stack[k])
  BY <1>1, <1>9, OthersStay
<1>11. StackOK(stack', boardIndex, pt2) BY <1>1, <1>2, <1>10, Popped
<1>12. Block(n) \in ChanceNodes \X Nat
  <2>1. Above(r) \in Nat BY <1>3 DEF Above
  <2> QED BY <1>3, <2>1 DEF Block
<1> QED BY <1>8, <1>11, <1>12 DEF pt2

LEMMA EntryLeft ==
  ASSUME StackOK(stack, boardIndex, ptr), WalkEnd PROVE StackOK(stack', boardIndex, ptr)
<1>1. stack # <<>> /\ stack' = Tail(stack) BY DEF WalkEnd, Visiting
<1> QED BY <1>1, SameBelow, Popped

LEMMA EmptyStack ==
  ASSUME NEW bi, NEW pt PROVE StackOK(<<>>, bi, pt)
BY DEF StackOK

LEMMA RootVisited ==
  ASSUME Standing, Begin, NEW bi, NEW pt PROVE StackOK(stack', bi, pt) /\ stack' # <<>>
<1>1. Root \in DOMAIN nodes /\ nodes[Root].tree = storage.tree /\ nodes[Root].chance = 0
  BY RootFacts
<1> DEFINE v == VisitNode(Root, TRUE)
<1>2. stack' = <<v>> BY DEF Begin
<1>3. TRUE \in BOOLEAN /\ Sound BY DEF Standing
<1>4. EntryOK(bi, pt, v) /\ v \in Entries /\ v.node = Root BY <1>1, <1>3, VisitIsEntry
<1> HIDE DEF v
<1>5. Len(<<v>>) = 1 /\ DOMAIN <<v>> = {1} /\ <<v>>[1] = v OBVIOUS
<1>6. Held(<<v>>, 1) BY <1>1, <1>4, <1>5 DEF Held, NoneLater
<1> QED BY <1>2, <1>4, <1>5, <1>6 DEF StackOK

(* A walk does not change what it walks. *)
LEMMA StackStays ==
  ASSUME UNCHANGED <<vars, storage>>, NEW st, NEW bi, NEW pt, StackOK(st, bi, pt), stack' = st,
         boardIndex' = bi, ptr' = pt
  PROVE  StackOK(stack, boardIndex, ptr)'
<1>1. nodes' = nodes /\ game' = game /\ storage' = storage BY DEF vars
<1>2. \A n : Level(n)' = Level(n) BY <1>1 DEF Level
<1>3. \A r : /\ Open(boardIndex, r)' = Open(bi, r) /\ AboveIn(boardIndex, r)' = AboveIn(bi, r)
  BY <1>1 DEF Open, AboveIn, FirstBoard, EndBoard, NumBoards, BoardAt
<1>4. \A e : At(boardIndex, ptr, e)' = At(bi, pt, e)
  <2>1. ASSUME NEW r
        PROVE  /\ FirstBoard(r, AboveIn(boardIndex, r))' = FirstBoard(r, AboveIn(bi, r))
               /\ EndBoard(r, AboveIn(boardIndex, r))' = EndBoard(r, AboveIn(bi, r))
    BY <1>1, <1>3 DEF FirstBoard, EndBoard, NumBoards, BoardAt
  <2> SUFFICES ASSUME NEW e PROVE At(boardIndex, ptr, e)' = At(bi, pt, e) OBVIOUS
  <2> QED BY <1>1, <1>3, <2>1 DEF At
<1>5. \A e : EntryOK(bi, pt, e) => EntryOK(boardIndex, ptr, e)' BY <1>1, <1>4 DEF EntryOK
<1>6. \A k \in DOMAIN st : Held(st, k) => Held(stack, k)' BY <1>1, <1>2 DEF Held, NoneLater, Has
<1> QED BY <1>5, <1>6 DEF StackOK

(* The walks, apart from the types of what they put down.                  *)
WalkRuns ==
  /\ StackOK(stack, boardIndex, ptr)
  /\ ptr \in Sizes /\ boardIndex \in [Rounds -> Nat]
  /\ stack # <<>> => job # NoJob
  /\ job # NoJob => storage.endRound > 0 /\ Ready
  /\ nodes = <<>> => todo # <<>>

LEMMA WalksStand ==
  ASSUME Sound, StorageInv, WalkRuns, storage.endRound > 0, Ready PROVE Standing
<1>1. StorageBegun /\ BoardsInv BY RestBegun
<1>2. nodes # <<>> BY <1>1 DEF WalkRuns, StorageBegun
<1> QED BY <1>1, <1>2 DEF Standing

LEMMA FirstIsTyped ==
  ASSUME Sound PROVE FirstBoards \in [Rounds -> Nat] /\ AtStart \in Sizes
BY DEF FirstBoards, AtStart, Sizes

(* The actions of a walk, whose storage is at rest. *)
LEMMA WalkKeepsRunning ==
  ASSUME Sound, StorageInv, WalkRuns,
         Begin \/ WalkEnd \/ WalkChoice \/ WalkChance \/ NextBoard \/ LeaveChance \/ Finish
  PROVE  WalkRuns'
<1>1. UNCHANGED <<vars, storage>>
  BY DEF Begin, WalkEnd, WalkChoice, WalkChance, NextBoard, LeaveChance, Finish
<1>2. nodes' = nodes /\ todo' = todo /\ game' = game /\ storage' = storage BY <1>1 DEF vars
<1>3. /\ Rounds' = Rounds /\ Sizes' = Sizes /\ Ready' = Ready
      /\ storage'.endRound = storage.endRound
      /\ nodes' = <<>> => todo' # <<>>
  BY <1>2 DEF Rounds, Sizes, Ready, WalkRuns
<1>4. /\ StackOK(stack, boardIndex, ptr) /\ ptr \in Sizes /\ boardIndex \in [Rounds -> Nat]
      /\ stack # <<>> => job # NoJob
      /\ job # NoJob => storage.endRound > 0 /\ Ready
  BY DEF WalkRuns
<1>5. storage.endRound > 0 /\ Ready
  <2>1. CASE Begin BY <2>1 DEF Begin, AtRest
  <2>2. CASE WalkEnd \/ WalkChoice \/ WalkChance BY <1>4, <2>2 DEF WalkEnd, WalkChoice, WalkChance, Visiting
  <2>3. CASE NextBoard \/ LeaveChance BY <1>4, <2>3 DEF NextBoard, LeaveChance, Dealing
  <2>4. CASE Finish BY <1>4, <2>4 DEF Finish
  <2> QED BY <2>1, <2>2, <2>3, <2>4
<1>6. Standing BY <1>5, WalksStand
<1>7. /\ StackOK(stack', boardIndex', ptr') /\ ptr' \in Sizes /\ boardIndex' \in [Rounds -> Nat]
      /\ stack' # <<>> => job' # NoJob
  <2>1. CASE Begin
    <3>1. ptr' = ptr /\ boardIndex' = boardIndex /\ job' \in Jobs BY <2>1 DEF Begin
    <3>2. job' # NoJob BY <3>1 DEF Jobs, NoJob
    <3> QED BY <1>4, <1>6, <2>1, <3>1, <3>2, RootVisited
  <2>2. CASE WalkEnd
    <3>1. ptr' = ptr /\ boardIndex' = boardIndex /\ job' = job /\ stack # <<>>
      BY <2>2 DEF WalkEnd, Visiting
    <3> QED BY <1>4, <2>2, <3>1, EntryLeft
  <2>3. CASE WalkChoice
    <3>1. ptr' = ptr /\ boardIndex' = boardIndex /\ job' = job /\ stack # <<>>
      BY <2>3 DEF WalkChoice, Visiting
    <3> QED BY <1>4, <1>6, <2>3, <3>1, ChoiceStack
  <2>4. CASE WalkChance
    <3>1. job' = job /\ stack # <<>> BY <2>4 DEF WalkChance, Visiting
    <3> QED BY <1>4, <1>6, <2>4, <3>1, ChanceStack
  <2>5. CASE NextBoard
    <3>1. job' = job /\ stack # <<>> BY <2>5 DEF NextBoard, Dealing
    <3> QED BY <1>4, <1>6, <2>5, <3>1, BoardNext
  <2>6. CASE LeaveChance
    <3>1. boardIndex' = boardIndex /\ job' = job /\ stack # <<>> BY <2>6 DEF LeaveChance, Dealing
    <3> QED BY <1>4, <1>6, <2>6, <3>1, ChanceLeft
  <2>7. CASE Finish
    <3>1. ptr' = AtStart /\ boardIndex' = FirstBoards /\ stack' = <<>> BY <2>7 DEF Finish
    <3>2. FirstBoards \in [Rounds -> Nat] /\ AtStart \in Sizes BY FirstIsTyped
    <3> QED BY <3>1, <3>2, EmptyStack
  <2> QED BY <2>1, <2>2, <2>3, <2>4, <2>5, <2>6, <2>7
<1>8. StackOK(stack, boardIndex, ptr)' BY <1>1, <1>7, StackStays
<1> QED BY <1>3, <1>5, <1>7, <1>8 DEF WalkRuns

(* What is walked is made and set up between the walks, before any pass. *)
LEMMA NoWalk ==
  ASSUME Sound, StorageInv, WalkRuns, [WalkNext]_allVars,
         ~(Begin \/ WalkEnd \/ WalkChoice \/ WalkChance \/ NextBoard \/ LeaveChance \/ Finish)
  PROVE  /\ UNCHANGED walkVars /\ game' = game
         /\ \/ UNCHANGED <<vars, storage>>
            \/ job = NoJob /\ (passes = 0 \/ ~(storage.endRound > 0 /\ Ready))
<1>1. job # NoJob => storage.endRound > 0 /\ Ready BY DEF WalkRuns
<1>2. UNCHANGED walkVars /\ (BuildTree \/ UNCHANGED vars)
  BY DEF WalkNext, BuildTree, SetUpTrunk, StorageStep, SetUpSubgame, Stop, allVars
<1>3. game' = game
  BY <1>2 DEF vars, BuildTree, Build, MakeSubgame, MakeChance, CloseChance, MakeLeaf, MakeChoice
<1>4. ASSUME ~UNCHANGED <<vars, storage>>
      PROVE  job = NoJob /\ (passes = 0 \/ ~(storage.endRound > 0 /\ Ready))
  <2>1. CASE BuildTree
    <3>1. todo # <<>>
      BY <2>1 DEF BuildTree, Build, MakeSubgame, MakeChance, CloseChance, MakeLeaf, MakeChoice, Visits
    <3>2. ~(storage.endRound > 0) BY <3>1, RestBegun DEF StorageBegun
    <3> QED BY <1>1, <3>2
  <2>2. CASE SetUpTrunk BY <1>1, <2>2 DEF SetUpTrunk
  <2>3. CASE StorageStep
    <3>1. storage.round < storage.endRound BY <2>3 DEF StorageStep, SetUpBoards, NextRound
    <3>2. storage.endRound \in Int /\ storage.round \in Int
      BY EmptyIsOver DEF StorageInv, StorageBegun, StorageType
    <3> QED BY <1>1, <3>1, <3>2 DEF Ready
  <2>4. CASE SetUpSubgame BY <2>4 DEF SetUpSubgame, AtRest
  <2>5. BuildTree \/ SetUpTrunk \/ StorageStep \/ SetUpSubgame BY <1>4 DEF WalkNext, Stop, allVars
  <2> QED BY <2>1, <2>2, <2>3, <2>4, <2>5
<1> QED BY <1>2, <1>3, <1>4

LEMMA RunsWait ==
  ASSUME Sound, StorageInv, WalkRuns, [WalkNext]_allVars,
         ~(Begin \/ WalkEnd \/ WalkChoice \/ WalkChance \/ NextBoard \/ LeaveChance \/ Finish)
  PROVE  WalkRuns'
<1>1. /\ StackOK(stack, boardIndex, ptr) /\ ptr \in Sizes /\ boardIndex \in [Rounds -> Nat]
      /\ stack # <<>> => job # NoJob
      /\ job # NoJob => storage.endRound > 0 /\ Ready
  BY DEF WalkRuns
<1>2. /\ UNCHANGED walkVars
      /\ BuildTree \/ UNCHANGED vars
  BY DEF WalkNext, BuildTree, SetUpTrunk, StorageStep, SetUpSubgame, Stop, allVars
<1>3. /\ stack' = stack /\ boardIndex' = boardIndex /\ ptr' = ptr /\ job' = job
      /\ game' = game
  BY <1>2 DEF walkVars, vars, BuildTree, Build, MakeSubgame, MakeChance, CloseChance, MakeLeaf, MakeChoice
<1>4. Rounds' = Rounds /\ Sizes' = Sizes BY <1>3 DEF Rounds, Sizes
<1>5. nodes' = <<>> => todo' # <<>>
  <2>1. CASE BuildTree
    <3>1. nodes \in Seq(NodeType(game)) BY DEF Sound, TreeInv
    <3>2. CASE CloseChance
      <4>1. Closes(Top.node) BY <3>2, CloseFacts DEF Sound
      <4>2. Top.node \in DOMAIN nodes /\ DOMAIN nodes' = DOMAIN nodes
        BY <4>1 DEF Closes, IsChance
      <4> QED BY <4>2
    <3>3. CASE ~CloseChance
      <4>1. PICK n, new : Builds(n, new) BY <2>1, <3>3, NodeBuilds DEF BuildTree, Sound
      <4>2. Len(nodes') = Len(nodes) + 1 /\ Len(nodes) \in Nat BY <3>1, <4>1 DEF Builds, Added
      <4> QED BY <4>2
    <3> QED BY <3>2, <3>3
  <2>2. CASE UNCHANGED vars BY <2>2 DEF WalkRuns, vars
  <2> QED BY <1>2, <2>1, <2>2
<1>6. CASE UNCHANGED <<vars, storage>>
  <2>1. StackOK(stack, boardIndex, ptr)' BY <1>1, <1>3, <1>6, StackStays
  <2>2. Ready' = Ready /\ storage' = storage BY <1>6 DEF Ready
  <2> QED BY <1>1, <1>3, <1>4, <1>5, <2>1, <2>2 DEF WalkRuns
<1>7. CASE ~(UNCHANGED <<vars, storage>>)
  <2>1. job = NoJob BY <1>7, NoWalk
  <2>2. stack' = <<>> BY <1>1, <1>3, <2>1
  <2>3. StackOK(stack, boardIndex, ptr)' BY <2>2 DEF StackOK
  <2> QED BY <1>1, <1>3, <1>4, <1>5, <2>1, <2>2, <2>3 DEF WalkRuns
<1> QED BY <1>6, <1>7

LEMMA RunsInit ==
  ASSUME WalkInit, Sound PROVE WalkRuns
<1>1. /\ stack = <<>> /\ job = NoJob /\ ptr = AtStart /\ boardIndex = FirstBoards /\ Init
  BY DEF WalkInit
<1>2. \E v : todo = <<v>> BY <1>1 DEF Init
<1>3. todo # <<>> BY <1>2
<1> QED BY <1>1, <1>3, EmptyStack, FirstIsTyped DEF WalkRuns

-----------------------------------------------------------------------------
(* Types of the walks                                                      *)

Blocks == ChanceNodes \X Nat

WalkPuts ==
  /\ passes \in 0 .. MaxPasses /\ job.type \in {"none", "cfr", "work", "br", "reorder"}
  /\ job # NoJob => passes < MaxPasses
  /\ read \in [Arrays -> [Rounds -> Nat]]
  /\ content \in [Arrays -> [Rounds -> Seq(Blocks)]] /\ out \in [Arrays -> [Rounds -> Seq(Blocks)]]
  /\ DOMAIN place \subseteq Blocks
  /\ moved \subseteq Rounds \X Players \X Nat \X Nat

LEMMA ChancesStay ==
  ASSUME Sound, BuildTree PROVE ChanceNodes \subseteq ChanceNodes' /\ game' = game
<1>1. CASE CloseChance
  <2>1. Closes(Top.node) BY <1>1, CloseFacts DEF Sound
  <2>2. IsChance(nodes, Top.node) /\ Extends(nodes, nodes') /\ game' = game BY <2>1 DEF Closes, Keeps
  <2> QED BY <2>2 DEF Extends, ChanceNodes
<1>2. CASE ~CloseChance
  <2>1. PICK n, new : Builds(n, new) BY <1>2, NodeBuilds DEF BuildTree, Sound
  <2>2. Extends(nodes, nodes') /\ game' = game BY <2>1 DEF Builds, Added
  <2> QED BY <2>2 DEF Extends, ChanceNodes
<1> QED BY <1>1, <1>2

LEMMA WiderSeq ==
  ASSUME NEW S, NEW T, S \subseteq T PROVE Seq(S) \subseteq Seq(T)
<1> SUFFICES ASSUME NEW s \in Seq(S) PROVE s \in Seq(T) OBVIOUS
<1>1. Len(s) \in Nat /\ s \in [1 .. Len(s) -> T] OBVIOUS
<1> QED BY <1>1, SeqOfFunction

LEMMA PutsRest ==
  ASSUME WalkPuts, UNCHANGED walkVars, ChanceNodes \subseteq ChanceNodes', game' = game
  PROVE  WalkPuts'
<1>1. /\ passes' = passes /\ job' = job /\ read' = read /\ content' = content /\ out' = out
      /\ place' = place /\ moved' = moved /\ Rounds' = Rounds /\ Blocks \subseteq Blocks'
  BY DEF walkVars, Rounds, Blocks
<1>2. Seq(Blocks) \subseteq Seq(Blocks') BY <1>1, WiderSeq
<1>3. [Arrays -> [Rounds -> Seq(Blocks)]] \subseteq [Arrays -> [Rounds -> Seq(Blocks')]] BY <1>2
<1> QED BY <1>1, <1>3 DEF WalkPuts, NoJob

LEMMA PutsStay ==
  ASSUME WalkPuts, UNCHANGED vars, passes' \in 0 .. MaxPasses,
         job'.type \in {"none", "cfr", "work", "br", "reorder"}, job' # NoJob => passes' < MaxPasses,
         read' \in [Arrays -> [Rounds -> Nat]], content' \in [Arrays -> [Rounds -> Seq(Blocks)]],
         out' \in [Arrays -> [Rounds -> Seq(Blocks)]], DOMAIN place' \subseteq Blocks,
         moved' \subseteq Rounds \X Players \X Nat \X Nat
  PROVE  WalkPuts'
<1>1. Rounds' = Rounds /\ Blocks' = Blocks BY DEF vars, Rounds, Blocks, ChanceNodes
<1> QED BY <1>1 DEF WalkPuts, NoJob

LEMMA PutsEmpty ==
  /\ NoBlocks \in [Arrays -> [Rounds -> Seq(Blocks)]] /\ NothingRead \in [Arrays -> [Rounds -> Nat]]
<1>1. <<>> \in Seq(Blocks) OBVIOUS
<1> QED BY <1>1 DEF NoBlocks, NothingRead

LEMMA EntriesOut ==
  ASSUME Sound, StackOK(stack, boardIndex, ptr), boardIndex \in [Rounds -> Nat], Visiting("choice")
  PROVE  OutEntries(Node) \subseteq Rounds \X Players \X Nat \X Nat
<1> DEFINE n == Current.node
<1>1. /\ n \in DOMAIN nodes /\ Node = nodes[n] /\ nodes[n].type = "choice"
  BY TopEntry DEF Visiting
<1>2. nodes[n].u \in ChoiceU /\ nodes[n].round \in Rounds BY <1>1, ChoiceChance, NodesTyped
<1>3. /\ nodes[n].u.playerActing \in Players /\ nodes[n].u.index \in Nat /\ nodes[n].u.numChoices \in Nat
  BY <1>2 DEF ChoiceU
<1>4. boardIndex[nodes[n].round] \in Nat BY <1>2
<1>5. \A c \in 0 .. nodes[n].u.numChoices - 1 : nodes[n].u.index + c \in Nat BY <1>3
<1> QED BY <1>1, <1>2, <1>3, <1>4, <1>5 DEF OutEntries

LEMMA CountMoves ==
  ASSUME NEW D, NEW f \in [D -> Nat], NEW q, NEW x \in Nat
  PROVE  [f EXCEPT ![q] = @ + x] \in [D -> Nat]
<1> DEFINE g == [f EXCEPT ![q] = @ + x]
<1>1. \A d \in D : g[d] = IF d = q THEN f[d] + x ELSE f[d] OBVIOUS
<1>2. DOMAIN g = D /\ g = [d \in D |-> g[d]] OBVIOUS
<1>3. \A d \in D : f[d] \in Nat OBVIOUS
<1> HIDE DEF g
<1>4. \A d \in D : g[d] \in Nat BY <1>1, <1>3
<1> QED BY <1>2, <1>4 DEF g

LEMMA PutsWalk ==
  ASSUME Sound, StorageInv, WalkRuns, WalkPuts, WalkChoice \/ WalkChance \/ LeaveChance
  PROVE  WalkPuts'
<1>1. /\ StackOK(stack, boardIndex, ptr) /\ ptr \in Sizes /\ boardIndex \in [Rounds -> Nat]
      /\ stack # <<>>
  BY DEF WalkRuns, WalkChoice, WalkChance, LeaveChance, Visiting, Dealing
<1>2. Standing BY <1>1, WalksStand DEF WalkRuns
<1>3. /\ UNCHANGED vars /\ passes' = passes /\ job' = job
  BY DEF WalkChoice, WalkChance, LeaveChance
<1>4. CASE WalkChoice
  <2>1. /\ moved' = moved \cup OutEntries(Node) /\ Visiting("choice")
        /\ read' = read /\ content' = content /\ out' = out /\ place' = place
    BY <1>4 DEF WalkChoice
  <2>2. OutEntries(Node) \subseteq Rounds \X Players \X Nat \X Nat
    BY <1>1, <2>1, EntriesOut
  <2> QED BY <1>3, <2>1, <2>2, PutsStay DEF WalkPuts
<1>5. CASE WalkChance
  <2> DEFINE r == Node.round
  <2>1. /\ read' = [a \in Arrays |-> [read[a] EXCEPT ![r] =
                      @ + IF IsCompressed /\ a \in Consumes(job) THEN 1 ELSE 0]]
        /\ place' = IF IsCompressed \/ Block(Current.node) \in DOMAIN place THEN place
                    ELSE With(place, Block(Current.node), ptr[r])
        /\ content' = content /\ out' = out /\ moved' = moved
    BY <1>5 DEF WalkChance
  <2>2. Block(Current.node) \in Blocks BY <1>1, <1>2, <1>5, ChanceStack DEF Blocks
  <2>3. DOMAIN place' \subseteq Blocks
    <3>1. DOMAIN place \subseteq Blocks BY DEF WalkPuts
    <3> QED BY <2>1, <2>2, <3>1 DEF With
  <2>4. read' \in [Arrays -> [Rounds -> Nat]]
    <3>1. read \in [Arrays -> [Rounds -> Nat]] BY DEF WalkPuts
    <3>2. ASSUME NEW a \in Arrays, NEW x, x = IF IsCompressed /\ a \in Consumes(job) THEN 1 ELSE 0
          PROVE  [read[a] EXCEPT ![r] = @ + x] \in [Rounds -> Nat]
      <4> DEFINE f == read[a]
      <4>1. f \in [Rounds -> Nat] /\ x \in Nat BY <3>1, <3>2
      <4> HIDE DEF f
      <4> QED BY <4>1, CountMoves DEF f
    <3> QED BY <2>1, <3>2
  <2> QED BY <1>3, <2>1, <2>3, <2>4, PutsStay DEF WalkPuts
<1>6. CASE LeaveChance
  <2> DEFINE r == Node.round
             b == Block(Current.node)
  <2>1. /\ out' = [a \in Arrays |-> [out[a] EXCEPT ![r] =
                     IF IsCompressed /\ a \in Rewrites(job) THEN Append(@, b) ELSE @]]
        /\ read' = read /\ content' = content /\ place' = place /\ moved' = moved
    BY <1>6 DEF LeaveChance
  <2>2. b \in Blocks BY <1>1, <1>2, <1>6, ChanceLeft DEF Blocks
  <2> HIDE DEF b
  <2>3. out' \in [Arrays -> [Rounds -> Seq(Blocks)]]
    <3>1. out \in [Arrays -> [Rounds -> Seq(Blocks)]] BY DEF WalkPuts
    <3>2. ASSUME NEW a \in Arrays
          PROVE  [out[a] EXCEPT ![r] = IF IsCompressed /\ a \in Rewrites(job) THEN Append(@, b) ELSE @]
                   \in [Rounds -> Seq(Blocks)]
      <4>1. out[a] \in [Rounds -> Seq(Blocks)] BY <3>1
      <4>2. \A s \in Seq(Blocks) : Append(s, b) \in Seq(Blocks) BY <2>2
      <4> QED BY <4>1, <4>2
    <3> QED BY <2>1, <3>2
  <2> QED BY <1>3, <2>1, <2>3, PutsStay DEF WalkPuts
<1> QED BY <1>4, <1>5, <1>6

LEMMA PutsNext ==
  ASSUME Sound, StorageInv, WalkRuns, WalkPuts, [WalkNext]_allVars PROVE WalkPuts'
<1>1. CASE WalkChoice \/ WalkChance \/ LeaveChance BY <1>1, PutsWalk
<1>2. CASE BuildTree
  <2>1. UNCHANGED walkVars BY <1>2 DEF BuildTree
  <2> QED BY <1>2, <2>1, ChancesStay, PutsRest
<1>3. CASE WalkEnd \/ NextBoard \/ SetUpTrunk \/ StorageStep \/ SetUpSubgame \/ Stop \/ UNCHANGED allVars
  <2>1. /\ UNCHANGED vars /\ passes' = passes /\ job' = job /\ read' = read /\ content' = content
        /\ out' = out /\ place' = place /\ moved' = moved
    BY <1>3 DEF WalkEnd, NextBoard, SetUpTrunk, StorageStep, SetUpSubgame, Stop, allVars, walkVars
  <2> QED BY <2>1, PutsStay DEF WalkPuts
<1>4. CASE Begin
  <2>1. /\ UNCHANGED vars /\ passes' = passes /\ passes < MaxPasses /\ job' \in Jobs /\ read' = read
        /\ content' = content /\ out' = out /\ place' = place /\ moved' = moved
    BY <1>4 DEF Begin
  <2>2. job'.type \in {"none", "cfr", "work", "br", "reorder"} BY <2>1 DEF Jobs
  <2> QED BY <2>1, <2>2, PutsStay DEF WalkPuts
<1>5. CASE Finish
  <2>1. /\ UNCHANGED vars /\ job # NoJob /\ job' = NoJob /\ read' = NothingRead /\ out' = NoBlocks
        /\ moved' = {} /\ place' = place
        /\ content' = [a \in Arrays |-> IF a \in Rewrites(job) THEN out[a] ELSE content[a]]
        /\ passes' \in {passes, passes + 1}
    BY <1>5 DEF Finish
  <2>2. passes \in 0 .. MaxPasses /\ passes < MaxPasses BY <2>1 DEF WalkPuts
  <2>3. passes' \in 0 .. MaxPasses BY <2>1, <2>2, WalkedAssumption
  <2>4. job'.type = "none" BY <2>1 DEF NoJob
  <2>5. content' \in [Arrays -> [Rounds -> Seq(Blocks)]] BY <2>1 DEF WalkPuts
  <2> QED BY <2>1, <2>3, <2>4, <2>5, PutsEmpty, PutsStay DEF WalkPuts
<1> QED BY <1>1, <1>2, <1>3, <1>4, <1>5 DEF WalkNext

LEMMA PutsInit ==
  ASSUME WalkInit PROVE WalkPuts
<1>1. /\ passes = 0 /\ job = NoJob /\ content = NoBlocks /\ read = NothingRead /\ out = NoBlocks
      /\ DOMAIN place = {} /\ moved = {}
  BY DEF WalkInit
<1>2. job.type = "none" BY <1>1 DEF NoJob
<1> QED BY <1>1, <1>2, PutsEmpty, WalkedAssumption DEF WalkPuts

LEMMA RunsNext ==
  ASSUME Sound, StorageInv, WalkRuns, [WalkNext]_allVars PROVE WalkRuns'
BY WalkKeepsRunning, RunsWait

LEMMA WalkTypeFollows ==
  ASSUME Sound, StorageInv, WalkRuns, WalkPuts PROVE WalkTypeOK
<1>1. TypeOK BY TypeFollows DEF Sound
<1>2. storage.tree \in Trees /\ storage.startRound \in Rounds /\ storage.endRound \in 0 .. game.numRounds
  <2>1. 0 \in Trees
    <3>1. PICK n \in Nat \ {0} : size \in [0 .. n - 1 -> SizesOf(game)] BY DEF Sound, TreeInv, SizeInv
    <3> QED BY <3>1 DEF Trees
  <2>2. 0 \in Rounds /\ 0 \in 0 .. game.numRounds
    <3>1. GameOK(game) BY NodesTyped
    <3> QED BY <3>1 DEF GameOK, Rounds, RoundsOf
  <2>3. CASE storage = EmptyStorage(game, 0, 0, 0, {}, InitSuitGroups(game))
    BY <2>1, <2>2, <2>3, EmptyIsOver
  <2>4. CASE StorageBegun /\ BoardsInv
    <3>1. storage \in StorageType(game) BY <2>4 DEF StorageBegun
    <3>2. storage.tree \in Trees
      <4>1. CASE storage.tree # 0
        <5>1. PICK i \in SubgameNodes : nodes[i].u.index + 1 = storage.tree
          BY <2>4, <4>1 DEF StorageBegun
        <5> QED BY <5>1 DEF Sound, LinksInv, OwnTrees, SubgameNodes, Trees
      <4> QED BY <2>1, <4>1
    <3> QED BY <3>1, <3>2 DEF StorageType, Rounds
  <2> QED BY <2>3, <2>4 DEF StorageInv
<1>3. \A i \in DOMAIN stack : stack[i].node \in DOMAIN nodes /\ stack[i].reach \in BOOLEAN
  <2> SUFFICES ASSUME NEW i \in DOMAIN stack
               PROVE  stack[i].node \in DOMAIN nodes /\ stack[i].reach \in BOOLEAN
    OBVIOUS
  <2>1. EntryOK(boardIndex, ptr, stack[i]) BY DEF WalkRuns, StackOK
  <2> QED BY <2>1 DEF EntryOK, Entries
<1>4. \A a \in Arrays, r \in Rounds :
        /\ read[a][r] \in Nat
        /\ \A k \in DOMAIN content[a][r] : content[a][r][k][1] \in ChanceNodes
  <2> SUFFICES ASSUME NEW a \in Arrays, NEW r \in Rounds
               PROVE  /\ read[a][r] \in Nat
                      /\ \A k \in DOMAIN content[a][r] : content[a][r][k][1] \in ChanceNodes
    OBVIOUS
  <2>1. read[a][r] \in Nat /\ content[a][r] \in Seq(Blocks) BY DEF WalkPuts
  <2>2. \A k \in DOMAIN content[a][r] : content[a][r][k] \in Blocks BY <2>1
  <2> QED BY <2>1, <2>2 DEF Blocks
<1>5. \A m \in moved : m[1] \in Rounds /\ m[2] \in Players /\ m[3] \in Nat /\ m[4] \in Nat
  BY DEF WalkPuts
<1> QED BY <1>1, <1>2, <1>3, <1>4, <1>5 DEF WalkTypeOK, WalkRuns, WalkPuts, Blocks

(* The walks as the recursion runs them: where each pointer and each board *)
(* index is while boards are tried, and under which chance nodes.          *)
WalkInv == Sound /\ StorageInv /\ WalkRuns /\ WalkPuts

LEMMA TreeSound == (\A g \in Games : NoSkips(g)) => (WalkSpec => []Sound)
<1> SUFFICES ASSUME \A g \in Games : NoSkips(g) PROVE WalkSpec => []Sound
  OBVIOUS
<1>1. TreeInv /\ TablesInv /\ RoundsInv /\ LinksInv => Sound BY DEF Sound
<1>2. Spec => []RoundsInv BY RoundsInOrder
<1>3. Spec => []LinksInv BY NodesInWalkOrder
<1> QED BY <1>1, <1>2, <1>3, WalksKeepTree, Invariant, Tables, PTL

THEOREM WalkInvariant == (\A g \in Games : NoSkips(g)) => (WalkSpec => []WalkInv)
<1> SUFFICES ASSUME \A g \in Games : NoSkips(g) PROVE WalkSpec => []WalkInv
  OBVIOUS
<1>1. WalkSpec => []Sound BY TreeSound
<1>2. WalkInit /\ Sound => StorageInv /\ WalkRuns /\ WalkPuts BY StorageInit, RunsInit, PutsInit
<1>3. Sound /\ StorageInv /\ WalkRuns /\ WalkPuts /\ [WalkNext]_allVars =>
        (StorageInv /\ WalkRuns /\ WalkPuts)'
  BY StorageNext, RunsNext, PutsNext
<1>4. Sound /\ StorageInv /\ WalkRuns /\ WalkPuts => WalkInv BY DEF WalkInv
<1> QED BY <1>1, <1>2, <1>3, <1>4, PTL DEF WalkSpec

THEOREM WalksTyped == (\A g \in Games : NoSkips(g)) => (WalkSpec => []WalkTypeOK)
<1> SUFFICES ASSUME \A g \in Games : NoSkips(g) PROVE WalkSpec => []WalkTypeOK
  OBVIOUS
<1>1. WalkInv => WalkTypeOK BY WalkTypeFollows DEF WalkInv
<1>2. WalkSpec => []WalkInv BY WalkInvariant
<1> QED BY <1>1, <1>2, PTL

-----------------------------------------------------------------------------
(* The order of a walk                                                     *)

(* Node i is v or below it: what has been made between them is below v.    *)
In(v, i) == v <= i /\ \A k \in v + 1 .. i : nodes[k].parent >= v

(* The nodes that a visit of v comes to without a further deal. *)
Kids(v) == {i \in DOMAIN nodes : In(v, i) /\ nodes[i].chance = nodes[v].chance}

LEMMA ParentsNest ==
  ASSUME Sound, NEW k \in DOMAIN nodes, NEW j \in DOMAIN nodes, nodes[k].parent < j, j < k
  PROVE  nodes[j].parent >= nodes[k].parent
<1> DEFINE p == nodes[k].parent
<1>1. DOMAIN nodes = 1 .. Len(nodes) /\ Len(nodes) \in Nat /\ p \in 0 .. k - 1
      /\ nodes[j].parent \in 0 .. j - 1
  BY NodesTyped
<1>2. Resumes(nodes, p, k - 1) BY DEF Sound, LinksInv, Nested
<1> HIDE DEF p
<1>3. CASE p = 0 BY <1>1, <1>3 DEF p
<1>4. CASE p # 0
  <2>1. p \in 1 .. k - 1 /\ j \in 1 .. k - 1 /\ p < j BY <1>1, <1>4 DEF p
  <2>2. nodes[j].parent < p => p < p \/ p >= j BY <1>2, <2>1 DEF Resumes
  <2> QED BY <1>1, <2>1, <2>2 DEF p
<1> QED BY <1>3, <1>4

LEMMA InUp ==
  ASSUME Sound, NEW v \in DOMAIN nodes, NEW i \in DOMAIN nodes, In(v, i), i # v
  PROVE  /\ nodes[i].parent \in DOMAIN nodes /\ nodes[i].parent >= v /\ nodes[i].parent < i
         /\ In(v, nodes[i].parent)
<1> DEFINE p == nodes[i].parent
<1>1. DOMAIN nodes = 1 .. Len(nodes) /\ Len(nodes) \in Nat /\ p \in 0 .. i - 1
  BY NodesTyped
<1>2. v <= i /\ \A k \in v + 1 .. i : nodes[k].parent >= v BY DEF In
<1>3. i \in v + 1 .. i BY <1>1, <1>2
<1>4. p >= v BY <1>2, <1>3
<1> HIDE DEF p
<1>5. p \in DOMAIN nodes /\ p < i /\ \A k \in v + 1 .. p : k \in v + 1 .. i BY <1>1, <1>4
<1>6. In(v, p) BY <1>2, <1>4, <1>5 DEF In
<1> QED BY <1>4, <1>5, <1>6 DEF p

LEMMA InDown ==
  ASSUME Sound, NEW v \in DOMAIN nodes, NEW i \in DOMAIN nodes, NEW u \in DOMAIN nodes,
         nodes[i].parent = u, In(v, u)
  PROVE  In(v, i)
<1>1. DOMAIN nodes = 1 .. Len(nodes) /\ Len(nodes) \in Nat /\ u \in 0 .. i - 1
  BY NodesTyped
<1>2. v <= u /\ \A k \in v + 1 .. u : nodes[k].parent >= v BY DEF In
<1>3. v <= i BY <1>1, <1>2
<1>4. ASSUME NEW k \in v + 1 .. i PROVE nodes[k].parent >= v
  <2>1. CASE k <= u BY <1>1, <1>2, <2>1
  <2>2. CASE k = i BY <1>2, <2>2
  <2>3. CASE u < k /\ k < i
    <3>1. k \in DOMAIN nodes BY <1>1
    <3>2. nodes[k].parent >= u /\ nodes[k].parent \in Nat
      BY <2>3, <3>1, ParentsNest, NodesTyped
    <3> QED BY <1>1, <1>2, <3>2
  <2> QED BY <1>1, <2>1, <2>2, <2>3
<1> QED BY <1>3, <1>4 DEF In

LEMMA InSelf ==
  ASSUME NEW v \in Nat PROVE In(v, v)
BY DEF In

(* What is below a child comes before its later siblings.                  *)
LEMMA SiblingsApart ==
  ASSUME Sound, NEW v \in DOMAIN nodes, NEW w \in DOMAIN nodes, NEW z \in DOMAIN nodes,
         nodes[w].parent = v, nodes[z].parent = v, w < z, NEW i \in DOMAIN nodes, In(w, i)
  PROVE  i < z
<1>1. DOMAIN nodes = 1 .. Len(nodes) /\ Len(nodes) \in Nat /\ v \in 0 .. w - 1
  BY NodesTyped
<1>2. \A k \in w + 1 .. i : nodes[k].parent >= w BY DEF In
<1>3. z <= i => nodes[z].parent >= w BY <1>1, <1>2
<1> QED BY <1>1, <1>3

(* Below a node, one of its children is passed.                            *)
LEMMA InChild ==
  ASSUME Sound, NEW v \in DOMAIN nodes, NEW i \in DOMAIN nodes, In(v, i), i # v
  PROVE  \E w \in DOMAIN nodes : nodes[w].parent = v /\ In(w, i)
<1>1. DOMAIN nodes = 1 .. Len(nodes) /\ Len(nodes) \in Nat BY NodesTyped
<1> DEFINE S == {n \in 0 .. Len(nodes) : \A j \in 1 .. n : (In(v, j) /\ j # v) =>
                    \E w \in DOMAIN nodes : nodes[w].parent = v /\ In(w, j)}
<1>2. 0 \in S BY <1>1
<1>3. ASSUME NEW n \in 0 .. Len(nodes) - 1, n \in S PROVE n + 1 \in S
  <2>1. ASSUME In(v, n + 1), n + 1 # v
        PROVE  \E w \in DOMAIN nodes : nodes[w].parent = v /\ In(w, n + 1)
    <3> DEFINE p == nodes[n + 1].parent
    <3>1. n + 1 \in DOMAIN nodes BY <1>1
    <3>2. p \in DOMAIN nodes /\ p >= v /\ p < n + 1 /\ In(v, p) BY <2>1, <3>1, InUp
    <3>3. CASE p = v BY <1>1, <3>1, <3>3, InSelf
    <3>4. CASE p # v
      <4>1. p \in 1 .. n BY <1>1, <3>2
      <4>2. PICK w \in DOMAIN nodes : nodes[w].parent = v /\ In(w, p) BY <1>3, <3>2, <3>4, <4>1
      <4>3. In(w, n + 1) BY <3>1, <3>2, <4>2, InDown
      <4> QED BY <4>2, <4>3
    <3> QED BY <3>3, <3>4
  <2>2. \A j \in 1 .. n + 1 : j \in 1 .. n \/ j = n + 1 OBVIOUS
  <2>3. n + 1 \in 0 .. Len(nodes) BY <1>1
  <2> QED BY <1>3, <2>1, <2>2, <2>3
<1> HIDE DEF S
<1>4. 0 .. Len(nodes) \subseteq S BY <1>1, <1>2, <1>3, Induction
<1>5. Len(nodes) \in S /\ i \in 1 .. Len(nodes) BY <1>1, <1>4
<1> QED BY <1>5 DEF S

LEMMA KidSelf ==
  ASSUME Sound, NEW v \in DOMAIN nodes PROVE v \in Kids(v)
BY NodesTyped, InSelf DEF Kids

(* The kids of a choice are it and those of its children.                  *)
LEMMA KidsSplit ==
  ASSUME Sound, NEW v \in DOMAIN nodes, nodes[v].type = "choice"
  PROVE  /\ \A i \in Kids(v) : i = v \/ \E w \in DOMAIN nodes : nodes[w].parent = v /\ i \in Kids(w)
         /\ \A w \in DOMAIN nodes : nodes[w].parent = v =>
              /\ nodes[w].chance = nodes[v].chance /\ v < w
              /\ \A i \in Kids(w) : i \in Kids(v) /\ v < i
<1>0. DOMAIN nodes = 1 .. Len(nodes) /\ Len(nodes) \in Nat BY NodesTyped
<1>1. ASSUME NEW w \in DOMAIN nodes, nodes[w].parent = v
      PROVE  nodes[w].chance = nodes[v].chance /\ v < w
  <2>1. v # 0 BY <1>0
  <2> QED BY <1>0, <1>1, <2>1, Parents, NodesTyped
<1>2. ASSUME NEW i \in Kids(v), i # v
      PROVE  \E w \in DOMAIN nodes : nodes[w].parent = v /\ i \in Kids(w)
  <2>1. i \in DOMAIN nodes /\ In(v, i) /\ nodes[i].chance = nodes[v].chance BY DEF Kids
  <2>2. PICK w \in DOMAIN nodes : nodes[w].parent = v /\ In(w, i) BY <1>2, <2>1, InChild
  <2> QED BY <1>1, <2>1, <2>2 DEF Kids
<1>3. ASSUME NEW w \in DOMAIN nodes, nodes[w].parent = v, NEW i \in Kids(w)
      PROVE  i \in Kids(v) /\ v < i
  <2>1. i \in DOMAIN nodes /\ In(w, i) /\ nodes[i].chance = nodes[w].chance BY DEF Kids
  <2>2. v < w /\ w <= i BY <1>1, <1>3, <2>1 DEF In
  <2>3. In(v, w)
    <3>1. In(v, v) BY <1>0, InSelf
    <3> QED BY <1>3, <3>1, InDown
  <2>4. ASSUME NEW k \in v + 1 .. i PROVE nodes[k].parent >= v
    <3>1. CASE k <= w BY <1>0, <2>3, <3>1 DEF In
    <3>2. CASE ~(k <= w)
      <4>1. k \in w + 1 .. i /\ k \in DOMAIN nodes BY <1>0, <2>1, <2>2, <3>2
      <4>2. nodes[k].parent >= w /\ nodes[k].parent \in Nat BY <2>1, <4>1, NodesTyped DEF In
      <4> QED BY <1>0, <2>2, <4>2
    <3> QED BY <3>1, <3>2
  <2>5. In(v, i) BY <1>0, <2>1, <2>2, <2>4 DEF In
  <2> QED BY <1>0, <1>1, <1>3, <2>1, <2>2, <2>5 DEF Kids
<1> QED BY <1>1, <1>2, <1>3

(* A chance node comes before what it deals for.                           *)
LEMMA ChancesBefore ==
  ASSUME Sound PROVE \A v \in DOMAIN nodes : nodes[v].chance < v /\ nodes[v].chance \in Nat
<1>1. DOMAIN nodes = 1 .. Len(nodes) /\ Len(nodes) \in Nat BY NodesTyped
<1> DEFINE S == {n \in 0 .. Len(nodes) : \A j \in 1 .. n : nodes[j].chance < j}
<1>2. 0 \in S BY <1>1
<1>3. ASSUME NEW n \in 0 .. Len(nodes) - 1, n \in S PROVE n + 1 \in S
  <2> DEFINE p == nodes[n + 1].parent
  <2>1. n + 1 \in DOMAIN nodes /\ Kin(nodes, nodes[n + 1]) BY <1>1 DEF Sound, LinksInv, FamilyTies
  <2>2. p \in 0 .. n BY <1>1, <2>1, NodesTyped
  <2>20. n \in Nat BY <1>1
  <2>3. ASSUME p = 0 PROVE nodes[n + 1].chance < n + 1
    <3>1. nodes[n + 1].chance = 0 BY <2>1, <2>3, Zenon DEF Kin
    <3> QED BY <2>20, <3>1
  <2>4. ASSUME p # 0 PROVE nodes[n + 1].chance < n + 1
    <3>1. p \in 1 .. n /\ p \in DOMAIN nodes BY <1>1, <2>2, <2>4
    <3>2. nodes[p].chance < p /\ nodes[p].chance \in Nat BY <1>3, <3>1, NodesTyped
    <3>3. nodes[n + 1].chance \in {0, p, nodes[p].chance}
      BY <2>1, <2>4, <3>1, Parents, NodesTyped
    <3> DEFINE x == nodes[n + 1].chance
               y == nodes[p].chance
    <3>4. x \in {0, p, y} /\ y < p /\ y \in Nat BY <3>2, <3>3
    <3> HIDE DEF p, x, y
    <3>5. x < n + 1 BY <2>2, <2>20, <3>4
    <3> QED BY <3>5 DEF x
  <2>5. nodes[n + 1].chance < n + 1 BY <2>3, <2>4
  <2>6. \A j \in 1 .. n + 1 : j \in 1 .. n \/ j = n + 1 OBVIOUS
  <2>7. n + 1 \in 0 .. Len(nodes) BY <1>1
  <2> QED BY <1>3, <2>5, <2>6, <2>7
<1> HIDE DEF S
<1>4. 0 .. Len(nodes) \subseteq S BY <1>1, <1>2, <1>3, Induction
<1>5. Len(nodes) \in S BY <1>1, <1>4
<1> QED BY <1>1, <1>5, NodesTyped DEF S

(* A visit of another node comes to nothing else in the same round. *)
LEMMA KidsAlone ==
  ASSUME Sound, NEW v \in DOMAIN nodes, nodes[v].type # "choice", nodes[v].chance # 0
  PROVE  Kids(v) = {v}
<1>1. DOMAIN nodes = 1 .. Len(nodes) /\ Len(nodes) \in Nat BY NodesTyped
<1> DEFINE S == {n \in 0 .. Len(nodes) : \A j \in 1 .. n : (In(v, j) /\ j # v) =>
                    nodes[j].chance # nodes[v].chance}
<1>2. 0 \in S BY <1>1
<1>3. ASSUME NEW n \in 0 .. Len(nodes) - 1, n \in S PROVE n + 1 \in S
  <2>1. ASSUME In(v, n + 1), n + 1 # v, nodes[n + 1].chance = nodes[v].chance PROVE FALSE
    <3> DEFINE p == nodes[n + 1].parent
    <3>1. n + 1 \in DOMAIN nodes BY <1>1
    <3>2. p \in DOMAIN nodes /\ p >= v /\ p < n + 1 /\ In(v, p) BY <2>1, <3>1, InUp
    <3>3. p # 0 BY <1>1, <3>2
    <3>4. /\ nodes[p].type # "leaf"
          /\ nodes[p].type = "subgame" => nodes[n + 1].chance = 0
          /\ nodes[p].type = "chance" => nodes[n + 1].chance = p
          /\ nodes[p].type = "choice" => nodes[n + 1].chance = nodes[p].chance
      BY <3>1, <3>3, Parents
    <3>5. nodes[v].chance < v BY ChancesBefore
    <3>6. CASE nodes[p].type = "choice"
      <4>1. p # v /\ p \in 1 .. n BY <1>1, <3>2, <3>6
      <4>2. nodes[p].chance # nodes[v].chance BY <1>3, <3>2, <4>1
      <4> QED BY <2>1, <3>4, <3>6, <4>2
    <3>7. CASE nodes[p].type = "chance"
      <4>1. nodes[v].chance = p /\ nodes[v].chance \in Nat BY <2>1, <3>4, <3>7, NodesTyped
      <4> QED BY <1>1, <3>2, <3>5, <4>1
    <3>8. nodes[p].type \in {"choice", "chance", "leaf", "subgame"} BY <3>2, NodesTyped
    <3> QED BY <2>1, <3>4, <3>6, <3>7, <3>8
  <2>2. \A j \in 1 .. n + 1 : j \in 1 .. n \/ j = n + 1 OBVIOUS
  <2>3. n + 1 \in 0 .. Len(nodes) BY <1>1
  <2> QED BY <1>3, <2>1, <2>2, <2>3
<1> HIDE DEF S
<1>4. 0 .. Len(nodes) \subseteq S BY <1>1, <1>2, <1>3, Induction
<1>5. Len(nodes) \in S BY <1>1, <1>4
<1>6. \A j \in DOMAIN nodes : (In(v, j) /\ j # v) => nodes[j].chance # nodes[v].chance
  BY <1>1, <1>5 DEF S
<1> QED BY <1>6, KidSelf DEF Kids

(* What a chance node deals for. *)
LEMMA KidsDealt ==
  ASSUME Sound, NEW n \in DOMAIN nodes, nodes[n].type = "chance", NEW i \in DOMAIN nodes,
         nodes[i].chance = n, n + 1 \in DOMAIN nodes, nodes[n + 1].chance = n
  PROVE  i \in Kids(n + 1)
<1>1. DOMAIN nodes = 1 .. Len(nodes) /\ Len(nodes) \in Nat BY NodesTyped
<1> DEFINE S == {l \in 0 .. Len(nodes) : \A j \in 1 .. l : nodes[j].chance = n => In(n + 1, j)}
<1>2. 0 \in S BY <1>1
<1>3. ASSUME NEW l \in 0 .. Len(nodes) - 1, l \in S PROVE l + 1 \in S
  <2> DEFINE p == nodes[l + 1].parent
  <2>1. l + 1 \in DOMAIN nodes BY <1>1
  <2>2. ASSUME nodes[l + 1].chance = n PROVE In(n + 1, l + 1)
    <3>1. p \in 0 .. l /\ n # 0 BY <1>1, <2>1, NodesTyped
    <3>2. p # 0
      <4>1. Kin(nodes, nodes[l + 1]) BY <2>1 DEF Sound, LinksInv, FamilyTies
      <4> QED BY <2>2, <3>1, <4>1 DEF Kin
    <3>3. p \in 1 .. l /\ p \in DOMAIN nodes BY <1>1, <3>1, <3>2
    <3>4. /\ nodes[p].type # "leaf"
          /\ nodes[p].type = "subgame" => nodes[l + 1].chance = 0
          /\ nodes[p].type = "chance" => nodes[l + 1].chance = p
          /\ nodes[p].type = "choice" => nodes[l + 1].chance = nodes[p].chance
      BY <2>1, <3>2, Parents
    <3>5. CASE p = n
      <4>1. HasOne(nodes, p) BY <3>3, <3>5 DEF HasOne
      <4>2. l + 1 = p + 1 BY <2>1, <4>1 DEF Sound, LinksInv, FirstChildren
      <4> QED BY <1>1, <3>5, <4>2, InSelf
    <3>6. CASE nodes[p].type = "choice"
      <4>1. In(n + 1, p) BY <1>3, <2>2, <3>3, <3>4, <3>6
      <4> QED BY <2>1, <3>3, <4>1, InDown
    <3>7. nodes[p].type \in {"choice", "chance", "leaf", "subgame"} BY <3>3, NodesTyped
    <3> QED BY <2>2, <3>1, <3>4, <3>5, <3>6, <3>7
  <2>3. \A j \in 1 .. l + 1 : j \in 1 .. l \/ j = l + 1 OBVIOUS
  <2>4. l + 1 \in 0 .. Len(nodes) BY <1>1
  <2> QED BY <1>3, <2>2, <2>3, <2>4
<1> HIDE DEF S
<1>4. 0 .. Len(nodes) \subseteq S BY <1>1, <1>2, <1>3, Induction
<1>5. Len(nodes) \in S BY <1>1, <1>4
<1>6. In(n + 1, i) BY <1>1, <1>5 DEF S
<1> QED BY <1>6 DEF Kids

LEMMA ChanceTree ==
  ASSUME Sound, NEW i \in DOMAIN nodes, nodes[i].chance # 0
  PROVE  LET c == nodes[i].chance
         IN c \in DOMAIN nodes /\ nodes[c].type = "chance" /\ nodes[c].tree = nodes[i].tree
<1>1. DOMAIN nodes = 1 .. Len(nodes) /\ Len(nodes) \in Nat BY NodesTyped
<1> DEFINE Known(j) == LET c == nodes[j].chance
                       IN c # 0 => c \in DOMAIN nodes /\ nodes[c].type = "chance" /\ nodes[c].tree = nodes[j].tree
           S == {l \in 0 .. Len(nodes) : \A j \in 1 .. l : Known(j)}
<1>2. 0 \in S BY <1>1
<1>3. ASSUME NEW l \in 0 .. Len(nodes) - 1, l \in S PROVE l + 1 \in S
  <2> DEFINE p == nodes[l + 1].parent
  <2>1. l + 1 \in DOMAIN nodes BY <1>1
  <2>2. Known(l + 1)
    <3>1. p \in 0 .. l BY <1>1, <2>1, NodesTyped
    <3>2. CASE p = 0
      <4>1. Kin(nodes, nodes[l + 1]) BY <2>1 DEF Sound, LinksInv, FamilyTies
      <4> QED BY <3>2, <4>1 DEF Kin
    <3>3. CASE p # 0
      <4>1. p \in 1 .. l /\ p \in DOMAIN nodes BY <1>1, <3>1, <3>3
      <4>2. /\ nodes[p].type # "leaf"
            /\ nodes[p].type = "subgame" => nodes[l + 1].chance = 0
            /\ nodes[p].type = "chance" => nodes[l + 1].chance = p /\ nodes[l + 1].tree = nodes[p].tree
            /\ nodes[p].type = "choice" => /\ nodes[l + 1].chance = nodes[p].chance
                                           /\ nodes[l + 1].tree = nodes[p].tree
        BY <2>1, <3>3, Parents
      <4>3. Known(p) BY <1>3, <4>1
      <4>4. nodes[p].type \in {"choice", "chance", "leaf", "subgame"} BY <4>1, NodesTyped
      <4> QED BY <4>1, <4>2, <4>3, <4>4
    <3> QED BY <3>2, <3>3
  <2>3. \A j \in 1 .. l + 1 : j \in 1 .. l \/ j = l + 1 OBVIOUS
  <2>4. l + 1 \in 0 .. Len(nodes) BY <1>1
  <2> HIDE DEF Known, p
  <2> QED BY <1>3, <2>2, <2>3, <2>4
<1> HIDE DEF S
<1>4. 0 .. Len(nodes) \subseteq S BY <1>1, <1>2, <1>3, Induction
<1>5. Len(nodes) \in S BY <1>1, <1>4
<1>6. Known(i) BY <1>1, <1>5 DEF S
<1> QED BY <1>6

LEMMA Bounds ==
  ASSUME Standing
  PROVE  /\ storage.startRound \in Nat /\ storage.endRound \in Nat /\ game.numRounds \in Nat
         /\ storage.startRound < storage.endRound /\ storage.endRound <= game.numRounds
         /\ \A r \in storage.startRound .. storage.endRound - 1 : r \in Rounds /\ r \in Nat
<1>1. /\ storage.startRound \in Nat /\ storage.endRound \in Nat /\ storage.endRound <= game.numRounds
      /\ game.numRounds \in Nat /\ storage.startRound < storage.endRound
  BY NodesTyped DEF Standing, StorageBegun, StorageType, RoundsOf
<1> QED BY <1>1 DEF Rounds, RoundsOf

-----------------------------------------------------------------------------
(* Paths                                                                   *)

(* A path leads through chance nodes and a board of each to another node:  *)
(* x[k] has the chance node of round k and its board, x[m] the node alone. *)
Start == storage.startRound
Depths == Start .. storage.endRound
Under(x, k) == IF k = Start THEN 0 ELSE x[k - 1][2]
Follow(b, k) == FirstBoard(k, b) .. EndBoard(k, b) - 1

Leading(x, k) == /\ nodes[x[k][1]].type = "chance" /\ nodes[x[k + 1][1]].chance = x[k][1]
                 /\ x[k][2] \in Follow(Under(x, k), k)

Paths(m) ==
  {x \in [Start .. m -> (DOMAIN nodes) \X Int] :
     /\ x[Start][1] = Root /\ x[m][2] = -1
     /\ \A k \in Start .. m - 1 : Leading(x, k)}

(* The walk comes to one path after another.                               *)
Less(a, b) == a[1] < b[1] \/ (a[1] = b[1] /\ a[2] < b[2])
Sooner(x, y, m) == \E k \in Start .. m : Less(x[k], y[k]) /\ \A j \in Start .. k - 1 : x[j] = y[j]

LEMMA PairIs ==
  ASSUME NEW A, NEW B, NEW z \in A \X B PROVE z = <<z[1], z[2]>>
OBVIOUS

LEMMA PathTyped ==
  ASSUME Standing, NEW m \in Depths, NEW x \in Paths(m), NEW k \in Start .. m
  PROVE  /\ Start \in Nat /\ m \in Nat /\ k \in Nat /\ x[k] \in (DOMAIN nodes) \X Int
         /\ x[k][1] \in DOMAIN nodes /\ x[k][1] \in Nat /\ x[k][2] \in Int /\ x[k] = <<x[k][1], x[k][2]>>
<1>1. Start \in Nat /\ storage.endRound \in Nat BY Bounds DEF Start
<1>2. m \in Nat /\ k \in Nat BY <1>1 DEF Depths
<1>3. x[k] \in (DOMAIN nodes) \X Int BY DEF Paths
<1>4. DOMAIN nodes = 1 .. Len(nodes) /\ Len(nodes) \in Nat BY NodesTyped DEF Standing
<1> DEFINE z == x[k]
           D == DOMAIN nodes
<1>5. z \in D \X Int /\ D \subseteq Nat BY <1>3, <1>4
<1> HIDE DEF z, D
<1>50. z[1] \in D BY <1>5
<1>51. z[2] \in Int BY <1>5
<1>52. z = <<z[1], z[2]>> BY <1>5, PairIs
<1>6. z[1] \in D /\ z[1] \in Nat /\ z[2] \in Int /\ z = <<z[1], z[2]>> BY <1>5, <1>50, <1>51, <1>52
<1> QED BY <1>1, <1>2, <1>5, <1>6 DEF z, D

LEMMA SoonerStrict ==
  ASSUME Standing, NEW m \in Depths, NEW x \in Paths(m), NEW y \in Paths(m), Sooner(x, y, m)
  PROVE  ~Sooner(y, x, m) /\ x # y
<1>1. PICK k \in Start .. m : Less(x[k], y[k]) /\ \A j \in Start .. k - 1 : x[j] = y[j]
  BY DEF Sooner
<1>2. \A j \in Start .. m : /\ x[j][1] \in Int /\ y[j][1] \in Int /\ x[j][2] \in Int /\ y[j][2] \in Int
                            /\ j \in Nat
  BY PathTyped
<1>3. Start \in Nat /\ m \in Nat BY <1>1, PathTyped
<1>4. \A j \in Start .. m : ~(Less(x[j], y[j]) /\ (Less(y[j], x[j]) \/ x[j] = y[j]))
  BY <1>2 DEF Less
<1>5. ASSUME Sooner(y, x, m) PROVE FALSE
  <2>1. PICK l \in Start .. m : Less(y[l], x[l]) /\ \A j \in Start .. l - 1 : y[j] = x[j]
    BY <1>5 DEF Sooner
  <2>2. k \in Nat /\ l \in Nat BY <1>2
  <2>3. CASE k = l BY <1>1, <1>4, <2>1, <2>3
  <2>4. CASE k < l
    <3>1. k \in Start .. l - 1 BY <1>3, <2>2, <2>4
    <3> QED BY <1>1, <1>4, <2>1, <3>1
  <2>5. CASE l < k
    <3>1. l \in Start .. k - 1 BY <1>3, <2>2, <2>5
    <3>2. x[l] = y[l] BY <1>1, <3>1
    <3> QED BY <1>2, <2>1, <3>2 DEF Less
  <2> QED BY <2>2, <2>3, <2>4, <2>5
<1>6. x # y BY <1>1, <1>4
<1> QED BY <1>5, <1>6

(* The nodes of a path are known from any one of them. *)
LEMMA SameNodes ==
  ASSUME Standing, NEW m \in Depths, NEW x \in Paths(m), NEW y \in Paths(m), NEW k \in Start .. m,
         x[k][1] = y[k][1]
  PROVE  \A j \in Start .. k : x[j][1] = y[j][1]
<1>1. Start \in Nat /\ m \in Nat /\ k \in Nat BY PathTyped
<1> DEFINE S == {d \in 0 .. k - Start : x[k - d][1] = y[k - d][1]}
<1>2. 0 \in S BY <1>1
<1>3. ASSUME NEW d \in 0 .. (k - Start) - 1, d \in S PROVE d + 1 \in S
  <2> DEFINE j == k - (d + 1)
  <2>1. j \in Start .. m - 1 /\ j + 1 = k - d /\ d + 1 \in 0 .. k - Start BY <1>1
  <2> HIDE DEF j
  <2>2. x[j + 1][1] = y[j + 1][1] BY <1>3, <2>1
  <2>3. nodes[x[j + 1][1]].chance = x[j][1] /\ nodes[y[j + 1][1]].chance = y[j][1]
    BY <2>1 DEF Paths, Leading
  <2>4. x[j][1] = y[j][1] BY <2>2, <2>3
  <2> QED BY <2>1, <2>4 DEF j
<1> HIDE DEF S
<1>4. k - Start \in Nat BY <1>1
<1>5. 0 .. k - Start \subseteq S BY <1>2, <1>3, <1>4, Induction
<1> SUFFICES ASSUME NEW j \in Start .. k PROVE x[j][1] = y[j][1] OBVIOUS
<1>6. k - j \in 0 .. k - Start /\ k - (k - j) = j BY <1>1
<1>7. k - j \in S BY <1>5, <1>6
<1> QED BY <1>6, <1>7 DEF S

(* The rounds along a path. *)
LEMMA PathRounds ==
  ASSUME Standing, NEW m \in Depths, NEW x \in Paths(m)
  PROVE  \A k \in Start .. m :
           /\ nodes[x[k][1]].tree = storage.tree /\ Level(x[k][1]) = k - 1
           /\ nodes[x[k][1]].type = "chance" => nodes[x[k][1]].round = k
           /\ nodes[x[k][1]].chance = IF k = Start THEN 0 ELSE x[k - 1][1]
<1>1. Start \in Nat /\ m \in Nat /\ Start <= m
  BY Bounds DEF Depths, Start
<1> DEFINE Fact(k) == /\ nodes[x[k][1]].tree = storage.tree /\ Level(x[k][1]) = k - 1
                      /\ nodes[x[k][1]].type = "chance" => nodes[x[k][1]].round = k
                      /\ nodes[x[k][1]].chance = IF k = Start THEN 0 ELSE x[k - 1][1]
           S == {d \in 0 .. m - Start : Fact(Start + d)}
<1>2. Fact(Start)
  <2>1. x[Start][1] = Root BY DEF Paths
  <2>2. Root \in DOMAIN nodes /\ nodes[Root].tree = storage.tree /\ nodes[Root].chance = 0 BY RootFacts
  <2>3. nodes[Root].type = "chance" => nodes[Root].round = storage.startRound BY <2>2, ChanceRounds
  <2> QED BY <2>1, <2>2, <2>3 DEF Level, Start
<1>3. 0 \in S
  <2> HIDE DEF Fact
  <2> QED BY <1>1, <1>2
<1>4. ASSUME NEW d \in 0 .. (m - Start) - 1, d \in S PROVE d + 1 \in S
  <2> DEFINE k == Start + d
             u == x[k][1]
             v == x[k + 1][1]
  <2>1. k \in Start .. m - 1 /\ k + 1 \in Start .. m /\ k + 1 # Start /\ (k + 1) - 1 = k
        /\ Start + (d + 1) = k + 1 /\ d + 1 \in 0 .. m - Start /\ k \in Nat /\ k \in Start .. m
    BY <1>1
  <2>2. Fact(k) BY <1>4
  <2> HIDE DEF k
  <2>3. nodes[u].type = "chance" /\ nodes[v].chance = u BY <2>1 DEF Paths, Leading
  <2>4. u \in DOMAIN nodes /\ v \in DOMAIN nodes /\ u # 0
    <3>1. u \in DOMAIN nodes /\ v \in DOMAIN nodes BY <2>1, PathTyped
    <3> QED BY <3>1, NodesTyped DEF Standing
  <2>5. nodes[v].tree = storage.tree
    <3>1. Sound BY DEF Standing
    <3> QED BY <2>2, <2>3, <2>4, <3>1, ChanceTree
  <2>6. nodes[u].round = k BY <2>2, <2>3
  <2>7. Level(v) = k BY <2>3, <2>4, <2>6 DEF Level
  <2>8. nodes[v].type = "chance" => nodes[v].round = k + 1
    BY <2>3, <2>4, <2>5, <2>6, ChanceRounds
  <2>9. Fact(k + 1) BY <2>1, <2>3, <2>5, <2>7, <2>8
  <2> HIDE DEF Fact
  <2> QED BY <2>1, <2>9
<1> HIDE DEF S, Fact
<1>5. m - Start \in Nat BY <1>1
<1>6. 0 .. m - Start \subseteq S BY <1>3, <1>4, <1>5, Induction
<1>7. ASSUME NEW k \in Start .. m PROVE Fact(k)
  <2>1. k - Start \in 0 .. m - Start /\ Start + (k - Start) = k BY <1>1
  <2>2. k - Start \in S BY <1>6, <2>1
  <2> QED BY <2>1, <2>2 DEF S
<1> QED BY <1>7 DEF Fact

(* The order of Ascending. *)
LEMMA AscendingOrder ==
  ASSUME NEW S \in SUBSET Int, IsFiniteSet(S)
  PROVE  /\ \A j, k \in DOMAIN Ascending(S) : j < k => Ascending(S)[j] < Ascending(S)[k]
         /\ \A x \in S : \E k \in DOMAIN Ascending(S) : Ascending(S)[k] = x
<1> DEFINE below(x) == {d \in S : d < x}
           A == Ascending(S)
<1>1. /\ DOMAIN A = 1 .. Cardinality(S) /\ Cardinality(S) \in Nat
      /\ \A k \in DOMAIN A : A[k] \in S
  BY AscendingFacts, FS_CardinalityType
<1>2. ASSUME NEW x \in S
      PROVE  IsFiniteSet(below(x)) /\ Cardinality(below(x)) \in 0 .. Cardinality(S) - 1
  <2>1. below(x) \in SUBSET S /\ x \notin below(x) OBVIOUS
  <2>2. /\ IsFiniteSet(below(x)) /\ Cardinality(below(x)) <= Cardinality(S)
        /\ Cardinality(S) = Cardinality(below(x)) => S = below(x)
    BY <2>1, FS_Subset
  <2>3. Cardinality(below(x)) \in Nat BY <2>2, FS_CardinalityType
  <2> QED BY <1>1, <2>1, <2>2, <2>3
<1>3. ASSUME NEW x \in S, NEW y \in S, x < y PROVE Cardinality(below(x)) < Cardinality(below(y))
  <2>0. x \in Int /\ y \in Int /\ \A d \in S : d \in Int OBVIOUS
  <2>01. ASSUME NEW d \in S, d < x PROVE d < y
    <3>1. d \in Int BY <2>0
    <3> QED BY <1>3, <2>0, <2>01, <3>1
  <2>02. ~(x < x) BY <2>0
  <2>1. below(x) \in SUBSET below(y) /\ x \in below(y) /\ x \notin below(x) BY <1>3, <2>01, <2>02
  <2>2. IsFiniteSet(below(y)) BY <1>2
  <2>3. /\ Cardinality(below(x)) <= Cardinality(below(y))
        /\ Cardinality(below(y)) = Cardinality(below(x)) => below(y) = below(x)
    BY <2>1, <2>2, FS_Subset
  <2>4. Cardinality(below(x)) \in Int /\ Cardinality(below(y)) \in Int BY <1>2
  <2> QED BY <2>1, <2>3, <2>4
<1>4. ASSUME NEW k \in 1 .. Cardinality(S) PROVE Cardinality(below(A[k])) = k - 1
  <2> DEFINE R == {z \in S \X S : z[1] < z[2]}
  <2>1. Orders(R, S) BY DEF Orders
  <2>2. \A x \in S : BeforeIn(R, S, x) = below(x) BY DEF BeforeIn
  <2> HIDE DEF R
  <2>3. \E x \in S : Cardinality(BeforeIn(R, S, x)) = k - 1 BY <2>1, Ranks
  <2>4. \E x \in S : Cardinality({d \in S : d < x}) = k - 1 BY <2>2, <2>3
  <2>5. A[k] = CHOOSE c \in S : Cardinality({d \in S : d < c}) = k - 1 BY DEF Ascending
  <2> HIDE DEF A
  <2>6. Cardinality({d \in S : d < A[k]}) = k - 1 BY <2>4, <2>5
  <2> QED BY <2>6
<1> HIDE DEF A
<1>5. ASSUME NEW j \in DOMAIN A, NEW k \in DOMAIN A, j < k PROVE A[j] < A[k]
  <2>1. A[j] \in S /\ A[k] \in S /\ Cardinality(below(A[j])) = j - 1 /\ Cardinality(below(A[k])) = k - 1
    BY <1>1, <1>4
  <2> DEFINE card(x) == Cardinality(below(x))
  <2>20. card(A[j]) = j - 1 /\ card(A[k]) = k - 1 /\ j \in Int /\ k \in Int BY <1>1, <2>1
  <2> HIDE DEF card
  <2>2. A[j] # A[k] BY <1>5, <2>20
  <2>3. ~(A[k] < A[j])
    <3>1. A[k] < A[j] => Cardinality(below(A[k])) < Cardinality(below(A[j])) BY <1>3, <2>1
    <3> QED BY <1>1, <1>5, <2>1, <3>1
  <2>4. A[j] \in Int /\ A[k] \in Int BY <2>1
  <2> QED BY <2>2, <2>3, <2>4
<1>6. ASSUME NEW x \in S PROVE \E k \in DOMAIN A : A[k] = x
  <2> DEFINE k == Cardinality(below(x)) + 1
  <2>10. Cardinality(below(x)) \in 0 .. Cardinality(S) - 1 BY <1>2
  <2> HIDE DEF below
  <2>1. k \in 1 .. Cardinality(S) /\ k - 1 = Cardinality(below(x)) BY <1>1, <2>10
  <2> HIDE DEF k
  <2>2. A[k] \in S /\ Cardinality(below(A[k])) = Cardinality(below(x)) BY <1>1, <1>4, <2>1
  <2>3. ~(A[k] < x) /\ ~(x < A[k])
    <3> DEFINE card(y) == Cardinality(below(y))
    <3>1. card(x) \in Int /\ card(A[k]) = card(x) BY <2>2, <2>10
    <3>2. \A y, z \in S : y < z => card(y) < card(z) BY <1>3
    <3> HIDE DEF card
    <3>3. A[k] < x => card(A[k]) < card(x) BY <2>2, <3>2
    <3>4. x < A[k] => card(x) < card(A[k]) BY <2>2, <3>2
    <3> QED BY <3>1, <3>3, <3>4
  <2>30. x \in Int /\ A[k] \in Int BY <2>2
  <2>4. A[k] = x BY <2>3, <2>30
  <2> QED BY <1>1, <2>1, <2>4
<1> QED BY <1>5, <1>6 DEF A

-----------------------------------------------------------------------------
(* What a walk is still to come to                                         *)

(* A walk is about the chance nodes it comes to; when reordering, about    *)
(* the choices as well.                                                    *)
Wanted(i) == nodes[i].type = "chance" \/ (nodes[i].type = "choice" /\ job.type = "reorder")
Spots(m)  == {x \in Paths(m) : Wanted(x[m][1])}

Agrees(x, bi, q) == \A k \in Start .. q : x[k][2] = bi[k]

VisitSpots(v, bi, m) ==
  {x \in Spots(m) : Level(v) < m /\ Agrees(x, bi, Level(v)) /\ x[Level(v) + 1][1] \in Kids(v)}

BoardSpots(n, bi, m) ==
  LET r == nodes[n].round
  IN {x \in Spots(m) : r < m /\ Agrees(x, bi, r - 1) /\ x[r][1] = n /\ x[r][2] > bi[r]}

Ahead(e, bi, m) == IF e.kind = "visit" THEN VisitSpots(e.node, bi, m) ELSE BoardSpots(e.node, bi, m)

Pending(st, bi, m) == UNION {Ahead(st[k], bi, m) : k \in DOMAIN st}

(* What is further down on the stack comes later. *)
InTurn(st, bi, m) ==
  \A j, k \in DOMAIN st : j < k =>
    \A x \in Ahead(st[j], bi, m), y \in Ahead(st[k], bi, m) : Sooner(x, y, m)

(* What is ahead of e is the paths in D and then what is ahead of `new`.   *)
Passes(e, new, bi, bi2, D, m) ==
  /\ Ahead(e, bi, m) = D \cup Pending(new, bi2, m)
  /\ InTurn(new, bi2, m)
  /\ \A x \in D, y \in Pending(new, bi2, m) : Sooner(x, y, m)

LEMMA AheadArePaths ==
  ASSUME NEW e, NEW bi, NEW m PROVE Ahead(e, bi, m) \subseteq Spots(m) /\ Spots(m) \subseteq Paths(m)
BY DEF Ahead, VisitSpots, BoardSpots, Spots

LEMMA StepAhead ==
  ASSUME Standing, NEW m \in Depths, NEW td, NEW new, NEW td2, Stacked(td, new, td2), NEW bi, NEW bi2,
         NEW D, InTurn(td, bi, m), Passes(td[1], new, bi, bi2, D, m),
         \A k \in 2 .. Len(td) : Ahead(td[k], bi2, m) = Ahead(td[k], bi, m)
  PROVE  /\ InTurn(td2, bi2, m) /\ Pending(td2, bi2, m) = Pending(td, bi, m) \ D
         /\ D \subseteq Pending(td, bi, m) /\ \A x \in D, y \in Pending(td2, bi2, m) : Sooner(x, y, m)
<1> DEFINE A(k)  == Ahead(td[k], bi, m)
           N(k)  == Ahead(new[k], bi2, m)
           A2(k) == Ahead(td2[k], bi2, m)
           P     == Paths(m)
<1>1. /\ Len(td) \in Nat \ {0} /\ Len(new) \in Nat
      /\ DOMAIN td = 1 .. Len(td) /\ DOMAIN new = 1 .. Len(new)
      /\ DOMAIN td2 = 1 .. Len(new) + Len(td) - 1
      /\ \A i \in 1 .. Len(new) : td2[i] = new[i]
      /\ \A k \in 2 .. Len(td) : td2[Len(new) + k - 1] = td[k]
  BY DEF Stacked
<1>2. /\ \A k \in DOMAIN new : N(k) \subseteq A(1)
      /\ A(1) = D \cup UNION {N(k) : k \in DOMAIN new} /\ D \subseteq A(1)
      /\ \A j, k \in DOMAIN new : j < k => \A x \in N(j), y \in N(k) : Sooner(x, y, m)
      /\ \A x \in D : \A k \in DOMAIN new : \A y \in N(k) : Sooner(x, y, m)
  BY DEF Passes, Pending, InTurn
<1>3. \A k \in DOMAIN td : A(k) \subseteq P BY AheadArePaths
<1>4. \A j, k \in DOMAIN td : j < k => \A x \in A(j), y \in A(k) : Sooner(x, y, m) BY DEF InTurn
<1>5. \A x \in P, y \in P : Sooner(x, y, m) => x # y BY SoonerStrict
<1>6. \A i \in DOMAIN new : A2(i) = N(i) /\ i \in DOMAIN td2 BY <1>1
<1>7. ASSUME NEW k \in 2 .. Len(td)
      PROVE  A2(Len(new) + k - 1) = A(k) /\ Len(new) + k - 1 \in DOMAIN td2
  <2>1. Len(new) + k - 1 \in DOMAIN td2 BY <1>1
  <2> QED BY <1>1, <2>1
<1>8. ASSUME NEW i \in DOMAIN td2
      PROVE  \/ i \in DOMAIN new /\ A2(i) = N(i)
             \/ \E k \in 2 .. Len(td) : i = Len(new) + k - 1 /\ A2(i) = A(k)
  <2>1. CASE i <= Len(new) BY <1>1, <1>6, <2>1
  <2>2. CASE ~(i <= Len(new))
    <3> DEFINE k == i - Len(new) + 1
    <3>1. k \in 2 .. Len(td) /\ i = Len(new) + k - 1 BY <1>1, <2>2
    <3> QED BY <1>7, <3>1
  <2> QED BY <2>1, <2>2
<1> HIDE DEF A, N, A2, P
<1>9. \A k \in 2 .. Len(td) : 1 \in DOMAIN td /\ k \in DOMAIN td /\ 1 < k BY <1>1
<1>10. ASSUME NEW i \in DOMAIN td2, NEW j \in DOMAIN td2, i < j, NEW x \in A2(i), NEW y \in A2(j)
       PROVE  Sooner(x, y, m)
  <2>1. CASE i \in DOMAIN new /\ A2(i) = N(i)
    <3>1. CASE j \in DOMAIN new /\ A2(j) = N(j) BY <1>2, <1>10, <2>1, <3>1
    <3>2. ASSUME NEW k \in 2 .. Len(td), A2(j) = A(k) PROVE Sooner(x, y, m)
      BY <1>2, <1>4, <1>9, <2>1, <3>2
    <3> QED BY <1>8, <3>1, <3>2
  <2>2. ASSUME NEW l \in 2 .. Len(td), i = Len(new) + l - 1, A2(i) = A(l) PROVE Sooner(x, y, m)
    <3>1. ~(j \in DOMAIN new) BY <1>1, <1>10, <2>2
    <3>2. PICK k \in 2 .. Len(td) : j = Len(new) + k - 1 /\ A2(j) = A(k) BY <1>8, <3>1
    <3>3. l < k BY <1>1, <1>10, <2>2, <3>2
    <3> QED BY <1>4, <1>9, <2>2, <3>2, <3>3
  <2> QED BY <1>8, <2>1, <2>2
<1>11. InTurn(td2, bi2, m) BY <1>10 DEF InTurn, A2
<1>12. Pending(td2, bi2, m) = UNION {A2(i) : i \in DOMAIN td2} BY DEF Pending, A2
<1>13. Pending(td, bi, m) = UNION {A(k) : k \in DOMAIN td} BY DEF Pending, A
<1>14. 1 \in DOMAIN td /\ \A k \in DOMAIN td : k = 1 \/ k \in 2 .. Len(td) BY <1>1
<1>15. D \subseteq Pending(td, bi, m) BY <1>2, <1>13, <1>14
<1>16. ASSUME NEW y \in Pending(td2, bi2, m)
       PROVE  y \in Pending(td, bi, m) /\ \A x \in D : Sooner(x, y, m)
  <2>1. PICK i \in DOMAIN td2 : y \in A2(i) BY <1>12
  <2>2. CASE i \in DOMAIN new /\ A2(i) = N(i) BY <1>2, <1>13, <1>14, <2>1, <2>2
  <2>3. ASSUME NEW k \in 2 .. Len(td), A2(i) = A(k)
        PROVE  y \in Pending(td, bi, m) /\ \A x \in D : Sooner(x, y, m)
    BY <1>2, <1>4, <1>9, <1>13, <2>1, <2>3
  <2> QED BY <1>8, <2>1, <2>2, <2>3
<1>17. ASSUME NEW y \in Pending(td, bi, m), y \notin D PROVE y \in Pending(td2, bi2, m)
  <2>1. PICK k \in DOMAIN td : y \in A(k) BY <1>13
  <2>2. CASE k = 1
    <3>1. PICK i \in DOMAIN new : y \in N(i) BY <1>2, <1>17, <2>1, <2>2
    <3> QED BY <1>6, <1>12, <3>1
  <2>3. CASE k \in 2 .. Len(td)
    <3>1. y \in A2(Len(new) + k - 1) /\ Len(new) + k - 1 \in DOMAIN td2 BY <1>7, <2>1, <2>3 DEF A, A2
    <3> QED BY <1>12, <3>1
  <2> QED BY <1>14, <2>1, <2>2, <2>3
<1>18. \A x \in D : x \notin Pending(td2, bi2, m)
  <2>1. \A x \in D : x \in P BY <1>2, <1>3, <1>14
  <2> QED BY <1>5, <1>16, <2>1
<1>19. Pending(td2, bi2, m) = Pending(td, bi, m) \ D BY <1>16, <1>17, <1>18
<1> QED BY <1>11, <1>15, <1>16, <1>19

-----------------------------------------------------------------------------
(* What each step leaves                                                   *)

(* Two paths that are at the same chance node part there.                  *)
LEMMA TurnAt ==
  ASSUME Standing, NEW m \in Depths, NEW x \in Paths(m), NEW y \in Paths(m), NEW k \in Start .. m, NEW bi,
         nodes[x[k][1]].chance = nodes[y[k][1]].chance, Agrees(x, bi, k - 1), Agrees(y, bi, k - 1)
  PROVE  /\ \A j \in Start .. k - 1 : x[j] = y[j]
         /\ Less(x[k], y[k]) => Sooner(x, y, m)
<1>1. Start \in Nat /\ m \in Nat /\ k \in Nat BY PathTyped
<1>2. ASSUME NEW j \in Start .. k - 1 PROVE x[j] = y[j]
  <2>1. k # Start /\ k - 1 \in Start .. m /\ j \in Start .. m BY <1>1
  <2>2. nodes[x[k][1]].chance = x[k - 1][1] /\ nodes[y[k][1]].chance = y[k - 1][1] BY <2>1, PathRounds
  <2>3. x[k - 1][1] = y[k - 1][1] BY <2>2
  <2>4. x[j][1] = y[j][1] BY <2>1, <2>3, SameNodes
  <2>5. x[j][2] = y[j][2] BY DEF Agrees
  <2>6. x[j] = <<x[j][1], x[j][2]>> /\ y[j] = <<y[j][1], y[j][2]>> BY <2>1, PathTyped
  <2> QED BY <2>4, <2>5, <2>6
<1> QED BY <1>2 DEF Sooner

(* Only the root has no chance node above it. *)
LEMMA RootOnly ==
  ASSUME Standing, NEW i \in DOMAIN nodes, nodes[i].tree = storage.tree, nodes[i].chance = 0
  PROVE  i = Root /\ nodes[i].type = "chance"
<1> DEFINE p == nodes[i].parent
<1>1. Sound BY DEF Standing
<1>2. /\ Placed(nodes, i) /\ Kin(nodes, nodes[i]) BY <1>1 DEF Sound, LinksInv, FamilyTies
<1>3. CASE p = 0
  <2>1. i = 1 /\ nodes[i].type = "chance" /\ storage.tree = 0 BY <1>2, <1>3 DEF Placed, Kin
  <2> QED BY <2>1 DEF Root
<1>4. CASE p # 0
  <2>1. /\ p \in DOMAIN nodes /\ nodes[p].type # "leaf"
        /\ nodes[p].type = "subgame" => /\ nodes[i].tree = nodes[p].u.index + 1
                                        /\ nodes[i].type = "chance"
        /\ nodes[p].type = "chance" => nodes[i].chance = p
        /\ nodes[p].type = "choice" => nodes[i].chance = nodes[p].chance
    BY <1>1, <1>4, Parents
  <2>2. nodes[p].type = "subgame"
    <3>1. nodes[p].type \in {"choice", "chance", "leaf", "subgame"} BY <1>1, <2>1, NodesTyped
    <3>2. nodes[p].type = "choice" => nodes[p].chance # 0 BY <1>1, <2>1, ChoiceChance
    <3> QED BY <1>4, <2>1, <3>1, <3>2
  <2>3. \A j \in SubgameNodes : /\ nodes[j].u.index \in Nat
                                /\ nodes[j].u.index = nodes[p].u.index => j = p
    BY <1>1, <2>1, <2>2 DEF Sound, LinksInv, OwnTrees, SubgameNodes
  <2>4. p \in SubgameNodes BY <2>1, <2>2 DEF SubgameNodes
  <2>5. storage.tree # 0 /\ storage.tree - 1 = nodes[p].u.index BY <2>1, <2>2, <2>3, <2>4
  <2>6. (CHOOSE j \in SubgameNodes : nodes[j].u.index = storage.tree - 1) = p BY <2>3, <2>4, <2>5
  <2>7. Root = Children(p)[1] BY <2>5, <2>6 DEF Root
  <2>8. Children(p)[1] = p + 1 BY <2>1, <2>2, ChanceChild
  <2>9. HasOne(nodes, p) BY <2>1, <2>2 DEF HasOne
  <2>10. i = p + 1 BY <1>1, <2>9 DEF Sound, LinksInv, FirstChildren
  <2> QED BY <2>1, <2>2, <2>7, <2>8, <2>10
<1> QED BY <1>3, <1>4

LEMMA LevelRange ==
  ASSUME Standing, NEW v \in DOMAIN nodes, nodes[v].tree = storage.tree
  PROVE  Level(v) \in Start - 1 .. storage.endRound - 1 /\ Level(v) \in Int
<1>1. Start \in Nat /\ storage.endRound \in Nat /\ Start < storage.endRound BY Bounds DEF Start
<1>2. CASE nodes[v].chance = 0 BY <1>1, <1>2 DEF Level, Start
<1>3. CASE nodes[v].chance # 0
  <2> DEFINE c == nodes[v].chance
  <2>1. c \in DOMAIN nodes /\ nodes[c].type = "chance" /\ nodes[c].tree = storage.tree
    BY <1>3, ChanceTree DEF Standing
  <2>2. nodes[c].round \in Start .. storage.endRound - 1 BY <2>1, ChanceRounds DEF Start
  <2> QED BY <1>1, <1>3, <2>2 DEF Level
<1> QED BY <1>2, <1>3

(* A path that visits a node other than a choice goes through it.          *)
LEMMA VisitAlone ==
  ASSUME Standing, NEW v \in DOMAIN nodes, nodes[v].tree = storage.tree, nodes[v].type # "choice",
         NEW m \in Depths, NEW bi
  PROVE  VisitSpots(v, bi, m) =
           {x \in Spots(m) : Level(v) < m /\ Agrees(x, bi, Level(v)) /\ x[Level(v) + 1][1] = v}
<1>1. CASE nodes[v].chance # 0
  <2>1. Kids(v) = {v} BY <1>1, KidsAlone DEF Standing
  <2> QED BY <2>1 DEF VisitSpots
<1>2. CASE nodes[v].chance = 0
  <2>1. v = Root BY <1>2, RootOnly
  <2>2. Start \in Nat BY Bounds DEF Start
  <2>3. Level(v) + 1 = Start BY <1>2, <2>2 DEF Level, Start
  <2>4. v \in Kids(v) BY KidSelf DEF Standing
  <2>5. \A x \in Spots(m) : x[Level(v) + 1][1] = v BY <2>1, <2>3 DEF Spots, Paths
  <2> HIDE DEF Spots
  <2> QED BY <2>4, <2>5 DEF VisitSpots
<1> QED BY <1>1, <1>2

LEMMA NothingUnder ==
  ASSUME Standing, NEW v \in DOMAIN nodes, nodes[v].tree = storage.tree,
         nodes[v].type \in {"leaf", "subgame"}, NEW m \in Depths, NEW bi
  PROVE  VisitSpots(v, bi, m) = {}
<1>1. SUFFICES ASSUME NEW x \in VisitSpots(v, bi, m) PROVE FALSE OBVIOUS
<1> DEFINE q == Level(v) + 1
<1>2. nodes[v].type # "choice" /\ nodes[v].type # "chance" OBVIOUS
<1>3. x \in Spots(m) /\ Level(v) < m /\ x[q][1] = v BY <1>2, VisitAlone
<1>4. x \in Paths(m) /\ Wanted(x[m][1]) BY <1>3 DEF Spots
<1>5. Start \in Nat /\ m \in Nat BY Bounds DEF Start, Depths
<1>6. q \in Start .. m BY <1>3, <1>5, LevelRange
<1> HIDE DEF q
<1>7. CASE q = m BY <1>2, <1>3, <1>4, <1>7 DEF Wanted
<1>8. CASE q # m
  <2>1. q \in Start .. m - 1 BY <1>5, <1>6, <1>8
  <2>2. Leading(x, q) BY <1>4, <2>1 DEF Paths
  <2> QED BY <1>2, <1>3, <2>2 DEF Leading
<1> QED BY <1>7, <1>8

(* No chance node is behind the last round. *)
LEMMA NoneBehind ==
  ASSUME Standing, NEW m \in Depths, job.type = "cfr", m > game.numRounds - 1
  PROVE  Spots(m) = {}
<1>1. SUFFICES ASSUME NEW x \in Spots(m) PROVE FALSE OBVIOUS
<1>2. x \in Paths(m) /\ Wanted(x[m][1]) BY DEF Spots
<1>3. nodes[x[m][1]].type = "chance" BY <1>2 DEF Wanted
<1>4. Start \in Nat /\ m \in Nat /\ m \in Start .. m BY Bounds DEF Start, Depths
<1>5. /\ x[m][1] \in DOMAIN nodes /\ nodes[x[m][1]].tree = storage.tree /\ nodes[x[m][1]].round = m
  BY <1>2, <1>3, <1>4, PathTyped, PathRounds
<1>6. m \in storage.startRound .. storage.endRound - 1 BY <1>3, <1>5, ChanceRounds
<1> QED BY <1>4, <1>6, Bounds

(* What is dealt: the first visit, or nothing where the last round is cut. *)
LEMMA DealCases ==
  ASSUME Standing, NEW n \in DOMAIN nodes, nodes[n].type = "chance", NEW x \in BOOLEAN,
         NEW deal \in Deal(n, x)
  PROVE  \/ deal = <<>> /\ job.type = "cfr" /\ nodes[n].round = game.numRounds - 1
         \/ \E y \in BOOLEAN : deal = <<VisitNode(n + 1, y)>>
<1>1. Children(n)[1] = n + 1 BY ChanceChild
<1>2. PICK y \in BOOLEAN : deal = IF Cut(nodes[n].round, y) THEN <<>> ELSE <<VisitNode(n + 1, y)>>
  BY <1>1 DEF Deal
<1> QED BY <1>2 DEF Cut

BoardsFrom(n, bi, m, b) ==
  LET r == nodes[n].round
  IN {x \in Spots(m) : r < m /\ Agrees(x, bi, r - 1) /\ x[r][1] = n /\ x[r][2] >= b}

(* The paths through n with the board that is tried, and behind it those   *)
(* with the boards that follow.                                            *)
LEMMA DealtAhead ==
  ASSUME Standing, NEW n \in DOMAIN nodes, nodes[n].type = "chance", nodes[n].tree = storage.tree,
         NEW reach \in BOOLEAN, NEW deal \in Deal(n, reach), NEW frame, frame.kind = "boards", frame.node = n,
         NEW m \in Depths, NEW bi, bi[nodes[n].round] \in Int
  PROVE  /\ Pending(deal \o <<frame>>, bi, m) = BoardsFrom(n, bi, m, bi[nodes[n].round])
         /\ InTurn(deal \o <<frame>>, bi, m)
<1> DEFINE r   == nodes[n].round
           new == deal \o <<frame>>
<1>1. Start \in Nat /\ m \in Nat /\ r \in Nat /\ Start <= r
  <2>1. r \in storage.startRound .. storage.endRound - 1 BY ChanceRounds
  <2> QED BY <2>1, Bounds DEF Start, Depths
<1>2. Ahead(frame, bi, m) = BoardSpots(n, bi, m) BY DEF Ahead
<1>3. CASE deal = <<>>
  <2>1. new = <<frame>> /\ DOMAIN <<frame>> = {1} BY <1>3
  <2>2. r = game.numRounds - 1 /\ job.type = "cfr"
    <3>1. ~(\E y \in BOOLEAN : <<>> = <<VisitNode(n + 1, y)>>) OBVIOUS
    <3> QED BY <1>3, <3>1, DealCases
  <2>3. r < m => Spots(m) = {} BY <1>1, <2>2, NoneBehind
  <2>4. BoardSpots(n, bi, m) = {} /\ BoardsFrom(n, bi, m, bi[r]) = {}
    BY <2>3 DEF BoardSpots, BoardsFrom
  <2>5. InTurn(<<frame>>, bi, m) BY DEF InTurn
  <2>6. Pending(<<frame>>, bi, m) = {} BY <1>2, <2>1, <2>4 DEF Pending
  <2> QED BY <2>1, <2>4, <2>5, <2>6
<1>4. ASSUME NEW y \in BOOLEAN, deal = <<VisitNode(n + 1, y)>>
      PROVE  Pending(new, bi, m) = BoardsFrom(n, bi, m, bi[r]) /\ InTurn(new, bi, m)
  <2> DEFINE v == VisitNode(n + 1, y)
  <2>1. v.kind = "visit" /\ v.node = n + 1 BY DEF VisitNode
  <2>2. Ahead(v, bi, m) = VisitSpots(n + 1, bi, m) BY <2>1 DEF Ahead
  <2>3. deal = <<v>> BY <1>4
  <2> HIDE DEF v
  <2>4. DOMAIN new = {1, 2} /\ new[1] = v /\ new[2] = frame
    <3> DEFINE a == <<v>>
               b == <<frame>>
    <3>1. /\ a \in Seq({v, frame}) /\ b \in Seq({v, frame}) /\ Len(a) = 1 /\ Len(b) = 1
          /\ a[1] = v /\ b[1] = frame
      OBVIOUS
    <3>2. new = a \o b BY <2>3
    <3> HIDE DEF a, b, new
    <3> DEFINE T == {v, frame}
    <3>11. a \in Seq(T) /\ b \in Seq(T) BY <3>1
    <3> HIDE DEF T
    <3>12. /\ new \in Seq(T) /\ Len(new) = Len(a) + Len(b)
           /\ \A i \in 1 .. Len(a) + Len(b) : new[i] = IF i <= Len(a) THEN a[i] ELSE b[i - Len(a)]
      BY <3>2, <3>11, ConcatProperties
    <3>3. /\ new \in Seq(T) /\ Len(new) = 2
          /\ \A i \in 1 .. 2 : new[i] = IF i <= 1 THEN a[i] ELSE b[i - 1]
      BY <3>1, <3>12
    <3>4. 1 \in 1 .. 2 /\ 2 \in 1 .. 2 OBVIOUS
    <3>5. new[1] = v /\ new[2] = frame BY <3>1, <3>3, <3>4
    <3>6. DOMAIN new = 1 .. 2 BY <3>3
    <3> QED BY <3>5, <3>6
  <2> HIDE DEF new
  <2>5. Pending(new, bi, m) = VisitSpots(n + 1, bi, m) \cup BoardSpots(n, bi, m)
    BY <1>2, <2>2, <2>4 DEF Pending
  <2>6. n + 1 \in DOMAIN nodes /\ nodes[n + 1].chance = n BY ChanceChild
  <2>7. Level(n + 1) = r
    <3>1. n # 0 BY NodesTyped DEF Standing
    <3> QED BY <2>6, <3>1 DEF Level
  <2>8. ASSUME NEW x \in Spots(m), r < m, Agrees(x, bi, r - 1)
        PROVE  /\ x \in Paths(m) /\ r \in Start .. m /\ r + 1 \in Start .. m
               /\ nodes[x[r + 1][1]].chance = x[r][1] /\ x[r][2] \in Int
               /\ Agrees(x, bi, r) <=> x[r][2] = bi[r]
    <3>1. x \in Paths(m) BY DEF Spots
    <3>2. r \in Start .. m /\ r + 1 \in Start .. m /\ r + 1 # Start /\ (r + 1) - 1 = r BY <1>1, <2>8
    <3>3. nodes[x[r + 1][1]].chance = x[r][1] BY <3>1, <3>2, PathRounds
    <3>4. x[r][2] \in Int BY <3>1, <3>2, PathTyped
    <3>5. \A k \in Start .. r : k = r \/ k \in Start .. r - 1 BY <1>1
    <3>6. Agrees(x, bi, r) <=> x[r][2] = bi[r] BY <2>8, <3>2, <3>5 DEF Agrees
    <3> QED BY <3>1, <3>2, <3>3, <3>4, <3>6
  <2>9. ASSUME NEW x \in VisitSpots(n + 1, bi, m)
        PROVE  /\ x \in Spots(m) /\ r < m /\ Agrees(x, bi, r - 1) /\ x[r][1] = n /\ x[r][2] = bi[r]
    <3>1. x \in Spots(m) /\ r < m /\ Agrees(x, bi, r) /\ x[r + 1][1] \in Kids(n + 1)
      BY <2>7 DEF VisitSpots
    <3>2. Agrees(x, bi, r - 1) BY <1>1, <3>1 DEF Agrees
    <3>3. nodes[x[r + 1][1]].chance = n BY <2>6, <3>1 DEF Kids
    <3> QED BY <2>8, <3>1, <3>2, <3>3
  <2>10. ASSUME NEW x \in Spots(m), r < m, Agrees(x, bi, r - 1), x[r][1] = n, x[r][2] = bi[r]
         PROVE  x \in VisitSpots(n + 1, bi, m)
    <3>1. /\ Agrees(x, bi, r) /\ nodes[x[r + 1][1]].chance = n /\ x \in Paths(m) /\ r + 1 \in Start .. m
      BY <2>8, <2>10
    <3>2. x[r + 1][1] \in DOMAIN nodes BY <3>1, PathTyped
    <3>3. x[r + 1][1] \in Kids(n + 1) BY <2>6, <3>1, <3>2, KidsDealt DEF Standing
    <3> QED BY <2>7, <2>10, <3>1, <3>3 DEF VisitSpots
  <2>11. BoardsFrom(n, bi, m, bi[r]) = VisitSpots(n + 1, bi, m) \cup BoardSpots(n, bi, m)
    <3>1. ASSUME NEW x \in BoardsFrom(n, bi, m, bi[r])
          PROVE  x \in VisitSpots(n + 1, bi, m) \cup BoardSpots(n, bi, m)
      <4>1. x \in Spots(m) /\ r < m /\ Agrees(x, bi, r - 1) /\ x[r][1] = n /\ x[r][2] >= bi[r]
        BY DEF BoardsFrom
      <4>2. x[r][2] \in Int BY <2>8, <4>1
      <4>3. x[r][2] = bi[r] \/ x[r][2] > bi[r] BY <4>1, <4>2
      <4> QED BY <2>10, <4>1, <4>3 DEF BoardSpots
    <3>2. VisitSpots(n + 1, bi, m) \subseteq BoardsFrom(n, bi, m, bi[r]) BY <2>9 DEF BoardsFrom
    <3>3. ASSUME NEW x \in BoardSpots(n, bi, m) PROVE x \in BoardsFrom(n, bi, m, bi[r])
      <4>1. x \in Spots(m) /\ r < m /\ Agrees(x, bi, r - 1) /\ x[r][1] = n /\ x[r][2] > bi[r]
        BY DEF BoardSpots
      <4>2. x[r][2] \in Int BY <2>8, <4>1
      <4>3. x[r][2] >= bi[r] BY <4>1, <4>2
      <4> QED BY <4>1, <4>3 DEF BoardsFrom
    <3> QED BY <3>1, <3>2, <3>3
  <2>12. ASSUME NEW x \in VisitSpots(n + 1, bi, m), NEW z \in BoardSpots(n, bi, m) PROVE Sooner(x, z, m)
    <3>1. /\ x \in Spots(m) /\ r < m /\ Agrees(x, bi, r - 1) /\ x[r][1] = n /\ x[r][2] = bi[r]
      BY <2>9
    <3>2. z \in Spots(m) /\ Agrees(z, bi, r - 1) /\ z[r][1] = n /\ z[r][2] > bi[r]
      BY DEF BoardSpots
    <3>3. x \in Paths(m) /\ z \in Paths(m) /\ r \in Start .. m BY <2>8, <3>1, <3>2
    <3>4. Less(x[r], z[r]) BY <3>1, <3>2 DEF Less
    <3> QED BY <3>1, <3>2, <3>3, <3>4, TurnAt
  <2>13. InTurn(new, bi, m)
    <3>1. \A j, k \in DOMAIN new : j < k => j = 1 /\ k = 2 BY <2>4
    <3> QED BY <1>2, <2>2, <2>4, <2>12, <3>1 DEF InTurn
  <2> QED BY <2>5, <2>11, <2>13
<1> QED BY <1>3, <1>4, DealCases

ChildSet(v) == {i \in DOMAIN nodes : nodes[i].parent = v}
OwnPath(v, bi, m) == {x \in VisitSpots(v, bi, m) : x[m][1] = v}

(* At a choice: its own path, if it is one, then those of its children in  *)
(* their order.                                                            *)
LEMMA ChoiceAhead ==
  ASSUME Standing, NEW v \in DOMAIN nodes, nodes[v].tree = storage.tree, nodes[v].type = "choice",
         NEW new, DOMAIN new = DOMAIN Ascending(ChildSet(v)),
         \A k \in DOMAIN new : new[k].kind = "visit" /\ new[k].node = Ascending(ChildSet(v))[k],
         NEW m \in Depths, NEW bi
  PROVE  /\ VisitSpots(v, bi, m) = OwnPath(v, bi, m) \cup Pending(new, bi, m)
         /\ InTurn(new, bi, m)
         /\ \A x \in OwnPath(v, bi, m), y \in Pending(new, bi, m) : Sooner(x, y, m)
<1> DEFINE S == ChildSet(v)
           D == OwnPath(v, bi, m)
<1>0. S = {i \in DOMAIN nodes : nodes[i].parent = v} /\ D = {x \in VisitSpots(v, bi, m) : x[m][1] = v}
  BY DEF ChildSet, OwnPath
<1> HIDE DEF S, D
<1> DEFINE q == Level(v)
           A == Ascending(S)
<1>1. /\ Sound /\ Start \in Nat /\ m \in Nat /\ q \in Int /\ q >= Start - 1
      /\ DOMAIN nodes = 1 .. Len(nodes) /\ Len(nodes) \in Nat
  BY Bounds, LevelRange, NodesTyped DEF Standing, Start, Depths
<1>2. S \in SUBSET Int /\ IsFiniteSet(S)
  <2>1. S \subseteq 1 .. Len(nodes) BY <1>0, <1>1
  <2>2. IsFiniteSet(1 .. Len(nodes)) BY <1>1, FS_Interval
  <2>3. IsFiniteSet(S) BY <2>1, <2>2, FS_Subset
  <2> QED BY <1>1, <2>1, <2>3
<1>3. /\ \A k \in DOMAIN A : A[k] \in S
      /\ \A j, k \in DOMAIN A : j < k => A[j] < A[k]
      /\ \A x \in S : \E k \in DOMAIN A : A[k] = x
  BY <1>2, AscendingFacts, AscendingOrder
<1>4. ASSUME NEW w \in S
      PROVE  /\ w \in DOMAIN nodes /\ nodes[w].parent = v /\ nodes[w].chance = nodes[v].chance /\ v < w
             /\ Level(w) = q /\ \A i \in Kids(w) : i \in Kids(v) /\ v < i
  <2>1. w \in DOMAIN nodes /\ nodes[w].parent = v BY <1>0
  <2>2. /\ nodes[w].chance = nodes[v].chance /\ v < w /\ \A i \in Kids(w) : i \in Kids(v) /\ v < i
    BY <1>1, <2>1, KidsSplit
  <2> QED BY <2>1, <2>2 DEF Level
<1>5. \A k \in DOMAIN new : Ahead(new[k], bi, m) = VisitSpots(A[k], bi, m) BY DEF Ahead, S
<1>6. Pending(new, bi, m) = UNION {VisitSpots(A[k], bi, m) : k \in DOMAIN A} BY <1>5 DEF Pending, S
<1> HIDE DEF A
<1>7. ASSUME NEW w \in DOMAIN nodes, Level(w) = q, NEW x \in VisitSpots(w, bi, m)
      PROVE  /\ x \in Paths(m) /\ x \in Spots(m) /\ q + 1 \in Start .. m /\ Agrees(x, bi, (q + 1) - 1)
             /\ x[q + 1][1] \in Kids(w) /\ x[q + 1][1] \in DOMAIN nodes
             /\ nodes[x[q + 1][1]].chance = nodes[w].chance
             /\ q < m /\ Agrees(x, bi, q) /\ Wanted(x[m][1])
  <2>1. x \in Spots(m) /\ q < m /\ Agrees(x, bi, q) /\ x[q + 1][1] \in Kids(w) BY <1>7 DEF VisitSpots
  <2>2. x \in Paths(m) /\ Wanted(x[m][1]) BY <2>1 DEF Spots
  <2>3. q + 1 \in Start .. m /\ (q + 1) - 1 = q
    <3>1. q < m BY <2>1
    <3> HIDE DEF q
    <3> QED BY <1>1, <3>1
  <2>4. x[q + 1][1] \in DOMAIN nodes /\ nodes[x[q + 1][1]].chance = nodes[w].chance BY <2>1 DEF Kids
  <2> QED BY <2>1, <2>2, <2>3, <2>4
<1> HIDE DEF q
<1>8. ASSUME NEW x \in VisitSpots(v, bi, m) PROVE x \in D \cup Pending(new, bi, m)
  <2>1. /\ x \in Paths(m) /\ x \in Spots(m) /\ q + 1 \in Start .. m /\ x[q + 1][1] \in Kids(v)
        /\ q < m /\ Agrees(x, bi, q)
    BY <1>7 DEF q
  <2>2. CASE x[q + 1][1] = v
    <3>1. CASE q + 1 = m BY <1>0, <2>2, <3>1
    <3>2. CASE q + 1 # m
      <4>1. q + 1 \in Start .. m - 1 BY <1>1, <2>1, <3>2
      <4>2. Leading(x, q + 1) BY <2>1, <4>1 DEF Paths
      <4> QED BY <2>2, <4>2 DEF Leading
    <3> QED BY <3>1, <3>2
  <2>3. CASE x[q + 1][1] # v
    <3>1. PICK w \in DOMAIN nodes : nodes[w].parent = v /\ x[q + 1][1] \in Kids(w)
      BY <1>1, <2>1, <2>3, KidsSplit
    <3>2. w \in S BY <1>0, <3>1
    <3>3. PICK k \in DOMAIN A : A[k] = w BY <1>3, <3>2
    <3>4. x \in VisitSpots(w, bi, m) BY <1>4, <2>1, <3>1, <3>2 DEF VisitSpots
    <3> QED BY <1>6, <3>3, <3>4
  <2> QED BY <2>2, <2>3
<1>9. ASSUME NEW k \in DOMAIN A, NEW x \in VisitSpots(A[k], bi, m)
      PROVE  x \in VisitSpots(v, bi, m) /\ v < x[q + 1][1]
  <2>1. A[k] \in S BY <1>3
  <2>2. /\ x \in Spots(m) /\ x[q + 1][1] \in Kids(A[k]) /\ q < m /\ Agrees(x, bi, q)
    BY <1>4, <1>7, <2>1
  <2>3. x[q + 1][1] \in Kids(v) /\ v < x[q + 1][1] BY <1>4, <2>1, <2>2
  <2> QED BY <2>2, <2>3 DEF VisitSpots, q
<1>10. VisitSpots(v, bi, m) = D \cup Pending(new, bi, m) BY <1>0, <1>6, <1>8, <1>9
<1>11. InTurn(new, bi, m)
  <2> SUFFICES ASSUME NEW j \in DOMAIN A, NEW k \in DOMAIN A, j < k,
                      NEW x \in VisitSpots(A[j], bi, m), NEW y \in VisitSpots(A[k], bi, m)
               PROVE  Sooner(x, y, m)
    BY <1>5 DEF InTurn, A, S
  <2>1. A[j] \in S /\ A[k] \in S /\ A[j] < A[k] BY <1>3
  <2>2. /\ x \in Paths(m) /\ q + 1 \in Start .. m /\ Agrees(x, bi, (q + 1) - 1)
        /\ x[q + 1][1] \in Kids(A[j]) /\ x[q + 1][1] \in DOMAIN nodes
        /\ nodes[x[q + 1][1]].chance = nodes[v].chance
    BY <1>4, <1>7, <2>1
  <2>3. /\ y \in Paths(m) /\ Agrees(y, bi, (q + 1) - 1)
        /\ y[q + 1][1] \in Kids(A[k]) /\ y[q + 1][1] \in DOMAIN nodes
        /\ nodes[y[q + 1][1]].chance = nodes[v].chance
    BY <1>4, <1>7, <2>1
  <2>4. x[q + 1][1] < A[k]
    <3>1. In(A[j], x[q + 1][1]) BY <2>2 DEF Kids
    <3> QED BY <1>1, <1>4, <2>1, <2>2, <3>1, SiblingsApart
  <2>5. A[k] <= y[q + 1][1] BY <2>3 DEF Kids, In
  <2>6. x[q + 1][1] < y[q + 1][1]
    <3>1. x[q + 1][1] \in Int /\ y[q + 1][1] \in Int /\ A[k] \in Int BY <1>1, <1>4, <2>1, <2>2, <2>3
    <3> QED BY <2>4, <2>5, <3>1
  <2>7. Less(x[q + 1], y[q + 1]) BY <2>6 DEF Less
  <2> QED BY <2>2, <2>3, <2>7, TurnAt
<1>12. ASSUME NEW x \in D, NEW y \in Pending(new, bi, m) PROVE Sooner(x, y, m)
  <2>1. PICK k \in DOMAIN A : y \in VisitSpots(A[k], bi, m) BY <1>6
  <2>2. A[k] \in S BY <1>3
  <2>3. x \in VisitSpots(v, bi, m) /\ x[m][1] = v BY <1>0
  <2>4. /\ x \in Paths(m) /\ q + 1 \in Start .. m /\ Agrees(x, bi, (q + 1) - 1)
        /\ nodes[x[q + 1][1]].chance = nodes[v].chance
    BY <1>7, <2>3 DEF q
  <2>5. /\ y \in Paths(m) /\ Agrees(y, bi, (q + 1) - 1) /\ nodes[y[q + 1][1]].chance = nodes[v].chance
    BY <1>4, <1>7, <2>1, <2>2
  <2>6. q + 1 = m
    <3>1. m \in Start .. m BY <1>1, <2>4
    <3>2. Level(x[m][1]) = m - 1 BY <2>4, <3>1, PathRounds
    <3> QED BY <1>1, <2>3, <3>2 DEF q
  <2>7. v < y[q + 1][1] BY <1>9, <2>1
  <2>8. Less(x[q + 1], y[q + 1]) BY <2>3, <2>6, <2>7 DEF Less
  <2> QED BY <2>4, <2>5, <2>8, TurnAt
<1> QED BY <1>10, <1>11, <1>12 DEF D

(* Visits are never of a later round than what is above them.              *)
Falls(st) ==
  \A j, k \in DOMAIN st : (j < k /\ st[k].kind = "visit") => Level(st[k].node) <= Level(st[j].node)

Rises(new) ==
  /\ \A i \in DOMAIN new : Level(new[i].node) >= Level(Current.node) /\ Level(new[i].node) \in Int
  /\ Falls(new)

(* What is done when a chance node or a choice is visited: its own path.   *)
Did(m) == {x \in Ahead(Current, boardIndex, m) : Current.kind = "visit" /\ x[m][1] = Current.node}

(* Boards are tried of the current chance node only. *)
Holds(new) ==
  /\ \A i \in DOMAIN new : new[i].kind = "boards" =>
       new[i].node = Current.node /\ (WalkChance \/ NextBoard)
  /\ WalkChance \/ NextBoard => \E i \in DOMAIN new : new[i].kind = "boards"

Advances(new, m) ==
  /\ Stacked(stack, new, stack') /\ Rises(new) /\ Holds(new)
  /\ Passes(Current, new, boardIndex, boardIndex', Did(m), m)
  /\ \A k \in 2 .. Len(stack) : Ahead(stack[k], boardIndex', m) = Ahead(stack[k], boardIndex, m)

LEMMA OthersAhead ==
  ASSUME Standing, NEW bi, NEW pt, StackOK(stack, bi, pt), Falls(stack), stack # <<>>,
         Node.type = "chance", NEW bi2, \A q \in Start .. Node.round - 1 : bi2[q] = bi[q],
         NEW m \in Depths
  PROVE  \A k \in 2 .. Len(stack) : Ahead(stack[k], bi2, m) = Ahead(stack[k], bi, m)
<1> SUFFICES ASSUME NEW k \in 2 .. Len(stack)
             PROVE  Ahead(stack[k], bi2, m) = Ahead(stack[k], bi, m)
  OBVIOUS
<1> DEFINE n == Current.node
           r == Node.round
           w == stack[k].node
<1>1. /\ Len(stack) \in Nat /\ DOMAIN stack = 1 .. Len(stack) /\ Current = stack[1]
      /\ n \in DOMAIN nodes /\ nodes[n].tree = storage.tree /\ Node = nodes[n]
      /\ NoneLater(stack, 2, n)
  BY TopEntry
<1>2. 1 \in DOMAIN stack /\ k \in DOMAIN stack /\ 1 < k /\ k >= 2 BY <1>1
<1>3. EntryOK(bi, pt, stack[k]) BY <1>2 DEF StackOK
<1>4. w \in DOMAIN nodes /\ nodes[w].tree = storage.tree BY <1>3 DEF EntryOK
<1>5. Start \in Nat /\ r \in Nat /\ Level(n) = r - 1 /\ Level(w) \in Int
  <2>1. Level(n) = r - 1 /\ r \in Nat BY <1>1, ChanceRounds, NodesTyped DEF Standing
  <2> QED BY <1>4, <2>1, Bounds, LevelRange DEF Start
<1>6. CASE stack[k].kind = "visit"
  <2>1. Level(w) <= r - 1 BY <1>1, <1>2, <1>5, <1>6 DEF Falls
  <2>2. \A q \in Start .. Level(w) : bi2[q] = bi[q] BY <1>5, <2>1
  <2>3. \A x : Agrees(x, bi2, Level(w)) <=> Agrees(x, bi, Level(w)) BY <2>2 DEF Agrees
  <2> QED BY <1>6, <2>3 DEF Ahead, VisitSpots
<1>7. CASE stack[k].kind # "visit"
  <2> DEFINE s == nodes[w].round
  <2>1. stack[k].kind = "boards" /\ nodes[w].type = "chance" BY <1>3, <1>7 DEF EntryOK, Entries
  <2>2. s <= Level(n) BY <1>2, <2>1, <1>1 DEF NoneLater
  <2>3. s \in Nat /\ Start <= s
    <3>1. s \in storage.startRound .. storage.endRound - 1 BY <1>4, <2>1, ChanceRounds
    <3> QED BY <3>1, Bounds DEF Start
  <2>4. \A q \in Start .. s : bi2[q] = bi[q] BY <1>5, <2>2, <2>3
  <2>5. bi2[s] = bi[s] BY <2>3, <2>4
  <2>6. \A x : Agrees(x, bi2, s - 1) <=> Agrees(x, bi, s - 1) BY <1>5, <2>3, <2>4 DEF Agrees
  <2> QED BY <1>7, <2>5, <2>6 DEF Ahead, BoardSpots
<1> QED BY <1>6, <1>7

LEMMA PathBoard ==
  ASSUME Standing, NEW m \in Depths, NEW x \in Spots(m), NEW r \in Start .. m - 1, NEW bi,
         Agrees(x, bi, r - 1)
  PROVE  x[r][2] \in Follow(AboveIn(bi, r), r) /\ x[r][2] \in Int
<1>1. x \in Paths(m) /\ Start \in Nat /\ m \in Nat BY Bounds DEF Spots, Depths, Start
<1>2. Leading(x, r) BY <1>1 DEF Paths
<1>3. Under(x, r) = AboveIn(bi, r)
  <2>1. r # Start => r - 1 \in Start .. r - 1 BY <1>1
  <2> QED BY <2>1 DEF Under, AboveIn, Agrees, Start
<1> QED BY <1>1, <1>2, <1>3, PathTyped DEF Leading

LEMMA NoneAhead ==
  ASSUME NEW new, NEW m, NEW bi, \A i \in DOMAIN new : Ahead(new[i], bi, m) = {}
  PROVE  Pending(new, bi, m) = {} /\ InTurn(new, bi, m)
BY DEF Pending, InTurn

LEMMA EndAdvances ==
  ASSUME Standing, StackOK(stack, boardIndex, ptr), WalkEnd, NEW m \in Depths
  PROVE  Advances(<<>>, m)
<1>1. /\ stack # <<>> /\ stack' = Tail(stack) /\ Current.kind = "visit" /\ boardIndex' = boardIndex
      /\ Node.type \in {"leaf", "subgame"}
  BY DEF WalkEnd, Visiting
<1>2. /\ Current.node \in DOMAIN nodes /\ nodes[Current.node].tree = storage.tree
      /\ Node = nodes[Current.node] /\ stack \in Seq(Entries)
  BY <1>1, TopEntry DEF StackOK
<1>3. Stacked(stack, <<>>, stack')
  <2>1. <<>> \in Seq(Entries) /\ Tail(stack) \in Seq(Entries) BY <1>1, <1>2
  <2>2. stack' = <<>> \o Tail(stack) BY <1>1, <2>1
  <2> QED BY <1>1, <1>2, <2>1, <2>2, StackedFacts
<1>4. Ahead(Current, boardIndex, m) = {} BY <1>1, <1>2, NothingUnder DEF Ahead
<1>5. Pending(<<>>, boardIndex, m) = {} /\ InTurn(<<>>, boardIndex, m) BY NoneAhead
<1>6. Did(m) = {} BY <1>4 DEF Did
<1>7. Passes(Current, <<>>, boardIndex, boardIndex', Did(m), m) BY <1>1, <1>4, <1>5, <1>6 DEF Passes
<1>8. Rises(<<>>) BY DEF Rises, Falls
<1>9. Holds(<<>>)
  <2>1. ~WalkChance /\ ~NextBoard BY <1>1 DEF WalkChance, NextBoard, Visiting, Dealing
  <2> QED BY <2>1 DEF Holds
<1> QED BY <1>1, <1>3, <1>7, <1>8, <1>9 DEF Advances

LEMMA LeaveAdvances ==
  ASSUME Standing, StackOK(stack, boardIndex, ptr), boardIndex \in [Rounds -> Nat], LeaveChance,
         NEW m \in Depths
  PROVE  Advances(<<>>, m)
<1> DEFINE n  == Current.node
           r  == Node.round
           bi == boardIndex
<1>1. stack # <<>> /\ stack' = Tail(stack) /\ Current.kind = "boards" /\ boardIndex' = boardIndex
      /\ Dealing /\ ~MoreBoards(r)
  BY DEF LeaveChance, Dealing
<1>2. /\ n \in DOMAIN nodes /\ nodes[n].tree = storage.tree
      /\ Node = nodes[n] /\ stack \in Seq(Entries) /\ Node.type = "chance" /\ At(bi, ptr, Current)
  BY <1>1, TopEntry, DealingFacts DEF StackOK
<1>3. Stacked(stack, <<>>, stack')
  <2>1. <<>> \in Seq(Entries) /\ Tail(stack) \in Seq(Entries) BY <1>1, <1>2
  <2>2. stack' = <<>> \o Tail(stack) BY <1>1, <2>1
  <2> QED BY <1>1, <1>2, <2>1, <2>2, StackedFacts
<1>4. BoardSpots(n, bi, m) = {}
  <2> SUFFICES ASSUME NEW x \in BoardSpots(n, bi, m) PROVE FALSE OBVIOUS
  <2>1. x \in Spots(m) /\ r < m /\ Agrees(x, bi, r - 1) /\ x[r][2] > bi[r]
    BY <1>2 DEF BoardSpots
  <2>2. r \in Start .. m - 1 /\ r \in Rounds
    <3>1. r \in storage.startRound .. storage.endRound - 1 BY <1>2, ChanceRounds
    <3> QED BY <2>1, <3>1, Bounds DEF Start, Depths
  <2>3. x[r][2] \in Follow(AboveIn(bi, r), r) /\ x[r][2] \in Int BY <2>1, <2>2, PathBoard
  <2> DEFINE end == EndBoard(r, AboveIn(bi, r))
  <2>4. AboveIn(bi, r) = Above(r) BY DEF Above, AboveIn
  <2>5. end \in Nat /\ ~(bi[r] + 1 < end) /\ bi[r] \in Nat
    BY <1>1, <1>2, <2>2, <2>4 DEF At, Open, MoreBoards
  <2>6. x[r][2] <= end - 1 BY <2>3 DEF Follow
  <2> HIDE DEF end, bi
  <2> QED BY <2>1, <2>3, <2>5, <2>6
<1>5. Ahead(Current, bi, m) = {} BY <1>1, <1>4 DEF Ahead
<1>6. Pending(<<>>, bi, m) = {} /\ InTurn(<<>>, bi, m) BY NoneAhead
<1>7. Did(m) = {} BY <1>5 DEF Did
<1>8. Passes(Current, <<>>, boardIndex, boardIndex', Did(m), m) BY <1>1, <1>5, <1>6, <1>7 DEF Passes
<1>9. Rises(<<>>) BY DEF Rises, Falls
<1>10. Holds(<<>>)
  <2>1. ~WalkChance /\ ~NextBoard BY <1>1 DEF WalkChance, NextBoard, Visiting
  <2> QED BY <2>1 DEF Holds
<1> QED BY <1>1, <1>3, <1>8, <1>9, <1>10 DEF Advances

(* A choice is visited in full, or in the last round where nothing that    *)
(* matters is behind it.                                                   *)
LEMMA ChoiceAdvances ==
  ASSUME Standing, StackOK(stack, boardIndex, ptr), WalkChoice, NEW m \in Depths
  PROVE  \E new : Advances(new, m)
<1> DEFINE c == Current.node
           bi == boardIndex
           all == {i \in DOMAIN nodes : nodes[i].parent = c}
           opponent == job.type = "cfr" /\ Node.u.playerActing # job.player
<1>1. stack # <<>> /\ Node.type = "choice" /\ Current.kind = "visit" /\ boardIndex' = bi
  BY DEF WalkChoice, Visiting
<1>2. PICK reached : LET kept == Ascending({i \in all : ~(opponent /\ Cut(Node.round, i \in reached))})
                     IN stack' = [k \in DOMAIN kept |-> VisitNode(kept[k], kept[k] \in reached)] \o Tail(stack)
  BY DEF WalkChoice
<1> DEFINE S == {i \in all : ~(opponent /\ Cut(Node.round, i \in reached))}
           kept == Ascending(S)
           new == [k \in DOMAIN kept |-> VisitNode(kept[k], kept[k] \in reached)]
<1>3. S \subseteq all /\ (S = all \/ (job.type = "cfr" /\ Node.round = game.numRounds - 1))
  BY DEF Cut
<1>4. stack' = new \o Tail(stack) BY <1>2
<1> HIDE DEF S, opponent
<1>5. /\ c \in DOMAIN nodes /\ nodes[c].tree = storage.tree /\ nodes[c].type = "choice"
      /\ Node = nodes[c] /\ stack \in Seq(Entries)
  BY <1>1, TopEntry DEF StackOK
<1>6. /\ Sound /\ DOMAIN nodes = 1 .. Len(nodes) /\ Len(nodes) \in Nat
  BY NodesTyped DEF Standing
<1>7. \A i \in all : /\ i \in DOMAIN nodes /\ Level(i) = Level(c) /\ nodes[i].tree = storage.tree
                     /\ nodes[i].parent = c
  <2>1. c # 0 BY <1>5, <1>6
  <2> QED BY <1>5, <1>6, <2>1, Parents DEF Level
<1>8. S \in SUBSET Int /\ IsFiniteSet(S)
  <2>1. S \subseteq 1 .. Len(nodes) BY <1>3, <1>6
  <2>2. IsFiniteSet(1 .. Len(nodes)) BY <1>6, FS_Interval
  <2>3. IsFiniteSet(S) BY <2>1, <2>2, FS_Subset
  <2> QED BY <1>6, <2>1, <2>3
<1>9. /\ DOMAIN kept = 1 .. Cardinality(S) /\ Cardinality(S) \in Nat
      /\ \A k \in DOMAIN kept : kept[k] \in S
  BY <1>8, AscendingFacts, FS_CardinalityType
<1> HIDE DEF kept
<1>10. \A k \in DOMAIN new : /\ new[k].kind = "visit" /\ new[k].node = kept[k] /\ k \in DOMAIN kept
  BY DEF VisitNode
<1>11. new \in Seq(Entries) /\ DOMAIN new = DOMAIN kept
  <2>1. ASSUME NEW k \in DOMAIN kept PROVE new[k] \in Entries
    <3>1. kept[k] \in Nat BY <1>3, <1>6, <1>9
    <3> QED BY <3>1 DEF VisitNode, Entries
  <2>2. new \in [1 .. Cardinality(S) -> Entries] BY <1>9, <2>1
  <2> HIDE DEF new
  <2> QED BY <1>9, <2>2, SeqOfFunction
<1> HIDE DEF new
<1>12. Stacked(stack, new, stack') BY <1>1, <1>4, <1>5, <1>11, StackedFacts
<1>13. Level(c) \in Int BY <1>5, LevelRange
<1>14. \A i \in DOMAIN new : Level(new[i].node) = Level(c) BY <1>3, <1>7, <1>9, <1>10
<1>15. Rises(new) BY <1>13, <1>14 DEF Rises, Falls
<1>16. Ahead(Current, bi, m) = VisitSpots(c, bi, m) BY <1>1 DEF Ahead
<1>17. Did(m) = OwnPath(c, bi, m) BY <1>1, <1>16 DEF Did, OwnPath
<1>18. Passes(Current, new, bi, bi, Did(m), m)
  <2>1. CASE S = all
    <3>1. S = ChildSet(c) BY <2>1 DEF ChildSet
    <3>2. \A k \in DOMAIN new : new[k].kind = "visit" /\ new[k].node = Ascending(ChildSet(c))[k]
      BY <1>10, <3>1 DEF kept
    <3>3. DOMAIN new = DOMAIN Ascending(ChildSet(c)) BY <1>11, <3>1 DEF kept
    <3> HIDE DEF c, bi
    <3>4. /\ VisitSpots(c, bi, m) = Did(m) \cup Pending(new, bi, m) /\ InTurn(new, bi, m)
          /\ \A x \in Did(m), y \in Pending(new, bi, m) : Sooner(x, y, m)
      BY <1>5, <1>17, <3>2, <3>3, ChoiceAhead
    <3> QED BY <1>16, <3>4 DEF Passes
  <2>2. CASE job.type = "cfr" /\ Node.round = game.numRounds - 1
    <3>1. Level(c) = game.numRounds - 1
      <4>1. nodes[c].chance # 0 /\ nodes[c].round = nodes[nodes[c].chance].round BY <1>5, <1>6, ChoiceChance
      <4> QED BY <1>5, <2>2, <4>1 DEF Level
    <3>2. Level(c) < m => Spots(m) = {} BY <2>2, <3>1, NoneBehind, Bounds DEF Depths
    <3>3. \A v \in DOMAIN nodes : Level(v) = Level(c) => VisitSpots(v, bi, m) = {}
      BY <3>2 DEF VisitSpots
    <3>4. \A i \in DOMAIN new : new[i].kind = "visit" /\ new[i].node \in DOMAIN nodes
      BY <1>3, <1>7, <1>9, <1>10
    <3>5. \A i \in DOMAIN new : Ahead(new[i], bi, m) = {} BY <1>14, <3>3, <3>4 DEF Ahead
    <3>6. Pending(new, bi, m) = {} /\ InTurn(new, bi, m) BY <3>5, NoneAhead
    <3>7. VisitSpots(c, bi, m) = {} /\ Did(m) = {} BY <1>5, <1>17, <3>3 DEF OwnPath
    <3> QED BY <1>16, <3>6, <3>7 DEF Passes
  <2> QED BY <1>3, <2>1, <2>2
<1>19. Holds(new)
  <2>1. ~WalkChance /\ ~NextBoard BY <1>1 DEF WalkChance, NextBoard, Visiting, Dealing
  <2> QED BY <1>10, <2>1 DEF Holds
<1> QED BY <1>1, <1>12, <1>15, <1>18, <1>19 DEF Advances

(* The two entries that a board puts on the stack. *)
LEMMA DealtStack ==
  ASSUME Standing, StackOK(stack, boardIndex, ptr), stack # <<>>, Node.type = "chance",
         NEW deal \in Deal(Current.node, Current.reach), NEW frame, frame.kind = "boards",
         frame.node = Current.node, stack' = (deal \o <<frame>>) \o Tail(stack)
  PROVE  /\ Stacked(stack, deal \o <<frame>>, stack') /\ Rises(deal \o <<frame>>)
         /\ WalkChance \/ NextBoard => Holds(deal \o <<frame>>)
<1> DEFINE n == Current.node
           new == deal \o <<frame>>
           T == Entries \cup {frame}
<1>1. /\ n \in DOMAIN nodes /\ nodes[n].tree = storage.tree /\ Node = nodes[n]
      /\ Current.reach \in BOOLEAN /\ stack \in Seq(Entries)
  BY TopEntry DEF StackOK
<1>2. /\ deal \in Seq(Entries) /\ Len(deal) \in {0, 1}
      /\ \A k \in DOMAIN deal : deal[k].kind = "visit" /\ deal[k].node = n + 1
      /\ nodes[n + 1].chance = n
  BY <1>1, DealFacts
<1>3. Seq(Entries) \subseteq Seq(T) BY WiderSeq
<1>4. deal \in Seq(T) /\ <<frame>> \in Seq(T) /\ stack \in Seq(T)
      /\ Len(<<frame>>) = 1 /\ <<frame>>[1] = frame
  BY <1>1, <1>2, <1>3
<1> HIDE DEF T
<1>5. /\ new \in Seq(T) /\ Len(new) = Len(deal) + 1 /\ DOMAIN new = 1 .. Len(deal) + 1
      /\ new[Len(deal) + 1] = frame /\ \A i \in 1 .. Len(deal) : new[i] = deal[i]
  BY <1>2, <1>4, ConcatProperties
<1> HIDE DEF new
<1>6. stack' = new \o Tail(stack) BY DEF new
<1>7. Stacked(stack, new, stack') BY <1>4, <1>5, <1>6, StackedFacts
<1>8. Level(n) = nodes[n].round - 1 /\ Level(n + 1) = nodes[n].round /\ nodes[n].round \in Nat
  <2>1. n # 0 /\ nodes[n].round \in Nat BY <1>1, NodesTyped DEF Standing
  <2>2. Level(n) = nodes[n].round - 1 BY <1>1, ChanceRounds
  <2> QED BY <1>2, <2>1, <2>2 DEF Level
<1>9. \A i \in DOMAIN new :
        \/ i = Len(deal) + 1 /\ new[i].kind = "boards" /\ new[i].node = n
        \/ i = 1 /\ Len(deal) = 1 /\ new[i].node = n + 1 /\ new[i].kind = "visit"
  BY <1>2, <1>5
<1> HIDE DEF n
<1>10. \A i \in DOMAIN new : Level(new[i].node) >= Level(n) /\ Level(new[i].node) \in Int BY <1>8, <1>9
<1>11. Falls(new)
  <2>1. \A j, k \in DOMAIN new : j < k => new[k].kind = "boards" BY <1>2, <1>9
  <2> QED BY <2>1 DEF Falls
<1>12. \E i \in DOMAIN new : new[i].kind = "boards" BY <1>2, <1>5
<1>13. WalkChance \/ NextBoard => Holds(new) BY <1>9, <1>12 DEF Holds, n
<1> QED BY <1>7, <1>10, <1>11, <1>13 DEF Rises, n, new

LEMMA ChanceAdvances ==
  ASSUME Standing, StackOK(stack, boardIndex, ptr), boardIndex \in [Rounds -> Nat], Falls(stack),
         WalkChance, NEW m \in Depths
  PROVE  \E new : Advances(new, m)
<1> DEFINE n == Current.node
           r == Node.round
           bi == boardIndex
           bi2 == boardIndex'
           first == FirstBoard(r, Above(r))
           frame == [kind |-> "boards", node |-> n, reach |-> Current.reach, old |-> ptr[r]]
<1>1. stack # <<>> /\ Node.type = "chance" /\ Current.kind = "visit" BY DEF WalkChance, Visiting
<1>2. PICK deal \in Deal(n, Current.reach) : stack' = deal \o <<frame>> \o Tail(stack)
  BY DEF WalkChance
<1>3. bi2 = [bi EXCEPT ![r] = first] BY DEF WalkChance
<1>4. /\ n \in DOMAIN nodes /\ Node = nodes[n] /\ r \in Rounds /\ r \in Nat
      /\ Current.reach \in BOOLEAN /\ nodes[n].tree = storage.tree
  BY <1>1, ChanceOnTop, TopEntry
<1>5. Open(bi, r) BY <1>1, BoardsFollow
<1>6. Above(r) = AboveIn(bi, r) BY DEF Above, AboveIn
<1>7. first \in Nat BY <1>5, <1>6 DEF Open
<1>8. bi2[r] = first /\ \A q \in Rounds : q # r => bi2[q] = bi[q] BY <1>3, <1>4
<1>9. Start \in Nat /\ m \in Nat /\ r \in Start .. storage.endRound - 1 /\ Level(n) = r - 1
      /\ storage.endRound \in Nat /\ storage.endRound <= game.numRounds /\ game.numRounds \in Nat
  BY <1>1, <1>4, ChanceRounds, Bounds DEF Start, Depths
<1>10. \A q \in Start .. r - 1 : bi2[q] = bi[q]
  <2>1. \A q \in Start .. r - 1 : q \in Rounds /\ q # r BY <1>9 DEF Rounds, RoundsOf
  <2> QED BY <1>8, <2>1
<1> DEFINE new == deal \o <<frame>>
<1>11. frame.kind = "boards" /\ frame.node = n OBVIOUS
<1> HIDE DEF frame, bi2
<1>12. Stacked(stack, new, stack') /\ Rises(new) /\ Holds(new) BY <1>1, <1>2, <1>11, DealtStack
<1>13. /\ Pending(new, bi2, m) = BoardsFrom(n, bi2, m, first) /\ InTurn(new, bi2, m)
  <2>1. bi2[nodes[n].round] = first /\ first \in Int BY <1>4, <1>7, <1>8
  <2> HIDE DEF first, n
  <2> QED BY <1>1, <1>4, <1>11, <2>1, DealtAhead
<1> HIDE DEF new
<1>14. Ahead(Current, bi, m) = VisitSpots(n, bi, m) BY <1>1 DEF Ahead
<1>15. VisitSpots(n, bi, m) = {x \in Spots(m) : r - 1 < m /\ Agrees(x, bi, r - 1) /\ x[r][1] = n}
  <2>1. nodes[n].type # "choice" /\ (r - 1) + 1 = r BY <1>1, <1>4, <1>9
  <2> HIDE DEF n
  <2> QED BY <1>4, <1>9, <2>1, VisitAlone
<1>16. Did(m) = {x \in VisitSpots(n, bi, m) : x[m][1] = n} BY <1>1, <1>14 DEF Did
<1>17. BoardsFrom(n, bi2, m, first) =
         {x \in Spots(m) : r < m /\ Agrees(x, bi2, r - 1) /\ x[r][1] = n /\ x[r][2] >= first}
  BY <1>4 DEF BoardsFrom
<1>18. \A x : Agrees(x, bi2, r - 1) <=> Agrees(x, bi, r - 1) BY <1>10 DEF Agrees
<1> HIDE DEF n, r, bi, first
<1>19. ASSUME NEW x \in VisitSpots(n, bi, m) PROVE x \in Did(m) \cup BoardsFrom(n, bi2, m, first)
  <2>1. x \in Spots(m) /\ r - 1 < m /\ Agrees(x, bi, r - 1) /\ x[r][1] = n BY <1>15
  <2>2. CASE r = m BY <1>16, <2>1, <2>2
  <2>3. CASE r # m
    <3>1. r < m /\ r \in Start .. m - 1 BY <1>9, <2>1, <2>3
    <3>2. x[r][2] \in Follow(AboveIn(bi, r), r) /\ x[r][2] \in Int BY <2>1, <3>1, PathBoard
    <3>3. x[r][2] >= first BY <1>6, <3>2 DEF Follow, first
    <3> QED BY <1>17, <1>18, <2>1, <3>1, <3>3
  <2> QED BY <2>2, <2>3
<1>20. BoardsFrom(n, bi2, m, first) \subseteq VisitSpots(n, bi, m)
  <2>1. r < m => r - 1 < m BY <1>9
  <2> QED BY <1>15, <1>17, <1>18, <2>1
<1>21. ASSUME NEW x \in Did(m), NEW y \in BoardsFrom(n, bi2, m, first) PROVE FALSE
  <2>1. x \in Spots(m) /\ x[m][1] = n /\ r < m BY <1>15, <1>16, <1>17
  <2>2. x \in Paths(m) /\ m \in Start .. m BY <1>9, <2>1 DEF Spots, Depths
  <2>3. Level(n) = m - 1 BY <2>1, <2>2, PathRounds
  <2> QED BY <1>9, <2>1, <2>3
<1>22. Passes(Current, new, bi, bi2, Did(m), m)
  <2>1. Did(m) \subseteq VisitSpots(n, bi, m) BY <1>16
  <2>2. VisitSpots(n, bi, m) = Did(m) \cup BoardsFrom(n, bi2, m, first) BY <1>19, <1>20, <2>1
  <2> QED BY <1>13, <1>14, <1>21, <2>2 DEF Passes
<1>23. \A k \in 2 .. Len(stack) : Ahead(stack[k], bi2, m) = Ahead(stack[k], bi, m)
  <2>1. StackOK(stack, bi, ptr) /\ \A q \in Start .. Node.round - 1 : bi2[q] = bi[q]
    BY <1>10 DEF bi, r
  <2> QED BY <1>1, <2>1, OthersAhead
<1> QED BY <1>12, <1>22, <1>23 DEF Advances, bi, bi2

LEMMA NextAdvances ==
  ASSUME Standing, StackOK(stack, boardIndex, ptr), boardIndex \in [Rounds -> Nat], Falls(stack),
         NextBoard, NEW m \in Depths
  PROVE  \E new : Advances(new, m)
<1> DEFINE n == Current.node
           r == Node.round
           bi == boardIndex
           bi2 == boardIndex'
<1>1. stack # <<>> /\ Node.type = "chance" /\ Dealing /\ Current.kind = "boards"
  BY DealingFacts DEF NextBoard, Dealing
<1>2. PICK deal \in Deal(n, Current.reach) : stack' = (deal \o <<Current>>) \o Tail(stack)
  BY NextStack
<1>3. bi2 = [bi EXCEPT ![r] = bi[r] + 1] BY DEF NextBoard
<1>4. /\ n \in DOMAIN nodes /\ Node = nodes[n] /\ r \in Rounds /\ r \in Nat
      /\ Current.reach \in BOOLEAN /\ nodes[n].tree = storage.tree
  BY <1>1, ChanceOnTop, TopEntry
<1>5. bi2[r] = bi[r] + 1 /\ bi[r] \in Nat /\ \A q \in Rounds : q # r => bi2[q] = bi[q] BY <1>3, <1>4
<1>6. Start \in Nat /\ m \in Nat /\ r \in Start .. storage.endRound - 1
      /\ storage.endRound \in Nat /\ storage.endRound <= game.numRounds /\ game.numRounds \in Nat
  BY <1>1, <1>4, ChanceRounds, Bounds DEF Start, Depths
<1>7. \A q \in Start .. r - 1 : bi2[q] = bi[q]
  <2>1. \A q \in Start .. r - 1 : q \in Rounds /\ q # r BY <1>6 DEF Rounds, RoundsOf
  <2> QED BY <1>5, <2>1
<1> DEFINE new == deal \o <<Current>>
<1> HIDE DEF bi2
<1>8. Stacked(stack, new, stack') /\ Rises(new) /\ Holds(new) BY <1>1, <1>2, DealtStack
<1>9. /\ Pending(new, bi2, m) = BoardsFrom(n, bi2, m, bi[r] + 1) /\ InTurn(new, bi2, m)
  <2>1. bi2[nodes[n].round] = bi[r] + 1 /\ bi[r] + 1 \in Int BY <1>4, <1>5
  <2>2. Current.node = n OBVIOUS
  <2> HIDE DEF n, bi, r
  <2> QED BY <1>1, <1>4, <2>1, <2>2, DealtAhead
<1> HIDE DEF new
<1>10. Ahead(Current, bi, m) = BoardSpots(n, bi, m) BY <1>1 DEF Ahead
<1>11. BoardSpots(n, bi, m) =
         {x \in Spots(m) : r < m /\ Agrees(x, bi, r - 1) /\ x[r][1] = n /\ x[r][2] > bi[r]}
  BY <1>4 DEF BoardSpots
<1>12. BoardsFrom(n, bi2, m, bi[r] + 1) =
         {x \in Spots(m) : r < m /\ Agrees(x, bi2, r - 1) /\ x[r][1] = n /\ x[r][2] >= bi[r] + 1}
  BY <1>4 DEF BoardsFrom
<1>13. \A x : Agrees(x, bi2, r - 1) <=> Agrees(x, bi, r - 1) BY <1>7 DEF Agrees
<1>14. Did(m) = {} BY <1>1 DEF Did
<1> HIDE DEF n, r, bi
<1>15. ASSUME NEW x \in Spots(m), r < m, Agrees(x, bi, r - 1)
       PROVE  x[r][2] > bi[r] <=> x[r][2] >= bi[r] + 1
  <2>1. r \in Start .. m - 1 BY <1>6, <1>15
  <2>2. x[r][2] \in Int BY <1>15, <2>1, PathBoard
  <2> QED BY <1>5, <2>2
<1>16. BoardSpots(n, bi, m) = BoardsFrom(n, bi2, m, bi[r] + 1) BY <1>11, <1>12, <1>13, <1>15
<1>17. Passes(Current, new, bi, bi2, Did(m), m) BY <1>9, <1>10, <1>14, <1>16 DEF Passes
<1>18. \A k \in 2 .. Len(stack) : Ahead(stack[k], bi2, m) = Ahead(stack[k], bi, m)
  <2>1. StackOK(stack, bi, ptr) /\ \A q \in Start .. Node.round - 1 : bi2[q] = bi[q]
    BY <1>7 DEF bi, r
  <2> QED BY <1>1, <2>1, OthersAhead
<1> QED BY <1>8, <1>17, <1>18 DEF Advances, bi, bi2

(* A step of the walk. *)
Moves == WalkEnd \/ WalkChoice \/ WalkChance \/ NextBoard \/ LeaveChance

LEMMA StepAdvances ==
  ASSUME Standing, StackOK(stack, boardIndex, ptr), boardIndex \in [Rounds -> Nat], Falls(stack),
         Moves, NEW m \in Depths
  PROVE  stack # <<>> /\ \E new : Advances(new, m)
<1>1. stack # <<>> BY DEF Moves, WalkEnd, WalkChoice, WalkChance, NextBoard, LeaveChance, Visiting, Dealing
<1>2. CASE WalkChoice \/ WalkEnd BY <1>1, <1>2, ChoiceAdvances, EndAdvances
<1>3. CASE WalkChance BY <1>1, <1>3, ChanceAdvances
<1>4. CASE NextBoard BY <1>1, <1>4, NextAdvances
<1>5. CASE LeaveChance BY <1>1, <1>5, LeaveAdvances
<1> QED BY <1>2, <1>3, <1>4, <1>5 DEF Moves

(* After the step what was to come is as before without what was done.     *)
LEMMA StepOrder ==
  ASSUME Standing, StackOK(stack, boardIndex, ptr), boardIndex \in [Rounds -> Nat], Falls(stack),
         Moves, NEW m \in Depths, InTurn(stack, boardIndex, m)
  PROVE  /\ InTurn(stack', boardIndex', m) /\ Falls(stack')
         /\ Pending(stack', boardIndex', m) = Pending(stack, boardIndex, m) \ Did(m)
         /\ Did(m) \subseteq Pending(stack, boardIndex, m)
         /\ \A x \in Did(m), y \in Pending(stack', boardIndex', m) : Sooner(x, y, m)
<1>1. stack # <<>> BY StepAdvances
<1>2. PICK new : Advances(new, m) BY StepAdvances
<1>3. Current = stack[1] /\ \A k \in DOMAIN stack : EntryOK(boardIndex, ptr, stack[k])
  BY <1>1, TopEntry DEF StackOK
<1>4. Stacked(stack, new, stack') BY <1>2 DEF Advances
<1>5. Passes(stack[1], new, boardIndex, boardIndex', Did(m), m) BY <1>2, <1>3 DEF Advances
<1>51. \A k \in 2 .. Len(stack) : Ahead(stack[k], boardIndex', m) = Ahead(stack[k], boardIndex, m)
  BY <1>2 DEF Advances
<1>6. /\ InTurn(stack', boardIndex', m)
      /\ Pending(stack', boardIndex', m) = Pending(stack, boardIndex, m) \ Did(m)
      /\ Did(m) \subseteq Pending(stack, boardIndex, m)
      /\ \A x \in Did(m), y \in Pending(stack', boardIndex', m) : Sooner(x, y, m)
  <2> DEFINE td2 == stack'
             bi2 == boardIndex'
             D   == Did(m)
  <2>1. /\ Stacked(stack, new, td2) /\ Passes(stack[1], new, boardIndex, bi2, D, m)
        /\ \A k \in 2 .. Len(stack) : Ahead(stack[k], bi2, m) = Ahead(stack[k], boardIndex, m)
    BY <1>4, <1>5, <1>51
  <2> HIDE DEF td2, bi2, D
  <2>2. /\ InTurn(td2, bi2, m) /\ Pending(td2, bi2, m) = Pending(stack, boardIndex, m) \ D
        /\ D \subseteq Pending(stack, boardIndex, m)
        /\ \A x \in D, y \in Pending(td2, bi2, m) : Sooner(x, y, m)
    BY <2>1, StepAhead
  <2> QED BY <2>2 DEF td2, bi2, D
<1>7. Falls(stack')
  <2>1. /\ \A i \in DOMAIN new : /\ Level(new[i].node) >= Level(stack[1].node)
                                 /\ Level(new[i].node) \in Int
        /\ Falls(new)
    BY <1>2, <1>3 DEF Advances, Rises
  <2>2. /\ Len(stack) \in Nat \ {0} /\ DOMAIN stack = 1 .. Len(stack)
        /\ Len(new) \in Nat /\ DOMAIN new = 1 .. Len(new)
    BY <1>4 DEF Stacked
  <2>3. \A k \in DOMAIN stack : Level(stack[k].node) \in Int
    <3>1. \A k \in DOMAIN stack : stack[k].node \in DOMAIN nodes /\ nodes[stack[k].node].tree = storage.tree
      BY <1>3 DEF EntryOK
    <3> QED BY <3>1, LevelRange
  <2>4. \A i \in DOMAIN stack' : \/ i \in DOMAIN new /\ stack'[i] = new[i]
                                 \/ \E k \in 2 .. Len(stack) : /\ stack'[i] = stack[k] /\ k = i - Len(new) + 1
                                                               /\ i > Len(new) /\ k \in DOMAIN stack
    BY <1>4, Position
  <2> SUFFICES ASSUME NEW j \in DOMAIN stack', NEW k \in DOMAIN stack', j < k, stack'[k].kind = "visit"
               PROVE  Level(stack'[k].node) <= Level(stack'[j].node)
    BY DEF Falls
  <2>5. j \in Int /\ k \in Int BY <1>4 DEF Stacked
  <2>6. CASE k \in DOMAIN new /\ stack'[k] = new[k]
    <3>1. k <= Len(new) BY <2>2, <2>6
    <3>2. ~(j > Len(new)) BY <2>2, <2>5, <3>1
    <3>3. j \in DOMAIN new /\ stack'[j] = new[j] BY <2>4, <3>2
    <3> QED BY <2>1, <2>6, <3>3 DEF Falls
  <2>7. ASSUME NEW l \in 2 .. Len(stack), stack'[k] = stack[l], l = k - Len(new) + 1, l \in DOMAIN stack
        PROVE  Level(stack'[k].node) <= Level(stack'[j].node)
    <3>1. CASE j \in DOMAIN new /\ stack'[j] = new[j]
      <4>1. 1 \in DOMAIN stack /\ 1 < l BY <2>2, <2>7
      <4>2. Level(stack[l].node) <= Level(stack[1].node) BY <2>7, <4>1 DEF Falls
      <4>3. Level(new[j].node) >= Level(stack[1].node) BY <2>1, <3>1
      <4>4. Level(stack[l].node) \in Int /\ Level(stack[1].node) \in Int BY <2>3, <2>7, <4>1
      <4>5. Level(new[j].node) \in Int BY <2>1, <3>1
      <4> QED BY <2>7, <3>1, <4>2, <4>3, <4>4, <4>5
    <3>2. ASSUME NEW i \in 2 .. Len(stack), stack'[j] = stack[i], i = j - Len(new) + 1, i \in DOMAIN stack
          PROVE  Level(stack'[k].node) <= Level(stack'[j].node)
      <4>1. i < l BY <2>2, <2>5, <2>7, <3>2
      <4> QED BY <2>7, <3>2, <4>1 DEF Falls
    <3> QED BY <2>4, <3>1, <3>2
  <2> QED BY <2>4, <2>6, <2>7
<1> QED BY <1>6, <1>7

-----------------------------------------------------------------------------
(* The path that is being walked                                           *)

Extended(y, r, b, v) ==
  [i \in Start .. r + 1 |-> IF i < r THEN y[i] ELSE IF i = r THEN <<y[r][1], b>> ELSE <<v, -1>>]

LEMMA PathExtended ==
  ASSUME Standing, NEW r \in Start .. storage.endRound - 1, NEW y \in Paths(r),
         nodes[y[r][1]].type = "chance", NEW v \in DOMAIN nodes, nodes[v].chance = y[r][1],
         NEW b \in Follow(Under(y, r), r), b \in Int
  PROVE  LET x == Extended(y, r, b, v)
         IN /\ x \in Paths(r + 1) /\ r + 1 \in Depths
            /\ \A i \in Start .. r - 1 : x[i] = y[i]
            /\ x[r] = <<y[r][1], b>> /\ x[r + 1] = <<v, -1>>
<1> DEFINE x == Extended(y, r, b, v)
<1>1. Start \in Nat /\ r \in Nat /\ r \in Depths /\ r + 1 \in Depths /\ r \in Start .. r
  BY Bounds DEF Start, Depths
<1>2. \A i \in Start .. r : y[i] \in (DOMAIN nodes) \X Int /\ y[i][1] \in DOMAIN nodes BY <1>1, PathTyped
<1>3. /\ \A i \in Start .. r - 1 : x[i] = y[i]
      /\ x[r] = <<y[r][1], b>> /\ x[r + 1] = <<v, -1>>
  <2>1. \A i \in Start .. r - 1 : i \in Start .. r + 1 /\ i < r BY <1>1
  <2>2. r \in Start .. r + 1 /\ r + 1 \in Start .. r + 1 /\ ~(r < r) /\ ~(r + 1 < r) /\ r + 1 # r BY <1>1
  <2> QED BY <2>1, <2>2 DEF Extended
<1>4. x \in [Start .. r + 1 -> (DOMAIN nodes) \X Int]
  <2>1. ASSUME NEW i \in Start .. r + 1
        PROVE  (IF i < r THEN y[i] ELSE IF i = r THEN <<y[r][1], b>> ELSE <<v, -1>>)
                 \in (DOMAIN nodes) \X Int
    <3>1. <<y[r][1], b>> \in (DOMAIN nodes) \X Int BY <1>1, <1>2
    <3>2. <<v, -1>> \in (DOMAIN nodes) \X Int OBVIOUS
    <3>3. i < r => y[i] \in (DOMAIN nodes) \X Int
      <4>1. i < r => i \in Start .. r BY <1>1
      <4> QED BY <1>2, <4>1
    <3> QED BY <3>1, <3>2, <3>3
  <2> QED BY <2>1 DEF Extended
<1> HIDE DEF x
<1>5. y[Start][1] = Root /\ \A i \in Start .. r - 1 : Leading(y, i) BY DEF Paths
<1>6. x[Start][1] = Root
  <2>1. CASE r = Start BY <1>3, <1>5, <2>1
  <2>2. CASE r # Start
    <3>1. Start \in Start .. r - 1 BY <1>1, <2>2
    <3> QED BY <1>3, <1>5, <3>1
  <2> QED BY <2>1, <2>2
<1>7. x[r + 1][2] = -1 BY <1>3
<1>8. ASSUME NEW i \in Start .. (r + 1) - 1 PROVE Leading(x, i)
  <2>0. i \in Int /\ Start <= i /\ i <= r BY <1>1
  <2>1. Under(x, i) = Under(y, i)
    <3>1. i # Start => i - 1 \in Start .. r - 1 BY <1>1, <2>0
    <3> QED BY <1>3, <3>1 DEF Under
  <2>2. CASE i = r
    <3>1. /\ x[i][1] = y[r][1] /\ x[i][2] = b /\ x[i + 1][1] = v BY <1>3, <2>2
    <3> QED BY <2>1, <2>2, <3>1 DEF Leading
  <2>3. CASE i # r
    <3>1. i \in Start .. r - 1 /\ (i + 1 = r \/ i + 1 \in Start .. r - 1) BY <1>1, <2>0, <2>3
    <3>2. x[i] = y[i] /\ x[i + 1][1] = y[i + 1][1] BY <1>3, <3>1
    <3>3. Leading(y, i) BY <1>5, <3>1
    <3> QED BY <2>1, <3>2, <3>3 DEF Leading
  <2> QED BY <2>2, <2>3
<1>9. x \in Paths(r + 1) BY <1>4, <1>6, <1>7, <1>8 DEF Paths
<1> QED BY <1>1, <1>3, <1>9 DEF x

LEMMA PathUnique ==
  ASSUME Standing, NEW m \in Depths, NEW x \in Paths(m), NEW y \in Paths(m), NEW bi,
         x[m][1] = y[m][1], Agrees(x, bi, m - 1), Agrees(y, bi, m - 1)
  PROVE  x = y
<1>1. Start \in Nat /\ m \in Nat /\ m \in Start .. m BY Bounds DEF Start, Depths
<1>2. \A j \in Start .. m : x[j][1] = y[j][1] BY <1>1, SameNodes
<1>3. ASSUME NEW j \in Start .. m PROVE x[j] = y[j]
  <2>1. x[j][2] = y[j][2]
    <3>1. CASE j = m BY <3>1 DEF Paths
    <3>2. CASE j # m
      <4>1. j \in Start .. m - 1 BY <1>1, <3>2
      <4> QED BY <4>1 DEF Agrees
    <3> QED BY <3>1, <3>2
  <2>2. x[j] = <<x[j][1], x[j][2]>> /\ y[j] = <<y[j][1], y[j][2]>> BY PathTyped
  <2> QED BY <1>2, <2>1, <2>2
<1>4. x \in [Start .. m -> (DOMAIN nodes) \X Int] /\ y \in [Start .. m -> (DOMAIN nodes) \X Int]
  BY DEF Paths
<1>5. x = [j \in Start .. m |-> x[j]] /\ y = [j \in Start .. m |-> y[j]] BY <1>4
<1> QED BY <1>3, <1>5

LeadsTo(x, v, bi) ==
  /\ x \in Paths(Level(v) + 1) /\ Agrees(x, bi, Level(v)) /\ x[Level(v) + 1][1] = v

LEMMA PathTo ==
  ASSUME Standing, NEW st, NEW bi, NEW pt, StackOK(st, bi, pt), NEW k \in DOMAIN st
  PROVE  Level(st[k].node) + 1 \in Depths /\ \E x : LeadsTo(x, st[k].node, bi)
<1> DEFINE N == storage.endRound - Start
           S == {d \in 0 .. N : \A j \in DOMAIN st :
                   Level(st[j].node) + 1 = Start + d => \E x : LeadsTo(x, st[j].node, bi)}
<1>1. Start \in Nat /\ storage.endRound \in Nat /\ Start < storage.endRound /\ N \in Nat
  BY Bounds DEF Start
<1>2. ASSUME NEW j \in DOMAIN st
      PROVE  LET v == st[j].node
             IN /\ v \in DOMAIN nodes /\ nodes[v].tree = storage.tree /\ Level(v) \in Int
                /\ Level(v) \in Start - 1 .. storage.endRound - 1
                /\ st[j].kind = "boards" => nodes[v].type = "chance" /\ At(bi, pt, st[j])
                /\ nodes[v].chance # 0 => Has(st, j + 1, nodes[v].chance)
                /\ nodes[v].chance # 0 => Level(v) = nodes[nodes[v].chance].round
  <2>1. EntryOK(bi, pt, st[j]) /\ Held(st, j) BY DEF StackOK
  <2>2. st[j].node \in DOMAIN nodes /\ nodes[st[j].node].tree = storage.tree BY <2>1 DEF EntryOK
  <2> QED BY <2>1, <2>2, LevelRange DEF EntryOK, Held, Level
<1>3. 0 \in S
  <2> SUFFICES ASSUME NEW j \in DOMAIN st, Level(st[j].node) + 1 = Start
               PROVE  \E x : LeadsTo(x, st[j].node, bi)
    BY <1>1
  <2> DEFINE v == st[j].node
             x == [i \in Start .. Start |-> <<v, -1>>]
  <2>1. /\ v \in DOMAIN nodes /\ nodes[v].tree = storage.tree /\ Level(v) \in Int
        /\ nodes[v].chance # 0 => Has(st, j + 1, nodes[v].chance)
    BY <1>2
  <2>2. nodes[v].chance = 0
    <3> SUFFICES ASSUME nodes[v].chance # 0 PROVE FALSE OBVIOUS
    <3>1. nodes[v].chance \in DOMAIN nodes /\ nodes[nodes[v].chance].type = "chance"
          /\ nodes[nodes[v].chance].tree = storage.tree
      BY <2>1, ChanceTree DEF Standing
    <3>2. nodes[nodes[v].chance].round \in Start .. storage.endRound - 1
      BY <3>1, ChanceRounds DEF Start
    <3>3. Level(v) = nodes[nodes[v].chance].round BY DEF Level
    <3> QED BY <1>1, <3>2, <3>3
  <2>3. v = Root BY <2>1, <2>2, RootOnly
  <2>4. Level(v) + 1 = Start /\ Level(v) < Start BY <1>1, <2>1
  <2> HIDE DEF v
  <2>5. x \in [Start .. Start -> (DOMAIN nodes) \X Int] /\ x[Start] = <<v, -1>>
    BY <1>1, <2>1
  <2> HIDE DEF x
  <2>6. x \in Paths(Start)
    <3>1. x[Start][1] = Root /\ x[Start][2] = -1 BY <2>3, <2>5
    <3>2. \A i \in Start .. Start - 1 : FALSE BY <1>1
    <3> QED BY <2>5, <3>1, <3>2 DEF Paths
  <2>7. Agrees(x, bi, Level(v)) BY <1>1, <2>1, <2>4 DEF Agrees
  <2>8. LeadsTo(x, v, bi) BY <2>4, <2>5, <2>6, <2>7 DEF LeadsTo
  <2> QED BY <2>8 DEF v
<1>4. ASSUME NEW d \in 0 .. N - 1, d \in S PROVE d + 1 \in S
  <2> DEFINE r == Start + d
  <2>1. r \in Start .. storage.endRound - 1 /\ r \in Nat /\ Start + (d + 1) = r + 1 /\ d + 1 \in 0 .. N
        /\ r + 1 # Start
    BY <1>1
  <2> HIDE DEF N
  <2>2. ASSUME NEW j \in DOMAIN st, Level(st[j].node) + 1 = r + 1
        PROVE  \E x : LeadsTo(x, st[j].node, bi)
    <3> DEFINE v == st[j].node
               c == nodes[v].chance
    <3>1. /\ v \in DOMAIN nodes /\ Level(v) \in Int /\ Level(v) = r
          /\ c # 0 => Has(st, j + 1, c) /\ Level(v) = nodes[c].round
      <4>1. /\ v \in DOMAIN nodes /\ Level(v) \in Int
            /\ c # 0 => Has(st, j + 1, c) /\ Level(v) = nodes[c].round
        BY <1>2
      <4> QED BY <2>1, <2>2, <4>1
    <3>2. c # 0
      <4>1. c = 0 => Level(v) = Start - 1 BY DEF Level, Start
      <4> QED BY <1>1, <2>1, <3>1, <4>1
    <3>3. PICK i \in DOMAIN st : st[i].kind = "boards" /\ st[i].node = c BY <3>1, <3>2 DEF Has
    <3>4. /\ nodes[c].type = "chance" /\ At(bi, pt, st[i]) /\ c \in DOMAIN nodes
          /\ nodes[c].tree = storage.tree /\ nodes[c].round = r
      BY <1>2, <3>1, <3>2, <3>3
    <3>5. Level(c) = r - 1 /\ Level(c) + 1 = r
      <4>1. Level(c) = r - 1 BY <3>4, ChanceRounds
      <4> QED BY <2>1, <4>1
    <3>6. PICK y : LeadsTo(y, c, bi) BY <1>4, <3>3, <3>5
    <3>7. y \in Paths(r) /\ Agrees(y, bi, r - 1) /\ y[r][1] = c BY <3>5, <3>6 DEF LeadsTo
    <3>8. bi[r] \in Follow(Under(y, r), r) /\ bi[r] \in Int
      <4>1. Under(y, r) = AboveIn(bi, r)
        <5>1. r # Start => r - 1 \in Start .. r - 1 BY <1>1, <2>1
        <5> QED BY <3>7, <5>1 DEF Under, AboveIn, Agrees, Start
      <4>2. /\ bi[r] \in FirstBoard(r, AboveIn(bi, r)) .. EndBoard(r, AboveIn(bi, r)) - 1
            /\ FirstBoard(r, AboveIn(bi, r)) \in Nat /\ EndBoard(r, AboveIn(bi, r)) \in Nat
        BY <3>3, <3>4 DEF At, Open
      <4> QED BY <4>1, <4>2 DEF Follow
    <3> DEFINE x == Extended(y, r, bi[r], v)
    <3>9. /\ x \in Paths(r + 1)
          /\ \A l \in Start .. r - 1 : x[l] = y[l]
          /\ x[r] = <<y[r][1], bi[r]>> /\ x[r + 1] = <<v, -1>>
      <4> HIDE DEF r, v
      <4>1. nodes[v].chance = y[r][1] /\ nodes[y[r][1]].type = "chance" BY <3>4, <3>7
      <4> QED BY <2>1, <3>1, <3>7, <3>8, <4>1, PathExtended
    <3> HIDE DEF x, r
    <3>10. Agrees(x, bi, r)
      <4> SUFFICES ASSUME NEW l \in Start .. r PROVE x[l][2] = bi[l] BY DEF Agrees
      <4>1. CASE l = r BY <3>9, <4>1
      <4>2. CASE l # r
        <5>1. l \in Start .. r - 1 BY <1>1, <2>1, <4>2
        <5> QED BY <3>7, <3>9, <5>1 DEF Agrees
      <4> QED BY <4>1, <4>2
    <3>11. x[r + 1][1] = v BY <3>9
    <3>12. LeadsTo(x, v, bi) BY <3>1, <3>9, <3>10, <3>11 DEF LeadsTo
    <3> QED BY <3>12
  <2> HIDE DEF r
  <2> QED BY <2>1, <2>2
<1> HIDE DEF S
<1>5. 0 .. N \subseteq S BY <1>1, <1>3, <1>4, Induction
<1> DEFINE d == Level(st[k].node) + 1 - Start
<1>6. d \in 0 .. N /\ Level(st[k].node) + 1 = Start + d /\ Level(st[k].node) + 1 \in Depths
  <2>1. Level(st[k].node) \in Int /\ Level(st[k].node) \in Start - 1 .. storage.endRound - 1 BY <1>2
  <2> QED BY <1>1, <2>1 DEF Depths
<1> HIDE DEF d
<1>7. d \in S BY <1>5, <1>6
<1> QED BY <1>6, <1>7 DEF S

-----------------------------------------------------------------------------
(* The streams of a subgame                                                *)

DealtRounds == Start .. storage.endRound - 1

ChanceSpots(r) == {x \in Paths(r) : nodes[x[r][1]].type = "chance"}
DoneIn(st, bi, r) == ChanceSpots(r) \ Pending(st, bi, r)

BlockOf(x, r)  == <<x[r][1], Under(x, r)>>
BlocksOf(S, r) == [k \in 1 .. Len(S) |-> BlockOf(S[k], r)]

(* S has the paths of X in their order. *)
Lists(S, r, X) ==
  /\ S \in Seq(Paths(r)) /\ \A k \in DOMAIN S : S[k] \in X
  /\ \A x \in X : \E k \in DOMAIN S : S[k] = x
  /\ \A j, k \in DOMAIN S : j < k => Sooner(S[j], S[k], r)

LEMMA ListsMore ==
  ASSUME NEW r, NEW S, NEW X, Lists(S, r, X), NEW x \in Paths(r), \A y \in X : Sooner(y, x, r)
  PROVE  /\ Lists(Append(S, x), r, X \cup {x}) /\ Len(Append(S, x)) = Len(S) + 1 /\ Len(S) \in Nat
         /\ Append(S, x)[Len(S) + 1] = x
         /\ BlocksOf(Append(S, x), r) = Append(BlocksOf(S, r), BlockOf(x, r))
<1> DEFINE S2 == Append(S, x)
<1>1. S \in Seq(Paths(r)) /\ Len(S) \in Nat /\ DOMAIN S = 1 .. Len(S) BY DEF Lists
<1>2. /\ S2 \in Seq(Paths(r)) /\ Len(S2) = Len(S) + 1 /\ DOMAIN S2 = 1 .. Len(S) + 1
      /\ S2[Len(S) + 1] = x /\ \A k \in 1 .. Len(S) : S2[k] = S[k]
  BY <1>1, AppendProperties
<1> HIDE DEF S2
<1>3. \A k \in DOMAIN S2 : k \in DOMAIN S \/ k = Len(S) + 1 BY <1>1, <1>2
<1>4. \A k \in DOMAIN S2 : S2[k] \in X \cup {x} BY <1>1, <1>2, <1>3 DEF Lists
<1>5. ASSUME NEW y \in X \cup {x} PROVE \E k \in DOMAIN S2 : S2[k] = y
  <2>1. CASE y = x BY <1>1, <1>2, <2>1
  <2>2. CASE y \in X
    <3>1. PICK k \in DOMAIN S : S[k] = y BY <2>2 DEF Lists
    <3>2. k \in DOMAIN S2 /\ k \in 1 .. Len(S) BY <1>1, <1>2
    <3> QED BY <1>2, <3>1, <3>2
  <2> QED BY <2>1, <2>2
<1>6. ASSUME NEW j \in DOMAIN S2, NEW k \in DOMAIN S2, j < k PROVE Sooner(S2[j], S2[k], r)
  <2>1. j \in DOMAIN S BY <1>1, <1>2, <1>6
  <2>2. S2[j] = S[j] /\ S[j] \in X BY <1>1, <1>2, <2>1 DEF Lists
  <2>3. CASE k = Len(S) + 1 BY <1>2, <2>2, <2>3
  <2>4. CASE k \in DOMAIN S
    <3>1. S2[k] = S[k] BY <1>1, <1>2, <2>4
    <3> QED BY <1>6, <2>1, <2>2, <2>4, <3>1 DEF Lists
  <2> QED BY <1>3, <2>3, <2>4
<1>7. Lists(S2, r, X \cup {x}) BY <1>2, <1>4, <1>5, <1>6 DEF Lists
<1>8. BlocksOf(S2, r) = Append(BlocksOf(S, r), BlockOf(x, r))
  <2> DEFINE B(k) == BlockOf(S2[k], r)
             T == {BlockOf(y, r) : y \in Paths(r)}
             b == BlocksOf(S, r)
             c == BlockOf(x, r)
             a == Append(b, c)
  <2>1. b \in [1 .. Len(S) -> T]
    <3>1. \A k \in 1 .. Len(S) : S[k] \in Paths(r) BY <1>1
    <3> QED BY <3>1 DEF BlocksOf
  <2>2. c \in T OBVIOUS
  <2>3. BlocksOf(S2, r) = [k \in 1 .. Len(S) + 1 |-> B(k)] BY <1>2 DEF BlocksOf
  <2>4. \A k \in 1 .. Len(S) : b[k] = B(k) BY <1>2 DEF BlocksOf
  <2>5. B(Len(S) + 1) = c BY <1>2
  <2> HIDE DEF T, b, B, c
  <2>6. b \in Seq(T) /\ Len(b) = Len(S)
    <3>1. b \in Seq(T) /\ DOMAIN b = 1 .. Len(S) BY <1>1, <2>1, SeqOfFunction
    <3> QED BY <1>1, <3>1
  <2>7. /\ a \in Seq(T) /\ Len(a) = Len(S) + 1 /\ DOMAIN a = 1 .. Len(S) + 1
        /\ a[Len(S) + 1] = c /\ \A k \in 1 .. Len(S) : a[k] = b[k]
    BY <2>2, <2>6, AppendProperties
  <2> HIDE DEF a
  <2>8. ASSUME NEW k \in 1 .. Len(S) + 1 PROVE a[k] = B(k)
    <3>1. k \in 1 .. Len(S) \/ k = Len(S) + 1 BY <1>1
    <3> QED BY <2>4, <2>5, <2>7, <3>1
  <2>9. a = [k \in 1 .. Len(S) + 1 |-> a[k]]
    <3>1. a \in [1 .. Len(S) + 1 -> T] BY <2>7
    <3> QED BY <3>1
  <2>10. a = [k \in 1 .. Len(S) + 1 |-> B(k)] BY <2>8, <2>9
  <2> QED BY <2>3, <2>10 DEF a, b, c
<1> QED BY <1>1, <1>2, <1>7, <1>8 DEF S2

(* What is not in P comes before what is. *)
Parted(X, P, r) == \A x \in X \ P, y \in X \cap P : Sooner(x, y, r)

(* A list that has what comes before the rest begins every list of all.    *)
LEMMA ListBegins ==
  ASSUME Standing, NEW r \in Depths, NEW F, NEW X, Lists(F, r, X), NEW S, NEW P,
         Lists(S, r, X \ P), X \subseteq Paths(r), Parted(X, P, r)
  PROVE  /\ Len(S) \in Nat /\ Len(F) \in Nat /\ Len(S) <= Len(F) /\ \A k \in 1 .. Len(S) : F[k] = S[k]
         /\ X \cap P = {} => Len(S) = Len(F)
<1>1. /\ Len(S) \in Nat /\ DOMAIN S = 1 .. Len(S) /\ Len(F) \in Nat /\ DOMAIN F = 1 .. Len(F)
  BY DEF Lists
<1>2. ASSUME NEW x \in X, NEW y \in X, Sooner(x, y, r) PROVE ~Sooner(y, x, r) /\ x # y
  BY <1>2, SoonerStrict
<1>3. /\ \A k \in DOMAIN F : F[k] \in X
      /\ \A x \in X : \E k \in DOMAIN F : F[k] = x
      /\ \A j, k \in DOMAIN F : j < k => Sooner(F[j], F[k], r)
  BY DEF Lists
<1>4. /\ \A k \in DOMAIN S : S[k] \in X /\ S[k] \notin P
      /\ \A x \in X \ P : \E k \in DOMAIN S : S[k] = x
      /\ \A j, k \in DOMAIN S : j < k => Sooner(S[j], S[k], r)
  BY DEF Lists
<1> DEFINE A == {n \in 0 .. Len(S) : n <= Len(F) /\ \A k \in 1 .. n : F[k] = S[k]}
<1>5. 0 \in A BY <1>1
<1>6. ASSUME NEW n \in 0 .. Len(S) - 1, n \in A PROVE n + 1 \in A
  <2> DEFINE s == n + 1
  <2>1. /\ s \in DOMAIN S /\ n <= Len(F) /\ \A k \in 1 .. n : F[k] = S[k] /\ k \in DOMAIN S /\ k \in DOMAIN F
        /\ n \in Nat /\ s \in Nat /\ \A k \in 1 .. n : k < s
    BY <1>1, <1>6
  <2>2. PICK l \in DOMAIN F : F[l] = S[s] BY <1>3, <1>4, <2>1
  <2>3. l >= s
    <3> SUFFICES ASSUME ~(l >= s) PROVE FALSE OBVIOUS
    <3>1. l \in 1 .. n BY <1>1, <2>1
    <3>2. S[l] = S[s] /\ Sooner(S[l], S[s], r) /\ S[l] \in X /\ S[s] \in X BY <1>4, <2>1, <2>2, <3>1
    <3> QED BY <1>2, <3>2
  <2>4. s \in DOMAIN F BY <1>1, <2>1, <2>3
  <2>5. l = s
    <3> SUFFICES ASSUME l # s PROVE FALSE OBVIOUS
    <3>1. s < l BY <1>1, <2>1, <2>3
    <3>2. Sooner(F[s], S[s], r) /\ F[s] \in X /\ S[s] \in X /\ S[s] \notin P
      BY <1>3, <1>4, <2>1, <2>2, <2>4, <3>1
    <3>3. CASE F[s] \in P
      <4>1. Sooner(S[s], F[s], r) BY <3>2, <3>3 DEF Parted
      <4> QED BY <1>2, <3>2, <4>1
    <3>4. CASE F[s] \notin P
      <4>1. PICK k \in DOMAIN S : S[k] = F[s] BY <1>4, <3>2, <3>4
      <4>2. CASE k = s BY <1>2, <3>2, <4>1, <4>2
      <4>3. CASE k > s
        <5>1. Sooner(S[s], S[k], r) BY <1>4, <2>1, <4>3
        <5> QED BY <1>2, <3>2, <4>1, <5>1
      <4>4. CASE k < s
        <5>1. k \in 1 .. n BY <1>1, <2>1, <4>4
        <5>2. F[k] = S[k] /\ k \in DOMAIN F BY <2>1, <5>1
        <5>3. Sooner(F[k], F[s], r) BY <1>3, <2>4, <4>4, <5>2
        <5>4. F[k] = F[s] BY <4>1, <5>2
        <5> QED BY <1>2, <3>2, <5>3, <5>4
      <4>5. k \in Nat BY <1>1
      <4> QED BY <2>1, <4>2, <4>3, <4>4, <4>5
    <3> QED BY <3>3, <3>4
  <2>6. F[s] = S[s] BY <2>2, <2>5
  <2>7. \A k \in 1 .. s : F[k] = S[k]
    <3>1. \A k \in 1 .. s : k \in 1 .. n \/ k = s BY <2>1
    <3> QED BY <2>1, <2>6, <3>1
  <2>8. s <= Len(F) /\ s \in 0 .. Len(S) BY <1>1, <2>1, <2>4
  <2> HIDE DEF s
  <2>9. s \in A BY <2>7, <2>8
  <2> QED BY <2>9 DEF s
<1> HIDE DEF A
<1>7. 0 .. Len(S) \subseteq A BY <1>1, <1>5, <1>6, Induction
<1>8. Len(S) \in A BY <1>1, <1>7
<1>9. Len(S) <= Len(F) /\ \A k \in 1 .. Len(S) : F[k] = S[k] BY <1>8 DEF A
<1>10. ASSUME X \cap P = {} PROVE ~(Len(S) < Len(F))
  <2> SUFFICES ASSUME Len(S) < Len(F) PROVE FALSE OBVIOUS
  <2> DEFINE l == Len(S)
             e == l + 1
  <2>1. l \in Nat /\ Len(F) \in Nat /\ l < Len(F) /\ DOMAIN S = 1 .. l BY <1>1
  <2> HIDE DEF l
  <2>2. e \in 1 .. Len(F) /\ e \in Nat BY <2>1
  <2>3. \A k \in 1 .. l : k < e /\ k \in 1 .. Len(F) BY <2>1
  <2> HIDE DEF e
  <2>4. e \in DOMAIN F /\ \A k \in DOMAIN S : k < e /\ k \in DOMAIN F BY <1>1, <2>1, <2>2, <2>3
  <2>5. F[e] \in X /\ F[e] \notin P BY <1>3, <1>10, <2>4
  <2>6. PICK k \in DOMAIN S : S[k] = F[e] BY <1>4, <2>5
  <2>7. F[k] = S[k] BY <1>1, <1>9, <2>6
  <2>8. F[k] = F[e] /\ Sooner(F[k], F[e], r) /\ F[k] \in X BY <1>3, <2>4, <2>6, <2>7
  <2> QED BY <1>2, <2>5, <2>8
<1>11. X \cap P = {} => Len(S) = Len(F)
  <2>1. \A a, b \in Nat : (a <= b /\ ~(a < b)) => a = b OBVIOUS
  <2> QED BY <1>1, <1>9, <1>10, <2>1
<1> QED BY <1>1, <1>9, <1>11

-----------------------------------------------------------------------------
(* Steps of the open chance nodes                                          *)

(* The chance nodes of round r whose boards are being tried. *)
OpenNodes(st, r) ==
  {n \in DOMAIN nodes : nodes[n].round = r /\ \E i \in DOMAIN st : st[i].kind = "boards" /\ st[i].node = n}

LEMMA StartIsDepth ==
  ASSUME Standing PROVE Start \in Depths /\ \A r \in DealtRounds : r \in Depths /\ r \in Rounds /\ r \in Nat
BY Bounds DEF Start, Depths, DealtRounds

LEMMA FramesMove ==
  ASSUME Standing, StackOK(stack, boardIndex, ptr), boardIndex \in [Rounds -> Nat], Falls(stack), Moves
  PROVE  /\ \A i \in DOMAIN stack' : stack'[i].kind = "boards" =>
              \/ (WalkChance \/ NextBoard) /\ stack'[i].node = Current.node
              \/ \E k \in 2 .. Len(stack) : stack'[i] = stack[k]
         /\ \A k \in 2 .. Len(stack) : \E i \in DOMAIN stack' : stack'[i] = stack[k]
         /\ WalkChance \/ NextBoard =>
              \E i \in DOMAIN stack' : stack'[i].kind = "boards" /\ stack'[i].node = Current.node
<1>1. PICK new : Advances(new, Start) BY StepAdvances, StartIsDepth
<1> DEFINE td2 == stack'
<1>2. Stacked(stack, new, td2) /\ Holds(new) BY <1>1 DEF Advances
<1> HIDE DEF td2
<1>3. ASSUME NEW i \in DOMAIN td2, td2[i].kind = "boards"
      PROVE  \/ (WalkChance \/ NextBoard) /\ td2[i].node = Current.node
             \/ \E k \in 2 .. Len(stack) : td2[i] = stack[k]
  <2>1. \/ i \in DOMAIN new /\ td2[i] = new[i]
        \/ \E k \in 2 .. Len(stack) : td2[i] = stack[k]
    BY <1>2, Position
  <2> QED BY <1>2, <1>3, <2>1 DEF Holds
<1>4. ASSUME NEW k \in 2 .. Len(stack) PROVE \E i \in DOMAIN td2 : td2[i] = stack[k]
  <2>1. Len(new) + k - 1 \in DOMAIN td2 BY <1>2 DEF Stacked
  <2> QED BY <1>2, <2>1 DEF Stacked
<1>5. ASSUME WalkChance \/ NextBoard
      PROVE  \E i \in DOMAIN td2 : td2[i].kind = "boards" /\ td2[i].node = Current.node
  <2>1. PICK i \in DOMAIN new : new[i].kind = "boards" BY <1>2, <1>5 DEF Holds
  <2>2. i \in DOMAIN td2 /\ td2[i] = new[i] BY <1>2 DEF Stacked
  <2> QED BY <1>2, <2>1, <2>2 DEF Holds
<1> QED BY <1>3, <1>4, <1>5 DEF td2

(* Below the top, boards of earlier rounds are tried. *)
LEMMA FramesBelow ==
  ASSUME Standing, StackOK(stack, boardIndex, ptr), stack # <<>>
  PROVE  \A k \in 2 .. Len(stack) : stack[k].kind = "boards" =>
           /\ stack[k].node \in DOMAIN nodes /\ nodes[stack[k].node].type = "chance"
           /\ nodes[stack[k].node].tree = storage.tree
           /\ nodes[stack[k].node].round \in DealtRounds
           /\ Level(stack[k].node) = nodes[stack[k].node].round - 1
           /\ Node.type = "chance" => /\ nodes[stack[k].node].round < Node.round
                                      /\ Node.round \in DealtRounds
<1> SUFFICES ASSUME NEW k \in 2 .. Len(stack), stack[k].kind = "boards"
             PROVE  /\ stack[k].node \in DOMAIN nodes /\ nodes[stack[k].node].type = "chance"
                    /\ nodes[stack[k].node].tree = storage.tree
                    /\ nodes[stack[k].node].round \in DealtRounds
                    /\ Level(stack[k].node) = nodes[stack[k].node].round - 1
                    /\ Node.type = "chance" => /\ nodes[stack[k].node].round < Node.round
                                               /\ Node.round \in DealtRounds
  OBVIOUS
<1>1. /\ Len(stack) \in Nat \ {0} /\ DOMAIN stack = 1 .. Len(stack) /\ Current = stack[1]
      /\ Current.node \in DOMAIN nodes /\ nodes[Current.node].tree = storage.tree
      /\ Node = nodes[Current.node] /\ NoneLater(stack, 2, Current.node)
  BY TopEntry
<1>2. k \in DOMAIN stack /\ k >= 2 BY <1>1
<1>3. EntryOK(boardIndex, ptr, stack[k]) BY <1>2 DEF StackOK
<1>4. /\ stack[k].node \in DOMAIN nodes /\ nodes[stack[k].node].type = "chance"
      /\ nodes[stack[k].node].tree = storage.tree
  BY <1>3 DEF EntryOK
<1>5. /\ nodes[stack[k].node].round \in DealtRounds
      /\ Level(stack[k].node) = nodes[stack[k].node].round - 1
  BY <1>4, ChanceRounds DEF DealtRounds, Start
<1>6. ASSUME Node.type = "chance" PROVE nodes[stack[k].node].round < Node.round /\ Node.round \in DealtRounds
  <2>1. Level(Current.node) = Node.round - 1 /\ Node.round \in DealtRounds
    BY <1>1, <1>6, ChanceRounds DEF DealtRounds, Start
  <2>2. nodes[stack[k].node].round <= Level(Current.node) BY <1>1, <1>2 DEF NoneLater
  <2>3. Node.round \in Nat /\ nodes[stack[k].node].round \in Nat BY <1>5, <2>1, StartIsDepth
  <2> QED BY <2>1, <2>2, <2>3
<1> QED BY <1>4, <1>5, <1>6

LEMMA MoveKinds ==
  ASSUME StackOK(stack, boardIndex, ptr), Moves
  PROVE  /\ stack # <<>>
         /\ Current.kind = "boards" <=> (NextBoard \/ LeaveChance)
         /\ (WalkChance \/ NextBoard \/ LeaveChance) <=> Node.type = "chance"
         /\ WalkChance => ~NextBoard
         /\ LeaveChance => ~(WalkChance \/ NextBoard)
<1>1. stack # <<>> BY DEF Moves, WalkEnd, WalkChoice, WalkChance, NextBoard, LeaveChance, Visiting, Dealing
<1>2. Dealing => Node.type = "chance" /\ Current.kind = "boards" BY DealingFacts DEF Dealing
<1>3. WalkEnd \/ WalkChoice \/ WalkChance => Current.kind = "visit"
  BY DEF WalkEnd, WalkChoice, WalkChance, Visiting
<1>4. /\ WalkEnd => Node.type \in {"leaf", "subgame"}
      /\ WalkChoice => Node.type = "choice" /\ (WalkChance => Node.type = "chance")
  BY DEF WalkEnd, WalkChoice, WalkChance, Visiting
<1>5. WalkChance => Node.type = "chance" BY DEF WalkChance, Visiting
<1>6. /\ NextBoard => Dealing /\ MoreBoards(Node.round)
      /\ LeaveChance => Dealing /\ ~MoreBoards(Node.round)
  BY DEF NextBoard, LeaveChance
<1> QED BY <1>1, <1>2, <1>3, <1>4, <1>5, <1>6 DEF Moves

LEMMA OpenMoves ==
  ASSUME Standing, StackOK(stack, boardIndex, ptr), boardIndex \in [Rounds -> Nat], Falls(stack), Moves,
         NEW r
  PROVE  /\ \A n : n # Current.node => (n \in OpenNodes(stack', r) <=> n \in OpenNodes(stack, r))
         /\ Current.node \in OpenNodes(stack', r) <=> ((WalkChance \/ NextBoard) /\ r = Node.round)
         /\ Current.node \in OpenNodes(stack, r) <=> ((NextBoard \/ LeaveChance) /\ r = Node.round)
         /\ (Node.type = "chance" /\ r = Node.round) =>
              \A n \in OpenNodes(stack, r) : n = Current.node
         /\ (Node.type = "chance" /\ r = Node.round) =>
              \A n \in OpenNodes(stack', r) : n = Current.node
<1> DEFINE td2 == stack'
<1>1. /\ \A i \in DOMAIN td2 : td2[i].kind = "boards" =>
              \/ (WalkChance \/ NextBoard) /\ td2[i].node = Current.node
              \/ \E k \in 2 .. Len(stack) : td2[i] = stack[k]
      /\ \A k \in 2 .. Len(stack) : \E i \in DOMAIN td2 : td2[i] = stack[k]
      /\ WalkChance \/ NextBoard =>
              \E i \in DOMAIN td2 : td2[i].kind = "boards" /\ td2[i].node = Current.node
  BY FramesMove
<1> HIDE DEF td2
<1>2. /\ stack # <<>>
      /\ Current.kind = "boards" <=> (NextBoard \/ LeaveChance)
      /\ (WalkChance \/ NextBoard \/ LeaveChance) <=> Node.type = "chance"
  BY MoveKinds
<1>3. /\ Len(stack) \in Nat \ {0} /\ DOMAIN stack = 1 .. Len(stack) /\ Current = stack[1]
      /\ Current.node \in DOMAIN nodes /\ Node = nodes[Current.node]
  BY <1>2, TopEntry
<1>4. \A k \in 2 .. Len(stack) : stack[k].kind = "boards" =>
        /\ stack[k].node \in DOMAIN nodes /\ nodes[stack[k].node].type = "chance"
        /\ nodes[stack[k].node].round \in DealtRounds
        /\ Node.type = "chance" => nodes[stack[k].node].round < Node.round
  BY <1>2, FramesBelow
<1>5. \A q \in DealtRounds : q \in Nat /\ ~(q < q) BY StartIsDepth
<1>6. \A k \in 2 .. Len(stack) : stack[k].kind = "boards" => stack[k].node # Current.node
  BY <1>3, <1>4, <1>5
<1>7. \A i \in DOMAIN stack : i = 1 \/ i \in 2 .. Len(stack) BY <1>3
<1>8. \A k \in 2 .. Len(stack) : k \in DOMAIN stack BY <1>3
<1>9. 1 \in DOMAIN stack BY <1>3
<1>10. ASSUME NEW n, n # Current.node PROVE n \in OpenNodes(td2, r) <=> n \in OpenNodes(stack, r)
  <2>1. ASSUME n \in OpenNodes(td2, r) PROVE n \in OpenNodes(stack, r)
    BY <1>1, <1>8, <1>10, <2>1 DEF OpenNodes
  <2>2. ASSUME n \in OpenNodes(stack, r) PROVE n \in OpenNodes(td2, r)
    <3>1. PICK i \in DOMAIN stack : stack[i].kind = "boards" /\ stack[i].node = n
      BY <2>2 DEF OpenNodes
    <3>2. i \in 2 .. Len(stack) BY <1>3, <1>7, <1>10, <3>1
    <3>3. PICK j \in DOMAIN td2 : td2[j] = stack[i] BY <1>1, <3>2
    <3> QED BY <2>2, <3>1, <3>3 DEF OpenNodes
  <2> QED BY <2>1, <2>2
<1>11. Current.node \in OpenNodes(td2, r) <=> ((WalkChance \/ NextBoard) /\ r = Node.round)
  BY <1>1, <1>3, <1>6 DEF OpenNodes
<1>12. Current.node \in OpenNodes(stack, r) <=> ((NextBoard \/ LeaveChance) /\ r = Node.round)
  BY <1>2, <1>3, <1>6, <1>7, <1>9 DEF OpenNodes
<1>13. ASSUME Node.type = "chance", r = Node.round, NEW n \in OpenNodes(stack, r)
       PROVE n = Current.node
  <2>1. PICK i \in DOMAIN stack : stack[i].kind = "boards" /\ stack[i].node = n /\ nodes[n].round = r
    BY DEF OpenNodes
  <2>2. i \notin 2 .. Len(stack) BY <1>4, <1>5, <1>13, <2>1
  <2> QED BY <1>3, <1>7, <2>1, <2>2
<1>14. ASSUME Node.type = "chance", r = Node.round, NEW n \in OpenNodes(td2, r)
       PROVE n = Current.node
  BY <1>10, <1>13, <1>14
<1> QED BY <1>10, <1>11, <1>12, <1>13, <1>14 DEF td2

(* A step changes the board of the chance node on top only. *)
LEMMA BoardMoves ==
  ASSUME Standing, StackOK(stack, boardIndex, ptr), boardIndex \in [Rounds -> Nat], Moves
  PROVE  /\ Node.type # "chance" => boardIndex' = boardIndex
         /\ \A q : q # Node.round => boardIndex'[q] = boardIndex[q]
<1>1. Node.type # "chance" => boardIndex' = boardIndex
  <2>1. ~(WalkChance \/ NextBoard) => boardIndex' = boardIndex
    BY DEF Moves, WalkEnd, WalkChoice, LeaveChance
  <2> QED BY <2>1, MoveKinds
<1>2. ASSUME NEW q, q # Node.round PROVE boardIndex'[q] = boardIndex[q]
  <2>1. CASE WalkChance BY <1>2, <2>1 DEF WalkChance
  <2>2. CASE NextBoard BY <1>2, <2>2 DEF NextBoard
  <2>3. CASE ~(WalkChance \/ NextBoard) BY <2>3 DEF Moves, WalkEnd, WalkChoice, LeaveChance
  <2> QED BY <2>1, <2>2, <2>3
<1> QED BY <1>1, <1>2

LEMMA LeadsOn ==
  ASSUME NEW x, NEW v, NEW bi, NEW bi2, LeadsTo(x, v, bi), \A q \in Start .. Level(v) : bi2[q] = bi[q]
  PROVE  LeadsTo(x, v, bi2)
BY DEF LeadsTo, Agrees

LEMMA OpenStaysLed ==
  ASSUME Standing, StackOK(stack, boardIndex, ptr), boardIndex \in [Rounds -> Nat], Moves,
         NEW r, NEW n \in OpenNodes(stack, r), NEW x, LeadsTo(x, n, boardIndex)
  PROVE  LeadsTo(x, n, boardIndex')
<1>1. PICK i \in DOMAIN stack : stack[i].kind = "boards" /\ stack[i].node = n BY DEF OpenNodes
<1>2. stack # <<>> BY MoveKinds
<1>3. /\ Len(stack) \in Nat \ {0} /\ DOMAIN stack = 1 .. Len(stack) /\ Current = stack[1]
      /\ Current.node \in DOMAIN nodes /\ Node = nodes[Current.node]
      /\ nodes[Current.node].tree = storage.tree
  BY <1>2, TopEntry
<1> DEFINE bi2 == boardIndex'
<1>4. /\ Node.type # "chance" => bi2 = boardIndex
      /\ \A q : q # Node.round => bi2[q] = boardIndex[q]
  BY BoardMoves
<1>5. Start \in Nat /\ \A q \in DealtRounds : q \in Nat
  BY Bounds, StartIsDepth DEF Start, DealtRounds
<1>6. \A q \in Start .. Level(n) : bi2[q] = boardIndex[q]
  <2>1. CASE Node.type # "chance" BY <1>4, <2>1
  <2>2. CASE Node.type = "chance" /\ i \in 2 .. Len(stack)
    <3>1. /\ nodes[n].round \in DealtRounds /\ Level(n) = nodes[n].round - 1
          /\ nodes[n].round < Node.round /\ Node.round \in DealtRounds
      BY <1>1, <1>2, <2>2, FramesBelow
    <3>2. Level(n) \in Int /\ Level(n) < Node.round BY <1>5, <3>1
    <3>3. \A q \in Start .. Level(n) : q # Node.round BY <1>5, <3>1, <3>2
    <3> QED BY <1>4, <3>3
  <2>3. CASE Node.type = "chance" /\ i = 1
    <3>1. Level(n) = Node.round - 1 /\ Node.round \in DealtRounds
      BY <1>1, <1>3, <2>3, ChanceRounds DEF DealtRounds, Start
    <3>2. \A q \in Start .. Level(n) : q # Node.round BY <1>5, <3>1
    <3> QED BY <1>4, <3>2
  <2>4. i = 1 \/ i \in 2 .. Len(stack) BY <1>3
  <2> QED BY <2>1, <2>2, <2>3, <2>4
<1> HIDE DEF bi2
<1>7. LeadsTo(x, n, bi2) BY <1>6, LeadsOn
<1> QED BY <1>7 DEF bi2

(* What a step does on round r is the chance node that it begins with. *)
LEMMA ChanceDid ==
  ASSUME Standing, StackOK(stack, boardIndex, ptr), Moves, NEW r \in DealtRounds
  PROVE  /\ (WalkChance /\ r = Node.round) =>
              \E x \in ChanceSpots(r) : LeadsTo(x, Current.node, boardIndex) /\ Did(r) = {x}
         /\ ~(WalkChance /\ r = Node.round) => Did(r) \cap ChanceSpots(r) = {}
<1>0. r \in Depths /\ r \in Rounds /\ r \in Nat BY StartIsDepth
<1>1. stack # <<>> BY MoveKinds
<1>2. /\ 1 \in DOMAIN stack /\ Current = stack[1] /\ Current.node \in DOMAIN nodes
      /\ Node = nodes[Current.node] /\ nodes[Current.node].tree = storage.tree
  BY <1>1, TopEntry
<1> DEFINE n == Current.node
<1>3. ASSUME WalkChance, r = Node.round
      PROVE  \E x \in ChanceSpots(r) : LeadsTo(x, n, boardIndex) /\ Did(r) = {x}
  <2>1. Node.type = "chance" /\ Current.kind = "visit" BY <1>3 DEF WalkChance, Visiting
  <2>2. Level(n) = r - 1 BY <1>2, <1>3, <2>1, ChanceRounds
  <2>3. PICK x : LeadsTo(x, n, boardIndex) BY <1>2, PathTo
  <2>4. r - 1 + 1 = r /\ r - 1 < r BY <1>0
  <2>5. x \in Paths(r) /\ Agrees(x, boardIndex, r - 1) /\ x[r][1] = n BY <2>2, <2>3, <2>4 DEF LeadsTo
  <2>6. x \in ChanceSpots(r) BY <1>2, <2>1, <2>5 DEF ChanceSpots
  <2>7. n \in Kids(n) BY <1>2, KidSelf DEF Standing
  <2>8. Ahead(Current, boardIndex, r) = VisitSpots(n, boardIndex, r) BY <2>1 DEF Ahead
  <2>9. x \in Did(r)
    <3>1. x \in Spots(r) BY <1>2, <2>1, <2>5 DEF Spots, Wanted
    <3>2. x \in VisitSpots(n, boardIndex, r) BY <2>2, <2>4, <2>5, <2>7, <3>1 DEF VisitSpots
    <3> QED BY <2>1, <2>5, <2>8, <3>2 DEF Did
  <2>10. ASSUME NEW y \in Did(r) PROVE y = x
    <3>1. y \in VisitSpots(n, boardIndex, r) /\ y[r][1] = n BY <2>8 DEF Did
    <3>2. y \in Paths(r) /\ Agrees(y, boardIndex, r - 1) BY <2>2, <3>1 DEF VisitSpots, Spots
    <3> QED BY <1>0, <2>5, <3>1, <3>2, PathUnique
  <2> QED BY <2>3, <2>6, <2>9, <2>10
<1>4. ASSUME ~(WalkChance /\ r = Node.round) PROVE Did(r) \cap ChanceSpots(r) = {}
  <2> SUFFICES ASSUME NEW x \in Did(r), x \in ChanceSpots(r) PROVE FALSE OBVIOUS
  <2>1. Current.kind = "visit" /\ x[r][1] = n BY DEF Did
  <2>2. x \in Paths(r) /\ nodes[n].type = "chance" BY <2>1 DEF ChanceSpots
  <2>3. WalkChance BY <1>2, <2>1, <2>2, MoveKinds
  <2>4. Start \in Nat /\ r \in Start .. r BY <1>0, Bounds DEF Start, DealtRounds
  <2>5. nodes[n].round = r BY <1>0, <2>1, <2>2, <2>4, PathRounds
  <2> QED BY <1>2, <1>4, <2>3, <2>5
<1> QED BY <1>3, <1>4

-----------------------------------------------------------------------------
(* The streams of a walk                                                   *)

Latest(S, r, st, bi) == \A n \in OpenNodes(st, r) : Len(S) > 0 /\ LeadsTo(S[Len(S)], n, bi)
Counts(S, r, rd)     == \A a \in Arrays : (IsCompressed /\ a \in Consumes(job)) => rd[a][r] = Len(S)
PutOut(S, r, st, o)  ==
  \A a \in Arrays : (IsCompressed /\ a \in Rewrites(job)) =>
    BlocksOf(S, r) = IF OpenNodes(st, r) = {} THEN o[a][r] ELSE Append(o[a][r], BlockOf(S[Len(S)], r))

(* S has, in their order, the paths to the chance nodes of round r that    *)
(* have been begun.                                                        *)
Streams(S, r, st, bi, rd, o) ==
  /\ Lists(S, r, DoneIn(st, bi, r))
  /\ \A x \in DoneIn(st, bi, r), y \in Pending(st, bi, r) : Sooner(x, y, r)
  /\ Latest(S, r, st, bi) /\ Counts(S, r, rd) /\ PutOut(S, r, st, o)

LEMMA ReadMoves ==
  ASSUME read \in [Arrays -> [Rounds -> Nat]], Moves, NEW a \in Arrays, NEW r \in Rounds
  PROVE  read'[a][r] = IF WalkChance /\ r = Node.round /\ IsCompressed /\ a \in Consumes(job)
                       THEN read[a][r] + 1 ELSE read[a][r]
<1>1. read[a] \in [Rounds -> Nat] /\ read[a][r] \in Nat OBVIOUS
<1>2. CASE WalkChance
  <2> DEFINE d == IF IsCompressed /\ a \in Consumes(job) THEN 1 ELSE 0
  <2>1. read'[a] = [read[a] EXCEPT ![Node.round] = @ + d] BY <1>2 DEF WalkChance
  <2>2. read'[a][r] = IF r = Node.round THEN read[a][r] + d ELSE read[a][r] BY <1>1, <2>1
  <2>3. read[a][r] + 0 = read[a][r] BY <1>1
  <2> QED BY <1>2, <2>2, <2>3
<1>3. CASE ~WalkChance BY <1>3 DEF Moves, WalkEnd, WalkChoice, NextBoard, LeaveChance
<1> QED BY <1>2, <1>3

LEMMA OutMoves ==
  ASSUME out \in [Arrays -> [Rounds -> Seq(Blocks)]], Moves, NEW a \in Arrays, NEW r \in Rounds
  PROVE  out'[a][r] = IF LeaveChance /\ r = Node.round /\ IsCompressed /\ a \in Rewrites(job)
                      THEN Append(out[a][r], Block(Current.node)) ELSE out[a][r]
<1>1. out[a] \in [Rounds -> Seq(Blocks)] OBVIOUS
<1>2. CASE LeaveChance
  <2>1. out'[a] = [out[a] EXCEPT ![Node.round] =
                     IF IsCompressed /\ a \in Rewrites(job) THEN Append(@, Block(Current.node)) ELSE @]
    BY <1>2 DEF LeaveChance
  <2> QED BY <1>1, <1>2, <2>1
<1>3. CASE ~LeaveChance BY <1>3 DEF Moves, WalkEnd, WalkChoice, WalkChance, NextBoard
<1> QED BY <1>2, <1>3

LEMMA DoneMoves ==
  ASSUME Standing, StackOK(stack, boardIndex, ptr), boardIndex \in [Rounds -> Nat], Falls(stack), Moves,
         NEW r \in DealtRounds, InTurn(stack, boardIndex, r)
  PROVE  /\ DoneIn(stack', boardIndex', r) = DoneIn(stack, boardIndex, r) \cup (Did(r) \cap ChanceSpots(r))
         /\ \A y \in Pending(stack', boardIndex', r) : y \in Pending(stack, boardIndex, r)
         /\ \A x \in Did(r) : x \in Pending(stack, boardIndex, r)
         /\ \A x \in Did(r), y \in Pending(stack', boardIndex', r) : Sooner(x, y, r)
<1> DEFINE P  == Pending(stack, boardIndex, r)
           P2 == Pending(stack', boardIndex', r)
           D  == Did(r)
           C  == ChanceSpots(r)
<1>0. r \in Depths BY StartIsDepth
<1>1. P2 = P \ D /\ D \subseteq P /\ \A x \in D, y \in P2 : Sooner(x, y, r) BY <1>0, StepOrder
<1>2. DoneIn(stack', boardIndex', r) = C \ P2 /\ DoneIn(stack, boardIndex, r) = C \ P BY DEF DoneIn
<1> HIDE DEF P, P2, D, C
<1>3. C \ P2 = (C \ P) \cup (D \cap C) BY <1>1
<1> QED BY <1>1, <1>2, <1>3 DEF P, P2, D, C

LEMMA BlockIs ==
  ASSUME Standing, NEW n \in DOMAIN nodes, nodes[n].type = "chance", nodes[n].tree = storage.tree,
         NEW x, LeadsTo(x, n, boardIndex)
  PROVE  BlockOf(x, nodes[n].round) = Block(n)
<1> DEFINE r == nodes[n].round
<1>1. r \in DealtRounds /\ Level(n) = r - 1 BY ChanceRounds DEF DealtRounds, Start
<1>2. r \in Nat /\ Start \in Nat /\ Start <= r BY <1>1, Bounds DEF DealtRounds, Start
<1> HIDE DEF r
<1>3. r - 1 + 1 = r BY <1>2
<1>4. x[r][1] = n /\ Agrees(x, boardIndex, r - 1) BY <1>1, <1>3 DEF LeadsTo
<1>5. Under(x, r) = Above(r)
  <2>1. CASE r = Start BY <2>1 DEF Under, Above, Start
  <2>2. CASE r # Start
    <3>1. r - 1 \in Start .. r - 1 BY <1>2, <2>2
    <3> QED BY <1>4, <2>2, <3>1 DEF Under, Above, Start, Agrees
  <2> QED BY <2>1, <2>2
<1> QED BY <1>4, <1>5 DEF BlockOf, Block, r

LEMMA StreamGrows ==
  ASSUME Standing, StackOK(stack, boardIndex, ptr), boardIndex \in [Rounds -> Nat], Falls(stack), WalkPuts,
         WalkChance, NEW r \in DealtRounds, r = Node.round, InTurn(stack, boardIndex, r),
         NEW S, Streams(S, r, stack, boardIndex, read, out)
  PROVE  \E S2 : Streams(S2, r, stack', boardIndex', read', out')
<1> DEFINE st2 == stack'
           bi2 == boardIndex'
           rd2 == read'
           o2  == out'
           D  == DoneIn(stack, boardIndex, r)
           D2 == DoneIn(st2, bi2, r)
           P  == Pending(stack, boardIndex, r)
           P2 == Pending(st2, bi2, r)
<1>0. Moves /\ r \in Depths /\ r \in Rounds /\ r \in Nat BY StartIsDepth DEF Moves
<1>1. PICK x \in ChanceSpots(r) : LeadsTo(x, Current.node, boardIndex) /\ Did(r) = {x} BY <1>0, ChanceDid
<1>2. /\ D2 = D \cup (Did(r) \cap ChanceSpots(r)) /\ \A y \in P2 : y \in P
      /\ \A z \in Did(r) : z \in P /\ \A y \in P2 : Sooner(z, y, r)
  BY <1>0, DoneMoves
<1>3. D2 = D \cup {x} /\ x \in P /\ \A y \in P2 : Sooner(x, y, r) BY <1>1, <1>2
<1>4. /\ \A n \in OpenNodes(st2, r) : n = Current.node
      /\ Current.node \in OpenNodes(st2, r) /\ Current.node \notin OpenNodes(stack, r)
      /\ \A n \in OpenNodes(stack, r) : n = Current.node
  BY <1>0, OpenMoves, MoveKinds
<1>5. \A q : q # r => bi2[q] = boardIndex[q] BY <1>0, BoardMoves
<1>6. Level(Current.node) = r - 1
  <2>1. stack # <<>> /\ Node.type = "chance" BY <1>0, MoveKinds
  <2> QED BY <2>1, TopEntry, ChanceRounds
<1>7. LeadsTo(x, Current.node, bi2)
  <2>1. Start \in Nat BY Bounds DEF Start
  <2>2. \A q \in Start .. r - 1 : q # r BY <1>0, <2>1
  <2>3. \A q \in Start .. Level(Current.node) : bi2[q] = boardIndex[q] BY <1>5, <1>6, <2>2
  <2> HIDE DEF bi2
  <2> QED BY <1>1, <2>3, LeadsOn
<1>8. /\ Lists(S, r, D) /\ \A z \in D, y \in P : Sooner(z, y, r)
      /\ Counts(S, r, read) /\ PutOut(S, r, stack, out)
  BY DEF Streams
<1>9. x \in Paths(r) BY DEF ChanceSpots
<1>10. read \in [Arrays -> [Rounds -> Nat]] /\ out \in [Arrays -> [Rounds -> Seq(Blocks)]] BY DEF WalkPuts
<1>11. \A a \in Arrays : rd2[a][r] = IF IsCompressed /\ a \in Consumes(job) THEN read[a][r] + 1 ELSE read[a][r]
  BY <1>0, <1>10, ReadMoves
<1>12. o2 = out BY DEF WalkChance
<1> DEFINE S2 == Append(S, x)
<1> HIDE DEF st2, bi2, rd2, o2, D, D2, P, P2
<1>13. /\ Lists(S2, r, D \cup {x}) /\ Len(S2) = Len(S) + 1 /\ Len(S) \in Nat /\ S2[Len(S) + 1] = x
       /\ BlocksOf(S2, r) = Append(BlocksOf(S, r), BlockOf(x, r))
  BY <1>3, <1>8, <1>9, ListsMore
<1> HIDE DEF S2
<1>14. Len(S2) > 0 /\ S2[Len(S2)] = x BY <1>13
<1>15. \A z \in D2, y \in P2 : Sooner(z, y, r) BY <1>2, <1>3, <1>8
<1>16. Latest(S2, r, st2, bi2) BY <1>4, <1>7, <1>14 DEF Latest
<1>17. Counts(S2, r, rd2)
  <2> SUFFICES ASSUME NEW a \in Arrays, IsCompressed, a \in Consumes(job) PROVE rd2[a][r] = Len(S2)
    BY DEF Counts
  <2> QED BY <1>8, <1>11, <1>13 DEF Counts
<1>18. PutOut(S2, r, st2, o2)
  <2> SUFFICES ASSUME NEW a \in Arrays, IsCompressed, a \in Rewrites(job)
               PROVE  BlocksOf(S2, r) = IF OpenNodes(st2, r) = {} THEN o2[a][r]
                                        ELSE Append(o2[a][r], BlockOf(S2[Len(S2)], r))
    BY DEF PutOut
  <2>1. OpenNodes(stack, r) = {} /\ OpenNodes(st2, r) # {} BY <1>4
  <2>2. BlocksOf(S, r) = out[a][r] BY <1>8, <2>1 DEF PutOut
  <2> QED BY <1>12, <1>13, <1>14, <2>1, <2>2
<1>19. Streams(S2, r, st2, bi2, rd2, o2) BY <1>3, <1>13, <1>15, <1>16, <1>17, <1>18 DEF Streams, D2, P2
<1> QED BY <1>19 DEF st2, bi2, rd2, o2

LEMMA StreamWaits ==
  ASSUME Standing, StackOK(stack, boardIndex, ptr), boardIndex \in [Rounds -> Nat], Falls(stack), WalkPuts,
         Moves, NEW r \in DealtRounds, ~(WalkChance /\ r = Node.round), InTurn(stack, boardIndex, r),
         NEW S, Streams(S, r, stack, boardIndex, read, out)
  PROVE  Streams(S, r, stack', boardIndex', read', out')
<1> DEFINE st2 == stack'
           bi2 == boardIndex'
           rd2 == read'
           o2  == out'
           D  == DoneIn(stack, boardIndex, r)
           D2 == DoneIn(st2, bi2, r)
           P  == Pending(stack, boardIndex, r)
           P2 == Pending(st2, bi2, r)
<1>0. r \in Depths /\ r \in Rounds /\ r \in Nat BY StartIsDepth
<1>1. Did(r) \cap ChanceSpots(r) = {} BY ChanceDid
<1>2. D2 = D \cup (Did(r) \cap ChanceSpots(r)) /\ \A y \in P2 : y \in P BY DoneMoves
<1>3. D2 = D BY <1>1, <1>2
<1>4. /\ \A n : n # Current.node => (n \in OpenNodes(st2, r) <=> n \in OpenNodes(stack, r))
      /\ Current.node \in OpenNodes(st2, r) <=> (NextBoard /\ r = Node.round)
      /\ Current.node \in OpenNodes(stack, r) <=> ((NextBoard \/ LeaveChance) /\ r = Node.round)
      /\ (Node.type = "chance" /\ r = Node.round) => \A n \in OpenNodes(st2, r) : n = Current.node
  BY OpenMoves
<1>5. /\ Lists(S, r, D) /\ \A z \in D, y \in P : Sooner(z, y, r)
      /\ Latest(S, r, stack, boardIndex) /\ Counts(S, r, read) /\ PutOut(S, r, stack, out)
  BY DEF Streams
<1>6. \A n \in OpenNodes(st2, r) : n \in OpenNodes(stack, r) BY <1>4
<1>7. ASSUME NEW n \in OpenNodes(st2, r) PROVE Len(S) > 0 /\ LeadsTo(S[Len(S)], n, bi2)
  <2>1. n \in OpenNodes(stack, r) BY <1>6
  <2>2. Len(S) > 0 /\ LeadsTo(S[Len(S)], n, boardIndex) BY <1>5, <2>1 DEF Latest
  <2> QED BY <2>1, <2>2, OpenStaysLed
<1>8. read \in [Arrays -> [Rounds -> Nat]] /\ out \in [Arrays -> [Rounds -> Seq(Blocks)]] BY DEF WalkPuts
<1>9. \A a \in Arrays : rd2[a][r] = read[a][r] BY <1>0, <1>8, ReadMoves
<1>10. ASSUME NEW a \in Arrays, IsCompressed, a \in Rewrites(job)
       PROVE  BlocksOf(S, r) = IF OpenNodes(st2, r) = {} THEN o2[a][r]
                               ELSE Append(o2[a][r], BlockOf(S[Len(S)], r))
  <2>1. BlocksOf(S, r) = IF OpenNodes(stack, r) = {} THEN out[a][r]
                         ELSE Append(out[a][r], BlockOf(S[Len(S)], r))
    BY <1>5, <1>10 DEF PutOut
  <2>2. CASE LeaveChance /\ r = Node.round
    <3>1. Node.type = "chance" /\ stack # <<>> /\ ~(WalkChance \/ NextBoard) BY <2>2, MoveKinds
    <3>2. OpenNodes(st2, r) = {} /\ Current.node \in OpenNodes(stack, r) BY <1>4, <2>2, <3>1
    <3>3. LeadsTo(S[Len(S)], Current.node, boardIndex) BY <1>5, <3>2 DEF Latest
    <3>4. BlockOf(S[Len(S)], r) = Block(Current.node) BY <2>2, <3>1, <3>3, TopEntry, BlockIs
    <3>5. o2[a][r] = Append(out[a][r], Block(Current.node)) BY <1>0, <1>8, <1>10, <2>2, OutMoves
    <3> QED BY <2>1, <3>2, <3>4, <3>5
  <2>3. CASE ~(LeaveChance /\ r = Node.round)
    <3>1. o2[a][r] = out[a][r] BY <1>0, <1>8, <2>3, OutMoves
    <3>2. OpenNodes(st2, r) = OpenNodes(stack, r)
      <4>1. \A n : n \in OpenNodes(st2, r) <=> n \in OpenNodes(stack, r) BY <1>4, <2>3
      <4> HIDE DEF st2
      <4> QED BY <4>1
    <3> QED BY <2>1, <3>1, <3>2
  <2> QED BY <2>2, <2>3
<1> HIDE DEF st2, bi2, rd2, o2, D, D2, P, P2
<1>11. \A z \in D2, y \in P2 : Sooner(z, y, r) BY <1>2, <1>3, <1>5
<1>12. Latest(S, r, st2, bi2) BY <1>7 DEF Latest
<1>13. Counts(S, r, rd2) BY <1>5, <1>9 DEF Counts
<1>14. PutOut(S, r, st2, o2) BY <1>10 DEF PutOut
<1>15. Streams(S, r, st2, bi2, rd2, o2) BY <1>3, <1>5, <1>11, <1>12, <1>13, <1>14 DEF Streams, D2, P2
<1> QED BY <1>15 DEF st2, bi2, rd2, o2

-----------------------------------------------------------------------------
(* What a walk does not change                                             *)

LEMMA PathsStay ==
  ASSUME UNCHANGED <<vars, storage>>
  PROVE  /\ Start' = Start /\ DealtRounds' = DealtRounds /\ IsCompressed' = IsCompressed
         /\ \A m : Paths(m)' = Paths(m) /\ ChanceSpots(m)' = ChanceSpots(m)
         /\ \A x, y, m : Sooner(x, y, m)' <=> Sooner(x, y, m)
         /\ \A S, r, X : Lists(S, r, X)' <=> Lists(S, r, X)
         /\ \A S, r : BlocksOf(S, r)' = BlocksOf(S, r) /\ \A x : BlockOf(x, r)' = BlockOf(x, r)
<1>1. nodes' = nodes /\ game' = game /\ storage' = storage BY DEF vars
<1>2. /\ Start' = Start /\ DealtRounds' = DealtRounds /\ IsCompressed' = IsCompressed
      /\ Root' = Root
  BY <1>1 DEF Start, DealtRounds, IsCompressed, Root, SubgameNodes, Children
<1>3. \A x, k : Leading(x, k)' <=> Leading(x, k)
  BY <1>1 DEF Leading, Follow, Under, FirstBoard, EndBoard, NumBoards, BoardAt, Start
<1>4. \A m : Paths(m)' = Paths(m)
  <2> SUFFICES ASSUME NEW m PROVE Paths(m)' = Paths(m) OBVIOUS
  <2>1. \A x : x \in Paths(m)' <=> x \in Paths(m) BY <1>1, <1>2, <1>3 DEF Paths
  <2> QED BY <2>1
<1>5. \A m : ChanceSpots(m)' = ChanceSpots(m)
  <2> SUFFICES ASSUME NEW m PROVE ChanceSpots(m)' = ChanceSpots(m) OBVIOUS
  <2>1. \A x : x \in ChanceSpots(m)' <=> x \in ChanceSpots(m) BY <1>1, <1>4 DEF ChanceSpots
  <2> QED BY <2>1
<1>6. \A x, y, m : Sooner(x, y, m)' <=> Sooner(x, y, m) BY <1>2 DEF Sooner, Less
<1>7. \A S, r, X : Lists(S, r, X)' <=> Lists(S, r, X) BY <1>4, <1>6 DEF Lists
<1>8. \A x, r : BlockOf(x, r)' = BlockOf(x, r) BY <1>2 DEF BlockOf, Under
<1>9. \A S, r : BlocksOf(S, r)' = BlocksOf(S, r) BY <1>8 DEF BlocksOf
<1> QED BY <1>2, <1>4, <1>5, <1>6, <1>7, <1>8, <1>9

LEMMA SpotsStay ==
  ASSUME UNCHANGED <<vars, storage, job>>
  PROVE  /\ \A m : Spots(m)' = Spots(m)
         /\ \A e, bi, m : Ahead(e, bi, m)' = Ahead(e, bi, m)
         /\ \A st, bi, m : Pending(st, bi, m)' = Pending(st, bi, m)
         /\ \A st, bi, m : InTurn(st, bi, m)' <=> InTurn(st, bi, m)
         /\ \A st : Falls(st)' <=> Falls(st)
         /\ \A st, r : OpenNodes(st, r)' = OpenNodes(st, r)
         /\ \A x, v, bi : LeadsTo(x, v, bi)' <=> LeadsTo(x, v, bi)
<1>0. UNCHANGED <<vars, storage>> OBVIOUS
<1>1. nodes' = nodes /\ game' = game /\ storage' = storage /\ job' = job BY DEF vars
<1>2. /\ Start' = Start /\ \A m : Paths(m)' = Paths(m)
      /\ \A x, y, m : Sooner(x, y, m)' <=> Sooner(x, y, m)
  BY <1>0, PathsStay
<1>3. \A m : Spots(m)' = Spots(m)
  <2> SUFFICES ASSUME NEW m PROVE Spots(m)' = Spots(m) OBVIOUS
  <2>1. \A i : Wanted(i)' <=> Wanted(i) BY <1>1 DEF Wanted
  <2>2. \A x : x \in Spots(m)' <=> x \in Spots(m) BY <1>1, <1>2 DEF Spots, Wanted
  <2> QED BY <2>2
<1>4. \A n : Level(n)' = Level(n) BY <1>1 DEF Level
<1>5. \A v : Kids(v)' = Kids(v)
  <2> SUFFICES ASSUME NEW v PROVE Kids(v)' = Kids(v) OBVIOUS
  <2>1. \A i : i \in Kids(v)' <=> i \in Kids(v) BY <1>1 DEF Kids, In
  <2> QED BY <2>1
<1>6. \A x, bi, q : Agrees(x, bi, q)' <=> Agrees(x, bi, q) BY <1>2 DEF Agrees
<1>7. \A v, bi, m : VisitSpots(v, bi, m)' = VisitSpots(v, bi, m)
  <2> SUFFICES ASSUME NEW v, NEW bi, NEW m PROVE VisitSpots(v, bi, m)' = VisitSpots(v, bi, m) OBVIOUS
  <2>1. \A x : Agrees(x, bi, Level(v))' <=> Agrees(x, bi, Level(v)) BY <1>2, <1>4 DEF Agrees
  <2>2. \A x : x \in VisitSpots(v, bi, m)' <=> x \in VisitSpots(v, bi, m)
    BY <1>3, <1>4, <1>5, <2>1 DEF VisitSpots
  <2> QED BY <2>2
<1>8. \A n, bi, m : BoardSpots(n, bi, m)' = BoardSpots(n, bi, m)
  <2> SUFFICES ASSUME NEW n, NEW bi, NEW m PROVE BoardSpots(n, bi, m)' = BoardSpots(n, bi, m) OBVIOUS
  <2>1. \A x : Agrees(x, bi, nodes[n].round - 1)' <=> Agrees(x, bi, nodes[n].round - 1)
    BY <1>1, <1>2 DEF Agrees
  <2>2. \A x : x \in BoardSpots(n, bi, m)' <=> x \in BoardSpots(n, bi, m)
    BY <1>1, <1>3, <2>1 DEF BoardSpots
  <2> QED BY <2>2
<1>9. \A e, bi, m : Ahead(e, bi, m)' = Ahead(e, bi, m) BY <1>7, <1>8 DEF Ahead
<1>10. \A st, bi, m : Pending(st, bi, m)' = Pending(st, bi, m) BY <1>9 DEF Pending
<1>11. \A st, bi, m : InTurn(st, bi, m)' <=> InTurn(st, bi, m) BY <1>2, <1>9 DEF InTurn
<1>12. \A st : Falls(st)' <=> Falls(st) BY <1>4 DEF Falls
<1>13. \A st, r : OpenNodes(st, r)' = OpenNodes(st, r) BY <1>1 DEF OpenNodes
<1>14. \A x, v, bi : LeadsTo(x, v, bi)' <=> LeadsTo(x, v, bi)
  <2> SUFFICES ASSUME NEW x, NEW v, NEW bi PROVE LeadsTo(x, v, bi)' <=> LeadsTo(x, v, bi) OBVIOUS
  <2>1. Agrees(x, bi, Level(v))' <=> Agrees(x, bi, Level(v)) BY <1>2, <1>4 DEF Agrees
  <2>2. Paths(Level(v) + 1)' = Paths(Level(v) + 1) BY <1>2, <1>4
  <2> QED BY <1>4, <2>1, <2>2 DEF LeadsTo
<1> QED BY <1>3, <1>9, <1>10, <1>11, <1>12, <1>13, <1>14

LEMMA StreamsStay ==
  ASSUME UNCHANGED <<vars, storage, job>>, NEW S, NEW r, NEW st, NEW bi, NEW rd, NEW o,
         Streams(S, r, st, bi, rd, o)
  PROVE  Streams(S, r, st, bi, rd, o)'
<1>1. job' = job /\ UNCHANGED <<vars, storage>> OBVIOUS
<1>2. /\ IsCompressed' = IsCompressed /\ ChanceSpots(r)' = ChanceSpots(r)
      /\ \A x, y, m : Sooner(x, y, m)' <=> Sooner(x, y, m)
      /\ \A X : Lists(S, r, X)' <=> Lists(S, r, X)
      /\ BlocksOf(S, r)' = BlocksOf(S, r) /\ \A x : BlockOf(x, r)' = BlockOf(x, r)
  BY <1>1, PathsStay
<1>3. /\ Pending(st, bi, r)' = Pending(st, bi, r) /\ OpenNodes(st, r)' = OpenNodes(st, r)
      /\ \A x, v : LeadsTo(x, v, bi)' <=> LeadsTo(x, v, bi)
  BY SpotsStay
<1>4. DoneIn(st, bi, r)' = DoneIn(st, bi, r) BY <1>2, <1>3 DEF DoneIn
<1>5. Lists(S, r, DoneIn(st, bi, r))' <=> Lists(S, r, DoneIn(st, bi, r)) BY <1>2, <1>4
<1>6. Latest(S, r, st, bi)' <=> Latest(S, r, st, bi) BY <1>3 DEF Latest
<1>7. /\ Rewrites(job)' = Rewrites(job) /\ Consumes(job)' = Consumes(job) /\ Arrays' = Arrays
  BY <1>1 DEF Rewrites, Consumes, Arrays
<1>8. Counts(S, r, rd)' <=> Counts(S, r, rd) BY <1>2, <1>7 DEF Counts
<1>9. PutOut(S, r, st, o)' <=> PutOut(S, r, st, o) BY <1>2, <1>3, <1>7 DEF PutOut
<1> QED BY <1>2, <1>3, <1>4, <1>5, <1>6, <1>8, <1>9 DEF Streams

-----------------------------------------------------------------------------
(* From one walk to the next                                               *)

(* A stream that is kept has one block for each chance node of its round   *)
(* and board above it, in the order in which a walk comes to them.         *)
Complete(c, r) ==
  /\ storage.endRound > 0 /\ Ready /\ IsCompressed /\ r \in DealtRounds
  /\ \E F : Lists(F, r, ChanceSpots(r)) /\ c = BlocksOf(F, r)

InStream(r) == InTurn(stack, boardIndex, r) /\ \E S : Streams(S, r, stack, boardIndex, read, out)

StreamInv ==
  /\ Falls(stack) /\ Consumes(job) \subseteq Arrays
  /\ job = NoJob => stack = <<>> /\ read = NothingRead /\ out = NoBlocks
  /\ job # NoJob => \A r \in DealtRounds : InStream(r)
  /\ \A a \in Arrays, r \in Rounds : out[a][r] # <<>> => IsCompressed /\ r \in DealtRounds

KeptInv == \A a \in Arrays, r \in Rounds :
  content[a][r] # <<>> => Complete(content[a][r], r) /\ passes > 0

LEMMA CompleteStays ==
  ASSUME UNCHANGED <<vars, storage>>
  PROVE  \A c, r : Complete(c, r)' <=> Complete(c, r)
<1>1. /\ DealtRounds' = DealtRounds /\ IsCompressed' = IsCompressed /\ Ready' = Ready
      /\ storage' = storage /\ \A m : ChanceSpots(m)' = ChanceSpots(m)
      /\ \A S, r, X : Lists(S, r, X)' <=> Lists(S, r, X)
      /\ \A S, r : BlocksOf(S, r)' = BlocksOf(S, r)
  BY PathsStay DEF Ready
<1>2. \A S, r : Lists(S, r, ChanceSpots(r))' <=> Lists(S, r, ChanceSpots(r)) BY <1>1
<1> QED BY <1>1, <1>2 DEF Complete

LEMMA StreamsMove ==
  ASSUME Standing, WalkRuns, WalkPuts, StreamInv, KeptInv, Moves PROVE StreamInv' /\ KeptInv'
<1>0. /\ StackOK(stack, boardIndex, ptr) /\ boardIndex \in [Rounds -> Nat]
      /\ stack # <<>> => job # NoJob
  BY DEF WalkRuns
<1>1. /\ Falls(stack) /\ Consumes(job) \subseteq Arrays
      /\ job = NoJob => stack = <<>> /\ read = NothingRead /\ out = NoBlocks
      /\ job # NoJob => \A r \in DealtRounds : InStream(r)
      /\ \A a \in Arrays, r \in Rounds :
           /\ out[a][r] # <<>> => IsCompressed /\ r \in DealtRounds
           /\ content[a][r] # <<>> => Complete(content[a][r], r) /\ passes > 0
  BY DEF StreamInv, KeptInv
<1>2. UNCHANGED <<vars, storage, job>> /\ passes' = passes /\ content' = content
  BY DEF Moves, WalkEnd, WalkChoice, WalkChance, NextBoard, LeaveChance
<1>3. job # NoJob BY <1>0, MoveKinds
<1>4. UNCHANGED <<vars, storage>> /\ game' = game BY <1>2 DEF vars
<1>5. /\ Falls(stack')
      /\ \A r \in DealtRounds : InTurn(stack', boardIndex', r)
  <2>1. ASSUME NEW r \in DealtRounds PROVE InTurn(stack', boardIndex', r) /\ Falls(stack')
    <3>1. r \in Depths /\ InTurn(stack, boardIndex, r) BY <1>1, <1>3, StartIsDepth DEF InStream
    <3> QED BY <1>0, <1>1, <3>1, StepOrder
  <2>2. Start \in DealtRounds BY Bounds DEF Start, DealtRounds
  <2> QED BY <2>1, <2>2
<1> DEFINE st == stack'
           bi == boardIndex'
           rd == read'
           o  == out'
<1>6. ASSUME NEW r \in DealtRounds PROVE InStream(r)'
  <2>1. PICK S : InTurn(stack, boardIndex, r) /\ Streams(S, r, stack, boardIndex, read, out)
    BY <1>1, <1>3 DEF InStream
  <2>2. \E S2 : Streams(S2, r, st, bi, rd, o)
    <3>1. CASE WalkChance /\ r = Node.round BY <1>0, <1>1, <2>1, <3>1, StreamGrows
    <3>2. CASE ~(WalkChance /\ r = Node.round) BY <1>0, <1>1, <2>1, <3>2, StreamWaits
    <3> QED BY <3>1, <3>2
  <2>3. InTurn(st, bi, r) BY <1>5
  <2>4. ASSUME NEW st2, NEW bi2, NEW rd2, NEW o2, stack' = st2, boardIndex' = bi2, read' = rd2, out' = o2,
               InTurn(st2, bi2, r), NEW S2, Streams(S2, r, st2, bi2, rd2, o2)
        PROVE  InStream(r)'
    <3>1. Streams(S2, r, st2, bi2, rd2, o2)' BY <1>2, <2>4, StreamsStay
    <3>2. InTurn(st2, bi2, r)' BY <1>2, <2>4, SpotsStay
    <3>3. Streams(S2, r, stack, boardIndex, read, out)' BY <2>4, <3>1
    <3>4. InTurn(stack, boardIndex, r)' BY <2>4, <3>2
    <3> QED BY <3>3, <3>4 DEF InStream
  <2>5. PICK S2 : Streams(S2, r, st, bi, rd, o) BY <2>2
  <2> QED BY <2>3, <2>4, <2>5
<1>7. /\ DealtRounds' = DealtRounds /\ IsCompressed' = IsCompressed /\ Arrays' = Arrays
      /\ Rounds' = Rounds /\ Consumes(job)' = Consumes(job)
  BY <1>2, <1>4, PathsStay DEF Arrays, Rounds, Consumes
<1>8. Falls(stack)'
  <2>1. ASSUME NEW st2, stack' = st2, Falls(st2) PROVE Falls(stack)'
    <3>1. Falls(st2)' BY <1>2, <2>1, SpotsStay
    <3> QED BY <2>1, <3>1
  <2> QED BY <1>5, <2>1
<1>9. ASSUME NEW a \in Arrays, NEW r \in Rounds, out'[a][r] # <<>>
      PROVE  IsCompressed /\ r \in DealtRounds
  <2>1. CASE out[a][r] # <<>> BY <1>1, <2>1
  <2>2. CASE out[a][r] = <<>>
    <3>1. out \in [Arrays -> [Rounds -> Seq(Blocks)]] BY DEF WalkPuts
    <3>2. LeaveChance /\ r = Node.round /\ IsCompressed BY <1>9, <2>2, <3>1, OutMoves
    <3>3. Current.node \in DOMAIN nodes /\ nodes[Current.node].tree = storage.tree
          /\ Node = nodes[Current.node] /\ Node.type = "chance"
      BY <1>0, <3>2, MoveKinds, TopEntry
    <3>4. r \in DealtRounds BY <3>2, <3>3, ChanceRounds DEF DealtRounds, Start
    <3> QED BY <3>2, <3>4
  <2> QED BY <2>1, <2>2
<1>10. ASSUME NEW a \in Arrays, NEW r \in Rounds, content'[a][r] # <<>>
       PROVE  Complete(content[a][r], r)' /\ passes' > 0
  <2>1. Complete(content[a][r], r) /\ passes > 0 BY <1>1, <1>2, <1>10
  <2>2. Complete(content'[a][r], r) BY <1>2, <2>1
  <2>3. ASSUME NEW c, c = content'[a][r], Complete(c, r) PROVE Complete(content[a][r], r)'
    <3>1. Complete(c, r)' BY <1>4, <2>3, CompleteStays
    <3> QED BY <2>3, <3>1
  <2> QED BY <1>2, <2>1, <2>2, <2>3
<1> QED BY <1>2, <1>3, <1>6, <1>7, <1>8, <1>9, <1>10 DEF StreamInv, KeptInv, NoJob

(* A walk begins with all chance nodes of all rounds before it. *)
WalkStarts == /\ stack = <<VisitNode(Root, TRUE)>> /\ job \in Jobs
              /\ read = NothingRead /\ out = NoBlocks

LEMMA JobArrays ==
  ASSUME WalkPuts, job \in Jobs PROVE Consumes(job) \subseteq Arrays /\ job # NoJob
<1>1. Players = {0, 1}
  <2>1. 0 .. 1 = {0, 1} OBVIOUS
  <2> QED BY <2>1, TwoPlayersAssumption DEF Players
<1>2. passes \in Nat BY WalkedAssumption DEF WalkPuts
<1>3. (passes + 1) % 2 \in Players /\ (1 - ((passes + 1) % 2)) \in Players BY <1>1, <1>2
<1>4. job.type \in {"cfr", "work", "br", "reorder"}
      /\ (job.type = "cfr" => job.player = (passes + 1) % 2)
  BY DEF Jobs
<1>5. job # NoJob BY <1>4 DEF NoJob
<1>6. CASE job.type = "cfr" BY <1>3, <1>4, <1>5, <1>6 DEF Consumes, Arrays
<1>7. CASE job.type = "br" BY <1>5, <1>7 DEF Consumes, Arrays
<1>8. CASE job.type = "reorder" BY <1>5, <1>8 DEF Consumes, Arrays
<1>9. CASE job.type = "work" BY <1>5, <1>9 DEF Consumes
<1> QED BY <1>4, <1>5, <1>6, <1>7, <1>8, <1>9

LEMMA RootAhead ==
  ASSUME Standing, NEW e, e.kind = "visit", e.node = Root, NEW bi, NEW r \in Depths
  PROVE  /\ Spots(r) \subseteq Pending(<<e>>, bi, r) /\ ChanceSpots(r) \subseteq Spots(r)
         /\ InTurn(<<e>>, bi, r) /\ OpenNodes(<<e>>, r) = {} /\ Falls(<<e>>)
<1> DEFINE st == <<e>>
<1>1. DOMAIN st = {1} /\ st[1] = e OBVIOUS
<1> HIDE DEF st
<1>2. /\ Root \in DOMAIN nodes /\ nodes[Root].tree = storage.tree /\ nodes[Root].chance = 0
  BY RootFacts
<1>3. r \in Nat /\ Start \in Nat /\ Start <= r /\ Start - 1 < r /\ Start - 1 + 1 = Start
  BY Bounds DEF Start, Depths
<1>4. Level(Root) = Start - 1 BY <1>2 DEF Level, Start
<1>5. ASSUME NEW x \in Spots(r) PROVE x \in Pending(st, bi, r)
  <2>1. x \in Paths(r) BY DEF Spots
  <2>2. x[Start][1] = Root BY <2>1 DEF Paths
  <2>3. Root \in Kids(Root) BY <1>2, KidSelf DEF Standing
  <2>4. Agrees(x, bi, Start - 1)
    <3>1. \A k \in Start .. Start - 1 : FALSE BY <1>3
    <3> QED BY <3>1 DEF Agrees
  <2>5. x \in VisitSpots(Root, bi, r) BY <1>3, <1>4, <2>1, <2>2, <2>3, <2>4 DEF VisitSpots
  <2>6. x \in Ahead(e, bi, r) BY <2>5 DEF Ahead
  <2> QED BY <1>1, <2>6 DEF Pending
<1>6. InTurn(st, bi, r) BY <1>1 DEF InTurn
<1>7. OpenNodes(st, r) = {} BY <1>1 DEF OpenNodes
<1>8. Falls(st) BY <1>1 DEF Falls
<1>9. ChanceSpots(r) \subseteq Spots(r) BY DEF ChanceSpots, Spots, Wanted
<1> QED BY <1>5, <1>6, <1>7, <1>8, <1>9 DEF st

LEMMA EmptyLists ==
  ASSUME NEW r
  PROVE  Lists(<<>>, r, {}) /\ BlocksOf(<<>>, r) = <<>> /\ Len(<<>>) = 0
<1>1. <<>> \in Seq(Paths(r)) /\ DOMAIN <<>> = {} /\ Len(<<>>) = 0 OBVIOUS
<1>2. Lists(<<>>, r, {}) BY <1>1 DEF Lists
<1>3. BlocksOf(<<>>, r) = <<>>
  <2>1. \A k \in 1 .. 0 : FALSE OBVIOUS
  <2> QED BY <1>1, <2>1 DEF BlocksOf
<1> QED BY <1>1, <1>2, <1>3

LEMMA StartsInOrder ==
  ASSUME Standing, WalkPuts, WalkStarts PROVE StreamInv
<1>1. Consumes(job) \subseteq Arrays /\ job # NoJob BY JobArrays DEF WalkStarts
<1> DEFINE e == VisitNode(Root, TRUE)
<1>2. e.kind = "visit" /\ e.node = Root BY DEF VisitNode
<1> HIDE DEF e
<1>3. stack = <<e>> /\ read = NothingRead /\ out = NoBlocks BY DEF WalkStarts, e
<1>4. ASSUME NEW r \in DealtRounds PROVE InStream(r) /\ Falls(stack)
  <2>1. /\ ChanceSpots(r) \subseteq Pending(stack, boardIndex, r)
        /\ InTurn(stack, boardIndex, r) /\ OpenNodes(stack, r) = {} /\ Falls(stack)
    BY <1>2, <1>3, StartIsDepth, RootAhead
  <2>2. DoneIn(stack, boardIndex, r) = {} BY <2>1 DEF DoneIn
  <2>3. Lists(<<>>, r, {}) /\ BlocksOf(<<>>, r) = <<>> /\ Len(<<>>) = 0 BY EmptyLists
  <2>4. r \in Rounds BY StartIsDepth
  <2>5. \A a \in Arrays : read[a][r] = 0 /\ out[a][r] = <<>> BY <1>3, <2>4 DEF NothingRead, NoBlocks
  <2>6. Latest(<<>>, r, stack, boardIndex) /\ Counts(<<>>, r, read) /\ PutOut(<<>>, r, stack, out)
    BY <2>1, <2>3, <2>5 DEF Latest, Counts, PutOut
  <2>7. Streams(<<>>, r, stack, boardIndex, read, out) BY <2>2, <2>3, <2>6 DEF Streams
  <2> QED BY <2>1, <2>7 DEF InStream
<1>5. Falls(stack)
  <2>1. Start \in DealtRounds BY Bounds DEF Start, DealtRounds
  <2> QED BY <1>4, <2>1
<1>6. \A a \in Arrays, r \in Rounds : out[a][r] = <<>> BY <1>3 DEF NoBlocks
<1> QED BY <1>1, <1>4, <1>5, <1>6 DEF StreamInv

LEMMA BeginKeeps ==
  ASSUME Standing, StreamInv, KeptInv, Begin PROVE WalkStarts' /\ KeptInv'
<1>1. /\ UNCHANGED <<vars, storage>> /\ passes' = passes /\ content' = content /\ read' = read
      /\ out' = out /\ job = NoJob /\ job' \in Jobs /\ stack' = <<VisitNode(Root, TRUE)>>
  BY DEF Begin, AtRest
<1>2. read = NothingRead /\ out = NoBlocks BY <1>1 DEF StreamInv
<1>3. game' = game /\ storage' = storage /\ nodes' = nodes BY <1>1 DEF vars
<1>4. /\ Rounds' = Rounds /\ Arrays' = Arrays /\ Root' = Root /\ Jobs' = Jobs
  BY <1>1, <1>3 DEF Rounds, Arrays, Root, SubgameNodes, Children, Jobs, IsCompressed
<1>5. NothingRead' = NothingRead /\ NoBlocks' = NoBlocks BY <1>4 DEF NothingRead, NoBlocks
<1>6. WalkStarts' BY <1>1, <1>2, <1>4, <1>5 DEF WalkStarts, VisitNode
<1>7. KeptInv' BY <1>1, <1>4, CompleteStays DEF KeptInv
<1> QED BY <1>6, <1>7

(* Nothing is open once all have been done. *)
LEMMA AllDone ==
  ASSUME NEW bi, NEW r
  PROVE  Pending(<<>>, bi, r) = {} /\ OpenNodes(<<>>, r) = {} /\ DoneIn(<<>>, bi, r) = ChanceSpots(r)
<1>1. DOMAIN <<>> = {} OBVIOUS
<1>2. Pending(<<>>, bi, r) = {} BY <1>1 DEF Pending
<1>3. OpenNodes(<<>>, r) = {} BY <1>1 DEF OpenNodes
<1> QED BY <1>2, <1>3 DEF DoneIn

LEMMA NothingLeft ==
  ASSUME stack = <<>>, job = NoJob, read = NothingRead, out = NoBlocks PROVE StreamInv
<1>1. Falls(<<>>) BY DEF Falls
<1>2. Consumes(NoJob) = {} BY DEF Consumes, NoJob
<1>3. \A a \in Arrays, r \in Rounds : out[a][r] = <<>> BY DEF NoBlocks
<1> QED BY <1>1, <1>2, <1>3 DEF StreamInv

LEMMA FinishKeeps ==
  ASSUME WalkRuns, WalkPuts, StreamInv, KeptInv, Finish
  PROVE  /\ KeptInv'
         /\ stack' = <<>> /\ job' = NoJob /\ read' = NothingRead /\ out' = NoBlocks
<1>1. /\ UNCHANGED <<vars, storage>> /\ job # NoJob /\ job' = NoJob /\ stack = <<>> /\ stack' = <<>>
      /\ content' = [a \in Arrays |-> IF a \in Rewrites(job) THEN out[a] ELSE content[a]]
      /\ passes' = (IF job.type = "cfr" THEN passes + 1 ELSE passes)
      /\ read' = NothingRead /\ out' = NoBlocks
  BY DEF Finish
<1>2. game' = game /\ Rounds' = Rounds /\ Arrays' = Arrays BY <1>1 DEF vars, Rounds, Arrays
<1>3. passes \in Nat BY WalkedAssumption DEF WalkPuts
<1>4. storage.endRound > 0 /\ Ready BY <1>1 DEF WalkRuns
<1>5. ASSUME NEW a \in Arrays, NEW r \in Rounds, NEW c, c = content'[a][r], c # <<>>
      PROVE  Complete(c, r) /\ passes' > 0
  <2>1. CASE a \in Rewrites(job)
    <3>1. c = out[a][r] BY <1>1, <1>5, <2>1
    <3>2. IsCompressed /\ r \in DealtRounds BY <1>5, <3>1 DEF StreamInv
    <3>3. PICK S : Streams(S, r, stack, boardIndex, read, out) BY <1>1, <3>2 DEF StreamInv, InStream
    <3>4. OpenNodes(stack, r) = {} /\ DoneIn(stack, boardIndex, r) = ChanceSpots(r) BY <1>1, AllDone
    <3>5. Lists(S, r, ChanceSpots(r)) /\ PutOut(S, r, stack, out) BY <3>3, <3>4 DEF Streams
    <3>6. BlocksOf(S, r) = out[a][r] BY <2>1, <3>2, <3>4, <3>5 DEF PutOut
    <3>7. job.type = "cfr" BY <2>1 DEF Rewrites
    <3> QED BY <1>1, <1>3, <1>4, <3>1, <3>2, <3>5, <3>6, <3>7 DEF Complete
  <2>2. CASE a \notin Rewrites(job)
    <3>1. c = content[a][r] BY <1>1, <1>5, <2>2
    <3>2. Complete(c, r) /\ passes > 0 BY <1>5, <3>1 DEF KeptInv
    <3> QED BY <1>1, <1>3, <3>2
  <2> QED BY <2>1, <2>2
<1>6. ASSUME NEW a \in Arrays, NEW r \in Rounds, content'[a][r] # <<>>
      PROVE  Complete(content[a][r], r)' /\ passes' > 0
  <2>1. ASSUME NEW c, c = content'[a][r] PROVE Complete(c, r)' /\ passes' > 0
    <3>1. Complete(c, r) /\ passes' > 0 BY <1>5, <1>6, <2>1
    <3> QED BY <1>1, <3>1, CompleteStays
  <2> QED BY <2>1
<1>7. KeptInv' BY <1>2, <1>6 DEF KeptInv
<1> QED BY <1>1, <1>7

LEMMA FinishEnds ==
  ASSUME stack' = <<>>, job' = NoJob, read' = NothingRead, out' = NoBlocks, game' = game
  PROVE  StreamInv'
<1>1. Rounds' = Rounds /\ Arrays' = Arrays BY DEF Rounds, Arrays
<1>2. Falls(stack)' BY DEF Falls
<1>3. Consumes(job)' = {} BY DEF Consumes, NoJob
<1>4. /\ NothingRead' = NothingRead /\ NoBlocks' = NoBlocks BY <1>1 DEF NothingRead, NoBlocks
<1>5. \A a \in Arrays, r \in Rounds : out'[a][r] = <<>> BY DEF NoBlocks
<1> QED BY <1>1, <1>2, <1>3, <1>4, <1>5 DEF StreamInv, NoJob

LEMMA RestKeeps ==
  ASSUME StreamInv, KeptInv, UNCHANGED <<vars, storage, walkVars>> PROVE StreamInv' /\ KeptInv'
<1>1. /\ UNCHANGED <<vars, storage>> /\ UNCHANGED <<vars, storage, job>> /\ passes' = passes
      /\ content' = content /\ read' = read /\ out' = out /\ job' = job /\ stack' = stack
      /\ boardIndex' = boardIndex /\ game' = game
  BY DEF walkVars, vars
<1>2. /\ Rounds' = Rounds /\ Arrays' = Arrays /\ Consumes(job)' = Consumes(job)
      /\ DealtRounds' = DealtRounds /\ IsCompressed' = IsCompressed
  BY <1>1, PathsStay DEF Rounds, Arrays, Consumes
<1>3. /\ NothingRead' = NothingRead /\ NoBlocks' = NoBlocks BY <1>2 DEF NothingRead, NoBlocks
<1>4. Falls(stack)' <=> Falls(stack)
  <2>1. ASSUME NEW st, stack = st PROVE Falls(stack)' <=> Falls(st) BY <1>1, <2>1, SpotsStay
  <2> QED BY <2>1
<1>5. ASSUME NEW r, InStream(r) PROVE InStream(r)'
  <2>1. PICK S : InTurn(stack, boardIndex, r) /\ Streams(S, r, stack, boardIndex, read, out)
    BY <1>5 DEF InStream
  <2>2. ASSUME NEW st, NEW bi, NEW rd, NEW o, stack = st, boardIndex = bi, read = rd, out = o
        PROVE  InStream(r)'
    <3>1. stack' = st /\ boardIndex' = bi /\ read' = rd /\ out' = o BY <1>1, <2>2
    <3>2. Streams(S, r, st, bi, rd, o) /\ InTurn(st, bi, r) BY <2>1, <2>2
    <3>3. Streams(S, r, st, bi, rd, o)' BY <1>1, <3>2, StreamsStay
    <3>4. InTurn(st, bi, r)' BY <1>1, <3>2, SpotsStay
    <3>5. Streams(S, r, stack, boardIndex, read, out)' BY <3>1, <3>3
    <3>6. InTurn(stack, boardIndex, r)' BY <3>1, <3>4
    <3> QED BY <3>5, <3>6 DEF InStream
  <2> QED BY <2>2
<1>6. StreamInv' BY <1>1, <1>2, <1>3, <1>4, <1>5 DEF StreamInv, NoJob
<1>7. KeptInv' BY <1>1, <1>2, CompleteStays DEF KeptInv
<1> QED BY <1>6, <1>7

LEMMA StreamNext ==
  ASSUME WalkInv, StreamInv, KeptInv, [WalkNext]_allVars
  PROVE  (StreamInv \/ WalkStarts)' /\ KeptInv'
<1>0. Sound /\ StorageInv /\ WalkRuns /\ WalkPuts BY DEF WalkInv
<1>1. CASE Begin
  <2>1. storage.endRound > 0 /\ Ready BY <1>1 DEF Begin, AtRest
  <2>2. Standing BY <1>0, <2>1, WalksStand
  <2> QED BY <1>1, <2>2, BeginKeeps
<1>2. CASE Moves
  <2>1. stack # <<>> BY <1>0, <1>2, MoveKinds DEF WalkRuns
  <2>2. storage.endRound > 0 /\ Ready BY <1>0, <2>1 DEF WalkRuns
  <2>3. Standing BY <1>0, <2>2, WalksStand
  <2> QED BY <1>0, <1>2, <2>3, StreamsMove
<1>3. CASE Finish
  <2>1. /\ KeptInv' /\ stack' = <<>> /\ job' = NoJob /\ read' = NothingRead /\ out' = NoBlocks
    BY <1>0, <1>3, FinishKeeps
  <2>2. game' = game BY <1>3 DEF Finish, vars
  <2> QED BY <2>1, <2>2, FinishEnds
<1>4. CASE ~(Begin \/ Moves \/ Finish)
  <2>1. /\ UNCHANGED walkVars /\ game' = game
        /\ \/ UNCHANGED <<vars, storage>>
           \/ job = NoJob /\ (passes = 0 \/ ~(storage.endRound > 0 /\ Ready))
    BY <1>0, <1>4, NoWalk DEF Moves
  <2>2. CASE UNCHANGED <<vars, storage>> BY <2>1, <2>2, RestKeeps
  <2>3. CASE job = NoJob /\ (passes = 0 \/ ~(storage.endRound > 0 /\ Ready))
    <3>1. \A a \in Arrays, r \in Rounds : content[a][r] = <<>>
      <4>1. ~(passes > 0 /\ storage.endRound > 0 /\ Ready) BY <2>3
      <4> QED BY <4>1 DEF KeptInv, Complete
    <3>2. /\ stack' = stack /\ job' = job /\ read' = read /\ out' = out /\ content' = content
      BY <2>1 DEF walkVars
    <3>3. stack' = <<>> /\ job' = NoJob /\ read' = NothingRead /\ out' = NoBlocks
      BY <2>3, <3>2 DEF StreamInv
    <3>4. StreamInv' BY <2>1, <3>3, FinishEnds
    <3>5. Rounds' = Rounds /\ Arrays' = Arrays BY <2>1 DEF Rounds, Arrays
    <3>6. KeptInv' BY <3>1, <3>2, <3>5 DEF KeptInv
    <3> QED BY <3>4, <3>6
  <2> QED BY <2>1, <2>2, <2>3
<1> QED BY <1>1, <1>2, <1>3, <1>4

LEMMA StreamInit ==
  ASSUME WalkInit PROVE StreamInv /\ KeptInv
<1>1. /\ stack = <<>> /\ job = NoJob /\ read = NothingRead /\ out = NoBlocks /\ content = NoBlocks
  BY DEF WalkInit
<1>2. \A a \in Arrays, r \in Rounds : content[a][r] = <<>> BY <1>1 DEF NoBlocks
<1> QED BY <1>1, <1>2, NothingLeft DEF KeptInv

LEMMA OrderFollows ==
  ASSUME WalkInv, StreamInv, KeptInv PROVE StreamsInOrder
<1> SUFFICES ASSUME IsCompressed, NEW a \in Consumes(job), NEW r \in Rounds, content[a][r] # <<>>
             PROVE  /\ \A i \in Frames : RoundOf(i) = r =>
                         /\ read[a][r] <= Len(content[a][r])
                         /\ content[a][r][read[a][r]] = Block(stack[i].node)
                    /\ stack = <<>> => read[a][r] = Len(content[a][r])
  BY DEF StreamsInOrder
<1>1. a \in Arrays /\ job # NoJob
  <2>1. Consumes(NoJob) = {} BY DEF Consumes, NoJob
  <2> QED BY <2>1 DEF StreamInv
<1>2. Complete(content[a][r], r) BY <1>1 DEF KeptInv
<1>3. r \in DealtRounds /\ storage.endRound > 0 /\ Ready BY <1>2 DEF Complete
<1>4. Standing /\ StackOK(stack, boardIndex, ptr) BY <1>3, WalksStand DEF WalkInv, WalkRuns
<1> DEFINE X == ChanceSpots(r)
           P == Pending(stack, boardIndex, r)
<1>5. PICK F : Lists(F, r, X) /\ content[a][r] = BlocksOf(F, r) BY <1>2 DEF Complete
<1>6. PICK S : Streams(S, r, stack, boardIndex, read, out) BY <1>1, <1>3 DEF StreamInv, InStream
<1>7. /\ Lists(S, r, X \ P) /\ \A x \in X \ P, y \in P : Sooner(x, y, r)
      /\ Latest(S, r, stack, boardIndex) /\ read[a][r] = Len(S)
  BY <1>1, <1>6 DEF Streams, DoneIn, Counts
<1>8. r \in Depths /\ X \subseteq Paths(r) BY <1>3, <1>4, StartIsDepth DEF ChanceSpots
<1>9. stack = <<>> => X \cap P = {} BY AllDone
<1> HIDE DEF X, P
<1>10. Parted(X, P, r) BY <1>7 DEF Parted
<1>11. /\ Len(S) \in Nat /\ Len(F) \in Nat /\ Len(S) <= Len(F) /\ \A k \in 1 .. Len(S) : F[k] = S[k]
       /\ X \cap P = {} => Len(S) = Len(F)
  <2>1. Standing /\ r \in Depths /\ Lists(F, r, X) /\ Lists(S, r, X \ P) /\ X \subseteq Paths(r)
    BY <1>4, <1>5, <1>7, <1>8
  <2> QED BY <1>10, <2>1, ListBegins
<1> DEFINE c == content[a][r]
<1>12. c = [k \in 1 .. Len(F) |-> BlockOf(F[k], r)] BY <1>5 DEF BlocksOf
<1>13. Len(c) = Len(F)
  <2>1. DOMAIN c = 1 .. Len(F) BY <1>12
  <2>2. c \in Seq({BlockOf(F[k], r) : k \in 1 .. Len(F)}) BY <1>11, <1>12, IsASeq
  <2> HIDE DEF c
  <2> QED BY <1>11, <2>1, <2>2
<1> HIDE DEF c
<1>14. ASSUME NEW i \in Frames, RoundOf(i) = r PROVE Len(S) <= Len(c) /\ c[Len(S)] = Block(stack[i].node)
  <2> DEFINE n == stack[i].node
  <2>1. i \in DOMAIN stack /\ stack[i].kind = "boards" /\ nodes[n].round = r
    BY <1>14 DEF Frames, RoundOf
  <2>2. n \in DOMAIN nodes /\ nodes[n].tree = storage.tree /\ nodes[n].type = "chance"
    BY <1>4, <2>1 DEF StackOK, EntryOK
  <2>3. n \in OpenNodes(stack, r) BY <2>1, <2>2 DEF OpenNodes
  <2>4. Len(S) > 0 /\ LeadsTo(S[Len(S)], n, boardIndex) BY <1>7, <2>3 DEF Latest
  <2>5. Len(S) \in 1 .. Len(S) /\ Len(S) \in 1 .. Len(F) BY <1>11, <2>4
  <2>6. c[Len(S)] = BlockOf(S[Len(S)], r) BY <1>11, <1>12, <2>5
  <2>7. BlockOf(S[Len(S)], r) = Block(n) BY <1>4, <2>1, <2>2, <2>4, BlockIs
  <2> QED BY <1>11, <1>13, <2>6, <2>7
<1> QED BY <1>7, <1>9, <1>11, <1>13, <1>14 DEF c

(* In a subgame, a walk takes each block out of the compressed stream of   *)
(* its round at the chance node and board that it was put in for, whatever *)
(* kind of walk it is and whatever it cuts, and leaves nothing over.       *)
THEOREM StreamsStayInOrder == (\A g \in Games : NoSkips(g)) => (WalkSpec => []StreamsInOrder)
<1> SUFFICES ASSUME \A g \in Games : NoSkips(g) PROVE WalkSpec => []StreamsInOrder
  OBVIOUS
<1>1. WalkSpec => []WalkInv BY WalkInvariant
<1>2. WalkInit => StreamInv /\ KeptInv BY StreamInit
<1>3. WalkInv /\ WalkStarts => StreamInv
  <2>1. WalkInv /\ WalkStarts => Standing /\ WalkPuts
    <3> SUFFICES ASSUME WalkInv, WalkStarts PROVE Standing /\ WalkPuts OBVIOUS
    <3>1. stack # <<>> BY DEF WalkStarts
    <3> QED BY <3>1, WalksStand DEF WalkInv, WalkRuns
  <2> QED BY <2>1, StartsInOrder
<1>4. WalkInv /\ StreamInv /\ KeptInv /\ [WalkNext]_allVars => (StreamInv \/ WalkStarts)' /\ KeptInv'
  BY StreamNext
<1>5. WalkInv /\ StreamInv /\ KeptInv => StreamsInOrder BY OrderFollows
<1> QED BY <1>1, <1>2, <1>3, <1>4, <1>5, PTL DEF WalkSpec

-----------------------------------------------------------------------------
(* The boards that follow different boards of a round are different ones.  *)
RowsApart(bs, r) == \A a, b \in DOMAIN bs[r] :
  /\ bs[r][a].endChildIndex <= Len(bs[r + 1])
  /\ a # b => \/ bs[r][a].endChildIndex <= bs[r][b].firstChildIndex
              \/ bs[r][b].endChildIndex <= bs[r][a].firstChildIndex

RowsFresh(bs, r) == \A a \in DOMAIN bs[r] : Fresh(bs[r][a])

RowsInv ==
  /\ \A r \in Rounds : r >= storage.round => RowsFresh(storage.boards, r)
  /\ \A r \in Rounds : r + 1 \in Rounds => RowsApart(storage.boards, r)

LEMMA FreshApart ==
  ASSUME NEW T, NEW bs, NEW r, bs[r + 1] \in Seq(T), RowsFresh(bs, r)
  PROVE  RowsApart(bs, r)
<1>1. Len(bs[r + 1]) \in Nat OBVIOUS
<1> DEFINE n == Len(bs[r + 1])
<1> HIDE DEF n
<1>2. n \in Nat BY <1>1 DEF n
<1> SUFFICES ASSUME NEW a \in DOMAIN bs[r], NEW b \in DOMAIN bs[r]
             PROVE  /\ bs[r][a].endChildIndex <= n
                    /\ bs[r][a].endChildIndex <= bs[r][b].firstChildIndex
  BY DEF RowsApart, n
<1>3. bs[r][a].endChildIndex = 0 /\ bs[r][b].firstChildIndex = 0 BY DEF RowsFresh, Fresh
<1> QED BY <1>2, <1>3

LEMMA AddedFresh ==
  ASSUME NEW T, NEW s \in Seq(T), NEW l \in Seq(T), Len(l) # 0, NEW bs, NEW bs2, NEW r,
         bs[r] = s, bs2[r] = s \o l, RowsFresh(bs, r), \A k \in DOMAIN l : Fresh(l[k])
  PROVE  RowsFresh(bs2, r) /\ bs2[r] \in Seq(T) /\ Len(bs[r]) <= Len(bs2[r])
<1>1. /\ s \o l \in Seq(T) /\ Len(s \o l) = Len(s) + Len(l) /\ Len(s) \in Nat /\ Len(l) \in Nat
      /\ \A i \in DOMAIN (s \o l) : \/ i \in DOMAIN s /\ (s \o l)[i] = s[i]
                                    \/ \E k \in DOMAIN l : (s \o l)[i] = l[k]
  BY ListAdded
<1> DEFINE t == s \o l
<1>2. bs2[r] = t BY DEF t
<1>3. \A i \in DOMAIN t : \/ i \in DOMAIN s /\ t[i] = s[i]
                          \/ \E k \in DOMAIN l : t[i] = l[k]
  BY <1>1
<1>4. \A i \in DOMAIN t : Fresh(t[i])
  <2> HIDE DEF t
  <2> QED BY <1>3 DEF RowsFresh
<1>5. Len(s) <= Len(t) /\ t \in Seq(T) BY <1>1
<1> HIDE DEF t
<1> QED BY <1>2, <1>4, <1>5 DEF RowsFresh

LEMMA StorageRange ==
  ASSUME StorageBegun
  PROVE  /\ game \in Walked /\ storage \in StorageType(game) /\ game.numRounds \in Nat
         /\ storage.boards \in [Rounds -> Seq(Board(game))] /\ storage.calls \in Nat
         /\ storage.startRound \in Nat /\ storage.round \in Nat /\ storage.startRound <= storage.round
         /\ \A r \in Rounds : r \in Nat
BY AllGamesOK, WalkedAssumption DEF StorageBegun, StorageType, Rounds, RoundsOf, GameOK

LEMMA RowsFirst ==
  ASSUME StorageBegun, BoardsInv, RowsInv, SetUpBoards(game), UNCHANGED vars,
         storage.round = storage.startRound
  PROVE  RowsInv'
<1> DEFINE r  == storage.round
           bs == storage.boards
<1>1. /\ game \in Walked /\ storage \in StorageType(game) /\ r \in Rounds
      /\ Begins(storage) \in Dealt(game)[r] /\ bs \in [Rounds -> Seq(Board(game))] /\ r \in Nat
  BY StorageRange DEF StorageBegun, StorageType, Rounds
<1>2. PICK list \in Sampled(NewBoards(game, r, storage.board, storage.suitGroups),
                            game.numSampledBoards[r]) :
        storage' = [storage EXCEPT !.calls = @ + 1,
                      !.boards[r] = @ \o SortBoards(game, storage.board, list)]
  BY DEF SetUpBoards
<1> DEFINE l == SortBoards(game, storage.board, list)
<1>3. /\ l \in Seq(Board(game)) /\ Len(l) # 0 /\ \A k \in DOMAIN l : Fresh(l[k])
  BY <1>1, NewList DEF Rounds
<1>4. storage'.boards = [bs EXCEPT ![r] = @ \o l] /\ storage'.round = r
  BY <1>1, <1>2 DEF StorageType
<1> HIDE DEF l
<1> DEFINE bs2 == storage'.boards
<1>5. bs2[r] = bs[r] \o l /\ \A q \in Rounds : q # r => bs2[q] = bs[q] BY <1>1, <1>4
<1>6. bs[r] \in Seq(Board(game)) /\ RowsFresh(bs, r) BY <1>1 DEF RowsInv
<1> HIDE DEF bs2
<1>7. RowsFresh(bs2, r) /\ bs2[r] \in Seq(Board(game)) /\ Len(bs[r]) <= Len(bs2[r])
  BY <1>3, <1>5, <1>6, AddedFresh
<1>8. ASSUME NEW q \in Rounds, q >= r PROVE RowsFresh(bs2, q)
  <2>1. CASE q = r BY <1>7, <2>1
  <2>2. CASE q # r
    <3>1. bs2[q] = bs[q] /\ RowsFresh(bs, q) BY <1>5, <1>8, <2>2 DEF RowsInv
    <3> QED BY <3>1 DEF RowsFresh
  <2> QED BY <2>1, <2>2
<1>9. \A q \in Rounds : bs2[q] \in Seq(Board(game)) BY <1>1, <1>5, <1>7
<1>10. ASSUME NEW q \in Rounds, q + 1 \in Rounds PROVE RowsApart(bs2, q)
  <2>1. CASE q >= r
    <3>1. RowsFresh(bs2, q) BY <1>8, <2>1
    <3> QED BY <1>9, <1>10, <3>1, FreshApart
  <2>2. CASE ~(q >= r)
    <3>1. bs2[q] = bs[q] /\ RowsApart(bs, q) BY <1>1, <1>5, <1>10, <2>2 DEF RowsInv
    <3>2. Len(bs[q + 1]) <= Len(bs2[q + 1])
      <4>1. CASE q + 1 = r BY <1>7, <4>1
      <4>2. CASE q + 1 # r
        <5>1. bs2[q + 1] = bs[q + 1] /\ Len(bs[q + 1]) \in Nat BY <1>1, <1>5, <1>10, <4>2
        <5> QED BY <5>1
      <4> QED BY <4>1, <4>2
    <3>3. Len(bs[q + 1]) \in Nat /\ Len(bs2[q + 1]) \in Nat BY <1>1, <1>9, <1>10
    <3>4. \A a \in DOMAIN bs[q] : bs[q][a].endChildIndex \in Nat
      <4>1. bs[q] \in Seq(Board(game)) BY <1>1
      <4>2. \A a \in DOMAIN bs[q] : bs[q][a] \in Board(game) BY <4>1
      <4> QED BY <4>2 DEF Board
    <3> DEFINE m == Len(bs[q + 1])
               m2 == Len(bs2[q + 1])
    <3>5. \A a \in DOMAIN bs[q] : bs[q][a].endChildIndex <= m BY <3>1 DEF RowsApart
    <3> HIDE DEF bs, m, m2
    <3>6. \A a \in DOMAIN bs[q] : bs[q][a].endChildIndex <= m2 BY <3>2, <3>3, <3>4, <3>5 DEF m, m2
    <3> QED BY <3>1, <3>6 DEF RowsApart, m2
  <2> QED BY <2>1, <2>2
<1>11. Rounds' = Rounds BY DEF vars, Rounds
<1> QED BY <1>4, <1>8, <1>10, <1>11 DEF RowsInv, bs2

LEMMA RowsCall ==
  ASSUME StorageBegun, BoardsInv, RowsInv, SetUpBoards(game), UNCHANGED vars,
         storage.round # storage.startRound
  PROVE  RowsInv'
<1> DEFINE r  == storage.round
           bs == storage.boards
           bs2 == storage'.boards
           a  == (storage.calls % Len(bs[r - 1])) + 1
<1>1. /\ r \in Rounds /\ r - 1 \in Rounds /\ a \in DOMAIN bs[r - 1] /\ storage'.round = r
      /\ \E l \in Seq(Board(game)) :
           /\ Len(l) # 0
           /\ \A k \in DOMAIN l : Begins(l[k]) \in Dealt(game)[r + 1] /\ Fresh(l[k])
           /\ OneCall(bs, bs2, r, a, l)
  BY SetUpCall
<1>2. PICK l \in Seq(Board(game)) :
        Len(l) # 0 /\ (\A k \in DOMAIN l : Fresh(l[k])) /\ OneCall(bs, bs2, r, a, l)
  BY <1>1
<1>3. bs \in [Rounds -> Seq(Board(game))] /\ r \in Nat BY StorageRange
<1> HIDE DEF bs2, a
<1>4. /\ bs2 \in [Rounds -> Seq(Board(game))] /\ bs2[r] = bs[r] \o l
      /\ \A q \in Rounds : (q # r /\ q # r - 1) => bs2[q] = bs[q]
      /\ Len(bs2[r - 1]) = Len(bs[r - 1])
      /\ \A i \in DOMAIN bs[r - 1] : i # a => bs2[r - 1][i] = bs[r - 1][i]
      /\ bs2[r - 1][a].firstChildIndex = Len(bs[r])
      /\ bs2[r - 1][a].endChildIndex = Len(bs[r]) + Len(l)
  BY <1>2 DEF OneCall
<1>5. bs[r] \in Seq(Board(game)) /\ bs[r - 1] \in Seq(Board(game)) /\ RowsFresh(bs, r)
  BY <1>1, <1>3 DEF RowsInv
<1>6. RowsFresh(bs2, r)
  <2>1. /\ bs[r] \in Seq(Board(game)) /\ l \in Seq(Board(game)) /\ Len(l) # 0
        /\ bs2[r] = bs[r] \o l /\ RowsFresh(bs, r) /\ \A k \in DOMAIN l : Fresh(l[k])
    BY <1>2, <1>4, <1>5
  <2> HIDE DEF bs, r
  <2> QED BY <2>1, AddedFresh
<1>7. /\ Len(bs2[r]) = Len(bs[r]) + Len(l) /\ Len(bs[r]) \in Nat /\ Len(l) \in Nat
  <2>1. Len(bs[r] \o l) = Len(bs[r]) + Len(l) /\ Len(bs[r]) \in Nat /\ Len(l) \in Nat
    BY <1>2, <1>5, ListAdded
  <2> QED BY <1>4, <2>1
<1>8. ASSUME NEW q \in Rounds, q >= r PROVE RowsFresh(bs2, q)
  <2>1. CASE q = r BY <1>6, <2>1
  <2>2. CASE q # r
    <3>1. q # r - 1 BY <1>3, <1>8
    <3>2. bs2[q] = bs[q] /\ RowsFresh(bs, q) BY <1>4, <1>8, <2>2, <3>1 DEF RowsInv
    <3> QED BY <3>2 DEF RowsFresh
  <2> QED BY <2>1, <2>2
<1>9. RowsApart(bs2, r - 1)
  <2> DEFINE k == Len(bs[r])
             m == Len(l)
  <2>1. RowsApart(bs, r - 1) /\ (r - 1) + 1 = r BY <1>1, <1>3 DEF RowsInv
  <2>2. bs2[r - 1] \in Seq(Board(game)) BY <1>1, <1>4
  <2>3. DOMAIN bs2[r - 1] = DOMAIN bs[r - 1] BY <1>4, <1>5, <2>2
  <2>4. /\ \A i \in DOMAIN bs[r - 1] : bs[r - 1][i].endChildIndex <= k
        /\ \A i, j \in DOMAIN bs[r - 1] : i # j =>
             \/ bs[r - 1][i].endChildIndex <= bs[r - 1][j].firstChildIndex
             \/ bs[r - 1][j].endChildIndex <= bs[r - 1][i].firstChildIndex
    BY <2>1 DEF RowsApart
  <2>5. \A i \in DOMAIN bs[r - 1] : bs[r - 1][i].endChildIndex \in Nat
    <3>1. \A i \in DOMAIN bs[r - 1] : bs[r - 1][i] \in Board(game) BY <1>5
    <3> QED BY <3>1 DEF Board
  <2>6. k \in Nat /\ m \in Nat /\ Len(bs2[r]) = k + m BY <1>7
  <2>7. bs2[r - 1][a].firstChildIndex = k /\ bs2[r - 1][a].endChildIndex = k + m BY <1>4
  <2> HIDE DEF k, m
  <2>8. ASSUME NEW i \in DOMAIN bs[r - 1], NEW j \in DOMAIN bs[r - 1]
        PROVE  /\ bs2[r - 1][i].endChildIndex <= k + m
               /\ i # j => \/ bs2[r - 1][i].endChildIndex <= bs2[r - 1][j].firstChildIndex
                           \/ bs2[r - 1][j].endChildIndex <= bs2[r - 1][i].firstChildIndex
    <3>1. i = a => bs2[r - 1][i].endChildIndex = k + m /\ bs2[r - 1][i].firstChildIndex = k BY <2>7
    <3>2. j = a => bs2[r - 1][j].endChildIndex = k + m /\ bs2[r - 1][j].firstChildIndex = k BY <2>7
    <3>3. i # a => bs2[r - 1][i] = bs[r - 1][i] BY <1>4
    <3>4. j # a => bs2[r - 1][j] = bs[r - 1][j] BY <1>4
    <3>5. /\ bs[r - 1][i].endChildIndex <= k /\ bs[r - 1][i].endChildIndex \in Nat
          /\ bs[r - 1][j].endChildIndex <= k /\ bs[r - 1][j].endChildIndex \in Nat
      BY <2>4, <2>5
    <3>6. i # j => \/ bs[r - 1][i].endChildIndex <= bs[r - 1][j].firstChildIndex
                   \/ bs[r - 1][j].endChildIndex <= bs[r - 1][i].firstChildIndex
      BY <2>4
    <3>7. bs[r - 1][i].endChildIndex <= k + m /\ k + m <= k + m BY <2>6, <3>5
    <3>8. bs2[r - 1][i].endChildIndex <= k + m BY <3>1, <3>3, <3>7
    <3>9. CASE i # a /\ j # a BY <3>3, <3>4, <3>6, <3>8, <3>9
    <3>10. CASE i = a BY <3>1, <3>4, <3>5, <3>8, <3>10
    <3>11. CASE j = a BY <3>2, <3>3, <3>5, <3>8, <3>11
    <3> QED BY <3>9, <3>10, <3>11
  <2> QED BY <2>1, <2>3, <2>6, <2>8 DEF RowsApart
<1>10. ASSUME NEW q \in Rounds, q + 1 \in Rounds PROVE RowsApart(bs2, q)
  <2>1. CASE q >= r
    <3>1. RowsFresh(bs2, q) BY <1>8, <2>1
    <3>2. bs2[q + 1] \in Seq(Board(game)) BY <1>4, <1>10
    <3> QED BY <3>1, <3>2, FreshApart
  <2>2. CASE q = r - 1 BY <1>9, <2>2
  <2>3. CASE ~(q >= r) /\ q # r - 1
    <3>1. q \in Nat BY StorageRange
    <3>2. q # r /\ q + 1 # r BY <1>3, <2>3, <3>1
    <3>3. bs2[q] = bs[q] /\ RowsApart(bs, q) BY <1>4, <1>10, <2>3, <3>2 DEF RowsInv
    <3>4. Len(bs2[q + 1]) = Len(bs[q + 1]) BY <1>4, <1>10, <3>2
    <3> QED BY <3>3, <3>4 DEF RowsApart
  <2> QED BY <2>1, <2>2, <2>3
<1>11. Rounds' = Rounds BY DEF vars, Rounds
<1> QED BY <1>1, <1>8, <1>10, <1>11 DEF RowsInv, bs2

LEMMA RowsRest ==
  ASSUME RowsInv, game' = game, storage'.boards = storage.boards,
         \A r \in Rounds : r >= storage'.round => r >= storage.round
  PROVE  RowsInv'
<1>1. Rounds' = Rounds BY DEF Rounds
<1> QED BY <1>1 DEF RowsInv

LEMMA RowsEmpty ==
  ASSUME NEW g, game' = g, NEW t, NEW s, NEW e, NEW b, NEW groups,
         storage' = EmptyStorage(g, t, s, e, b, groups)
  PROVE  RowsInv'
<1>1. storage'.boards = [r \in 0 .. g.numRounds - 1 |-> <<>>] BY DEF EmptyStorage
<1>2. \A r \in Rounds' : storage'.boards[r] = <<>> BY <1>1 DEF Rounds, RoundsOf
<1>3. \A r \in Rounds' : DOMAIN storage'.boards[r] = {} BY <1>2
<1>4. \A r \in Rounds' : RowsFresh(storage.boards, r)' /\ RowsApart(storage.boards, r)'
  BY <1>3 DEF RowsFresh, RowsApart
<1> QED BY <1>4 DEF RowsInv

LEMMA RowsNext ==
  ASSUME WalkInv, RowsInv, [WalkNext]_allVars PROVE RowsInv'
<1>1. CASE SetUpTrunk
  <2>1. game' = game BY <1>1 DEF SetUpTrunk, vars
  <2>2. StorageInv /\ storage.endRound = 0 BY <1>1 DEF WalkInv, SetUpTrunk
  <2>3. storage.endRound > 0 => StorageBegun BY <2>2, RestBegun
  <2>4. storage'.boards = storage.boards /\ storage'.round = storage.round
    BY <1>1, <2>2 DEF SetUpTrunk, StorageInv, EmptyStorage, StorageBegun, StorageType
  <2> QED BY <2>1, <2>4, RowsRest
<1>2. CASE StorageStep
  <2>1. (SetUpBoards(game) \/ NextRound) /\ UNCHANGED vars /\ game' = game BY <1>2 DEF StorageStep, vars
  <2>2. storage.round < storage.endRound BY <2>1 DEF SetUpBoards, NextRound
  <2>3. StorageBegun /\ BoardsInv BY <2>2, EmptyIsOver DEF StorageInv, WalkInv
  <2>4. CASE SetUpBoards(game) BY <2>1, <2>3, <2>4, RowsFirst, RowsCall
  <2>5. CASE NextRound
    <3>1. storage \in StorageType(game) /\ storage.round \in Nat /\ \A r \in Rounds : r \in Nat
      BY <2>3, StorageRange
    <3>2. storage'.boards = storage.boards /\ storage'.round = storage.round + 1
      BY <2>5, <3>1 DEF NextRound, StorageType
    <3>3. \A r \in Rounds : r >= storage'.round => r >= storage.round BY <3>1, <3>2
    <3> QED BY <2>1, <3>2, <3>3, RowsRest
  <2> QED BY <2>1, <2>4, <2>5
<1>3. CASE SetUpSubgame
  <2>1. game' = game BY <1>3 DEF SetUpSubgame, vars
  <2>2. \E t, s, e, b, groups : storage' = EmptyStorage(game, t, s, e, b, groups)
    BY <1>3 DEF SetUpSubgame
  <2> QED BY <2>1, <2>2, RowsEmpty
<1>4. CASE BuildTree
  <2>1. storage' = storage /\ game' = game BY <1>4, ChancesStay DEF BuildTree, WalkInv
  <2> QED BY <2>1, RowsRest
<1>5. CASE UNCHANGED <<vars, storage>>
  <2>1. storage' = storage /\ game' = game BY <1>5 DEF vars
  <2> QED BY <2>1, RowsRest
<1>6. CASE Begin \/ WalkEnd \/ WalkChoice \/ WalkChance \/ NextBoard \/ LeaveChance \/ Finish \/ Stop
  <2>1. UNCHANGED <<vars, storage>>
    BY <1>6 DEF Begin, WalkEnd, WalkChoice, WalkChance, NextBoard, LeaveChance, Finish, Stop, allVars
  <2> QED BY <1>5, <2>1
<1>7. CASE UNCHANGED allVars BY <1>5, <1>7 DEF allVars
<1> QED BY <1>1, <1>2, <1>3, <1>4, <1>6, <1>7 DEF WalkNext

LEMMA RowsInit ==
  ASSUME WalkInit PROVE RowsInv
<1>1. storage.boards = [r \in 0 .. game.numRounds - 1 |-> <<>>] BY DEF WalkInit, EmptyStorage
<1>2. \A r \in Rounds : storage.boards[r] = <<>> BY <1>1 DEF Rounds, RoundsOf
<1>3. \A r \in Rounds : DOMAIN storage.boards[r] = {} BY <1>2
<1> QED BY <1>3 DEF RowsInv, RowsFresh, RowsApart

-----------------------------------------------------------------------------
(* Board b is in the list of the round, counted from 0. *)
Listed(b, r) == b \in Nat /\ b + 1 \in DOMAIN storage.boards[r]

LEMMA BoardsStand ==
  ASSUME Standing
  PROVE  /\ storage.boards \in [Rounds -> Seq(Board(game))]
         /\ \A r \in DealtRounds : /\ r \in Rounds /\ r \in Nat /\ storage.boards[r] \in Seq(Board(game))
                                   /\ Len(storage.boards[r]) \in Nat \ {0}
                                   /\ r # Start => /\ r - 1 \in DealtRounds /\ (r - 1) + 1 = r
                                                   /\ \A a \in DOMAIN storage.boards[r - 1] :
                                                        Leads(storage.boards, r - 1, a)
<1> DEFINE bs == storage.boards
           e  == storage.endRound
<1>1. /\ Start \in Nat /\ e \in Nat /\ Start < e /\ storage.round = e
      /\ \A r \in DealtRounds : r \in Rounds /\ r \in Nat
      /\ bs \in [Rounds -> Seq(Board(game))]
  BY Bounds, StorageRange DEF Standing, Ready, Start, DealtRounds
<1>2. /\ \A q \in Start .. e - 1 : bs[q] # <<>>
      /\ \A q \in Start .. e - 2 : \A a \in DOMAIN bs[q] : Leads(bs, q, a)
  BY <1>1 DEF Standing, BoardsInv, Start
<1> SUFFICES ASSUME NEW r \in DealtRounds
             PROVE  /\ bs[r] \in Seq(Board(game)) /\ Len(bs[r]) \in Nat \ {0}
                    /\ r # Start => /\ r - 1 \in DealtRounds /\ (r - 1) + 1 = r
                                    /\ \A a \in DOMAIN bs[r - 1] : Leads(bs, r - 1, a)
  BY <1>1
<1>3. r \in Rounds /\ r \in Start .. e - 1 BY <1>1 DEF DealtRounds
<1>4. bs[r] \in Seq(Board(game)) /\ bs[r] # <<>> BY <1>1, <1>2, <1>3
<1>5. Len(bs[r]) \in Nat \ {0} BY <1>4
<1>6. r # Start => r - 1 \in Start .. e - 2 /\ r - 1 \in Start .. e - 1 /\ (r - 1) + 1 = r BY <1>1, <1>3
<1> QED BY <1>2, <1>4, <1>5, <1>6 DEF DealtRounds

LEMMA FollowListed ==
  ASSUME Standing, NEW r \in DealtRounds, NEW b, r # Start => Listed(b, r - 1)
  PROVE  /\ \A c \in Follow(b, r) : Listed(c, r)
         /\ r = Start => Follow(b, r) = 0 .. NumBoards(r) - 1
         /\ r # Start => Follow(b, r) = storage.boards[r - 1][b + 1].firstChildIndex
                                          .. storage.boards[r - 1][b + 1].endChildIndex - 1
<1> DEFINE bs == storage.boards
<1>1. /\ r \in Nat /\ bs[r] \in Seq(Board(game)) /\ Len(bs[r]) \in Nat
      /\ r # Start => /\ r - 1 \in DealtRounds /\ (r - 1) + 1 = r
                      /\ \A a \in DOMAIN bs[r - 1] : Leads(bs, r - 1, a)
  BY BoardsStand
<1>2. CASE r = Start
  <2>1. Follow(b, r) = 0 .. Len(bs[r]) - 1
    BY <1>2 DEF Follow, FirstBoard, EndBoard, NumBoards, Start
  <2>2. \A c \in 0 .. Len(bs[r]) - 1 : c \in Nat /\ c + 1 \in DOMAIN bs[r] BY <1>1
  <2> QED BY <1>2, <2>1, <2>2 DEF Listed, NumBoards
<1>3. CASE r # Start
  <2> DEFINE a == bs[r - 1][b + 1]
  <2>1. b + 1 \in DOMAIN bs[r - 1] BY <1>3 DEF Listed
  <2>2. Follow(b, r) = a.firstChildIndex .. a.endChildIndex - 1
    BY <1>3 DEF Follow, FirstBoard, EndBoard, BoardAt, Start
  <2>3. bs[r - 1] \in Seq(Board(game)) BY <1>1, <1>3, BoardsStand
  <2>4. a \in Board(game) BY <2>1, <2>3
  <2>5. a.firstChildIndex \in Nat /\ a.endChildIndex \in Nat BY <2>4 DEF Board
  <2>6. a.endChildIndex <= Len(bs[r])
    <3>1. Leads(bs, r - 1, b + 1) BY <1>1, <1>3, <2>1
    <3> QED BY <1>1, <1>3, <3>1 DEF Leads
  <2> DEFINE f == a.firstChildIndex
             e == a.endChildIndex
  <2>7. \A c \in f .. e - 1 : c \in Nat /\ c + 1 \in 1 .. Len(bs[r])
    <3>1. f \in Nat /\ e \in Nat /\ e <= Len(bs[r]) /\ Len(bs[r]) \in Nat BY <1>1, <2>5, <2>6
    <3> HIDE DEF f, e, bs
    <3> QED BY <3>1
  <2>8. DOMAIN bs[r] = 1 .. Len(bs[r]) BY <1>1
  <2> QED BY <1>3, <2>2, <2>7, <2>8 DEF Listed
<1> QED BY <1>2, <1>3

LEMMA FollowApart ==
  ASSUME Standing, RowsInv, NEW r \in DealtRounds, r # Start, NEW a, NEW b, Listed(a, r - 1),
         Listed(b, r - 1), NEW c, c \in Follow(a, r), c \in Follow(b, r)
  PROVE  a = b
<1> DEFINE row == storage.boards[r - 1]
<1>1. r - 1 \in DealtRounds /\ (r - 1) + 1 = r /\ row \in Seq(Board(game)) BY BoardsStand
<1>2. r - 1 \in Rounds /\ r \in Rounds BY <1>1, BoardsStand
<1>3. RowsApart(storage.boards, r - 1) BY <1>1, <1>2 DEF RowsInv
<1>4. a \in Nat /\ b \in Nat /\ a + 1 \in DOMAIN row /\ b + 1 \in DOMAIN row BY DEF Listed
<1> DEFINE x == row[a + 1]
           y == row[b + 1]
<1>5. x \in Board(game) /\ y \in Board(game) BY <1>1, <1>4
<1>6. /\ x.firstChildIndex \in Nat /\ x.endChildIndex \in Nat
      /\ y.firstChildIndex \in Nat /\ y.endChildIndex \in Nat
  BY <1>5 DEF Board
<1>7. c \in x.firstChildIndex .. x.endChildIndex - 1 /\ c \in y.firstChildIndex .. y.endChildIndex - 1
  BY FollowListed
<1>8. a # b => \/ x.endChildIndex <= y.firstChildIndex \/ y.endChildIndex <= x.firstChildIndex
  <2>1. a # b => a + 1 # b + 1 BY <1>4
  <2> QED BY <1>3, <1>4, <2>1 DEF RowsApart
<1> HIDE DEF x, y
<1> QED BY <1>6, <1>7, <1>8

(* The boards of a path are in the lists of their rounds. *)
LEMMA PathListed ==
  ASSUME Standing, NEW m \in Depths, NEW x \in Paths(m), NEW k \in Start .. m - 1
  PROVE  Listed(x[k][2], k) /\ k \in DealtRounds
<1> DEFINE N == (m - 1) - Start
           S == {d \in 0 .. N : Listed(x[Start + d][2], Start + d)}
<1>1. Start \in Nat /\ m \in Nat /\ m <= storage.endRound /\ storage.endRound \in Nat /\ N \in Nat
      /\ k \in Nat
  BY Bounds DEF Start, Depths
<1>2. \A j \in Start .. m - 1 : j \in DealtRounds /\ x[j][2] \in Follow(Under(x, j), j)
  <2>1. \A j \in Start .. m - 1 : j \in DealtRounds BY <1>1 DEF DealtRounds
  <2> QED BY <2>1 DEF Paths, Leading
<1>3. 0 \in S
  <2>1. Start \in Start .. m - 1 /\ Start + 0 = Start /\ 0 \in 0 .. N BY <1>1
  <2>2. x[Start][2] \in Follow(Under(x, Start), Start) /\ Start \in DealtRounds BY <1>2, <2>1
  <2>3. Listed(x[Start][2], Start) BY <2>2, FollowListed
  <2> QED BY <2>1, <2>3
<1>4. ASSUME NEW d \in 0 .. N - 1, d \in S PROVE d + 1 \in S
  <2> DEFINE j == Start + (d + 1)
  <2>1. j \in Start .. m - 1 /\ j # Start /\ j - 1 = Start + d /\ d + 1 \in 0 .. N BY <1>1
  <2> HIDE DEF j
  <2>2. x[j][2] \in Follow(Under(x, j), j) /\ j \in DealtRounds BY <1>2, <2>1
  <2>3. Under(x, j) = x[j - 1][2] BY <2>1 DEF Under
  <2>4. Listed(x[j - 1][2], j - 1) BY <1>4, <2>1
  <2>5. Listed(x[j][2], j) BY <2>2, <2>3, <2>4, FollowListed
  <2> QED BY <2>1, <2>5 DEF j
<1> HIDE DEF S
<1>5. 0 .. N \subseteq S BY <1>1, <1>3, <1>4, Induction
<1>6. k - Start \in 0 .. N /\ Start + (k - Start) = k BY <1>1
<1>7. k - Start \in S BY <1>5, <1>6
<1> QED BY <1>2, <1>6, <1>7 DEF S

(* The last board of a path and its node are enough to know it. *)
LEMMA PathByEnd ==
  ASSUME Standing, RowsInv, NEW m \in Depths, NEW x \in Paths(m), NEW y \in Paths(m),
         x[m][1] = y[m][1], Under(x, m) = Under(y, m)
  PROVE  x = y
<1> DEFINE N == m - Start
           S == {d \in 0 .. N : Under(x, m - d) = Under(y, m - d)}
<1>1. Start \in Nat /\ m \in Nat /\ N \in Nat BY Bounds DEF Start, Depths
<1>2. 0 \in S
  <2>1. m - 0 = m /\ 0 \in 0 .. N BY <1>1
  <2> QED BY <2>1
<1>3. ASSUME NEW d \in 0 .. N - 1, d \in S PROVE d + 1 \in S
  <2> DEFINE j == m - (d + 1)
  <2>1. /\ j \in Start .. m - 1 /\ j + 1 = m - d /\ d + 1 \in 0 .. N /\ m - d # Start
        /\ (m - d) - 1 = j /\ j \in Nat
    BY <1>1
  <2> HIDE DEF j
  <2>2. x[j][2] = y[j][2] BY <1>3, <2>1 DEF Under
  <2>3. x[j][2] \in Follow(Under(x, j), j) /\ y[j][2] \in Follow(Under(y, j), j)
    BY <2>1 DEF Paths, Leading
  <2>4. Under(x, j) = Under(y, j)
    <3>1. CASE j = Start BY <3>1 DEF Under
    <3>2. CASE j # Start
      <4>1. Under(x, j) = x[j - 1][2] /\ Under(y, j) = y[j - 1][2] BY <3>2 DEF Under
      <4>2. j - 1 \in Start .. m - 1 /\ j \in DealtRounds BY <1>1, <2>1, <3>2, PathListed
      <4>3. Listed(Under(x, j), j - 1) /\ Listed(Under(y, j), j - 1) BY <4>1, <4>2, PathListed
      <4> QED BY <2>2, <2>3, <3>2, <4>2, <4>3, FollowApart
    <3> QED BY <3>1, <3>2
  <2> QED BY <2>1, <2>4 DEF j
<1> HIDE DEF S
<1>4. 0 .. N \subseteq S BY <1>1, <1>2, <1>3, Induction
<1>5. ASSUME NEW k \in Start .. m - 1 PROVE x[k][2] = y[k][2]
  <2>1. m - (k + 1) \in 0 .. N /\ m - (m - (k + 1)) = k + 1 /\ k + 1 # Start /\ (k + 1) - 1 = k BY <1>1
  <2>2. m - (k + 1) \in S BY <1>4, <2>1
  <2>3. Under(x, k + 1) = Under(y, k + 1) BY <2>1, <2>2 DEF S
  <2> QED BY <2>1, <2>3 DEF Under
<1>6. Agrees(x, [k \in Start .. m - 1 |-> x[k][2]], m - 1) /\ Agrees(y, [k \in Start .. m - 1 |-> x[k][2]], m - 1)
  BY <1>5 DEF Agrees
<1> QED BY <1>6, PathUnique

-----------------------------------------------------------------------------
FirstLive     == 0 .. NumBoards(Start) - 1
NextLive(q, X) == UNION {Follow(i, q) : i \in X}
Lives(L, n)   == L = [q \in Start .. n |-> IF q = Start THEN FirstLive ELSE NextLive(q, L[q - 1])]

LEMMA LivesAt ==
  ASSUME NEW n, NEW L, Lives(L, n), NEW q \in Start .. n
  PROVE  L[q] = IF q = Start THEN FirstLive ELSE NextLive(q, L[q - 1])
BY DEF Lives

LEMMA LivesExist ==
  ASSUME Start \in Nat, NEW n \in Nat, Start <= n
  PROVE  \E L : Lives(L, n)
<1> DEFINE N == n - Start
           E == {d \in 0 .. N : \E L : Lives(L, Start + d)}
<1>1. N \in Nat OBVIOUS
<1>2. 0 \in E
  <2> DEFINE L == [q \in Start .. Start |-> FirstLive]
  <2>1. \A q \in Start .. Start : q = Start OBVIOUS
  <2>2. Lives(L, Start) BY <2>1 DEF Lives
  <2>3. Start + 0 = Start /\ 0 \in 0 .. N OBVIOUS
  <2> HIDE DEF L
  <2>4. \E K : Lives(K, Start + 0) BY <2>2, <2>3
  <2> QED BY <2>3, <2>4
<1>3. ASSUME NEW d \in 0 .. N - 1, d \in E PROVE d + 1 \in E
  <2>1. PICK K : Lives(K, Start + d) BY <1>3
  <2> DEFINE j == Start + (d + 1)
             x == NextLive(j, K[j - 1])
             L == [q \in Start .. j |-> IF q = j THEN x ELSE K[q]]
  <2>2. j \in Nat /\ j # Start /\ j - 1 = Start + d /\ d + 1 \in 0 .. N /\ j \in Start .. j
        /\ \A q \in Start .. j : q # j => q \in Start .. Start + d /\ q - 1 # j
    BY <1>1
  <2>3. \A q \in Start .. j : q # Start => q - 1 \in Start .. j /\ (q - 1 = Start + d \/ q # j) /\ q - 1 # j
    BY <1>1
  <2> HIDE DEF x, j
  <2>4. L[j] = x /\ \A q \in Start .. j : q # j => L[q] = K[q] BY <2>2
  <2>5. ASSUME NEW q \in Start .. j
        PROVE  L[q] = IF q = Start THEN FirstLive ELSE NextLive(q, L[q - 1])
    <3>1. CASE q = j
      <4>1. j - 1 \in Start .. j /\ j - 1 # j BY <2>2, <2>3
      <4>2. L[j - 1] = K[j - 1] BY <2>4, <4>1
      <4> HIDE DEF L
      <4> QED BY <2>2, <2>4, <3>1, <4>2 DEF x
    <3>2. CASE q # j
      <4>1. q \in Start .. Start + d BY <2>2, <3>2
      <4>2. L[q] = K[q] /\ (q # Start => L[q - 1] = K[q - 1]) BY <2>3, <2>4, <3>2
      <4>3. K[q] = IF q = Start THEN FirstLive ELSE NextLive(q, K[q - 1]) BY <2>1, <4>1, LivesAt
      <4> HIDE DEF L
      <4> QED BY <4>2, <4>3
    <3> QED BY <3>1, <3>2
  <2>6. L = [q \in Start .. j |-> L[q]] OBVIOUS
  <2> HIDE DEF L
  <2>7. Lives(L, j) BY <2>5, <2>6, Zenon DEF Lives
  <2> QED BY <2>2, <2>7 DEF j
<1> HIDE DEF E
<1>4. 0 .. N \subseteq E BY <1>1, <1>2, <1>3, Induction
<1>5. N \in E /\ Start + N = n BY <1>1, <1>4
<1> QED BY <1>5 DEF E

LEMMA LivesAgree ==
  ASSUME Start \in Nat, NEW n \in Nat, NEW k \in Nat, Start <= n, n <= k, NEW L, Lives(L, n),
         NEW K, Lives(K, k)
  PROVE  L[n] = K[n]
<1> DEFINE N == n - Start
           E == {d \in 0 .. N : L[Start + d] = K[Start + d]}
<1>1. N \in Nat OBVIOUS
<1>2. 0 \in E
  <2>1. Start + 0 = Start /\ 0 \in 0 .. N /\ Start \in Start .. n /\ Start \in Start .. k OBVIOUS
  <2>2. L[Start] = FirstLive /\ K[Start] = FirstLive BY <2>1, LivesAt
  <2> QED BY <2>1, <2>2
<1>3. ASSUME NEW d \in 0 .. N - 1, d \in E PROVE d + 1 \in E
  <2> DEFINE j == Start + (d + 1)
  <2>1. j \in Start .. n /\ j \in Start .. k /\ j # Start /\ j - 1 = Start + d /\ d + 1 \in 0 .. N
    BY <1>1
  <2> HIDE DEF j
  <2>2. L[j] = NextLive(j, L[j - 1]) /\ K[j] = NextLive(j, K[j - 1]) BY <2>1, LivesAt
  <2>3. L[j - 1] = K[j - 1] BY <1>3, <2>1
  <2> QED BY <2>1, <2>2, <2>3 DEF j
<1> HIDE DEF E
<1>4. 0 .. N \subseteq E BY <1>1, <1>2, <1>3, Induction
<1>5. N \in E /\ Start + N = n BY <1>1, <1>4
<1> QED BY <1>5 DEF E

(* The recursion of LiveBoards. *)
LEMMA LiveUnfolds ==
  ASSUME Standing, NEW r \in DealtRounds
  PROVE  /\ r = Start => LiveBoards(r) = FirstLive
         /\ r # Start => LiveBoards(r) = NextLive(r, LiveBoards(r - 1))
<1>1. r \in Nat /\ Start \in Nat /\ Start <= r BY BoardsStand, Bounds DEF Start, DealtRounds
<1> DEFINE Is(L, n) == L = [q \in storage.startRound .. n |->
             IF q = storage.startRound THEN 0 .. NumBoards(q) - 1
             ELSE UNION {FirstBoard(q, i) .. EndBoard(q, i) - 1 : i \in L[q - 1]}]
           C(n) == CHOOSE L : Is(L, n)
<1>2. ASSUME NEW n \in Nat, Start <= n
      PROVE  LiveBoards(n) = C(n)[n] /\ Lives(C(n), n)
  <2>1. LiveBoards(n) = C(n)[n] BY Zenon DEF LiveBoards
  <2>2. ASSUME NEW L PROVE Lives(L, n) <=> Is(L, n)
    <3>1. \A q \in Start .. n :
            (IF q = Start THEN FirstLive ELSE NextLive(q, L[q - 1]))
              = (IF q = Start THEN 0 .. NumBoards(q) - 1
                 ELSE UNION {FirstBoard(q, i) .. EndBoard(q, i) - 1 : i \in L[q - 1]})
      BY DEF FirstLive, NextLive, Follow
    <3> QED BY <3>1, Zenon DEF Lives, Start
  <2>3. \E L : Lives(L, n) BY <1>1, <1>2, LivesExist
  <2> HIDE DEF Is
  <2>4. \E L : Is(L, n) BY <2>2, <2>3
  <2>5. Is(C(n), n) BY <2>4
  <2> HIDE DEF C
  <2>6. Lives(C(n), n) BY <2>2, <2>5
  <2> QED BY <2>1, <2>6
<1> HIDE DEF C
<1>3. LiveBoards(r) = C(r)[r] /\ Lives(C(r), r) /\ r \in Start .. r BY <1>1, <1>2
<1>4. C(r)[r] = IF r = Start THEN FirstLive ELSE NextLive(r, C(r)[r - 1]) BY <1>3, LivesAt
<1>5. CASE r # Start
  <2>1. r - 1 \in Nat /\ Start <= r - 1 /\ r - 1 <= r BY <1>1, <1>5
  <2>2. LiveBoards(r - 1) = C(r - 1)[r - 1] /\ Lives(C(r - 1), r - 1) BY <1>2, <2>1
  <2>3. C(r - 1)[r - 1] = C(r)[r - 1] BY <1>1, <1>3, <2>1, <2>2, LivesAgree
  <2> QED BY <1>3, <1>4, <1>5, <2>2, <2>3
<1> QED BY <1>3, <1>4, <1>5

LEMMA PathsLive ==
  ASSUME Standing, NEW m \in Depths, NEW x \in Paths(m), NEW k \in Start .. m - 1
  PROVE  x[k][2] \in LiveBoards(k)
<1> DEFINE N == (m - 1) - Start
           S == {d \in 0 .. N : x[Start + d][2] \in LiveBoards(Start + d)}
<1>1. Start \in Nat /\ m \in Nat /\ N \in Nat /\ k \in Nat BY Bounds DEF Start, Depths
<1>2. \A j \in Start .. m - 1 : j \in DealtRounds /\ x[j][2] \in Follow(Under(x, j), j)
  BY PathListed DEF Paths, Leading
<1>3. 0 \in S
  <2>1. Start \in Start .. m - 1 /\ Start + 0 = Start /\ 0 \in 0 .. N BY <1>1
  <2>2. x[Start][2] \in Follow(Under(x, Start), Start) /\ Start \in DealtRounds BY <1>2, <2>1
  <2>3. x[Start][2] \in FirstLive BY <2>2, FollowListed DEF FirstLive
  <2>4. x[Start][2] \in LiveBoards(Start) BY <2>2, <2>3, LiveUnfolds
  <2> QED BY <2>1, <2>4
<1>4. ASSUME NEW d \in 0 .. N - 1, d \in S PROVE d + 1 \in S
  <2> DEFINE j == Start + (d + 1)
  <2>1. j \in Start .. m - 1 /\ j # Start /\ j - 1 = Start + d /\ d + 1 \in 0 .. N BY <1>1
  <2> HIDE DEF j
  <2>2. x[j][2] \in Follow(Under(x, j), j) /\ j \in DealtRounds BY <1>2, <2>1
  <2>3. Under(x, j) = x[j - 1][2] BY <2>1 DEF Under
  <2>4. x[j - 1][2] \in LiveBoards(j - 1) BY <1>4, <2>1
  <2>5. x[j][2] \in NextLive(j, LiveBoards(j - 1)) BY <2>2, <2>3, <2>4 DEF NextLive
  <2>6. x[j][2] \in LiveBoards(j) BY <2>1, <2>2, <2>5, LiveUnfolds
  <2> QED BY <2>1, <2>6 DEF j
<1> HIDE DEF S
<1>5. 0 .. N \subseteq S BY <1>1, <1>3, <1>4, Induction
<1>6. k - Start \in 0 .. N /\ Start + (k - Start) = k BY <1>1
<1>7. k - Start \in S BY <1>5, <1>6
<1> QED BY <1>6, <1>7 DEF S

(* A path comes to node n with board b next. *)
ComesTo(n, b, r) == \E x \in Paths(r) : x[r][1] = n /\ b \in Follow(Under(x, r), r)
ChanceAt(n, r)   == n \in DOMAIN nodes /\ nodes[n].type = "chance" /\ nodes[n].tree = storage.tree
                    /\ nodes[n].round = r

LEMMA RootPath ==
  ASSUME Standing
  PROVE  LET x == [i \in Start .. Start |-> <<Root, -1>>] IN x \in Paths(Start) /\ x[Start] = <<Root, -1>>
<1> DEFINE x == [i \in Start .. Start |-> <<Root, -1>>]
<1>1. Start \in Nat /\ Root \in DOMAIN nodes BY Bounds, RootFacts DEF Start
<1>2. x \in [Start .. Start -> (DOMAIN nodes) \X Int] /\ x[Start] = <<Root, -1>> BY <1>1
<1> HIDE DEF x
<1>3. x[Start][1] = Root /\ x[Start][2] = -1 BY <1>2
<1>4. \A i \in Start .. Start - 1 : FALSE BY <1>1
<1>5. x \in Paths(Start) BY <1>2, <1>3, <1>4 DEF Paths
<1> QED BY <1>2, <1>5 DEF x

LEMMA LivePaths ==
  ASSUME Standing, NEW r \in DealtRounds, NEW n, ChanceAt(n, r), NEW b \in LiveBoards(r)
  PROVE  ComesTo(n, b, r) /\ Listed(b, r)
<1> DEFINE N == (storage.endRound - 1) - Start
           S == {d \in 0 .. N : \A u, c : (ChanceAt(u, Start + d) /\ c \in LiveBoards(Start + d)) =>
                                  ComesTo(u, c, Start + d) /\ Listed(c, Start + d)}
<1>1. Start \in Nat /\ storage.endRound \in Nat /\ N \in Nat /\ r \in Nat
  <2>1. Start \in Nat /\ storage.endRound \in Nat /\ Start < storage.endRound BY Bounds DEF Start
  <2> QED BY <2>1, BoardsStand
<1>2. 0 \in S
  <2>1. Start + 0 = Start /\ 0 \in 0 .. N BY <1>1
  <2>2. ASSUME NEW u, NEW c, ChanceAt(u, Start), c \in LiveBoards(Start)
        PROVE  ComesTo(u, c, Start) /\ Listed(c, Start)
    <3>1. Start \in DealtRounds BY <1>1 DEF DealtRounds
    <3>2. nodes[u].chance = 0 BY <2>2, ChanceRounds DEF ChanceAt, Start
    <3>3. u = Root BY <2>2, <3>2, RootOnly DEF ChanceAt
    <3>4. PICK x \in Paths(Start) : x[Start] = <<Root, -1>> BY RootPath
    <3>5. c \in FirstLive BY <2>2, <3>1, LiveUnfolds
    <3>6. Follow(Under(x, Start), Start) = FirstLive BY <3>1, FollowListed DEF FirstLive
    <3>7. Listed(c, Start) BY <3>1, <3>5, <3>6, FollowListed
    <3> QED BY <3>3, <3>4, <3>5, <3>6, <3>7 DEF ComesTo
  <2> QED BY <2>1, <2>2
<1>3. ASSUME NEW d \in 0 .. N - 1, d \in S PROVE d + 1 \in S
  <2> DEFINE q == Start + d
             j == Start + (d + 1)
  <2>1. /\ j \in DealtRounds /\ q \in DealtRounds /\ j # Start /\ j - 1 = q /\ q + 1 = j
        /\ d + 1 \in 0 .. N
    BY <1>1 DEF DealtRounds
  <2>2. \A u, c : (ChanceAt(u, q) /\ c \in LiveBoards(q)) => ComesTo(u, c, q) /\ Listed(c, q) BY <1>3
  <2> HIDE DEF j, q
  <2>3. ASSUME NEW u, NEW c, ChanceAt(u, j), c \in LiveBoards(j)
        PROVE  ComesTo(u, c, j) /\ Listed(c, j)
    <3> DEFINE p == nodes[u].chance
    <3>1. p # 0 /\ nodes[u].round = nodes[p].round + 1
      BY <2>1, <2>3, ChanceRounds DEF ChanceAt, Start
    <3>2. /\ p \in DOMAIN nodes /\ nodes[p].type = "chance" /\ nodes[p].tree = storage.tree
      BY <2>3, <3>1, ChanceTree DEF ChanceAt, Standing
    <3>3. ChanceAt(p, q)
      <4>1. nodes[p].round \in Nat BY <3>2, NodesTyped DEF Standing
      <4>2. nodes[p].round = q BY <2>1, <2>3, <3>1, <4>1 DEF ChanceAt
      <4> QED BY <3>2, <4>2 DEF ChanceAt
    <3>4. PICK i \in LiveBoards(q) : c \in Follow(i, j)
      <4>1. LiveBoards(j) = NextLive(j, LiveBoards(q)) BY <2>1, LiveUnfolds
      <4> QED BY <2>3, <4>1 DEF NextLive
    <3>5. Listed(i, q) /\ i \in Int BY <2>2, <3>3, <3>4 DEF Listed
    <3>6. PICK y \in Paths(q) : y[q][1] = p /\ i \in Follow(Under(y, q), q)
      BY <2>2, <3>3, <3>4 DEF ComesTo
    <3> DEFINE x == Extended(y, q, i, u)
    <3>7. x \in Paths(q + 1) /\ x[q] = <<y[q][1], i>> /\ x[q + 1] = <<u, -1>>
      <4>1. u \in DOMAIN nodes /\ nodes[u].chance = y[q][1] /\ nodes[y[q][1]].type = "chance"
        BY <2>3, <3>2, <3>6 DEF ChanceAt
      <4>2. q \in Start .. storage.endRound - 1 BY <2>1 DEF DealtRounds
      <4> HIDE DEF x, p
      <4> QED BY <3>5, <3>6, <4>1, <4>2, PathExtended DEF x
    <3> HIDE DEF x
    <3>8. x \in Paths(j) /\ x[j][1] = u /\ Under(x, j) = i BY <2>1, <3>7 DEF Under
    <3>9. Listed(c, j) BY <2>1, <3>4, <3>5, FollowListed
    <3> QED BY <3>4, <3>8, <3>9 DEF ComesTo
  <2> QED BY <2>1, <2>3 DEF j
<1> HIDE DEF S
<1>4. 0 .. N \subseteq S BY <1>1, <1>2, <1>3, Induction
<1>5. r - Start \in 0 .. N /\ Start + (r - Start) = r BY <1>1 DEF DealtRounds
<1>6. r - Start \in S BY <1>4, <1>5
<1> QED BY <1>5, <1>6 DEF S

(* The paths to choices, of one more round than that of the choice.        *)
ChoiceSpots(m) == {x \in Paths(m) : nodes[x[m][1]].type = "choice"}

LEMMA ChoiceSpotFacts ==
  ASSUME Standing, NEW m \in Depths, NEW x \in ChoiceSpots(m)
  PROVE  LET v == nodes[x[m][1]]
         IN /\ x \in Paths(m) /\ x[m][1] \in DOMAIN nodes /\ v.type = "choice"
            /\ v.tree = storage.tree /\ v.round + 1 = m /\ m # Start /\ v.round \in DealtRounds
            /\ Under(x, m) = x[v.round][2] /\ Under(x, m) \in LiveBoards(v.round)
<1> DEFINE i == x[m][1]
           v == nodes[i]
<1>1. x \in Paths(m) /\ v.type = "choice" /\ Start \in Nat /\ m \in Nat /\ m \in Start .. m
  BY Bounds DEF ChoiceSpots, Start, Depths
<1>2. i \in DOMAIN nodes BY <1>1, PathTyped
<1>3. v.tree = storage.tree /\ Level(i) = m - 1 /\ v.chance = IF m = Start THEN 0 ELSE x[m - 1][1]
  BY <1>1, PathRounds
<1>4. v.chance # 0 /\ v.round = nodes[v.chance].round /\ v.chance \in DOMAIN nodes /\ v.round \in Nat
  BY <1>1, <1>2, ChoiceChance, NodesTyped DEF Standing
<1>5. m # Start /\ v.round = m - 1 BY <1>3, <1>4 DEF Level
<1>6. v.round \in Start .. m - 1 /\ v.round + 1 = m BY <1>1, <1>5
<1>7. Under(x, m) = x[v.round][2] BY <1>5 DEF Under
<1>8. v.round \in DealtRounds BY <1>1, <1>6, PathListed
<1> QED BY <1>1, <1>2, <1>3, <1>5, <1>6, <1>7, <1>8, PathsLive

LEMMA ChoiceReached ==
  ASSUME Standing, NEW v \in DOMAIN nodes, nodes[v].type = "choice", nodes[v].tree = storage.tree,
         NEW b \in LiveBoards(nodes[v].round)
  PROVE  LET r == nodes[v].round
         IN /\ r \in DealtRounds /\ r + 1 \in Depths /\ r \in Nat
            /\ \E x \in ChoiceSpots(r + 1) : x[r + 1][1] = v /\ Under(x, r + 1) = b
<1> DEFINE r == nodes[v].round
           c == nodes[v].chance
<1>1. /\ c \in DOMAIN nodes /\ nodes[c].type = "chance" /\ nodes[c].round = r
      /\ nodes[c].tree = storage.tree
  BY ChoiceChance DEF Standing
<1>2. r \in DealtRounds /\ ChanceAt(c, r) BY <1>1, ChanceRounds DEF DealtRounds, Start, ChanceAt
<1>3. ComesTo(c, b, r) /\ Listed(b, r) BY <1>2, LivePaths
<1>4. PICK y \in Paths(r) : y[r][1] = c /\ b \in Follow(Under(y, r), r) BY <1>3 DEF ComesTo
<1>5. b \in Int /\ r \in Start .. storage.endRound - 1 /\ r \in Nat
  BY <1>2, <1>3, BoardsStand DEF Listed, DealtRounds
<1> DEFINE x == Extended(y, r, b, v)
<1> HIDE DEF r
<1>6. x \in Paths(r + 1) /\ r + 1 \in Depths /\ x[r] = <<y[r][1], b>> /\ x[r + 1] = <<v, -1>>
  <2>1. nodes[v].chance = y[r][1] /\ nodes[y[r][1]].type = "chance" BY <1>1, <1>4
  <2> HIDE DEF x, c
  <2> QED BY <1>4, <1>5, <2>1, PathExtended DEF x
<1> HIDE DEF x
<1>7. x[r + 1][1] = v /\ x \in ChoiceSpots(r + 1) BY <1>6 DEF ChoiceSpots
<1>8. Under(x, r + 1) = b
  <2>1. r + 1 # Start /\ (r + 1) - 1 = r
    <3>1. Start \in Nat BY Bounds DEF Start
    <3> QED BY <1>5, <3>1
  <2> QED BY <1>6, <2>1 DEF Under
<1> QED BY <1>2, <1>5, <1>6, <1>7, <1>8 DEF r

-----------------------------------------------------------------------------
(* The entries of the choices of a tree lie side by side in its arrays, so *)
(* that two paths to choices have no entry in common.                      *)
TiledBy(v, r, p) ==
  /\ v \in DOMAIN nodes /\ nodes[v].type = "choice" /\ nodes[v].tree = storage.tree
  /\ nodes[v].round = r /\ nodes[v].u.playerActing = p

Ends(v) == nodes[v].u.index + nodes[v].u.numChoices

LEMMA TreeTiled ==
  ASSUME Standing, NEW r \in Rounds, NEW p \in Players
  PROVE  /\ size[storage.tree][r][p] \in Nat
         /\ \A v : TiledBy(v, r, p) =>
              /\ v \in Nat /\ nodes[v].u.index \in Nat /\ nodes[v].u.numChoices \in Nat
              /\ Ends(v) <= size[storage.tree][r][p]
         /\ \A v, w : (TiledBy(v, r, p) /\ TiledBy(w, r, p) /\ v < w) => Ends(v) <= nodes[w].u.index
         /\ \A e \in 0 .. size[storage.tree][r][p] - 1 :
              \E v : TiledBy(v, r, p) /\ nodes[v].u.index <= e /\ e < Ends(v)
<1> DEFINE t == storage.tree
           ids == ChoicesOf({i \in ChoiceNodes : nodes[i].tree = t}, p, r)
           start == [i \in ids |-> nodes[i].u.index]
           n == size[t][r][p]
<1>1. t \in Trees
  <2>1. Root \in DOMAIN nodes /\ nodes[Root].tree = t BY RootFacts
  <2> QED BY <2>1 DEF Standing, Sound, TreeInv, NodeInv, Trees
<1>2. n \in Nat
  <2>1. PICK k \in Nat \ {0} : size \in [0 .. k - 1 -> SizesOf(game)]
    BY DEF Standing, Sound, TreeInv, SizeInv
  <2>2. size[t] \in SizesOf(game) BY <1>1, <2>1 DEF Trees
  <2> QED BY <2>2 DEF SizesOf, Rounds
<1>3. Tile(ids, start, n) BY <1>1, IndicesFollow DEF Standing, Sound, IndicesFit
<1>4. \A v : v \in ids <=> TiledBy(v, r, p) BY DEF ChoicesOf, ChoiceNodes, TiledBy
<1>5. \A v \in ids : start[v] = nodes[v].u.index /\ start[v] + nodes[v].u.numChoices = Ends(v) BY DEF Ends
<1>6. ASSUME NEW v, TiledBy(v, r, p)
      PROVE  v \in Nat /\ nodes[v].u.index \in Nat /\ nodes[v].u.numChoices \in Nat
  <2>1. nodes[v].u \in ChoiceU /\ v \in DOMAIN nodes BY <1>6, ChoiceChance DEF TiledBy, Standing
  <2>2. v \in Nat BY <2>1, NodesTyped DEF Standing
  <2> QED BY <2>1, <2>2 DEF ChoiceU
<1> HIDE DEF t, ids, start, n
<1>7. /\ \A i \in ids : start[i] + nodes[i].u.numChoices <= n
      /\ \A i, j \in ids : i < j => start[i] + nodes[i].u.numChoices <= start[j]
      /\ \A e \in 0 .. n - 1 : \E i \in ids : start[i] <= e /\ e < start[i] + nodes[i].u.numChoices
  BY <1>3 DEF Tile
<1>8. \A v : TiledBy(v, r, p) => Ends(v) <= n BY <1>4, <1>5, <1>7
<1>9. \A v, w : (TiledBy(v, r, p) /\ TiledBy(w, r, p) /\ v < w) => Ends(v) <= nodes[w].u.index
  BY <1>4, <1>5, <1>7
<1>10. \A e \in 0 .. n - 1 : \E v : TiledBy(v, r, p) /\ nodes[v].u.index <= e /\ e < Ends(v)
  BY <1>4, <1>5, <1>7
<1> QED BY <1>2, <1>6, <1>8, <1>9, <1>10 DEF n, t

(* What reorder_r writes at the end of a path.                             *)
EntriesAt(x, m) ==
  LET n == nodes[x[m][1]]
  IN {<<n.round, n.u.playerActing, n.u.index + c, Under(x, m)>> : c \in 0 .. n.u.numChoices - 1}

LEMMA EntryFacts ==
  ASSUME Standing, NEW m \in Depths, NEW x \in ChoiceSpots(m), NEW e \in EntriesAt(x, m)
  PROVE  LET v == x[m][1]
         IN /\ e = <<e[1], e[2], e[3], e[4]>> /\ e[1] = nodes[v].round /\ e[2] = nodes[v].u.playerActing
            /\ TiledBy(v, e[1], e[2]) /\ nodes[v].u.index <= e[3] /\ e[3] < Ends(v) /\ e[3] \in Nat
            /\ e[4] = Under(x, m) /\ e[4] \in LiveBoards(e[1])
            /\ e[1] \in DealtRounds /\ e[1] \in Rounds /\ e[2] \in Players /\ e[1] + 1 = m
<1> DEFINE v == x[m][1]
<1>1. PICK c \in 0 .. nodes[v].u.numChoices - 1 :
        e = <<nodes[v].round, nodes[v].u.playerActing, nodes[v].u.index + c, Under(x, m)>>
  BY DEF EntriesAt
<1>2. /\ x \in Paths(m) /\ v \in DOMAIN nodes /\ nodes[v].type = "choice" /\ nodes[v].tree = storage.tree
      /\ nodes[v].round + 1 = m /\ nodes[v].round \in DealtRounds
      /\ Under(x, m) \in LiveBoards(nodes[v].round)
  BY ChoiceSpotFacts
<1>3. nodes[v].u \in ChoiceU BY <1>2, ChoiceChance DEF Standing
<1>4. /\ nodes[v].u.playerActing \in Players /\ nodes[v].u.index \in Nat /\ nodes[v].u.numChoices \in Nat
  BY <1>3 DEF ChoiceU
<1>5. nodes[v].round \in Rounds BY <1>2, StartIsDepth
<1> HIDE DEF v
<1>6. /\ e[1] = nodes[v].round /\ e[2] = nodes[v].u.playerActing /\ e[3] = nodes[v].u.index + c
      /\ e[4] = Under(x, m) /\ e = <<e[1], e[2], e[3], e[4]>>
  BY <1>1
<1>7. nodes[v].u.index <= e[3] /\ e[3] < Ends(v) /\ e[3] \in Nat BY <1>4, <1>6 DEF Ends
<1>8. TiledBy(v, e[1], e[2]) BY <1>2, <1>6 DEF TiledBy
<1> QED BY <1>2, <1>4, <1>5, <1>6, <1>7, <1>8 DEF v

LEMMA EntriesApart ==
  ASSUME Standing, RowsInv, NEW m \in Depths, NEW k \in Depths, NEW x \in ChoiceSpots(m),
         NEW y \in ChoiceSpots(k), NEW e, e \in EntriesAt(x, m), e \in EntriesAt(y, k)
  PROVE  m = k /\ x = y
<1>1. /\ TiledBy(x[m][1], e[1], e[2]) /\ nodes[x[m][1]].u.index <= e[3] /\ e[3] < Ends(x[m][1])
      /\ e[4] = Under(x, m) /\ e[1] + 1 = m /\ e[1] \in Rounds /\ e[2] \in Players /\ e[3] \in Nat
  BY EntryFacts
<1>2. /\ TiledBy(y[k][1], e[1], e[2]) /\ nodes[y[k][1]].u.index <= e[3] /\ e[3] < Ends(y[k][1])
      /\ e[4] = Under(y, k) /\ e[1] + 1 = k
  BY EntryFacts
<1>3. m = k BY <1>1, <1>2
<1> DEFINE v == x[m][1]
           w == y[k][1]
<1>4. v = w
  <2> HIDE DEF v, w
  <2>1. /\ \A i : TiledBy(i, e[1], e[2]) => /\ i \in Nat /\ nodes[i].u.index \in Nat
                                            /\ nodes[i].u.numChoices \in Nat
        /\ \A i, j : (TiledBy(i, e[1], e[2]) /\ TiledBy(j, e[1], e[2]) /\ i < j) =>
             Ends(i) <= nodes[j].u.index
    BY <1>1, TreeTiled
  <2>2. /\ TiledBy(v, e[1], e[2]) /\ TiledBy(w, e[1], e[2]) /\ nodes[v].u.index <= e[3]
        /\ e[3] < Ends(v) /\ nodes[w].u.index <= e[3] /\ e[3] < Ends(w) /\ e[3] \in Nat
    BY <1>1, <1>2 DEF v, w
  <2>3. /\ v \in Nat /\ w \in Nat /\ nodes[v].u.index \in Nat /\ nodes[w].u.index \in Nat
        /\ Ends(v) \in Nat /\ Ends(w) \in Nat
    BY <2>1, <2>2 DEF Ends
  <2>4. ~(v < w)
    <3> SUFFICES ASSUME v < w PROVE FALSE OBVIOUS
    <3>1. Ends(v) <= nodes[w].u.index BY <2>1, <2>2
    <3> QED BY <2>2, <2>3, <3>1
  <2>5. ~(w < v)
    <3> SUFFICES ASSUME w < v PROVE FALSE OBVIOUS
    <3>1. Ends(w) <= nodes[v].u.index BY <2>1, <2>2
    <3> QED BY <2>2, <2>3, <3>1
  <2> QED BY <2>3, <2>4, <2>5
<1>5. x \in Paths(m) /\ y \in Paths(m) BY <1>3, ChoiceSpotFacts
<1> QED BY <1>1, <1>2, <1>3, <1>4, <1>5, PathByEnd

(* All of them together are the arrays that the boards of the tree need.   *)
AllEntries ==
  UNION {{<<x[1], x[2], i, b>> : i \in 0 .. size[storage.tree][x[1]][x[2]] - 1, b \in LiveBoards(x[1])} :
           x \in DealtRounds \X Players}

LEMMA EntriesFill ==
  ASSUME Standing
  PROVE  \A e : e \in AllEntries <=> \E m \in Depths : \E x \in ChoiceSpots(m) : e \in EntriesAt(x, m)
<1>1. ASSUME NEW m \in Depths, NEW x \in ChoiceSpots(m), NEW e \in EntriesAt(x, m)
      PROVE  e \in AllEntries
  <2> DEFINE v == x[m][1]
  <2>1. /\ e = <<e[1], e[2], e[3], e[4]>> /\ TiledBy(v, e[1], e[2]) /\ e[3] < Ends(v) /\ e[3] \in Nat
        /\ e[4] \in LiveBoards(e[1]) /\ e[1] \in DealtRounds /\ e[1] \in Rounds /\ e[2] \in Players
    BY EntryFacts
  <2> HIDE DEF v
  <2> DEFINE s == size[storage.tree][e[1]][e[2]]
  <2>2. s \in Nat /\ Ends(v) <= s /\ Ends(v) \in Nat BY <2>1, TreeTiled DEF Ends
  <2> HIDE DEF s
  <2>3. e[3] \in 0 .. s - 1 BY <2>1, <2>2
  <2> DEFINE y == <<e[1], e[2]>>
             R == {<<y[1], y[2], i, b>> : i \in 0 .. size[storage.tree][y[1]][y[2]] - 1, b \in LiveBoards(y[1])}
  <2>4. y \in DealtRounds \X Players /\ y[1] = e[1] /\ y[2] = e[2] BY <2>1
  <2>5. e \in R BY <2>1, <2>3, <2>4 DEF s
  <2> QED BY <2>4, <2>5 DEF AllEntries
<1>2. ASSUME NEW e \in AllEntries
      PROVE  \E m \in Depths : \E x \in ChoiceSpots(m) : e \in EntriesAt(x, m)
  <2>1. PICK r \in DealtRounds, p \in Players :
          \E i \in 0 .. size[storage.tree][r][p] - 1, b \in LiveBoards(r) : e = <<r, p, i, b>>
    BY DEF AllEntries
  <2>2. PICK i \in 0 .. size[storage.tree][r][p] - 1, b \in LiveBoards(r) : e = <<r, p, i, b>> BY <2>1
  <2>3. r \in Rounds BY StartIsDepth
  <2>4. PICK v : TiledBy(v, r, p) /\ nodes[v].u.index <= i /\ i < Ends(v) BY <2>2, <2>3, TreeTiled
  <2>5. /\ size[storage.tree][r][p] \in Nat /\ nodes[v].u.index \in Nat /\ nodes[v].u.numChoices \in Nat
    BY <2>3, <2>4, TreeTiled
  <2>6. v \in DOMAIN nodes /\ nodes[v].type = "choice" /\ nodes[v].tree = storage.tree
        /\ nodes[v].round = r /\ nodes[v].u.playerActing = p
    BY <2>4 DEF TiledBy
  <2>7. r + 1 \in Depths /\ \E x \in ChoiceSpots(r + 1) : x[r + 1][1] = v /\ Under(x, r + 1) = b
    BY <2>2, <2>6, ChoiceReached
  <2>8. PICK x \in ChoiceSpots(r + 1) : x[r + 1][1] = v /\ Under(x, r + 1) = b BY <2>7
  <2> DEFINE c == i - nodes[v].u.index
             m == r + 1
  <2>9. c \in 0 .. nodes[v].u.numChoices - 1 /\ i = nodes[v].u.index + c
    BY <2>2, <2>4, <2>5 DEF Ends
  <2> HIDE DEF c, m
  <2>10. e = <<nodes[v].round, nodes[v].u.playerActing, nodes[v].u.index + c, Under(x, m)>>
    BY <2>2, <2>6, <2>8, <2>9 DEF m
  <2>11. x[m][1] = v BY <2>8 DEF m
  <2>12. e \in EntriesAt(x, m) BY <2>9, <2>10, <2>11 DEF EntriesAt
  <2> QED BY <2>7, <2>8, <2>12 DEF m
<1> QED BY <1>1, <1>2

-----------------------------------------------------------------------------
(* Where a walk of recompress stands, it is about to write what is at the  *)
(* end of one path that is still ahead.                                    *)
LEMMA ChoiceHere ==
  ASSUME Standing, StackOK(stack, boardIndex, ptr), Visiting("choice"), job.type = "reorder"
  PROVE  LET m == Node.round + 1
         IN m \in Depths /\ \E x \in ChoiceSpots(m) :
              /\ x \in Pending(stack, boardIndex, m) /\ Did(m) = {x}
              /\ EntriesAt(x, m) = OutEntries(Node)
<1> DEFINE n == Current.node
           r == nodes[n].round
           m == r + 1
<1>1. stack # <<>> /\ Node.type = "choice" /\ Current.kind = "visit" BY DEF Visiting
<1>2. /\ 1 \in DOMAIN stack /\ Current = stack[1] /\ n \in DOMAIN nodes
      /\ Node = nodes[n] /\ nodes[n].tree = storage.tree
  BY <1>1, TopEntry
<1>3. Level(n) = r /\ r \in Nat
  BY <1>1, <1>2, ChoiceChance, NodesTyped DEF Level, Standing
<1>4. Level(n) + 1 \in Depths /\ \E y : LeadsTo(y, n, boardIndex) BY <1>2, PathTo
<1>5. PICK x : LeadsTo(x, n, boardIndex) BY <1>4
<1> HIDE DEF r, n
<1>6. x \in Paths(m) /\ Agrees(x, boardIndex, r) /\ x[m][1] = n BY <1>3, <1>5 DEF LeadsTo
<1>7. m \in Depths /\ m - 1 = r /\ r < m BY <1>3, <1>4
<1> HIDE DEF m
<1>8. x \in ChoiceSpots(m) /\ x \in Spots(m) BY <1>1, <1>2, <1>6 DEF ChoiceSpots, Spots, Wanted
<1>9. Ahead(Current, boardIndex, m) = VisitSpots(n, boardIndex, m) BY <1>1 DEF Ahead, n
<1>10. n \in Kids(n) BY <1>2, KidSelf DEF Standing
<1>11. x \in VisitSpots(n, boardIndex, m) BY <1>3, <1>6, <1>7, <1>8, <1>10 DEF VisitSpots, m
<1>12. x \in Pending(stack, boardIndex, m) BY <1>2, <1>9, <1>11 DEF Pending
<1>13. Did(m) = {x}
  <2>1. x \in Did(m) BY <1>1, <1>6, <1>9, <1>11 DEF Did, n
  <2>2. ASSUME NEW y \in Did(m) PROVE y = x
    <3>1. y \in VisitSpots(n, boardIndex, m) /\ y[m][1] = n BY <1>9 DEF Did, n
    <3>2. y \in Paths(m) /\ Agrees(y, boardIndex, m - 1) BY <1>3, <1>7, <3>1 DEF VisitSpots, Spots
    <3> QED BY <1>6, <1>7, <3>1, <3>2, PathUnique
  <2> QED BY <2>1, <2>2
<1>14. Under(x, m) = boardIndex[r]
  <2>1. m # Start /\ r \in DealtRounds BY <1>2, <1>6, <1>7, <1>8, ChoiceSpotFacts DEF r
  <2>2. r \in Start .. r
    <3>1. Start \in Nat BY Bounds DEF Start
    <3> QED BY <1>3, <2>1, <3>1 DEF DealtRounds
  <2> QED BY <1>6, <1>7, <2>1, <2>2 DEF Under, Agrees
<1>15. EntriesAt(x, m) = OutEntries(Node) BY <1>2, <1>6, <1>14 DEF EntriesAt, OutEntries, r
<1> QED BY <1>2, <1>7, <1>8, <1>12, <1>13, <1>15 DEF m, r

LEMMA ChoicesElsewhere ==
  ASSUME Standing, StackOK(stack, boardIndex, ptr), Moves, NEW m \in Depths,
         ~(WalkChoice /\ m = Node.round + 1)
  PROVE  Did(m) \cap ChoiceSpots(m) = {}
<1> SUFFICES ASSUME NEW x \in Did(m), x \in ChoiceSpots(m) PROVE FALSE OBVIOUS
<1>1. Current.kind = "visit" /\ x[m][1] = Current.node BY DEF Did
<1>2. stack # <<>> BY MoveKinds
<1>3. Node = nodes[Current.node] BY <1>2, TopEntry
<1>4. Node.type = "choice" /\ Node.round + 1 = m BY <1>1, <1>3, ChoiceSpotFacts
<1>5. WalkChoice
  <2>1. ~(NextBoard \/ LeaveChance) BY <1>1, MoveKinds
  <2>2. ~WalkChance /\ ~WalkEnd BY <1>4 DEF WalkChance, WalkEnd, Visiting
  <2> QED BY <2>1, <2>2 DEF Moves
<1> QED BY <1>4, <1>5

(* What recompress has written belongs to the paths that are not ahead of  *)
(* it any more.                                                            *)
Written(e, st, bi) ==
  \E m \in Depths : \E x \in ChoiceSpots(m) \ Pending(st, bi, m) : e \in EntriesAt(x, m)

MoveInv ==
  /\ job.type = "none" => moved = {}
  /\ job.type = "reorder" =>
       /\ \A m \in Depths : InTurn(stack, boardIndex, m)
       /\ moved = {e \in AllEntries : Written(e, stack, boardIndex)}

MoveStarts == stack = <<VisitNode(Root, TRUE)>> /\ job \in Jobs /\ moved = {}

LEMMA WrittenStays ==
  ASSUME UNCHANGED <<vars, storage, job>>
  PROVE  /\ Depths' = Depths /\ AllEntries' = AllEntries
         /\ \A e, st, bi : Written(e, st, bi)' <=> Written(e, st, bi)
<1>0. UNCHANGED <<vars, storage>> OBVIOUS
<1>1. nodes' = nodes /\ game' = game /\ storage' = storage /\ size' = size BY DEF vars
<1>2. Start' = Start /\ DealtRounds' = DealtRounds /\ \A m : Paths(m)' = Paths(m) BY <1>0, PathsStay
<1>3. Depths' = Depths BY <1>1, <1>2 DEF Depths
<1>4. \A m : ChoiceSpots(m)' = ChoiceSpots(m)
  <2> SUFFICES ASSUME NEW m PROVE ChoiceSpots(m)' = ChoiceSpots(m) OBVIOUS
  <2>1. \A x : x \in ChoiceSpots(m)' <=> x \in ChoiceSpots(m) BY <1>1, <1>2 DEF ChoiceSpots
  <2> QED BY <2>1
<1>5. \A x, m : EntriesAt(x, m)' = EntriesAt(x, m) BY <1>1, <1>2 DEF EntriesAt, Under
<1>6. \A st, bi, m : Pending(st, bi, m)' = Pending(st, bi, m) BY SpotsStay
<1>7. \A r : LiveBoards(r)' = LiveBoards(r)
  BY <1>1 DEF LiveBoards, NumBoards, FirstBoard, EndBoard, BoardAt
<1>8. AllEntries' = AllEntries BY <1>1, <1>2, <1>7 DEF AllEntries
<1>9. \A e, st, bi : Written(e, st, bi)' <=> Written(e, st, bi) BY <1>3, <1>4, <1>5, <1>6 DEF Written
<1> QED BY <1>3, <1>8, <1>9

LEMMA WritesNext ==
  ASSUME Standing, WalkRuns, Falls(stack), MoveInv, Moves PROVE MoveInv'
<1>0. /\ StackOK(stack, boardIndex, ptr) /\ boardIndex \in [Rounds -> Nat]
      /\ stack # <<>> => job # NoJob
  BY DEF WalkRuns
<1>1. UNCHANGED <<vars, storage, job>>
  BY DEF Moves, WalkEnd, WalkChoice, WalkChance, NextBoard, LeaveChance
<1>2. /\ WalkChoice => moved' = moved \cup OutEntries(Node) /\ Visiting("choice")
      /\ ~WalkChoice => moved' = moved
  BY DEF Moves, WalkEnd, WalkChoice, WalkChance, NextBoard, LeaveChance
<1>3. CASE job.type # "reorder"
  <2>1. OutEntries(Node) = {} BY <1>3 DEF OutEntries
  <2>2. moved' = moved BY <1>2, <2>1
  <2> QED BY <1>1, <1>3, <2>2 DEF MoveInv
<1>4. CASE job.type = "reorder"
  <2> DEFINE st == stack'
             bi == boardIndex'
  <2>1. \A m \in Depths : InTurn(stack, boardIndex, m)
    BY <1>4 DEF MoveInv
  <2>2. ASSUME NEW m \in Depths
        PROVE  /\ InTurn(st, bi, m) /\ Did(m) \subseteq Pending(stack, boardIndex, m)
               /\ Pending(st, bi, m) = Pending(stack, boardIndex, m) \ Did(m)
    BY <1>0, <2>1, StepOrder
  <2> HIDE DEF st, bi
  <2>3. ASSUME NEW e
        PROVE  Written(e, st, bi) <=>
                 \/ Written(e, stack, boardIndex)
                 \/ \E m \in Depths : \E x \in ChoiceSpots(m) \cap Did(m) : e \in EntriesAt(x, m)
    <3>1. \A m \in Depths : ChoiceSpots(m) \ Pending(st, bi, m) =
            (ChoiceSpots(m) \ Pending(stack, boardIndex, m)) \cup (ChoiceSpots(m) \cap Did(m))
      BY <2>2
    <3> QED BY <3>1 DEF Written
  <2>4. ASSUME NEW e \in AllEntries
        PROVE  e \in moved' <=> Written(e, st, bi)
    <3>1. e \in moved <=> Written(e, stack, boardIndex) BY <1>4, <2>4 DEF MoveInv
    <3>2. CASE WalkChoice
      <4> DEFINE k == Node.round + 1
      <4>1. Visiting("choice") /\ moved' = moved \cup OutEntries(Node) BY <1>2, <3>2
      <4>2. k \in Depths /\ \E x \in ChoiceSpots(k) : Did(k) = {x} /\ EntriesAt(x, k) = OutEntries(Node)
        BY <1>0, <1>4, <4>1, ChoiceHere
      <4>3. \A m \in Depths : m # k => Did(m) \cap ChoiceSpots(m) = {}
        BY <1>0, ChoicesElsewhere
      <4> HIDE DEF k
      <4>4. (\E m \in Depths : \E x \in ChoiceSpots(m) \cap Did(m) : e \in EntriesAt(x, m)) <=>
              e \in OutEntries(Node)
        BY <4>2, <4>3
      <4> QED BY <2>3, <3>1, <4>1, <4>4
    <3>3. CASE ~WalkChoice
      <4>1. \A m \in Depths : Did(m) \cap ChoiceSpots(m) = {} BY <1>0, <3>3, ChoicesElsewhere
      <4> QED BY <1>2, <2>3, <3>1, <3>3, <4>1
    <3> QED BY <3>2, <3>3
  <2>5. moved' \subseteq AllEntries
    <3>1. moved \subseteq AllEntries BY <1>4 DEF MoveInv
    <3>2. WalkChoice => OutEntries(Node) \subseteq AllEntries
      <4> SUFFICES ASSUME WalkChoice PROVE OutEntries(Node) \subseteq AllEntries OBVIOUS
      <4>1. Visiting("choice") BY <1>2
      <4>2. \E m \in Depths : \E x \in ChoiceSpots(m) : EntriesAt(x, m) = OutEntries(Node)
        BY <1>0, <1>4, <4>1, ChoiceHere
      <4> QED BY <4>2, EntriesFill
    <3> QED BY <1>2, <3>1, <3>2
  <2>6. moved' = {e \in AllEntries : Written(e, st, bi)} BY <2>4, <2>5
  <2>7. (\A m \in Depths : InTurn(stack, boardIndex, m))'
    <3> SUFFICES ASSUME NEW st2, NEW bi2, stack' = st2, boardIndex' = bi2,
                        \A m \in Depths : InTurn(st2, bi2, m)
                 PROVE  (\A m \in Depths : InTurn(stack, boardIndex, m))'
      BY <2>2 DEF st, bi
    <3>1. \A m \in Depths' : InTurn(st2, bi2, m)' BY <1>1, SpotsStay, WrittenStays
    <3> QED BY <3>1
  <2>8. (moved = {e \in AllEntries : Written(e, stack, boardIndex)})'
    <3> SUFFICES ASSUME NEW st2, NEW bi2, stack' = st2, boardIndex' = bi2,
                        moved' = {e \in AllEntries : Written(e, st2, bi2)}
                 PROVE  (moved = {e \in AllEntries : Written(e, stack, boardIndex)})'
      BY <2>6 DEF st, bi
    <3>1. AllEntries' = AllEntries /\ \A e : Written(e, st2, bi2)' <=> Written(e, st2, bi2)
      BY <1>1, WrittenStays
    <3>2. {e \in AllEntries' : Written(e, st2, bi2)'} = {e \in AllEntries : Written(e, st2, bi2)}
      BY <3>1
    <3> QED BY <3>2
  <2> QED BY <1>1, <1>4, <2>7, <2>8 DEF MoveInv
<1> QED BY <1>3, <1>4

LEMMA StartsToWrite ==
  ASSUME Standing, MoveStarts PROVE MoveInv
<1>1. job.type # "none" /\ moved = {} BY DEF MoveStarts, Jobs
<1> DEFINE e == VisitNode(Root, TRUE)
<1>2. e.kind = "visit" /\ e.node = Root /\ stack = <<e>> BY DEF VisitNode, MoveStarts
<1> HIDE DEF e
<1>3. ASSUME job.type = "reorder", NEW m \in Depths
      PROVE  InTurn(stack, boardIndex, m) /\ ChoiceSpots(m) \subseteq Pending(stack, boardIndex, m)
  <2>1. InTurn(stack, boardIndex, m) /\ Spots(m) \subseteq Pending(stack, boardIndex, m)
    BY <1>2, RootAhead
  <2>2. ChoiceSpots(m) \subseteq Spots(m) BY <1>3 DEF ChoiceSpots, Spots, Wanted
  <2> QED BY <2>1, <2>2
<1>4. job.type = "reorder" => \A x : ~Written(x, stack, boardIndex) BY <1>3 DEF Written
<1> QED BY <1>1, <1>3, <1>4 DEF MoveInv

LEMMA MoveNext ==
  ASSUME WalkInv, StreamInv, MoveInv, [WalkNext]_allVars PROVE (MoveInv \/ MoveStarts)'
<1>0. Sound /\ StorageInv /\ WalkRuns /\ Falls(stack) BY DEF WalkInv, StreamInv
<1>1. CASE Begin
  <2>1. /\ UNCHANGED <<vars, storage>> /\ passes' = passes /\ moved' = moved
        /\ job = NoJob /\ job' \in Jobs /\ stack' = <<VisitNode(Root, TRUE)>>
    BY <1>1 DEF Begin, AtRest
  <2>2. moved' = {} BY <2>1 DEF MoveInv, NoJob
  <2>3. nodes' = nodes /\ storage' = storage BY <2>1 DEF vars
  <2>4. Root' = Root /\ Jobs' = Jobs
    BY <2>1, <2>3 DEF Root, SubgameNodes, Children, Jobs, IsCompressed
  <2> QED BY <2>1, <2>2, <2>4 DEF MoveStarts, VisitNode
<1>2. CASE Moves
  <2>1. stack # <<>> BY <1>0, <1>2, MoveKinds DEF WalkRuns
  <2>2. storage.endRound > 0 /\ Ready BY <1>0, <2>1 DEF WalkRuns
  <2>3. Standing BY <1>0, <2>2, WalksStand
  <2> QED BY <1>0, <1>2, <2>3, WritesNext
<1>3. CASE Finish
  <2>1. job' = NoJob /\ moved' = {} BY <1>3 DEF Finish
  <2> QED BY <2>1 DEF MoveInv, NoJob
<1>4. CASE ~(Begin \/ Moves \/ Finish)
  <2>1. /\ UNCHANGED walkVars
        /\ \/ UNCHANGED <<vars, storage>>
           \/ job = NoJob /\ (passes = 0 \/ ~(storage.endRound > 0 /\ Ready))
    BY <1>0, <1>4, NoWalk DEF Moves
  <2>2. /\ job' = job /\ moved' = moved /\ stack' = stack /\ boardIndex' = boardIndex
    BY <2>1 DEF walkVars
  <2>3. CASE job = NoJob
    <3>1. moved' = {} /\ job' = NoJob BY <2>2, <2>3 DEF MoveInv, NoJob
    <3> QED BY <3>1 DEF MoveInv, NoJob
  <2>4. CASE UNCHANGED <<vars, storage>>
    <3>1. UNCHANGED <<vars, storage, job>> BY <2>2, <2>4
    <3> SUFFICES ASSUME NEW st, NEW bi, stack = st, boardIndex = bi PROVE MoveInv' OBVIOUS
    <3>2. stack' = st /\ boardIndex' = bi BY <2>2
    <3>3. /\ Depths' = Depths /\ AllEntries' = AllEntries
          /\ \A e : Written(e, st, bi)' <=> Written(e, st, bi)
          /\ \A m : InTurn(st, bi, m)' <=> InTurn(st, bi, m)
      BY <3>1, SpotsStay, WrittenStays
    <3>4. job.type = "reorder" =>
            /\ \A m \in Depths' : InTurn(st, bi, m)'
            /\ moved' = {e \in AllEntries' : Written(e, st, bi)'}
      <4>1. {e \in AllEntries' : Written(e, st, bi)'} = {e \in AllEntries : Written(e, st, bi)} BY <3>3
      <4> QED BY <2>2, <3>3, <4>1 DEF MoveInv
    <3> QED BY <2>2, <3>2, <3>4 DEF MoveInv
  <2> QED BY <2>1, <2>3, <2>4
<1> QED BY <1>1, <1>2, <1>3, <1>4

LEMMA WritesFollow ==
  ASSUME WalkInv, RowsInv, MoveInv PROVE ReorderPreserves
<1> SUFFICES ASSUME job.type = "reorder"
             PROVE  /\ Visiting("choice") => OutEntries(Node) \cap moved = {}
                    /\ stack = <<>> => moved = AllEntries
  BY DEF ReorderPreserves, AllEntries, DealtRounds, Start
<1>1. storage.endRound > 0 /\ Ready BY DEF WalkInv, WalkRuns, NoJob
<1>2. Standing /\ StackOK(stack, boardIndex, ptr) BY <1>1, WalksStand DEF WalkInv, WalkRuns
<1>3. moved = {e \in AllEntries : Written(e, stack, boardIndex)} BY DEF MoveInv
<1>4. ASSUME Visiting("choice"), NEW e \in OutEntries(Node), e \in moved PROVE FALSE
  <2>1. PICK m \in Depths : \E x \in ChoiceSpots(m) :
          x \in Pending(stack, boardIndex, m) /\ EntriesAt(x, m) = OutEntries(Node)
    BY <1>2, <1>4, ChoiceHere
  <2>2. PICK x \in ChoiceSpots(m) : x \in Pending(stack, boardIndex, m) /\ e \in EntriesAt(x, m)
    BY <1>4, <2>1
  <2>3. PICK k \in Depths : \E y \in ChoiceSpots(k) \ Pending(stack, boardIndex, k) : e \in EntriesAt(y, k)
    BY <1>3, <1>4 DEF Written
  <2>4. PICK y \in ChoiceSpots(k) : y \notin Pending(stack, boardIndex, k) /\ e \in EntriesAt(y, k)
    BY <2>3
  <2>5. m = k /\ x = y BY <1>2, <2>2, <2>4, EntriesApart
  <2> QED BY <2>2, <2>4, <2>5
<1>5. ASSUME stack = <<>> PROVE moved = AllEntries
  <2>1. \A m : Pending(stack, boardIndex, m) = {} BY <1>5, AllDone
  <2>2. \A e \in AllEntries : Written(e, stack, boardIndex) BY <1>2, <2>1, EntriesFill DEF Written
  <2> QED BY <1>3, <2>2
<1> QED BY <1>4, <1>5

(* recompress writes every entry of the tree once: what it is about to     *)
(* write it has not written, and at the end it has written them all        *)
(* (reorder_r).                                                            *)
THEOREM EveryEntryMovesOnce == (\A g \in Games : NoSkips(g)) => (WalkSpec => []ReorderPreserves)
<1> SUFFICES ASSUME \A g \in Games : NoSkips(g) PROVE WalkSpec => []ReorderPreserves
  OBVIOUS
<1>1. WalkSpec => []WalkInv BY WalkInvariant
<1>2. WalkInit => StreamInv /\ KeptInv /\ RowsInv /\ MoveInv
  <2>1. WalkInit => MoveInv BY DEF WalkInit, MoveInv, NoJob
  <2> QED BY <2>1, StreamInit, RowsInit
<1>3. WalkInv /\ WalkStarts => StreamInv
  <2> SUFFICES ASSUME WalkInv, WalkStarts PROVE StreamInv OBVIOUS
  <2>1. stack # <<>> BY DEF WalkStarts
  <2> QED BY <2>1, WalksStand, StartsInOrder DEF WalkInv, WalkRuns
<1>4. WalkInv /\ MoveStarts => MoveInv
  <2> SUFFICES ASSUME WalkInv, MoveStarts PROVE MoveInv OBVIOUS
  <2>1. stack # <<>> BY DEF MoveStarts
  <2> QED BY <2>1, WalksStand, StartsToWrite DEF WalkInv, WalkRuns
<1>5. WalkInv /\ StreamInv /\ KeptInv /\ [WalkNext]_allVars => (StreamInv \/ WalkStarts)' /\ KeptInv'
  BY StreamNext
<1>6. WalkInv /\ RowsInv /\ [WalkNext]_allVars => RowsInv' BY RowsNext
<1>7. WalkInv /\ StreamInv /\ MoveInv /\ [WalkNext]_allVars => (MoveInv \/ MoveStarts)' BY MoveNext
<1>8. WalkInv /\ RowsInv /\ MoveInv => ReorderPreserves BY WritesFollow
<1> QED BY <1>1, <1>2, <1>3, <1>4, <1>5, <1>6, <1>7, <1>8, PTL DEF WalkSpec
=============================================================================
