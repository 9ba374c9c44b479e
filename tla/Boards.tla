-------------------------------- MODULE Boards --------------------------------
(***************************************************************************)
(* setUpStorage: the boards that the trunk or a subgame deals, of each     *)
(* class of isomorphic ones the canonical one, with its weight.  boards[r] *)
(* is the list of round r; the boards that follow one are those from       *)
(* firstChildIndex to before endChildIndex, counted from 0.                *)
(***************************************************************************)
EXTENDS CardSets

CONSTANT RankCardset(_, _)  \* of a game and a set of cards; the larger, the better the hand

VARIABLE storage

BoardInfo(board, groups, weight) ==
  [board |-> board, suitGroups |-> groups, weight |-> weight,
   firstChildIndex |-> 0, endChildIndex |-> 0]

BoardCardsBefore(game, r) == MapThenSumSet(LAMBDA q : game.numBoardCards[q], 0 .. r - 1)

NumHands(game, r) ==
  NumCardCombinations(Cardinality(Deck(game)) - BoardCardsBefore(game, r + 1), game.numHoleCards)

(* How many boards a pair of hands can see in a round. *)
BoardFactor(game, r) ==
  NumCardCombinations(
    Cardinality(Deck(game)) - BoardCardsBefore(game, r) - 2 * game.numHoleCards,
    game.numBoardCards[r])

(* Storage of tree t (0: the trunk) for rounds startRound .. endRound - 1; *)
(* `round` and `calls` say how far its boards are set up.                  *)
EmptyStorage(game, t, startRound, endRound, board, groups) ==
  [tree |-> t, startRound |-> startRound, endRound |-> endRound,
   board |-> board, suitGroups |-> groups, round |-> startRound, calls |-> 0,
   boards |-> [r \in 0 .. game.numRounds - 1 |-> <<>>]]

NumBoards(r)  == Len(storage.boards[r])
BoardAt(r, i) == storage.boards[r][i + 1]

(* The suits for which a board of the round brings a flush closer. *)
FlushSuits(game, parent, board) ==
  LET popCount(b, s) == Cardinality({c \in b : SuitOfCard(game, c) = s})
  IN {s \in Suits(game) : /\ popCount(board, s) > 5 - game.numHoleCards
                          /\ popCount(board, s) > popCount(parent, s)}

SortBoards(game, parent, list) ==
  LET flushes(i) == Cardinality(FlushSuits(game, parent, list[i].board))
      rank(i)    == RankCardset(game, list[i].board)
      before(i, j) == \/ flushes(i) < flushes(j)
                      \/ flushes(i) = flushes(j) /\ rank(i) < rank(j)
                      \/ flushes(i) = flushes(j) /\ rank(i) = rank(j) /\ i < j
  IN [k \in DOMAIN list |->
        list[CHOOSE i \in DOMAIN list :
               Cardinality({j \in DOMAIN list : before(j, i)}) = k - 1]]

(* Any boards can be the random ones. *)
Sampled(list, n) ==
  IF n = 0 \/ Len(list) <= n THEN {list}
  ELSE {[i \in 1 .. n |-> list[Ascending(I)[i]]] : I \in kSubset(n, DOMAIN list)}

(* Faulty: every deal has weight 1. *)
WeightOne(game, deal, groups) ==
  IF NumSuitMappings(game, deal, groups) = 0 THEN 0 ELSE 1

Weight(game, deal, groups) == NumSuitMappings(game, deal, groups)

(* The boards that follow one in a round, as they come in the deck. *)
NewBoards(game, r, board, groups) ==
  LET deals == AllDeals(Deck(game) \ board, game.numBoardCards[r])
      canonical == SelectSeq(deals, LAMBDA d : Weight(game, d, groups) # 0)
  IN [i \in DOMAIN canonical |->
        BoardInfo(board \cup Cards(canonical[i]),
                  UpdateSuitGroups(game, canonical[i], groups),
                  Weight(game, canonical[i], groups))]

(* The calls of setUpBoardsOnRound that reach a round: its loops run over  *)
(* all boards of each round before, also those of other boards.            *)
Calls(r) ==
  LET C[q \in storage.startRound .. r] ==
        IF q = storage.startRound THEN 1 ELSE NumBoards(q - 1) * C[q - 1]
  IN C[r]

(* One call that reaches the target round.                                 *)
SetUpBoards(game) ==
  LET r      == storage.round
      first  == r = storage.startRound
      above  == IF first THEN 0 ELSE storage.calls % NumBoards(r - 1)
      parent == IF first THEN storage ELSE BoardAt(r - 1, above)
  IN /\ r < storage.endRound /\ storage.calls < Calls(r)
     /\ \E list \in Sampled(NewBoards(game, r, parent.board, parent.suitGroups),
                          game.numSampledBoards[r]) :
          LET begin == [storage EXCEPT
                         !.calls = @ + 1,
                         !.boards[r] = @ \o SortBoards(game, parent.board, list)]
          IN storage' =
               IF first THEN begin
               ELSE [begin EXCEPT
                       !.boards[r - 1][above + 1].firstChildIndex = NumBoards(r),
                       !.boards[r - 1][above + 1].endChildIndex = NumBoards(r) + Len(list)]

(* setUpBoards goes on to the next round. *)
NextRound ==
  /\ storage.round < storage.endRound /\ storage.calls = Calls(storage.round)
  /\ storage' = [storage EXCEPT !.round = @ + 1, !.calls = 0]

Ready == storage.round = storage.endRound

(* getNumBoards, firstNewBoard: the boards that follow board `above` of    *)
(* the round before, all of them in the first round of the storage.        *)
FirstBoard(r, above) ==
  IF r = storage.startRound THEN 0 ELSE BoardAt(r - 1, above).firstChildIndex

EndBoard(r, above) ==
  IF r = storage.startRound THEN NumBoards(r) ELSE BoardAt(r - 1, above).endChildIndex

(* The boards that some deal comes to: those of the last call for each     *)
(* board of the round before.                                              *)
LiveBoards(r) ==
  LET L[q \in storage.startRound .. r] ==
        IF q = storage.startRound THEN 0 .. NumBoards(q) - 1
        ELSE UNION {FirstBoard(q, i) .. EndBoard(q, i) - 1 : i \in L[q - 1]}
  IN L[r]

(* getMaxNumBoards *)
MaxNumBoards(r) ==
  LET above == IF r = storage.startRound THEN {0} ELSE LiveBoards(r - 1)
  IN Max({EndBoard(r, i) - FirstBoard(r, i) : i \in above})

-----------------------------------------------------------------------------
Shares(x, y) == Cards(x.cards) \cap Cards(y.cards) # {}

(* A class of hands is stored at its canonical hand. *)
Canonicals(hands) == {h \in hands : h.weight > 0}

(* Each class of hands has one canonical hand, and its weight is the size  *)
(* of the class.                                                           *)
HandsFit(game, r, hands) ==
  /\ Cardinality(hands) = NumHands(game, r)
  /\ \A h \in hands : \E k \in Canonicals(hands) : k.cards = h.canon
  /\ \A k \in Canonicals(hands) :
       k.canon = k.cards /\ k.weight = Cardinality({h \in hands : h.canon = k.cards})

(* vanilla_r sums the values of a hand's class over the canonical boards,  *)
(* each times its weight, and divides by boardFactor, instead of over all  *)
(* boards that can be dealt.  Is that the same?  Take the pairs of hands   *)
(* of two classes before the deal: the pairs that go with a board, counted *)
(* with its weight, are boardFactor times the pairs there are.             *)
FairFor(game, r, parent, children) ==
  LET all       == GetHandList(game, parent.board, parent.suitGroups)
      canonOf   == [x \in {h.cards : h \in all} |-> (CHOOSE h \in all : h.cards = x).canon]
      apart(hs) == {<<canonOf[z[1].cards], canonOf[z[2].cards], z[1].cards, z[2].cards>> :
                      z \in {y \in hs \X hs : ~Shares(y[1], y[2])}}
      pairs(z, k, m) == Cardinality({x \in z : x[1] = k.cards /\ x[2] = m.cards})
      before    == apart(all)
      behind    == [i \in DOMAIN children |->
                      apart({h \in all : Cards(h.cards) \cap children[i].board = {}})]
  IN /\ r > 0 => HandsFit(game, r - 1, all)
     /\ \A i \in DOMAIN children :
          HandsFit(game, r, GetHandList(game, children[i].board, children[i].suitGroups))
     /\ \A k, m \in Canonicals(all) :
          MapThenSumSet(LAMBDA i : children[i].weight * pairs(behind[i], k, m), DOMAIN children)
            = BoardFactor(game, r) * pairs(before, k, m)
=============================================================================
