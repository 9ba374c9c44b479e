------------------------------- MODULE CardSets -------------------------------
(***************************************************************************)
(* Sets of cards and the suit isomorphism (card_tools.c).  A card is a     *)
(* number, rank * numSuits + suit; a deal an ascending sequence of cards.  *)
(* Suit groups map each suit to the lowest one of its group: exchanging    *)
(* suits of a group leaves what has been dealt before as it is.            *)
(***************************************************************************)
EXTENDS Integers, Sequences, FiniteSets, FiniteSetsExt, SequencesExt

Deck(game)         == 0 .. game.numSuits * game.numRanks - 1
Suits(game)        == 0 .. game.numSuits - 1
SuitOfCard(game, c) == c % game.numSuits
RankOfCard(game, c) == c \div game.numSuits
MakeCard(game, rank, suit) == rank * game.numSuits + suit

InitSuitGroups(game) == [s \in Suits(game) |-> 0]

Ascending(cards) ==
  [i \in 1 .. Cardinality(cards) |->
     CHOOSE c \in cards : Cardinality({d \in cards : d < c}) = i - 1]

(* firstCardset: the n lowest free cards. *)
FirstCardset(free, n) == SubSeq(Ascending(free), 1, n)

Behind(free, c) == {d \in free : d > c}

(* There are cards left to put at place i and the places behind it.        *)
CanIncrease(free, cards, i) == Cardinality(Behind(free, cards[i])) > Len(cards) - i

(* nextCardset: the last place that can be increased is, and the places    *)
(* behind it start again from there; <<>> when there is none.              *)
NextCardset(free, cards) ==
  LET places == {i \in DOMAIN cards : CanIncrease(free, cards, i)}
  IN IF places = {} THEN <<>>
     ELSE LET i == Max(places)
          IN SubSeq(cards, 1, i - 1)
             \o FirstCardset(Behind(free, cards[i]), Len(cards) - i + 1)

(* The loop  firstCardset(...); do { ... } while( nextCardset(...) )       *)
AllDeals(free, n) ==
  LET From[cards \in Seq(free)] ==
        LET next == NextCardset(free, cards)
        IN <<cards>> \o IF next = <<>> THEN <<>> ELSE From[next]
  IN From[FirstCardset(free, n)]

(* numCardCombinations: factors up to the first 0, divided at the end. *)
NumCardCombinations(n, k) ==
  LET Times[i \in 0 .. k] == IF i = 0 THEN 1 ELSE (n - i + 1) * Times[i - 1]
      Over[i \in 0 .. k]  == IF i = 0 THEN 1 ELSE (k - i + 1) * Over[i - 1]
  IN Times[k] \div Over[k]

Cards(cards) == {cards[i] : i \in DOMAIN cards}

RanksInSuit(game, cards, s) ==
  {RankOfCard(game, c) : c \in {d \in Cards(cards) : SuitOfCard(game, d) = s}}

(* updateSuitGroups: suits stay together that were dealt the same ranks. *)
UpdateSuitGroups(game, cards, groups) ==
  [s \in Suits(game) |-> Min({t \in 0 .. s : groups[t] = groups[s]
                                /\ RanksInSuit(game, cards, t) = RanksInSuit(game, cards, s)})]

(* sortedCardsNumSuitMappings: rank by rank, each group must use its lowest *)
(* suits; 0 if one does not, else the number of ways to choose the suits.  *)
(* Groups are split rank by rank.                                          *)
NumSuitMappings(game, cards, groups) ==
  LET used(rank)  == {s \in Suits(game) : MakeCard(game, rank, s) \in Cards(cards)}
      below(rank) == SelectSeq(cards, LAMBDA c : RankOfCard(game, c) < rank)
      at(rank)    == UpdateSuitGroups(game, below(rank), groups)
      group(rank, s) == {t \in Suits(game) : at(rank)[t] = s}
      choices == {x \in {RankOfCard(game, c) : c \in Cards(cards)} \X Suits(game) :
                     group(x[1], x[2]) \cap used(x[1]) # {}}
      lowest(rank, s) ==
        \A t \in group(rank, s) \ used(rank) : \A u \in group(rank, s) \cap used(rank) : u < t
      ways(x) == NumCardCombinations(Cardinality(group(x[1], x[2])),
                                     Cardinality(group(x[1], x[2]) \cap used(x[1])))
  IN IF \E x \in choices : ~lowest(x[1], x[2]) THEN 0
     ELSE MapThenFoldSet(LAMBDA a, b : a * b, 1, ways, LAMBDA X : CHOOSE x \in X : TRUE,
                         choices)

(* Suits i and j exchanged in the cards from place n on. *)
SwapSuits(game, cards, n, i, j) ==
  LET to(s) == CASE s = i -> j [] s = j -> i [] OTHER -> s
  IN [k \in DOMAIN cards |->
        IF k < n THEN cards[k]
        ELSE MakeCard(game, RankOfCard(game, cards[k]), to(SuitOfCard(game, cards[k])))]

(* A suit joins the lowest one with the same ranks, of its group at first  *)
(* or its group now.                                                       *)
Regroup(game, groups, used, now) ==
  LET G[m \in Suits(game)] ==
        Min({n \in 0 .. m - 1 : used[n] = used[m] /\ (groups[n] = groups[m] \/ G[n] = now[m])}
            \cup {m})
  IN G

(* cardsToCanonicalCards: card by card, the lowest suit of the card's      *)
(* group takes its place; at last the cards are sorted.                    *)
CardsToCanonical(game, cards, groups) ==
  LET Step(state, i) ==
        LET old  == SuitOfCard(game, state.cards[i])
            new  == state.now[old]
            used == [state.used EXCEPT ![new] = @ \cup {RankOfCard(game, state.cards[i])}]
        IN [cards |-> SwapSuits(game, state.cards, i, old, new),
            used  |-> used,
            now   |-> Regroup(game, groups, used, state.now)]
      start == [cards |-> cards, used |-> [s \in Suits(game) |-> {}], now |-> groups]
  IN Ascending(Cards(FoldLeftDomain(Step, start, cards).cards))

(* getHandList, but for the order: each hand with the canonical hand of    *)
(* its class and its weight.                                               *)
GetHandList(game, board, groups) ==
  LET hands == AllDeals(Deck(game) \ board, game.numHoleCards)
  IN {[cards  |-> hands[i],
       weight |-> NumSuitMappings(game, hands[i], groups),
       canon  |-> CardsToCanonical(game, hands[i], groups)] : i \in DOMAIN hands}
=============================================================================
