------------------------------ MODULE MCTraversal ------------------------------
(* Small games: kuhn.game, leduc.game, the blinds and first players of     *)
(* royal.game with fewer raises, no limit, and stacks that end the betting.*)
(* Some are walked, with few cards and few raises.                         *)
EXTENDS Traversal

P(a, b) == [p \in Players |-> IF p = 0 THEN a ELSE b]
R(s)    == [r \in 0 .. Len(s) - 1 |-> s[r + 1]]

Unlimited == 1000

Kuhn  == [noLimit |-> FALSE, numRounds |-> 1, stack |-> P(Unlimited, Unlimited),
          blind |-> P(1, 1), raiseSize |-> R(<<1>>), firstPlayer |-> R(<<0>>),
          maxRaises |-> R(<<1>>), numSuits |-> 1, numRanks |-> 3, numHoleCards |-> 1,
          numBoardCards |-> R(<<0>>), numSampledBoards |-> R(<<0>>)]
Leduc == [noLimit |-> FALSE, numRounds |-> 2, stack |-> P(Unlimited, Unlimited),
          blind |-> P(1, 1), raiseSize |-> R(<<2, 4>>), firstPlayer |-> R(<<0, 0>>),
          maxRaises |-> R(<<2, 2>>), numSuits |-> 2, numRanks |-> 3, numHoleCards |-> 1,
          numBoardCards |-> R(<<0, 1>>), numSampledBoards |-> R(<<0, 0>>)]
Three == [noLimit |-> FALSE, numRounds |-> 3, stack |-> P(Unlimited, Unlimited),
          blind |-> P(10, 5), raiseSize |-> R(<<10, 10, 20>>), firstPlayer |-> R(<<1, 0, 0>>),
          maxRaises |-> R(<<1, 1, 0>>), numSuits |-> 2, numRanks |-> 3, numHoleCards |-> 1,
          numBoardCards |-> R(<<0, 1, 1>>), numSampledBoards |-> R(<<0, 0, 0>>)]
Short == [Leduc EXCEPT !.stack = P(35, 35), !.blind = P(10, 5), !.raiseSize = R(<<10, 20>>),
                       !.firstPlayer = R(<<1, 0>>), !.maxRaises = R(<<255, 255>>)]
Open  == [Kuhn EXCEPT !.maxRaises = R(<<255>>)]
NL    == [Short EXCEPT !.noLimit = TRUE, !.stack = P(6, 6), !.blind = P(2, 1)]

(* Walked: *)
Few   == [Leduc EXCEPT !.maxRaises = R(<<1, 1>>)]
Flop  == [Leduc EXCEPT !.maxRaises = R(<<0, 1>>), !.numSuits = 3, !.numHoleCards = 2,
                       !.numBoardCards = R(<<0, 2>>)]
Deep  == [Three EXCEPT !.maxRaises = R(<<1, 0, 1>>), !.numSuits = 3, !.numRanks = 2]
Some  == [Few EXCEPT !.numSampledBoards = R(<<0, 2>>)]
Four  == [Three EXCEPT !.numRounds = 4, !.blind = P(1, 1), !.raiseSize = R(<<1, 1, 1, 1>>),
                       !.firstPlayer = R(<<0, 0, 0, 0>>), !.maxRaises = R(<<0, 0, 0, 0>>),
                       !.numBoardCards = R(<<0, 1, 1, 1>>), !.numSampledBoards = R(<<0, 0, 0, 0>>)]

Rank(g, cards) == MapThenSumSet(LAMBDA c : RankOfCard(g, c), cards)

MCWalked == {Kuhn, Leduc, Three, NL, Flop, Deep, Some, Four}
MCGames  == {Short, Open} \cup MCWalked
=============================================================================
