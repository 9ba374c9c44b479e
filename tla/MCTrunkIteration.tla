-------------------------- MODULE MCTrunkIteration --------------------------
(* A small tree for TrunkIteration. *)
EXTENDS TrunkIteration

CONSTANTS h1, h2

Choice(p, kids, last) == [kind |-> "choice", player |-> p, kids |-> kids, last |-> last]
Deal(kids, last)      == [kind |-> "chance", kids |-> kids, last |-> last]
Leaf(n)               == [kind |-> "leaf", kids |-> {}, last |-> n]
Subgame(n)            == [kind |-> "subgame", kids |-> {}, last |-> n]

(* Player 1 folds or calls the blind and one of two boards is dealt.  On   *)
(* the first, player 0 checks or bets; on the second there is one check to *)
(* make.                                                                   *)
TwoBoards == <<Choice("p1", {2, 3}, 8),
                 Leaf(2),
                 Deal({4, 7}, 8),
                   Choice("p0", {5, 6}, 6), Subgame(5), Subgame(6),
                   Choice("p0", {8}, 8), Subgame(8)>>

(* Each hand holds a card of one of the boards. *)
OneHandEach == [n \in 1 .. Len(Tree) |-> CASE n \in 4 .. 6  -> {h1}
                                           [] n \in {7, 8} -> {h2}
                                           [] OTHER        -> {h1, h2}]
=============================================================================
