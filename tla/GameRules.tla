------------------------------ MODULE GameRules ------------------------------
(***************************************************************************)
(* The rules of betting (game.c): whose turn it is, which actions are      *)
(* valid, what an action does to a hand.  A game is a record of the        *)
(* numbers in a game file, a hand a record of the fields of State that     *)
(* betting reads; cards do not occur.                                      *)
(***************************************************************************)
EXTENDS Integers, Sequences, FiniteSets, FiniteSetsExt

CONSTANTS NumPlayers,    \* game->numPlayers
          MaxNumActions  \* MAX_NUM_ACTIONS

ASSUME RulesAssumption ==
  NumPlayers \in Nat \ {0, 1} /\ MaxNumActions \in Nat /\ MaxNumActions >= NumPlayers

Players == 0 .. NumPlayers - 1

RoundsOf(game) == 0 .. game.numRounds - 1

(* initState *)
InitState(game) ==
  LET big == Max({game.blind[p] : p \in Players})
  IN [spent             |-> game.blind,
      maxSpent          |-> big,
      minNoLimitRaiseTo |-> IF ~game.noLimit THEN 0 ELSE IF big > 0 THEN 2 * big ELSE 1,
      action            |-> [r \in RoundsOf(game) |-> <<>>],
      round             |-> 0,
      finished          |-> FALSE,
      playerFolded      |-> [p \in Players |-> FALSE]]

Actions(hand) == hand.action[hand.round]

Acting(game, hand) == {p \in Players : ~hand.playerFolded[p] /\ hand.spent[p] < game.stack[p]}

(* The first acting player behind p; the code does not end if there is none. *)
NextPlayer(game, hand, p) ==
  LET After(k)  == (p + k) % NumPlayers
      steps     == {k \in 1 .. NumPlayers : After(k) \in Acting(game, hand)}
  IN After(CHOOSE k \in steps : \A j \in steps : k <= j)

CurrentPlayer(game, hand) ==
  LET acts == Actions(hand)
  IN NextPlayer(game, hand, IF acts # <<>> THEN acts[Len(acts)].player
                            ELSE game.firstPlayer[hand.round] + NumPlayers - 1)

NumRaises(hand) == Cardinality({i \in DOMAIN Actions(hand) : Actions(hand)[i].type = "raise"})
NumFolded(hand) == Cardinality({p \in Players : hand.playerFolded[p]})

(* How many players who still act have called the current bet or made it.  *)
NumCalled(game, hand) ==
  LET acts == Actions(hand)
      Since(i) == \A j \in DOMAIN acts : j > i => acts[j].type # "raise"
  IN Cardinality({i \in DOMAIN acts : /\ acts[i].type # "fold" /\ Since(i)
                                      /\ hand.spent[acts[i].player] < game.stack[acts[i].player]})

(* Faulty: a player may raise when nobody is left to call. *)
LeftToCallAlways(game, hand) == TRUE

LeftToCall(game, hand) == Cardinality(Acting(game, hand)) > 1

(* raiseIsValid: the sizes a raise may have; limit raises have size 0.     *)
RaiseSizes(game, hand) ==
  LET p == CurrentPlayer(game, hand)
  IN IF \/ NumRaises(hand) >= game.maxRaises[hand.round]
        \/ Len(Actions(hand)) + NumPlayers > MaxNumActions
        \/ ~LeftToCall(game, hand)
     THEN {}
     ELSE IF ~game.noLimit THEN {0}
     ELSE IF hand.minNoLimitRaiseTo <= game.stack[p]
          THEN hand.minNoLimitRaiseTo .. game.stack[p]
     ELSE IF hand.maxSpent < game.stack[p] THEN {game.stack[p]} ELSE {}

(* isValidAction without fixing; a call is valid whenever someone acts.    *)
CanFold(game, hand) == LET p == CurrentPlayer(game, hand)
                       IN hand.spent[p] \notin {hand.maxSpent, game.stack[p]}

Fold == [type |-> "fold", size |-> 0]
Call == [type |-> "call", size |-> 0]

ValidActions(game, hand) ==
  IF hand.finished THEN {}
  ELSE {a \in {Fold} : CanFold(game, hand)} \cup {Call}
       \cup {[type |-> "raise", size |-> s] : s \in RaiseSizes(game, hand)}

(* What the player puts in, and the largest bet afterwards. *)
RaisedTo(game, hand, a, p) ==
  LET limitBet == hand.maxSpent + game.raiseSize[hand.round]
  IN IF game.noLimit THEN a.size
     ELSE IF limitBet > game.stack[p] THEN game.stack[p] ELSE limitBet

(* The hand with the action recorded and paid for. *)
Played(game, hand, a) ==
  LET p    == CurrentPlayer(game, hand)
      with == [hand EXCEPT !.action[hand.round] = Append(@, [type |-> a.type, player |-> p])]
      bet  == RaisedTo(game, hand, a, p)
      next == 2 * a.size - hand.maxSpent
  IN CASE a.type = "fold" -> [with EXCEPT !.playerFolded[p] = TRUE]
       [] a.type = "call" ->
            [with EXCEPT !.spent[p] = IF hand.maxSpent > game.stack[p]
                                      THEN game.stack[p] ELSE hand.maxSpent]
       [] a.type = "raise" ->
            [with EXCEPT !.spent[p] = bet, !.maxSpent = bet,
                         !.minNoLimitRaiseTo =
                             IF game.noLimit /\ next > @ THEN next ELSE @]

(* Faulty: a round ends as soon as every acting player has acted once. *)
BetCalledOnce(game, hand) == Len(Actions(hand)) >= Cardinality(Acting(game, hand))

BetCalled(game, hand) == NumCalled(game, hand) >= Cardinality(Acting(game, hand))

(* Faulty: betting goes on behind the last round. *)
MoreRoundsAlways(game, hand) == hand.round < game.numRounds

MoreRounds(game, hand) == hand.round + 1 < game.numRounds

(* doAction, with the end of the round or of the hand. *)
DoAction(game, hand, a) ==
  LET h      == Played(game, hand, a)
      acting == Cardinality(Acting(game, h))
  IN IF NumFolded(h) + 1 >= NumPlayers THEN [h EXCEPT !.finished = TRUE]
     ELSE IF ~BetCalled(game, h) THEN h
     ELSE IF acting > 1 /\ MoreRounds(game, h)
          THEN [h EXCEPT !.round = @ + 1,
                         !.minNoLimitRaiseTo =
                             h.maxSpent + Max({game.blind[p] : p \in Players} \cup {1})]
     ELSE IF acting > 1 THEN [h EXCEPT !.finished = TRUE]
     ELSE [h EXCEPT !.finished = TRUE, !.round = game.numRounds - 1]
=============================================================================
