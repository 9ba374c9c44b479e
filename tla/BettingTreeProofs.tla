-------------------------- MODULE BettingTreeProofs --------------------------
(***************************************************************************)
(* Proofs about the trees of BettingTree, for all games that               *)
(* GamesAssumption allows: no sequence of valid actions leaves the rules,  *)
(* in the construction of the tree and while it is walked; and the indices *)
(* that the nodes are given number the entries of the arrays.  Where the   *)
(* betting cannot end before the last round, rounds are dealt one by one.  *)
(***************************************************************************)
EXTENDS Traversal, FiniteSetTheorems, SequenceTheorems, WellFoundedInduction, TLAPS

-----------------------------------------------------------------------------
(* Two players                                                             *)

Other(p) == 1 - p

LEMMA Two ==
  /\ NumPlayers = 2 /\ Players = {0, 1} /\ 0 # 1
  /\ MaxNumActions \in Nat /\ MaxNumActions >= 2
  /\ \A p \in Players : /\ Other(p) \in Players /\ Other(p) # p /\ Other(Other(p)) = p
                        /\ \A q \in Players : q = p \/ q = Other(p)
<1>1. NumPlayers = 2 /\ MaxNumActions \in Nat /\ MaxNumActions >= 2
  BY TwoPlayersAssumption, RulesAssumption
<1>2. 0 .. 2 - 1 = {0, 1} OBVIOUS
<1>3. Players = {0, 1} BY <1>1, <1>2 DEF Players
<1> QED BY <1>1, <1>3 DEF Other

LEMMA CardFacts ==
  ASSUME NEW S \in SUBSET {0, 1}
  PROVE  /\ IsFiniteSet(S) /\ Cardinality(S) \in Nat
         /\ Cardinality(S) = 0 <=> S = {}
         /\ Cardinality(S) = 1 <=> (S = {0} \/ S = {1})
         /\ Cardinality(S) = 2 <=> S = {0, 1}
<1>1. Cardinality({}) = 0 /\ IsFiniteSet({}) BY FS_EmptySet
<1>2. \A x : IsFiniteSet({x}) /\ Cardinality({x}) = 1 BY FS_Singleton
<1>3. IsFiniteSet({0, 1}) /\ Cardinality({0, 1}) = 2
  <2>1. {0} \cup {1} = {0, 1} /\ 1 \notin {0} OBVIOUS
  <2>2. IsFiniteSet({0} \cup {1}) /\ Cardinality({0} \cup {1}) = 1 + 1
    BY <1>2, <2>1, FS_AddElement
  <2> QED BY <2>1, <2>2
<1>4. S = {} \/ S = {0} \/ S = {1} \/ S = {0, 1} OBVIOUS
<1>5. /\ 0 \in {0} /\ 1 \notin {0} /\ 1 \in {1} /\ 0 \notin {1}
      /\ 0 \in {0, 1} /\ 1 \in {0, 1} /\ 0 \notin {} /\ 1 \notin {}
  OBVIOUS
<1>6. CASE S = {} BY <1>1, <1>5, <1>6
<1>7. CASE S = {0}
  <2>1. Cardinality(S) = 1 /\ IsFiniteSet(S) BY <1>2, <1>7
  <2>2. /\ S # {} /\ S # {1}
        /\ S # {0, 1}
    BY <1>5, <1>7
  <2> QED BY <1>7, <2>1, <2>2
<1>8. CASE S = {1}
  <2>1. Cardinality(S) = 1 /\ IsFiniteSet(S) BY <1>2, <1>8
  <2>2. /\ S # {} /\ S # {0}
        /\ S # {0, 1}
    BY <1>5, <1>8
  <2> QED BY <1>8, <2>1, <2>2
<1>9. CASE S = {0, 1}
  <2>1. Cardinality(S) = 2 /\ IsFiniteSet(S) BY <1>3, <1>9
  <2>2. /\ S # {} /\ S # {0}
        /\ S # {1}
    BY <1>5, <1>9
  <2> QED BY <1>9, <2>1, <2>2
<1> QED BY <1>4, <1>6, <1>7, <1>8, <1>9

(* A game as GamesAssumption has it, by its stack.                         *)
GameOK(g) ==
  /\ g.noLimit \in BOOLEAN /\ g.numRounds \in Nat \ {0}
  /\ g.stack[0] \in Nat /\ g.stack[1] = g.stack[0] /\ \A p \in Players : g.stack[p] = g.stack[0]
  /\ g.blind \in [Players -> Nat] /\ \A p \in Players : g.blind[p] <= g.stack[0]
  /\ \E p \in Players : g.blind[p] < g.stack[0]
  /\ g.firstPlayer \in [RoundsOf(g) -> Players] /\ g.maxRaises \in [RoundsOf(g) -> Nat]
  /\ ~g.noLimit => g.raiseSize \in [RoundsOf(g) -> Nat \ {0}]

LEMMA AllGamesOK ==
  ASSUME NEW g \in Games PROVE GameOK(g)
<1>1. /\ g.noLimit \in BOOLEAN /\ g.numRounds \in Nat \ {0}
      /\ g.stack \in [Players -> Nat] /\ g.blind \in [Players -> Nat]
      /\ \A p, q \in Players : g.stack[p] = g.stack[q] /\ g.blind[p] <= g.stack[p]
      /\ \E p \in Players : g.blind[p] < g.stack[p]
      /\ g.firstPlayer \in [RoundsOf(g) -> Players] /\ g.maxRaises \in [RoundsOf(g) -> Nat]
      /\ ~g.noLimit => g.raiseSize \in [RoundsOf(g) -> Nat \ {0}]
  BY GamesAssumption
<1>2. 0 \in Players /\ 1 \in Players BY Two
<1>3. \A p \in Players : g.stack[p] = g.stack[0] BY <1>1, <1>2
<1>4. \A p \in Players : g.blind[p] <= g.stack[0] BY <1>1, <1>3
<1>5. \E p \in Players : g.blind[p] < g.stack[0] BY <1>1, <1>3
<1>6. g.stack[0] \in Nat /\ g.stack[1] = g.stack[0] BY <1>1, <1>2
<1> QED BY <1>1, <1>3, <1>4, <1>5, <1>6 DEF GameOK

(* Max is the largest element of a finite set, of one of two numbers.      *)
LEMMA MaxOfTwo ==
  ASSUME NEW a \in Int, NEW b \in Int
  PROVE  /\ Max({a, b}) \in {a, b} /\ Max({a, b}) >= a /\ Max({a, b}) >= b
         /\ a >= b => Max({a, b}) = a
         /\ b >= a => Max({a, b}) = b
<1>1. \E x \in {a, b} : \A y \in {a, b} : x >= y
  <2>1. CASE a >= b BY <2>1
  <2>2. CASE b >= a BY <2>2
  <2> QED BY <2>1, <2>2
<1>2. Max({a, b}) \in {a, b} /\ \A y \in {a, b} : Max({a, b}) >= y BY <1>1 DEF Max
<1> QED BY <1>2

-----------------------------------------------------------------------------
(* Hands                                                                   *)

PlayedAction == [type : {"fold", "call", "raise"}, player : Players]

HandType(g) ==
  [spent : [Players -> Nat], maxSpent : Nat, minNoLimitRaiseTo : Nat,
   action : [RoundsOf(g) -> Seq(PlayedAction)], round : RoundsOf(g),
   finished : BOOLEAN, playerFolded : [Players -> BOOLEAN]]

(* The largest bet is somebody's; a minimum raise in no limit is above it. *)
BetsInv(g, h) ==
  /\ \A p \in Players : h.spent[p] <= h.maxSpent
  /\ \E p \in Players : h.spent[p] = h.maxSpent
  /\ h.maxSpent <= g.stack[0]
  /\ g.noLimit => h.minNoLimitRaiseTo > h.maxSpent

LengthInv(g, h) == \A r \in RoundsOf(g) : Len(h.action[r]) <= MaxNumActions

(* A round under way: it has just begun, or somebody has raised, or the    *)
(* first to act has called.                                                *)
Begun(g, h) == /\ Actions(h) = <<>>
               /\ \E p \in Players : h.spent[p] < g.stack[0]
               /\ h.round = 0 \/ h.spent[0] = h.spent[1]

Acted(h) == Actions(h)[Len(Actions(h))]

Raised(g, h) ==
  /\ Actions(h) # <<>> /\ Acted(h).type = "raise" /\ Len(Actions(h)) + 1 <= MaxNumActions
  /\ h.spent[Acted(h).player] = h.maxSpent
  /\ h.spent[Other(Acted(h).player)] < h.maxSpent

Called(g, h) ==
  /\ Len(Actions(h)) = 1 /\ Acted(h).type = "call"
  /\ h.spent[Acted(h).player] = h.maxSpent /\ h.maxSpent < g.stack[0]

GoingInv(g, h) ==
  ~h.finished =>
    /\ \A p \in Players : ~h.playerFolded[p]
    /\ \A r \in RoundsOf(g) : r > h.round => h.action[r] = <<>>
    /\ Begun(g, h) \/ Raised(g, h) \/ Called(g, h)

EndedInv(h) ==
  h.finished => h.spent[0] = h.spent[1] \/ \E p \in Players : h.playerFolded[p]

HandInv(g, h) == /\ h \in HandType(g) /\ BetsInv(g, h) /\ LengthInv(g, h)
                 /\ GoingInv(g, h) /\ EndedInv(h)

-----------------------------------------------------------------------------
(* Whose turn it is                                                        *)

LEMMA Parity ==
  ASSUME NEW q \in Nat
  PROVE  /\ (q + 1) % 2 \in {0, 1} /\ (q + 2) % 2 \in {0, 1} /\ (q + 1) % 2 # (q + 2) % 2
         /\ q \in {0, 1} => (q + 1) % 2 = 1 - q
OBVIOUS

LEMMA NextPlayerFacts ==
  ASSUME NEW g, NEW h, NEW q \in Nat, Acting(g, h) # {}
  PROVE  /\ NextPlayer(g, h, q) \in Acting(g, h) /\ NextPlayer(g, h, q) \in Players
         /\ q \in Players /\ Other(q) \in Acting(g, h) => NextPlayer(g, h, q) = Other(q)
<1> DEFINE After(k) == (q + k) % 2
           steps == {k \in 1 .. 2 : After(k) \in Acting(g, h)}
           least == CHOOSE k \in steps : \A j \in steps : k <= j
<1>1. NextPlayer(g, h, q) = After(least) BY Two DEF NextPlayer
<1>2. Acting(g, h) \subseteq {0, 1} BY Two DEF Acting
<1>3. /\ After(1) \in {0, 1} /\ After(2) \in {0, 1} /\ After(1) # After(2)
      /\ q \in {0, 1} => After(1) = 1 - q
  BY Parity
<1> HIDE DEF After
<1>4. After(1) \in Acting(g, h) \/ After(2) \in Acting(g, h)
  <2>1. \A x \in {0, 1} : x = After(1) \/ x = After(2) BY <1>3
  <2> QED BY <1>2, <2>1
<1>5. 1 .. 2 = {1, 2} OBVIOUS
<1>6. 1 \in steps \/ 2 \in steps BY <1>4, <1>5
<1>7. steps \subseteq {1, 2} BY <1>5
<1>8. \E k \in steps : \A j \in steps : k <= j
  <2>1. CASE 1 \in steps BY <1>7, <2>1
  <2>2. CASE 1 \notin steps /\ 2 \in steps
    <3>1. \A j \in steps : j = 2 BY <1>7, <2>2
    <3> QED BY <2>2, <3>1
  <2> QED BY <1>6, <2>1, <2>2
<1>9. least \in steps /\ \A j \in steps : least <= j
  <2> HIDE DEF steps
  <2> QED BY <1>8
<1>10. After(least) \in Acting(g, h) BY <1>9
<1>11. ASSUME q \in Players, Other(q) \in Acting(g, h) PROVE After(least) = Other(q)
  <2>1. After(1) = Other(q) BY <1>3, <1>11, Two DEF Other
  <2>2. 1 \in steps BY <1>5, <1>11, <2>1
  <2>3. least = 1
    <3> HIDE DEF least, steps
    <3>1. least \in {1, 2} /\ least <= 1 BY <1>7, <1>9, <2>2
    <3> QED BY <3>1
  <2> QED BY <2>1, <2>3
<1>12. Acting(g, h) \subseteq Players BY DEF Acting
<1> HIDE DEF least
<1> QED BY <1>1, <1>10, <1>11, <1>12

(* While betting goes on, the one whose turn it is can put in more, and    *)
(* is not the one who acted last.                                          *)
LEMMA Turn ==
  ASSUME NEW g, GameOK(g), NEW h, HandInv(g, h), ~h.finished
  PROVE  /\ Acting(g, h) # {} /\ Acting(g, h) = {p \in Players : h.spent[p] < g.stack[0]}
         /\ CurrentPlayer(g, h) \in Players
         /\ h.spent[CurrentPlayer(g, h)] < g.stack[0]
         /\ Actions(h) # <<>> => CurrentPlayer(g, h) = Other(Acted(h).player)
<1>1. /\ h \in HandType(g) /\ \A p \in Players : ~h.playerFolded[p]
      /\ Begun(g, h) \/ Raised(g, h) \/ Called(g, h)
  BY DEF HandInv, GoingInv
<1>2. /\ \A p \in Players : h.spent[p] \in Nat /\ h.spent[p] <= h.maxSpent
      /\ h.maxSpent \in Nat /\ h.maxSpent <= g.stack[0] /\ g.stack[0] \in Nat
  BY <1>1 DEF HandInv, HandType, BetsInv, GameOK
<1>3. Acting(g, h) = {p \in Players : h.spent[p] < g.stack[0]}
  BY <1>1 DEF Acting, GameOK
<1>4. h.round \in RoundsOf(g) /\ Actions(h) \in Seq(PlayedAction)
  BY <1>1 DEF HandType, Actions
<1>5. Actions(h) # <<>> => /\ Len(Actions(h)) \in Nat \ {0} /\ Acted(h) \in PlayedAction
                           /\ Acted(h).player \in Players /\ Other(Acted(h).player) \in Players
  <2> SUFFICES ASSUME Actions(h) # <<>>
               PROVE  /\ Len(Actions(h)) \in Nat \ {0} /\ Acted(h) \in PlayedAction
                      /\ Acted(h).player \in Players /\ Other(Acted(h).player) \in Players
    OBVIOUS
  <2>1. Len(Actions(h)) \in Nat \ {0} BY <1>4
  <2>2. Acted(h) \in PlayedAction BY <1>4, <2>1 DEF Acted
  <2> QED BY <2>1, <2>2, Two DEF PlayedAction
<1>6. Actions(h) # <<>> => h.spent[Other(Acted(h).player)] < g.stack[0]
  <2>1. CASE Begun(g, h) BY <2>1 DEF Begun
  <2>2. CASE Raised(g, h) BY <1>2, <1>5, <2>2 DEF Raised
  <2>3. CASE Called(g, h) BY <1>2, <1>5, <2>3 DEF Called
  <2> QED BY <1>1, <2>1, <2>2, <2>3
<1>7. Acting(g, h) # {}
  <2>1. CASE Actions(h) = <<>>
    <3>1. Len(<<>>) = 0 OBVIOUS
    <3>2. Begun(g, h) BY <1>1, <2>1, <3>1 DEF Raised, Called
    <3> QED BY <1>3, <3>2 DEF Begun
  <2>2. CASE Actions(h) # <<>> BY <1>3, <1>5, <1>6, <2>2
  <2> QED BY <2>1, <2>2
<1>8. Actions(h) # <<>> => CurrentPlayer(g, h) = Other(Acted(h).player)
  <2> SUFFICES ASSUME Actions(h) # <<>> PROVE CurrentPlayer(g, h) = Other(Acted(h).player)
    OBVIOUS
  <2>1. CurrentPlayer(g, h) = NextPlayer(g, h, Acted(h).player) BY DEF CurrentPlayer, Acted
  <2>2. Other(Acted(h).player) \in Acting(g, h) BY <1>3, <1>5, <1>6
  <2>3. Acted(h).player \in Nat BY <1>5, Two
  <2> QED BY <1>5, <1>7, <2>1, <2>2, <2>3, NextPlayerFacts
<1>9. CurrentPlayer(g, h) \in Acting(g, h)
  <2>1. CASE Actions(h) # <<>> BY <1>3, <1>5, <1>6, <1>8, <2>1
  <2>2. CASE Actions(h) = <<>>
    <3>1. g.firstPlayer[h.round] \in {0, 1} BY <1>4, Two DEF GameOK
    <3>2. g.firstPlayer[h.round] + 2 - 1 \in Nat BY <3>1
    <3>3. CurrentPlayer(g, h) = NextPlayer(g, h, g.firstPlayer[h.round] + 2 - 1)
      BY <2>2, Two DEF CurrentPlayer
    <3> QED BY <1>7, <3>2, <3>3, NextPlayerFacts
  <2> QED BY <2>1, <2>2
<1> QED BY <1>3, <1>7, <1>8, <1>9

-----------------------------------------------------------------------------
(* What an action does                                                     *)

(* w is h with an action of type t by p recorded. *)
Notes(g, h, w, t, p) ==
  /\ w \in HandType(g) /\ w.round = h.round /\ w.finished = h.finished
  /\ w.spent = h.spent /\ w.maxSpent = h.maxSpent
  /\ w.minNoLimitRaiseTo = h.minNoLimitRaiseTo /\ w.playerFolded = h.playerFolded
  /\ Actions(w) = Append(Actions(h), [type |-> t, player |-> p])
  /\ \A r \in RoundsOf(g) : r # h.round => w.action[r] = h.action[r]

LEMMA Recorded ==
  ASSUME NEW g, GameOK(g), NEW h \in HandType(g), NEW p \in Players,
         NEW t \in {"fold", "call", "raise"},
         NEW w, w = [h EXCEPT !.action[h.round] = Append(@, [type |-> t, player |-> p])]
  PROVE  Notes(g, h, w, t, p)
<1>1. [type |-> t, player |-> p] \in PlayedAction BY DEF PlayedAction
<1>2. /\ h.round \in RoundsOf(g) /\ h.action \in [RoundsOf(g) -> Seq(PlayedAction)]
      /\ Actions(h) \in Seq(PlayedAction)
  BY DEF HandType, Actions
<1>3. Append(Actions(h), [type |-> t, player |-> p]) \in Seq(PlayedAction) BY <1>1, <1>2
<1>4. w.action = [h.action EXCEPT ![h.round] = Append(Actions(h), [type |-> t, player |-> p])]
  BY DEF HandType, Actions
<1>5. w.action \in [RoundsOf(g) -> Seq(PlayedAction)] BY <1>2, <1>3, <1>4
<1>6. /\ w.round = h.round /\ w.finished = h.finished
      /\ w.spent = h.spent /\ w.maxSpent = h.maxSpent
      /\ w.minNoLimitRaiseTo = h.minNoLimitRaiseTo /\ w.playerFolded = h.playerFolded
  BY DEF HandType
<1>7. w \in HandType(g) BY <1>5, <1>6 DEF HandType
<1>8. Actions(w) = Append(Actions(h), [type |-> t, player |-> p]) BY <1>2, <1>4, <1>6 DEF Actions
<1>9. \A r \in RoundsOf(g) : r # h.round => w.action[r] = h.action[r] BY <1>2, <1>4
<1> QED BY <1>6, <1>7, <1>8, <1>9 DEF Notes

PutIn(h, p, amount) == [q \in Players |-> IF q = p THEN amount ELSE h.spent[q]]

(* The hand k is h with an action of type t by p, who has then put in      *)
(* `amount`; nothing is said of minNoLimitRaiseTo but that it is a number. *)
After(g, h, k, t, p, amount) ==
  /\ k \in HandType(g) /\ k.round = h.round /\ k.finished = h.finished
  /\ Actions(k) = Append(Actions(h), [type |-> t, player |-> p])
  /\ \A r \in RoundsOf(g) : r # h.round => k.action[r] = h.action[r]
  /\ k.spent = PutIn(h, p, amount)

LEMMA FoldPlayed ==
  ASSUME NEW g, GameOK(g), NEW h \in HandType(g), NEW a, a.type = "fold",
         NEW p \in Players, p = CurrentPlayer(g, h)
  PROVE  LET k == Played(g, h, a)
         IN /\ After(g, h, k, "fold", p, h.spent[p])
            /\ k.maxSpent = h.maxSpent /\ k.minNoLimitRaiseTo = h.minNoLimitRaiseTo
            /\ k.playerFolded[p]
<1>1. PICK w : w = [h EXCEPT !.action[h.round] = Append(@, [type |-> "fold", player |-> p])]
  OBVIOUS
<1>2. Played(g, h, a) = [w EXCEPT !.playerFolded[p] = TRUE] BY <1>1 DEF Played
<1>3. /\ w \in HandType(g) /\ w.round = h.round /\ w.finished = h.finished
      /\ w.spent = h.spent /\ w.maxSpent = h.maxSpent
      /\ w.minNoLimitRaiseTo = h.minNoLimitRaiseTo
      /\ Actions(w) = Append(Actions(h), [type |-> "fold", player |-> p])
      /\ \A r \in RoundsOf(g) : r # h.round => w.action[r] = h.action[r]
  <2>1. "fold" \in {"fold", "call", "raise"} OBVIOUS
  <2>2. Notes(g, h, w, "fold", p) BY <1>1, <2>1, Recorded
  <2> QED BY <2>2 DEF Notes
<1> DEFINE k == [w EXCEPT !.playerFolded[p] = TRUE]
<1>4. k \in HandType(g) BY <1>3 DEF HandType
<1>5. /\ k.round = w.round /\ k.finished = w.finished /\ k.spent = w.spent
      /\ k.maxSpent = w.maxSpent /\ k.minNoLimitRaiseTo = w.minNoLimitRaiseTo
      /\ k.action = w.action /\ k.playerFolded[p]
  BY <1>3 DEF HandType
<1>6. Actions(k) = Actions(w) BY <1>5 DEF Actions
<1>7. h.spent = PutIn(h, p, h.spent[p]) BY DEF HandType, PutIn
<1> HIDE DEF k
<1>8. After(g, h, k, "fold", p, h.spent[p])
  <2>1. k.spent = PutIn(h, p, h.spent[p]) BY <1>3, <1>5, <1>7
  <2>2. Actions(k) = Append(Actions(h), [type |-> "fold", player |-> p]) BY <1>3, <1>6
  <2> QED BY <1>3, <1>4, <1>5, <2>1, <2>2 DEF After
<1>9. k.maxSpent = h.maxSpent /\ k.minNoLimitRaiseTo = h.minNoLimitRaiseTo BY <1>3, <1>5
<1>10. Played(g, h, a) = k BY <1>2 DEF k
<1> QED BY <1>5, <1>8, <1>9, <1>10

LEMMA CallPlayed ==
  ASSUME NEW g, GameOK(g), NEW h \in HandType(g), NEW a, a.type = "call",
         h.maxSpent <= g.stack[0],
         NEW p \in Players, p = CurrentPlayer(g, h)
  PROVE  LET k == Played(g, h, a)
         IN /\ After(g, h, k, "call", p, h.maxSpent)
            /\ k.maxSpent = h.maxSpent /\ k.minNoLimitRaiseTo = h.minNoLimitRaiseTo
            /\ k.playerFolded = h.playerFolded
<1>1. PICK w : w = [h EXCEPT !.action[h.round] = Append(@, [type |-> "call", player |-> p])]
  OBVIOUS
<1>2. Played(g, h, a) = [w EXCEPT !.spent[p] = h.maxSpent]
  <2>1. g.stack[p] = g.stack[0] /\ h.maxSpent \in Nat /\ g.stack[0] \in Nat
    BY DEF GameOK, HandType
  <2>2. ~(h.maxSpent > g.stack[p]) BY <2>1
  <2> QED BY <1>1, <2>2 DEF Played
<1>3. /\ w \in HandType(g) /\ w.round = h.round /\ w.finished = h.finished
      /\ w.spent = h.spent /\ w.maxSpent = h.maxSpent
      /\ w.minNoLimitRaiseTo = h.minNoLimitRaiseTo /\ w.playerFolded = h.playerFolded
      /\ Actions(w) = Append(Actions(h), [type |-> "call", player |-> p])
      /\ \A r \in RoundsOf(g) : r # h.round => w.action[r] = h.action[r]
  <2>1. "call" \in {"fold", "call", "raise"} OBVIOUS
  <2>2. Notes(g, h, w, "call", p) BY <1>1, <2>1, Recorded
  <2> QED BY <2>2 DEF Notes
<1> DEFINE k == [w EXCEPT !.spent[p] = h.maxSpent]
<1>4. k.spent = PutIn(h, p, h.maxSpent) BY <1>3 DEF HandType, PutIn
<1>5. k \in HandType(g)
  <2>1. h.maxSpent \in Nat BY DEF HandType
  <2> QED BY <1>3, <2>1 DEF HandType
<1>6. /\ k.round = w.round /\ k.finished = w.finished /\ k.playerFolded = w.playerFolded
      /\ k.maxSpent = w.maxSpent /\ k.minNoLimitRaiseTo = w.minNoLimitRaiseTo
      /\ k.action = w.action
  BY <1>3 DEF HandType
<1>7. Actions(k) = Actions(w) BY <1>6 DEF Actions
<1> HIDE DEF k
<1>8. After(g, h, k, "call", p, h.maxSpent) BY <1>3, <1>4, <1>5, <1>6, <1>7 DEF After
<1>9. Played(g, h, a) = k BY <1>2 DEF k
<1>10. /\ k.maxSpent = h.maxSpent /\ k.minNoLimitRaiseTo = h.minNoLimitRaiseTo
       /\ k.playerFolded = h.playerFolded
  BY <1>3, <1>6
<1> QED BY <1>8, <1>9, <1>10

LEMMA RaisePlayed ==
  ASSUME NEW g, GameOK(g), NEW h \in HandType(g), NEW a, a.type = "raise", a.size \in Nat,
         NEW p \in Players, p = CurrentPlayer(g, h),
         NEW bet \in Nat, bet = RaisedTo(g, h, a, p)
  PROVE  LET k == Played(g, h, a)
         IN /\ After(g, h, k, "raise", p, bet)
            /\ k.maxSpent = bet /\ k.playerFolded = h.playerFolded
            /\ k.minNoLimitRaiseTo >= h.minNoLimitRaiseTo
            /\ g.noLimit => k.minNoLimitRaiseTo >= 2 * a.size - h.maxSpent
<1>1. PICK w : w = [h EXCEPT !.action[h.round] = Append(@, [type |-> "raise", player |-> p])]
  OBVIOUS
<1>2. PICK least : least = IF g.noLimit /\ 2 * a.size - h.maxSpent > h.minNoLimitRaiseTo
                           THEN 2 * a.size - h.maxSpent ELSE h.minNoLimitRaiseTo
  OBVIOUS
<1>3. /\ w \in HandType(g) /\ w.round = h.round /\ w.finished = h.finished
      /\ w.spent = h.spent /\ w.maxSpent = h.maxSpent
      /\ w.minNoLimitRaiseTo = h.minNoLimitRaiseTo /\ w.playerFolded = h.playerFolded
      /\ Actions(w) = Append(Actions(h), [type |-> "raise", player |-> p])
      /\ \A r \in RoundsOf(g) : r # h.round => w.action[r] = h.action[r]
  <2>1. "raise" \in {"fold", "call", "raise"} OBVIOUS
  <2>2. Notes(g, h, w, "raise", p) BY <1>1, <2>1, Recorded
  <2> QED BY <2>2 DEF Notes
<1> DEFINE k == [w EXCEPT !.spent[p] = bet, !.maxSpent = bet, !.minNoLimitRaiseTo = least]
<1>4. Played(g, h, a) = k
  <2>1. Played(g, h, a) = [w EXCEPT !.spent[p] = bet, !.maxSpent = bet,
                             !.minNoLimitRaiseTo =
                               IF g.noLimit /\ 2 * a.size - h.maxSpent > w.minNoLimitRaiseTo
                               THEN 2 * a.size - h.maxSpent ELSE w.minNoLimitRaiseTo]
    BY <1>1, <1>3 DEF Played, HandType
  <2> QED BY <1>2, <1>3, <2>1
<1>5. /\ least \in Nat /\ least >= h.minNoLimitRaiseTo
      /\ g.noLimit => least >= 2 * a.size - h.maxSpent
  <2>1. h.minNoLimitRaiseTo \in Nat /\ h.maxSpent \in Nat /\ a.size \in Nat BY DEF HandType
  <2> QED BY <1>2, <2>1
<1>6. k.spent = PutIn(h, p, bet) BY <1>3 DEF HandType, PutIn
<1>7. k \in HandType(g) BY <1>3, <1>5 DEF HandType
<1>8. /\ k.round = w.round /\ k.finished = w.finished /\ k.playerFolded = w.playerFolded
      /\ k.maxSpent = bet /\ k.minNoLimitRaiseTo = least /\ k.action = w.action
  BY <1>3 DEF HandType
<1>9. Actions(k) = Actions(w) BY <1>8 DEF Actions
<1> HIDE DEF k
<1> QED BY <1>3, <1>4, <1>5, <1>6, <1>7, <1>8, <1>9 DEF After

-----------------------------------------------------------------------------
(* After an action                                                         *)

(* Of two players, q has acted before p, or nobody; there is room for what *)
(* p does now.                                                             *)
LEMMA RoundSoFar ==
  ASSUME NEW g, GameOK(g), NEW h, HandInv(g, h), ~h.finished
  PROVE  /\ h \in HandType(g) /\ Actions(h) \in Seq(PlayedAction) /\ Len(Actions(h)) \in Nat
         /\ Len(Actions(h)) + 1 <= MaxNumActions
         /\ \A p \in Players : /\ ~h.playerFolded[p] /\ h.spent[p] \in Nat
                               /\ h.spent[p] <= h.maxSpent
         /\ h.maxSpent \in Nat /\ g.stack[0] \in Nat /\ h.maxSpent <= g.stack[0]
         /\ h.round \in RoundsOf(g) /\ \A r \in RoundsOf(g) : r > h.round => h.action[r] = <<>>
         /\ Actions(h) # <<>> =>
              LET q == Acted(h).player
              IN /\ q \in Players /\ h.spent[q] = h.maxSpent
                 /\ Acted(h).type # "fold" /\ (Acted(h).type = "call" => Len(Actions(h)) = 1)
<1>1. /\ h \in HandType(g) /\ \A p \in Players : ~h.playerFolded[p]
      /\ Begun(g, h) \/ Raised(g, h) \/ Called(g, h)
      /\ \A r \in RoundsOf(g) : r > h.round => h.action[r] = <<>>
  BY DEF HandInv, GoingInv
<1>2. /\ \A p \in Players : h.spent[p] \in Nat /\ h.spent[p] <= h.maxSpent
      /\ h.maxSpent \in Nat /\ h.maxSpent <= g.stack[0] /\ g.stack[0] \in Nat
  BY <1>1 DEF HandInv, HandType, BetsInv, GameOK
<1>3. h.round \in RoundsOf(g) /\ Actions(h) \in Seq(PlayedAction) /\ Len(Actions(h)) \in Nat
  <2>1. h.round \in RoundsOf(g) /\ Actions(h) \in Seq(PlayedAction)
    BY <1>1 DEF HandType, Actions
  <2> QED BY <2>1
<1>4. Len(Actions(h)) + 1 <= MaxNumActions
  <2>1. CASE Begun(g, h)
    <3>1. Len(Actions(h)) = 0 BY <2>1 DEF Begun
    <3> QED BY <3>1, Two
  <2>2. CASE Raised(g, h) BY <2>2 DEF Raised
  <2>3. CASE Called(g, h) BY <2>3, Two DEF Called
  <2> QED BY <1>1, <2>1, <2>2, <2>3
<1>5. ASSUME Actions(h) # <<>>
      PROVE  /\ Acted(h).player \in Players /\ h.spent[Acted(h).player] = h.maxSpent
             /\ Acted(h).type # "fold" /\ (Acted(h).type = "call" => Len(Actions(h)) = 1)
  <2>1. Len(Actions(h)) \in Nat \ {0} BY <1>3, <1>5
  <2>2. Acted(h) \in PlayedAction BY <1>3, <2>1 DEF Acted
  <2>3. Acted(h).player \in Players BY <2>2 DEF PlayedAction
  <2>4. Raised(g, h) \/ Called(g, h) BY <1>1, <1>5 DEF Begun
  <2>5. CASE Raised(g, h) BY <2>3, <2>5 DEF Raised
  <2>6. CASE Called(g, h) BY <2>3, <2>6 DEF Called
  <2> QED BY <2>4, <2>5, <2>6
<1> QED BY <1>1, <1>2, <1>3, <1>4, <1>5

(* What After says of who has put in how much, and of the actions.         *)
Follows(g, h, k, t, p, x) ==
  /\ k.spent[p] = x /\ k.spent[Other(p)] = h.spent[Other(p)]
  /\ Len(Actions(h)) \in Nat /\ Len(Actions(k)) = Len(Actions(h)) + 1
  /\ Actions(k) # <<>> /\ Acted(k) = [type |-> t, player |-> p]
  /\ \A i \in 1 .. Len(Actions(h)) : Actions(k)[i] = Actions(h)[i]
  /\ DOMAIN Actions(k) = 1 .. Len(Actions(h)) + 1
  /\ Actions(k)[Len(Actions(h)) + 1] = [type |-> t, player |-> p]
  /\ \A r \in RoundsOf(g) : r > k.round => k.action[r] = <<>>
  /\ LengthInv(g, h) /\ Len(Actions(h)) + 1 <= MaxNumActions => LengthInv(g, k)

LEMMA AfterFacts ==
  ASSUME NEW g, NEW h \in HandType(g), NEW k, NEW t \in {"fold", "call", "raise"},
         NEW p \in Players, NEW x \in Nat, After(g, h, k, t, p, x),
         \A r \in RoundsOf(g) : r > h.round => h.action[r] = <<>>
  PROVE  Follows(g, h, k, t, p, x)
<1>1. Actions(k) = Append(Actions(h), [type |-> t, player |-> p]) /\ k.round = h.round
      /\ k.spent = PutIn(h, p, x) /\ k \in HandType(g)
      /\ \A r \in RoundsOf(g) : r # h.round => k.action[r] = h.action[r]
  BY DEF After
<1>2. Actions(h) \in Seq(PlayedAction) /\ h.round \in RoundsOf(g) BY DEF HandType, Actions
<1>3. [type |-> t, player |-> p] \in PlayedAction BY DEF PlayedAction
<1>4. /\ Len(Actions(h)) \in Nat /\ Len(Actions(k)) = Len(Actions(h)) + 1
      /\ Actions(k) # <<>>
      /\ \A i \in 1 .. Len(Actions(h)) : Actions(k)[i] = Actions(h)[i]
      /\ DOMAIN Actions(k) = 1 .. Len(Actions(h)) + 1
      /\ Actions(k)[Len(Actions(h)) + 1] = [type |-> t, player |-> p]
  BY <1>1, <1>2, <1>3
<1>5. Acted(k) = [type |-> t, player |-> p] BY <1>4 DEF Acted
<1>6. k.spent[p] = x /\ k.spent[Other(p)] = h.spent[Other(p)] BY <1>1, Two DEF PutIn
<1>7. \A r \in RoundsOf(g) : r > k.round => k.action[r] = <<>>
  <2>1. \A r \in RoundsOf(g) : r > h.round => r # h.round BY <1>2 DEF RoundsOf
  <2> QED BY <1>1, <2>1
<1>8. LengthInv(g, h) /\ Len(Actions(h)) + 1 <= MaxNumActions => LengthInv(g, k)
  <2> SUFFICES ASSUME LengthInv(g, h), Len(Actions(h)) + 1 <= MaxNumActions,
                      NEW r \in RoundsOf(g)
               PROVE  Len(k.action[r]) <= MaxNumActions
    BY DEF LengthInv
  <2>1. CASE r = h.round BY <1>1, <1>4, <2>1 DEF Actions
  <2>2. CASE r # h.round BY <1>1, <2>2 DEF LengthInv
  <2> QED BY <2>1, <2>2
<1> QED BY <1>4, <1>5, <1>6, <1>7, <1>8 DEF Follows

(* How many act and how many have called.                                  *)
LEMMA Numbers ==
  ASSUME NEW g, GameOK(g), NEW k \in HandType(g)
  PROVE  /\ NumFolded(k) \in Nat /\ NumCalled(g, k) \in Nat
         /\ NumFolded(k) = 0 <=> \A p \in Players : ~k.playerFolded[p]
         /\ (\A p \in Players : ~k.playerFolded[p]) =>
              /\ Acting(g, k) = {p \in Players : k.spent[p] < g.stack[0]}
              /\ Cardinality(Acting(g, k)) \in Nat
              /\ Cardinality(Acting(g, k)) = 0 <=> \A p \in Players : ~(k.spent[p] < g.stack[0])
              /\ Cardinality(Acting(g, k)) = 2 <=> \A p \in Players : k.spent[p] < g.stack[0]
<1>1. NumFolded(k) \in Nat /\ (NumFolded(k) = 0 <=> \A p \in Players : ~k.playerFolded[p])
  <2> DEFINE S == {p \in Players : k.playerFolded[p]}
  <2>1. S \in SUBSET {0, 1} BY Two
  <2>2. S = {} <=> \A p \in Players : ~k.playerFolded[p] OBVIOUS
  <2>3. NumFolded(k) = Cardinality(S) BY DEF NumFolded
  <2> HIDE DEF S
  <2>4. Cardinality(S) \in Nat /\ (Cardinality(S) = 0 <=> S = {}) BY <2>1, CardFacts
  <2> QED BY <2>2, <2>3, <2>4
<1>2. NumCalled(g, k) \in Nat
  <2>1. Actions(k) \in Seq(PlayedAction) BY DEF HandType, Actions
  <2>2. DOMAIN Actions(k) = 1 .. Len(Actions(k)) /\ Len(Actions(k)) \in Nat BY <2>1
  <2>3. IsFiniteSet(DOMAIN Actions(k)) BY <2>2, FS_Interval
  <2> DEFINE called == {i \in DOMAIN Actions(k) :
                          /\ Actions(k)[i].type # "fold"
                          /\ \A j \in DOMAIN Actions(k) : j > i => Actions(k)[j].type # "raise"
                          /\ k.spent[Actions(k)[i].player] < g.stack[Actions(k)[i].player]}
  <2>4. NumCalled(g, k) = Cardinality(called) BY DEF NumCalled
  <2>5. called \in SUBSET DOMAIN Actions(k) OBVIOUS
  <2> HIDE DEF called
  <2>6. IsFiniteSet(called) BY <2>3, <2>5, FS_Subset
  <2> QED BY <2>4, <2>6, FS_CardinalityType
<1>3. ASSUME \A p \in Players : ~k.playerFolded[p]
      PROVE  /\ Acting(g, k) = {p \in Players : k.spent[p] < g.stack[0]}
             /\ Cardinality(Acting(g, k)) \in Nat
             /\ Cardinality(Acting(g, k)) = 0 <=> \A p \in Players : ~(k.spent[p] < g.stack[0])
             /\ Cardinality(Acting(g, k)) = 2 <=> \A p \in Players : k.spent[p] < g.stack[0]
  <2>1. Acting(g, k) = {p \in Players : k.spent[p] < g.stack[0]}
    BY <1>3 DEF Acting, GameOK
  <2>2. Acting(g, k) \in SUBSET {0, 1} BY Two DEF Acting
  <2>3. Acting(g, k) = {} <=> \A p \in Players : ~(k.spent[p] < g.stack[0]) BY <2>1
  <2>4. Acting(g, k) = {0, 1} <=> \A p \in Players : k.spent[p] < g.stack[0] BY <2>1, Two
  <2>5. /\ Cardinality(Acting(g, k)) \in Nat
        /\ Cardinality(Acting(g, k)) = 0 <=> Acting(g, k) = {}
        /\ Cardinality(Acting(g, k)) = 2 <=> Acting(g, k) = {0, 1}
    BY <2>2, CardFacts
  <2> QED BY <2>1, <2>3, <2>4, <2>5
<1> QED BY <1>1, <1>2, <1>3

(* A set of one element and another one.                                   *)
LEMMA AddOne ==
  ASSUME NEW S, NEW x, IsFiniteSet(S), Cardinality(S) = 1, x \notin S
  PROVE  Cardinality(S \cup {x}) = 2
<1>1. Cardinality(S \cup {x}) = IF x \in S THEN Cardinality(S) ELSE Cardinality(S) + 1
  BY FS_AddElement
<1>2. Cardinality(S \cup {x}) = Cardinality(S) + 1 BY <1>1
<1> DEFINE c == Cardinality(S \cup {x})
           d == Cardinality(S)
<1>3. c = d + 1 /\ d = 1 BY <1>2
<1> HIDE DEF c, d
<1>4. c = 2 BY <1>3
<1> QED BY <1>4 DEF c

(* After a raise, or when only one has acted, at most one has called; when *)
(* an action has been called, and nobody is all in, both have.             *)
LEMMA CallsFew ==
  ASSUME NEW g, NEW k \in HandType(g), Actions(k) # <<>>,
         Acted(k).type = "raise" \/ Len(Actions(k)) = 1
  PROVE  /\ NumCalled(g, k) <= 1
         /\ ~(k.spent[Acted(k).player] < g.stack[Acted(k).player]) => NumCalled(g, k) = 0
<1> DEFINE n == Len(Actions(k))
           called == {i \in DOMAIN Actions(k) :
                        /\ Actions(k)[i].type # "fold"
                        /\ \A j \in DOMAIN Actions(k) : j > i => Actions(k)[j].type # "raise"
                        /\ k.spent[Actions(k)[i].player] < g.stack[Actions(k)[i].player]}
<1>1. Actions(k) \in Seq(PlayedAction) BY DEF HandType, Actions
<1>2. DOMAIN Actions(k) = 1 .. n /\ n \in Nat \ {0} BY <1>1
<1>3. NumCalled(g, k) = Cardinality(called) BY DEF NumCalled
<1>4. \A i \in called : i = n
  <2> SUFFICES ASSUME NEW i \in called, i # n PROVE FALSE OBVIOUS
  <2>1. i \in 1 .. n /\ n \in 1 .. n BY <1>2
  <2>2. n > i BY <1>2, <2>1
  <2>3. Actions(k)[n].type # "raise" BY <1>2, <2>1, <2>2
  <2>4. n # 1 BY <1>2, <2>1, <2>2
  <2> QED BY <2>3, <2>4 DEF Acted
<1>5. n \in called => k.spent[Acted(k).player] < g.stack[Acted(k).player] BY DEF Acted
<1>6. called = {} \/ called = {n} BY <1>4
<1> HIDE DEF called, n
<1>7. Cardinality({}) = 0 /\ Cardinality({n}) = 1 BY FS_EmptySet, FS_Singleton
<1>8. CASE called = {} BY <1>3, <1>7, <1>8
<1>9. CASE called = {n}
  <2>1. k.spent[Acted(k).player] < g.stack[Acted(k).player] BY <1>5, <1>9
  <2>2. NumCalled(g, k) = 1 BY <1>3, <1>7, <1>9
  <2> QED BY <2>1, <2>2
<1> QED BY <1>6, <1>8, <1>9

LEMMA CallsBoth ==
  ASSUME NEW g, GameOK(g), NEW k \in HandType(g), NEW n \in Nat, n = Len(Actions(k)), n >= 2,
         Actions(k)[n].type = "call", Actions(k)[n - 1].type # "fold",
         \A p \in Players : k.spent[p] < g.stack[0]
  PROVE  NumCalled(g, k) >= 2
<1> DEFINE called == {i \in DOMAIN Actions(k) :
                        /\ Actions(k)[i].type # "fold"
                        /\ \A j \in DOMAIN Actions(k) : j > i => Actions(k)[j].type # "raise"
                        /\ k.spent[Actions(k)[i].player] < g.stack[Actions(k)[i].player]}
<1>1. Actions(k) \in Seq(PlayedAction) BY DEF HandType, Actions
<1>2. DOMAIN Actions(k) = 1 .. n BY <1>1
<1>3. NumCalled(g, k) = Cardinality(called) BY DEF NumCalled
<1>4. \A i \in 1 .. n : k.spent[Actions(k)[i].player] < g.stack[Actions(k)[i].player]
  <2> TAKE i \in 1 .. n
  <2>1. Actions(k)[i] \in PlayedAction BY <1>1, <1>2
  <2>2. Actions(k)[i].player \in Players BY <2>1 DEF PlayedAction
  <2> QED BY <2>2 DEF GameOK
<1>5. n \in 1 .. n /\ n - 1 \in 1 .. n /\ \A j \in 1 .. n : j > n - 1 => j = n OBVIOUS
<1>6. n \in called BY <1>2, <1>4, <1>5
<1>7. n - 1 \in called
  <2> DEFINE i == n - 1
  <2>1. i \in DOMAIN Actions(k) /\ \A j \in DOMAIN Actions(k) : j > i => j = n BY <1>2, <1>5
  <2>2. Actions(k)[i].type # "fold" /\ Actions(k)[n].type # "raise" BY <1>4
  <2>3. k.spent[Actions(k)[i].player] < g.stack[Actions(k)[i].player] BY <1>4, <1>5
  <2> HIDE DEF i
  <2>4. i \in called BY <2>1, <2>2, <2>3
  <2> QED BY <2>4 DEF i
<1>8. called \in SUBSET DOMAIN Actions(k) OBVIOUS
<1> HIDE DEF called
<1>9. IsFiniteSet(called)
  <2>1. IsFiniteSet(1 .. n) BY FS_Interval
  <2> QED BY <1>2, <1>8, <2>1, FS_Subset
<1>10. Cardinality({n - 1} \cup {n}) = 2
  <2>1. IsFiniteSet({n - 1}) /\ Cardinality({n - 1}) = 1 BY FS_Singleton
  <2>2. n \notin {n - 1} OBVIOUS
  <2> DEFINE i == n - 1
  <2> HIDE DEF i
  <2>3. IsFiniteSet({i}) /\ Cardinality({i}) = 1 /\ n \notin {i} BY <2>1, <2>2 DEF i
  <2>4. Cardinality({i} \cup {n}) = 2 BY <2>3, AddOne
  <2> QED BY <2>4 DEF i
<1>11. {n - 1} \cup {n} \in SUBSET called BY <1>6, <1>7
<1>12. Cardinality({n - 1} \cup {n}) <= Cardinality(called) BY <1>9, <1>11, FS_Subset
<1>13. Cardinality(called) \in Nat BY <1>9, FS_CardinalityType
<1> QED BY <1>3, <1>10, <1>12, <1>13

(* What a child has of its parent's hand: the rules, and a higher bet if   *)
(* it was raised.                                                          *)
GoodStep(g, h, d) ==
  /\ HandInv(g, d)
  /\ Last(d.action[h.round]).type = "raise" => d.maxSpent > h.maxSpent

LEMMA LastActed ==
  ASSUME NEW g, NEW h \in HandType(g), NEW k, NEW t \in {"fold", "call", "raise"},
         NEW p \in Players, NEW x \in Nat, After(g, h, k, t, p, x), NEW d, d.action = k.action
  PROVE  Last(d.action[h.round]).type = t
<1>1. d.action[h.round] = Append(Actions(h), [type |-> t, player |-> p])
  BY DEF After, Actions
<1>2. Actions(h) \in Seq(PlayedAction) BY DEF HandType, Actions
<1>3. [type |-> t, player |-> p] \in PlayedAction BY DEF PlayedAction
<1>4. Last(d.action[h.round]) = [type |-> t, player |-> p] BY <1>1, <1>2, <1>3 DEF Last
<1> QED BY <1>4

LEMMA Folding ==
  ASSUME NEW g, GameOK(g), NEW h, HandInv(g, h), ~h.finished, NEW a, a.type = "fold"
  PROVE  GoodStep(g, h, DoAction(g, h, a))
<1>1. PICK p \in Players : p = CurrentPlayer(g, h) BY Turn
<1>2. PICK k : k = Played(g, h, a) OBVIOUS
<1>3. h \in HandType(g) /\ Len(Actions(h)) + 1 <= MaxNumActions /\ h.spent[p] \in Nat
      /\ \A r \in RoundsOf(g) : r > h.round => h.action[r] = <<>>
  BY RoundSoFar
<1>4. /\ After(g, h, k, "fold", p, h.spent[p])
      /\ k.maxSpent = h.maxSpent /\ k.minNoLimitRaiseTo = h.minNoLimitRaiseTo
      /\ k.playerFolded[p]
  BY <1>1, <1>2, <1>3, FoldPlayed
<1>5. k \in HandType(g) BY <1>4 DEF After
<1> DEFINE d == [k EXCEPT !.finished = TRUE]
<1>6. DoAction(g, h, a) = d
  <2>1. NumFolded(k) \in Nat /\ NumFolded(k) # 0 BY <1>4, <1>5, Numbers
  <2>2. NumFolded(k) + 1 >= NumPlayers BY <2>1, Two
  <2> QED BY <1>2, <2>2 DEF DoAction
<1>7. /\ d \in HandType(g) /\ d.finished /\ d.spent = k.spent /\ d.maxSpent = k.maxSpent
      /\ d.minNoLimitRaiseTo = k.minNoLimitRaiseTo /\ d.action = k.action
      /\ d.playerFolded = k.playerFolded
  BY <1>5 DEF HandType
<1> HIDE DEF d
<1>8. "fold" \in {"fold", "call", "raise"} OBVIOUS
<1>9. LengthInv(g, k)
  <2>1. Follows(g, h, k, "fold", p, h.spent[p]) BY <1>3, <1>4, <1>8, AfterFacts
  <2> QED BY <1>3, <2>1 DEF Follows, HandInv
<1>10. LengthInv(g, d) BY <1>7, <1>9 DEF LengthInv
<1>11. BetsInv(g, d)
  <2>1. \A q \in Players : d.spent[q] = h.spent[q] BY <1>4, <1>7 DEF After, PutIn
  <2>2. BetsInv(g, h) BY DEF HandInv
  <2> QED BY <1>4, <1>7, <2>1, <2>2 DEF BetsInv
<1>12. GoingInv(g, d) /\ EndedInv(d) BY <1>4, <1>7 DEF GoingInv, EndedInv
<1>13. Last(d.action[h.round]).type = "fold" BY <1>3, <1>4, <1>7, <1>8, LastActed
<1> QED BY <1>6, <1>7, <1>10, <1>11, <1>12, <1>13 DEF GoodStep, HandInv

LEMMA Raising ==
  ASSUME NEW g, GameOK(g), NEW h, HandInv(g, h), ~h.finished,
         NEW a, a.type = "raise", a.size \in RaiseSizes(g, h)
  PROVE  GoodStep(g, h, DoAction(g, h, a))
<1>1. PICK p \in Players : p = CurrentPlayer(g, h) /\ h.spent[p] < g.stack[0] BY Turn
<1>2. PICK k : k = Played(g, h, a) OBVIOUS
<1>3. /\ h \in HandType(g) /\ Len(Actions(h)) + 1 <= MaxNumActions
      /\ Len(Actions(h)) \in Nat
      /\ \A r \in RoundsOf(g) : r > h.round => h.action[r] = <<>>
      /\ \A q \in Players : ~h.playerFolded[q] /\ h.spent[q] \in Nat /\ h.spent[q] <= h.maxSpent
      /\ h.maxSpent \in Nat /\ g.stack[0] \in Nat /\ h.maxSpent <= g.stack[0]
      /\ h.round \in RoundsOf(g)
  BY RoundSoFar
<1>4. /\ Len(Actions(h)) + 2 <= MaxNumActions
      /\ h.maxSpent < g.stack[0]
      /\ a.size \in Nat /\ (g.noLimit => a.size > h.maxSpent /\ a.size <= g.stack[0])
      /\ g.noLimit => h.minNoLimitRaiseTo > h.maxSpent
      /\ h.minNoLimitRaiseTo \in Nat
      /\ (g.noLimit => h.minNoLimitRaiseTo <= a.size \/ a.size = g.stack[0])
  <2>1. /\ ~(Len(Actions(h)) + NumPlayers > MaxNumActions) /\ LeftToCall(g, h)
        /\ IF ~g.noLimit THEN a.size \in {0}
           ELSE IF h.minNoLimitRaiseTo <= g.stack[p]
                THEN a.size \in h.minNoLimitRaiseTo .. g.stack[p]
           ELSE IF h.maxSpent < g.stack[p] THEN a.size \in {g.stack[p]} ELSE a.size \in {}
    BY <1>1 DEF RaiseSizes
  <2>2. g.stack[p] = g.stack[0] BY DEF GameOK
  <2>3. h.minNoLimitRaiseTo \in Nat BY <1>3 DEF HandType
  <2>4. g.noLimit => h.minNoLimitRaiseTo > h.maxSpent BY DEF HandInv, BetsInv
  <2>5. Len(Actions(h)) + 2 <= MaxNumActions BY <1>3, <2>1, Two
  <2>6. h.maxSpent < g.stack[0]
    <3>1. Cardinality(Acting(g, h)) \in Nat /\ Cardinality(Acting(g, h)) > 1
      BY <1>3, <2>1, Numbers DEF LeftToCall
    <3>2. Acting(g, h) \in SUBSET {0, 1} BY Two DEF Acting
    <3>3. Acting(g, h) = {0, 1}
      <4>1. Acting(g, h) = {} \/ Acting(g, h) = {0} \/ Acting(g, h) = {1} \/ Acting(g, h) = {0, 1}
        BY <3>2
      <4>2. /\ Acting(g, h) = {} => Cardinality(Acting(g, h)) = 0
            /\ Acting(g, h) = {0} \/ Acting(g, h) = {1} => Cardinality(Acting(g, h)) = 1
        BY <3>2, CardFacts
      <4> QED BY <3>1, <4>1, <4>2
    <3>4. \A q \in Players : h.spent[q] < g.stack[0] BY <3>3, Turn, Two
    <3>5. PICK q \in Players : h.spent[q] = h.maxSpent BY DEF HandInv, BetsInv
    <3> QED BY <3>4, <3>5
  <2>7. CASE g.noLimit BY <1>3, <2>1, <2>2, <2>3, <2>4, <2>5, <2>6, <2>7
  <2>8. CASE ~g.noLimit BY <1>3, <2>1, <2>3, <2>5, <2>6, <2>8
  <2> QED BY <2>7, <2>8
<1>5. PICK bet : bet = RaisedTo(g, h, a, p) OBVIOUS
<1>6. bet \in Nat /\ bet > h.maxSpent /\ bet <= g.stack[0] /\ (g.noLimit => bet = a.size)
  <2>1. g.stack[p] = g.stack[0] BY DEF GameOK
  <2>2. CASE g.noLimit BY <1>4, <1>5, <2>2 DEF RaisedTo
  <2>3. CASE ~g.noLimit
    <3>1. g.raiseSize[h.round] \in Nat \ {0} BY <1>3, <2>3 DEF GameOK
    <3>2. bet = IF h.maxSpent + g.raiseSize[h.round] > g.stack[0] THEN g.stack[0]
                ELSE h.maxSpent + g.raiseSize[h.round]
      BY <1>5, <2>1, <2>3 DEF RaisedTo
    <3> QED BY <1>3, <1>4, <2>3, <3>1, <3>2
  <2> QED BY <2>2, <2>3
<1>7. /\ After(g, h, k, "raise", p, bet)
      /\ k.maxSpent = bet /\ k.playerFolded = h.playerFolded
      /\ k.minNoLimitRaiseTo >= h.minNoLimitRaiseTo
      /\ g.noLimit => k.minNoLimitRaiseTo >= 2 * a.size - h.maxSpent
  BY <1>1, <1>2, <1>3, <1>4, <1>5, <1>6, RaisePlayed
<1>8. "raise" \in {"fold", "call", "raise"} OBVIOUS
<1>9. /\ k.spent[p] = bet /\ k.spent[Other(p)] = h.spent[Other(p)]
      /\ Len(Actions(k)) = Len(Actions(h)) + 1 /\ Actions(k) # <<>>
      /\ Acted(k) = [type |-> "raise", player |-> p]
      /\ \A r \in RoundsOf(g) : r > k.round => k.action[r] = <<>>
      /\ LengthInv(g, k) /\ k \in HandType(g) /\ k.finished = h.finished
  <2>1. k \in HandType(g) /\ k.finished = h.finished BY <1>7 DEF After
  <2>2. LengthInv(g, h) BY DEF HandInv
  <2>3. After(g, h, k, "raise", p, bet) /\ h \in HandType(g) /\ bet \in Nat BY <1>3, <1>6, <1>7
  <2>4. \A r \in RoundsOf(g) : r > h.round => h.action[r] = <<>> BY <1>3
  <2>5. Follows(g, h, k, "raise", p, bet) BY <1>8, <2>3, <2>4, AfterFacts
  <2> QED BY <1>3, <2>1, <2>2, <2>5 DEF Follows
<1>10. Acted(k).type = "raise" /\ Acted(k).player = p BY <1>9
<1>11. \A q \in Players : ~k.playerFolded[q] BY <1>3, <1>7
<1>12. DoAction(g, h, a) = k
  <2>1. NumFolded(k) = 0 BY <1>9, <1>11, Numbers
  <2>2. ~(NumFolded(k) + 1 >= NumPlayers) BY <2>1, Two
  <2>3. NumCalled(g, k) < Cardinality(Acting(g, k))
    <3>1. k.spent[Other(p)] < g.stack[0] BY <1>3, <1>6, <1>9, Two
    <3>2. Cardinality(Acting(g, k)) \in Nat \ {0}
      <4>1. /\ Cardinality(Acting(g, k)) \in Nat
            /\ Cardinality(Acting(g, k)) = 0 <=> \A q \in Players : ~(k.spent[q] < g.stack[0])
        BY <1>9, <1>11, Numbers
      <4> QED BY <3>1, <4>1, Two
    <3>3. g.stack[p] = g.stack[0] BY DEF GameOK
    <3>4. NumCalled(g, k) \in Nat BY <1>9, Numbers
    <3>5. CASE bet < g.stack[0]
      <4>1. \A q \in Players : k.spent[q] < g.stack[0] BY <1>9, <3>1, <3>5, Two
      <4>2. Cardinality(Acting(g, k)) = 2 BY <1>9, <1>11, <4>1, Numbers
      <4>3. NumCalled(g, k) <= 1 BY <1>9, <1>10, CallsFew
      <4> QED BY <3>4, <4>2, <4>3
    <3>6. CASE ~(bet < g.stack[0])
      <4>1. ~(k.spent[Acted(k).player] < g.stack[Acted(k).player])
        BY <1>9, <1>10, <3>3, <3>6
      <4>2. NumCalled(g, k) = 0 BY <1>9, <1>10, <4>1, CallsFew
      <4> QED BY <3>2, <4>2
    <3> QED BY <3>5, <3>6
  <2>4. ~BetCalled(g, k)
    <3>1. NumCalled(g, k) \in Nat /\ Cardinality(Acting(g, k)) \in Nat BY <1>9, <1>11, Numbers
    <3> QED BY <2>3, <3>1 DEF BetCalled
  <2> QED BY <1>2, <2>2, <2>4 DEF DoAction
<1>13. BetsInv(g, k)
  <2>1. \A q \in Players : k.spent[q] <= k.maxSpent
    <3>1. h.spent[Other(p)] <= bet BY <1>3, <1>6, Two
    <3> QED BY <1>6, <1>7, <1>9, <3>1, Two
  <2>2. g.noLimit => k.minNoLimitRaiseTo > k.maxSpent
    <3> SUFFICES ASSUME g.noLimit PROVE k.minNoLimitRaiseTo > k.maxSpent OBVIOUS
    <3>1. k.minNoLimitRaiseTo \in Nat BY <1>9 DEF HandType
    <3> QED BY <1>3, <1>4, <1>6, <1>7, <3>1
  <2> QED BY <1>6, <1>7, <1>9, <2>1, <2>2 DEF BetsInv
<1>14. Raised(g, k)
  <2>1. k.spent[Other(p)] < k.maxSpent BY <1>3, <1>6, <1>7, <1>9, Two
  <2>2. Len(Actions(k)) + 1 <= MaxNumActions BY <1>3, <1>4, <1>9
  <2> QED BY <1>7, <1>9, <1>10, <2>1, <2>2 DEF Raised
<1>15. GoingInv(g, k) /\ EndedInv(k) BY <1>9, <1>11, <1>14 DEF GoingInv, EndedInv
<1>16. k.maxSpent > h.maxSpent BY <1>6, <1>7
<1> QED BY <1>9, <1>12, <1>13, <1>15, <1>16 DEF GoodStep, HandInv

(* When the last bet has been called the next round begins, or the hand is *)
(* over.                                                                   *)
LEMMA RoundOver ==
  ASSUME NEW g, GameOK(g), NEW h, NEW a, NEW k, k = Played(g, h, a), k \in HandType(g),
         BetsInv(g, k), LengthInv(g, k),
         \A q \in Players : ~k.playerFolded[q] /\ k.spent[q] = k.maxSpent,
         \A r \in RoundsOf(g) : r > k.round => k.action[r] = <<>>,
         k.maxSpent < g.stack[0] => NumCalled(g, k) >= 2
  PROVE  LET d == DoAction(g, h, a) IN HandInv(g, d) /\ d.action = k.action
<1> DEFINE d == DoAction(g, h, a)
           n == Cardinality(Acting(g, k))
<1>1. /\ k.maxSpent \in Nat /\ g.stack[0] \in Nat /\ k.round \in RoundsOf(g)
      /\ g.numRounds \in Nat \ {0} /\ 0 \in Players /\ 1 \in Players
  BY Two DEF HandType, GameOK
<1>2. ~(NumFolded(k) + 1 >= NumPlayers)
  <2>1. NumFolded(k) = 0 BY Numbers
  <2> QED BY <2>1, Two
<1>3. /\ k.maxSpent < g.stack[0] => n = 2
      /\ ~(k.maxSpent < g.stack[0]) => n = 0
  BY Numbers
<1>4. BetCalled(g, k)
  <2>1. NumCalled(g, k) \in Nat BY Numbers
  <2> QED BY <1>3, <2>1 DEF BetCalled
<1> HIDE DEF n
<1>5. CASE n > 1 /\ MoreRounds(g, k)
  <2> DEFINE least == k.maxSpent + Max({g.blind[p] : p \in Players} \cup {1})
             e == [k EXCEPT !.round = @ + 1, !.minNoLimitRaiseTo = least]
  <2>1. d = e BY <1>2, <1>4, <1>5 DEF DoAction, n
  <2>2. least \in Nat /\ least > k.maxSpent
    <3> DEFINE S == {g.blind[p] : p \in Players} \cup {1}
    <3>1. S \subseteq Nat /\ 1 \in S /\ S = {g.blind[0], g.blind[1], 1}
      BY Two DEF GameOK
    <3>2. \E x \in S : \A y \in S : x >= y
      <4>1. g.blind[0] \in Nat /\ g.blind[1] \in Nat BY <1>1 DEF GameOK
      <4> HIDE DEF S
      <4>2. PICK x \in {g.blind[0], g.blind[1], 1} :
              x >= g.blind[0] /\ x >= g.blind[1] /\ x >= 1
        BY <4>1
      <4> QED BY <3>1, <4>2
    <3>3. Max(S) \in S /\ Max(S) >= 1
      <4> HIDE DEF S
      <4> QED BY <3>1, <3>2 DEF Max
    <3> HIDE DEF S
    <3>4. Max(S) \in Nat /\ Max(S) >= 1 BY <3>1, <3>3
    <3> QED BY <1>1, <3>4 DEF S
  <2>3. k.round + 1 \in RoundsOf(g) BY <1>1, <1>5 DEF MoreRounds, RoundsOf
  <2> HIDE DEF least
  <2>4. /\ e \in HandType(g) /\ e.round = k.round + 1 /\ e.minNoLimitRaiseTo = least
        /\ e.finished = k.finished /\ e.spent = k.spent /\ e.maxSpent = k.maxSpent
        /\ e.action = k.action /\ e.playerFolded = k.playerFolded
    BY <2>2, <2>3 DEF HandType
  <2> HIDE DEF e
  <2>5. BetsInv(g, e) BY <2>2, <2>4 DEF BetsInv
  <2>6. LengthInv(g, e) BY <2>4 DEF LengthInv
  <2>7. Actions(e) = <<>>
    <3>1. k.round + 1 > k.round BY <1>1 DEF RoundsOf
    <3> QED BY <2>3, <2>4, <3>1 DEF Actions
  <2>8. k.maxSpent < g.stack[0] BY <1>3, <1>5
  <2>9. Begun(g, e)
    <3>1. e.spent[0] < g.stack[0] /\ e.spent[0] = e.spent[1] BY <1>1, <2>4, <2>8
    <3> QED BY <1>1, <2>7, <3>1 DEF Begun
  <2>10. GoingInv(g, e)
    <3>1. \A r \in RoundsOf(g) : r > e.round => r > k.round BY <1>1, <2>4 DEF RoundsOf
    <3> QED BY <2>4, <2>9, <3>1 DEF GoingInv
  <2>11. EndedInv(e)
    <3>1. e.spent[0] = e.spent[1] BY <1>1, <2>4
    <3> QED BY <3>1 DEF EndedInv
  <2> QED BY <2>1, <2>4, <2>5, <2>6, <2>10, <2>11 DEF HandInv
<1>6. CASE ~(n > 1 /\ MoreRounds(g, k))
  <2>1. \E r \in RoundsOf(g) : d = [k EXCEPT !.finished = TRUE, !.round = r]
    <3>1. CASE n > 1
      <4>1. d = [k EXCEPT !.finished = TRUE] BY <1>2, <1>4, <1>6, <3>1 DEF DoAction, n
      <4>2. [k EXCEPT !.finished = TRUE] = [k EXCEPT !.finished = TRUE, !.round = k.round]
        BY DEF HandType
      <4> QED BY <1>1, <4>1, <4>2
    <3>2. CASE ~(n > 1)
      <4>1. d = [k EXCEPT !.finished = TRUE, !.round = g.numRounds - 1]
        BY <1>2, <1>4, <3>2 DEF DoAction, n
      <4>2. g.numRounds - 1 \in RoundsOf(g) BY <1>1 DEF RoundsOf
      <4> QED BY <4>1, <4>2
    <3> QED BY <3>1, <3>2
  <2>2. PICK r \in RoundsOf(g) : d = [k EXCEPT !.finished = TRUE, !.round = r] BY <2>1
  <2> HIDE DEF d
  <2>3. /\ d \in HandType(g) /\ d.finished /\ d.spent = k.spent /\ d.maxSpent = k.maxSpent
        /\ d.minNoLimitRaiseTo = k.minNoLimitRaiseTo /\ d.action = k.action
    BY <2>2 DEF HandType
  <2>4. BetsInv(g, d) BY <2>3 DEF BetsInv
  <2>5. LengthInv(g, d) BY <2>3 DEF LengthInv
  <2>6. d.spent[0] = d.spent[1] BY <1>1, <2>3
  <2>7. GoingInv(g, d) /\ EndedInv(d) BY <2>3, <2>6 DEF GoingInv, EndedInv
  <2> QED BY <2>3, <2>4, <2>5, <2>7 DEF HandInv, d
<1> QED BY <1>5, <1>6

LEMMA Calling ==
  ASSUME NEW g, GameOK(g), NEW h, HandInv(g, h), ~h.finished, NEW a, a.type = "call"
  PROVE  GoodStep(g, h, DoAction(g, h, a))
<1>1. PICK p \in Players :
        /\ p = CurrentPlayer(g, h) /\ h.spent[p] < g.stack[0]
        /\ Actions(h) # <<>> => p = Other(Acted(h).player)
  BY Turn
<1>2. PICK k : k = Played(g, h, a) OBVIOUS
<1>3. /\ h \in HandType(g) /\ Len(Actions(h)) + 1 <= MaxNumActions
      /\ Len(Actions(h)) \in Nat /\ Actions(h) \in Seq(PlayedAction)
      /\ \A r \in RoundsOf(g) : r > h.round => h.action[r] = <<>>
      /\ \A q \in Players : ~h.playerFolded[q] /\ h.spent[q] \in Nat /\ h.spent[q] <= h.maxSpent
      /\ h.maxSpent \in Nat /\ g.stack[0] \in Nat /\ h.maxSpent <= g.stack[0]
      /\ h.round \in RoundsOf(g)
  BY RoundSoFar
<1>4. /\ After(g, h, k, "call", p, h.maxSpent)
      /\ k.maxSpent = h.maxSpent /\ k.minNoLimitRaiseTo = h.minNoLimitRaiseTo
      /\ k.playerFolded = h.playerFolded
  BY <1>1, <1>2, <1>3, CallPlayed
<1>5. /\ k.spent[p] = h.maxSpent /\ k.spent[Other(p)] = h.spent[Other(p)]
      /\ Len(Actions(k)) = Len(Actions(h)) + 1 /\ Actions(k) # <<>>
      /\ Acted(k) = [type |-> "call", player |-> p]
      /\ \A i \in 1 .. Len(Actions(h)) : Actions(k)[i] = Actions(h)[i]
      /\ Actions(k)[Len(Actions(h)) + 1] = [type |-> "call", player |-> p]
      /\ \A r \in RoundsOf(g) : r > k.round => k.action[r] = <<>>
      /\ LengthInv(g, h) /\ Len(Actions(h)) + 1 <= MaxNumActions => LengthInv(g, k)
  <2>1. "call" \in {"fold", "call", "raise"} OBVIOUS
  <2>2. /\ After(g, h, k, "call", p, h.maxSpent) /\ h \in HandType(g) /\ h.maxSpent \in Nat
        /\ \A r \in RoundsOf(g) : r > h.round => h.action[r] = <<>>
    BY <1>3, <1>4
  <2>3. Follows(g, h, k, "call", p, h.maxSpent) BY <2>1, <2>2, AfterFacts
  <2> QED BY <2>3 DEF Follows
<1>6. k \in HandType(g) /\ k.finished = h.finished /\ LengthInv(g, k)
  <2>1. LengthInv(g, h) BY DEF HandInv
  <2> QED BY <1>3, <1>4, <1>5, <2>1 DEF After
<1>7. \A q \in Players : ~k.playerFolded[q] BY <1>3, <1>4
<1>8. BetsInv(g, k)
  <2>1. BetsInv(g, h) BY DEF HandInv
  <2>2. \A q \in Players : k.spent[q] <= k.maxSpent
    <3>1. k.spent[p] <= k.maxSpent /\ k.spent[Other(p)] <= k.maxSpent
      BY <1>3, <1>4, <1>5, Two
    <3> QED BY <3>1, Two
  <2> QED BY <1>4, <1>5, <2>1, <2>2 DEF BetsInv
<1>9. Acted(k).type = "call" /\ Acted(k).player = p BY <1>5
<1>10. Begun(g, h) \/ Raised(g, h) \/ Called(g, h) BY DEF HandInv, GoingInv
<1>11. CASE Actions(h) = <<>> /\ h.maxSpent < g.stack[0]
  <2>1. Len(Actions(k)) = 1
    <3>1. Len(Actions(h)) = 0 BY <1>11
    <3> QED BY <1>5, <3>1
  <2>2. \A q \in Players : k.spent[q] < g.stack[0]
    <3>1. k.spent[Other(p)] < g.stack[0] BY <1>3, <1>5, <1>11, Two
    <3> QED BY <1>5, <1>11, <3>1, Two
  <2>3. NumCalled(g, k) <= 1 BY <1>5, <1>6, <2>1, CallsFew
  <2>4. Cardinality(Acting(g, k)) = 2 /\ NumFolded(k) = 0 /\ NumCalled(g, k) \in Nat
    BY <1>6, <1>7, <2>2, Numbers
  <2>5. ~BetCalled(g, k) BY <2>3, <2>4 DEF BetCalled
  <2>6. DoAction(g, h, a) = k BY <1>2, <2>4, <2>5, Two DEF DoAction
  <2>7. Called(g, k) BY <1>4, <1>5, <1>9, <1>11, <2>1 DEF Called
  <2>8. GoingInv(g, k) /\ EndedInv(k) BY <1>5, <1>6, <1>7, <2>7 DEF GoingInv, EndedInv
  <2>9. Last(k.action[h.round]).type = "call"
    <3>1. "call" \in {"fold", "call", "raise"} OBVIOUS
    <3> QED BY <1>3, <1>4, <3>1, LastActed
  <2> QED BY <1>6, <1>8, <2>6, <2>8, <2>9 DEF GoodStep, HandInv
<1>12. CASE ~(Actions(h) = <<>> /\ h.maxSpent < g.stack[0])
  <2>1. h.spent[Other(p)] = h.maxSpent
    <3>1. CASE Actions(h) # <<>>
      <4>1. Acted(h).player \in Players /\ h.spent[Acted(h).player] = h.maxSpent
        BY <3>1, RoundSoFar
      <4> QED BY <1>1, <3>1, <4>1, Two
    <3>2. CASE Actions(h) = <<>>
      <4>1. PICK q \in Players : h.spent[q] = h.maxSpent BY DEF HandInv, BetsInv
      <4>2. q # p BY <1>1, <1>3, <1>12, <3>2, <4>1
      <4> QED BY <4>1, <4>2, Two
    <3> QED BY <3>1, <3>2
  <2>2. \A q \in Players : k.spent[q] = k.maxSpent
    <3>1. k.spent[p] = k.maxSpent /\ k.spent[Other(p)] = k.maxSpent BY <1>4, <1>5, <2>1
    <3> QED BY <3>1, Two
  <2>3. ASSUME k.maxSpent < g.stack[0] PROVE NumCalled(g, k) >= 2
    <3>1. Actions(h) # <<>> BY <1>4, <1>12, <2>3
    <3> DEFINE n == Len(Actions(h))
    <3>2. n \in Nat \ {0} BY <1>3, <3>1
    <3>3. Acted(h).type # "fold" BY <3>1, RoundSoFar
    <3>4. Actions(k)[n].type # "fold" BY <1>5, <3>2, <3>3 DEF Acted
    <3>5. Actions(k)[n + 1].type = "call" /\ Len(Actions(k)) = n + 1 BY <1>5
    <3> HIDE DEF n
    <3>6. n + 1 \in Nat /\ n + 1 >= 2 /\ (n + 1) - 1 = n BY <3>2
    <3>7. Actions(k)[(n + 1) - 1].type # "fold" BY <3>4, <3>6
    <3>8. \A q \in Players : k.spent[q] < g.stack[0] BY <2>2, <2>3
    <3> QED BY <1>6, <3>5, <3>6, <3>7, <3>8, CallsBoth
  <2>4. HandInv(g, DoAction(g, h, a)) /\ DoAction(g, h, a).action = k.action
    BY <1>2, <1>5, <1>6, <1>7, <1>8, <2>2, <2>3, RoundOver
  <2>5. Last(DoAction(g, h, a).action[h.round]).type = "call"
    <3>1. "call" \in {"fold", "call", "raise"} OBVIOUS
    <3> QED BY <1>3, <1>4, <2>4, <3>1, LastActed
  <2> QED BY <2>4, <2>5 DEF GoodStep
<1> QED BY <1>11, <1>12

-----------------------------------------------------------------------------
(* The first hand, and what HandInv is for                                 *)

LEMMA SetOfTwo ==
  ASSUME NEW f, DOMAIN f = Players
  PROVE  /\ {f[p] : p \in Players} = {f[0], f[1]}
         /\ Range(f) = {f[0], f[1]}
BY Two DEF Range

LEMMA InitHand ==
  ASSUME NEW g, GameOK(g)
  PROVE  HandInv(g, InitState(g)) /\ InitState(g).round = 0
<1> DEFINE h == InitState(g)
           big == Max({g.blind[p] : p \in Players})
<1>1. /\ g.noLimit \in BOOLEAN /\ g.numRounds \in Nat \ {0} /\ g.stack[0] \in Nat
      /\ g.blind \in [Players -> Nat] /\ \A p \in Players : g.blind[p] <= g.stack[0]
      /\ \E p \in Players : g.blind[p] < g.stack[0]
  BY DEF GameOK
<1>2. 0 \in Players /\ 1 \in Players /\ \A p \in Players : p = 0 \/ p = 1 BY Two
<1>3. g.blind[0] \in Nat /\ g.blind[1] \in Nat BY <1>1, <1>2
<1>4. big = Max({g.blind[0], g.blind[1]}) BY <1>1, SetOfTwo
<1>5. /\ big \in Nat /\ big <= g.stack[0]
      /\ \A p \in Players : g.blind[p] <= big
      /\ \E p \in Players : g.blind[p] = big
  <2>1. /\ Max({g.blind[0], g.blind[1]}) \in {g.blind[0], g.blind[1]}
        /\ Max({g.blind[0], g.blind[1]}) >= g.blind[0]
        /\ Max({g.blind[0], g.blind[1]}) >= g.blind[1]
    <3> DEFINE a == g.blind[0]
               b == g.blind[1]
    <3>1. a \in Int /\ b \in Int BY <1>3
    <3> HIDE DEF a, b
    <3>2. Max({a, b}) \in {a, b} /\ Max({a, b}) >= a /\ Max({a, b}) >= b BY <3>1, MaxOfTwo
    <3> QED BY <3>2 DEF a, b
  <2> HIDE DEF big
  <2>2. big \in {g.blind[0], g.blind[1]} /\ big >= g.blind[0] /\ big >= g.blind[1] BY <1>4, <2>1
  <2>3. big \in Nat BY <1>3, <2>2
  <2>4. \A p \in Players : g.blind[p] <= big BY <1>2, <1>3, <2>2, <2>3
  <2>5. \E p \in Players : g.blind[p] = big BY <1>2, <2>2
  <2> QED BY <1>1, <2>3, <2>4, <2>5
<1> DEFINE least == IF ~g.noLimit THEN 0 ELSE IF big > 0 THEN 2 * big ELSE 1
<1>6. h = [spent |-> g.blind, maxSpent |-> big, minNoLimitRaiseTo |-> least,
           action |-> [r \in RoundsOf(g) |-> <<>>], round |-> 0, finished |-> FALSE,
           playerFolded |-> [p \in Players |-> FALSE]]
  BY DEF InitState
<1> HIDE DEF big
<1>7. least \in Nat /\ (g.noLimit => least > big) BY <1>5
<1>8. 0 \in RoundsOf(g) BY <1>1 DEF RoundsOf
<1> HIDE DEF least, h
<1>9. /\ h.spent = g.blind /\ h.maxSpent = big /\ h.minNoLimitRaiseTo = least
      /\ h.action = [r \in RoundsOf(g) |-> <<>>] /\ h.round = 0 /\ h.finished = FALSE
      /\ h.playerFolded = [p \in Players |-> FALSE]
  BY <1>6
<1>10. h \in HandType(g)
  <2>1. <<>> \in Seq(PlayedAction) OBVIOUS
  <2>2. h.action \in [RoundsOf(g) -> Seq(PlayedAction)] BY <1>9, <2>1
  <2>3. h.playerFolded \in [Players -> BOOLEAN] BY <1>9
  <2> QED BY <1>1, <1>5, <1>6, <1>7, <1>8, <2>2, <2>3, <1>9 DEF HandType
<1>11. BetsInv(g, h) BY <1>5, <1>7, <1>9 DEF BetsInv
<1>12. \A r \in RoundsOf(g) : h.action[r] = <<>> BY <1>9
<1>13. LengthInv(g, h)
  <2>1. Len(<<>>) = 0 OBVIOUS
  <2> QED BY <1>12, <2>1, Two DEF LengthInv
<1>14. Begun(g, h) BY <1>1, <1>8, <1>9, <1>12 DEF Begun, Actions
<1>15. GoingInv(g, h) /\ EndedInv(h) BY <1>9, <1>12, <1>14 DEF GoingInv, EndedInv
<1> QED BY <1>9, <1>10, <1>11, <1>13, <1>15 DEF HandInv, h

LEMMA KeptHolds ==
  ASSUME GameOK(game), NEW h, HandInv(game, h)
  PROVE  Kept(h)
<1>1. h \in HandType(game) /\ BetsInv(game, h) /\ LengthInv(game, h)
      /\ GoingInv(game, h) /\ EndedInv(h)
  BY DEF HandInv
<1>2. /\ h.spent \in [Players -> Nat] /\ h.maxSpent \in Nat
      /\ DOMAIN h.spent = Players
      /\ 0 \in Players /\ 1 \in Players /\ \A p \in Players : p = 0 \/ p = 1
  BY <1>1, Two DEF HandType
<1>3. Range(h.spent) = {h.spent[0], h.spent[1]} BY <1>2, SetOfTwo
<1>4. /\ h.spent[0] \in Nat /\ h.spent[1] \in Nat
      /\ h.spent[0] <= h.maxSpent /\ h.spent[1] <= h.maxSpent
      /\ h.spent[0] = h.maxSpent \/ h.spent[1] = h.maxSpent
      /\ h.maxSpent <= game.stack[0]
  BY <1>1, <1>2 DEF BetsInv
<1>5. h.maxSpent = Max(Range(h.spent))
  <2> DEFINE a == h.spent[0]
             b == h.spent[1]
  <2>1. a \in Int /\ b \in Int /\ ((a >= b /\ a = h.maxSpent) \/ (b >= a /\ b = h.maxSpent))
    BY <1>4
  <2> HIDE DEF a, b
  <2>2. (a >= b => Max({a, b}) = a) /\ (b >= a => Max({a, b}) = b) BY <2>1, MaxOfTwo
  <2>3. Max({a, b}) = h.maxSpent BY <2>1, <2>2
  <2> QED BY <1>3, <2>3 DEF a, b
<1>6. \A p \in Players : h.spent[p] <= game.stack[p]
  <2>1. \A p \in Players : game.stack[p] = game.stack[0] /\ game.stack[0] \in Nat BY DEF GameOK
  <2>2. \A p \in Players : h.spent[p] <= game.stack[0] BY <1>2, <1>4, <2>1
  <2> QED BY <2>1, <2>2
<1>7. h.finished \/ Acting(game, h) # {} BY Turn
<1>8. h.spent[0] = h.spent[1] => Cardinality(Range(h.spent)) = 1
  <2> SUFFICES ASSUME h.spent[0] = h.spent[1] PROVE Cardinality(Range(h.spent)) = 1 OBVIOUS
  <2>1. Range(h.spent) = {h.spent[0]} BY <1>3
  <2> QED BY <2>1, FS_Singleton
<1>9. \/ NumFolded(h) > 0
      \/ ~h.finished /\ (Actions(h) # <<>> \/ h.round = 0)
      \/ Cardinality(Range(h.spent)) = 1
  <2>1. CASE h.finished
    <3>1. CASE h.spent[0] = h.spent[1] BY <1>8, <3>1
    <3>2. CASE \E p \in Players : h.playerFolded[p]
      <4>1. NumFolded(h) \in Nat /\ NumFolded(h) # 0 BY <1>1, <3>2, Numbers
      <4> QED BY <4>1
    <3> QED BY <1>1, <2>1, <3>1, <3>2 DEF EndedInv
  <2>2. CASE ~h.finished
    <3>1. Begun(game, h) \/ Actions(h) # <<>>
      <4>1. Begun(game, h) \/ Raised(game, h) \/ Called(game, h) BY <1>1, <2>2 DEF GoingInv
      <4>2. ASSUME Called(game, h), Actions(h) = <<>> PROVE FALSE
        <5>1. Len(Actions(h)) = 1 BY <4>2 DEF Called
        <5>2. Len(Actions(h)) = 0 BY <4>2
        <5> QED BY <5>1, <5>2
      <4>3. Raised(game, h) => Actions(h) # <<>> BY DEF Raised
      <4> QED BY <4>1, <4>2, <4>3
    <3> QED BY <1>8, <2>2, <3>1 DEF Begun
  <2> QED BY <2>1, <2>2
<1>10. \A r \in Rounds : Len(h.action[r]) <= MaxNumActions
  BY <1>1 DEF LengthInv, Rounds
<1> QED BY <1>5, <1>6, <1>7, <1>9, <1>10 DEF Kept

-----------------------------------------------------------------------------
(* The actions of a choice                                                 *)

LEMMA MinMaxOfInterval ==
  ASSUME NEW lo \in Int, NEW hi \in Int, lo <= hi
  PROVE  Min(lo .. hi) = lo /\ Max(lo .. hi) = hi
<1>1. lo \in lo .. hi /\ \A y \in lo .. hi : lo <= y OBVIOUS
<1>2. hi \in lo .. hi /\ \A y \in lo .. hi : hi >= y OBVIOUS
<1>3. Min(lo .. hi) = lo
  <2>1. \A x \in lo .. hi : (\A y \in lo .. hi : x <= y) => x = lo OBVIOUS
  <2> QED BY <1>1, <2>1 DEF Min
<1>4. Max(lo .. hi) = hi
  <2>1. \A x \in lo .. hi : (\A y \in lo .. hi : x >= y) => x = hi OBVIOUS
  <2> QED BY <1>2, <2>1 DEF Max
<1> QED BY <1>3, <1>4

LEMMA SizesAreRange ==
  ASSUME NEW g, GameOK(g), NEW h, HandInv(g, h), ~h.finished, RaiseSizes(g, h) # {}
  PROVE  \E lo, hi \in Nat : lo <= hi /\ RaiseSizes(g, h) = lo .. hi
<1>1. PICK p \in Players : p = CurrentPlayer(g, h) BY Turn
<1>2. g.stack[p] \in Nat /\ h.minNoLimitRaiseTo \in Nat
  BY DEF GameOK, HandInv, HandType
<1>3. \/ RaiseSizes(g, h) = {0}
      \/ /\ h.minNoLimitRaiseTo <= g.stack[p]
         /\ RaiseSizes(g, h) = h.minNoLimitRaiseTo .. g.stack[p]
      \/ RaiseSizes(g, h) = {g.stack[p]}
  BY <1>1 DEF RaiseSizes
<1>4. \A n \in Nat : {n} = n .. n OBVIOUS
<1>5. 0 \in Nat /\ 0 <= 0 /\ g.stack[p] <= g.stack[p] BY <1>2
<1> HIDE DEF RaiseSizes
<1>6. CASE RaiseSizes(g, h) = {0}
  <2>1. RaiseSizes(g, h) = 0 .. 0 BY <1>4, <1>6
  <2> QED BY <1>5, <2>1
<1>7. CASE RaiseSizes(g, h) = {g.stack[p]}
  <2>1. RaiseSizes(g, h) = g.stack[p] .. g.stack[p] BY <1>2, <1>4, <1>7
  <2> QED BY <1>2, <1>5, <2>1
<1>8. CASE /\ h.minNoLimitRaiseTo <= g.stack[p]
           /\ RaiseSizes(g, h) = h.minNoLimitRaiseTo .. g.stack[p]
  BY <1>2, <1>8
<1> QED BY <1>3, <1>6, <1>7, <1>8

LEMMA SeqOfFunction ==
  ASSUME NEW n \in Nat, NEW R, NEW f \in [1 .. n -> R]
  PROVE  f \in Seq(R) /\ Len(f) = n
<1>1. f = [i \in 1 .. n |-> f[i]] OBVIOUS
<1>2. [i \in 1 .. n |-> f[i]] \in Seq(R) OBVIOUS
<1>3. f \in Seq(R) BY <1>1, <1>2
<1>4. Len(f) \in Nat /\ DOMAIN f = 1 .. Len(f) BY <1>3
<1> QED BY <1>3, <1>4

RaiseAt(s) == [type |-> "raise", size |-> s]

(* The raises from small to large, without repetition. *)
Upwards(S) ==
  IF S = {} THEN <<>>
  ELSE [i \in 1 .. Max(S) - Min(S) + 1 |-> [type |-> "raise", size |-> Min(S) + i - 1]]

ListsAll(raises, S) ==
  /\ raises \in Seq({RaiseAt(s) : s \in S})
  /\ \A i \in DOMAIN raises : raises[i].type = "raise" /\ raises[i].size \in S
  /\ \A i, j \in DOMAIN raises : raises[i] = raises[j] => i = j
  /\ \A s \in S : \E i \in DOMAIN raises : raises[i] = RaiseAt(s)

LEMMA RaisesListed ==
  ASSUME NEW S, S = {} \/ \E lo, hi \in Nat : lo <= hi /\ S = lo .. hi,
         NEW raises, raises = Upwards(S)
  PROVE  ListsAll(raises, S)
<1>1. CASE S = {}
  <2>1. raises = <<>> /\ DOMAIN raises = {} BY <1>1 DEF Upwards
  <2>2. <<>> \in Seq({RaiseAt(s) : s \in S}) OBVIOUS
  <2> QED BY <1>1, <2>1, <2>2 DEF ListsAll
<1>2. CASE S # {}
  <2>1. PICK lo \in Nat, hi \in Nat : lo <= hi /\ S = lo .. hi BY <1>2
  <2>2. Min(S) = lo /\ Max(S) = hi BY <2>1, MinMaxOfInterval
  <2>3. raises = [i \in 1 .. hi - lo + 1 |-> RaiseAt(lo + i - 1)]
    BY <1>2, <2>2 DEF RaiseAt, Upwards
  <2>4. hi - lo + 1 \in Nat /\ DOMAIN raises = 1 .. hi - lo + 1 BY <2>1, <2>3
  <2>5. \A i \in 1 .. hi - lo + 1 : lo + i - 1 \in S BY <2>1
  <2>6. \A i \in DOMAIN raises : raises[i] = RaiseAt(lo + i - 1) BY <2>3, <2>4
  <2>7. \A i \in DOMAIN raises : raises[i].type = "raise" /\ raises[i].size = lo + i - 1
    <3>1. \A s : RaiseAt(s).type = "raise" /\ RaiseAt(s).size = s BY DEF RaiseAt
    <3> QED BY <2>6, <3>1
  <2>8. raises \in Seq({RaiseAt(s) : s \in S})
    <3> DEFINE R == {RaiseAt(s) : s \in S}
               n == hi - lo + 1
    <3>1. \A i \in 1 .. n : RaiseAt(lo + i - 1) \in R BY <2>5
    <3> HIDE DEF R
    <3>2. raises \in [1 .. n -> R] BY <2>3, <3>1
    <3>3. n \in Nat BY <2>4
    <3> HIDE DEF n
    <3>4. raises \in Seq(R) BY <3>2, <3>3, SeqOfFunction
    <3> QED BY <3>4 DEF R
  <2>9. \A i, j \in DOMAIN raises : raises[i] = raises[j] => i = j
    <3> SUFFICES ASSUME NEW i \in DOMAIN raises, NEW j \in DOMAIN raises, raises[i] = raises[j]
                 PROVE  i = j
      OBVIOUS
    <3>0. raises[i] = raises[j] OBVIOUS
    <3>1. lo + i - 1 = lo + j - 1
      <4>1. raises[i].size = raises[j].size BY <3>0
      <4> QED BY <2>7, <4>1
    <3>2. i \in Int /\ j \in Int BY <2>4
    <3> QED BY <2>1, <3>1, <3>2
  <2>10. \A s \in S : \E i \in DOMAIN raises : raises[i] = RaiseAt(s)
    <3> SUFFICES ASSUME NEW s \in S PROVE \E i \in DOMAIN raises : raises[i] = RaiseAt(s)
      OBVIOUS
    <3>1. s \in Nat /\ s - lo + 1 \in DOMAIN raises /\ lo + (s - lo + 1) - 1 = s
      BY <2>1, <2>4
    <3> QED BY <2>6, <3>1
  <2> QED BY <2>4, <2>5, <2>7, <2>8, <2>9, <2>10 DEF ListsAll
<1> QED BY <1>1, <1>2

(* ActionsFrom lists the valid actions, each once. *)
LEMMA ActionsListed ==
  ASSUME GameOK(game), NEW h, HandInv(game, h), ~h.finished
  PROVE  /\ ActionsFrom(h) \in Seq(ValidActions(game, h))
         /\ NumChoices(h) = Len(ActionsFrom(h)) /\ NumChoices(h) \in Nat \ {0}
<1> DEFINE S == RaiseSizes(game, h)
           V == ValidActions(game, h)
           raises == Upwards(S)
           fold == IF CanFold(game, h) THEN <<Fold>> ELSE <<>>
           acts == ActionsFrom(h)
<1>1. acts = fold \o <<Call>> \o raises BY DEF ActionsFrom, Upwards
<1>2. S = {} \/ \E lo, hi \in Nat : lo <= hi /\ S = lo .. hi BY SizesAreRange
<1>3. V = {a \in {Fold} : CanFold(game, h)} \cup {Call}
          \cup {[type |-> "raise", size |-> s] : s \in S}
  BY DEF ValidActions
<1>4. {[type |-> "raise", size |-> s] : s \in S} = {RaiseAt(s) : s \in S} BY DEF RaiseAt
<1> HIDE DEF S
<1>5. /\ raises \in Seq({RaiseAt(s) : s \in S})
      /\ \A i \in DOMAIN raises : raises[i].type = "raise" /\ raises[i].size \in S
      /\ \A i, j \in DOMAIN raises : raises[i] = raises[j] => i = j
      /\ \A s \in S : \E i \in DOMAIN raises : raises[i] = RaiseAt(s)
  <2> HIDE DEF raises
  <2>1. raises = Upwards(S) BY DEF raises
  <2>2. ListsAll(raises, S) BY <1>2, <2>1, RaisesListed
  <2> QED BY <2>2 DEF ListsAll
<1> HIDE DEF raises, acts, V
<1> DEFINE R == {RaiseAt(s) : s \in S}
<1>6. raises \in Seq(R) BY <1>5
<1>7. R \subseteq V /\ Call \in V /\ (CanFold(game, h) => Fold \in V) BY <1>3, <1>4
<1>8. \A a \in V : a = Call \/ (a = Fold /\ CanFold(game, h)) \/ a \in R BY <1>3, <1>4
<1>9. \A a \in R : a.type = "raise" BY DEF RaiseAt
<1>10. Call.type = "call" /\ Fold.type = "fold" BY DEF Call, Fold
<1>11. \A a \in R : \E i \in DOMAIN raises : raises[i] = a BY <1>5
<1> HIDE DEF R
<1>12. raises \in Seq(V) BY <1>6, <1>7, SeqMonotonic
<1>13. fold \in Seq(V) /\ Len(fold) \in {0, 1} /\ (Len(fold) = 1 <=> CanFold(game, h))
       /\ \A i \in 1 .. Len(fold) : fold[i] = Fold
  <2>1. CASE CanFold(game, h)
    <3>1. fold = <<Fold>> BY <2>1
    <3> HIDE DEF fold
    <3>2. Len(fold) = 1 /\ fold[1] = Fold /\ fold \in Seq(V) BY <1>7, <2>1, <3>1
    <3> QED BY <2>1, <3>2
  <2>2. CASE ~CanFold(game, h)
    <3>1. fold = <<>> BY <2>2
    <3> HIDE DEF fold
    <3>2. Len(fold) = 0 /\ fold \in Seq(V) BY <3>1
    <3> QED BY <2>2, <3>2
  <2> QED BY <2>1, <2>2
<1> HIDE DEF fold
<1> DEFINE k == Len(fold)
           n == Len(raises)
<1>14. n \in Nat /\ DOMAIN raises = 1 .. n /\ k \in Nat /\ \A i \in 1 .. n : raises[i] \in R
  BY <1>6, <1>13
<1>15. /\ acts \in Seq(V) /\ Len(acts) = k + 1 + n
       /\ \A i \in 1 .. k : acts[i] = Fold
       /\ acts[k + 1] = Call
       /\ \A i \in 1 .. n : acts[k + 1 + i] = raises[i]
  <2>1. <<Call>> \in Seq(V) /\ Len(<<Call>>) = 1 /\ <<Call>>[1] = Call BY <1>7
  <2> DEFINE both == fold \o <<Call>>
  <2>2. /\ both \in Seq(V) /\ Len(both) = k + 1 /\ both[k + 1] = Call
        /\ \A i \in 1 .. k : both[i] = fold[i]
    BY <1>13, <2>1
  <2>3. acts = both \o raises BY <1>1
  <2> HIDE DEF both
  <2>4. acts \in Seq(V) /\ Len(acts) = k + 1 + n
    <3>1. acts \in Seq(V) /\ Len(acts) = Len(both) + Len(raises)
      BY <1>12, <2>2, <2>3, ConcatProperties
    <3> QED BY <2>2, <3>1
  <2>5. \A i \in 1 .. k + 1 : acts[i] = both[i]
    <3> HIDE DEF k, n
    <3> QED BY <1>12, <1>14, <2>2, <2>3
  <2>6. \A i \in 1 .. n : acts[k + 1 + i] = raises[i]
    <3> SUFFICES ASSUME NEW i \in 1 .. n PROVE acts[k + 1 + i] = raises[i] OBVIOUS
    <3> DEFINE x == k + 1 + i
    <3>1. \A y \in 1 .. Len(both) + Len(raises) :
            acts[y] = IF y <= Len(both) THEN both[y] ELSE raises[y - Len(both)]
      BY <1>12, <2>2, <2>3, ConcatProperties
    <3>2. x \in 1 .. Len(both) + Len(raises) /\ ~(x <= Len(both)) /\ x - Len(both) = i
      <4> HIDE DEF k
      <4>1. Len(both) = k + 1 /\ Len(raises) = n BY <2>2
      <4> HIDE DEF n
      <4> QED BY <1>14, <4>1
    <3> HIDE DEF x
    <3>3. acts[x] = raises[i] BY <3>1, <3>2
    <3> QED BY <3>3 DEF x
  <2>7. k + 1 \in 1 .. k + 1 /\ \A i \in 1 .. k : i \in 1 .. k + 1 BY <1>14
  <2> QED BY <1>13, <2>2, <2>4, <2>5, <2>6, <2>7
<1> HIDE DEF k, n
<1>16. Len(acts) \in Nat \ {0} /\ DOMAIN acts = 1 .. Len(acts) BY <1>14, <1>15
<1>17. \A i \in DOMAIN acts :
         \/ i \in 1 .. k /\ acts[i].type = "fold" /\ acts[i] = Fold
         \/ i = k + 1 /\ acts[i].type = "call" /\ acts[i] = Call
         \/ \E j \in 1 .. n : i = k + 1 + j /\ acts[i] = raises[j] /\ acts[i].type = "raise"
  <2> SUFFICES ASSUME NEW i \in DOMAIN acts
               PROVE  \/ i \in 1 .. k /\ acts[i].type = "fold" /\ acts[i] = Fold
                      \/ i = k + 1 /\ acts[i].type = "call" /\ acts[i] = Call
                      \/ \E j \in 1 .. n : i = k + 1 + j /\ acts[i] = raises[j] /\ acts[i].type = "raise"
    OBVIOUS
  <2>1. i \in 1 .. k + 1 + n BY <1>15, <1>16
  <2>2. i \in 1 .. k \/ i = k + 1 \/ (i - k - 1 \in 1 .. n /\ i = k + 1 + (i - k - 1))
    BY <1>14, <2>1
  <2>3. CASE i - k - 1 \in 1 .. n /\ i = k + 1 + (i - k - 1)
    <3>1. acts[i] = raises[i - k - 1] BY <1>15, <2>3
    <3>2. acts[i].type = "raise" BY <1>9, <1>14, <2>3, <3>1
    <3> QED BY <2>3, <3>1, <3>2
  <2> QED BY <1>10, <1>15, <2>2, <2>3
<1>18. \A i, j \in DOMAIN acts : acts[i] = acts[j] => i = j
  <2> SUFFICES ASSUME NEW i \in DOMAIN acts, NEW j \in DOMAIN acts, acts[i] = acts[j]
               PROVE  i = j
    OBVIOUS
  <2>1. acts[i] = acts[j] OBVIOUS
  <2>2. acts[i].type = acts[j].type BY <2>1
  <2>3. CASE acts[i].type = "fold"
    <3>1. i \in 1 .. k /\ j \in 1 .. k BY <1>17, <2>2, <2>3
    <3> QED BY <1>13, <3>1 DEF k
  <2>4. CASE acts[i].type = "call"
    <3>1. i = k + 1 /\ j = k + 1 BY <1>17, <2>2, <2>4
    <3> QED BY <3>1
  <2>5. CASE acts[i].type = "raise"
    <3>1. PICK x \in 1 .. n : i = k + 1 + x /\ acts[i] = raises[x] BY <1>17, <2>5
    <3>2. PICK y \in 1 .. n : j = k + 1 + y /\ acts[j] = raises[y] BY <1>17, <2>2, <2>5
    <3>3. x = y BY <1>5, <1>14, <2>1, <3>1, <3>2
    <3> QED BY <3>1, <3>2, <3>3
  <2> QED BY <1>17, <2>3, <2>4, <2>5
<1>19. \A a \in V : \E i \in DOMAIN acts : acts[i] = a
  <2> SUFFICES ASSUME NEW a \in V PROVE \E i \in DOMAIN acts : acts[i] = a OBVIOUS
  <2>1. DOMAIN acts = 1 .. k + 1 + n BY <1>15, <1>16
  <2>2. CASE a = Call
    <3>1. k + 1 \in DOMAIN acts BY <1>14, <2>1
    <3> QED BY <1>15, <2>2, <3>1
  <2>3. CASE a = Fold /\ CanFold(game, h)
    <3>1. k = 1 BY <1>13, <2>3 DEF k
    <3>2. 1 \in 1 .. k /\ 1 \in DOMAIN acts BY <1>14, <2>1, <3>1
    <3> QED BY <1>15, <2>3, <3>2
  <2>4. CASE a \in R
    <3>1. PICK i \in 1 .. n : raises[i] = a BY <1>11, <1>14, <2>4
    <3>2. k + 1 + i \in DOMAIN acts BY <1>14, <2>1
    <3> QED BY <1>15, <3>1, <3>2
  <2> QED BY <1>8, <2>2, <2>3, <2>4
<1>20. acts \in Bijection(1 .. Len(acts), V)
  <2>1. acts \in [1 .. Len(acts) -> V] BY <1>15, <1>16
  <2> QED BY <1>16, <1>18, <1>19, <2>1 
      DEF Bijection, Injection, Surjection, IsInjective
<1>21. Cardinality(V) = Len(acts)
  <2> DEFINE m == Len(acts)
  <2>1. m \in Nat BY <1>16
  <2>2. ExistsBijection(1 .. m, V) BY <1>20 DEF ExistsBijection
  <2> HIDE DEF m
  <2>3. IsFiniteSet(1 .. m) /\ Cardinality(1 .. m) = m BY <2>1, FS_Interval
  <2>4. Cardinality(V) = Cardinality(1 .. m) BY <2>2, <2>3, FS_Bijection
  <2> QED BY <2>3, <2>4 DEF m
<1> QED BY <1>15, <1>16, <1>21 DEF acts, V, NumChoices

(* Whatever a choice offers leads to a hand within the rules. *)
LEMMA ChildIsGood ==
  ASSUME GameOK(game), NEW h, HandInv(game, h), ~h.finished,
         NEW i \in DOMAIN ActionsFrom(h)
  PROVE  GoodStep(game, h, DoAction(game, h, ActionsFrom(h)[i]))
<1> DEFINE acts == ActionsFrom(h)
           a == acts[i]
<1>1. acts \in Seq(ValidActions(game, h)) BY ActionsListed
<1> HIDE DEF acts
<1>2. a \in ValidActions(game, h) BY <1>1 DEF acts
<1> HIDE DEF a
<1>3. \/ a.type = "fold" \/ a.type = "call"
      \/ a.type = "raise" /\ a.size \in RaiseSizes(game, h)
  BY <1>2 DEF ValidActions, Fold, Call
<1> QED BY <1>3, Folding, Calling, Raising DEF a, acts

-----------------------------------------------------------------------------
(* The tree                                                                *)

SizesOf(g) == [RoundsOf(g) -> [Players -> Nat]]

ChoiceU    == [playerActing : Players, numChoices : Nat, index : Nat, immIndex : Nat]
ChanceU(g) == [before : SizesOf(g), bettingTreeSize : SizesOf(g), closed : BOOLEAN]
LeafU      == [isShowdown : BOOLEAN, value : [Players -> Int]]
SubgameU   == [index : Nat]

NodeType(g) ==
  [type : {"choice", "chance", "leaf", "subgame"}, round : RoundsOf(g), hand : HandType(g),
   tree : Nat, chance : Nat, parent : Nat,
   u : ChoiceU \cup ChanceU(g) \cup LeafU \cup SubgameU]

VisitType(g) == [kind : {"visit"}, hand : HandType(g), split : -1 .. g.numRounds - 1,
                 last : -1 .. g.numRounds - 1, tree : Nat, chance : Nat, parent : Nat]

CloseType == [kind : {"close"}, node : Nat]

(* What is below a node has been added to the sizes since. *)
NodeInv(g, sz, n) ==
  /\ n.tree \in DOMAIN sz
  /\ n.type = "chance" =>
       /\ n.u \in ChanceU(g)
       /\ \A r \in RoundsOf(g), p \in Players : n.u.before[r][p] <= sz[n.tree][r][p]

IsChance(ns, i) == i \in DOMAIN ns /\ ns[i].type = "chance"

(* Before the first cards are dealt there is no chance node above. *)
PlaceInv(trees, ns, v) ==
  /\ v.tree \in trees /\ v.parent \in 0 .. Len(ns)
  /\ v.last = -1 => v.chance = 0
  /\ v.last # -1 => IsChance(ns, v.chance)

(* After a raise the bet is higher than at the parent. *)
RaiseInv(ns, v) ==
  LET parent == ns[v.parent]
  IN (/\ v.parent \in DOMAIN ns /\ parent.type = "choice"
      /\ Last(v.hand.action[parent.round]).type = "raise") =>
        v.hand.maxSpent > parent.hand.maxSpent

EntryInv(g, trees, ns, e) ==
  /\ e.kind = "close" => IsChance(ns, e.node)
  /\ e.kind = "visit" => PlaceInv(trees, ns, e) /\ HandInv(g, e.hand) /\ RaiseInv(ns, e)

SizeInv(g, sz) == \E n \in Nat \ {0} : sz \in [0 .. n - 1 -> SizesOf(g)]

TreeInv ==
  /\ game \in Games
  /\ nodes \in Seq(NodeType(game))
  /\ todo \in Seq(VisitType(game) \cup CloseType)
  /\ SizeInv(game, size) /\ imm \in [ChanceNodes -> [Players -> Nat]]
  /\ \A i \in DOMAIN nodes : NodeInv(game, size, nodes[i])
  /\ \A i \in DOMAIN todo : EntryInv(game, DOMAIN size, nodes, todo[i])

(* Nodes stay where and what they are. *)
Extends(ns, ns2) ==
  /\ Len(ns) \in Nat /\ Len(ns2) \in Nat /\ Len(ns) <= Len(ns2)
  /\ DOMAIN ns = 1 .. Len(ns) /\ DOMAIN ns2 = 1 .. Len(ns2)
  /\ \A i \in DOMAIN ns : /\ ns2[i].type = ns[i].type /\ ns2[i].round = ns[i].round
                          /\ ns2[i].hand = ns[i].hand

LEMMA EntryStays ==
  ASSUME NEW g, NEW t1, NEW t2, t1 \subseteq t2, NEW ns, NEW ns2, Extends(ns, ns2),
         NEW e, EntryInv(g, t1, ns, e)
  PROVE  EntryInv(g, t2, ns2, e)
<1>1. /\ Len(ns) \in Nat /\ Len(ns2) \in Nat /\ Len(ns) <= Len(ns2)
      /\ DOMAIN ns = 1 .. Len(ns) /\ DOMAIN ns2 = 1 .. Len(ns2)
      /\ \A i \in DOMAIN ns : /\ ns2[i].type = ns[i].type /\ ns2[i].round = ns[i].round
                              /\ ns2[i].hand = ns[i].hand
  BY DEF Extends
<1>2. \A i : IsChance(ns, i) => IsChance(ns2, i) BY <1>1 DEF IsChance
<1>3. ASSUME e.kind = "visit" PROVE PlaceInv(t2, ns2, e) /\ RaiseInv(ns2, e)
  <2>1. PlaceInv(t1, ns, e) /\ RaiseInv(ns, e) BY <1>3 DEF EntryInv
  <2>2. PlaceInv(t2, ns2, e) BY <1>1, <1>2, <2>1 DEF PlaceInv
  <2>3. RaiseInv(ns2, e)
    <3>1. e.parent \in DOMAIN ns2 => e.parent \in DOMAIN ns BY <1>1, <2>1 DEF PlaceInv
    <3> QED BY <1>1, <2>1, <3>1 DEF RaiseInv
  <2> QED BY <2>2, <2>3
<1> QED BY <1>2, <1>3 DEF EntryInv

Adds(T, ns, n, ns2) == ns \in Seq(T) /\ n \in T /\ ns2 = Append(ns, n)

Added(T, ns, n, ns2) ==
  /\ Extends(ns, ns2) /\ ns2 \in Seq(T) /\ Len(ns2) = Len(ns) + 1
  /\ DOMAIN ns2 = DOMAIN ns \cup {Len(ns) + 1} /\ Len(ns) + 1 \notin DOMAIN ns
  /\ ns2[Len(ns) + 1] = n /\ \A i \in DOMAIN ns : ns2[i] = ns[i]

LEMMA NodeAdded ==
  ASSUME NEW T, NEW ns, NEW n, NEW ns2, Adds(T, ns, n, ns2)
  PROVE  Added(T, ns, n, ns2)
<1>0. ns \in Seq(T) /\ n \in T /\ ns2 = Append(ns, n) BY DEF Adds
<1>1. /\ ns2 \in Seq(T) /\ Len(ns2) = Len(ns) + 1 /\ Len(ns) \in Nat /\ Len(ns2) \in Nat
      /\ DOMAIN ns = 1 .. Len(ns) /\ DOMAIN ns2 = 1 .. Len(ns2)
  BY <1>0
<1>2. ns2[Len(ns) + 1] = n /\ \A i \in DOMAIN ns : ns2[i] = ns[i] BY <1>0, <1>1
<1>3. Len(ns) + 1 \notin DOMAIN ns /\ DOMAIN ns2 = DOMAIN ns \cup {Len(ns) + 1} BY <1>1
<1>4. Extends(ns, ns2) BY <1>1, <1>2 DEF Extends
<1> QED BY <1>1, <1>2, <1>3, <1>4 DEF Added

(* The top of the stack is replaced by `new`. *)
LEMMA TodoNext ==
  ASSUME NEW g, NEW t1, NEW t2, t1 \subseteq t2, NEW ns, NEW ns2, Extends(ns, ns2),
         NEW T, NEW td \in Seq(T), td # <<>>, NEW new \in Seq(T),
         \A i \in DOMAIN td : EntryInv(g, t1, ns, td[i]),
         \A i \in DOMAIN new : EntryInv(g, t2, ns2, new[i]),
         NEW td2, td2 = new \o Tail(td)
  PROVE  td2 \in Seq(T) /\ \A i \in DOMAIN td2 : EntryInv(g, t2, ns2, td2[i])
<1>1. /\ Tail(td) \in Seq(T) /\ Len(Tail(td)) = Len(td) - 1 /\ Len(td) \in Nat \ {0}
      /\ \A i \in 1 .. Len(Tail(td)) : Tail(td)[i] = td[i + 1]
  BY HeadTailProperties, EmptySeq
<1>2. \A i \in 1 .. Len(Tail(td)) : i + 1 \in DOMAIN td BY <1>1
<1>3. \A i \in 1 .. Len(Tail(td)) : EntryInv(g, t2, ns2, Tail(td)[i])
  BY <1>1, <1>2, EntryStays
<1> DEFINE rest == Tail(td)
<1>4. /\ td2 \in Seq(T) /\ Len(td2) = Len(new) + Len(rest)
      /\ \A i \in 1 .. Len(new) + Len(rest) :
           td2[i] = IF i <= Len(new) THEN new[i] ELSE rest[i - Len(new)]
  BY <1>1, ConcatProperties
<1>5. \A i \in 1 .. Len(rest) : EntryInv(g, t2, ns2, rest[i]) BY <1>3
<1>6. rest \in Seq(T) BY <1>1
<1> HIDE DEF rest
<1>7. ASSUME NEW i \in DOMAIN td2 PROVE EntryInv(g, t2, ns2, td2[i])
  <2>1. Len(new) \in Nat /\ Len(rest) \in Nat /\ DOMAIN new = 1 .. Len(new) BY <1>6
  <2>2. i \in 1 .. Len(new) + Len(rest) BY <1>4
  <2>3. i \in 1 .. Len(new) \/ (i - Len(new) \in 1 .. Len(rest) /\ ~(i <= Len(new)))
    BY <2>1, <2>2
  <2>4. CASE i \in 1 .. Len(new)
    <3>1. td2[i] = new[i] BY <1>4, <2>1, <2>2, <2>4
    <3> QED BY <2>1, <2>4, <3>1
  <2>5. CASE i - Len(new) \in 1 .. Len(rest) /\ ~(i <= Len(new))
    <3>1. td2[i] = rest[i - Len(new)] BY <1>4, <2>2, <2>5
    <3> QED BY <1>5, <2>5, <3>1
  <2> QED BY <2>3, <2>4, <2>5
<1> QED BY <1>4, <1>7

Grows(g, sz, sz2) ==
  /\ DOMAIN sz \subseteq DOMAIN sz2
  /\ \A t \in DOMAIN sz, r \in RoundsOf(g), p \in Players : sz[t][r][p] <= sz2[t][r][p]

LEMMA NodeStays ==
  ASSUME NEW g, NEW sz, NEW sz2, SizeInv(g, sz), SizeInv(g, sz2), Grows(g, sz, sz2),
         NEW n, NodeInv(g, sz, n)
  PROVE  NodeInv(g, sz2, n)
<1>1. n.tree \in DOMAIN sz /\ n.tree \in DOMAIN sz2 BY DEF NodeInv, Grows
<1>2. sz[n.tree] \in SizesOf(g) /\ sz2[n.tree] \in SizesOf(g) BY <1>1 DEF SizeInv
<1>3. ASSUME n.type = "chance", NEW r \in RoundsOf(g), NEW p \in Players
      PROVE  n.u.before[r][p] <= sz2[n.tree][r][p]
  <2>1. n.u.before \in SizesOf(g) /\ n.u.before[r][p] <= sz[n.tree][r][p]
    BY <1>3 DEF NodeInv, ChanceU
  <2>2. sz[n.tree][r][p] <= sz2[n.tree][r][p] BY <1>1 DEF Grows
  <2>3. n.u.before[r][p] \in Nat /\ sz[n.tree][r][p] \in Nat /\ sz2[n.tree][r][p] \in Nat
    BY <1>2, <2>1 DEF SizesOf
  <2> QED BY <2>1, <2>2, <2>3
<1> QED BY <1>1, <1>3 DEF NodeInv

LEMMA GrowsSame ==
  ASSUME NEW g, NEW sz, SizeInv(g, sz)
  PROVE  Grows(g, sz, sz)
<1> SUFFICES ASSUME NEW t \in DOMAIN sz, NEW r \in RoundsOf(g), NEW p \in Players
             PROVE  sz[t][r][p] <= sz[t][r][p]
  BY DEF Grows
<1>1. sz[t] \in SizesOf(g) BY DEF SizeInv
<1>2. sz[t][r][p] \in Nat BY <1>1 DEF SizesOf
<1> QED BY <1>2

TopInv ==
  /\ GameOK(game) /\ todo # <<>> /\ nodes \in Seq(NodeType(game))
  /\ Top \in VisitType(game) /\ Top.hand \in HandType(game) /\ Top.hand.round \in RoundsOf(game)
  /\ HandInv(game, Top.hand) /\ PlaceInv(DOMAIN size, nodes, Top) /\ RaiseInv(nodes, Top)

LEMMA TopFacts ==
  ASSUME TreeInv, Visits
  PROVE  TopInv
<1>1. todo # <<>> /\ Top.kind = "visit" BY DEF Visits
<1>2. todo \in Seq(VisitType(game) \cup CloseType) BY DEF TreeInv
<1>3. /\ Len(todo) \in Nat \ {0} /\ DOMAIN todo = 1 .. Len(todo) /\ Head(todo) = todo[1]
      /\ todo[1] \in VisitType(game) \cup CloseType
  BY <1>1, <1>2
<1>4. 1 \in DOMAIN todo /\ Top = todo[1] BY <1>3 DEF Top
<1>5. EntryInv(game, DOMAIN size, nodes, Top) BY <1>4 DEF TreeInv
<1>6. HandInv(game, Top.hand) /\ PlaceInv(DOMAIN size, nodes, Top) /\ RaiseInv(nodes, Top)
  BY <1>1, <1>5 DEF EntryInv
<1>7. Top \in VisitType(game) BY <1>1, <1>3, <1>4 DEF CloseType
<1>8. Top.hand \in HandType(game) /\ Top.hand.round \in RoundsOf(game)
  BY <1>6 DEF HandInv, HandType
<1>9. GameOK(game) BY AllGamesOK DEF TreeInv
<1> QED BY <1>1, <1>6, <1>7, <1>8, <1>9 DEF TopInv, TreeInv

(* What an action that makes a node has to see to. *)
LEMMA Made ==
  ASSUME TreeInv, Visits, NEW type \in {"choice", "chance", "leaf", "subgame"},
         NEW u \in ChoiceU \cup ChanceU(game) \cup LeafU \cup SubgameU,
         Make(type, u), game' = game, SizeInv(game, size'), Grows(game, size, size'),
         type = "chance" =>
           /\ u \in ChanceU(game)
           /\ \A r \in RoundsOf(game), p \in Players : u.before[r][p] <= size'[Top.tree][r][p],
         imm' \in [IF type = "chance" THEN ChanceNodes \cup {Id} ELSE ChanceNodes ->
                     [Players -> Nat]],
         NEW new \in Seq(VisitType(game) \cup CloseType), todo' = new \o Tail(todo),
         \A i \in DOMAIN new : EntryInv(game, DOMAIN size', nodes', new[i])
  PROVE  TreeInv'
<1> DEFINE n == [type |-> type, round |-> Top.hand.round, hand |-> Top.hand,
                 tree |-> Top.tree, chance |-> Top.chance, parent |-> Top.parent, u |-> u]
           T == VisitType(game) \cup CloseType
<1>1. TopInv BY TopFacts
<1>2. /\ Top \in VisitType(game) /\ Top.hand \in HandType(game)
      /\ Top.hand.round \in RoundsOf(game) /\ Top.tree \in DOMAIN size /\ todo # <<>>
      /\ nodes \in Seq(NodeType(game))
  BY <1>1 DEF TopInv, PlaceInv
<1>3. n \in NodeType(game) BY <1>2 DEF NodeType, VisitType
<1>4. nodes' = Append(nodes, n) BY DEF Make
<1>5. Id = Len(nodes) + 1 BY DEF Id
<1>6. /\ Extends(nodes, nodes') /\ nodes' \in Seq(NodeType(game))
      /\ DOMAIN nodes' = DOMAIN nodes \cup {Id} /\ Id \notin DOMAIN nodes
      /\ nodes'[Id] = n /\ \A i \in DOMAIN nodes : nodes'[i] = nodes[i]
  <2> DEFINE N == NodeType(game)
             ns == nodes'
  <2> HIDE DEF n
  <2>1. Adds(N, nodes, n, ns) BY <1>2, <1>3, <1>4 DEF Adds
  <2> HIDE DEF N, ns
  <2>2. Added(N, nodes, n, ns) BY <2>1, NodeAdded
  <2> QED BY <1>5, <2>2 DEF N, ns, Added
<1>7. NodeInv(game, size', n)
  <2>1. n.tree \in DOMAIN size' BY <1>2 DEF Grows
  <2>2. n.type = type /\ n.tree = Top.tree /\ n.u = u OBVIOUS
  <2> HIDE DEF n
  <2> QED BY <2>1, <2>2 DEF NodeInv
<1>8. n.type = type OBVIOUS
<1> HIDE DEF n
<1>9. \A i \in DOMAIN nodes' : NodeInv(game', size', nodes'[i])
  <2>1. \A i \in DOMAIN nodes : NodeInv(game, size', nodes[i])
    <3>1. SizeInv(game, size) /\ \A i \in DOMAIN nodes : NodeInv(game, size, nodes[i])
      BY DEF TreeInv
    <3> QED BY <3>1, NodeStays
  <2> QED BY <1>6, <1>7, <2>1
<1>10. ChanceNodes' = IF type = "chance" THEN ChanceNodes \cup {Id} ELSE ChanceNodes
  <2>1. ChanceNodes' = {i \in DOMAIN nodes' : nodes'[i].type = "chance"} BY DEF ChanceNodes
  <2>2. ChanceNodes = {i \in DOMAIN nodes : nodes[i].type = "chance"} BY DEF ChanceNodes
  <2>3. nodes'[Id].type = type BY <1>6, <1>8
  <2> QED BY <1>6, <2>1, <2>2, <2>3
<1>11. imm' \in [ChanceNodes' -> [Players -> Nat]] BY <1>10
<1>12. todo' \in Seq(T) /\ \A i \in DOMAIN todo' : EntryInv(game, DOMAIN size', nodes', todo'[i])
  <2>1. todo \in Seq(T) /\ \A i \in DOMAIN todo : EntryInv(game, DOMAIN size, nodes, todo[i])
    BY DEF TreeInv
  <2>2. DOMAIN size \subseteq DOMAIN size' BY DEF Grows
  <2>3. new \in Seq(T) OBVIOUS
  <2> HIDE DEF T
  <2> QED BY <1>2, <1>6, <2>1, <2>2, <2>3, TodoNext
<1>13. game' \in Games BY DEF TreeInv
<1> QED BY <1>6, <1>9, <1>11, <1>12, <1>13 DEF TreeInv

LEMMA NewNode ==
  ASSUME TreeInv, Visits, NEW type \in {"choice", "chance", "leaf", "subgame"},
         NEW u \in ChoiceU \cup ChanceU(game) \cup LeafU \cup SubgameU, Make(type, u)
  PROVE  /\ Extends(nodes, nodes') /\ Id \in Nat /\ Len(nodes') = Id /\ Id \in DOMAIN nodes'
         /\ nodes'[Id].type = type /\ nodes'[Id].round = Top.hand.round
         /\ nodes'[Id].hand = Top.hand /\ Id # 0
<1> DEFINE n == [type |-> type, round |-> Top.hand.round, hand |-> Top.hand,
                 tree |-> Top.tree, chance |-> Top.chance, parent |-> Top.parent, u |-> u]
           N == NodeType(game)
           ns == nodes'
<1>1. TopInv BY TopFacts
<1>2. n \in N /\ nodes \in Seq(N)
  <2>1. /\ Top \in VisitType(game) /\ Top.hand \in HandType(game)
        /\ Top.hand.round \in RoundsOf(game) /\ nodes \in Seq(NodeType(game))
    BY <1>1 DEF TopInv
  <2> QED BY <2>1 DEF NodeType, VisitType
<1>3. n.type = type /\ n.round = Top.hand.round /\ n.hand = Top.hand OBVIOUS
<1>4. ns = Append(nodes, n) BY DEF Make
<1>5. Id = Len(nodes) + 1 BY DEF Id
<1> HIDE DEF n, N
<1>6. Adds(N, nodes, n, ns) BY <1>2, <1>4 DEF Adds
<1> HIDE DEF ns
<1>7. Added(N, nodes, n, ns) BY <1>6, NodeAdded
<1>8. Len(nodes) \in Nat BY <1>2
<1> QED BY <1>3, <1>5, <1>7, <1>8 DEF ns, Added

LEMMA WithFacts ==
  ASSUME NEW A, NEW B, NEW f \in [A -> B], NEW x, NEW y \in B
  PROVE  /\ With(f, x, y) \in [A \cup {x} -> B] /\ With(f, x, y)[x] = y
         /\ \A z \in A : z # x => With(f, x, y)[z] = f[z]
BY DEF With

LEMMA TreesCounted ==
  ASSUME NEW g, NEW sz, SizeInv(g, sz)
  PROVE  \E n \in Nat \ {0} : /\ sz \in [0 .. n - 1 -> SizesOf(g)] /\ DOMAIN sz = 0 .. n - 1
                              /\ Cardinality(DOMAIN sz) = n
<1>1. PICK n \in Nat \ {0} : sz \in [0 .. n - 1 -> SizesOf(g)] BY DEF SizeInv
<1>2. DOMAIN sz = 0 .. n - 1 BY <1>1
<1>3. 0 \in Int /\ n - 1 \in Int /\ ~(0 > n - 1) /\ n - 1 - 0 + 1 = n OBVIOUS
<1>4. Cardinality(0 .. n - 1) = n BY <1>3, FS_Interval
<1> QED BY <1>1, <1>2, <1>4

LEMMA NoSizesFacts == NoSizes \in SizesOf(game) BY DEF NoSizes, SizesOf, Rounds

LEMMA SubgameStep ==
  ASSUME TreeInv, MakeSubgame
  PROVE  TreeInv'
<1>1. Visits /\ UNCHANGED <<game, imm>> BY DEF MakeSubgame
<1>2. TopInv BY <1>1, TopFacts
<1>3. PICK n \in Nat \ {0} : /\ size \in [0 .. n - 1 -> SizesOf(game)] /\ DOMAIN size = 0 .. n - 1
                             /\ Cardinality(DOMAIN size) = n
  BY TreesCounted DEF TreeInv
<1> DEFINE u == [index |-> n - 1]
           v == Visit(Top.hand, -1, -1, n, 0, Id)
           new == <<v>>
<1>4. Make("subgame", u) /\ size' = With(size, n, NoSizes) /\ todo' = new \o Tail(todo)
  BY <1>3 DEF MakeSubgame, Trees
<1>5. u \in SubgameU BY DEF SubgameU
<1>6. u \in ChoiceU \cup ChanceU(game) \cup LeafU \cup SubgameU BY <1>5
<1> HIDE DEF u
<1>7. /\ size' \in [0 .. n - 1 \cup {n} -> SizesOf(game)] /\ size'[n] = NoSizes
      /\ \A t \in 0 .. n - 1 : t # n => size'[t] = size[t]
  BY <1>3, <1>4, NoSizesFacts, WithFacts
<1>8. 0 .. n - 1 \cup {n} = 0 .. (n + 1) - 1 /\ n \notin 0 .. n - 1 /\ n + 1 \in Nat \ {0}
  OBVIOUS
<1>9. SizeInv(game, size') BY <1>7, <1>8 DEF SizeInv
<1>10. Grows(game, size, size')
  <2>1. Grows(game, size, size) BY GrowsSame DEF TreeInv
  <2>2. \A t \in DOMAIN size : size'[t] = size[t] BY <1>3, <1>7, <1>8
  <2>3. DOMAIN size \subseteq DOMAIN size' BY <1>3, <1>7
  <2> QED BY <2>1, <2>2, <2>3 DEF Grows
<1>11. "subgame" \in {"choice", "chance", "leaf", "subgame"} OBVIOUS
<1>12. /\ Extends(nodes, nodes') /\ Id \in Nat /\ Len(nodes') = Id /\ Id \in DOMAIN nodes'
       /\ nodes'[Id].type = "subgame"
  BY <1>1, <1>4, <1>6, <1>11, NewNode
<1>13. game.numRounds \in Nat \ {0} /\ HandInv(game, Top.hand) /\ Top.hand \in HandType(game)
  BY <1>2 DEF TopInv, GameOK
<1>14. v \in VisitType(game) BY <1>12, <1>13 DEF Visit, VisitType
<1>15. EntryInv(game, DOMAIN size', nodes', v)
  <2>1. /\ v.kind = "visit" /\ v.hand = Top.hand /\ v.tree = n /\ v.parent = Id
        /\ v.last = -1 /\ v.chance = 0
    BY DEF Visit
  <2> HIDE DEF v
  <2>2. n \in DOMAIN size' BY <1>7
  <2>3. PlaceInv(DOMAIN size', nodes', v) BY <1>12, <2>1, <2>2 DEF PlaceInv
  <2>4. RaiseInv(nodes', v) BY <1>12, <2>1 DEF RaiseInv
  <2> QED BY <1>13, <2>1, <2>3, <2>4 DEF EntryInv
<1> HIDE DEF v
<1>16. new \in Seq(VisitType(game) \cup CloseType)
       /\ \A i \in DOMAIN new : EntryInv(game, DOMAIN size', nodes', new[i])
  BY <1>14, <1>15
<1> HIDE DEF new
<1>17. imm' \in [IF "subgame" = "chance" THEN ChanceNodes \cup {Id} ELSE ChanceNodes ->
                   [Players -> Nat]]
  BY <1>1 DEF TreeInv
<1>18. "subgame" # "chance" OBVIOUS
<1> QED BY <1>1, <1>4, <1>6, <1>9, <1>10, <1>11, <1>16, <1>17, <1>18, Made

LEMMA ChanceStep ==
  ASSUME TreeInv, MakeChance
  PROVE  TreeInv'
<1>1. Visits /\ UNCHANGED <<game, size>> BY DEF MakeChance
<1>2. TopInv BY <1>1, TopFacts
<1>3. SizeInv(game, size) /\ Top.tree \in DOMAIN size
  BY <1>2 DEF TreeInv, TopInv, PlaceInv
<1>4. size[Top.tree] \in SizesOf(game) BY <1>3 DEF SizeInv
<1> DEFINE u == [before |-> size[Top.tree], bettingTreeSize |-> NoSizes, closed |-> FALSE]
           v == Visit(Top.hand, Top.split, Top.hand.round, Top.tree, Id, Id)
           c == [kind |-> "close", node |-> Id]
           new == <<v, c>>
<1>5. /\ Make("chance", u) /\ imm' = With(imm, Id, FirstImm) /\ todo' = new \o Tail(todo)
  BY DEF MakeChance
<1>6. u \in ChanceU(game) BY <1>4, NoSizesFacts DEF ChanceU
<1>7. u \in ChoiceU \cup ChanceU(game) \cup LeafU \cup SubgameU BY <1>6
<1>8. \A r \in RoundsOf(game), p \in Players : u.before[r][p] <= size'[Top.tree][r][p]
  <2> SUFFICES ASSUME NEW r \in RoundsOf(game), NEW p \in Players
               PROVE  u.before[r][p] <= size'[Top.tree][r][p]
    OBVIOUS
  <2>1. size[Top.tree][r][p] \in Nat BY <1>4 DEF SizesOf
  <2> QED BY <1>1, <2>1
<1> HIDE DEF u
<1>9. SizeInv(game, size') /\ Grows(game, size, size') BY <1>1, <1>3, GrowsSame
<1>10. "chance" \in {"choice", "chance", "leaf", "subgame"} OBVIOUS
<1>11. /\ Extends(nodes, nodes') /\ Id \in Nat /\ Len(nodes') = Id /\ Id \in DOMAIN nodes'
       /\ nodes'[Id].type = "chance"
  BY <1>1, <1>5, <1>7, <1>10, NewNode
<1>12. /\ game.numRounds \in Nat \ {0} /\ HandInv(game, Top.hand) /\ Top.hand \in HandType(game)
       /\ Top \in VisitType(game) /\ Top.hand.round \in RoundsOf(game)
  BY <1>2 DEF TopInv, GameOK
<1>13. v \in VisitType(game)
  <2>1. Top.hand.round \in -1 .. game.numRounds - 1 BY <1>12 DEF RoundsOf
  <2> QED BY <1>11, <1>12, <2>1 DEF Visit, VisitType
<1>14. c \in CloseType BY <1>11 DEF CloseType
<1>15. IsChance(nodes', Id) BY <1>11 DEF IsChance
<1>16. EntryInv(game, DOMAIN size', nodes', v)
  <2>1. /\ v.kind = "visit" /\ v.hand = Top.hand /\ v.tree = Top.tree /\ v.parent = Id
        /\ v.last = Top.hand.round /\ v.chance = Id
    BY DEF Visit
  <2> HIDE DEF v
  <2>2. v.last # -1 BY <1>12, <2>1 DEF RoundsOf
  <2>3. PlaceInv(DOMAIN size', nodes', v) BY <1>1, <1>3, <1>11, <1>15, <2>1, <2>2 DEF PlaceInv
  <2>4. RaiseInv(nodes', v) BY <1>11, <2>1 DEF RaiseInv
  <2> QED BY <1>12, <2>1, <2>3, <2>4 DEF EntryInv
<1>17. EntryInv(game, DOMAIN size', nodes', c)
  <2>1. c.kind = "close" /\ c.node = Id OBVIOUS
  <2> HIDE DEF c
  <2> QED BY <1>15, <2>1 DEF EntryInv
<1> HIDE DEF v, c
<1>18. new \in Seq(VisitType(game) \cup CloseType)
       /\ \A i \in DOMAIN new : EntryInv(game, DOMAIN size', nodes', new[i])
  BY <1>13, <1>14, <1>16, <1>17
<1> HIDE DEF new
<1>19. imm' \in [IF "chance" = "chance" THEN ChanceNodes \cup {Id} ELSE ChanceNodes ->
                   [Players -> Nat]]
  <2>1. FirstImm \in [Players -> Nat] BY DEF FirstImm
  <2>2. imm \in [ChanceNodes -> [Players -> Nat]] BY DEF TreeInv
  <2>3. With(imm, Id, FirstImm) \in [ChanceNodes \cup {Id} -> [Players -> Nat]]
    BY <2>1, <2>2, WithFacts
  <2> QED BY <1>5, <2>3
<1> QED BY <1>1, <1>5, <1>6, <1>7, <1>8, <1>9, <1>10, <1>18, <1>19, Made

LEMMA LeafStep ==
  ASSUME TreeInv, MakeLeaf
  PROVE  TreeInv'
<1>1. Visits /\ UNCHANGED <<game, size, imm>> /\ todo' = Tail(todo) BY DEF MakeLeaf
<1>2. TopInv BY <1>1, TopFacts
<1> DEFINE h == Top.hand
           folder == {p \in Players : h.playerFolded[p]}
           sign(p) == IF p \in folder THEN -1 ELSE 1
           stake == IF folder = {} THEN h.spent[0] ELSE h.spent[CHOOSE p \in folder : TRUE]
           u == [isShowdown |-> folder = {}, value |-> [p \in Players |-> sign(p) * stake]]
<1>3. Make("leaf", u) BY DEF MakeLeaf
<1>4. u \in LeafU
  <2>1. h.spent \in [Players -> Nat] BY <1>2 DEF TopInv, HandType
  <2>2. folder # {} => (CHOOSE p \in folder : TRUE) \in Players OBVIOUS
  <2>3. stake \in Nat BY <2>1, <2>2, Two
  <2>4. \A p \in Players : sign(p) \in Int OBVIOUS
  <2> HIDE DEF stake, sign
  <2>5. \A p \in Players : sign(p) * stake \in Int BY <2>3, <2>4
  <2> QED BY <2>5 DEF LeafU
<1> HIDE DEF u
<1>5. u \in ChoiceU \cup ChanceU(game) \cup LeafU \cup SubgameU BY <1>4
<1>6. SizeInv(game, size') /\ Grows(game, size, size') BY <1>1, GrowsSame DEF TreeInv
<1>7. "leaf" \in {"choice", "chance", "leaf", "subgame"} /\ "leaf" # "chance" OBVIOUS
<1> DEFINE new == <<>>
<1>8. new \in Seq(VisitType(game) \cup CloseType) /\ DOMAIN new = {} OBVIOUS
<1>9. todo' = new \o Tail(todo)
  <2>1. todo # <<>> /\ todo \in Seq(VisitType(game) \cup CloseType) BY <1>1 DEF Visits, TreeInv
  <2>2. Tail(todo) \in Seq(VisitType(game) \cup CloseType) BY <2>1, HeadTailProperties
  <2> QED BY <1>1, <2>2, ConcatEmptySeq
<1> HIDE DEF new
<1>10. \A i \in DOMAIN new : EntryInv(game, DOMAIN size', nodes', new[i]) BY <1>8
<1>11. imm' \in [IF "leaf" = "chance" THEN ChanceNodes \cup {Id} ELSE ChanceNodes ->
                   [Players -> Nat]]
  BY <1>1, <1>7 DEF TreeInv
<1> QED BY <1>1, <1>3, <1>5, <1>6, <1>7, <1>8, <1>9, <1>10, <1>11, Made

LEMMA CloseStep ==
  ASSUME TreeInv, CloseChance
  PROVE  TreeInv'
<1> DEFINE k == Top.node
           n == nodes[k]
           after == size[n.tree]
           dealt == [r \in Rounds |-> [p \in Players |->
                      IF r >= n.round THEN after[r][p] - n.u.before[r][p] ELSE n.u.before[r][p]]]
           m == [n EXCEPT !.u = [n.u EXCEPT !.bettingTreeSize = dealt, !.closed = TRUE]]
           T == VisitType(game) \cup CloseType
<1>1. /\ todo # <<>> /\ Top.kind = "close" /\ todo' = Tail(todo)
      /\ nodes' = [nodes EXCEPT ![k].u.bettingTreeSize = dealt, ![k].u.closed = TRUE]
      /\ UNCHANGED <<game, size, imm>>
  BY DEF CloseChance
<1>2. /\ game \in Games /\ nodes \in Seq(NodeType(game)) /\ todo \in Seq(T)
      /\ SizeInv(game, size) /\ imm \in [ChanceNodes -> [Players -> Nat]]
      /\ \A i \in DOMAIN nodes : NodeInv(game, size, nodes[i])
      /\ \A i \in DOMAIN todo : EntryInv(game, DOMAIN size, nodes, todo[i])
  BY DEF TreeInv
<1> HIDE DEF T
<1>3. k \in DOMAIN nodes /\ n.type = "chance"
  <2>0. todo # <<>> /\ todo \in Seq(T) BY <1>1, <1>2
  <2>1. 1 \in DOMAIN todo /\ Top = todo[1] BY <2>0 DEF Top
  <2>2. EntryInv(game, DOMAIN size, nodes, Top) BY <1>2, <2>1
  <2> QED BY <1>1, <2>2 DEF EntryInv, IsChance
<1>4. /\ Len(nodes) \in Nat /\ DOMAIN nodes = 1 .. Len(nodes) /\ n \in NodeType(game)
  BY <1>2, <1>3
<1>5. /\ n.u \in ChanceU(game) /\ n.tree \in DOMAIN size
      /\ \A r \in RoundsOf(game), p \in Players : n.u.before[r][p] <= size[n.tree][r][p]
  <2>1. NodeInv(game, size, n) BY <1>2, <1>3
  <2> HIDE DEF n
  <2> QED BY <1>3, <2>1 DEF NodeInv
<1>6. dealt \in SizesOf(game)
  <2>1. after \in SizesOf(game) /\ n.u.before \in SizesOf(game)
    BY <1>2, <1>5 DEF SizeInv, ChanceU
  <2>2. \A r \in RoundsOf(game), p \in Players :
          /\ after[r][p] \in Nat /\ n.u.before[r][p] \in Nat
          /\ n.u.before[r][p] <= after[r][p]
    BY <1>5, <2>1 DEF SizesOf
  <2> HIDE DEF n, after
  <2>3. \A r \in RoundsOf(game), p \in Players :
          (IF r >= n.round THEN after[r][p] - n.u.before[r][p] ELSE n.u.before[r][p]) \in Nat
    BY <2>2
  <2> QED BY <2>3 DEF SizesOf, Rounds
<1> HIDE DEF dealt
<1>7. nodes' = [nodes EXCEPT ![k] = m]
  <2> HIDE DEF k
  <2> QED BY <1>1, <1>3, <1>4 DEF NodeType
<1>8. /\ m \in NodeType(game) /\ m.u \in ChanceU(game) /\ m.u.before = n.u.before
      /\ m.type = n.type /\ m.round = n.round /\ m.hand = n.hand /\ m.tree = n.tree
  <2> DEFINE w == [n.u EXCEPT !.bettingTreeSize = dealt, !.closed = TRUE]
  <2> HIDE DEF n
  <2>1. w \in ChanceU(game) /\ w.before = n.u.before BY <1>5, <1>6 DEF ChanceU
  <2> HIDE DEF w
  <2>2. m = [n EXCEPT !.u = w] BY DEF w
  <2>3. m \in NodeType(game) /\ m.u = w BY <1>4, <2>1, <2>2 DEF NodeType
  <2>4. m.type = n.type /\ m.round = n.round /\ m.hand = n.hand /\ m.tree = n.tree
    BY <1>4, <2>2 DEF NodeType
  <2> QED BY <2>1, <2>3, <2>4
<1> HIDE DEF m
<1>9. NodeInv(game, size, m)
  <2> HIDE DEF n
  <2> QED BY <1>3, <1>5, <1>8 DEF NodeInv
<1> HIDE DEF n, k
<1> DEFINE ns == nodes'
<1>10. /\ ns \in Seq(NodeType(game)) /\ Len(ns) = Len(nodes) /\ DOMAIN ns = DOMAIN nodes
       /\ ns[k] = m /\ \A i \in DOMAIN nodes : i # k => ns[i] = nodes[i]
  BY <1>2, <1>3, <1>4, <1>7, <1>8
<1> HIDE DEF ns
<1>11. n = nodes[k] BY DEF n
<1>12. Extends(nodes, ns)
  <2>1. \A i \in DOMAIN nodes : /\ ns[i].type = nodes[i].type /\ ns[i].round = nodes[i].round
                                /\ ns[i].hand = nodes[i].hand
    BY <1>8, <1>10, <1>11
  <2> QED BY <1>4, <1>10, <2>1 DEF Extends
<1>13. \A i \in DOMAIN ns : NodeInv(game, size, ns[i]) BY <1>2, <1>9, <1>10
<1>14. ChanceNodes' = ChanceNodes
  <2>1. ChanceNodes' = {i \in DOMAIN ns : ns[i].type = "chance"} BY DEF ChanceNodes, ns
  <2>2. ChanceNodes = {i \in DOMAIN nodes : nodes[i].type = "chance"} BY DEF ChanceNodes
  <2>3. \A i \in DOMAIN nodes : ns[i].type = nodes[i].type BY <1>12 DEF Extends
  <2> QED BY <1>10, <2>1, <2>2, <2>3
<1> DEFINE td == todo'
           trees == DOMAIN size
<1>15. td \in Seq(T) /\ \A i \in DOMAIN td : EntryInv(game, trees, ns, td[i])
  <2>1. Tail(todo) \in Seq(T) BY <1>1, <1>2, HeadTailProperties
  <2> DEFINE new == <<>>
  <2>2. td = new \o Tail(todo) BY <1>1, <2>1, ConcatEmptySeq
  <2>a. new \in Seq(T) /\ DOMAIN new = {} OBVIOUS
  <2> HIDE DEF new
  <2>3. new \in Seq(T) /\ \A i \in DOMAIN new : EntryInv(game, trees, ns, new[i]) BY <2>a
  <2>4. trees \subseteq trees OBVIOUS
  <2>5. todo # <<>> BY <1>1
  <2> HIDE DEF td, trees
  <2>6. \A i \in DOMAIN todo : EntryInv(game, trees, nodes, todo[i]) BY <1>2 DEF trees
  <2> QED BY <1>2, <1>12, <2>2, <2>3, <2>4, <2>5, <2>6, TodoNext
<1>16. size' = size /\ game' = game /\ imm' = imm BY <1>1
<1> QED BY <1>2, <1>10, <1>13, <1>14, <1>15, <1>16 DEF TreeInv, ns, T

LEMMA SizeAdded ==
  ASSUME NEW g, NEW sz, SizeInv(g, sz), NEW t \in DOMAIN sz, NEW r \in RoundsOf(g),
         NEW p \in Players, NEW n \in Nat, NEW sz2, sz2 = [sz EXCEPT ![t][r][p] = @ + n]
  PROVE  SizeInv(g, sz2) /\ Grows(g, sz, sz2) /\ sz[t][r][p] \in Nat
<1>1. PICK k \in Nat \ {0} : sz \in [0 .. k - 1 -> SizesOf(g)] BY DEF SizeInv
<1>2. sz \in [0 .. k - 1 -> [RoundsOf(g) -> [Players -> Nat]]] /\ t \in 0 .. k - 1
  BY <1>1 DEF SizesOf
<1>3. sz[t] \in [RoundsOf(g) -> [Players -> Nat]] BY <1>2
<1>4. sz[t][r] \in [Players -> Nat] BY <1>3
<1>5. sz[t][r][p] \in Nat BY <1>4
<1> DEFINE x == [sz[t][r] EXCEPT ![p] = sz[t][r][p] + n]
           y == [sz[t] EXCEPT ![r] = x]
<1>6. sz2 = [sz EXCEPT ![t] = y] OBVIOUS
<1>7. x \in [Players -> Nat] /\ \A q \in Players : sz[t][r][q] <= x[q] BY <1>4, <1>5
<1> HIDE DEF x
<1>8. /\ y \in [RoundsOf(g) -> [Players -> Nat]]
      /\ \A s \in RoundsOf(g), q \in Players : sz[t][s][q] <= y[s][q]
  <2>1. y \in [RoundsOf(g) -> [Players -> Nat]] BY <1>3, <1>7
  <2>2. \A s \in RoundsOf(g) : y[s] = IF s = r THEN x ELSE sz[t][s] BY <1>3
  <2>3. \A s \in RoundsOf(g), q \in Players : sz[t][s][q] \in Nat BY <1>3
  <2>4. \A s \in RoundsOf(g), q \in Players : sz[t][s][q] <= y[s][q]
    <3> HIDE DEF y
    <3> QED BY <1>7, <2>2, <2>3
  <2> QED BY <2>1, <2>4
<1> HIDE DEF y
<1>9. sz2 \in [0 .. k - 1 -> [RoundsOf(g) -> [Players -> Nat]]] BY <1>2, <1>6, <1>8
<1>10. SizeInv(g, sz2)
  <2>1. sz2 \in [0 .. k - 1 -> SizesOf(g)] BY <1>9 DEF SizesOf
  <2> QED BY <2>1 DEF SizeInv
<1>11. Grows(g, sz, sz2)
  <2>1. DOMAIN sz = 0 .. k - 1 /\ DOMAIN sz2 = 0 .. k - 1 BY <1>2, <1>9
  <2>2. \A z \in 0 .. k - 1 : sz2[z] = IF z = t THEN y ELSE sz[z] BY <1>2, <1>6
  <2>3. \A z \in 0 .. k - 1, s \in RoundsOf(g), q \in Players : sz[z][s][q] \in Nat BY <1>2
  <2>4. \A z \in 0 .. k - 1, s \in RoundsOf(g), q \in Players : sz[z][s][q] <= sz2[z][s][q]
    <3> SUFFICES ASSUME NEW z \in 0 .. k - 1, NEW s \in RoundsOf(g), NEW q \in Players
                 PROVE  sz[z][s][q] <= sz2[z][s][q]
      OBVIOUS
    <3>1. CASE z = t BY <1>8, <2>2, <3>1
    <3>2. CASE z # t
      <4>1. sz2[z] = sz[z] BY <2>2, <3>2
      <4>2. sz[z][s][q] \in Nat BY <2>3
      <4> QED BY <4>1, <4>2
    <3> QED BY <3>1, <3>2
  <2> QED BY <2>1, <2>4 DEF Grows
<1> QED BY <1>5, <1>10, <1>11

LEMMA ChoiceStep ==
  ASSUME TreeInv, MakeChoice
  PROVE  TreeInv'
<1> DEFINE h == Top.hand
           p == CurrentPlayer(game, h)
           n == NumChoices(h)
           acts == ActionsFrom(h)
           child(i) == Visit(DoAction(game, h, acts[i]), Top.split, Top.last,
                             Top.tree, Top.chance, Id)
           new == [i \in DOMAIN acts |-> child(i)]
           u == [playerActing |-> p, numChoices |-> n,
                 index |-> size[Top.tree][h.round][p], immIndex |-> imm[Top.chance][p]]
           T == VisitType(game) \cup CloseType
<1>1. /\ Visits /\ ~Deals /\ ~h.finished /\ game' = game
      /\ Make("choice", u)
      /\ size' = [size EXCEPT ![Top.tree][h.round][p] = @ + n]
      /\ imm' = [imm EXCEPT ![Top.chance][p] = @ + n]
      /\ todo' = new \o Tail(todo)
  BY DEF MakeChoice
<1>2. TopInv BY <1>1, TopFacts
<1>3. /\ GameOK(game) /\ HandInv(game, h) /\ h \in HandType(game) /\ h.round \in RoundsOf(game)
      /\ PlaceInv(DOMAIN size, nodes, Top) /\ Top \in VisitType(game)
      /\ SizeInv(game, size) /\ Top.tree \in DOMAIN size
      /\ imm \in [ChanceNodes -> [Players -> Nat]]
  BY <1>2 DEF TopInv, TreeInv, PlaceInv
<1>4. p \in Players BY <1>1, <1>3, Turn
<1>5. n \in Nat /\ acts \in Seq(ValidActions(game, h)) BY <1>1, <1>3, ActionsListed
<1>6. Top.last # -1 /\ IsChance(nodes, Top.chance) /\ Top.chance \in ChanceNodes
  <2>1. ~(h.round > Top.last) BY <1>1 DEF Deals
  <2>2. h.round \in Nat /\ Top.last \in Int BY <1>3 DEF RoundsOf, VisitType, GameOK
  <2>3. Top.last # -1 BY <2>1, <2>2
  <2> QED BY <1>3, <2>3 DEF PlaceInv, IsChance, ChanceNodes
<1> HIDE DEF h, p, n, acts
<1>7. /\ SizeInv(game, size') /\ Grows(game, size, size') /\ size[Top.tree][h.round][p] \in Nat
  <2> DEFINE sz == size'
  <2>1. sz = [size EXCEPT ![Top.tree][h.round][p] = @ + n] BY <1>1
  <2> HIDE DEF sz
  <2>2. SizeInv(game, sz) /\ Grows(game, size, sz) /\ size[Top.tree][h.round][p] \in Nat
    BY <1>3, <1>4, <1>5, <2>1, SizeAdded
  <2> QED BY <2>2 DEF sz
<1>8. u \in ChoiceU
  <2>1. imm[Top.chance][p] \in Nat BY <1>3, <1>4, <1>6
  <2> QED BY <1>4, <1>5, <1>7, <2>1 DEF ChoiceU
<1> HIDE DEF u
<1>9. u \in ChoiceU \cup ChanceU(game) \cup LeafU \cup SubgameU BY <1>8
<1>10. "choice" \in {"choice", "chance", "leaf", "subgame"} /\ "choice" # "chance" OBVIOUS
<1>11. imm' \in [IF "choice" = "chance" THEN ChanceNodes \cup {Id} ELSE ChanceNodes ->
                   [Players -> Nat]]
  <2>1. imm[Top.chance] \in [Players -> Nat] /\ imm[Top.chance][p] + n \in Nat
    BY <1>3, <1>4, <1>5, <1>6
  <2>2. imm' \in [ChanceNodes -> [Players -> Nat]] BY <1>1, <1>3, <1>6, <2>1
  <2> QED BY <1>10, <2>2
<1>12. /\ Extends(nodes, nodes') /\ Id \in Nat /\ Len(nodes') = Id /\ Id \in DOMAIN nodes'
       /\ nodes'[Id].type = "choice" /\ nodes'[Id].round = h.round /\ nodes'[Id].hand = h
  BY <1>1, <1>9, <1>10, NewNode DEF h
<1>13. \A i \in DOMAIN acts : GoodStep(game, h, DoAction(game, h, acts[i]))
  BY <1>1, <1>3, ChildIsGood DEF acts
<1>14. ASSUME NEW i \in DOMAIN acts
       PROVE  child(i) \in T /\ EntryInv(game, DOMAIN size', nodes', child(i))
  <2> DEFINE d == DoAction(game, h, acts[i])
             v == Visit(d, Top.split, Top.last, Top.tree, Top.chance, Id)
  <2>1. GoodStep(game, h, d) BY <1>13
  <2> HIDE DEF d
  <2>2. HandInv(game, d) /\ d \in HandType(game) BY <2>1 DEF GoodStep, HandInv
  <2>3. v \in VisitType(game) BY <1>3, <1>12, <2>2 DEF Visit, VisitType
  <2>4. /\ v.kind = "visit" /\ v.hand = d /\ v.tree = Top.tree /\ v.parent = Id
        /\ v.last = Top.last /\ v.chance = Top.chance
    BY DEF Visit
  <2> HIDE DEF v
  <2>5. IsChance(nodes', Top.chance) BY <1>6, <1>12 DEF IsChance, Extends
  <2>6. PlaceInv(DOMAIN size', nodes', v)
    <3>1. Top.tree \in DOMAIN size' BY <1>3, <1>7 DEF Grows
    <3> QED BY <1>6, <1>12, <2>4, <2>5, <3>1 DEF PlaceInv
  <2>7. RaiseInv(nodes', v) BY <1>12, <2>1, <2>4 DEF RaiseInv, GoodStep
  <2>8. EntryInv(game, DOMAIN size', nodes', v) BY <2>2, <2>4, <2>6, <2>7 DEF EntryInv
  <2> QED BY <2>3, <2>8 DEF v, d
<1> HIDE DEF T, child
<1>15. new \in Seq(T) /\ DOMAIN new = DOMAIN acts
  <2>1. DOMAIN acts = 1 .. Len(acts) /\ Len(acts) \in Nat BY <1>5
  <2>2. new \in [1 .. Len(acts) -> T] BY <1>14, <2>1
  <2> HIDE DEF new
  <2>3. new \in Seq(T) /\ DOMAIN new = 1 .. Len(acts) BY <2>1, <2>2, SeqOfFunction
  <2> QED BY <2>1, <2>3
<1>16. \A i \in DOMAIN new : EntryInv(game, DOMAIN size', nodes', new[i]) BY <1>14
<1> HIDE DEF new
<1> QED BY <1>1, <1>7, <1>9, <1>10, <1>11, <1>15, <1>16, Made DEF T

-----------------------------------------------------------------------------
LEMMA InitInv ==
  ASSUME Init PROVE TreeInv
<1>0. PICK g \in Games : \E split \in {-1} \cup 1 .. g.numRounds - 1 :
        /\ game = g
        /\ todo = <<Visit(InitState(g), split, -1, 0, 0, 0)>>
        /\ nodes = <<>>
        /\ size = [t \in {0} |-> [r \in RoundsOf(g) |-> [p \in Players |-> 0]]]
        /\ imm = << >>
  BY DEF Init
<1>1. PICK split \in {-1} \cup 1 .. g.numRounds - 1 :
        /\ game = g
        /\ todo = <<Visit(InitState(g), split, -1, 0, 0, 0)>>
        /\ nodes = <<>>
        /\ size = [t \in {0} |-> [r \in RoundsOf(g) |-> [p \in Players |-> 0]]]
        /\ imm = << >>
  BY <1>0
<1>2. GameOK(g) BY AllGamesOK
<1>3. HandInv(g, InitState(g)) /\ g.numRounds \in Nat \ {0} BY <1>2, InitHand DEF GameOK
<1> DEFINE v == Visit(InitState(g), split, -1, 0, 0, 0)
           T == VisitType(g) \cup CloseType
<1>4. v \in T
  <2>1. InitState(g) \in HandType(g) BY <1>3 DEF HandInv
  <2> QED BY <1>3, <2>1 DEF Visit, VisitType
<1>5. DOMAIN size = {0} BY <1>1
<1>6. EntryInv(g, DOMAIN size, nodes, v)
  <2>1. /\ v.kind = "visit" /\ v.hand = InitState(g) /\ v.tree = 0 /\ v.parent = 0
        /\ v.last = -1 /\ v.chance = 0
    BY DEF Visit
  <2> HIDE DEF v
  <2>2. nodes = <<>> /\ DOMAIN nodes = {} /\ Len(nodes) = 0 BY <1>1
  <2>3. PlaceInv(DOMAIN size, nodes, v) BY <1>5, <2>1, <2>2 DEF PlaceInv
  <2>4. RaiseInv(nodes, v) BY <2>2 DEF RaiseInv
  <2> QED BY <1>3, <2>1, <2>3, <2>4 DEF EntryInv
<1>7. todo = <<v>> BY <1>1
<1> HIDE DEF v, T
<1>8. todo \in Seq(T) /\ \A i \in DOMAIN todo : EntryInv(g, DOMAIN size, nodes, todo[i])
  BY <1>4, <1>6, <1>7
<1>9. SizeInv(g, size)
  <2>1. [r \in RoundsOf(g) |-> [p \in Players |-> 0]] \in SizesOf(g) BY DEF SizesOf
  <2>2. size \in [{0} -> SizesOf(g)] BY <1>1, <2>1
  <2>3. {0} = 0 .. 1 - 1 OBVIOUS
  <2> QED BY <2>2, <2>3 DEF SizeInv
<1>10. nodes \in Seq(NodeType(g)) /\ DOMAIN nodes = {} BY <1>1
<1>11. imm \in [ChanceNodes -> [Players -> Nat]]
  <2>1. ChanceNodes = {} BY <1>10 DEF ChanceNodes
  <2>2. imm = [x \in {} |-> <<>>] BY <1>1
  <2> QED BY <2>1, <2>2
<1> QED BY <1>1, <1>8, <1>9, <1>10, <1>11 DEF TreeInv, T

LEMMA BuildInv ==
  ASSUME TreeInv, Build PROVE TreeInv'
BY SubgameStep, ChanceStep, CloseStep, LeafStep, ChoiceStep DEF Build

LEMMA SameInv ==
  ASSUME TreeInv, UNCHANGED vars PROVE TreeInv'
<1>1. game' = game /\ todo' = todo /\ nodes' = nodes /\ size' = size /\ imm' = imm BY DEF vars
<1>2. ChanceNodes' = ChanceNodes BY <1>1 DEF ChanceNodes
<1> QED BY <1>1, <1>2 DEF TreeInv

(* The inductive invariant of the construction. *)
THEOREM Invariant == Spec => []TreeInv
<1>1. Init => TreeInv BY InitInv
<1>2. TreeInv /\ [Next]_vars => TreeInv' BY BuildInv, SameInv DEF Next, Done
<1> QED BY <1>1, <1>2, PTL DEF Spec

LEMMA TypeFollows ==
  ASSUME TreeInv PROVE TypeOK
<1>1. /\ game \in Games /\ nodes \in Seq(NodeType(game))
      /\ todo \in Seq(VisitType(game) \cup CloseType)
      /\ SizeInv(game, size) /\ imm \in [ChanceNodes -> [Players -> Nat]]
      /\ \A i \in DOMAIN nodes : NodeInv(game, size, nodes[i])
      /\ \A i \in DOMAIN todo : EntryInv(game, DOMAIN size, nodes, todo[i])
  BY DEF TreeInv
<1>2. \A i : IsChance(nodes, i) <=> i \in ChanceNodes BY DEF IsChance, ChanceNodes
<1>3. ASSUME NEW i \in DOMAIN todo
      PROVE  IF todo[i].kind = "close" THEN todo[i].node \in ChanceNodes
             ELSE /\ todo[i].split \in -1 .. game.numRounds - 1
                  /\ todo[i].last \in -1 .. game.numRounds - 1
                  /\ todo[i].tree \in Trees /\ todo[i].chance \in ChanceNodes \cup {0}
                  /\ todo[i].parent \in NodeIds /\ todo[i].hand.round \in Rounds
  <2>1. /\ todo[i] \in VisitType(game) \cup CloseType
        /\ EntryInv(game, DOMAIN size, nodes, todo[i])
    BY <1>1, <1>3
  <2>2. CASE todo[i].kind = "close" BY <1>2, <2>1, <2>2 DEF EntryInv
  <2>3. CASE todo[i].kind # "close"
    <3>1. todo[i] \in VisitType(game) BY <2>1, <2>3 DEF CloseType
    <3>2. todo[i].kind = "visit" BY <3>1 DEF VisitType
    <3>3. PlaceInv(DOMAIN size, nodes, todo[i]) BY <2>1, <3>2 DEF EntryInv
    <3>4. todo[i].tree \in Trees /\ todo[i].parent \in NodeIds
      BY <3>3 DEF PlaceInv, Trees, NodeIds
    <3>5. todo[i].chance \in ChanceNodes \cup {0} BY <1>2, <3>3 DEF PlaceInv
    <3>6. todo[i].split \in -1 .. game.numRounds - 1 /\ todo[i].last \in -1 .. game.numRounds - 1
      BY <3>1 DEF VisitType
    <3>7. todo[i].hand.round \in Rounds BY <3>1 DEF VisitType, HandType, Rounds
    <3> QED BY <2>3, <3>4, <3>5, <3>6, <3>7
  <2> QED BY <2>2, <2>3
<1>4. \A i \in DOMAIN nodes : nodes[i].type \in {"choice", "chance", "leaf", "subgame"}
  <2>1. \A i \in DOMAIN nodes : nodes[i] \in NodeType(game) BY <1>1
  <2> QED BY <2>1 DEF NodeType
<1>5. SizesOf(game) = Sizes BY DEF SizesOf, Sizes, Rounds
<1>6. ASSUME NEW i \in ChanceNodes PROVE nodes[i].u.bettingTreeSize \in Sizes
  <2>1. i \in DOMAIN nodes /\ nodes[i].type = "chance" BY DEF ChanceNodes
  <2>2. nodes[i].u \in ChanceU(game) BY <1>1, <2>1 DEF NodeInv
  <2> QED BY <1>5, <2>2 DEF ChanceU
<1>7. size \in [Trees -> Sizes] BY <1>1, <1>5 DEF SizeInv, Trees
<1> QED BY <1>1, <1>3, <1>4, <1>6, <1>7 DEF TypeOK

LEMMA RulesFollow ==
  ASSUME TreeInv PROVE RulesKept
<1> SUFFICES ASSUME NEW i \in DOMAIN todo, todo[i].kind = "visit"
             PROVE  LET h == todo[i].hand  parent == todo[i].parent
                    IN /\ Kept(h)
                       /\ (parent \in ChoiceNodes /\ LastPlayed(h, parent).type = "raise") =>
                            h.maxSpent > nodes[parent].hand.maxSpent
  BY DEF RulesKept
<1>1. HandInv(game, todo[i].hand) /\ RaiseInv(nodes, todo[i])
  <2>1. EntryInv(game, DOMAIN size, nodes, todo[i]) BY DEF TreeInv
  <2> QED BY <2>1 DEF EntryInv
<1>2. GameOK(game) BY AllGamesOK DEF TreeInv
<1>3. Kept(todo[i].hand) BY <1>1, <1>2, KeptHolds
<1> QED BY <1>1, <1>3 DEF RaiseInv, ChoiceNodes, LastPlayed

(* Indices and sizes are in range, every entry of the stack of visits has  *)
(* the tree, the parent and the chance node that getBettingTree_r uses.    *)
THEOREM TypeCorrect == Spec => []TypeOK
BY Invariant, TypeFollows, PTL

(* The walks never touch the tree: what is said of its construction holds  *)
(* while vanilla_r, computeBR_r and reorder_r run, too.                    *)
THEOREM WalksKeepTree == WalkSpec => Spec
<1>1. WalkInit => Init BY DEF WalkInit
<1>2. [WalkNext]_allVars => [Next]_vars
  BY DEF WalkNext, allVars, Next, BuildTree, SetUpTrunk, StorageStep, SetUpSubgame, Begin,
         WalkEnd, WalkChoice, WalkChance, NextBoard, LeaveChance, Finish, Stop
<1> QED BY <1>1, <1>2, PTL DEF WalkSpec, Spec

(* No sequence of actions that raiseIsValid and isValidAction allow brings *)
(* a hand of the tree out of the rules of game.c.                          *)
THEOREM HandsKeepRules == WalkSpec => []RulesKept
BY WalksKeepTree, Invariant, RulesFollow, PTL

-----------------------------------------------------------------------------
(* Tiles and what is below                                                 *)

(* Tile, for given nodes and with the starts as an index less some base.   *)
Fills(len, from, ids, n) ==
  /\ \A i \in ids : 0 <= from[i] /\ from[i] + len[i] <= n
  /\ \A i, j \in ids : i < j => from[i] + len[i] <= from[j]
  /\ \A e \in 0 .. n - 1 : \E i \in ids : from[i] <= e /\ e < from[i] + len[i]

(* A range of m at the end. *)
Longer(len, from, ids, k, n, m, len2, from2) ==
  /\ ids \subseteq Nat /\ k \in Nat /\ n \in Nat /\ m \in Nat
  /\ \A i \in ids : /\ i < k /\ len[i] \in Nat /\ from[i] \in Int
                     /\ len2[i] = len[i] /\ from2[i] = from[i]
  /\ len2[k] = m /\ from2[k] = n

LEMMA FillsMore ==
  ASSUME NEW len, NEW from, NEW ids, NEW k, NEW n, NEW m, NEW len2, NEW from2,
         Longer(len, from, ids, k, n, m, len2, from2), Fills(len, from, ids, n)
  PROVE  Fills(len2, from2, ids \cup {k}, n + m)
<1>0. /\ ids \subseteq Nat /\ k \in Nat /\ n \in Nat /\ m \in Nat
      /\ \A i \in ids : /\ i < k /\ len[i] \in Nat /\ from[i] \in Int
                         /\ len2[i] = len[i] /\ from2[i] = from[i]
      /\ len2[k] = m /\ from2[k] = n
  BY DEF Longer
<1>1. /\ \A i \in ids : 0 <= from[i] /\ from[i] + len[i] <= n
      /\ \A i, j \in ids : i < j => from[i] + len[i] <= from[j]
      /\ \A e \in 0 .. n - 1 : \E i \in ids : from[i] <= e /\ e < from[i] + len[i]
  BY DEF Fills
<1>2. \A i \in ids : i \in Nat /\ i # k BY <1>0
<1>3. ASSUME NEW i \in ids \cup {k} PROVE 0 <= from2[i] /\ from2[i] + len2[i] <= n + m
  BY <1>0, <1>1, <1>3
<1>4. ASSUME NEW i \in ids \cup {k}, NEW j \in ids \cup {k}, i < j
      PROVE  from2[i] + len2[i] <= from2[j]
  <2>1. i \in ids BY <1>0, <1>2, <1>4
  <2>2. CASE j = k BY <1>0, <1>1, <2>1, <2>2
  <2>3. CASE j \in ids BY <1>0, <1>1, <1>4, <2>1, <2>3
  <2> QED BY <2>2, <2>3
<1>5. ASSUME NEW e \in 0 .. (n + m) - 1
      PROVE  \E i \in ids \cup {k} : from2[i] <= e /\ e < from2[i] + len2[i]
  <2>1. CASE e < n
    <3>1. PICK i \in ids : from[i] <= e /\ e < from[i] + len[i] BY <1>0, <1>1, <2>1
    <3> QED BY <1>0, <3>1
  <2>2. CASE ~(e < n) BY <1>0, <2>2
  <2> QED BY <2>1, <2>2
<1> QED BY <1>3, <1>4, <1>5 DEF Fills

LEMMA FillsNothing ==
  ASSUME NEW len, NEW from PROVE Fills(len, from, {}, 0)
BY DEF Fills

LEMMA FillsSame ==
  ASSUME NEW ids, NEW n, NEW len, NEW from, NEW len2, NEW from2,
         \A i \in ids : len2[i] = len[i] /\ from2[i] = from[i], Fills(len, from, ids, n)
  PROVE  Fills(len2, from2, ids, n)
BY DEF Fills

LEMMA TileIsFills ==
  ASSUME NEW ids, NEW from, NEW n, NEW len, \A i \in ids : len[i] = nodes[i].u.numChoices,
         Fills(len, from, ids, n)
  PROVE  Tile(ids, from, n)
BY DEF Fills, Tile

LEMMA Smallest ==
  ASSUME NEW S \in SUBSET Nat, S # {}
  PROVE  \E m \in S : \A n \in S : m <= n
<1>1. PICK m \in S : \A n \in S : <<n, m>> \notin OpToRel(<, Nat)
  BY WFMin, NatLessThanWellFounded
<1>2. \A n \in S : ~(n < m) BY <1>1 DEF OpToRel
<1> QED BY <1>2

(* The numbers up to N of which something is shown, as a set.              *)
LEMMA Induction ==
  ASSUME NEW N \in Nat, NEW S, 0 \in S, \A n \in 0 .. N - 1 : n \in S => n + 1 \in S
  PROVE  0 .. N \subseteq S
<1> SUFFICES ASSUME NEW k \in 0 .. N, k \notin S PROVE FALSE OBVIOUS
<1> DEFINE T == (0 .. N) \ S
<1>1. PICK m \in T : \A n \in T : m <= n
  <2>1. T \in SUBSET Nat /\ T # {} OBVIOUS
  <2> QED BY <2>1, Smallest
<1>2. m # 0 OBVIOUS
<1>3. m - 1 \in 0 .. N - 1 /\ m - 1 < m BY <1>2
<1>4. m - 1 \in S BY <1>1, <1>3
<1>5. (m - 1) + 1 \in S BY <1>3, <1>4
<1> QED BY <1>5

(* A recursive function from each number to the next.                      *)
Recurs(f, N, T, b, st) == /\ f \in [0 .. N -> T] /\ f[0] = b
                          /\ \A n \in 1 .. N : f[n] = st[<<n, f[n - 1]>>]

LEMMA Recursion ==
  ASSUME NEW N \in Nat, NEW T, NEW b \in T, NEW st \in [(1 .. N) \X T -> T]
  PROVE  \E f : Recurs(f, N, T, b, st)
<1> DEFINE Known(n) == \E f \in [0 .. n -> T] :
                         f[0] = b /\ \A k \in 1 .. n : f[k] = st[<<k, f[k - 1]>>]
           E == {n \in 0 .. N : Known(n)}
<1>1. 0 \in E
  <2> DEFINE g == [k \in 0 .. 0 |-> b]
  <2>1. g \in [0 .. 0 -> T] /\ g[0] = b OBVIOUS
  <2> HIDE DEF g
  <2>2. Known(0) BY <2>1
  <2> QED BY <2>2
<1>2. ASSUME NEW n \in 0 .. N - 1, n \in E PROVE n + 1 \in E
  <2>1. PICK f \in [0 .. n -> T] : f[0] = b /\ \A k \in 1 .. n : f[k] = st[<<k, f[k - 1]>>]
    BY <1>2
  <2>2. n + 1 \in 1 .. N /\ n \in 0 .. n /\ (n + 1) - 1 = n /\ n + 1 \notin 0 .. n OBVIOUS
  <2> DEFINE x == st[<<n + 1, f[n]>>]
             g == [k \in 0 .. n + 1 |-> IF k = n + 1 THEN x ELSE f[k]]
  <2>3. x \in T BY <2>1, <2>2
  <2> HIDE DEF x
  <2>4. \A k \in 0 .. n + 1 : k = n + 1 \/ k \in 0 .. n OBVIOUS
  <2>5. g \in [0 .. n + 1 -> T] BY <2>1, <2>3, <2>4
  <2>6. g[n + 1] = x /\ \A k \in 0 .. n : g[k] = f[k] OBVIOUS
  <2> HIDE DEF g
  <2>7. g[0] = b BY <2>1, <2>6
  <2>8. ASSUME NEW k \in 1 .. n + 1 PROVE g[k] = st[<<k, g[k - 1]>>]
    <3>1. CASE k = n + 1 BY <2>2, <2>6, <3>1 DEF x
    <3>2. CASE k # n + 1
      <4>1. k \in 1 .. n /\ k \in 0 .. n /\ k - 1 \in 0 .. n BY <3>2
      <4> QED BY <2>1, <2>6, <4>1
    <3> QED BY <3>1, <3>2
  <2>9. Known(n + 1) BY <2>5, <2>7, <2>8
  <2> QED BY <2>2, <2>9
<1> HIDE DEF E
<1>3. 0 .. N \subseteq E BY <1>1, <1>2, Induction
<1>4. N \in E BY <1>3
<1> QED BY <1>4 DEF E, Recurs

(* If what is made behind c up to e has parents from c on, and what comes  *)
(* after that has not, these nodes are below c.                            *)
Enclosed(ns, c, e) ==
  /\ \A i \in DOMAIN ns : c < i /\ i <= e => ns[i].parent >= c
  /\ \A i \in DOMAIN ns : e < i => ns[i].parent < c \/ e < ns[i].parent

LEMMA BelowIs ==
  ASSUME NEW N \in Nat, N = Len(nodes), DOMAIN nodes = 1 .. N,
         \A i \in DOMAIN nodes : nodes[i].parent \in 0 .. i - 1,
         NEW c \in 1 .. N, NEW e \in c .. N, Enclosed(nodes, c, e)
  PROVE  Below(c) = {i \in DOMAIN nodes : c < i /\ i <= e}
<1> DEFINE P(n) == nodes[n].parent
           Step(g) == [n \in 0 .. Len(nodes) |->
                         IF n = 0 THEN {}
                         ELSE LET before == g[n - 1]
                              IN IF nodes[n].parent \in {c} \cup before
                                 THEN before \cup {n} ELSE before]
           h == CHOOSE g : g = Step(g)
           T == SUBSET (1 .. N)
           Next1(n, S) == IF P(n) \in {c} \cup S THEN S \cup {n} ELSE S
<1>1. \E g : g = Step(g)
  <2> DEFINE st == [x \in (1 .. N) \X T |-> Next1(x[1], x[2])]
  <2>1. \A n \in 1 .. N, S \in T : Next1(n, S) \in T OBVIOUS
  <2>2. st \in [(1 .. N) \X T -> T]
    <3> HIDE DEF Next1, T
    <3> QED BY <2>1
  <2>3. \A n \in 1 .. N, S \in T : st[<<n, S>>] = Next1(n, S)
    <3> HIDE DEF Next1, T
    <3> QED OBVIOUS
  <2> HIDE DEF st
  <2>4. {} \in T OBVIOUS
  <2> HIDE DEF T
  <2>5. PICK f : Recurs(f, N, T, {}, st) BY <2>2, <2>4, Recursion
  <2>6. /\ f[0] = {} /\ \A n \in 0 .. N : f[n] \in T
        /\ \A n \in 1 .. N : f[n] = st[<<n, f[n - 1]>>]
        /\ f = [n \in 0 .. N |-> f[n]]
    BY <2>5 DEF Recurs
  <2>7. ASSUME NEW n \in 0 .. N PROVE f[n] = Step(f)[n]
    <3>1. CASE n = 0 BY <2>6, <3>1
    <3>2. CASE n # 0
      <4>1. n \in 1 .. N /\ n - 1 \in 0 .. N BY <3>2
      <4>2. f[n] = Next1(n, f[n - 1])
        <5>1. f[n - 1] \in T /\ f[n] = st[<<n, f[n - 1]>>] BY <2>6, <4>1
        <5> HIDE DEF Next1
        <5> QED BY <2>3, <4>1, <5>1
      <4> QED BY <3>2, <4>2
    <3> QED BY <3>1, <3>2
  <2>8. Step(f) = [n \in 0 .. N |-> Step(f)[n]] OBVIOUS
  <2> HIDE DEF Step
  <2>9. f = Step(f) BY <2>6, <2>7, <2>8
  <2> QED BY <2>9
<1>2. h = Step(h) BY <1>1
<1>3. Below(c) = h[N] BY Zenon DEF Below
<1> HIDE DEF h
<1>4. h[0] = {} /\ \A n \in 1 .. N : h[n] = Next1(n, h[n - 1])
  <2>1. \A g : Step(g)[0] = {} OBVIOUS
  <2>2. \A g : \A n \in 1 .. N : Step(g)[n] = Next1(n, g[n - 1])
    <3>1. \A n \in 1 .. N : n \in 0 .. N /\ n # 0 OBVIOUS
    <3> QED BY <3>1
  <2> HIDE DEF Step, Next1
  <2> QED BY <1>2, <2>1, <2>2
<1> DEFINE B(n) == {i \in 1 .. N : c < i /\ i <= e /\ i <= n}
           E == {n \in 0 .. N : h[n] = B(n)}
<1>5. 0 \in E BY <1>4
<1>6. ASSUME NEW n \in 0 .. N - 1, n \in E PROVE n + 1 \in E
  <2> DEFINE m == n + 1
  <2>1. m \in 1 .. N /\ m \in DOMAIN nodes /\ m - 1 = n OBVIOUS
  <2>2. h[m] = Next1(m, B(n)) BY <1>4, <1>6, <2>1
  <2>3. P(m) \in 0 .. m - 1 BY <2>1
  <2>4. (c < m /\ m <= e) => P(m) >= c BY <2>1 DEF Enclosed
  <2>5. e < m => P(m) < c \/ e < P(m) BY <2>1 DEF Enclosed
  <2> HIDE DEF P
  <2>6. P(m) \in {c} \cup B(n) <=> c < m /\ m <= e BY <2>1, <2>3, <2>4, <2>5
  <2>7. B(m) = IF c < m /\ m <= e THEN B(n) \cup {m} ELSE B(n) BY <2>1
  <2> HIDE DEF B
  <2>8. h[m] = B(m) BY <2>2, <2>6, <2>7
  <2> QED BY <2>1, <2>8
<1> HIDE DEF E
<1>7. 0 .. N \subseteq E BY <1>5, <1>6, Induction
<1>8. h[N] = B(N) BY <1>7 DEF E
<1>9. B(N) = {i \in DOMAIN nodes : c < i /\ i <= e} OBVIOUS
<1> QED BY <1>3, <1>8, <1>9

-----------------------------------------------------------------------------
(* The stack of visits and open chance nodes                               *)

(* Nodes stay where they are; only chance nodes that are closed change.    *)
Keeps(ns, ns2) ==
  /\ Extends(ns, ns2)
  /\ \A i \in DOMAIN ns : /\ ns2[i].tree = ns[i].tree /\ ns2[i].parent = ns[i].parent
                          /\ ns2[i].chance = ns[i].chance
                          /\ ns2[i].type # "chance" => ns2[i].u = ns[i].u

(* What holds of e above f in the stack: what is visited before a chance   *)
(* node is closed is below it, what comes after that is not; and of the    *)
(* open chance nodes of a tree the visit's own has the latest round.       *)
Over(ns, e, f) ==
  /\ (e.kind = "close" /\ f.kind = "close") => e.node > f.node
  /\ (e.kind = "close" /\ f.kind = "visit") => f.parent < e.node
  /\ (e.kind = "visit" /\ f.kind = "close") =>
       /\ e.parent >= f.node
       /\ e.tree = ns[f.node].tree =>
            /\ e.last >= ns[f.node].round
            /\ e.last = ns[f.node].round => e.chance = f.node

Ordered(ns, td) == \A j, k \in DOMAIN td : j < k => Over(ns, td[j], td[k])

(* A visit's chance node is still open, of the visit's tree, and deals the *)
(* last round that has been dealt.                                         *)
WillClose(td) ==
  \A j \in DOMAIN td : (td[j].kind = "visit" /\ td[j].last # -1) =>
    \E k \in DOMAIN td : j < k /\ td[k].kind = "close" /\ td[k].node = td[j].chance

LastDealt(ns, e) ==
  (e.kind = "visit" /\ e.last # -1) =>
    ns[e.chance].round = e.last /\ ns[e.chance].tree = e.tree /\ e.hand.round >= e.last

StackInv(ns, td) ==
  /\ Ordered(ns, td) /\ WillClose(td)
  /\ \A k \in DOMAIN td : LastDealt(ns, td[k])

(* The nodes that an entry speaks of are there. *)
Refers(ns, e) ==
  /\ e.kind = "close" => e.node \in DOMAIN ns
  /\ (e.kind = "visit" /\ e.last # -1) => e.chance \in DOMAIN ns

(* The top of td is replaced by `new`. *)
Stacked(td, new, td2) ==
  /\ Len(td) \in Nat \ {0} /\ Len(new) \in Nat
  /\ DOMAIN td = 1 .. Len(td) /\ DOMAIN new = 1 .. Len(new)
  /\ DOMAIN td2 = 1 .. Len(new) + Len(td) - 1
  /\ \A i \in 1 .. Len(new) : td2[i] = new[i]
  /\ \A k \in 2 .. Len(td) : td2[Len(new) + k - 1] = td[k]

LEMMA StackedFacts ==
  ASSUME NEW T, NEW td \in Seq(T), td # <<>>, NEW new \in Seq(T), NEW td2, td2 = new \o Tail(td)
  PROVE  Stacked(td, new, td2) /\ td[1] = Head(td)
<1>1. /\ Tail(td) \in Seq(T) /\ Len(Tail(td)) = Len(td) - 1 /\ Len(td) \in Nat \ {0}
      /\ \A i \in 1 .. Len(Tail(td)) : Tail(td)[i] = td[i + 1]
  BY HeadTailProperties, EmptySeq
<1> DEFINE rest == Tail(td)
<1>2. /\ td2 \in Seq(T) /\ Len(td2) = Len(new) + Len(rest)
      /\ \A i \in 1 .. Len(new) + Len(rest) :
           td2[i] = IF i <= Len(new) THEN new[i] ELSE rest[i - Len(new)]
  BY <1>1, ConcatProperties
<1>3. Len(new) \in Nat /\ DOMAIN new = 1 .. Len(new) /\ DOMAIN td = 1 .. Len(td) OBVIOUS
<1>4. Len(rest) = Len(td) - 1 /\ \A i \in 1 .. Len(td) - 1 : rest[i] = td[i + 1] BY <1>1
<1> HIDE DEF rest
<1>5. DOMAIN td2 = 1 .. Len(new) + Len(td) - 1 BY <1>1, <1>2, <1>3, <1>4
<1>6. \A i \in 1 .. Len(new) : td2[i] = new[i] BY <1>1, <1>2, <1>3, <1>4
<1>7. ASSUME NEW k \in 2 .. Len(td) PROVE td2[Len(new) + k - 1] = td[k]
  <2> DEFINE i == Len(new) + k - 1
  <2>1. /\ i \in 1 .. Len(new) + Len(rest) /\ ~(i <= Len(new)) /\ i - Len(new) = k - 1
        /\ k - 1 \in 1 .. Len(td) - 1 /\ (k - 1) + 1 = k
    BY <1>1, <1>3, <1>4
  <2> HIDE DEF i
  <2>2. td2[i] = rest[k - 1] BY <1>2, <2>1
  <2>3. td2[i] = td[k] BY <1>4, <2>1, <2>2
  <2> QED BY <2>3 DEF i
<1> QED BY <1>1, <1>3, <1>5, <1>6, <1>7 DEF Stacked

(* An entry of the new stack is one of `new` or one that was below the top. *)
LEMMA Position ==
  ASSUME NEW td, NEW new, NEW td2, Stacked(td, new, td2), NEW i \in DOMAIN td2
  PROVE  \/ i \in DOMAIN new /\ td2[i] = new[i]
         \/ /\ i > Len(new) /\ i - Len(new) + 1 \in 2 .. Len(td) /\ i - Len(new) + 1 \in DOMAIN td
            /\ td2[i] = td[i - Len(new) + 1]
<1>1. /\ Len(td) \in Nat \ {0} /\ Len(new) \in Nat
      /\ DOMAIN td = 1 .. Len(td) /\ DOMAIN new = 1 .. Len(new)
      /\ DOMAIN td2 = 1 .. Len(new) + Len(td) - 1
      /\ \A j \in 1 .. Len(new) : td2[j] = new[j]
      /\ \A k \in 2 .. Len(td) : td2[Len(new) + k - 1] = td[k]
  BY DEF Stacked
<1>2. CASE i <= Len(new) BY <1>1, <1>2
<1>3. CASE ~(i <= Len(new))
  <2> DEFINE k == i - Len(new) + 1
  <2>1. k \in 2 .. Len(td) /\ Len(new) + k - 1 = i BY <1>1, <1>3
  <2> HIDE DEF k
  <2>2. td2[i] = td[k] BY <1>1, <2>1
  <2>3. k \in DOMAIN td BY <1>1, <2>1
  <2> QED BY <1>1, <1>3, <2>1, <2>2, <2>3 DEF k
<1> QED BY <1>2, <1>3

LEMMA OverStays ==
  ASSUME NEW ns, NEW ns2, Keeps(ns, ns2), NEW e, NEW f, Refers(ns, f), Over(ns, e, f)
  PROVE  Over(ns2, e, f)
<1>1. f.kind = "close" => ns2[f.node].tree = ns[f.node].tree /\ ns2[f.node].round = ns[f.node].round
  BY DEF Keeps, Extends, Refers
<1> QED BY <1>1 DEF Over

(* What the entries on top have to be. *)
OnTop(ns, td, new) ==
  /\ Ordered(ns, new)
  /\ \A i \in DOMAIN new : \A k \in 2 .. Len(td) : Over(ns, new[i], td[k])
  /\ \A i \in DOMAIN new : LastDealt(ns, new[i])
  /\ \A i \in DOMAIN new : (new[i].kind = "visit" /\ new[i].last # -1) =>
       \/ \E k \in DOMAIN new : i < k /\ new[k].kind = "close" /\ new[k].node = new[i].chance
       \/ \E k \in 2 .. Len(td) : td[k].kind = "close" /\ td[k].node = new[i].chance

LEMMA OrderedNext ==
  ASSUME NEW ns, NEW ns2, Keeps(ns, ns2), NEW td, NEW new, NEW td2, Stacked(td, new, td2),
         Ordered(ns, td), \A k \in DOMAIN td : Refers(ns, td[k]), OnTop(ns2, td, new)
  PROVE  Ordered(ns2, td2)
<1> SUFFICES ASSUME NEW i \in DOMAIN td2, NEW j \in DOMAIN td2, i < j
             PROVE  Over(ns2, td2[i], td2[j])
  BY DEF Ordered
<1> DEFINE a == i - Len(new) + 1
           b == j - Len(new) + 1
<1>0. Len(new) \in Nat /\ DOMAIN new = 1 .. Len(new) /\ i \in Int /\ j \in Int
  BY DEF Stacked
<1>1. \/ i \in DOMAIN new /\ td2[i] = new[i]
      \/ i > Len(new) /\ a \in DOMAIN td /\ td2[i] = td[a]
  BY Position
<1>2. \/ j \in DOMAIN new /\ td2[j] = new[j]
      \/ j > Len(new) /\ b \in 2 .. Len(td) /\ b \in DOMAIN td /\ td2[j] = td[b]
  BY Position
<1>3. a < b BY <1>0
<1>4. i > Len(new) => j \notin DOMAIN new BY <1>0
<1> HIDE DEF a, b
<1>5. CASE i \in DOMAIN new /\ td2[i] = new[i] /\ j \in DOMAIN new /\ td2[j] = new[j]
  BY <1>5 DEF OnTop, Ordered
<1>6. CASE i \in DOMAIN new /\ td2[i] = new[i] /\ b \in 2 .. Len(td) /\ td2[j] = td[b]
  BY <1>6 DEF OnTop
<1>7. CASE a \in DOMAIN td /\ td2[i] = td[a] /\ b \in DOMAIN td /\ td2[j] = td[b]
  <2>1. Over(ns, td[a], td[b]) BY <1>3, <1>7 DEF Ordered
  <2>2. Over(ns2, td[a], td[b]) BY <1>7, <2>1, OverStays
  <2> QED BY <1>7, <2>2
<1> QED BY <1>1, <1>2, <1>4, <1>5, <1>6, <1>7

LEMMA WillCloseNext ==
  ASSUME NEW ns, NEW td, NEW new, NEW td2, Stacked(td, new, td2),
         WillClose(td), OnTop(ns, td, new)
  PROVE  WillClose(td2)
<1> SUFFICES ASSUME NEW i \in DOMAIN td2, td2[i].kind = "visit", td2[i].last # -1
             PROVE  \E k \in DOMAIN td2 : i < k /\ td2[k].kind = "close" /\ td2[k].node = td2[i].chance
  BY DEF WillClose
<1>1. /\ Len(td) \in Nat \ {0} /\ Len(new) \in Nat
      /\ DOMAIN td = 1 .. Len(td) /\ DOMAIN new = 1 .. Len(new)
      /\ DOMAIN td2 = 1 .. Len(new) + Len(td) - 1
      /\ \A j \in 1 .. Len(new) : td2[j] = new[j]
      /\ \A k \in 2 .. Len(td) : td2[Len(new) + k - 1] = td[k]
  BY DEF Stacked
<1>2. CASE i \in DOMAIN new /\ td2[i] = new[i]
  <2>1. CASE \E k \in DOMAIN new : i < k /\ new[k].kind = "close" /\ new[k].node = new[i].chance
    <3>1. PICK k \in DOMAIN new : i < k /\ new[k].kind = "close" /\ new[k].node = new[i].chance
      BY <2>1
    <3>2. k \in DOMAIN td2 /\ td2[k] = new[k] BY <1>1
    <3> QED BY <1>2, <3>1, <3>2
  <2>2. CASE \E k \in 2 .. Len(td) : td[k].kind = "close" /\ td[k].node = new[i].chance
    <3>1. PICK k \in 2 .. Len(td) : td[k].kind = "close" /\ td[k].node = new[i].chance
      BY <2>2
    <3> DEFINE m == Len(new) + k - 1
    <3>2. m \in DOMAIN td2 /\ i < m BY <1>1, <1>2
    <3>3. td2[m] = td[k] BY <1>1
    <3> HIDE DEF m
    <3> QED BY <1>2, <3>1, <3>2, <3>3
  <2> QED BY <1>2, <2>1, <2>2 DEF OnTop
<1>3. CASE ~(i \in DOMAIN new /\ td2[i] = new[i])
  <2> DEFINE a == i - Len(new) + 1
  <2>1. a \in 2 .. Len(td) /\ a \in DOMAIN td /\ td2[i] = td[a] BY <1>3, Position
  <2> HIDE DEF a
  <2>2. PICK k \in DOMAIN td : a < k /\ td[k].kind = "close" /\ td[k].node = td[a].chance
    BY <2>1 DEF WillClose
  <2> DEFINE m == Len(new) + k - 1
  <2>3. m \in DOMAIN td2 /\ i < m /\ k \in 2 .. Len(td) BY <1>1, <2>1, <2>2 DEF a
  <2>4. td2[m] = td[k] BY <1>1, <2>3
  <2> HIDE DEF m
  <2> QED BY <2>1, <2>2, <2>3, <2>4
<1> QED BY <1>2, <1>3

LEMMA StackNext ==
  ASSUME NEW ns, NEW ns2, Keeps(ns, ns2), NEW td, NEW new, NEW td2, Stacked(td, new, td2),
         StackInv(ns, td), \A k \in DOMAIN td : Refers(ns, td[k]), OnTop(ns2, td, new)
  PROVE  StackInv(ns2, td2)
<1>1. Ordered(ns2, td2) BY OrderedNext DEF StackInv
<1>2. WillClose(td2) BY WillCloseNext DEF StackInv
<1>3. ASSUME NEW i \in DOMAIN td2 PROVE LastDealt(ns2, td2[i])
  <2>1. CASE i \in DOMAIN new /\ td2[i] = new[i] BY <2>1 DEF OnTop
  <2>2. CASE ~(i \in DOMAIN new /\ td2[i] = new[i])
    <3>1. PICK a \in DOMAIN td : td2[i] = td[a] BY <2>2, Position
    <3>2. LastDealt(ns, td[a]) /\ Refers(ns, td[a]) BY DEF StackInv
    <3>3. LastDealt(ns2, td[a]) BY <3>2 DEF LastDealt, Refers, Keeps, Extends
    <3> QED BY <3>1, <3>3
  <2> QED BY <2>1, <2>2
<1> QED BY <1>1, <1>2, <1>3 DEF StackInv

-----------------------------------------------------------------------------
(* Ranges of entries                                                       *)

ChoiceIds(ns)    == {i \in DOMAIN ns : ns[i].type = "choice"}
Lens(ns)       == [i \in ChoiceIds(ns) |-> ns[i].u.numChoices]
ByIndex(ns, b) == [i \in ChoiceIds(ns) |-> ns[i].u.index - b]
ByImm(ns)      == [i \in ChoiceIds(ns) |-> ns[i].u.immIndex]

(* The choices of a player in a round and tree, made after c and up to e;  *)
(* those whose entries are in the block of c.                              *)
IsOf(n, t, p, r) == n.tree = t /\ n.round = r /\ n.u.playerActing = p
Span(ns, t, c, e, p, r) == {i \in ChoiceIds(ns) : c < i /\ i <= e /\ IsOf(ns[i], t, p, r)}
InBlock(ns, c, p) == {i \in ChoiceIds(ns) : ns[i].chance = c /\ ns[i].u.playerActing = p}

SpanFills(ns, b, t, c, e, p, r, n) == Fills(Lens(ns), ByIndex(ns, b), Span(ns, t, c, e, p, r), n)
BlockFills(ns, c, p, n) == Fills(Lens(ns), ByImm(ns), InBlock(ns, c, p), n)

(* Parents and chance nodes are made first, a choice has its chance node's *)
(* round and tree.                                                         *)
ShapeInv(ns) ==
  \A i \in DOMAIN ns :
    /\ ns[i].parent \in 0 .. i - 1
    /\ ns[i].type = "choice" =>
         /\ ns[i].u \in ChoiceU /\ IsChance(ns, ns[i].chance)
         /\ ns[i].round = ns[ns[i].chance].round /\ ns[i].tree = ns[ns[i].chance].tree

LEMMA ChoicesAdded ==
  ASSUME NEW T, NEW ns, NEW n, NEW ns2, Added(T, ns, n, ns2)
  PROVE  /\ ChoiceIds(ns2) = IF n.type = "choice" THEN ChoiceIds(ns) \cup {Len(ns) + 1} ELSE ChoiceIds(ns)
         /\ \A i \in ChoiceIds(ns) : ns2[i] = ns[i] /\ i \in 1 .. Len(ns) /\ i \in ChoiceIds(ns2)
         /\ Len(ns) \in Nat /\ Len(ns2) = Len(ns) + 1 /\ ns2[Len(ns) + 1] = n
         /\ Len(ns) + 1 \notin ChoiceIds(ns)
BY DEF ChoiceIds, Added, Extends

(* What is entered at the end of a range that grows. *)
Entered(n, t, p, r) == IF n.type = "choice" /\ IsOf(n, t, p, r) THEN n.u.numChoices ELSE 0

LEMMA SpanGrows ==
  ASSUME NEW T, NEW ns, NEW n, NEW ns2, Added(T, ns, n, ns2), ShapeInv(ns),
         n.type = "choice" => n.u \in ChoiceU,
         NEW t, NEW p, NEW r, NEW b \in Int, NEW c \in 0 .. Len(ns), NEW x \in Nat,
         SpanFills(ns, b, t, c, Len(ns), p, r, x),
         (n.type = "choice" /\ IsOf(n, t, p, r)) => n.u.index - b = x
  PROVE  SpanFills(ns2, b, t, c, Len(ns2), p, r, x + Entered(n, t, p, r))
<1> DEFINE k == Len(ns) + 1
           ids == Span(ns, t, c, Len(ns), p, r)
           ids2 == Span(ns2, t, c, Len(ns2), p, r)
<1>1. /\ ChoiceIds(ns2) = IF n.type = "choice" THEN ChoiceIds(ns) \cup {k} ELSE ChoiceIds(ns)
      /\ \A i \in ChoiceIds(ns) : ns2[i] = ns[i] /\ i \in 1 .. Len(ns) /\ i \in ChoiceIds(ns2)
      /\ Len(ns) \in Nat /\ Len(ns2) = k /\ ns2[k] = n /\ k \notin ChoiceIds(ns)
  BY ChoicesAdded
<1>2. \A i \in ids : i \in ChoiceIds(ns) /\ i < k /\ i \in Nat BY <1>1 DEF Span
<1>3. \A i \in ChoiceIds(ns) : ns[i].u.numChoices \in Nat /\ ns[i].u.index \in Nat
  BY DEF ShapeInv, ChoiceU, ChoiceIds
<1>4. \A i \in ids : Lens(ns)[i] \in Nat /\ ByIndex(ns, b)[i] \in Int
  BY <1>2, <1>3 DEF Lens, ByIndex
<1>5. \A i \in ids : Lens(ns2)[i] = Lens(ns)[i] /\ ByIndex(ns2, b)[i] = ByIndex(ns, b)[i]
  BY <1>1, <1>2 DEF Lens, ByIndex
<1>6. Fills(Lens(ns), ByIndex(ns, b), ids, x) BY DEF SpanFills
<1>7. CASE n.type = "choice" /\ IsOf(n, t, p, r)
  <2>1. k \in ChoiceIds(ns2) BY <1>1, <1>7
  <2>2. n.u.numChoices \in Nat BY <1>7 DEF ChoiceU
  <2>3. Lens(ns2)[k] = n.u.numChoices /\ ByIndex(ns2, b)[k] = x
    BY <1>1, <1>7, <2>1 DEF Lens, ByIndex
  <2>4. ids2 = ids \cup {k} BY <1>1, <1>7 DEF Span
  <2>5. k \in Nat /\ ids \in SUBSET Nat BY <1>1, <1>2
  <2> DEFINE m == n.u.numChoices
             l == Lens(ns)
             l2 == Lens(ns2)
             f == ByIndex(ns, b)
             f2 == ByIndex(ns2, b)
  <2>6. /\ m \in Nat /\ l2[k] = m /\ f2[k] = x
        /\ \A i \in ids : i < k /\ l[i] \in Nat /\ f[i] \in Int
        /\ \A i \in ids : l2[i] = l[i] /\ f2[i] = f[i]
        /\ Fills(l, f, ids, x)
    BY <1>2, <1>4, <1>5, <1>6, <2>2, <2>3
  <2> HIDE DEF ids, ids2, k, m, l, l2, f, f2
  <2>7. Longer(l, f, ids, k, x, m, l2, f2) BY <2>5, <2>6 DEF Longer
  <2>8. Fills(l2, f2, ids \cup {k}, x + m) BY <2>6, <2>7, FillsMore
  <2> QED BY <1>7, <2>4, <2>8 DEF SpanFills, Entered, ids2, m, l2, f2
<1>8. CASE ~(n.type = "choice" /\ IsOf(n, t, p, r))
  <2>1. ids2 = ids BY <1>1, <1>8 DEF Span
  <2>2. x + Entered(n, t, p, r) = x BY <1>8 DEF Entered
  <2> HIDE DEF ids, ids2
  <2>3. Fills(Lens(ns2), ByIndex(ns2, b), ids, x) BY <1>5, <1>6, FillsSame
  <2> QED BY <2>1, <2>2, <2>3 DEF SpanFills, ids2
<1> QED BY <1>7, <1>8

(* A range that has come to its end, or nodes that change otherwise. *)
LEMMA SpanStays ==
  ASSUME NEW ns, NEW ns2, Keeps(ns, ns2), NEW t, NEW p, NEW r, NEW b,
         NEW c, NEW e \in 0 .. Len(ns), NEW x, SpanFills(ns, b, t, c, e, p, r, x)
  PROVE  SpanFills(ns2, b, t, c, e, p, r, x)
<1>1. /\ Len(ns) \in Nat /\ Len(ns2) \in Nat /\ Len(ns) <= Len(ns2)
      /\ DOMAIN ns = 1 .. Len(ns) /\ DOMAIN ns2 = 1 .. Len(ns2)
      /\ \A i \in DOMAIN ns : /\ ns2[i].type = ns[i].type /\ ns2[i].round = ns[i].round
                              /\ ns2[i].tree = ns[i].tree
                              /\ ns2[i].type = "choice" => ns2[i].u = ns[i].u
  BY DEF Keeps, Extends
<1> DEFINE ids == Span(ns, t, c, e, p, r)
           ids2 == Span(ns2, t, c, e, p, r)
<1>2. \A i : i \in ids2 <=> i \in ids
  <2> SUFFICES ASSUME NEW i PROVE i \in ids2 <=> i \in ids OBVIOUS
  <2>1. i \in ids2 => i \in DOMAIN ns /\ i \in DOMAIN ns2 BY <1>1 DEF Span, ChoiceIds
  <2>2. i \in ids => i \in DOMAIN ns /\ i \in DOMAIN ns2 BY <1>1 DEF Span, ChoiceIds
  <2> QED BY <1>1, <2>1, <2>2 DEF Span, ChoiceIds, IsOf
<1>3. \A i \in ids : i \in ChoiceIds(ns) /\ i \in ChoiceIds(ns2) /\ ns2[i].u = ns[i].u
  BY <1>1 DEF Span, ChoiceIds
<1>4. \A i \in ids : Lens(ns2)[i] = Lens(ns)[i] /\ ByIndex(ns2, b)[i] = ByIndex(ns, b)[i]
  BY <1>3 DEF Lens, ByIndex
<1>5. Fills(Lens(ns), ByIndex(ns, b), ids, x) BY DEF SpanFills
<1>6. ids2 = ids BY <1>2
<1> HIDE DEF ids, ids2
<1>7. Fills(Lens(ns2), ByIndex(ns2, b), ids, x) BY <1>4, <1>5, FillsSame
<1> QED BY <1>6, <1>7 DEF SpanFills, ids2

LEMMA SpanEmpty ==
  ASSUME NEW ns, NEW t, NEW p, NEW r, NEW b, NEW c, NEW e, \A i \in ChoiceIds(ns) : ~(c < i /\ i <= e)
  PROVE  SpanFills(ns, b, t, c, e, p, r, 0)
<1>1. Span(ns, t, c, e, p, r) = {} BY DEF Span
<1> QED BY <1>1, FillsNothing DEF SpanFills

EnteredBlock(n, c, p) ==
  IF n.type = "choice" /\ n.chance = c /\ n.u.playerActing = p THEN n.u.numChoices ELSE 0

LEMMA BlockGrows ==
  ASSUME NEW T, NEW ns, NEW n, NEW ns2, Added(T, ns, n, ns2), ShapeInv(ns),
         n.type = "choice" => n.u \in ChoiceU, NEW c, NEW p, NEW x \in Nat,
         BlockFills(ns, c, p, x),
         (n.type = "choice" /\ n.chance = c /\ n.u.playerActing = p) => n.u.immIndex = x
  PROVE  BlockFills(ns2, c, p, x + EnteredBlock(n, c, p))
<1> DEFINE k == Len(ns) + 1
           ids == InBlock(ns, c, p)
           ids2 == InBlock(ns2, c, p)
           mine == n.type = "choice" /\ n.chance = c /\ n.u.playerActing = p
<1>1. /\ ChoiceIds(ns2) = IF n.type = "choice" THEN ChoiceIds(ns) \cup {k} ELSE ChoiceIds(ns)
      /\ \A i \in ChoiceIds(ns) : ns2[i] = ns[i] /\ i \in 1 .. Len(ns) /\ i \in ChoiceIds(ns2)
      /\ Len(ns) \in Nat /\ Len(ns2) = k /\ ns2[k] = n /\ k \notin ChoiceIds(ns)
  BY ChoicesAdded
<1>2. \A i \in ids : i \in ChoiceIds(ns) /\ i < k /\ i \in Nat BY <1>1 DEF InBlock
<1>3. \A i \in ChoiceIds(ns) : ns[i].u.numChoices \in Nat /\ ns[i].u.immIndex \in Nat
  BY DEF ShapeInv, ChoiceU, ChoiceIds
<1>4. \A i \in ids : Lens(ns)[i] \in Nat /\ ByImm(ns)[i] \in Int BY <1>2, <1>3 DEF Lens, ByImm
<1>5. \A i \in ids : Lens(ns2)[i] = Lens(ns)[i] /\ ByImm(ns2)[i] = ByImm(ns)[i]
  BY <1>1, <1>2 DEF Lens, ByImm
<1>6. Fills(Lens(ns), ByImm(ns), ids, x) BY DEF BlockFills
<1>7. CASE mine
  <2>1. k \in ChoiceIds(ns2) BY <1>1, <1>7
  <2>2. n.u.numChoices \in Nat BY <1>7 DEF ChoiceU
  <2>3. Lens(ns2)[k] = n.u.numChoices /\ ByImm(ns2)[k] = x
    BY <1>1, <1>7, <2>1 DEF Lens, ByImm
  <2>4. ids2 = ids \cup {k} BY <1>1, <1>7 DEF InBlock
  <2>5. k \in Nat /\ ids \in SUBSET Nat BY <1>1, <1>2
  <2> DEFINE m == n.u.numChoices
             l == Lens(ns)
             l2 == Lens(ns2)
             f == ByImm(ns)
             f2 == ByImm(ns2)
  <2>6. /\ m \in Nat /\ l2[k] = m /\ f2[k] = x
        /\ \A i \in ids : i < k /\ l[i] \in Nat /\ f[i] \in Int
        /\ \A i \in ids : l2[i] = l[i] /\ f2[i] = f[i]
        /\ Fills(l, f, ids, x)
    BY <1>2, <1>4, <1>5, <1>6, <2>2, <2>3
  <2> HIDE DEF ids, ids2, k, m, l, l2, f, f2
  <2>7. Longer(l, f, ids, k, x, m, l2, f2) BY <2>5, <2>6 DEF Longer
  <2>8. Fills(l2, f2, ids \cup {k}, x + m) BY <2>6, <2>7, FillsMore
  <2> QED BY <1>7, <2>4, <2>8 DEF BlockFills, EnteredBlock, ids2, m, l2, f2
<1>8. CASE ~mine
  <2>1. ids2 = ids BY <1>1, <1>8 DEF InBlock
  <2>2. x + EnteredBlock(n, c, p) = x BY <1>8 DEF EnteredBlock
  <2> HIDE DEF ids, ids2
  <2>3. Fills(Lens(ns2), ByImm(ns2), ids, x) BY <1>5, <1>6, FillsSame
  <2> QED BY <2>1, <2>2, <2>3 DEF BlockFills, ids2
<1> QED BY <1>7, <1>8

LEMMA BlockStays ==
  ASSUME NEW ns, NEW ns2, Keeps(ns, ns2), Len(ns2) = Len(ns), NEW c, NEW p, NEW x,
         BlockFills(ns, c, p, x)
  PROVE  BlockFills(ns2, c, p, x)
<1>1. /\ DOMAIN ns = 1 .. Len(ns) /\ DOMAIN ns2 = DOMAIN ns
      /\ \A i \in DOMAIN ns : /\ ns2[i].type = ns[i].type /\ ns2[i].chance = ns[i].chance
                              /\ ns2[i].type = "choice" => ns2[i].u = ns[i].u
  BY DEF Keeps, Extends
<1> DEFINE ids == InBlock(ns, c, p)
<1>2. InBlock(ns2, c, p) = ids BY <1>1 DEF InBlock, ChoiceIds
<1>3. \A i \in ids : i \in ChoiceIds(ns) /\ i \in ChoiceIds(ns2) /\ ns2[i].u = ns[i].u
  BY <1>1 DEF InBlock, ChoiceIds
<1>4. \A i \in ids : Lens(ns2)[i] = Lens(ns)[i] /\ ByImm(ns2)[i] = ByImm(ns)[i]
  BY <1>3 DEF Lens, ByImm
<1>5. Fills(Lens(ns), ByImm(ns), ids, x) BY DEF BlockFills
<1> HIDE DEF ids
<1>6. Fills(Lens(ns2), ByImm(ns2), ids, x) BY <1>4, <1>5, FillsSame
<1> QED BY <1>2, <1>6 DEF BlockFills

LEMMA BlockEmpty ==
  ASSUME NEW ns, NEW c, NEW p, \A i \in ChoiceIds(ns) : ns[i].chance # c
  PROVE  BlockFills(ns, c, p, 0)
<1>1. InBlock(ns, c, p) = {} BY DEF InBlock
<1> QED BY <1>1, FillsNothing DEF BlockFills

-----------------------------------------------------------------------------
(* The tables                                                              *)

Since(sz, n, r, p) == sz[n.tree][r][p] - n.u.before[r][p]

(* An open chance node is left to close; all that has been made since is   *)
(* below it, and fills what has been entered since.                        *)
OpenInv(g, ns, td, sz, im, c) ==
  /\ ~ns[c].u.closed
  /\ \E k \in DOMAIN td : td[k].kind = "close" /\ td[k].node = c
  /\ \A i \in DOMAIN ns : c < i => ns[i].parent >= c
  /\ \A p \in Players : im[c][p] = Since(sz, ns[c], ns[c].round, p)
  /\ \A r \in RoundsOf(g), p \in Players :
       SpanFills(ns, ns[c].u.before[r][p], ns[c].tree, c, Len(ns), p, r, Since(sz, ns[c], r, p))

(* Of a closed one, what is below it has been made, up to some node.       *)
ShutUpTo(g, ns, td, c, e) ==
  /\ Enclosed(ns, c, e)
  /\ \A k \in DOMAIN td : td[k].kind = "visit" => td[k].parent < c \/ e < td[k].parent
  /\ \A r \in RoundsOf(g), p \in Players : r >= ns[c].round =>
       SpanFills(ns, ns[c].u.before[r][p], ns[c].tree, c, e, p, r, ns[c].u.bettingTreeSize[r][p])

ShutInv(g, ns, td, im, c) ==
  /\ ns[c].u.closed
  /\ \A k \in DOMAIN td : td[k].kind = "close" => td[k].node # c
  /\ \A p \in Players : im[c][p] = ns[c].u.bettingTreeSize[ns[c].round][p]
  /\ \E e \in c .. Len(ns) : ShutUpTo(g, ns, td, c, e)

(* The children of a node, made and left to visit. *)
MadeOf(ns, i)   == {j \in DOMAIN ns : ns[j].parent = i}
LeftFor(td, i)  == {k \in DOMAIN td : td[k].kind = "visit" /\ td[k].parent = i}
FamilyInv(ns, td) ==
  \A i \in ChoiceIds(ns) : ns[i].u.numChoices = Cardinality(MadeOf(ns, i)) + Cardinality(LeftFor(td, i))

IndexInv(g, ns, sz) ==
  \A t \in DOMAIN sz, r \in RoundsOf(g), p \in Players :
    SpanFills(ns, 0, t, 0, Len(ns), p, r, sz[t][r][p])

ImmInv(ns, im) ==
  \A c \in DOMAIN ns, p \in Players : ns[c].type = "chance" => BlockFills(ns, c, p, im[c][p])

OpenOrShut(g, ns, td, sz, im) ==
  \A c \in DOMAIN ns : ns[c].type = "chance" =>
    OpenInv(g, ns, td, sz, im, c) \/ ShutInv(g, ns, td, im, c)

TablesInv ==
  /\ ShapeInv(nodes) /\ StackInv(nodes, todo) /\ FamilyInv(nodes, todo)
  /\ IndexInv(game, nodes, size) /\ ImmInv(nodes, imm)
  /\ OpenOrShut(game, nodes, todo, size, imm)

(* What the actions that make a node n have in common. *)
EntriesNew(n, new) ==
  /\ \A i \in DOMAIN new : new[i].kind = "visit" => new[i].parent = Id
  /\ \A i \in DOMAIN new : new[i].kind = "close" => n.type = "chance" /\ new[i].node = Id
  /\ n.type = "chance" => \E i \in DOMAIN new : new[i].kind = "close" /\ new[i].node = Id
  /\ n.type = "choice" => Len(new) = n.u.numChoices /\ \A i \in DOMAIN new : new[i].kind = "visit"

CountsNext(n) ==
  /\ DOMAIN size \subseteq DOMAIN size'
  /\ \A t \in DOMAIN size, r \in RoundsOf(game), p \in Players :
       size'[t][r][p] = size[t][r][p] + Entered(n, t, p, r)
  /\ \A t \in DOMAIN size' \ DOMAIN size, r \in RoundsOf(game), p \in Players : size'[t][r][p] = 0
  /\ \A c \in ChanceNodes, p \in Players : imm'[c][p] = imm[c][p] + EnteredBlock(n, c, p)
  /\ n.type = "chance" => \A p \in Players : imm'[Id][p] = 0

NodeNew(n) ==
  /\ n.parent = Top.parent /\ n.tree = Top.tree /\ n.chance = Top.chance /\ n.round = Top.hand.round
  /\ n.type = "choice" => /\ n.u \in ChoiceU /\ Top.last # -1 /\ Top.hand.round <= Top.last
                          /\ n.u.index = size[n.tree][n.round][n.u.playerActing]
                          /\ n.u.immIndex = imm[n.chance][n.u.playerActing]
  /\ n.type = "chance" => ~n.u.closed /\ n.u.before = size[n.tree]

Builds(n, new) ==
  /\ Visits /\ Added(NodeType(game), nodes, n, nodes') /\ game' = game
  /\ Stacked(todo, new, todo') /\ todo[1] = Top /\ OnTop(nodes', todo, new)
  /\ NodeNew(n) /\ EntriesNew(n, new) /\ CountsNext(n)

(* What is visited below a node n that is made of the top of the stack. *)
Continues(n, v) ==
  /\ n.type # "leaf"
  /\ n.type = "subgame" => /\ v.tree \notin DOMAIN size /\ v.split = -1 /\ v.hand = Top.hand
                           /\ v.tree = n.u.index + 1 /\ v.chance = 0 /\ v.last = -1
  /\ n.type = "chance" => /\ v.tree = Top.tree /\ v.split = Top.split /\ v.chance = Id
                          /\ v.last = Top.hand.round /\ v.hand = Top.hand
  /\ n.type = "choice" =>
       /\ v.tree = Top.tree /\ v.split = Top.split /\ v.last = Top.last /\ v.chance = Top.chance
       /\ \E a \in ValidActions(game, Top.hand) : v.hand = DoAction(game, Top.hand, a)

Descends(n, new) ==
  /\ n.type \in {"subgame", "chance"} <=> Deals
  /\ n.type = "subgame" => Top.hand.round = Top.split
  /\ n.type = "chance" => Top.hand.round # Top.split
  /\ n.type = "choice" => ~Top.hand.finished
  /\ \A i \in DOMAIN new : new[i].kind = "visit" => Continues(n, new[i])
  /\ IF n.type = "leaf" THEN DOMAIN new = {} ELSE 1 \in DOMAIN new /\ new[1].kind = "visit"
  /\ n.type \in {"subgame", "chance"} => \A i \in DOMAIN new : new[i].kind = "visit" => i = 1
  /\ n.type = "subgame" => n.u.index \in Nat /\ n.u.index + 1 \in DOMAIN size'

LEMMA AddedKeeps ==
  ASSUME NEW T, NEW ns, NEW n, NEW ns2, Added(T, ns, n, ns2)
  PROVE  Keeps(ns, ns2)
BY DEF Added, Keeps

LEMMA AllRefer ==
  ASSUME TreeInv, NEW k \in DOMAIN todo PROVE Refers(nodes, todo[k])
<1>1. EntryInv(game, DOMAIN size, nodes, todo[k]) BY DEF TreeInv
<1> QED BY <1>1 DEF EntryInv, PlaceInv, IsChance, Refers

(* What the top of the stack has in common with the tree. *)
TopOfTree ==
  /\ Len(nodes) \in Nat /\ DOMAIN nodes = 1 .. Len(nodes) /\ Id = Len(nodes) + 1
  /\ Top.parent \in 0 .. Len(nodes) /\ Top.tree \in DOMAIN size /\ Top.kind = "visit"
  /\ Top.hand.round \in RoundsOf(game) /\ Top.hand.round \in Nat /\ Top.last \in Int
  /\ Top.last # -1 => /\ IsChance(nodes, Top.chance) /\ Top.hand.round >= Top.last
                      /\ nodes[Top.chance].round = Top.last /\ nodes[Top.chance].tree = Top.tree

LEMMA TopTree ==
  ASSUME TreeInv, TablesInv, NEW n, NEW new, Builds(n, new)
  PROVE  TopOfTree
<1>1. Visits /\ todo[1] = Top /\ Stacked(todo, new, todo') BY DEF Builds
<1>2. TopInv BY <1>1, TopFacts
<1>3. /\ Top \in VisitType(game) /\ PlaceInv(DOMAIN size, nodes, Top) /\ nodes \in Seq(NodeType(game))
      /\ Top.hand.round \in RoundsOf(game) /\ GameOK(game)
  BY <1>2 DEF TopInv
<1>4. 1 \in DOMAIN todo BY <1>1 DEF Stacked
<1>5. LastDealt(nodes, Top) BY <1>1, <1>4 DEF TablesInv, StackInv
<1>6. Top.kind = "visit" BY <1>1 DEF Visits
<1>7. Top.hand.round \in Nat /\ Top.last \in Int BY <1>3 DEF RoundsOf, VisitType, GameOK
<1> QED BY <1>3, <1>5, <1>6, <1>7 DEF PlaceInv, LastDealt, TopOfTree, Id

LEMMA ShapeNext ==
  ASSUME TreeInv, TablesInv, NEW n, NEW new, Builds(n, new)
  PROVE  ShapeInv(nodes')
<1>1. TopOfTree BY TopTree
<1>2. /\ DOMAIN nodes' = DOMAIN nodes \cup {Id} /\ nodes'[Id] = n
      /\ \A i \in DOMAIN nodes : nodes'[i] = nodes[i]
  BY <1>1 DEF Builds, Added, TopOfTree
<1>3. ShapeInv(nodes) BY DEF TablesInv
<1>4. \A i : IsChance(nodes, i) => IsChance(nodes', i) /\ nodes'[i] = nodes[i]
  BY <1>2 DEF IsChance
<1>5. ASSUME NEW i \in DOMAIN nodes
      PROVE  /\ nodes'[i].parent \in 0 .. i - 1
             /\ nodes'[i].type = "choice" =>
                  /\ nodes'[i].u \in ChoiceU /\ IsChance(nodes', nodes'[i].chance)
                  /\ nodes'[i].round = nodes'[nodes'[i].chance].round
                  /\ nodes'[i].tree = nodes'[nodes'[i].chance].tree
  BY <1>2, <1>3, <1>4 DEF ShapeInv
<1>6. n.parent \in 0 .. Id - 1 BY <1>1 DEF Builds, NodeNew, TopOfTree
<1>7. ASSUME n.type = "choice"
      PROVE  /\ n.u \in ChoiceU /\ IsChance(nodes', n.chance)
             /\ n.round = nodes'[n.chance].round /\ n.tree = nodes'[n.chance].tree
  <2>1. /\ n.u \in ChoiceU /\ Top.last # -1 /\ Top.hand.round <= Top.last
        /\ n.chance = Top.chance /\ n.tree = Top.tree /\ n.round = Top.hand.round
    BY <1>7 DEF Builds, NodeNew
  <2>2. /\ IsChance(nodes, Top.chance) /\ Top.hand.round = Top.last
        /\ nodes[Top.chance].round = Top.last /\ nodes[Top.chance].tree = Top.tree
    BY <1>1, <2>1 DEF TopOfTree
  <2> QED BY <1>4, <2>1, <2>2
<1>8. \A i \in DOMAIN nodes' : i \in DOMAIN nodes \/ i = Id BY <1>2
<1> QED BY <1>2, <1>5, <1>6, <1>7, <1>8 DEF ShapeInv

LEMMA StackStep ==
  ASSUME TreeInv, TablesInv, NEW n, NEW new, Builds(n, new)
  PROVE  StackInv(nodes', todo') /\ Keeps(nodes, nodes')
<1>1. Keeps(nodes, nodes') BY AddedKeeps DEF Builds
<1>2. /\ StackInv(nodes, todo) /\ \A k \in DOMAIN todo : Refers(nodes, todo[k])
      /\ Stacked(todo, new, todo') /\ OnTop(nodes', todo, new)
  BY AllRefer DEF TablesInv, Builds
<1> DEFINE td == todo'
           ns == nodes'
<1> HIDE DEF td, ns
<1>3. Keeps(nodes, ns) /\ Stacked(todo, new, td) /\ OnTop(ns, todo, new) BY <1>1, <1>2 DEF td, ns
<1>4. StackInv(ns, td) BY <1>2, <1>3, StackNext
<1> QED BY <1>1, <1>4 DEF td, ns

LEMMA SizesAreNat ==
  ASSUME TreeInv, NEW t \in DOMAIN size, NEW r \in RoundsOf(game), NEW p \in Players
  PROVE  size[t][r][p] \in Nat
<1>1. size[t] \in SizesOf(game) BY DEF TreeInv, SizeInv
<1> QED BY <1>1 DEF SizesOf

LEMMA ImmsAreNat ==
  ASSUME TreeInv, NEW c \in ChanceNodes, NEW p \in Players PROVE imm[c][p] \in Nat
BY DEF TreeInv

LEMMA IndexNext ==
  ASSUME TreeInv, TablesInv, NEW n, NEW new, Builds(n, new)
  PROVE  IndexInv(game, nodes', size')
<1> DEFINE ns == nodes'
<1>1. TopOfTree BY TopTree
<1>2. /\ Added(NodeType(game), nodes, n, ns) /\ NodeNew(n) /\ CountsNext(n)
      /\ n.type = "choice" => n.u \in ChoiceU
  BY DEF Builds, NodeNew
<1>3. ShapeInv(nodes) /\ IndexInv(game, nodes, size) BY DEF TablesInv
<1>4. ShapeInv(ns) /\ Len(ns) = Len(nodes) + 1 BY <1>2, ShapeNext DEF Added
<1> HIDE DEF ns
<1> SUFFICES ASSUME NEW t \in DOMAIN size', NEW r \in RoundsOf(game), NEW p \in Players
             PROVE  SpanFills(ns, 0, t, 0, Len(ns), p, r, size'[t][r][p])
  BY DEF IndexInv, ns
<1>5. CASE t \in DOMAIN size
  <2>1. size[t][r][p] \in Nat BY <1>5, SizesAreNat
  <2>2. SpanFills(nodes, 0, t, 0, Len(nodes), p, r, size[t][r][p]) BY <1>3, <1>5 DEF IndexInv
  <2>3. (n.type = "choice" /\ IsOf(n, t, p, r)) => n.u.index - 0 = size[t][r][p]
    <3> SUFFICES ASSUME n.type = "choice", IsOf(n, t, p, r) PROVE n.u.index - 0 = size[t][r][p]
      OBVIOUS
    <3>1. n.u.index = size[t][r][p] BY <1>2 DEF NodeNew, IsOf
    <3> QED BY <2>1, <3>1
  <2>4. 0 \in Int /\ 0 \in 0 .. Len(nodes) BY <1>1 DEF TopOfTree
  <2>5. SpanFills(ns, 0, t, 0, Len(ns), p, r, size[t][r][p] + Entered(n, t, p, r))
    BY <1>2, <1>3, <2>1, <2>2, <2>3, <2>4, SpanGrows
  <2> QED BY <1>2, <1>5, <2>5 DEF CountsNext
<1>6. CASE t \notin DOMAIN size
  <2>1. size'[t][r][p] = 0 BY <1>2, <1>6 DEF CountsNext
  <2>2. \A i \in ChoiceIds(ns) : ns[i].tree \in DOMAIN size
    <3>1. \A i \in DOMAIN nodes : nodes[i].tree \in DOMAIN size BY DEF TreeInv, NodeInv
    <3>2. n.tree \in DOMAIN size BY <1>1, <1>2 DEF NodeNew, TopOfTree
    <3> QED BY <1>2, <3>1, <3>2 DEF ChoiceIds, Added
  <2>3. \A i \in ChoiceIds(ns) : ns[i].tree # t BY <1>6, <2>2
  <2>4. Span(ns, t, 0, Len(ns), p, r) = {} BY <2>3 DEF Span, IsOf
  <2> QED BY <2>1, <2>4, FillsNothing DEF SpanFills
<1> QED BY <1>5, <1>6

LEMMA ImmNext ==
  ASSUME TreeInv, TablesInv, NEW n, NEW new, Builds(n, new)
  PROVE  ImmInv(nodes', imm')
<1> DEFINE ns == nodes'
<1>1. TopOfTree BY TopTree
<1>2. /\ Added(NodeType(game), nodes, n, ns) /\ NodeNew(n) /\ CountsNext(n)
      /\ n.type = "choice" => n.u \in ChoiceU
  BY DEF Builds, NodeNew
<1>3. ShapeInv(nodes) /\ ImmInv(nodes, imm) BY DEF TablesInv
<1>4. /\ DOMAIN ns = DOMAIN nodes \cup {Id} /\ ns[Id] = n /\ Id \notin DOMAIN nodes
      /\ \A i \in DOMAIN nodes : ns[i] = nodes[i]
  BY <1>1, <1>2 DEF Added, TopOfTree
<1> HIDE DEF ns
<1> SUFFICES ASSUME NEW c \in DOMAIN ns, NEW p \in Players, ns[c].type = "chance"
             PROVE  BlockFills(ns, c, p, imm'[c][p])
  BY DEF ImmInv, ns
<1>5. CASE c \in DOMAIN nodes
  <2>1. c \in ChanceNodes /\ nodes[c].type = "chance" BY <1>4, <1>5 DEF ChanceNodes
  <2>2. imm[c][p] \in Nat BY <2>1, ImmsAreNat
  <2>3. BlockFills(nodes, c, p, imm[c][p]) BY <1>3, <1>5, <2>1 DEF ImmInv
  <2>4. (n.type = "choice" /\ n.chance = c /\ n.u.playerActing = p) => n.u.immIndex = imm[c][p]
    BY <1>2 DEF NodeNew
  <2>5. BlockFills(ns, c, p, imm[c][p] + EnteredBlock(n, c, p))
    BY <1>2, <1>3, <2>2, <2>3, <2>4, BlockGrows
  <2> QED BY <1>2, <2>1, <2>5 DEF CountsNext
<1>6. CASE c = Id
  <2>1. n.type = "chance" BY <1>4, <1>6
  <2>2. imm'[c][p] = 0 BY <1>2, <1>6, <2>1 DEF CountsNext
  <2>3. \A i \in ChoiceIds(ns) : ns[i].chance # Id
    <3> SUFFICES ASSUME NEW i \in ChoiceIds(ns) PROVE ns[i].chance # Id OBVIOUS
    <3>1. i \in DOMAIN nodes /\ ns[i] = nodes[i] /\ ns[i].type = "choice"
      BY <1>4, <2>1 DEF ChoiceIds
    <3>2. nodes[i].chance \in DOMAIN nodes BY <1>3, <3>1 DEF ShapeInv, IsChance
    <3> QED BY <1>4, <3>1, <3>2
  <2> QED BY <1>6, <2>2, <2>3, BlockEmpty
<1> QED BY <1>4, <1>5, <1>6

(* A chance node that is open stays so while nodes are made below it. *)
LEMMA OpenNext ==
  ASSUME TreeInv, TablesInv, NEW n, NEW new, Builds(n, new), NEW c \in DOMAIN nodes,
         nodes[c].type = "chance", OpenInv(game, nodes, todo, size, imm, c)
  PROVE  OpenInv(game', nodes', todo', size', imm', c)
<1> DEFINE ns == nodes'
           td == todo'
           b(r, p) == nodes[c].u.before[r][p]
           t == nodes[c].tree
<1>1. TopOfTree BY TopTree
<1>2. /\ Added(NodeType(game), nodes, n, ns) /\ NodeNew(n) /\ CountsNext(n) /\ game' = game
      /\ n.type = "choice" => n.u \in ChoiceU
      /\ Stacked(todo, new, td) /\ todo[1] = Top
  BY DEF Builds, NodeNew
<1>3. /\ ~nodes[c].u.closed
      /\ \A i \in DOMAIN nodes : c < i => nodes[i].parent >= c
      /\ \A p \in Players : imm[c][p] = Since(size, nodes[c], nodes[c].round, p)
      /\ \A r \in RoundsOf(game), p \in Players :
           SpanFills(nodes, b(r, p), t, c, Len(nodes), p, r, Since(size, nodes[c], r, p))
  BY DEF OpenInv
<1>4. PICK k \in DOMAIN todo : todo[k].kind = "close" /\ todo[k].node = c BY DEF OpenInv
<1>5. /\ DOMAIN ns = DOMAIN nodes \cup {Id} /\ ns[Id] = n /\ Id \notin DOMAIN nodes
      /\ \A i \in DOMAIN nodes : ns[i] = nodes[i]
  BY <1>1, <1>2 DEF Added, TopOfTree
<1>6. /\ Len(todo) \in Nat \ {0} /\ Len(new) \in Nat /\ DOMAIN todo = 1 .. Len(todo)
      /\ DOMAIN td = 1 .. Len(new) + Len(todo) - 1
      /\ \A j \in 2 .. Len(todo) : td[Len(new) + j - 1] = todo[j]
  BY <1>2 DEF Stacked
<1>7. k # 1 /\ 1 < k /\ 1 \in DOMAIN todo BY <1>1, <1>2, <1>4, <1>6 DEF TopOfTree
<1>8. Over(nodes, Top, todo[k])
  <2>1. Ordered(nodes, todo) BY DEF TablesInv, StackInv
  <2> QED BY <1>2, <1>7, <2>1 DEF Ordered
<1>9. Top.parent >= c /\ (Top.tree = t => Top.last >= nodes[c].round
                                          /\ (Top.last = nodes[c].round => Top.chance = c))
  BY <1>1, <1>4, <1>8 DEF Over, TopOfTree
<1>10. /\ nodes[c].u \in ChanceU(game) /\ t \in DOMAIN size /\ nodes[c].round \in RoundsOf(game)
       /\ c \in ChanceNodes /\ nodes[c].round \in Nat
       /\ \A r \in RoundsOf(game), p \in Players : b(r, p) \in Nat /\ b(r, p) <= size[t][r][p]
  <2>1. NodeInv(game, size, nodes[c]) /\ nodes[c] \in NodeType(game) /\ game \in Games BY DEF TreeInv
  <2>2. nodes[c].u \in ChanceU(game) /\ t \in DOMAIN size
        /\ \A r \in RoundsOf(game), p \in Players : b(r, p) <= size[t][r][p]
    BY <2>1 DEF NodeInv
  <2>3. nodes[c].round \in RoundsOf(game) BY <2>1 DEF NodeType
  <2>4. nodes[c].round \in Nat BY <2>1, <2>3, AllGamesOK DEF GameOK, RoundsOf
  <2>5. \A r \in RoundsOf(game), p \in Players : b(r, p) \in Nat BY <2>2 DEF ChanceU, SizesOf
  <2> QED BY <2>2, <2>3, <2>4, <2>5 DEF ChanceNodes
<1> HIDE DEF ns, td
<1>11. \E j \in DOMAIN td : td[j].kind = "close" /\ td[j].node = c
  <2> DEFINE j == Len(new) + k - 1
  <2>1. k \in 2 .. Len(todo) /\ j \in DOMAIN td BY <1>6, <1>7
  <2>2. td[j] = todo[k] BY <1>6, <2>1
  <2> HIDE DEF j
  <2> QED BY <1>4, <2>1, <2>2
<1>12. \A i \in DOMAIN ns : c < i => ns[i].parent >= c
  <2>1. n.parent >= c BY <1>2, <1>9 DEF NodeNew
  <2> QED BY <1>3, <1>5, <2>1
<1>13. ASSUME NEW r \in RoundsOf(game), NEW p \in Players
       PROVE  /\ Since(size', nodes[c], r, p) = Since(size, nodes[c], r, p) + Entered(n, t, p, r)
              /\ Since(size, nodes[c], r, p) \in Nat
  <2>1. size'[t][r][p] = size[t][r][p] + Entered(n, t, p, r) BY <1>2, <1>10 DEF CountsNext
  <2>2. size[t][r][p] \in Nat BY <1>10, SizesAreNat
  <2>3. Entered(n, t, p, r) \in Nat BY <1>2 DEF Entered, ChoiceU
  <2>4. b(r, p) \in Nat /\ b(r, p) <= size[t][r][p] BY <1>10
  <2>5. /\ Since(size', nodes[c], r, p) = size'[t][r][p] - b(r, p)
        /\ Since(size, nodes[c], r, p) = size[t][r][p] - b(r, p)
    BY DEF Since
  <2> HIDE DEF b, t
  <2> QED BY <2>1, <2>2, <2>3, <2>4, <2>5
<1>14. ASSUME NEW p \in Players
       PROVE  imm'[c][p] = Since(size', nodes[c], nodes[c].round, p)
  <2> DEFINE r == nodes[c].round
  <2>1. imm'[c][p] = imm[c][p] + EnteredBlock(n, c, p) BY <1>2, <1>10 DEF CountsNext
  <2>2. imm[c][p] = Since(size, nodes[c], r, p) BY <1>3
  <2>3. EnteredBlock(n, c, p) = Entered(n, t, p, r)
    <3>1. CASE n.type = "choice"
      <4>1. /\ Top.last # -1 /\ Top.hand.round <= Top.last
            /\ n.tree = Top.tree /\ n.chance = Top.chance /\ n.round = Top.hand.round
        BY <1>2, <3>1 DEF NodeNew
      <4>2. Top.hand.round = Top.last /\ nodes[Top.chance].round = Top.last
            /\ nodes[Top.chance].tree = Top.tree
        BY <1>1, <4>1 DEF TopOfTree
      <4>3. n.chance = c <=> n.tree = t /\ n.round = r BY <1>9, <4>1, <4>2
      <4> QED BY <3>1, <4>3 DEF EnteredBlock, Entered, IsOf
    <3>2. CASE n.type # "choice" BY <3>2 DEF EnteredBlock, Entered
    <3> QED BY <3>1, <3>2
  <2>4. Since(size', nodes[c], r, p) = Since(size, nodes[c], r, p) + Entered(n, t, p, r)
    BY <1>10, <1>13
  <2> QED BY <2>1, <2>2, <2>3, <2>4
<1>15. ASSUME NEW r \in RoundsOf(game), NEW p \in Players
       PROVE  SpanFills(ns, b(r, p), t, c, Len(ns), p, r, Since(size', nodes[c], r, p))
  <2> DEFINE x == Since(size, nodes[c], r, p)
             bb == b(r, p)
  <2>1. SpanFills(nodes, bb, t, c, Len(nodes), p, r, x) BY <1>3
  <2>2. x \in Nat BY <1>13
  <2>3. bb \in Int /\ c \in 0 .. Len(nodes) BY <1>1, <1>10 DEF TopOfTree
  <2>4. (n.type = "choice" /\ IsOf(n, t, p, r)) => n.u.index - bb = x
    BY <1>2 DEF NodeNew, IsOf, Since
  <2>5. ShapeInv(nodes) BY DEF TablesInv
  <2> HIDE DEF x, bb, t
  <2>6. SpanFills(ns, bb, t, c, Len(ns), p, r, x + Entered(n, t, p, r))
    BY <1>2, <2>1, <2>2, <2>3, <2>4, <2>5, SpanGrows
  <2>7. Since(size', nodes[c], r, p) = x + Entered(n, t, p, r) BY <1>13 DEF x
  <2> QED BY <2>6, <2>7 DEF bb
<1>16. ns[c] = nodes[c] BY <1>5
<1> HIDE DEF b, t
<1>17. OpenInv(game, ns, td, size', imm', c)
  BY <1>3, <1>11, <1>12, <1>14, <1>15, <1>16 DEF OpenInv, b, t
<1> QED BY <1>2, <1>17 DEF ns, td

LEMMA ShutNext ==
  ASSUME TreeInv, TablesInv, NEW n, NEW new, Builds(n, new), NEW c \in DOMAIN nodes,
         nodes[c].type = "chance", ShutInv(game, nodes, todo, imm, c)
  PROVE  ShutInv(game', nodes', todo', imm', c)
<1> DEFINE ns == nodes'
           td == todo'
<1>1. TopOfTree BY TopTree
<1>2. /\ Added(NodeType(game), nodes, n, ns) /\ NodeNew(n) /\ CountsNext(n) /\ game' = game
      /\ EntriesNew(n, new) /\ Stacked(todo, new, td) /\ todo[1] = Top
  BY DEF Builds
<1>3. Keeps(nodes, ns) BY <1>2, AddedKeeps
<1>4. /\ nodes[c].u.closed
      /\ \A k \in DOMAIN todo : todo[k].kind = "close" => todo[k].node # c
      /\ \A p \in Players : imm[c][p] = nodes[c].u.bettingTreeSize[nodes[c].round][p]
  BY DEF ShutInv
<1>5. PICK e \in c .. Len(nodes) : ShutUpTo(game, nodes, todo, c, e) BY DEF ShutInv
<1>6. /\ Enclosed(nodes, c, e)
      /\ \A k \in DOMAIN todo : todo[k].kind = "visit" => todo[k].parent < c \/ e < todo[k].parent
  BY <1>5 DEF ShutUpTo
<1>7. /\ DOMAIN ns = DOMAIN nodes \cup {Id} /\ ns[Id] = n /\ Id \notin DOMAIN nodes
      /\ \A i \in DOMAIN nodes : ns[i] = nodes[i]
      /\ Len(ns) = Len(nodes) + 1 /\ Len(nodes) \in Nat /\ c \in Nat /\ e \in Nat /\ e < Id /\ c # Id
  BY <1>1, <1>2 DEF Added, TopOfTree
<1>8. 1 \in DOMAIN todo BY <1>2 DEF Stacked
<1>9. Top.parent < c \/ e < Top.parent BY <1>1, <1>2, <1>6, <1>8 DEF TopOfTree
<1> HIDE DEF ns, td
<1>10. \A k \in DOMAIN td : td[k].kind = "close" => td[k].node # c
  <2> SUFFICES ASSUME NEW k \in DOMAIN td, td[k].kind = "close" PROVE td[k].node # c OBVIOUS
  <2>1. CASE k \in DOMAIN new /\ td[k] = new[k]
    <3>1. td[k].node = Id BY <1>2, <2>1 DEF EntriesNew
    <3> QED BY <1>7, <3>1
  <2>2. CASE ~(k \in DOMAIN new /\ td[k] = new[k])
    <3>1. PICK j \in DOMAIN todo : td[k] = todo[j] BY <1>2, <2>2, Position
    <3> QED BY <1>4, <3>1
  <2> QED BY <2>1, <2>2
<1>11. \A k \in DOMAIN td : td[k].kind = "visit" => td[k].parent < c \/ e < td[k].parent
  <2> SUFFICES ASSUME NEW k \in DOMAIN td, td[k].kind = "visit"
               PROVE  td[k].parent < c \/ e < td[k].parent
    OBVIOUS
  <2>1. CASE k \in DOMAIN new /\ td[k] = new[k]
    <3>1. td[k].parent = Id BY <1>2, <2>1 DEF EntriesNew
    <3> QED BY <1>7, <3>1
  <2>2. CASE ~(k \in DOMAIN new /\ td[k] = new[k])
    <3>1. PICK j \in DOMAIN todo : td[k] = todo[j] BY <1>2, <2>2, Position
    <3> QED BY <1>6, <3>1
  <2> QED BY <2>1, <2>2
<1>12. Enclosed(ns, c, e)
  <2>1. n.parent < c \/ e < n.parent BY <1>2, <1>9 DEF NodeNew
  <2> QED BY <1>6, <1>7, <2>1 DEF Enclosed
<1>13. ns[c] = nodes[c] BY <1>7
<1>14. ASSUME NEW r \in RoundsOf(game), NEW p \in Players, r >= nodes[c].round
       PROVE  SpanFills(ns, nodes[c].u.before[r][p], nodes[c].tree, c, e, p, r,
                        nodes[c].u.bettingTreeSize[r][p])
  <2> DEFINE b == nodes[c].u.before[r][p]
             t == nodes[c].tree
             x == nodes[c].u.bettingTreeSize[r][p]
  <2>1. SpanFills(nodes, b, t, c, e, p, r, x) BY <1>5, <1>14 DEF ShutUpTo
  <2>2. e \in 0 .. Len(nodes) BY <1>7
  <2> HIDE DEF b, t, x
  <2>3. SpanFills(ns, b, t, c, e, p, r, x) BY <1>3, <2>1, <2>2, SpanStays
  <2> QED BY <2>3 DEF b, t, x
<1>15. ShutUpTo(game, ns, td, c, e) /\ e \in c .. Len(ns)
  <2>1. e \in c .. Len(ns) BY <1>7
  <2> QED BY <1>11, <1>12, <1>13, <1>14, <2>1 DEF ShutUpTo
<1>16. \A p \in Players : imm'[c][p] = imm[c][p]
  <2>1. n.type = "choice" => n.chance # c
    <3> SUFFICES ASSUME n.type = "choice" PROVE n.chance # c OBVIOUS
    <3>1. Top.last # -1 /\ n.chance = Top.chance BY <1>2 DEF NodeNew
    <3>2. WillClose(todo) BY DEF TablesInv, StackInv
    <3>3. PICK k \in DOMAIN todo : todo[k].kind = "close" /\ todo[k].node = Top.chance
      BY <1>1, <1>2, <1>8, <3>1, <3>2 DEF WillClose, TopOfTree
    <3> QED BY <1>4, <3>1, <3>3
  <2>2. c \in ChanceNodes BY DEF ChanceNodes
  <2>3. \A p \in Players : imm[c][p] \in Nat BY <2>2, ImmsAreNat
  <2>4. \A p \in Players : EnteredBlock(n, c, p) = 0 BY <2>1 DEF EnteredBlock
  <2> QED BY <1>2, <2>2, <2>3, <2>4 DEF CountsNext
<1>17. \E d \in c .. Len(ns) : ShutUpTo(game, ns, td, c, d) BY <1>15
<1>18. ShutInv(game, ns, td, imm', c) BY <1>4, <1>10, <1>13, <1>16, <1>17 DEF ShutInv
<1> QED BY <1>2, <1>18 DEF ns, td

(* A new chance node is open, and nothing is below it. *)
LEMMA NewIsOpen ==
  ASSUME TreeInv, TablesInv, NEW n, NEW new, Builds(n, new), n.type = "chance"
  PROVE  OpenInv(game', nodes', todo', size', imm', Id)
<1> DEFINE ns == nodes'
           td == todo'
<1>1. TopOfTree BY TopTree
<1>2. /\ Added(NodeType(game), nodes, n, ns) /\ NodeNew(n) /\ CountsNext(n) /\ game' = game
      /\ EntriesNew(n, new) /\ Stacked(todo, new, td)
  BY DEF Builds
<1>3. ns[Id] = n /\ DOMAIN ns = 1 .. Id BY <1>1, <1>2 DEF Added, Extends, TopOfTree
<1>4. Id \in Nat /\ Len(ns) = Id BY <1>1, <1>2 DEF Added, TopOfTree
<1> HIDE DEF ns, td
<1>5. ~n.u.closed /\ n.u.before = size[n.tree] /\ n.tree \in DOMAIN size /\ n.round \in RoundsOf(game)
  BY <1>1, <1>2 DEF NodeNew, TopOfTree
<1>6. ASSUME NEW r \in RoundsOf(game), NEW p \in Players PROVE Since(size', n, r, p) = 0
  <2>1. Entered(n, n.tree, p, r) = 0 BY DEF Entered
  <2>2. size'[n.tree][r][p] = size[n.tree][r][p] + 0 BY <1>2, <1>5, <2>1 DEF CountsNext
  <2>3. size[n.tree][r][p] \in Nat BY <1>5, SizesAreNat
  <2> QED BY <1>5, <2>2, <2>3 DEF Since
<1>7. \A p \in Players : imm'[Id][p] = 0 BY <1>2 DEF CountsNext
<1>8. \E k \in DOMAIN td : td[k].kind = "close" /\ td[k].node = Id
  <2>1. PICK i \in DOMAIN new : new[i].kind = "close" /\ new[i].node = Id BY <1>2 DEF EntriesNew
  <2>2. i \in DOMAIN td /\ td[i] = new[i] BY <1>2 DEF Stacked
  <2> QED BY <2>1, <2>2
<1>9. \A i \in DOMAIN ns : ~(Id < i) BY <1>3, <1>4
<1>10. \A r \in RoundsOf(game), p \in Players :
         SpanFills(ns, n.u.before[r][p], n.tree, Id, Len(ns), p, r, 0)
  <2>1. \A i \in ChoiceIds(ns) : ~(Id < i /\ i <= Len(ns)) BY <1>9 DEF ChoiceIds
  <2> QED BY <2>1, SpanEmpty
<1>11. OpenInv(game, ns, td, size', imm', Id)
  BY <1>3, <1>5, <1>6, <1>7, <1>8, <1>9, <1>10 DEF OpenInv
<1> QED BY <1>2, <1>11 DEF ns, td

LEMMA OpenOrShutNext ==
  ASSUME TreeInv, TablesInv, NEW n, NEW new, Builds(n, new)
  PROVE  OpenOrShut(game', nodes', todo', size', imm')
<1> SUFFICES ASSUME NEW c \in DOMAIN nodes', nodes'[c].type = "chance"
             PROVE  \/ OpenInv(game', nodes', todo', size', imm', c)
                    \/ ShutInv(game', nodes', todo', imm', c)
  BY DEF OpenOrShut
<1>1. TopOfTree /\ Added(NodeType(game), nodes, n, nodes') BY TopTree DEF Builds
<1>2. /\ c \in DOMAIN nodes \/ c = Id
      /\ nodes'[Id] = n /\ \A i \in DOMAIN nodes : nodes'[i] = nodes[i]
  BY <1>1 DEF Added, TopOfTree
<1>3. CASE c \in DOMAIN nodes
  <2>1. nodes[c].type = "chance" BY <1>2, <1>3
  <2>2. OpenInv(game, nodes, todo, size, imm, c) \/ ShutInv(game, nodes, todo, imm, c)
    BY <1>3, <2>1 DEF TablesInv, OpenOrShut
  <2> QED BY <1>3, <2>1, <2>2, OpenNext, ShutNext
<1>4. CASE c = Id
  <2>1. n.type = "chance" BY <1>2, <1>4
  <2> QED BY <1>4, <2>1, NewIsOpen
<1> QED BY <1>2, <1>3, <1>4

LEMMA Shifted ==
  ASSUME NEW S, NEW U, IsFiniteSet(S), S \subseteq Int, NEW d \in Int,
         \A x \in Int : x \in S => x + d \in U, U \subseteq Int, \A y \in Int : y \in U => y - d \in S
  PROVE  IsFiniteSet(U) /\ Cardinality(U) = Cardinality(S)
<1> DEFINE f == [x \in S |-> x + d]
<1>1. f \in Bijection(S, U)
  <2>1. f \in [S -> U] OBVIOUS
  <2>2. \A x, y \in S : f[x] = f[y] => x = y
    <3> SUFFICES ASSUME NEW x \in S, NEW y \in S, f[x] = f[y] PROVE x = y OBVIOUS
    <3>1. x + d = y + d /\ x \in Int /\ y \in Int OBVIOUS
    <3> HIDE DEF f
    <3> QED BY <3>1
  <2>3. \A y \in U : \E x \in S : f[x] = y
    <3> TAKE y \in U
    <3>1. y - d \in S /\ (y - d) + d = y OBVIOUS
    <3> QED BY <3>1
  <2> HIDE DEF f
  <2> QED BY <2>1, <2>2, <2>3 DEF Bijection, Injection, Surjection, IsInjective
<1>2. ExistsBijection(S, U) BY <1>1 DEF ExistsBijection
<1> QED BY <1>2, FS_Bijection

(* How many children of an older node are left. *)
LEMMA LeftNext ==
  ASSUME NEW td, NEW new, NEW td2, Stacked(td, new, td2), NEW i,
         \A j \in DOMAIN new : ~(new[j].kind = "visit" /\ new[j].parent = i)
  PROVE  /\ Cardinality(LeftFor(td, i)) \in Nat /\ Cardinality(LeftFor(td2, i)) \in Nat
         /\ Cardinality(LeftFor(td2, i)) =
              Cardinality(LeftFor(td, i)) - (IF td[1].kind = "visit" /\ td[1].parent = i THEN 1 ELSE 0)
<1> DEFINE A == LeftFor(td, i)
           B == LeftFor(td2, i)
           d == Len(new) - 1
<1>1. /\ Len(td) \in Nat \ {0} /\ Len(new) \in Nat /\ d \in Int
      /\ DOMAIN td = 1 .. Len(td) /\ DOMAIN new = 1 .. Len(new)
      /\ DOMAIN td2 = 1 .. Len(new) + Len(td) - 1
      /\ \A k \in 2 .. Len(td) : td2[k + d] = td[k]
      /\ \A j \in 1 .. Len(new) : td2[j] = new[j]
  <2>1. \A k \in 2 .. Len(td) : Len(new) + k - 1 = k + d BY DEF Stacked
  <2> QED BY <2>1 DEF Stacked
<1> HIDE DEF d
<1>2. d = Len(new) - 1 BY DEF d
<1>3. IsFiniteSet(A) /\ A \subseteq 1 .. Len(td)
  <2>1. A \in SUBSET (1 .. Len(td)) BY <1>1 DEF LeftFor
  <2>2. IsFiniteSet(1 .. Len(td)) BY <1>1, FS_Interval
  <2> QED BY <2>1, <2>2, FS_Subset
<1>4. IsFiniteSet(A \ {1}) /\ Cardinality(A) \in Nat
      /\ Cardinality(A \ {1}) = IF 1 \in A THEN Cardinality(A) - 1 ELSE Cardinality(A)
  BY <1>3, FS_RemoveElement, FS_CardinalityType
<1>5. 1 \in A <=> td[1].kind = "visit" /\ td[1].parent = i BY <1>1 DEF LeftFor
<1>6. \A x \in Int : x \in A \ {1} => x + d \in B
  <2> SUFFICES ASSUME NEW x \in Int, x \in A \ {1} PROVE x + d \in B OBVIOUS
  <2>1. x \in 2 .. Len(td) BY <1>3
  <2>2. x + d \in DOMAIN td2 BY <1>1, <1>2, <2>1
  <2> QED BY <1>1, <2>1, <2>2 DEF LeftFor
<1>7. \A y \in Int : y \in B => y - d \in A \ {1}
  <2> SUFFICES ASSUME NEW y \in Int, y \in B PROVE y - d \in A \ {1} OBVIOUS
  <2>1. y \in DOMAIN td2 /\ td2[y].kind = "visit" /\ td2[y].parent = i BY DEF LeftFor
  <2>2. ~(y \in DOMAIN new) BY <1>1, <2>1
  <2>3. y - d \in 2 .. Len(td) /\ (y - d) + d = y BY <1>1, <1>2, <2>1, <2>2
  <2>4. td[y - d] = td2[y] BY <1>1, <2>3
  <2>5. y - d \in DOMAIN td BY <1>1, <2>3
  <2>6. y - d # 1 BY <2>3
  <2> HIDE DEF d
  <2> QED BY <2>1, <2>4, <2>5, <2>6 DEF LeftFor
<1>8. A \ {1} \subseteq Int /\ B \subseteq Int BY <1>1, <1>3 DEF LeftFor
<1> HIDE DEF A, B
<1>9. IsFiniteSet(B) /\ Cardinality(B) = Cardinality(A \ {1})
  BY <1>1, <1>4, <1>6, <1>7, <1>8, Shifted
<1>10. Cardinality(B) \in Nat BY <1>9, FS_CardinalityType
<1> QED BY <1>4, <1>5, <1>9, <1>10 DEF A, B

LEMMA FamilyNext ==
  ASSUME TreeInv, TablesInv, NEW n, NEW new, Builds(n, new)
  PROVE  FamilyInv(nodes', todo')
<1> DEFINE ns == nodes'
           td == todo'
<1>1. TopOfTree BY TopTree
<1>2. /\ Added(NodeType(game), nodes, n, ns) /\ NodeNew(n)
      /\ EntriesNew(n, new) /\ Stacked(todo, new, td) /\ todo[1] = Top
  BY DEF Builds
<1>3. /\ DOMAIN ns = DOMAIN nodes \cup {Id} /\ ns[Id] = n /\ Id \notin DOMAIN nodes
      /\ \A i \in DOMAIN nodes : ns[i] = nodes[i]
      /\ Id \in Nat /\ DOMAIN nodes = 1 .. Id - 1
  BY <1>1, <1>2 DEF Added, TopOfTree
<1>4. ShapeInv(nodes) /\ FamilyInv(nodes, todo) BY DEF TablesInv
<1>5. \A i \in DOMAIN nodes : IsFiniteSet(MadeOf(nodes, i)) /\ Cardinality(MadeOf(nodes, i)) \in Nat
  <2> TAKE i \in DOMAIN nodes
  <2>1. MadeOf(nodes, i) \in SUBSET (1 .. Id - 1) BY <1>3 DEF MadeOf
  <2>2. IsFiniteSet(1 .. Id - 1) BY <1>3, FS_Interval
  <2> QED BY <2>1, <2>2, FS_Subset, FS_CardinalityType
<1> HIDE DEF ns, td
<1> SUFFICES ASSUME NEW i \in ChoiceIds(ns)
             PROVE  ns[i].u.numChoices = Cardinality(MadeOf(ns, i)) + Cardinality(LeftFor(td, i))
  BY DEF FamilyInv, ns, td
<1>6. CASE i \in DOMAIN nodes
  <2>1. i # Id /\ i \in ChoiceIds(nodes) /\ ns[i] = nodes[i] BY <1>3, <1>6 DEF ChoiceIds
  <2>2. nodes[i].u.numChoices = Cardinality(MadeOf(nodes, i)) + Cardinality(LeftFor(todo, i))
    BY <1>4, <2>1 DEF FamilyInv
  <2>3. \A j \in DOMAIN new : ~(new[j].kind = "visit" /\ new[j].parent = i)
    BY <1>2, <2>1 DEF EntriesNew
  <2>4. /\ Cardinality(LeftFor(todo, i)) \in Nat /\ Cardinality(LeftFor(td, i)) \in Nat
        /\ Cardinality(LeftFor(td, i)) =
             Cardinality(LeftFor(todo, i)) - (IF Top.parent = i THEN 1 ELSE 0)
    BY <1>1, <1>2, <2>3, LeftNext DEF TopOfTree
  <2>5. MadeOf(ns, i) = IF Top.parent = i THEN MadeOf(nodes, i) \cup {Id} ELSE MadeOf(nodes, i)
    BY <1>2, <1>3 DEF MadeOf, NodeNew
  <2>6. Cardinality(MadeOf(ns, i)) = Cardinality(MadeOf(nodes, i)) + (IF Top.parent = i THEN 1 ELSE 0)
    <3>1. Id \notin MadeOf(nodes, i) BY <1>3 DEF MadeOf
    <3>2. IsFiniteSet(MadeOf(nodes, i)) /\ Cardinality(MadeOf(nodes, i)) \in Nat BY <1>5, <1>6
    <3>3. Cardinality(MadeOf(nodes, i) \cup {Id}) = Cardinality(MadeOf(nodes, i)) + 1
      BY <3>1, <3>2, FS_AddElement
    <3> QED BY <2>5, <3>2, <3>3
  <2>7. Cardinality(MadeOf(nodes, i)) \in Nat BY <1>5, <1>6
  <2> QED BY <2>1, <2>2, <2>4, <2>6, <2>7
<1>7. CASE i = Id
  <2>1. n.type = "choice" /\ ns[i] = n BY <1>3, <1>7 DEF ChoiceIds
  <2>2. /\ Len(new) = n.u.numChoices /\ Len(new) \in Nat /\ DOMAIN new = 1 .. Len(new)
        /\ \A j \in DOMAIN new : new[j].kind = "visit" /\ new[j].parent = Id
        /\ \A j \in 1 .. Len(new) : td[j] = new[j] /\ j \in DOMAIN td
    BY <1>2, <2>1 DEF EntriesNew, Stacked
  <2>3. MadeOf(ns, i) = {}
    <3>1. \A j \in DOMAIN nodes : nodes[j].parent # Id BY <1>3, <1>4 DEF ShapeInv
    <3>2. n.parent # Id BY <1>1, <1>2 DEF NodeNew, TopOfTree
    <3> QED BY <1>3, <1>7, <3>1, <3>2 DEF MadeOf
  <2>4. LeftFor(td, i) = 1 .. Len(new)
    <3>1. \A k \in DOMAIN todo : todo[k].kind = "visit" => todo[k].parent # Id
      <4> SUFFICES ASSUME NEW k \in DOMAIN todo, todo[k].kind = "visit" PROVE todo[k].parent # Id
        OBVIOUS
      <4>1. EntryInv(game, DOMAIN size, nodes, todo[k]) BY DEF TreeInv
      <4>2. todo[k].parent \in 0 .. Len(nodes) BY <4>1 DEF EntryInv, PlaceInv
      <4> QED BY <1>1, <4>2 DEF TopOfTree
    <3>2. \A k \in DOMAIN td : k \in DOMAIN new \/ \E j \in DOMAIN todo : td[k] = todo[j]
      BY <1>2, Position
    <3>3. \A k \in LeftFor(td, i) : k \in 1 .. Len(new) BY <1>7, <2>2, <3>1, <3>2 DEF LeftFor
    <3>4. \A k \in 1 .. Len(new) : k \in LeftFor(td, i) BY <1>7, <2>2 DEF LeftFor
    <3> QED BY <3>3, <3>4
  <2>5. Cardinality(1 .. Len(new)) = Len(new)
    <3> DEFINE m == Len(new)
    <3>1. m \in Nat BY <2>2
    <3> HIDE DEF m
    <3>2. Cardinality(1 .. m) = IF 1 > m THEN 0 ELSE m - 1 + 1 BY <3>1, FS_Interval
    <3>3. Cardinality(1 .. m) = m BY <3>1, <3>2
    <3> QED BY <3>3 DEF m
  <2>6. Cardinality({}) = 0 BY FS_EmptySet
  <2> QED BY <2>1, <2>2, <2>3, <2>4, <2>5, <2>6
<1> QED BY <1>3, <1>6, <1>7 DEF ChoiceIds

LEMMA Built ==
  ASSUME TreeInv, TablesInv, NEW n, NEW new, Builds(n, new)
  PROVE  TablesInv'
<1>1. game' = game BY DEF Builds
<1>2. IndexInv(game', nodes', size') BY <1>1, IndexNext
<1> QED BY <1>2, ShapeNext, StackStep, FamilyNext, ImmNext, OpenOrShutNext DEF TablesInv

-----------------------------------------------------------------------------
(* The actions, and the tables                                             *)

NodeOf(type, u) ==
  [type |-> type, round |-> Top.hand.round, hand |-> Top.hand, tree |-> Top.tree,
   chance |-> Top.chance, parent |-> Top.parent, u |-> u]

LEMMA MadeNode ==
  ASSUME TreeInv, Visits, NEW type \in {"choice", "chance", "leaf", "subgame"},
         NEW u \in ChoiceU \cup ChanceU(game) \cup LeafU \cup SubgameU, Make(type, u)
  PROVE  Added(NodeType(game), nodes, NodeOf(type, u), nodes')
<1> DEFINE N == NodeType(game)
           n == NodeOf(type, u)
           ns == nodes'
<1>1. TopInv BY TopFacts
<1>2. n \in N /\ nodes \in Seq(N)
  <2>1. /\ Top \in VisitType(game) /\ Top.hand \in HandType(game)
        /\ Top.hand.round \in RoundsOf(game) /\ nodes \in Seq(NodeType(game))
    BY <1>1 DEF TopInv
  <2> QED BY <2>1 DEF NodeType, VisitType, NodeOf
<1>3. ns = Append(nodes, n) BY DEF Make, NodeOf
<1> HIDE DEF n, N, ns
<1>4. Adds(N, nodes, n, ns) BY <1>2, <1>3 DEF Adds
<1>5. Added(N, nodes, n, ns) BY <1>4, NodeAdded
<1> QED BY <1>5 DEF ns, N, n

(* What is below the top of the stack. *)
RestOK ==
  \A k \in 2 .. Len(todo) :
    /\ k \in DOMAIN todo /\ Over(nodes, Top, todo[k])
    /\ todo[k].kind = "close" => todo[k].node \in DOMAIN nodes /\ todo[k].node < Id
    /\ todo[k].kind = "visit" => todo[k].parent < Id

LEMMA RestFacts ==
  ASSUME TreeInv, TablesInv, todo # <<>>
  PROVE  RestOK /\ Id \in Nat /\ Id = Len(nodes) + 1 /\ DOMAIN nodes = 1 .. Id - 1
         /\ 1 \in DOMAIN todo /\ todo[1] = Top
<1>1. /\ todo \in Seq(VisitType(game) \cup CloseType) /\ nodes \in Seq(NodeType(game))
      /\ \A i \in DOMAIN todo : EntryInv(game, DOMAIN size, nodes, todo[i])
      /\ Ordered(nodes, todo)
  BY DEF TreeInv, TablesInv, StackInv
<1>2. /\ Len(todo) \in Nat \ {0} /\ DOMAIN todo = 1 .. Len(todo) /\ Top = todo[1]
      /\ Len(nodes) \in Nat /\ DOMAIN nodes = 1 .. Len(nodes)
  BY <1>1 DEF Top
<1>3. Id = Len(nodes) + 1 /\ Id \in Nat /\ Len(nodes) = Id - 1 BY <1>2 DEF Id
<1>4. ASSUME NEW k \in 2 .. Len(todo)
      PROVE  /\ k \in DOMAIN todo /\ Over(nodes, Top, todo[k])
             /\ todo[k].kind = "close" => todo[k].node \in DOMAIN nodes /\ todo[k].node < Id
             /\ todo[k].kind = "visit" => todo[k].parent < Id
  <2>1. k \in DOMAIN todo /\ 1 \in DOMAIN todo /\ 1 < k BY <1>2
  <2>2. Over(nodes, Top, todo[k]) BY <1>1, <1>2, <2>1 DEF Ordered
  <2>3. EntryInv(game, DOMAIN size, nodes, todo[k]) BY <1>1, <2>1
  <2>4. todo[k].kind = "close" => todo[k].node \in 1 .. Len(nodes)
    BY <1>2, <2>3 DEF EntryInv, IsChance
  <2>5. todo[k].kind = "visit" => todo[k].parent \in 0 .. Len(nodes)
    BY <2>3 DEF EntryInv, PlaceInv
  <2> QED BY <1>2, <1>3, <2>1, <2>2, <2>4, <2>5
<1> QED BY <1>2, <1>3, <1>4 DEF RestOK

LEMMA MakeSubgameBuilds ==
  ASSUME TreeInv, TablesInv, MakeSubgame
  PROVE  \E n, new : Builds(n, new) /\ Descends(n, new)
<1>1. Visits /\ todo # <<>> /\ UNCHANGED <<game, imm>> BY DEF MakeSubgame, Visits
<1>2. TopInv BY <1>1, TopFacts
<1>3. PICK m \in Nat \ {0} : /\ size \in [0 .. m - 1 -> SizesOf(game)] /\ DOMAIN size = 0 .. m - 1
                             /\ Cardinality(DOMAIN size) = m
  BY TreesCounted DEF TreeInv
<1> DEFINE u == [index |-> m - 1]
           n == NodeOf("subgame", u)
           v == Visit(Top.hand, -1, -1, m, 0, Id)
           new == <<v>>
           ns == nodes'
           T == VisitType(game) \cup CloseType
<1>4. Make("subgame", u) /\ size' = With(size, m, NoSizes) /\ todo' = new \o Tail(todo)
  BY <1>3 DEF MakeSubgame, Trees
<1>5. u \in ChoiceU \cup ChanceU(game) \cup LeafU \cup SubgameU BY DEF SubgameU
<1>6. "subgame" \in {"choice", "chance", "leaf", "subgame"} OBVIOUS
<1> HIDE DEF u
<1>7. Added(NodeType(game), nodes, n, nodes') BY <1>1, <1>4, <1>5, <1>6, MadeNode
<1>8. RestOK /\ Id \in Nat /\ Id = Len(nodes) + 1 /\ DOMAIN nodes = 1 .. Id - 1 /\ todo[1] = Top
  BY <1>1, RestFacts
<1>9. /\ v.kind = "visit" /\ v.tree = m /\ v.parent = Id /\ v.last = -1
      /\ v.split = -1 /\ v.hand = Top.hand /\ v.chance = 0
  BY DEF Visit
<1>10. v \in T
  <2>1. game.numRounds \in Nat \ {0} /\ Top.hand \in HandType(game) BY <1>2 DEF TopInv, GameOK
  <2> QED BY <1>8, <2>1 DEF Visit, VisitType
<1>11. todo \in Seq(T) BY DEF TreeInv
<1> HIDE DEF v, T
<1>12. new \in Seq(T) /\ DOMAIN new = {1} /\ new[1] = v BY <1>10
<1> HIDE DEF new
<1>13. Stacked(todo, new, todo')
  <2> DEFINE td == todo'
  <2>1. td = new \o Tail(todo) BY <1>4
  <2> HIDE DEF td
  <2>2. Stacked(todo, new, td) BY <1>1, <1>11, <1>12, <2>1, StackedFacts
  <2> QED BY <2>2 DEF td
<1>14. OnTop(ns, todo, new)
  <2>1. \A i \in DOMAIN nodes : ns[i] = nodes[i] BY <1>7 DEF Added
  <2>2. \A i \in DOMAIN nodes : nodes[i].tree # m
    <3>1. \A i \in DOMAIN nodes : NodeInv(game, size, nodes[i]) BY DEF TreeInv
    <3>2. m \notin DOMAIN size BY <1>3
    <3> QED BY <3>1, <3>2 DEF NodeInv
  <2> HIDE DEF ns
  <2>3. Ordered(ns, new) BY <1>12 DEF Ordered
  <2>4. ASSUME NEW k \in 2 .. Len(todo) PROVE Over(ns, v, todo[k])
    BY <1>8, <1>9, <2>1, <2>2 DEF RestOK, Over
  <2>5. LastDealt(ns, v) BY <1>9 DEF LastDealt
  <2> QED BY <1>9, <1>12, <2>3, <2>4, <2>5 DEF OnTop
<1>15. /\ n.type = "subgame" /\ n.parent = Top.parent /\ n.tree = Top.tree /\ n.chance = Top.chance
       /\ n.round = Top.hand.round /\ n.u.index \in Nat /\ n.u.index + 1 = m
  <2>1. n.u.index \in Nat /\ n.u.index + 1 = m BY <1>3 DEF NodeOf, u
  <2> QED BY <2>1 DEF NodeOf
<1> HIDE DEF n, ns
<1>16. NodeNew(n) BY <1>15 DEF NodeNew
<1>17. EntriesNew(n, new) BY <1>9, <1>12, <1>15 DEF EntriesNew
<1>18. CountsNext(n) /\ m \in DOMAIN size'
  <2>1. /\ size' \in [0 .. m - 1 \cup {m} -> SizesOf(game)] /\ size'[m] = NoSizes
        /\ \A t \in 0 .. m - 1 : t # m => size'[t] = size[t]
    <3> DEFINE sz == size'
               S == SizesOf(game)
               z == NoSizes
               ts == 0 .. m - 1
    <3>1. size \in [ts -> S] /\ z \in S /\ sz = With(size, m, z) BY <1>3, <1>4, NoSizesFacts
    <3> HIDE DEF sz, S, z, ts
    <3>2. sz \in [ts \cup {m} -> S] /\ sz[m] = z /\ \A t \in ts : t # m => sz[t] = size[t]
      BY <3>1 DEF With
    <3> QED BY <3>2 DEF sz, S, z, ts
  <2>2. DOMAIN size' = DOMAIN size \cup {m} /\ \A t \in DOMAIN size : size'[t] = size[t]
    BY <1>3, <2>1
  <2>3. \A t, p, r : Entered(n, t, p, r) = 0 BY <1>15 DEF Entered
  <2>4. \A c, p : EnteredBlock(n, c, p) = 0 BY <1>15 DEF EnteredBlock
  <2>5. \A t \in DOMAIN size, r \in RoundsOf(game), p \in Players :
          size'[t][r][p] = size[t][r][p] + Entered(n, t, p, r)
    BY <2>2, <2>3, SizesAreNat
  <2>6. \A c \in ChanceNodes, p \in Players : imm'[c][p] = imm[c][p] + EnteredBlock(n, c, p)
    BY <1>1, <2>4, ImmsAreNat
  <2>7. \A r \in RoundsOf(game), p \in Players : size'[m][r][p] = 0
    BY <2>1 DEF NoSizes, Rounds
  <2> QED BY <1>15, <2>2, <2>5, <2>6, <2>7 DEF CountsNext
<1>19. Builds(n, new)
  BY <1>1, <1>7, <1>8, <1>13, <1>14, <1>16, <1>17, <1>18 DEF Builds, ns
<1>20. Descends(n, new)
  <2>1. Deals /\ Top.hand.round = Top.split BY DEF MakeSubgame
  <2>2. m \notin DOMAIN size BY <1>3
  <2>3. \A i \in DOMAIN new : Continues(n, new[i]) BY <1>9, <1>12, <1>15, <2>2 DEF Continues
  <2> QED BY <1>9, <1>12, <1>15, <1>18, <2>1, <2>3 DEF Descends
<1> QED BY <1>19, <1>20

LEMMA MakeChanceBuilds ==
  ASSUME TreeInv, TablesInv, MakeChance
  PROVE  \E n, new : Builds(n, new) /\ Descends(n, new)
<1>1. Visits /\ todo # <<>> /\ Deals /\ UNCHANGED <<game, size>> BY DEF MakeChance, Visits
<1>2. TopInv BY <1>1, TopFacts
<1>3. /\ Top.hand.round \in Nat /\ Top.last \in Int /\ Top.hand.round > Top.last
      /\ Top.hand.round \in RoundsOf(game) /\ Top \in VisitType(game)
      /\ Top.tree \in DOMAIN size /\ size[Top.tree] \in SizesOf(game)
  <2>1. /\ Top.hand.round \in RoundsOf(game) /\ Top \in VisitType(game) /\ GameOK(game)
        /\ Top.tree \in DOMAIN size /\ SizeInv(game, size)
    BY <1>2 DEF TopInv, PlaceInv, TreeInv
  <2>2. size[Top.tree] \in SizesOf(game) BY <2>1 DEF SizeInv
  <2> QED BY <1>1, <2>1, <2>2 DEF RoundsOf, GameOK, VisitType, Deals
<1> DEFINE u == [before |-> size[Top.tree], bettingTreeSize |-> NoSizes, closed |-> FALSE]
           n == NodeOf("chance", u)
           v == Visit(Top.hand, Top.split, Top.hand.round, Top.tree, Id, Id)
           c == [kind |-> "close", node |-> Id]
           new == <<v, c>>
           ns == nodes'
           T == VisitType(game) \cup CloseType
<1>4. Make("chance", u) /\ imm' = With(imm, Id, FirstImm) /\ todo' = new \o Tail(todo)
  BY DEF MakeChance
<1>5. u \in ChanceU(game) BY <1>3, NoSizesFacts DEF ChanceU
<1>6. u \in ChoiceU \cup ChanceU(game) \cup LeafU \cup SubgameU BY <1>5
<1>7. ~u.closed /\ u.before = size[Top.tree] OBVIOUS
<1> HIDE DEF u
<1>8. "chance" \in {"choice", "chance", "leaf", "subgame"} OBVIOUS
<1>9. Added(NodeType(game), nodes, n, nodes') BY <1>1, <1>4, <1>6, <1>8, MadeNode
<1>10. RestOK /\ Id \in Nat /\ Id = Len(nodes) + 1 /\ DOMAIN nodes = 1 .. Id - 1 /\ todo[1] = Top
  BY <1>1, RestFacts
<1>11. /\ v.kind = "visit" /\ v.tree = Top.tree /\ v.parent = Id /\ v.last = Top.hand.round
       /\ v.chance = Id /\ v.hand = Top.hand /\ v.split = Top.split
  BY DEF Visit
<1>12. v \in T
  <2>1. game.numRounds \in Nat \ {0} /\ Top.hand \in HandType(game) BY <1>2 DEF TopInv, GameOK
  <2> QED BY <1>3, <1>10, <2>1 DEF Visit, VisitType, RoundsOf
<1>13. c \in T /\ c.kind = "close" /\ c.node = Id BY <1>10 DEF CloseType
<1>14. todo \in Seq(T) BY DEF TreeInv
<1> HIDE DEF v, c, T
<1>15. new \in Seq(T) /\ DOMAIN new = {1, 2} /\ new[1] = v /\ new[2] = c BY <1>12, <1>13
<1> HIDE DEF new
<1>16. Stacked(todo, new, todo')
  <2> DEFINE td == todo'
  <2>1. td = new \o Tail(todo) BY <1>4
  <2> HIDE DEF td
  <2>2. Stacked(todo, new, td) BY <1>1, <1>14, <1>15, <2>1, StackedFacts
  <2> QED BY <2>2 DEF td
<1>17. /\ n.type = "chance" /\ n.parent = Top.parent /\ n.tree = Top.tree /\ n.chance = Top.chance
       /\ n.round = Top.hand.round /\ n.u = u
  BY DEF NodeOf
<1> HIDE DEF n
<1>18. OnTop(ns, todo, new)
  <2>1. ns[Id] = n /\ \A i \in DOMAIN nodes : ns[i] = nodes[i] BY <1>9, <1>10 DEF Added
  <2> HIDE DEF ns
  <2>2. Over(ns, v, c) BY <1>3, <1>10, <1>11, <1>13, <1>17, <2>1 DEF Over
  <2>3. Ordered(ns, new)
    <3>1. \A i, j \in {1, 2} : i < j => i = 1 /\ j = 2 OBVIOUS
    <3> QED BY <1>15, <2>2, <3>1 DEF Ordered
  <2>4. ASSUME NEW k \in 2 .. Len(todo) PROVE Over(ns, v, todo[k])
    <3>1. CASE todo[k].kind = "close"
      <4> DEFINE f == todo[k].node
      <4>1. f \in 1 .. Id - 1 /\ ns[f] = nodes[f] /\ Over(nodes, Top, todo[k])
        BY <1>10, <2>1, <3>1 DEF RestOK
      <4>2. Top.tree = nodes[f].tree => Top.last >= nodes[f].round
        BY <1>1, <3>1, <4>1 DEF Over, Visits
      <4>3. nodes[f].round \in Nat
        <5>1. nodes[f] \in NodeType(game) BY <1>10, <4>1 DEF TreeInv
        <5>2. nodes[f].round \in RoundsOf(game) BY <5>1 DEF NodeType
        <5> QED BY <1>2, <5>2 DEF TopInv, GameOK, RoundsOf
      <4> HIDE DEF f
      <4>4. v.tree = ns[f].tree => v.last > ns[f].round BY <1>3, <1>11, <4>1, <4>2, <4>3
      <4>5. v.parent >= f BY <1>10, <1>11, <4>1
      <4>6. v.tree = ns[f].tree => v.last >= ns[f].round /\ v.last # ns[f].round
        <5>1. ns[f].round \in Nat /\ v.last \in Nat BY <1>3, <1>11, <4>1, <4>3
        <5> QED BY <4>4, <5>1
      <4> QED BY <1>11, <3>1, <4>5, <4>6 DEF Over, f
    <3>2. CASE todo[k].kind # "close" BY <1>11, <3>2 DEF Over
    <3> QED BY <3>1, <3>2
  <2>5. ASSUME NEW k \in 2 .. Len(todo) PROVE Over(ns, c, todo[k])
    <3>1. /\ todo[k].kind = "close" => todo[k].node \in DOMAIN nodes /\ todo[k].node < Id
          /\ todo[k].kind = "visit" => todo[k].parent < Id
      BY <1>10 DEF RestOK
    <3>2. todo[k].kind = "close" => Id > todo[k].node BY <1>10, <3>1
    <3> QED BY <1>13, <3>1, <3>2 DEF Over
  <2>6. LastDealt(ns, v) BY <1>3, <1>11, <1>17, <2>1 DEF LastDealt
  <2>7. LastDealt(ns, c) BY <1>13 DEF LastDealt
  <2>8. \E k \in DOMAIN new : 1 < k /\ new[k].kind = "close" /\ new[k].node = v.chance
    BY <1>11, <1>13, <1>15
  <2> QED BY <1>13, <1>15, <2>3, <2>4, <2>5, <2>6, <2>7, <2>8 DEF OnTop
<1> HIDE DEF ns
<1>19. NodeNew(n) BY <1>7, <1>17 DEF NodeNew
<1>20. EntriesNew(n, new) BY <1>11, <1>13, <1>15, <1>17 DEF EntriesNew
<1>21. CountsNext(n)
  <2>1. \A t, p, r : Entered(n, t, p, r) = 0 BY <1>17 DEF Entered
  <2>2. \A x, p : EnteredBlock(n, x, p) = 0 BY <1>17 DEF EnteredBlock
  <2>3. \A t \in DOMAIN size, r \in RoundsOf(game), p \in Players :
          size'[t][r][p] = size[t][r][p] + Entered(n, t, p, r)
    BY <1>1, <2>1, SizesAreNat
  <2>4. imm \in [ChanceNodes -> [Players -> Nat]] /\ FirstImm \in [Players -> Nat]
    BY DEF TreeInv, FirstImm
  <2>5. imm'[Id] = FirstImm /\ \A x \in ChanceNodes : x # Id => imm'[x] = imm[x]
    <3> DEFINE im == imm'
               S == [Players -> Nat]
               z == FirstImm
               k == Id
               cs == ChanceNodes
    <3>1. imm \in [cs -> S] /\ z \in S /\ im = With(imm, k, z) BY <1>4, <2>4
    <3> HIDE DEF im, S, z, k, cs
    <3>2. im[k] = z /\ \A x \in cs : x # k => im[x] = imm[x] BY <3>1 DEF With
    <3> QED BY <3>2 DEF im, z, k, cs
  <2>6. \A x \in ChanceNodes : x # Id BY <1>10 DEF ChanceNodes
  <2>7. \A x \in ChanceNodes, p \in Players : imm'[x][p] = imm[x][p] + EnteredBlock(n, x, p)
    BY <2>2, <2>5, <2>6, ImmsAreNat
  <2>8. \A p \in Players : imm'[Id][p] = 0 BY <2>5 DEF FirstImm
  <2> QED BY <1>1, <2>3, <2>7, <2>8 DEF CountsNext
<1>22. Builds(n, new)
  BY <1>1, <1>9, <1>10, <1>16, <1>18, <1>19, <1>20, <1>21 DEF Builds, ns
<1>23. Descends(n, new)
  <2>1. Deals /\ Top.hand.round # Top.split BY DEF MakeChance
  <2>2. Continues(n, v) BY <1>11, <1>17 DEF Continues
  <2> QED BY <1>11, <1>13, <1>15, <1>17, <2>1, <2>2 DEF Descends
<1> QED BY <1>22, <1>23

LEMMA MakeLeafBuilds ==
  ASSUME TreeInv, TablesInv, MakeLeaf
  PROVE  \E n, new : Builds(n, new) /\ Descends(n, new)
<1>1. Visits /\ todo # <<>> /\ UNCHANGED <<game, size, imm>> /\ todo' = Tail(todo)
  BY DEF MakeLeaf, Visits
<1>2. TopInv BY <1>1, TopFacts
<1> DEFINE h == Top.hand
           folder == {p \in Players : h.playerFolded[p]}
           sign(p) == IF p \in folder THEN -1 ELSE 1
           stake == IF folder = {} THEN h.spent[0] ELSE h.spent[CHOOSE p \in folder : TRUE]
           u == [isShowdown |-> folder = {}, value |-> [p \in Players |-> sign(p) * stake]]
           n == NodeOf("leaf", u)
           new == <<>>
           ns == nodes'
           T == VisitType(game) \cup CloseType
<1>3. Make("leaf", u) BY DEF MakeLeaf
<1>4. u \in LeafU
  <2>1. h.spent \in [Players -> Nat] BY <1>2 DEF TopInv, HandType
  <2>2. folder # {} => (CHOOSE p \in folder : TRUE) \in Players OBVIOUS
  <2>3. stake \in Nat BY <2>1, <2>2, Two
  <2>4. \A p \in Players : sign(p) \in Int OBVIOUS
  <2> HIDE DEF stake, sign
  <2>5. \A p \in Players : sign(p) * stake \in Int BY <2>3, <2>4
  <2> QED BY <2>5 DEF LeafU
<1> HIDE DEF u
<1>5. u \in ChoiceU \cup ChanceU(game) \cup LeafU \cup SubgameU BY <1>4
<1>6. "leaf" \in {"choice", "chance", "leaf", "subgame"} OBVIOUS
<1>7. Added(NodeType(game), nodes, n, nodes') BY <1>1, <1>3, <1>5, <1>6, MadeNode
<1>8. todo[1] = Top BY <1>1, RestFacts
<1>9. new \in Seq(T) /\ DOMAIN new = {} /\ todo \in Seq(T) BY DEF TreeInv
<1>10. todo' = new \o Tail(todo)
  <2>1. Tail(todo) \in Seq(T) BY <1>1, <1>9, HeadTailProperties
  <2> QED BY <1>1, <2>1, ConcatEmptySeq
<1> HIDE DEF new, T
<1>11. Stacked(todo, new, todo')
  <2> DEFINE td == todo'
  <2>1. td = new \o Tail(todo) BY <1>10
  <2> HIDE DEF td
  <2>2. Stacked(todo, new, td) BY <1>1, <1>9, <2>1, StackedFacts
  <2> QED BY <2>2 DEF td
<1>12. OnTop(ns, todo, new) BY <1>9 DEF OnTop, Ordered
<1>13. /\ n.type = "leaf" /\ n.parent = Top.parent /\ n.tree = Top.tree /\ n.chance = Top.chance
       /\ n.round = Top.hand.round
  BY DEF NodeOf
<1> HIDE DEF n, ns
<1>14. NodeNew(n) BY <1>13 DEF NodeNew
<1>15. EntriesNew(n, new) BY <1>9, <1>13 DEF EntriesNew
<1>16. CountsNext(n)
  <2>1. \A t, p, r : Entered(n, t, p, r) = 0 BY <1>13 DEF Entered
  <2>2. \A x, p : EnteredBlock(n, x, p) = 0 BY <1>13 DEF EnteredBlock
  <2>3. \A t \in DOMAIN size, r \in RoundsOf(game), p \in Players :
          size'[t][r][p] = size[t][r][p] + Entered(n, t, p, r)
    BY <1>1, <2>1, SizesAreNat
  <2>4. \A x \in ChanceNodes, p \in Players : imm'[x][p] = imm[x][p] + EnteredBlock(n, x, p)
    BY <1>1, <2>2, ImmsAreNat
  <2> QED BY <1>1, <1>13, <2>3, <2>4 DEF CountsNext
<1>17. Builds(n, new)
  BY <1>1, <1>7, <1>8, <1>11, <1>12, <1>14, <1>15, <1>16 DEF Builds, ns
<1>18. Descends(n, new)
  <2>1. ~Deals BY DEF MakeLeaf
  <2> QED BY <1>9, <1>13, <2>1 DEF Descends
<1> QED BY <1>17, <1>18

(* An action never takes a hand back to an earlier round. *)
LEMMA RoundOnward ==
  ASSUME NEW g, GameOK(g), NEW h \in HandType(g), NEW a, a.type \in {"fold", "call", "raise"}
  PROVE  /\ DoAction(g, h, a).round \in {h.round, h.round + 1, g.numRounds - 1}
         /\ DoAction(g, h, a).round >= h.round
<1> DEFINE k == Played(g, h, a)
<1>1. h.round \in RoundsOf(g) /\ g.numRounds \in Nat BY DEF HandType, GameOK
<1>2. h.round \in Nat /\ h.round <= g.numRounds - 1 BY <1>1 DEF RoundsOf
<1>3. k.round = h.round /\ DOMAIN k = DOMAIN h
  <2>1. DOMAIN h = {"spent", "maxSpent", "minNoLimitRaiseTo", "action", "round", "finished",
                    "playerFolded"}
    BY DEF HandType
  <2>2. CASE a.type = "fold" BY <2>1, <2>2 DEF Played
  <2>3. CASE a.type = "call" BY <2>1, <2>3 DEF Played
  <2>4. CASE a.type = "raise" BY <2>1, <2>4 DEF Played
  <2> QED BY <2>2, <2>3, <2>4
<1>4. DOMAIN k = {"spent", "maxSpent", "minNoLimitRaiseTo", "action", "round", "finished",
                  "playerFolded"}
  BY <1>3 DEF HandType
<1> HIDE DEF k
<1>5. DoAction(g, h, a).round \in {k.round, k.round + 1, g.numRounds - 1}
  <2>1. \A x : [k EXCEPT !.finished = x].round = k.round BY <1>4
  <2>2. \A x, y : [k EXCEPT !.round = x, !.minNoLimitRaiseTo = y].round = x BY <1>4
  <2>3. \A x, y : [k EXCEPT !.finished = x, !.round = y].round = y BY <1>4
  <2> QED BY <2>1, <2>2, <2>3 DEF DoAction, k
<1> QED BY <1>2, <1>3, <1>5

(* One counter, with m more in it. *)
CountUp(sz, sz2, t, r, p, m) == sz2 = [sz EXCEPT ![t][r][p] = @ + m]
CountsUp(sz, sz2, t, r, p, m) ==
  /\ DOMAIN sz2 = DOMAIN sz
  /\ \A t2 \in DOMAIN sz, r2 \in RoundsOf(game), p2 \in Players :
       sz2[t2][r2][p2] = sz[t2][r2][p2] + (IF t2 = t /\ r2 = r /\ p2 = p THEN m ELSE 0)

LEMMA CountsAdded ==
  ASSUME TreeInv, NEW t \in DOMAIN size, NEW r \in RoundsOf(game), NEW p \in Players,
         NEW m \in Nat, CountUp(size, size', t, r, p, m)
  PROVE  CountsUp(size, size', t, r, p, m)
<1>1. \A x \in DOMAIN size : size[x] \in [RoundsOf(game) -> [Players -> Nat]]
  BY DEF TreeInv, SizeInv, SizesOf
<1> DEFINE sz == size
           sz2 == size'
<1>2. DOMAIN sz2 = DOMAIN sz BY DEF CountUp
<1>3. ASSUME NEW t2 \in DOMAIN sz, NEW r2 \in RoundsOf(game), NEW p2 \in Players
      PROVE  sz2[t2][r2][p2] = sz[t2][r2][p2] + (IF t2 = t /\ r2 = r /\ p2 = p THEN m ELSE 0)
  <2>1. sz2[t2] = IF t2 = t THEN [sz[t] EXCEPT ![r][p] = @ + m] ELSE sz[t2] BY DEF CountUp
  <2>2. sz[t] \in [RoundsOf(game) -> [Players -> Nat]] /\ sz[t2][r2][p2] \in Nat BY <1>1
  <2> HIDE DEF sz, sz2
  <2>3. CASE t2 = t
    <3> DEFINE x == sz[t]
    <3>1. sz2[t2] = [x EXCEPT ![r][p] = @ + m] /\ x \in [RoundsOf(game) -> [Players -> Nat]]
      BY <2>1, <2>2, <2>3
    <3> HIDE DEF x
    <3>2. sz2[t2][r2] = IF r2 = r THEN [x[r] EXCEPT ![p] = @ + m] ELSE x[r2] BY <3>1
    <3>3. x[r] \in [Players -> Nat] BY <3>1
    <3>4. sz2[t2][r2][p2] = IF r2 = r /\ p2 = p THEN x[r2][p2] + m ELSE x[r2][p2]
      BY <3>2, <3>3
    <3>5. x[r2][p2] = sz[t2][r2][p2] BY <2>3 DEF x
    <3> QED BY <2>2, <2>3, <3>4, <3>5
  <2>4. CASE t2 # t BY <2>1, <2>2, <2>4
  <2> QED BY <2>3, <2>4
<1> QED BY <1>2, <1>3 DEF CountsUp

LEMMA MakeChoiceBuilds ==
  ASSUME TreeInv, TablesInv, MakeChoice
  PROVE  \E n, new : Builds(n, new) /\ Descends(n, new)
<1> DEFINE h == Top.hand
           p == CurrentPlayer(game, h)
           m == NumChoices(h)
           acts == ActionsFrom(h)
           child(i) == Visit(DoAction(game, h, acts[i]), Top.split, Top.last,
                             Top.tree, Top.chance, Id)
           new == [i \in DOMAIN acts |-> child(i)]
           u == [playerActing |-> p, numChoices |-> m,
                 index |-> size[Top.tree][h.round][p], immIndex |-> imm[Top.chance][p]]
           n == NodeOf("choice", u)
           ns == nodes'
           T == VisitType(game) \cup CloseType
<1>1. /\ Visits /\ todo # <<>> /\ ~Deals /\ ~h.finished /\ game' = game
      /\ Make("choice", u)
      /\ size' = [size EXCEPT ![Top.tree][h.round][p] = @ + m]
      /\ imm' = [imm EXCEPT ![Top.chance][p] = @ + m]
      /\ todo' = new \o Tail(todo)
  BY DEF MakeChoice, Visits
<1>2. TopInv BY <1>1, TopFacts
<1>3. /\ GameOK(game) /\ HandInv(game, h) /\ h \in HandType(game) /\ h.round \in RoundsOf(game)
      /\ PlaceInv(DOMAIN size, nodes, Top) /\ Top \in VisitType(game) /\ Top.tree \in DOMAIN size
      /\ imm \in [ChanceNodes -> [Players -> Nat]]
  BY <1>2 DEF TopInv, TreeInv, PlaceInv
<1>4. p \in Players BY <1>1, <1>3, Turn
<1>5. m \in Nat \ {0} /\ acts \in Seq(ValidActions(game, h)) /\ m = Len(acts)
  BY <1>1, <1>3, ActionsListed
<1>6. RestOK /\ Id \in Nat /\ Id = Len(nodes) + 1 /\ DOMAIN nodes = 1 .. Id - 1
      /\ todo[1] = Top /\ 1 \in DOMAIN todo
  BY <1>1, RestFacts
<1>7. /\ Top.last # -1 /\ h.round <= Top.last /\ h.round \in Nat /\ Top.last \in Int
      /\ Top.chance \in ChanceNodes /\ Top.chance \in DOMAIN nodes
      /\ nodes[Top.chance].round = Top.last /\ nodes[Top.chance].tree = Top.tree
      /\ h.round = Top.last
  <2>1. ~(h.round > Top.last) BY <1>1 DEF Deals
  <2>2. h.round \in Nat /\ Top.last \in Int BY <1>3 DEF RoundsOf, VisitType, GameOK
  <2>3. Top.last # -1 /\ h.round <= Top.last BY <2>1, <2>2
  <2>4. LastDealt(nodes, Top) BY <1>6 DEF TablesInv, StackInv
  <2>5. nodes[Top.chance].round = Top.last /\ nodes[Top.chance].tree = Top.tree
        /\ h.round >= Top.last
    BY <1>1, <2>3, <2>4 DEF LastDealt, Visits
  <2>6. h.round = Top.last BY <2>2, <2>3, <2>5
  <2> QED BY <1>3, <2>2, <2>3, <2>5, <2>6 DEF PlaceInv, IsChance, ChanceNodes
<1>8. \A i \in DOMAIN acts : DoAction(game, h, acts[i]).round >= h.round
  <2> TAKE i \in DOMAIN acts
  <2> DEFINE a == acts[i]
  <2>1. a \in ValidActions(game, h)
    <3> HIDE DEF acts
    <3> QED BY <1>5
  <2> HIDE DEF a, acts
  <2>2. a.type \in {"fold", "call", "raise"} BY <2>1 DEF ValidActions, Fold, Call
  <2>3. DoAction(game, h, a).round >= h.round BY <1>3, <2>2, RoundOnward
  <2> QED BY <2>3 DEF a
<1>9. \A i \in DOMAIN acts : GoodStep(game, h, DoAction(game, h, acts[i]))
  BY <1>1, <1>3, ChildIsGood
<1> HIDE DEF h, p, m, acts
<1>10. u \in ChoiceU
  <2>1. imm[Top.chance][p] \in Nat BY <1>3, <1>4, <1>7
  <2>2. size[Top.tree][h.round][p] \in Nat BY <1>3, <1>4, SizesAreNat
  <2> QED BY <1>4, <1>5, <2>1, <2>2 DEF ChoiceU
<1>11. /\ u.playerActing = p /\ u.numChoices = m /\ u.index = size[Top.tree][h.round][p]
       /\ u.immIndex = imm[Top.chance][p]
  OBVIOUS
<1> HIDE DEF u
<1>12. Added(NodeType(game), nodes, n, nodes')
  <2>1. u \in ChoiceU \cup ChanceU(game) \cup LeafU \cup SubgameU BY <1>10
  <2>2. "choice" \in {"choice", "chance", "leaf", "subgame"} OBVIOUS
  <2> HIDE DEF n
  <2> QED BY <1>1, <2>1, <2>2, MadeNode DEF n
<1>13. \A i \in DOMAIN acts :
         /\ child(i).kind = "visit" /\ child(i).tree = Top.tree /\ child(i).parent = Id
         /\ child(i).last = Top.last /\ child(i).chance = Top.chance
         /\ child(i).split = Top.split /\ child(i).hand = DoAction(game, h, acts[i])
  BY DEF Visit
<1>14. \A i \in DOMAIN acts : child(i) \in T
  <2> TAKE i \in DOMAIN acts
  <2> DEFINE d == DoAction(game, h, acts[i])
  <2>1. GoodStep(game, h, d) BY <1>9
  <2> HIDE DEF d
  <2>2. d \in HandType(game) BY <2>1 DEF GoodStep, HandInv
  <2>3. Visit(d, Top.split, Top.last, Top.tree, Top.chance, Id) \in T
    BY <1>3, <1>6, <2>2 DEF Visit, VisitType
  <2> QED BY <2>3 DEF d
<1>15. todo \in Seq(T) BY DEF TreeInv
<1> HIDE DEF T, child
<1>16. /\ new \in Seq(T) /\ DOMAIN new = DOMAIN acts /\ Len(new) = m
       /\ \A i \in DOMAIN new : new[i] = child(i)
  <2>1. DOMAIN acts = 1 .. Len(acts) /\ Len(acts) \in Nat BY <1>5
  <2>2. new \in [1 .. Len(acts) -> T] /\ \A i \in DOMAIN acts : new[i] = child(i)
    BY <1>14, <2>1
  <2> HIDE DEF new
  <2>3. new \in Seq(T) /\ Len(new) = Len(acts) /\ DOMAIN new = 1 .. Len(acts)
    BY <2>1, <2>2, SeqOfFunction
  <2> QED BY <1>5, <2>1, <2>2, <2>3
<1> HIDE DEF new
<1>17. \A i \in DOMAIN new :
         /\ new[i].kind = "visit" /\ new[i].tree = Top.tree /\ new[i].parent = Id
         /\ new[i].last = Top.last /\ new[i].chance = Top.chance
         /\ new[i].hand.round >= Top.last
  BY <1>7, <1>8, <1>13, <1>16
<1>18. Stacked(todo, new, todo')
  <2> DEFINE td == todo'
  <2>1. td = new \o Tail(todo) BY <1>1
  <2> HIDE DEF td
  <2>2. Stacked(todo, new, td) BY <1>1, <1>15, <1>16, <2>1, StackedFacts
  <2> QED BY <2>2 DEF td
<1>19. /\ n.type = "choice" /\ n.parent = Top.parent /\ n.tree = Top.tree /\ n.chance = Top.chance
       /\ n.round = Top.hand.round /\ n.u = u
  BY DEF NodeOf
<1> HIDE DEF n
<1>20. OnTop(ns, todo, new)
  <2>1. \A i \in DOMAIN nodes : ns[i] = nodes[i] BY <1>12 DEF Added
  <2> HIDE DEF ns
  <2>2. Ordered(ns, new) BY <1>17 DEF Ordered, Over
  <2>3. ASSUME NEW i \in DOMAIN new, NEW k \in 2 .. Len(todo) PROVE Over(ns, new[i], todo[k])
    <3>1. CASE todo[k].kind = "close"
      <4> DEFINE f == todo[k].node
      <4>1. f \in 1 .. Id - 1 /\ ns[f] = nodes[f] /\ Over(nodes, Top, todo[k])
        BY <1>6, <2>1, <3>1 DEF RestOK
      <4>2. Top.tree = nodes[f].tree =>
              Top.last >= nodes[f].round /\ (Top.last = nodes[f].round => Top.chance = f)
        BY <1>1, <3>1, <4>1 DEF Over, Visits
      <4>3. Id >= f BY <1>6, <4>1
      <4> HIDE DEF f
      <4> QED BY <1>17, <3>1, <4>1, <4>2, <4>3 DEF Over, f
    <3>2. CASE todo[k].kind # "close" BY <1>17, <3>2 DEF Over
    <3> QED BY <3>1, <3>2
  <2>4. \A i \in DOMAIN new : LastDealt(ns, new[i]) BY <1>7, <1>17, <2>1 DEF LastDealt
  <2>5. \E k \in 2 .. Len(todo) : todo[k].kind = "close" /\ todo[k].node = Top.chance
    <3>1. WillClose(todo) BY DEF TablesInv, StackInv
    <3>2. PICK k \in DOMAIN todo : 1 < k /\ todo[k].kind = "close" /\ todo[k].node = Top.chance
      BY <1>1, <1>6, <1>7, <3>1 DEF WillClose, Visits
    <3>3. k \in 2 .. Len(todo) BY <1>15, <3>2
    <3> QED BY <3>2, <3>3
  <2> QED BY <1>17, <2>2, <2>3, <2>4, <2>5 DEF OnTop
<1> HIDE DEF ns
<1>21. NodeNew(n) BY <1>7, <1>10, <1>11, <1>19 DEF NodeNew, h
<1>22. EntriesNew(n, new) BY <1>11, <1>16, <1>17, <1>19 DEF EntriesNew
<1>23. CountsNext(n)
  <2>1. /\ DOMAIN size' = DOMAIN size
        /\ \A t2 \in DOMAIN size, r2 \in RoundsOf(game), p2 \in Players :
             size'[t2][r2][p2] =
               size[t2][r2][p2] + (IF t2 = Top.tree /\ r2 = h.round /\ p2 = p THEN m ELSE 0)
    <3> DEFINE tt == Top.tree
               hr == h.round
    <3>1. tt \in DOMAIN size /\ hr \in RoundsOf(game) /\ p \in Players /\ m \in Nat
      BY <1>3, <1>4, <1>5
    <3>2. CountUp(size, size', tt, hr, p, m) BY <1>1 DEF CountUp
    <3> HIDE DEF tt, hr
    <3>3. /\ DOMAIN size' = DOMAIN size
          /\ \A t2 \in DOMAIN size, r2 \in RoundsOf(game), p2 \in Players :
               size'[t2][r2][p2] =
                 size[t2][r2][p2] + (IF t2 = tt /\ r2 = hr /\ p2 = p THEN m ELSE 0)
      <4>1. CountsUp(size, size', tt, hr, p, m) BY <3>1, <3>2, CountsAdded
      <4> QED BY <4>1 DEF CountsUp
    <3> QED BY <3>3 DEF tt, hr
  <2>2. \A t2, p2, r2 :
          Entered(n, t2, p2, r2) = IF t2 = Top.tree /\ r2 = h.round /\ p2 = p THEN m ELSE 0
    BY <1>11, <1>19 DEF Entered, IsOf, h
  <2>3. \A t2 \in DOMAIN size, r2 \in RoundsOf(game), p2 \in Players :
          size'[t2][r2][p2] = size[t2][r2][p2] + Entered(n, t2, p2, r2)
    BY <2>1, <2>2
  <2>4. ASSUME NEW c \in ChanceNodes, NEW q \in Players
        PROVE  imm'[c][q] = imm[c][q] + EnteredBlock(n, c, q)
    <3>1. EnteredBlock(n, c, q) = IF Top.chance = c /\ p = q THEN m ELSE 0
      BY <1>11, <1>19 DEF EnteredBlock
    <3>2. imm[c][q] \in Nat /\ imm[c] \in [Players -> Nat] BY <1>3
    <3>3. imm'[c][q] = IF Top.chance = c /\ p = q THEN imm[c][q] + m ELSE imm[c][q]
      <4> HIDE DEF n
      <4> QED BY <1>1, <1>3, <1>7, <3>2
    <3> QED BY <1>5, <3>1, <3>2, <3>3
  <2> QED BY <1>19, <2>1, <2>3, <2>4 DEF CountsNext
<1>24. Builds(n, new)
  BY <1>1, <1>6, <1>12, <1>18, <1>20, <1>21, <1>22, <1>23 DEF Builds, ns
<1>25. Descends(n, new)
  <2>0. 1 \in DOMAIN new
    <3>1. DOMAIN acts = 1 .. m BY <1>5
    <3> QED BY <1>5, <1>16, <3>1
  <2> SUFFICES ASSUME NEW i \in DOMAIN new PROVE Continues(n, new[i])
    BY <1>1, <1>17, <1>19, <2>0 DEF Descends, h
  <2>1. i \in DOMAIN acts /\ new[i] = child(i) BY <1>16
  <2>2. acts[i] \in ValidActions(game, h) BY <1>5, <2>1
  <2> QED BY <1>13, <1>19, <2>1, <2>2 DEF Continues, h
<1> QED BY <1>24, <1>25

(* What CloseChance does. *)
Closes(c) ==
  /\ todo # <<>> /\ Top.kind = "close" /\ Top.node = c /\ todo' = Tail(todo)
  /\ game' = game /\ size' = size /\ imm' = imm
  /\ IsChance(nodes, c) /\ nodes[c].round \in RoundsOf(game)
  /\ Keeps(nodes, nodes') /\ Len(nodes') = Len(nodes) /\ DOMAIN nodes' = DOMAIN nodes
  /\ \A i \in DOMAIN nodes : i # c => nodes'[i] = nodes[i]
  /\ nodes'[c].u.closed /\ nodes'[c].u.before = nodes[c].u.before
  /\ \A r \in RoundsOf(game), p \in Players : r >= nodes[c].round =>
       nodes'[c].u.bettingTreeSize[r][p] = Since(size, nodes[c], r, p)

LEMMA CloseFacts ==
  ASSUME TreeInv, CloseChance
  PROVE  Closes(Top.node)
<1> DEFINE k == Top.node
           n == nodes[k]
           after == size[n.tree]
           dealt == [r \in Rounds |-> [p \in Players |->
                      IF r >= n.round THEN after[r][p] - n.u.before[r][p] ELSE n.u.before[r][p]]]
           w == [n.u EXCEPT !.bettingTreeSize = dealt, !.closed = TRUE]
           m == [n EXCEPT !.u = w]
           T == VisitType(game) \cup CloseType
<1>1. /\ todo # <<>> /\ Top.kind = "close" /\ todo' = Tail(todo)
      /\ nodes' = [nodes EXCEPT ![k].u.bettingTreeSize = dealt, ![k].u.closed = TRUE]
      /\ UNCHANGED <<game, size, imm>>
  BY DEF CloseChance
<1>2. /\ game \in Games /\ nodes \in Seq(NodeType(game)) /\ todo \in Seq(T)
      /\ \A i \in DOMAIN nodes : NodeInv(game, size, nodes[i])
      /\ \A i \in DOMAIN todo : EntryInv(game, DOMAIN size, nodes, todo[i])
  BY DEF TreeInv
<1> HIDE DEF T
<1>3. k \in DOMAIN nodes /\ n.type = "chance"
  <2>1. 1 \in DOMAIN todo /\ Top = todo[1]
    <3>1. todo \in Seq(T) /\ todo # <<>> BY <1>1, <1>2
    <3> HIDE DEF k, n, after, dealt, w, m
    <3> QED BY <3>1 DEF Top
  <2>2. EntryInv(game, DOMAIN size, nodes, Top) BY <1>2, <2>1
  <2> QED BY <1>1, <2>2 DEF EntryInv, IsChance
<1>4. /\ Len(nodes) \in Nat /\ DOMAIN nodes = 1 .. Len(nodes) /\ n \in NodeType(game)
      /\ n.u \in ChanceU(game) /\ n.round \in RoundsOf(game)
  <2>1. Len(nodes) \in Nat /\ DOMAIN nodes = 1 .. Len(nodes) /\ n \in NodeType(game) BY <1>2, <1>3
  <2>2. NodeInv(game, size, n) BY <1>2, <1>3
  <2> HIDE DEF n
  <2> QED BY <1>3, <2>1, <2>2 DEF NodeInv, NodeType
<1>5. \A r \in RoundsOf(game), p \in Players : r >= n.round =>
        dealt[r][p] = Since(size, n, r, p)
  BY DEF Since, Rounds
<1> HIDE DEF dealt
<1>6. nodes' = [nodes EXCEPT ![k] = m]
  <2> HIDE DEF k
  <2> QED BY <1>1, <1>3, <1>4 DEF NodeType
<1>7. w.closed /\ w.before = n.u.before /\ w.bettingTreeSize = dealt
  <2> HIDE DEF n
  <2> QED BY <1>4 DEF ChanceU
<1> HIDE DEF w
<1>8. /\ m.u = w /\ m.type = n.type /\ m.round = n.round /\ m.hand = n.hand /\ m.tree = n.tree
      /\ m.parent = n.parent /\ m.chance = n.chance
  <2> HIDE DEF n
  <2> QED BY <1>4 DEF NodeType
<1> HIDE DEF m
<1> DEFINE ns == nodes'
<1>9. /\ Len(ns) = Len(nodes) /\ DOMAIN ns = DOMAIN nodes /\ ns[k] = m
      /\ \A i \in DOMAIN nodes : i # k => ns[i] = nodes[i]
  <2> HIDE DEF k, n
  <2>1. DOMAIN ns = DOMAIN nodes /\ ns[k] = m /\ \A i \in DOMAIN nodes : i # k => ns[i] = nodes[i]
    BY <1>3, <1>6
  <2>2. Len(ns) = Len(nodes) BY <1>2, <1>6
  <2> QED BY <2>1, <2>2
<1> HIDE DEF ns
<1>10. n = nodes[k] OBVIOUS
<1> HIDE DEF n, k
<1>11. Keeps(nodes, ns)
  <2>1. \A i \in DOMAIN nodes :
          /\ ns[i].type = nodes[i].type /\ ns[i].round = nodes[i].round
          /\ ns[i].hand = nodes[i].hand /\ ns[i].tree = nodes[i].tree
          /\ ns[i].parent = nodes[i].parent /\ ns[i].chance = nodes[i].chance
          /\ ns[i].type # "chance" => ns[i].u = nodes[i].u
    <3> TAKE i \in DOMAIN nodes
    <3>1. CASE i = k
      <4>1. m.type = "chance" BY <1>3, <1>8
      <4> QED BY <1>8, <1>9, <1>10, <3>1, <4>1
    <3>2. CASE i # k BY <1>9, <3>2
    <3> QED BY <3>1, <3>2
  <2>2. Extends(nodes, ns) BY <1>4, <1>9, <2>1 DEF Extends
  <2> QED BY <2>1, <2>2 DEF Keeps
<1>12. /\ ns[k].u.closed /\ ns[k].u.before = nodes[k].u.before
       /\ \A r \in RoundsOf(game), p \in Players : r >= nodes[k].round =>
            ns[k].u.bettingTreeSize[r][p] = Since(size, nodes[k], r, p)
  BY <1>5, <1>7, <1>8, <1>9, <1>10
<1>13. IsChance(nodes, k) BY <1>3, <1>10 DEF IsChance
<1> QED BY <1>1, <1>4, <1>9, <1>10, <1>11, <1>12, <1>13 DEF Closes, ns, k

LEMMA CloseTables ==
  ASSUME TreeInv, TablesInv, CloseChance
  PROVE  TablesInv'
<1> DEFINE c == Top.node
           ns == nodes'
           td == todo'
           new == <<>>
           T == VisitType(game) \cup CloseType
<1>1. Closes(c) BY CloseFacts
<1> HIDE DEF c
<1>2. /\ todo # <<>> /\ Top.kind = "close" /\ Top.node = c /\ td = Tail(todo)
      /\ game' = game /\ size' = size /\ imm' = imm
      /\ IsChance(nodes, c) /\ nodes[c].round \in RoundsOf(game)
      /\ Keeps(nodes, ns) /\ Len(ns) = Len(nodes) /\ DOMAIN ns = DOMAIN nodes
      /\ \A i \in DOMAIN nodes : i # c => ns[i] = nodes[i]
      /\ ns[c].u.closed /\ ns[c].u.before = nodes[c].u.before
      /\ \A r \in RoundsOf(game), p \in Players : r >= nodes[c].round =>
           ns[c].u.bettingTreeSize[r][p] = Since(size, nodes[c], r, p)
  BY <1>1 DEF Closes
<1>3. /\ ShapeInv(nodes) /\ StackInv(nodes, todo) /\ FamilyInv(nodes, todo)
      /\ IndexInv(game, nodes, size) /\ ImmInv(nodes, imm)
      /\ OpenOrShut(game, nodes, todo, size, imm)
  BY DEF TablesInv
<1>4. RestOK /\ Id \in Nat /\ Id = Len(nodes) + 1 /\ DOMAIN nodes = 1 .. Id - 1
      /\ todo[1] = Top /\ 1 \in DOMAIN todo
  BY <1>2, RestFacts
<1> HIDE DEF ns, td
<1>5. \A i \in DOMAIN nodes :
        /\ ns[i].type = nodes[i].type /\ ns[i].round = nodes[i].round
        /\ ns[i].tree = nodes[i].tree /\ ns[i].parent = nodes[i].parent
        /\ ns[i].chance = nodes[i].chance /\ (ns[i].type = "choice" => ns[i].u = nodes[i].u)
  BY <1>2 DEF Keeps, Extends
<1>6. Stacked(todo, new, td)
  <2>1. new \in Seq(T) /\ todo \in Seq(T) BY DEF TreeInv
  <2>2. Tail(todo) \in Seq(T) BY <1>2, <2>1, HeadTailProperties
  <2> HIDE DEF T
  <2>3. td = new \o Tail(todo) BY <1>2, <2>2, ConcatEmptySeq
  <2> HIDE DEF new
  <2> QED BY <1>2, <2>1, <2>3, StackedFacts
<1>7. DOMAIN new = {} OBVIOUS
<1> HIDE DEF new
<1>8. StackInv(ns, td)
  <2>1. OnTop(ns, todo, new) BY <1>7 DEF OnTop, Ordered
  <2>2. \A k \in DOMAIN todo : Refers(nodes, todo[k]) BY AllRefer
  <2> QED BY <1>2, <1>3, <1>6, <2>1, <2>2, StackNext
<1>9. ShapeInv(ns)
  <2>1. \A i : IsChance(nodes, i) => IsChance(ns, i) /\ i \in DOMAIN nodes BY <1>2, <1>5 DEF IsChance
  <2> SUFFICES ASSUME NEW i \in DOMAIN nodes
               PROVE  /\ ns[i].parent \in 0 .. i - 1
                      /\ ns[i].type = "choice" =>
                           /\ ns[i].u \in ChoiceU /\ IsChance(ns, ns[i].chance)
                           /\ ns[i].round = ns[ns[i].chance].round
                           /\ ns[i].tree = ns[ns[i].chance].tree
    BY <1>2 DEF ShapeInv
  <2>2. /\ nodes[i].parent \in 0 .. i - 1
        /\ nodes[i].type = "choice" =>
             /\ nodes[i].u \in ChoiceU /\ IsChance(nodes, nodes[i].chance)
             /\ nodes[i].round = nodes[nodes[i].chance].round
             /\ nodes[i].tree = nodes[nodes[i].chance].tree
    BY <1>3 DEF ShapeInv
  <2> QED BY <1>5, <2>1, <2>2
<1>10. FamilyInv(ns, td)
  <2> SUFFICES ASSUME NEW i \in ChoiceIds(ns)
               PROVE  ns[i].u.numChoices = Cardinality(MadeOf(ns, i)) + Cardinality(LeftFor(td, i))
    BY DEF FamilyInv
  <2>1. i \in ChoiceIds(nodes) /\ ns[i].u = nodes[i].u BY <1>2, <1>5 DEF ChoiceIds
  <2>2. MadeOf(ns, i) = MadeOf(nodes, i) BY <1>2, <1>5 DEF MadeOf
  <2>3. Cardinality(LeftFor(td, i)) = Cardinality(LeftFor(todo, i))
    <3>1. ~(todo[1].kind = "visit" /\ todo[1].parent = i) BY <1>2, <1>4
    <3> QED BY <1>6, <1>7, <3>1, LeftNext
  <2> QED BY <1>3, <2>1, <2>2, <2>3 DEF FamilyInv
<1>11. IndexInv(game, ns, size)
  <2> SUFFICES ASSUME NEW t \in DOMAIN size, NEW r \in RoundsOf(game), NEW p \in Players
               PROVE  SpanFills(ns, 0, t, 0, Len(ns), p, r, size[t][r][p])
    BY DEF IndexInv
  <2>1. SpanFills(nodes, 0, t, 0, Len(nodes), p, r, size[t][r][p]) BY <1>3 DEF IndexInv
  <2>2. Len(nodes) \in 0 .. Len(nodes) BY <1>4
  <2> QED BY <1>2, <2>1, <2>2, SpanStays
<1>12. ImmInv(ns, imm)
  <2> SUFFICES ASSUME NEW x \in DOMAIN ns, NEW p \in Players, ns[x].type = "chance"
               PROVE  BlockFills(ns, x, p, imm[x][p])
    BY DEF ImmInv
  <2>1. BlockFills(nodes, x, p, imm[x][p]) BY <1>2, <1>3, <1>5 DEF ImmInv
  <2> QED BY <1>2, <2>1, BlockStays
<1>13. \A k \in DOMAIN td : \E j \in 2 .. Len(todo) : j \in DOMAIN todo /\ td[k] = todo[j]
  BY <1>6, <1>7, Position
<1>14. \A j \in DOMAIN todo : j # 1 => \E k \in DOMAIN td : td[k] = todo[j]
  <2> SUFFICES ASSUME NEW j \in DOMAIN todo, j # 1 PROVE \E k \in DOMAIN td : td[k] = todo[j]
    OBVIOUS
  <2>1. /\ j \in 2 .. Len(todo) /\ Len(new) \in Nat /\ Len(todo) \in Nat
        /\ td[Len(new) + j - 1] = todo[j] /\ DOMAIN td = 1 .. Len(new) + Len(todo) - 1
    BY <1>6 DEF Stacked
  <2>2. Len(new) + j - 1 \in DOMAIN td BY <2>1
  <2> QED BY <2>1, <2>2
<1>15. \A b, e, t, p, r, x, y : y \in 0 .. Len(nodes) /\ SpanFills(nodes, b, t, e, y, p, r, x) =>
         SpanFills(ns, b, t, e, y, p, r, x)
  BY <1>2, SpanStays
<1>16. ASSUME NEW x \in DOMAIN nodes, nodes[x].type = "chance", x # c
       PROVE  OpenInv(game, ns, td, size, imm, x) \/ ShutInv(game, ns, td, imm, x)
  <2>1. ns[x] = nodes[x] BY <1>2, <1>16
  <2>2. CASE OpenInv(game, nodes, todo, size, imm, x)
    <3>1. PICK k \in DOMAIN todo : todo[k].kind = "close" /\ todo[k].node = x
      BY <2>2 DEF OpenInv
    <3>2. k # 1 BY <1>2, <1>4, <1>16, <3>1
    <3>3. \E j \in DOMAIN td : td[j].kind = "close" /\ td[j].node = x BY <1>14, <3>1, <3>2
    <3>4. \A i \in DOMAIN ns : x < i => ns[i].parent >= x BY <1>2, <1>5, <2>2 DEF OpenInv
    <3>5. \A r \in RoundsOf(game), p \in Players :
            SpanFills(ns, ns[x].u.before[r][p], ns[x].tree, x, Len(ns), p, r, Since(size, ns[x], r, p))
      <4>1. Len(nodes) \in 0 .. Len(nodes) BY <1>4
      <4> QED BY <1>2, <1>15, <2>1, <2>2, <4>1 DEF OpenInv
    <3> QED BY <2>1, <2>2, <3>3, <3>4, <3>5 DEF OpenInv
  <2>3. CASE ShutInv(game, nodes, todo, imm, x)
    <3>1. PICK e \in x .. Len(nodes) : ShutUpTo(game, nodes, todo, x, e) BY <2>3 DEF ShutInv
    <3>2. e \in 0 .. Len(nodes) BY <1>4, <3>1
    <3>3. Enclosed(ns, x, e)
      <4>1. Enclosed(nodes, x, e) BY <3>1 DEF ShutUpTo
      <4> QED BY <1>2, <1>5, <4>1 DEF Enclosed
    <3>4. \A k \in DOMAIN td : td[k].kind = "visit" => td[k].parent < x \/ e < td[k].parent
      BY <1>13, <3>1 DEF ShutUpTo
    <3>5. \A r \in RoundsOf(game), p \in Players : r >= ns[x].round =>
            SpanFills(ns, ns[x].u.before[r][p], ns[x].tree, x, e, p, r, ns[x].u.bettingTreeSize[r][p])
      BY <1>15, <2>1, <3>1, <3>2 DEF ShutUpTo
    <3>6. ShutUpTo(game, ns, td, x, e) BY <3>3, <3>4, <3>5 DEF ShutUpTo
    <3>7. \A k \in DOMAIN td : td[k].kind = "close" => td[k].node # x
      BY <1>13, <2>3 DEF ShutInv
    <3>8. \E d \in x .. Len(ns) : ShutUpTo(game, ns, td, x, d) BY <1>2, <3>1, <3>6
    <3> QED BY <2>1, <2>3, <3>7, <3>8 DEF ShutInv
  <2> QED BY <1>3, <1>16, <2>2, <2>3 DEF OpenOrShut
<1>17. ShutInv(game, ns, td, imm, c)
  <2>1. c \in DOMAIN nodes /\ nodes[c].type = "chance" /\ c \in 1 .. Id - 1
    BY <1>2, <1>4 DEF IsChance
  <2>2. ~ShutInv(game, nodes, todo, imm, c) BY <1>2, <1>4 DEF ShutInv
  <2>3. OpenInv(game, nodes, todo, size, imm, c) BY <1>3, <2>1, <2>2 DEF OpenOrShut
  <2> DEFINE e == Len(nodes)
  <2>4. e \in c .. Len(ns) /\ e \in 0 .. Len(nodes) /\ e = Id - 1 BY <1>2, <1>4, <2>1
  <2>5. Enclosed(ns, c, e)
    <3>1. \A i \in DOMAIN ns : c < i => ns[i].parent >= c BY <1>2, <1>5, <2>3 DEF OpenInv
    <3>2. \A i \in DOMAIN ns : ~(e < i) BY <1>2, <1>4, <2>4
    <3> QED BY <3>1, <3>2 DEF Enclosed
  <2>6. \A k \in DOMAIN td : /\ td[k].kind = "visit" => td[k].parent < c
                             /\ td[k].kind = "close" => td[k].node # c
    <3> TAKE k \in DOMAIN td
    <3>1. PICK j \in 2 .. Len(todo) : j \in DOMAIN todo /\ td[k] = todo[j] BY <1>13
    <3>2. Over(nodes, Top, todo[j]) BY <1>4 DEF RestOK
    <3>3. /\ todo[j].kind = "visit" => todo[j].parent < c
          /\ todo[j].kind = "close" => c > todo[j].node
      BY <1>2, <3>2 DEF Over
    <3>4. todo[j].kind = "close" => todo[j].node \in 1 .. Id - 1 BY <1>4 DEF RestOK
    <3>5. todo[j].kind = "close" => todo[j].node # c BY <1>4, <2>1, <3>3, <3>4
    <3> QED BY <3>1, <3>3, <3>5
  <2>7. \A r \in RoundsOf(game), p \in Players : r >= ns[c].round =>
          SpanFills(ns, ns[c].u.before[r][p], ns[c].tree, c, e, p, r, ns[c].u.bettingTreeSize[r][p])
    BY <1>2, <1>5, <1>15, <2>1, <2>3, <2>4 DEF OpenInv
  <2> HIDE DEF e
  <2>8. ShutUpTo(game, ns, td, c, e) BY <2>5, <2>6, <2>7 DEF ShutUpTo
  <2>9. \A p \in Players : imm[c][p] = ns[c].u.bettingTreeSize[ns[c].round][p]
    <3>1. nodes[c].round >= nodes[c].round
      <4>1. nodes[c].round \in Int BY <1>2 DEF RoundsOf
      <4> QED BY <4>1
    <3> QED BY <1>2, <1>5, <2>1, <2>3, <3>1 DEF OpenInv
  <2>10. \E d \in c .. Len(ns) : ShutUpTo(game, ns, td, c, d) BY <2>4, <2>8
  <2> QED BY <1>2, <2>6, <2>9, <2>10 DEF ShutInv
<1>18. OpenOrShut(game, ns, td, size, imm) BY <1>2, <1>5, <1>16, <1>17 DEF OpenOrShut
<1> QED BY <1>2, <1>8, <1>9, <1>10, <1>11, <1>12, <1>18 DEF TablesInv, ns, td

LEMMA InitTables ==
  ASSUME Init PROVE TablesInv
<1>1. PICK g \in Games : \E split \in {-1} \cup 1 .. g.numRounds - 1 :
        /\ game = g
        /\ todo = <<Visit(InitState(g), split, -1, 0, 0, 0)>>
        /\ nodes = <<>>
        /\ size = [t \in {0} |-> [r \in RoundsOf(g) |-> [p \in Players |-> 0]]]
        /\ imm = << >>
  BY DEF Init
<1>a. PICK split \in {-1} \cup 1 .. g.numRounds - 1 :
        todo = <<Visit(InitState(g), split, -1, 0, 0, 0)>>
  BY <1>1
<1> DEFINE v == Visit(InitState(g), split, -1, 0, 0, 0)
<1>2. v.kind = "visit" /\ v.last = -1 BY DEF Visit
<1>3. todo = <<v>> BY <1>a
<1> HIDE DEF v
<1>4. DOMAIN todo = {1} /\ todo[1] = v BY <1>3
<1>5. DOMAIN nodes = {} /\ ChoiceIds(nodes) = {} /\ Len(nodes) = 0 BY <1>1 DEF ChoiceIds
<1>6. ShapeInv(nodes) /\ FamilyInv(nodes, todo) /\ ImmInv(nodes, imm)
      /\ OpenOrShut(game, nodes, todo, size, imm)
  BY <1>5 DEF ShapeInv, FamilyInv, ImmInv, OpenOrShut
<1>7. StackInv(nodes, todo) BY <1>2, <1>4 DEF StackInv, Ordered, WillClose, LastDealt
<1>8. IndexInv(game, nodes, size)
  <2> SUFFICES ASSUME NEW t \in DOMAIN size, NEW r \in RoundsOf(game), NEW p \in Players
               PROVE  SpanFills(nodes, 0, t, 0, Len(nodes), p, r, size[t][r][p])
    BY DEF IndexInv
  <2>1. size[t][r][p] = 0 BY <1>1
  <2> QED BY <1>5, <2>1, SpanEmpty
<1> QED BY <1>6, <1>7, <1>8 DEF TablesInv

(* All others make a node. *)
LEMMA NodeBuilds ==
  ASSUME TreeInv, TablesInv, Build, ~CloseChance
  PROVE  \E n, new : Builds(n, new) /\ Descends(n, new)
BY MakeSubgameBuilds, MakeChanceBuilds, MakeLeafBuilds, MakeChoiceBuilds DEF Build

LEMMA BuildTables ==
  ASSUME TreeInv, TablesInv, Build PROVE TablesInv'
<1>1. CASE CloseChance BY <1>1, CloseTables
<1>2. CASE ~CloseChance
  <2>1. \E n, new : Builds(n, new) BY <1>2, NodeBuilds
  <2> QED BY <2>1, Built
<1> QED BY <1>1, <1>2

LEMMA SameTables ==
  ASSUME TablesInv, UNCHANGED vars PROVE TablesInv'
<1>1. game' = game /\ todo' = todo /\ nodes' = nodes /\ size' = size /\ imm' = imm BY DEF vars
<1> QED BY <1>1 DEF TablesInv

(* The inductive invariant of the indices and sizes, given the other one. *)
THEOREM Tables == Spec => []TablesInv
<1>1. Init => TablesInv BY InitTables
<1>2. TreeInv /\ TablesInv /\ [Next]_vars => TablesInv'
  BY BuildTables, SameTables DEF Next, Done
<1> QED BY <1>1, <1>2, Invariant, PTL DEF Spec

LEMMA IndicesFollow ==
  ASSUME TreeInv, TablesInv PROVE IndicesFit
<1> SUFFICES ASSUME NEW t \in Trees, NEW p \in Players, NEW r \in Rounds
             PROVE  LET ids == ChoicesOf({i \in ChoiceNodes : nodes[i].tree = t}, p, r)
                    IN Tile(ids, [i \in ids |-> nodes[i].u.index], size[t][r][p])
  BY DEF IndicesFit
<1> DEFINE ids == ChoicesOf({i \in ChoiceNodes : nodes[i].tree = t}, p, r)
           from == [i \in ids |-> nodes[i].u.index]
<1>1. Len(nodes) \in Nat /\ DOMAIN nodes = 1 .. Len(nodes)
  <2>1. nodes \in Seq(NodeType(game)) BY DEF TreeInv
  <2> QED BY <2>1
<1>2. ids = Span(nodes, t, 0, Len(nodes), p, r)
  BY <1>1 DEF ChoicesOf, ChoiceNodes, Span, ChoiceIds, IsOf
<1>3. SpanFills(nodes, 0, t, 0, Len(nodes), p, r, size[t][r][p])
  BY DEF TablesInv, IndexInv, Trees, Rounds
<1>4. \A i \in ids : i \in ChoiceIds(nodes) /\ nodes[i].u.index \in Nat
  BY DEF ChoicesOf, ChoiceNodes, ChoiceIds, TablesInv, ShapeInv, ChoiceU
<1>5. \A i \in ids : Lens(nodes)[i] = nodes[i].u.numChoices BY <1>4 DEF Lens
<1>6. \A i \in ids : ByIndex(nodes, 0)[i] = from[i] BY <1>4 DEF ByIndex
<1>7. Fills(Lens(nodes), ByIndex(nodes, 0), ids, size[t][r][p]) BY <1>2, <1>3 DEF SpanFills
<1> HIDE DEF ids, from
<1>8. Fills(Lens(nodes), from, ids, size[t][r][p]) BY <1>6, <1>7, FillsSame
<1>9. Tile(ids, from, size[t][r][p]) BY <1>5, <1>8, TileIsFills
<1> QED BY <1>9 DEF ids, from

LEMMA ChildrenFollow ==
  ASSUME TablesInv PROVE ChildrenComplete
BY DEF TablesInv, FamilyInv, ChildrenComplete, ChoiceIds, ChoiceNodes, MadeOf, LeftFor

LEMMA BlocksFollow ==
  ASSUME TreeInv, TablesInv PROVE BlocksFit
<1> SUFFICES ASSUME NEW c \in ChanceNodes, NEW p \in Players, nodes[c].u.closed
             PROVE
    /\ LET ids == {i \in ChoiceNodes : nodes[i].chance = c /\ nodes[i].u.playerActing = p}
       IN Tile(ids, [i \in ids |-> nodes[i].u.immIndex], nodes[c].u.bettingTreeSize[nodes[c].round][p])
    /\ \A r \in nodes[c].round .. game.numRounds - 1 :
         LET ids == {i \in ChoicesOf(Below(c), p, r) : nodes[i].tree = nodes[c].tree}
         IN Tile(ids, [i \in ids |-> nodes[i].u.index - nodes[c].u.before[r][p]],
                 nodes[c].u.bettingTreeSize[r][p])
  BY DEF BlocksFit
<1>1. /\ Len(nodes) \in Nat /\ DOMAIN nodes = 1 .. Len(nodes)
      /\ c \in DOMAIN nodes /\ nodes[c].type = "chance"
      /\ nodes[c].round \in RoundsOf(game) /\ game.numRounds \in Nat
  <2>1. nodes \in Seq(NodeType(game)) /\ c \in DOMAIN nodes /\ nodes[c].type = "chance"
    BY DEF TreeInv, ChanceNodes
  <2>2. nodes[c] \in NodeType(game) BY <2>1
  <2>3. game \in Games BY DEF TreeInv
  <2> QED BY <2>1, <2>2, <2>3, AllGamesOK DEF NodeType, GameOK
<1>2. ShutInv(game, nodes, todo, imm, c)
  BY <1>1 DEF TablesInv, OpenOrShut, OpenInv
<1>3. PICK e \in c .. Len(nodes) : ShutUpTo(game, nodes, todo, c, e) BY <1>2 DEF ShutInv
<1>4. \A i \in ChoiceIds(nodes) : nodes[i].u.index \in Nat /\ nodes[i].u.numChoices \in Nat
  BY DEF ChoiceIds, TablesInv, ShapeInv, ChoiceU
<1>5. ASSUME NEW ids, ids = {i \in ChoiceNodes : nodes[i].chance = c /\ nodes[i].u.playerActing = p}
      PROVE  Tile(ids, [i \in ids |-> nodes[i].u.immIndex], nodes[c].u.bettingTreeSize[nodes[c].round][p])
  <2> DEFINE from == [i \in ids |-> nodes[i].u.immIndex]
             x == nodes[c].u.bettingTreeSize[nodes[c].round][p]
  <2>1. ids = InBlock(nodes, c, p) BY <1>5 DEF InBlock, ChoiceIds, ChoiceNodes
  <2>2. BlockFills(nodes, c, p, x) BY <1>1, <1>2 DEF TablesInv, ImmInv, ShutInv
  <2>3. \A i \in ids : i \in ChoiceIds(nodes) BY <2>1 DEF InBlock
  <2>4. \A i \in ids : Lens(nodes)[i] = nodes[i].u.numChoices /\ from[i] = ByImm(nodes)[i]
    BY <2>3 DEF Lens, ByImm
  <2> HIDE DEF from, x
  <2>5. Fills(Lens(nodes), ByImm(nodes), ids, x) BY <2>1, <2>2 DEF BlockFills
  <2>6. Fills(Lens(nodes), from, ids, x) BY <2>4, <2>5, FillsSame
  <2>7. Tile(ids, from, x) BY <2>4, <2>6, TileIsFills
  <2> QED BY <2>7 DEF from, x
<1>6. Below(c) = {i \in DOMAIN nodes : c < i /\ i <= e}
  <2> DEFINE N == Len(nodes)
  <2>1. /\ N \in Nat /\ N = Len(nodes) /\ DOMAIN nodes = 1 .. N /\ c \in 1 .. N /\ e \in c .. N
        /\ \A i \in DOMAIN nodes : nodes[i].parent \in 0 .. i - 1 /\ Enclosed(nodes, c, e)
    BY <1>1, <1>3 DEF TablesInv, ShapeInv, ShutUpTo
  <2>2. Enclosed(nodes, c, e) BY <1>3 DEF ShutUpTo
  <2> HIDE DEF N
  <2> QED BY <2>1, <2>2, BelowIs
<1>7. ASSUME NEW r \in nodes[c].round .. game.numRounds - 1,
             NEW ids, ids = {i \in ChoicesOf(Below(c), p, r) : nodes[i].tree = nodes[c].tree}
      PROVE  Tile(ids, [i \in ids |-> nodes[i].u.index - nodes[c].u.before[r][p]],
                  nodes[c].u.bettingTreeSize[r][p])
  <2> DEFINE b == nodes[c].u.before[r][p]
             from == [i \in ids |-> nodes[i].u.index - b]
             x == nodes[c].u.bettingTreeSize[r][p]
             t == nodes[c].tree
  <2>1. ids = Span(nodes, t, c, e, p, r)
    BY <1>6, <1>7 DEF ChoicesOf, ChoiceNodes, Span, ChoiceIds, IsOf
  <2>2. r \in RoundsOf(game) /\ r >= nodes[c].round BY <1>1 DEF RoundsOf
  <2>3. SpanFills(nodes, b, t, c, e, p, r, x) BY <1>3, <2>2 DEF ShutUpTo
  <2>4. \A i \in ids : i \in ChoiceIds(nodes) BY <2>1 DEF Span
  <2>5. \A i \in ids : Lens(nodes)[i] = nodes[i].u.numChoices /\ from[i] = ByIndex(nodes, b)[i]
    BY <2>4 DEF Lens, ByIndex
  <2> HIDE DEF b, from, x, t
  <2>6. Fills(Lens(nodes), ByIndex(nodes, b), ids, x) BY <2>1, <2>3 DEF SpanFills
  <2>7. Fills(Lens(nodes), from, ids, x) BY <2>5, <2>6, FillsSame
  <2>8. Tile(ids, from, x) BY <2>5, <2>7, TileIsFills
  <2> QED BY <2>8 DEF from, x, b
<1> QED BY <1>5, <1>7

(* However the betting goes, the indices given to the choices of a tree    *)
(* fill its arrays, a choice has an entry for each child, and the blocks   *)
(* of a closed chance node and of all that is below it have no gap.        *)
THEOREM TablesFilled == WalkSpec => [](IndicesFit /\ ChildrenComplete /\ BlocksFit)
<1>1. TreeInv /\ TablesInv => IndicesFit /\ ChildrenComplete /\ BlocksFit
  BY IndicesFollow, ChildrenFollow, BlocksFollow
<1> QED BY <1>1, WalksKeepTree, Invariant, Tables, PTL

-----------------------------------------------------------------------------
(* Hands that skip no round                                                *)

(* A limit game in which the stacks are above all its blinds and raises:   *)
(* no bet is above b[r] when round r begins.                               *)
Roomy(g, b) ==
  /\ ~g.noLimit
  /\ \A p \in Players : g.blind[p] <= b[0]
  /\ \A r \in RoundsOf(g) : b[r + 1] = b[r] + g.maxRaises[r] * g.raiseSize[r]
  /\ \A r \in 0 .. g.numRounds : b[r] \in Nat /\ b[r] < g.stack[0]

(* Betting goes from round to round, since nobody is ever out of chips or  *)
(* since behind the first round there is only the last.                    *)
NoSkips(g) == g.numRounds <= 2 \/ \E b : Roomy(g, b)

(* What may still be raised in the round of h. *)
RoundRoom(g, b, h) ==
  /\ NumRaises(h) <= g.maxRaises[h.round]
  /\ h.maxSpent + (g.maxRaises[h.round] - NumRaises(h)) * g.raiseSize[h.round] <= b[h.round + 1]

Steady(g, h) == g.numRounds <= 2 \/ h.finished \/ \E b : Roomy(g, b) /\ RoundRoom(g, b, h)

LEMMA RaisesCounted ==
  ASSUME NEW h, NEW k, NEW t, NEW p, Actions(h) \in Seq(PlayedAction),
         [type |-> t, player |-> p] \in PlayedAction,
         Actions(k) = Append(Actions(h), [type |-> t, player |-> p])
  PROVE  NumRaises(h) \in Nat /\ NumRaises(k) = NumRaises(h) + (IF t = "raise" THEN 1 ELSE 0)
<1> DEFINE m == Len(Actions(h))
           x == Actions(h)
           y == Actions(k)
           S == {i \in DOMAIN x : x[i].type = "raise"}
           U == {i \in DOMAIN y : y[i].type = "raise"}
<1>1. /\ m \in Nat /\ DOMAIN x = 1 .. m /\ DOMAIN y = 1 .. m + 1
      /\ \A i \in 1 .. m : y[i] = x[i]
      /\ y[m + 1].type = t
  OBVIOUS
<1>2. NumRaises(h) = Cardinality(S) /\ NumRaises(k) = Cardinality(U) BY DEF NumRaises
<1> HIDE DEF x, y, m
<1>3. IsFiniteSet(S) /\ Cardinality(S) \in Nat
  <2>1. IsFiniteSet(1 .. m) BY <1>1, FS_Interval
  <2>2. S \subseteq 1 .. m BY <1>1
  <2> HIDE DEF S
  <2> QED BY <2>1, <2>2, FS_Subset, FS_CardinalityType
<1>4. m + 1 \notin S /\ U = IF t = "raise" THEN S \cup {m + 1} ELSE S BY <1>1
<1> HIDE DEF S, U
<1>5. Cardinality(S \cup {m + 1}) = Cardinality(S) + 1 BY <1>3, <1>4, FS_AddElement
<1> QED BY <1>2, <1>3, <1>4, <1>5

LEMMA RaisesAreNat ==
  ASSUME NEW g, NEW h \in HandType(g) PROVE NumRaises(h) \in Nat
<1>1. h.action \in [RoundsOf(g) -> Seq(PlayedAction)] /\ h.round \in RoundsOf(g) BY DEF HandType
<1>2. Actions(h) \in Seq(PlayedAction) BY <1>1 DEF Actions
<1> DEFINE x == Actions(h)
           S == {i \in DOMAIN x : x[i].type = "raise"}
<1>3. DOMAIN x = 1 .. Len(x) /\ Len(x) \in Nat BY <1>2
<1>4. IsFiniteSet(DOMAIN x) BY <1>3, FS_Interval
<1>5. NumRaises(h) = Cardinality(S) BY DEF NumRaises
<1>6. S \subseteq DOMAIN x OBVIOUS
<1> HIDE DEF S, x
<1>7. IsFiniteSet(S) BY <1>4, <1>6, FS_Subset
<1> QED BY <1>5, <1>7, FS_CardinalityType

LEMMA NoRaises ==
  ASSUME NEW h, Actions(h) = <<>> PROVE NumRaises(h) = 0
<1>1. {i \in DOMAIN Actions(h) : Actions(h)[i].type = "raise"} = {} OBVIOUS
<1> QED BY <1>1, FS_EmptySet DEF NumRaises

LEMMA Products ==
  ASSUME NEW m \in Nat, NEW n \in Nat, NEW s \in Nat, n <= m
  PROVE  /\ (m - n) * s \in Nat
         /\ n < m => (m - n) * s = (m - (n + 1)) * s + s
         /\ (m - 0) * s = m * s
<1>1. PICK q \in Nat : q = m - n OBVIOUS
<1>2. q * s \in Nat OBVIOUS
<1>3. n < m => (m - n) * s = (m - (n + 1)) * s + s
  <2> SUFFICES ASSUME n < m PROVE (m - n) * s = (m - (n + 1)) * s + s OBVIOUS
  <2>1. PICK w \in Nat : w = m - (n + 1) OBVIOUS
  <2>2. m - n = w + 1 BY <2>1
  <2>3. (w + 1) * s = w * s + s OBVIOUS
  <2> QED BY <2>1, <2>2, <2>3
<1> QED BY <1>1, <1>2, <1>3

(* A game has what Roomy speaks of. *)
LEMMA RoomFacts ==
  ASSUME NEW g, GameOK(g), NEW b, Roomy(g, b), NEW r \in RoundsOf(g)
  PROVE  /\ g.maxRaises[r] \in Nat /\ g.raiseSize[r] \in Nat /\ r \in Nat
         /\ b[r] \in Nat /\ b[r + 1] \in Nat /\ b[r + 1] < g.stack[0] /\ g.stack[0] \in Nat
         /\ b[r + 1] = b[r] + g.maxRaises[r] * g.raiseSize[r]
<1>1. g.numRounds \in Nat /\ r \in 0 .. g.numRounds /\ r + 1 \in 0 .. g.numRounds /\ r \in Nat
  BY DEF GameOK, RoundsOf
<1>2. g.maxRaises[r] \in Nat /\ g.raiseSize[r] \in Nat /\ g.stack[0] \in Nat
  BY DEF GameOK, Roomy
<1> QED BY <1>1, <1>2 DEF Roomy

(* A call leaves what may be raised, a raise takes one of it. *)
LEMMA RoomAfter ==
  ASSUME NEW g, GameOK(g), NEW b, Roomy(g, b), NEW h \in HandType(g), RoundRoom(g, b, h),
         NEW k, NEW t \in {"call", "raise"}, NEW p \in Players, NEW x, After(g, h, k, t, p, x),
         t = "call" => k.maxSpent <= h.maxSpent,
         t = "raise" => /\ k.maxSpent <= h.maxSpent + g.raiseSize[h.round]
                        /\ NumRaises(h) < g.maxRaises[h.round]
  PROVE  RoundRoom(g, b, k)
<1> DEFINE r == h.round
           m == g.maxRaises[r]
           s == g.raiseSize[r]
           n == NumRaises(h)
           e == b[r + 1]
<1>1. /\ k.round = r /\ k.maxSpent \in Nat /\ h.maxSpent \in Nat /\ r \in RoundsOf(g)
      /\ Actions(k) = Append(Actions(h), [type |-> t, player |-> p])
      /\ Actions(h) \in Seq(PlayedAction)
  BY DEF After, HandType, Actions
<1>2. [type |-> t, player |-> p] \in PlayedAction BY DEF PlayedAction
<1>3. n \in Nat /\ NumRaises(k) = n + (IF t = "raise" THEN 1 ELSE 0)
  BY <1>1, <1>2, RaisesCounted
<1>4. m \in Nat /\ s \in Nat /\ e \in Nat BY <1>1, RoomFacts
<1>5. n <= m /\ h.maxSpent + (m - n) * s <= e BY DEF RoundRoom
<1>6. t = "raise" => k.maxSpent <= h.maxSpent + s /\ n < m OBVIOUS
<1> HIDE DEF r, m, s, n, e
<1>7. (m - n) * s \in Nat /\ (n < m => (m - n) * s = (m - (n + 1)) * s + s)
  BY <1>3, <1>4, <1>5, Products
<1>8. CASE t = "call"
  <2>1. NumRaises(k) = n BY <1>3, <1>8
  <2>2. k.maxSpent + (m - n) * s <= e BY <1>1, <1>4, <1>5, <1>7, <1>8
  <2> QED BY <1>1, <1>5, <2>1, <2>2 DEF RoundRoom, r, m, s, e
<1>9. CASE t = "raise"
  <2>1. NumRaises(k) = n + 1 BY <1>3, <1>9
  <2>2. n + 1 <= m BY <1>3, <1>4, <1>6, <1>9
  <2>3. (m - (n + 1)) * s \in Nat BY <1>3, <1>4, <2>2, Products
  <2>4. k.maxSpent + (m - (n + 1)) * s <= e BY <1>1, <1>4, <1>5, <1>6, <1>7, <1>9, <2>3
  <2> QED BY <1>1, <2>1, <2>2, <2>4 DEF RoundRoom, r, m, s, e
<1> QED BY <1>8, <1>9

(* With room left, nobody is out of chips when a round ends. *)
LEMMA RoomOnward ==
  ASSUME NEW g, GameOK(g), NEW b, Roomy(g, b), NEW h, NEW a,
         NEW k, k = Played(g, h, a), k \in HandType(g), RoundRoom(g, b, k),
         \A p \in Players : ~k.playerFolded[p] /\ k.spent[p] <= k.maxSpent,
         \A r \in RoundsOf(g) : r > k.round => k.action[r] = <<>>
  PROVE  LET d == DoAction(g, h, a) IN d.round <= k.round + 1 /\ Steady(g, d)
<1> DEFINE d == DoAction(g, h, a)
           r == k.round
           m == g.maxRaises[r]
           s == g.raiseSize[r]
           n == NumRaises(k)
           e == b[r + 1]
<1>1. /\ r \in RoundsOf(g) /\ k.maxSpent \in Nat /\ \A p \in Players : k.spent[p] \in Nat
      /\ Actions(k) \in Seq(PlayedAction) /\ g.numRounds \in Nat
  BY DEF HandType, Actions, GameOK
<1>2. /\ m \in Nat /\ s \in Nat /\ r \in Nat /\ e \in Nat /\ e < g.stack[0] /\ g.stack[0] \in Nat
  BY <1>1, RoomFacts
<1>3. n \in Nat BY RaisesAreNat
<1>4. k.maxSpent <= e
  <2>1. n <= m /\ k.maxSpent + (m - n) * s <= e BY DEF RoundRoom
  <2> HIDE DEF n, m, s, e
  <2>2. (m - n) * s \in Nat BY <1>2, <1>3, <2>1, Products
  <2> QED BY <1>1, <1>2, <2>1, <2>2
<1>5. Cardinality(Acting(g, k)) = 2
  <2>1. \A p \in Players : k.spent[p] < g.stack[0] BY <1>1, <1>2, <1>4
  <2> QED BY <2>1, Numbers
<1>6. DOMAIN k = {"spent", "maxSpent", "minNoLimitRaiseTo", "action", "round", "finished",
                  "playerFolded"}
  BY DEF HandType
<1>7. \/ d = k \/ d = [k EXCEPT !.finished = TRUE]
      \/ /\ MoreRounds(g, k)
         /\ \E y : d = [k EXCEPT !.round = @ + 1, !.minNoLimitRaiseTo = y]
  <2> DEFINE y == k.maxSpent + Max({g.blind[p] : p \in Players} \cup {1})
  <2>1. Cardinality(Acting(g, k)) > 1 BY <1>5
  <2>2. \/ d = k \/ d = [k EXCEPT !.finished = TRUE]
        \/ MoreRounds(g, k) /\ d = [k EXCEPT !.round = @ + 1, !.minNoLimitRaiseTo = y]
    BY <2>1, Zenon DEF DoAction
  <2> QED BY <2>2
<1>8. CASE d = k BY <1>2, <1>8 DEF Steady
<1>9. CASE d = [k EXCEPT !.finished = TRUE]
  <2>1. d.round = r /\ d.finished BY <1>6, <1>9
  <2> QED BY <1>2, <2>1 DEF Steady
<1>10. ASSUME MoreRounds(g, k), NEW y, d = [k EXCEPT !.round = @ + 1, !.minNoLimitRaiseTo = y]
       PROVE  d.round <= r + 1 /\ Steady(g, d)
  <2>1. d.round = r + 1 /\ d.action = k.action /\ d.maxSpent = k.maxSpent BY <1>6, <1>10
  <2>2. r + 1 \in RoundsOf(g) /\ r + 1 > r BY <1>1, <1>2, <1>10 DEF MoreRounds, RoundsOf
  <2>3. NumRaises(d) = 0
    <3>1. Actions(d) = <<>> BY <2>1, <2>2 DEF Actions
    <3> QED BY <3>1, NoRaises
  <2> DEFINE m2 == g.maxRaises[r + 1]
             s2 == g.raiseSize[r + 1]
             e2 == b[(r + 1) + 1]
  <2>4. m2 \in Nat /\ s2 \in Nat /\ e2 \in Nat /\ e2 = e + m2 * s2 BY <2>2, RoomFacts
  <2>5. RoundRoom(g, b, d)
    <3> HIDE DEF m2, s2, e2, e, d
    <3>1. (m2 - 0) * s2 = m2 * s2 /\ (m2 - 0) * s2 \in Nat BY <2>4, Products
    <3>2. 0 <= m2 /\ k.maxSpent + (m2 - 0) * s2 <= e2 BY <1>1, <1>2, <1>4, <2>4, <3>1
    <3> QED BY <2>1, <2>3, <3>2 DEF RoundRoom, m2, s2, e2
  <2> QED BY <1>2, <2>1, <2>5 DEF Steady
<1> QED BY <1>7, <1>8, <1>9, <1>10

(* The blinds leave room for the raises of the first round. *)
LEMMA SteadyInit ==
  ASSUME NEW g, GameOK(g), NoSkips(g) PROVE Steady(g, InitState(g))
<1> DEFINE h == InitState(g)
<1>1. CASE g.numRounds <= 2 BY <1>1 DEF Steady
<1>2. ASSUME NEW b, Roomy(g, b) PROVE Steady(g, h)
  <2>1. HandInv(g, h) /\ h.round = 0 BY InitHand
  <2>2. h.spent = g.blind /\ Actions(h) = <<>>
    <3>1. 0 \in RoundsOf(g) BY DEF GameOK, RoundsOf
    <3> QED BY <3>1 DEF InitState, Actions
  <2>3. PICK p \in Players : h.maxSpent = h.spent[p] BY <2>1 DEF HandInv, BetsInv
  <2>4. h.maxSpent \in Nat BY <2>1 DEF HandInv, HandType
  <2>5. 0 \in RoundsOf(g) BY DEF GameOK, RoundsOf
  <2> DEFINE m == g.maxRaises[0]
             s == g.raiseSize[0]
             e == b[0 + 1]
  <2>6. m \in Nat /\ s \in Nat /\ e \in Nat /\ b[0] \in Nat /\ e = b[0] + m * s
    BY <1>2, <2>5, RoomFacts
  <2>7. h.maxSpent <= b[0] BY <1>2, <2>2, <2>3 DEF Roomy
  <2>8. NumRaises(h) = 0 BY <2>2, NoRaises
  <2>9. RoundRoom(g, b, h)
    <3> HIDE DEF m, s, e, h
    <3>1. (m - 0) * s = m * s /\ (m - 0) * s \in Nat BY <2>6, Products
    <3>2. 0 <= m /\ h.maxSpent + (m - 0) * s <= e BY <2>4, <2>6, <2>7, <3>1
    <3> QED BY <2>1, <2>8, <3>2 DEF RoundRoom, m, s, e
  <2> QED BY <1>2, <2>9 DEF Steady
<1> QED BY <1>1, <1>2 DEF NoSkips

(* An action goes on by at most one round. *)
LEMMA Stepwise ==
  ASSUME NEW g, GameOK(g), NEW h, HandInv(g, h), ~h.finished,
         NEW a \in ValidActions(g, h), Steady(g, h)
  PROVE  DoAction(g, h, a).round <= h.round + 1 /\ Steady(g, DoAction(g, h, a))
<1> DEFINE d == DoAction(g, h, a)
<1>1. /\ h \in HandType(g) /\ h.maxSpent \in Nat /\ g.stack[0] \in Nat /\ h.maxSpent <= g.stack[0]
      /\ h.round \in RoundsOf(g) /\ \A r \in RoundsOf(g) : r > h.round => h.action[r] = <<>>
      /\ \A q \in Players : ~h.playerFolded[q] /\ h.spent[q] \in Nat /\ h.spent[q] <= h.maxSpent
  BY RoundSoFar
<1>2. \/ a.type = "fold" \/ a.type = "call"
      \/ a.type = "raise" /\ a.size \in RaiseSizes(g, h)
  BY DEF ValidActions, Fold, Call
<1>3. CASE g.numRounds <= 2
  <2>1. d.round \in {h.round, h.round + 1, g.numRounds - 1} BY <1>1, <1>2, RoundOnward
  <2>2. h.round \in Nat /\ g.numRounds \in Nat BY <1>1 DEF RoundsOf, GameOK
  <2> HIDE DEF d
  <2>3. d.round <= h.round + 1 BY <1>3, <2>1, <2>2
  <2> QED BY <1>3, <2>3 DEF Steady, d
<1>4. ASSUME NEW b, Roomy(g, b), RoundRoom(g, b, h)
      PROVE  d.round <= h.round + 1 /\ Steady(g, d)
  <2>1. PICK p \in Players : p = CurrentPlayer(g, h) BY Turn
  <2>2. PICK k : k = Played(g, h, a) OBVIOUS
  <2>3. /\ g.raiseSize[h.round] \in Nat /\ g.maxRaises[h.round] \in Nat /\ ~g.noLimit
        /\ h.round \in Nat
    BY <1>1, <1>4, RoomFacts DEF Roomy
  <2>4. ASSUME NEW t \in {"call", "raise"}, NEW x \in Nat, After(g, h, k, t, p, x),
               k.maxSpent = x, x >= h.maxSpent, k.playerFolded = h.playerFolded,
               t = "call" => x <= h.maxSpent,
               t = "raise" => /\ x <= h.maxSpent + g.raiseSize[h.round]
                              /\ NumRaises(h) < g.maxRaises[h.round]
        PROVE  d.round <= h.round + 1 /\ Steady(g, d)
    <3>1. RoundRoom(g, b, k) BY <1>1, <1>4, <2>4, RoomAfter
    <3>2. k \in HandType(g) /\ k.round = h.round BY <2>4 DEF After
    <3>3. t \in {"fold", "call", "raise"} BY <2>4
    <3>4. Follows(g, h, k, t, p, x) BY <1>1, <2>4, <3>3, AfterFacts
    <3>5. /\ k.spent[p] = x /\ k.spent[Other(p)] = h.spent[Other(p)]
          /\ \A r \in RoundsOf(g) : r > k.round => k.action[r] = <<>>
      BY <3>4 DEF Follows
    <3>6. \A q \in Players : ~k.playerFolded[q] /\ k.spent[q] <= k.maxSpent
      <4>1. h.spent[Other(p)] <= x
        <5>1. Other(p) \in Players BY Two
        <5>2. h.spent[Other(p)] \in Nat /\ h.spent[Other(p)] <= h.maxSpent BY <1>1, <5>1
        <5> QED BY <1>1, <2>4, <5>2
      <4> QED BY <1>1, <2>4, <3>5, <4>1, Two
    <3> HIDE DEF d
    <3>7. DoAction(g, h, a).round <= k.round + 1 /\ Steady(g, DoAction(g, h, a))
      BY <1>4, <2>2, <3>1, <3>2, <3>5, <3>6, RoomOnward
    <3> QED BY <3>2, <3>7 DEF d
  <2>5. CASE a.type = "fold"
    <3>1. After(g, h, k, "fold", p, h.spent[p]) /\ k.playerFolded[p]
      BY <1>1, <2>1, <2>2, <2>5, FoldPlayed
    <3>2. k \in HandType(g) /\ k.round = h.round BY <3>1 DEF After
    <3>3. NumFolded(k) \in Nat /\ NumFolded(k) # 0 BY <3>1, <3>2, Numbers
    <3>4. NumFolded(k) + 1 >= NumPlayers BY <3>3, Two
    <3>5. d = [k EXCEPT !.finished = TRUE] BY <2>2, <3>4 DEF DoAction
    <3>6. d.finished /\ d.round = h.round BY <3>2, <3>5 DEF HandType
    <3> QED BY <2>3, <3>6 DEF Steady
  <2>6. CASE a.type = "call"
    <3>1. /\ After(g, h, k, "call", p, h.maxSpent) /\ k.maxSpent = h.maxSpent
          /\ k.playerFolded = h.playerFolded
      BY <1>1, <2>1, <2>2, <2>6, CallPlayed
    <3>2. "call" \in {"call", "raise"} /\ "call" # "raise" OBVIOUS
    <3>3. h.maxSpent >= h.maxSpent /\ h.maxSpent <= h.maxSpent BY <1>1
    <3> HIDE DEF d
    <3> QED BY <1>1, <2>4, <3>1, <3>2, <3>3
  <2>7. CASE a.type = "raise" /\ a.size \in RaiseSizes(g, h)
    <3>1. NumRaises(h) \in Nat BY <1>1, RaisesAreNat
    <3>2. ~(NumRaises(h) >= g.maxRaises[h.round]) /\ a.size = 0
      BY <2>3, <2>7 DEF RaiseSizes
    <3>3. NumRaises(h) < g.maxRaises[h.round] BY <2>3, <3>1, <3>2
    <3>4. PICK bet : bet = RaisedTo(g, h, a, p) OBVIOUS
    <3>5. g.stack[p] = g.stack[0] BY DEF GameOK
    <3>6. bet = IF h.maxSpent + g.raiseSize[h.round] > g.stack[0] THEN g.stack[0]
                ELSE h.maxSpent + g.raiseSize[h.round]
      BY <2>3, <3>4, <3>5 DEF RaisedTo
    <3>7. bet \in Nat /\ bet >= h.maxSpent /\ bet <= h.maxSpent + g.raiseSize[h.round]
      BY <1>1, <2>3, <3>6
    <3>8. /\ After(g, h, k, "raise", p, bet) /\ k.maxSpent = bet
          /\ k.playerFolded = h.playerFolded
      BY <1>1, <2>1, <2>2, <2>7, <3>2, <3>4, <3>7, RaisePlayed
    <3>9. "raise" \in {"call", "raise"} /\ "raise" # "call" OBVIOUS
    <3> HIDE DEF d
    <3> QED BY <2>4, <3>3, <3>7, <3>8, <3>9
  <2> QED BY <1>2, <2>5, <2>6, <2>7
<1> QED BY <1>3, <1>4 DEF Steady

-----------------------------------------------------------------------------
(* The rounds of the nodes                                                 *)

(* The round of a visit is the one dealt last or, in the trunk and below a *)
(* choice, the next; the trunk is in rounds before s, which starts the     *)
(* subgames, if there are any.                                             *)
VisitRounds(g, ns, v, s) ==
  /\ v.tree = 0 => v.split = s /\ v.hand.round <= v.last + 1 /\ (s # -1 => v.last < s)
  /\ v.tree # 0 => v.split = -1
  /\ v.parent # 0 =>
       IF ns[v.parent].type = "choice"
       THEN ns[v.parent].round = v.last /\ v.hand.round <= v.last + 1
       ELSE ns[v.parent].round = v.hand.round
  /\ Steady(g, v.hand)

NodeRounds(ns, i, s) ==
  /\ ns[i].type = "subgame" => s # -1 /\ ns[i].round = s
  /\ (ns[i].type # "subgame" /\ ns[i].tree = 0 /\ s # -1) => ns[i].round < s
  /\ (ns[i].type = "chance" /\ ns[i].parent # 0) =>
       ns[i].round = IF ns[ns[i].parent].type = "choice" THEN ns[ns[i].parent].round + 1
                     ELSE ns[ns[i].parent].round

AllRounds(g, ns, td, s) ==
  /\ \A k \in DOMAIN td : td[k].kind = "visit" => VisitRounds(g, ns, td[k], s)
  /\ \A i \in DOMAIN ns : NodeRounds(ns, i, s)

RoundsInv == \E s \in Int : AllRounds(game, nodes, todo, s)

LEMMA NodeRoundsStay ==
  ASSUME NEW ns, NEW ns2, Keeps(ns, ns2), ShapeInv(ns), NEW i \in DOMAIN ns, NEW s,
         NodeRounds(ns, i, s)
  PROVE  NodeRounds(ns2, i, s)
<1>1. /\ ns2[i].type = ns[i].type /\ ns2[i].round = ns[i].round
      /\ ns2[i].tree = ns[i].tree /\ ns2[i].parent = ns[i].parent
  BY DEF Keeps, Extends
<1>2. ns[i].parent # 0 => ns[i].parent \in DOMAIN ns
  <2>1. ns[i].parent \in 0 .. i - 1 /\ DOMAIN ns = 1 .. Len(ns) /\ Len(ns) \in Nat
    BY DEF ShapeInv, Keeps, Extends
  <2> QED BY <2>1
<1>3. ns[i].parent # 0 => /\ ns2[ns[i].parent].type = ns[ns[i].parent].type
                          /\ ns2[ns[i].parent].round = ns[ns[i].parent].round
  BY <1>2 DEF Keeps, Extends
<1> QED BY <1>1, <1>3 DEF NodeRounds

LEMMA VisitRoundsStay ==
  ASSUME NEW g, NEW ns, NEW ns2, Keeps(ns, ns2), NEW v, v.parent \in 0 .. Len(ns), NEW s,
         VisitRounds(g, ns, v, s)
  PROVE  VisitRounds(g, ns2, v, s)
<1>1. v.parent # 0 => v.parent \in DOMAIN ns BY DEF Keeps, Extends
<1>2. v.parent # 0 => ns2[v.parent].type = ns[v.parent].type /\ ns2[v.parent].round = ns[v.parent].round
  BY <1>1 DEF Keeps, Extends
<1> QED BY <1>2 DEF VisitRounds

(* What the visit on top of the stack brings to the node made of it. *)
LEMMA TopRounds ==
  ASSUME TreeInv, TablesInv, NEW n, NEW new, Builds(n, new), NEW s \in Int,
         AllRounds(game, nodes, todo, s)
  PROVE  /\ VisitRounds(game, nodes, Top, s) /\ TopOfTree /\ TopInv
         /\ Len(nodes) \in Nat /\ Id = Len(nodes) + 1
         /\ nodes'[Id] = n /\ DOMAIN nodes' = DOMAIN nodes \cup {Id} /\ Id # 0
         /\ \A i \in DOMAIN nodes : nodes'[i] = nodes[i]
         /\ Keeps(nodes, nodes') /\ ShapeInv(nodes)
         /\ Top.parent # 0 => Top.parent \in DOMAIN nodes
<1>1. TopOfTree BY TopTree
<1>2. Visits /\ todo[1] = Top /\ Stacked(todo, new, todo') BY DEF Builds
<1>3. TopInv BY <1>2, TopFacts
<1>4. 1 \in DOMAIN todo BY <1>2 DEF Stacked
<1>5. VisitRounds(game, nodes, Top, s) BY <1>1, <1>2, <1>4 DEF AllRounds, TopOfTree
<1>6. /\ nodes'[Id] = n /\ DOMAIN nodes' = DOMAIN nodes \cup {Id} /\ Id # 0
      /\ \A i \in DOMAIN nodes : nodes'[i] = nodes[i]
  BY <1>1 DEF Builds, Added, TopOfTree
<1>7. Keeps(nodes, nodes') BY AddedKeeps DEF Builds
<1>8. ShapeInv(nodes) BY DEF TablesInv
<1>9. Top.parent # 0 => Top.parent \in DOMAIN nodes BY <1>1 DEF TopOfTree
<1>10. Len(nodes) \in Nat /\ Id = Len(nodes) + 1 BY <1>1 DEF TopOfTree
<1> QED BY <1>1, <1>3, <1>5, <1>6, <1>7, <1>8, <1>9, <1>10

LEMMA NewNodeRounds ==
  ASSUME TreeInv, TablesInv, NEW n, NEW new, Builds(n, new), Descends(n, new), NEW s \in Int,
         AllRounds(game, nodes, todo, s)
  PROVE  NodeRounds(nodes', Id, s)
<1>1. /\ VisitRounds(game, nodes, Top, s) /\ TopOfTree /\ nodes'[Id] = n
      /\ Top.parent # 0 => Top.parent \in DOMAIN nodes
      /\ \A i \in DOMAIN nodes : nodes'[i] = nodes[i]
  BY TopRounds
<1> DEFINE r == Top.hand.round
<1>2. r \in Nat /\ Top.last \in Int BY <1>1 DEF TopOfTree
<1>3. n.parent = Top.parent /\ n.tree = Top.tree /\ n.round = r BY DEF Builds, NodeNew
<1>4. /\ n.type \in {"subgame", "chance"} <=> r > Top.last
      /\ n.type = "subgame" => r = Top.split
      /\ n.type = "chance" => r # Top.split
  BY DEF Descends, Deals
<1> HIDE DEF r
<1>5. n.type = "subgame" => s # -1 /\ n.round = s
  BY <1>1, <1>2, <1>3, <1>4 DEF VisitRounds
<1>6. (n.type # "subgame" /\ n.tree = 0 /\ s # -1) => n.round < s
  <2> SUFFICES ASSUME n.type # "subgame", n.tree = 0, s # -1 PROVE r < s BY <1>3
  <2>1. Top.split = s /\ r <= Top.last + 1 /\ Top.last < s
    BY <1>1, <1>3 DEF VisitRounds, r
  <2>2. n.type = "chance" \/ ~(r > Top.last) BY <1>4
  <2>3. CASE n.type = "chance" BY <1>2, <1>4, <2>1, <2>3
  <2>4. CASE ~(r > Top.last) BY <1>2, <2>1, <2>4
  <2> QED BY <2>2, <2>3, <2>4
<1>7. ASSUME n.type = "chance", n.parent # 0
      PROVE  n.round = IF nodes'[n.parent].type = "choice" THEN nodes'[n.parent].round + 1
                       ELSE nodes'[n.parent].round
  <2>1. nodes'[n.parent] = nodes[Top.parent] BY <1>1, <1>3, <1>7
  <2>2. IF nodes[Top.parent].type = "choice"
        THEN nodes[Top.parent].round = Top.last /\ r <= Top.last + 1
        ELSE nodes[Top.parent].round = r
    BY <1>1, <1>3, <1>7 DEF VisitRounds, r
  <2>3. r > Top.last BY <1>4, <1>7
  <2> QED BY <1>2, <1>3, <2>1, <2>2, <2>3
<1> QED BY <1>1, <1>5, <1>6, <1>7 DEF NodeRounds

LEMMA NewVisitRounds ==
  ASSUME TreeInv, TablesInv, NEW n, NEW new, Builds(n, new), Descends(n, new), NEW s \in Int,
         AllRounds(game, nodes, todo, s), NEW i \in DOMAIN new, new[i].kind = "visit"
  PROVE  VisitRounds(game, nodes', new[i], s)
<1>1. /\ VisitRounds(game, nodes, Top, s) /\ TopOfTree /\ TopInv /\ nodes'[Id] = n /\ Id # 0
  BY TopRounds
<1> DEFINE r == Top.hand.round
           v == new[i]
<1>2. r \in Nat /\ Top.last \in Int BY <1>1 DEF TopOfTree
<1>3. n.round = r /\ v.parent = Id BY DEF Builds, NodeNew, EntriesNew
<1>4. /\ n.type \in {"subgame", "chance"} <=> r > Top.last
      /\ n.type = "chance" => r # Top.split
      /\ n.type = "choice" => ~Top.hand.finished
      /\ Continues(n, v)
  BY DEF Descends, Deals
<1>5. n.type \in {"choice", "chance", "leaf", "subgame"} /\ n.type # "leaf"
  <2>1. n \in NodeType(game) BY DEF Builds, Added
  <2> QED BY <1>4, <2>1 DEF NodeType, Continues
<1> HIDE DEF r, v
<1>6. CASE n.type = "subgame"
  <2>1. v.tree \notin DOMAIN size /\ v.split = -1 /\ v.hand = Top.hand
    BY <1>4, <1>6 DEF Continues
  <2>2. 0 \in DOMAIN size BY DEF TreeInv, SizeInv
  <2>3. v.tree # 0 BY <2>1, <2>2
  <2>4. Steady(game, v.hand) BY <1>1, <2>1 DEF VisitRounds
  <2>5. v.hand.round = r BY <2>1 DEF r
  <2>6. VisitRounds(game, nodes', v, s) BY <1>1, <1>3, <1>6, <2>1, <2>3, <2>4, <2>5 DEF VisitRounds
  <2> QED BY <2>6 DEF v
<1>7. CASE n.type = "chance"
  <2>1. v.tree = Top.tree /\ v.split = Top.split /\ v.last = r /\ v.hand = Top.hand
    BY <1>4, <1>7 DEF Continues, r
  <2>2. v.hand.round = r BY <2>1 DEF r
  <2>3. Steady(game, v.hand) BY <1>1, <2>1 DEF VisitRounds
  <2>4. v.tree # 0 => v.split = -1 BY <1>1, <2>1 DEF VisitRounds
  <2>5. v.tree = 0 => v.split = s /\ v.hand.round <= v.last + 1 /\ (s # -1 => v.last < s)
    <3>1. v.tree = 0 => Top.split = s /\ r <= Top.last + 1 /\ (s # -1 => Top.last < s)
      BY <1>1, <2>1 DEF VisitRounds, r
    <3> QED BY <1>2, <1>4, <1>7, <2>1, <2>2, <3>1
  <2>6. VisitRounds(game, nodes', v, s)
    BY <1>1, <1>3, <1>7, <2>2, <2>3, <2>4, <2>5 DEF VisitRounds
  <2> QED BY <2>6 DEF v
<1>8. CASE n.type = "choice"
  <2>1. v.tree = Top.tree /\ v.split = Top.split /\ v.last = Top.last
    BY <1>4, <1>8 DEF Continues
  <2>2. PICK a \in ValidActions(game, Top.hand) : v.hand = DoAction(game, Top.hand, a)
    BY <1>4, <1>8 DEF Continues
  <2>3. Top.hand.round = Top.last
    <3>1. Top.last # -1 /\ Top.hand.round <= Top.last BY <1>8 DEF Builds, NodeNew
    <3>2. Top.hand.round >= Top.last BY <1>1, <3>1 DEF TopOfTree
    <3> QED BY <1>2, <3>1, <3>2 DEF r
  <2>4. DoAction(game, Top.hand, a).round <= Top.hand.round + 1
        /\ Steady(game, DoAction(game, Top.hand, a))
    <3> DEFINE h == Top.hand
    <3>1. GameOK(game) /\ HandInv(game, h) /\ ~h.finished /\ a \in ValidActions(game, h)
      BY <1>1, <1>4, <1>8 DEF TopInv
    <3>2. Steady(game, h) BY <1>1 DEF VisitRounds
    <3> HIDE DEF h
    <3>3. DoAction(game, h, a).round <= h.round + 1 /\ Steady(game, DoAction(game, h, a))
      BY <3>1, <3>2, Stepwise
    <3> QED BY <3>3 DEF h
  <2>5. v.hand.round <= v.last + 1 /\ Steady(game, v.hand) /\ n.round = v.last
    BY <1>3, <2>1, <2>2, <2>3, <2>4 DEF r
  <2>6. /\ v.tree = 0 => v.split = s /\ (s # -1 => v.last < s)
        /\ v.tree # 0 => v.split = -1
    BY <1>1, <2>1 DEF VisitRounds
  <2>7. VisitRounds(game, nodes', v, s) BY <1>1, <1>3, <1>8, <2>5, <2>6 DEF VisitRounds
  <2> QED BY <2>7 DEF v
<1> QED BY <1>5, <1>6, <1>7, <1>8

LEMMA RoundsBuilt ==
  ASSUME TreeInv, TablesInv, NEW n, NEW new, Builds(n, new), Descends(n, new), NEW s \in Int,
         AllRounds(game, nodes, todo, s)
  PROVE  AllRounds(game', nodes', todo', s)
<1>1. game' = game /\ Stacked(todo, new, todo') BY DEF Builds
<1>2. /\ DOMAIN nodes' = DOMAIN nodes \cup {Id} /\ Keeps(nodes, nodes') /\ ShapeInv(nodes)
      /\ Len(nodes) \in Nat
  BY TopRounds
<1> DEFINE td == todo'
           ns == nodes'
<1>3. ASSUME NEW k \in DOMAIN td, td[k].kind = "visit"
      PROVE  VisitRounds(game, ns, td[k], s)
  <2>1. Stacked(todo, new, td) BY <1>1
  <2>2. Keeps(nodes, ns) BY <1>2
  <2>3. \A i \in DOMAIN new : new[i].kind = "visit" => VisitRounds(game, ns, new[i], s)
    BY NewVisitRounds
  <2> HIDE DEF td, ns
  <2>4. CASE k \in DOMAIN new /\ td[k] = new[k] BY <1>3, <2>3, <2>4
  <2>5. ASSUME NEW j \in DOMAIN todo, td[k] = todo[j] PROVE VisitRounds(game, ns, td[k], s)
    <3> DEFINE v == todo[j]
    <3>1. v.kind = "visit" BY <1>3, <2>5
    <3>2. VisitRounds(game, nodes, v, s) BY <3>1 DEF AllRounds
    <3>3. EntryInv(game, DOMAIN size, nodes, v) BY DEF TreeInv
    <3>4. v.parent \in 0 .. Len(nodes) BY <3>1, <3>3 DEF EntryInv, PlaceInv
    <3> HIDE DEF v
    <3>5. VisitRounds(game, ns, v, s) BY <2>2, <3>2, <3>4, VisitRoundsStay
    <3> QED BY <2>5, <3>5 DEF v
  <2> QED BY <2>1, <2>4, <2>5, Position
<1>4. ASSUME NEW i \in DOMAIN ns PROVE NodeRounds(ns, i, s)
  <2>1. CASE i = Id BY <2>1, NewNodeRounds
  <2>2. CASE i \in DOMAIN nodes
    <3>1. Keeps(nodes, ns) /\ NodeRounds(nodes, i, s) BY <1>2, <2>2 DEF AllRounds
    <3> HIDE DEF ns
    <3> QED BY <1>2, <2>2, <3>1, NodeRoundsStay
  <2> QED BY <1>2, <2>1, <2>2
<1> QED BY <1>1, <1>3, <1>4 DEF AllRounds

LEMMA RoundsClosed ==
  ASSUME TreeInv, TablesInv, CloseChance, NEW s \in Int, AllRounds(game, nodes, todo, s)
  PROVE  AllRounds(game', nodes', todo', s)
<1>1. Closes(Top.node) BY CloseFacts
<1>2. /\ game' = game /\ todo # <<>> /\ todo' = Tail(todo)
      /\ Keeps(nodes, nodes') /\ DOMAIN nodes' = DOMAIN nodes
  BY <1>1 DEF Closes
<1> DEFINE td == todo'
           ns == nodes'
<1>3. td = Tail(todo) /\ Keeps(nodes, ns) /\ DOMAIN ns = DOMAIN nodes BY <1>2
<1> HIDE DEF td, ns
<1>4. ASSUME NEW k \in DOMAIN td, td[k].kind = "visit" PROVE VisitRounds(game, ns, td[k], s)
  <2>1. todo \in Seq(VisitType(game) \cup CloseType) BY DEF TreeInv
  <2>2. PICK j \in DOMAIN todo : td[k] = todo[j]
    <3>1. k \in 1 .. Len(todo) - 1 /\ Tail(todo)[k] = todo[k + 1] BY <1>2, <1>3, <2>1
    <3>2. k + 1 \in DOMAIN todo BY <2>1, <3>1
    <3> QED BY <1>3, <3>1, <3>2
  <2> DEFINE v == todo[j]
  <2>3. v.kind = "visit" BY <1>4, <2>2
  <2>4. VisitRounds(game, nodes, v, s) BY <2>3 DEF AllRounds
  <2>5. EntryInv(game, DOMAIN size, nodes, v) BY DEF TreeInv
  <2>6. v.parent \in 0 .. Len(nodes) BY <2>3, <2>5 DEF EntryInv, PlaceInv
  <2> HIDE DEF v
  <2>7. VisitRounds(game, ns, v, s) BY <1>3, <2>4, <2>6, VisitRoundsStay
  <2> QED BY <2>2, <2>7 DEF v
<1>5. ASSUME NEW i \in DOMAIN ns PROVE NodeRounds(ns, i, s)
  <2>1. i \in DOMAIN nodes /\ NodeRounds(nodes, i, s) BY <1>3, <1>5 DEF AllRounds
  <2>2. ShapeInv(nodes) BY DEF TablesInv
  <2> QED BY <1>3, <2>1, <2>2, NodeRoundsStay
<1>6. AllRounds(game, ns, td, s) BY <1>4, <1>5 DEF AllRounds
<1> QED BY <1>2, <1>6 DEF ns, td

LEMMA InitRounds ==
  ASSUME \A g \in Games : NoSkips(g), Init PROVE RoundsInv
<1>1. PICK g \in Games : \E split \in {-1} \cup 1 .. g.numRounds - 1 :
        /\ game = g
        /\ todo = <<Visit(InitState(g), split, -1, 0, 0, 0)>>
        /\ nodes = <<>>
  BY DEF Init
<1>2. PICK split \in {-1} \cup 1 .. g.numRounds - 1 :
        todo = <<Visit(InitState(g), split, -1, 0, 0, 0)>>
  BY <1>1
<1>3. GameOK(g) /\ NoSkips(g) /\ g.numRounds \in Nat BY AllGamesOK DEF GameOK
<1>4. split \in Int /\ (split # -1 => -1 < split) BY <1>3
<1>5. InitState(g).round = 0 /\ Steady(g, InitState(g)) BY <1>3, InitHand, SteadyInit
<1> DEFINE v == Visit(InitState(g), split, -1, 0, 0, 0)
<1>6. /\ v.hand = InitState(g) /\ v.split = split /\ v.last = -1 /\ v.tree = 0 /\ v.parent = 0
  BY DEF Visit
<1>7. todo = <<v>> BY <1>2
<1> HIDE DEF v
<1>8. VisitRounds(g, nodes, v, split) BY <1>4, <1>5, <1>6 DEF VisitRounds
<1>9. DOMAIN todo = {1} /\ todo[1] = v /\ DOMAIN nodes = {} BY <1>1, <1>7
<1>10. AllRounds(game, nodes, todo, split) BY <1>1, <1>8, <1>9 DEF AllRounds
<1> QED BY <1>4, <1>10 DEF RoundsInv

LEMMA NextRounds ==
  ASSUME TreeInv, TablesInv, RoundsInv, [Next]_vars PROVE RoundsInv'
<1>1. PICK s \in Int : AllRounds(game, nodes, todo, s) BY DEF RoundsInv
<1>2. AllRounds(game', nodes', todo', s)
  <2>1. CASE CloseChance BY <1>1, <2>1, RoundsClosed
  <2>2. CASE Build /\ ~CloseChance
    <3>1. PICK n, new : Builds(n, new) /\ Descends(n, new) BY <2>2, NodeBuilds
    <3> QED BY <1>1, <3>1, RoundsBuilt
  <2>3. CASE UNCHANGED vars BY <1>1, <2>3 DEF vars
  <2> QED BY <2>1, <2>2, <2>3 DEF Next, Done
<1> QED BY <1>2 DEF RoundsInv

LEMMA RoundsFollow ==
  ASSUME TreeInv, TablesInv, RoundsInv PROVE RoundsDealt /\ TrunkBeforeSubgames
<1>1. PICK s \in Int : \A i \in DOMAIN nodes : NodeRounds(nodes, i, s) BY DEF RoundsInv, AllRounds
<1>2. RoundsDealt BY <1>1 DEF RoundsDealt, ChanceNodes, NodeRounds
<1>3. TrunkBeforeSubgames BY <1>1 DEF TrunkBeforeSubgames, NodeRounds
<1> QED BY <1>2, <1>3

(* If no game skips a round, the invariant of the rounds, given the others. *)
THEOREM RoundsInOrder == (\A g \in Games : NoSkips(g)) => (Spec => []RoundsInv)
<1> SUFFICES ASSUME \A g \in Games : NoSkips(g) PROVE Spec => []RoundsInv
  OBVIOUS
<1>1. Init => RoundsInv BY InitRounds
<1>2. TreeInv /\ TablesInv /\ RoundsInv /\ [Next]_vars => RoundsInv' BY NextRounds
<1> QED BY <1>1, <1>2, Invariant, Tables, PTL DEF Spec

(* Then all that the walks rely on is true of every tree, of any size, when *)
(* they start.                                                             *)
THEOREM WalksFindTables == (\A g \in Games : NoSkips(g)) => (WalkSpec => []TreeFits)
<1> SUFFICES ASSUME \A g \in Games : NoSkips(g) PROVE WalkSpec => []TreeFits
  OBVIOUS
<1>1. TreeInv /\ TablesInv /\ RoundsInv => TreeFits
  BY IndicesFollow, ChildrenFollow, BlocksFollow, RoundsFollow DEF TreeFits, TablesFit
<1>2. Spec => []RoundsInv BY RoundsInOrder
<1> QED BY <1>1, <1>2, WalksKeepTree, Invariant, Tables, PTL
-----------------------------------------------------------------------------
(* The order of the nodes                                                  *)

(* A node with parent p that is made after the first len comes behind what *)
(* those have left: if one of them, j, is not below i any more, neither is *)
(* the new node.                                                           *)
Resumes(ns, p, len) ==
  \A i, j \in 1 .. len : (i < j /\ ns[j].parent < i) => p < i \/ p >= j

Nested(ns, td) ==
  /\ \A k \in DOMAIN ns : Resumes(ns, ns[k].parent, k - 1)
  /\ \A k \in DOMAIN td : td[k].kind = "visit" => Resumes(ns, td[k].parent, Len(ns))
  /\ \A j, k \in DOMAIN td : (j < k /\ td[j].kind = "visit" /\ td[k].kind = "visit") =>
       td[k].parent <= td[j].parent

(* The node after one that is no leaf is its child; below a chance node or *)
(* a subgame there is no other.                                            *)
HasOne(ns, p) == p \in DOMAIN ns /\ ns[p].type \in {"chance", "subgame"}
FirstChildren(ns, td) ==
  /\ \A i \in DOMAIN ns : (ns[i].type # "leaf" /\ i # Len(ns)) => ns[i + 1].parent = i
  /\ (Len(ns) # 0 /\ ns[Len(ns)].type # "leaf") =>
       1 \in DOMAIN td /\ td[1].kind = "visit" /\ td[1].parent = Len(ns)
  /\ \A k \in DOMAIN ns : HasOne(ns, ns[k].parent) => k = ns[k].parent + 1
  /\ \A k \in DOMAIN td : (td[k].kind = "visit" /\ HasOne(ns, td[k].parent)) =>
       k = 1 /\ td[k].parent = Len(ns)

(* What a node or a visit x has from its parent. *)
Kin(ns, x) ==
  IF x.parent = 0 THEN x.tree = 0 /\ x.chance = 0
  ELSE LET u == ns[x.parent]
       IN /\ u.type # "leaf"
          /\ u.type = "subgame" => x.tree = u.u.index + 1 /\ x.chance = 0
          /\ u.type = "chance" => x.tree = u.tree /\ x.chance = x.parent
          /\ u.type = "choice" => x.tree = u.tree /\ x.chance = u.chance

(* The cards that a visit has seen dealt. *)
DealtAt(ns, v) ==
  /\ v.parent = 0 => ns = <<>> /\ v.last = -1 /\ v.hand.round = 0 /\ v.split # 0
  /\ (v.parent # 0 /\ ns[v.parent].type = "chance") => v.last = v.hand.round
  /\ (v.parent # 0 /\ ns[v.parent].type = "subgame") => v.last = -1

(* Where nodes of a type are found. *)
Placed(ns, i) ==
  /\ ns[i].parent = 0 => i = 1 /\ ns[i].type = "chance" /\ ns[i].round = 0
  /\ (ns[i].parent # 0 /\ ns[ns[i].parent].type = "chance") => ns[i].type \in {"choice", "leaf"}
  /\ (ns[i].parent # 0 /\ ns[ns[i].parent].type = "subgame") => ns[i].type = "chance"
  /\ ns[i].type = "subgame" => ns[i].tree = 0

(* Every subgame has a tree of its own. *)
OwnTrees(ns, sz) ==
  /\ \A i \in DOMAIN ns : ns[i].type = "subgame" =>
       /\ ns[i].u.index \in Nat /\ ns[i].u.index + 1 \in DOMAIN sz
       /\ \A j \in DOMAIN ns : (ns[j].type = "subgame" /\ ns[j].u.index = ns[i].u.index) => i = j

FamilyTies(ns, td) ==
  /\ \A i \in DOMAIN ns : Kin(ns, ns[i]) /\ Placed(ns, i)
  /\ \A k \in DOMAIN td : td[k].kind = "visit" =>
       Kin(ns, td[k]) /\ DealtAt(ns, td[k]) /\ (td[k].parent = 0 => k = 1)

LinksInv ==
  Nested(nodes, todo) /\ FirstChildren(nodes, todo) /\ FamilyTies(nodes, todo) /\ OwnTrees(nodes, size)

(* A node n is made of the visit on top of the stack, which new replaces.  *)
Planted(ns, n, ns2, td, new, td2) ==
  /\ Len(ns) \in Nat /\ DOMAIN ns = 1 .. Len(ns) /\ DOMAIN ns2 = 1 .. Len(ns) + 1
  /\ Len(ns2) = Len(ns) + 1 /\ ns2[Len(ns) + 1] = n
  /\ \A i \in DOMAIN ns : ns2[i] = ns[i] /\ ns[i].parent \in 0 .. i - 1
  /\ Stacked(td, new, td2) /\ 1 \in DOMAIN td /\ td[1].kind = "visit" /\ n.parent = td[1].parent
  /\ \A k \in DOMAIN td : td[k].kind = "visit" => td[k].parent \in 0 .. Len(ns)
  /\ \A k \in DOMAIN new : new[k].kind = "visit" => new[k].parent = Len(ns) + 1

LEMMA ResumesMore ==
  ASSUME NEW ns, NEW ns2, NEW len \in Nat, \A i \in 1 .. len : ns2[i] = ns[i], NEW p,
         Resumes(ns, p, len)
  PROVE  Resumes(ns2, p, len)
BY DEF Resumes

LEMMA NestedNext ==
  ASSUME NEW ns, NEW n, NEW ns2, NEW td, NEW new, NEW td2, Planted(ns, n, ns2, td, new, td2),
         Nested(ns, td)
  PROVE  Nested(ns2, td2)
<1> DEFINE len == Len(ns)
<1>1. /\ len \in Nat /\ DOMAIN ns = 1 .. len /\ DOMAIN ns2 = 1 .. len + 1
      /\ Len(ns2) = len + 1 /\ ns2[len + 1] = n
      /\ \A i \in 1 .. len : ns2[i] = ns[i] /\ ns[i].parent \in 0 .. i - 1
      /\ Stacked(td, new, td2) /\ 1 \in DOMAIN td /\ td[1].kind = "visit" /\ n.parent = td[1].parent
      /\ \A k \in DOMAIN td : td[k].kind = "visit" => td[k].parent \in 0 .. len
      /\ \A k \in DOMAIN new : new[k].kind = "visit" => new[k].parent = len + 1
  BY DEF Planted
<1>2. /\ \A k \in 1 .. len : Resumes(ns, ns[k].parent, k - 1)
      /\ \A k \in DOMAIN td : td[k].kind = "visit" => Resumes(ns, td[k].parent, len)
      /\ \A j, k \in DOMAIN td : (j < k /\ td[j].kind = "visit" /\ td[k].kind = "visit") =>
           td[k].parent <= td[j].parent
  BY <1>1 DEF Nested
<1> HIDE DEF len
<1>3. ASSUME NEW k \in 1 .. len + 1 PROVE Resumes(ns2, ns2[k].parent, k - 1)
  <2>1. CASE k = len + 1
    <3>1. Resumes(ns, n.parent, len) BY <1>1, <1>2
    <3>2. Resumes(ns2, n.parent, len) BY <1>1, <3>1, ResumesMore
    <3>3. k - 1 = len /\ ns2[k] = n BY <1>1, <2>1
    <3> QED BY <3>2, <3>3
  <2>2. CASE k # len + 1
    <3>1. k \in 1 .. len /\ k - 1 \in Nat /\ \A i \in 1 .. k - 1 : ns2[i] = ns[i] BY <1>1, <2>2
    <3>2. Resumes(ns, ns[k].parent, k - 1) BY <1>2, <3>1
    <3>3. Resumes(ns2, ns[k].parent, k - 1) BY <3>1, <3>2, ResumesMore
    <3> QED BY <1>1, <3>1, <3>3
  <2> QED BY <2>1, <2>2
<1>4. ASSUME NEW k \in 2 .. Len(td), td[k].kind = "visit"
      PROVE  Resumes(ns2, td[k].parent, len + 1) /\ td[k].parent \in 0 .. len
  <2>1. k \in DOMAIN td /\ 1 < k BY <1>1 DEF Stacked
  <2> DEFINE p == td[k].parent
  <2>2. p \in 0 .. len /\ p <= n.parent /\ Resumes(ns, p, len) /\ n.parent \in 0 .. len
    BY <1>1, <1>2, <1>4, <2>1
  <2> HIDE DEF p
  <2>3. ASSUME NEW i \in 1 .. len + 1, NEW j \in 1 .. len + 1, i < j, ns2[j].parent < i
        PROVE  p < i \/ p >= j
    <3>1. CASE j = len + 1 BY <1>1, <2>2, <2>3, <3>1
    <3>2. CASE j # len + 1
      <4>1. j \in 1 .. len /\ i \in 1 .. len BY <1>1, <2>3, <3>2
      <4> QED BY <1>1, <2>2, <2>3, <4>1 DEF Resumes
    <3> QED BY <3>1, <3>2
  <2>4. Resumes(ns2, p, len + 1) BY <2>3 DEF Resumes
  <2> QED BY <2>2, <2>4 DEF p
<1>5. ASSUME NEW k \in DOMAIN new, new[k].kind = "visit"
      PROVE  Resumes(ns2, new[k].parent, len + 1) /\ new[k].parent = len + 1
  BY <1>1, <1>5 DEF Resumes
<1>6. ASSUME NEW k \in DOMAIN td2, td2[k].kind = "visit" PROVE Resumes(ns2, td2[k].parent, len + 1)
  <2>1. CASE k \in DOMAIN new /\ td2[k] = new[k] BY <1>5, <1>6, <2>1
  <2>2. ASSUME NEW j \in 2 .. Len(td), td2[k] = td[j]
        PROVE  Resumes(ns2, td2[k].parent, len + 1)
    BY <1>4, <1>6, <2>2
  <2> QED BY <1>1, <2>1, <2>2, Position
<1>7. ASSUME NEW j \in DOMAIN td2, NEW k \in DOMAIN td2, j < k, td2[j].kind = "visit",
             td2[k].kind = "visit"
      PROVE  td2[k].parent <= td2[j].parent
  <2> DEFINE a == j - Len(new) + 1
             b == k - Len(new) + 1
  <2>0. Len(new) \in Nat /\ DOMAIN new = 1 .. Len(new) /\ j \in Int /\ k \in Int
        /\ DOMAIN td = 1 .. Len(td) /\ Len(td) \in Nat
    BY <1>1 DEF Stacked
  <2>1. \/ j \in DOMAIN new /\ td2[j] = new[j]
        \/ j > Len(new) /\ a \in 2 .. Len(td) /\ td2[j] = td[a]
    BY <1>1, Position
  <2>2. \/ k \in DOMAIN new /\ td2[k] = new[k]
        \/ k > Len(new) /\ b \in 2 .. Len(td) /\ td2[k] = td[b]
    BY <1>1, Position
  <2>3. a < b BY <1>7, <2>0
  <2> HIDE DEF a, b
  <2>4. CASE k \in DOMAIN new /\ td2[k] = new[k]
    <3>1. j \in DOMAIN new /\ td2[j] = new[j] BY <1>7, <2>0, <2>1, <2>4
    <3>2. td2[k].parent = len + 1 /\ td2[j].parent = len + 1 BY <1>5, <1>7, <2>4, <3>1
    <3> QED BY <1>1, <3>2
  <2>5. CASE b \in 2 .. Len(td) /\ td2[k] = td[b]
    <3>1. td2[k].parent \in 0 .. len BY <1>4, <1>7, <2>5
    <3>2. CASE j \in DOMAIN new /\ td2[j] = new[j]
      <4>1. td2[j].parent = len + 1 BY <1>5, <1>7, <3>2
      <4> QED BY <1>1, <3>1, <4>1
    <3>3. CASE a \in 2 .. Len(td) /\ td2[j] = td[a]
      <4>1. a \in DOMAIN td /\ b \in DOMAIN td BY <2>0, <2>5, <3>3
      <4> QED BY <1>2, <1>7, <2>3, <2>5, <3>3, <4>1
    <3> QED BY <2>1, <3>2, <3>3
  <2> QED BY <2>2, <2>4, <2>5
<1> QED BY <1>1, <1>3, <1>6, <1>7 DEF Nested

(* What the visits below a node are, by its type. *)
Opened(n, new) ==
  /\ IF n.type = "leaf" THEN DOMAIN new = {} ELSE 1 \in DOMAIN new /\ new[1].kind = "visit"
  /\ n.type \in {"subgame", "chance"} => \A i \in DOMAIN new : new[i].kind = "visit" => i = 1

LEMMA FirstChildrenNext ==
  ASSUME NEW ns, NEW n, NEW ns2, NEW td, NEW new, NEW td2, Planted(ns, n, ns2, td, new, td2),
         Opened(n, new), FirstChildren(ns, td)
  PROVE  FirstChildren(ns2, td2)
<1> DEFINE len == Len(ns)
<1>1. /\ len \in Nat /\ DOMAIN ns = 1 .. len /\ DOMAIN ns2 = 1 .. len + 1
      /\ Len(ns2) = len + 1 /\ ns2[len + 1] = n
      /\ \A i \in 1 .. len : ns2[i] = ns[i] /\ ns[i].parent \in 0 .. i - 1
      /\ Stacked(td, new, td2) /\ 1 \in DOMAIN td /\ td[1].kind = "visit" /\ n.parent = td[1].parent
      /\ \A k \in DOMAIN td : td[k].kind = "visit" => td[k].parent \in 0 .. len
      /\ \A k \in DOMAIN new : new[k].kind = "visit" => new[k].parent = len + 1
  BY DEF Planted
<1>2. /\ \A i \in 1 .. len : (ns[i].type # "leaf" /\ i # len) => ns[i + 1].parent = i
      /\ (len # 0 /\ ns[len].type # "leaf") =>
           1 \in DOMAIN td /\ td[1].kind = "visit" /\ td[1].parent = len
      /\ \A k \in DOMAIN ns : HasOne(ns, ns[k].parent) => k = ns[k].parent + 1
      /\ \A k \in DOMAIN td : (td[k].kind = "visit" /\ HasOne(ns, td[k].parent)) =>
           k = 1 /\ td[k].parent = len
  BY <1>1 DEF FirstChildren
<1> HIDE DEF len
<1>3. ASSUME NEW i \in 1 .. len + 1, ns2[i].type # "leaf", i # len + 1 PROVE ns2[i + 1].parent = i
  <2>1. i \in 1 .. len /\ ns2[i] = ns[i] BY <1>1, <1>3
  <2>2. CASE i = len
    <3>1. td[1].parent = len BY <1>1, <1>2, <1>3, <2>1, <2>2
    <3> QED BY <1>1, <2>2, <3>1
  <2>3. CASE i # len
    <3>1. i + 1 \in 1 .. len BY <1>1, <2>1, <2>3
    <3> QED BY <1>1, <1>2, <1>3, <2>1, <2>3, <3>1
  <2> QED BY <2>2, <2>3
<1>4. n.type # "leaf" => 1 \in DOMAIN td2 /\ td2[1].kind = "visit" /\ td2[1].parent = len + 1
  <2> SUFFICES ASSUME n.type # "leaf"
               PROVE  1 \in DOMAIN td2 /\ td2[1].kind = "visit" /\ td2[1].parent = len + 1
    OBVIOUS
  <2>1. 1 \in DOMAIN new /\ new[1].kind = "visit" BY DEF Opened
  <2>2. 1 \in DOMAIN td2 /\ td2[1] = new[1] BY <1>1, <2>1 DEF Stacked
  <2> QED BY <1>1, <2>1, <2>2
<1>5. \A p \in 0 .. len : HasOne(ns2, p) => HasOne(ns, p) BY <1>1 DEF HasOne
<1>6. ASSUME NEW k \in 1 .. len + 1, HasOne(ns2, ns2[k].parent) PROVE k = ns2[k].parent + 1
  <2>1. CASE k = len + 1
    <3>1. ns2[k] = n /\ n.parent \in 0 .. len /\ n.parent = td[1].parent BY <1>1, <2>1
    <3>2. HasOne(ns, n.parent) BY <1>5, <1>6, <3>1
    <3>3. td[1].parent = len BY <1>1, <1>2, <3>1, <3>2
    <3> QED BY <2>1, <3>1, <3>3
  <2>2. CASE k # len + 1
    <3>1. k \in 1 .. len /\ ns2[k] = ns[k] /\ ns[k].parent \in 0 .. len BY <1>1, <2>2
    <3>2. HasOne(ns, ns[k].parent) BY <1>5, <1>6, <3>1
    <3> QED BY <1>1, <1>2, <3>1, <3>2
  <2> QED BY <2>1, <2>2
<1>7. ASSUME NEW k \in DOMAIN td2, td2[k].kind = "visit", HasOne(ns2, td2[k].parent)
      PROVE  k = 1 /\ td2[k].parent = len + 1
  <2>1. CASE k \in DOMAIN new /\ td2[k] = new[k]
    <3>1. new[k].parent = len + 1 BY <1>1, <1>7, <2>1
    <3>2. n.type \in {"subgame", "chance"} BY <1>1, <1>7, <2>1, <3>1 DEF HasOne
    <3> QED BY <1>7, <2>1, <3>1, <3>2 DEF Opened
  <2>2. ASSUME NEW j \in 2 .. Len(td), j \in DOMAIN td, td2[k] = td[j] PROVE FALSE
    <3>1. td[j].kind = "visit" /\ td[j].parent \in 0 .. len BY <1>1, <1>7, <2>2
    <3>2. HasOne(ns, td[j].parent) BY <1>5, <1>7, <2>2, <3>1
    <3>3. j = 1 BY <1>2, <2>2, <3>1, <3>2
    <3> QED BY <2>2, <3>3
  <2> QED BY <1>1, <2>1, <2>2, Position
<1> QED BY <1>1, <1>3, <1>4, <1>6, <1>7 DEF FirstChildren

(* What a node or a visit has from its parent does not change. *)
LEMMA KinStays ==
  ASSUME NEW ns, NEW ns2, Keeps(ns, ns2), NEW x, x.parent \in 0 .. Len(ns), Kin(ns, x)
  PROVE  Kin(ns2, x)
<1>1. CASE x.parent = 0 BY <1>1 DEF Kin
<1>2. CASE x.parent # 0
  <2> DEFINE u == ns[x.parent]
             u2 == ns2[x.parent]
  <2>1. x.parent \in DOMAIN ns BY <1>2 DEF Keeps, Extends
  <2>2. /\ u2.type = u.type /\ u2.tree = u.tree /\ u2.chance = u.chance
        /\ u2.type # "chance" => u2.u = u.u
    BY <2>1 DEF Keeps, Extends
  <2>3. /\ u.type # "leaf"
        /\ u.type = "subgame" => x.tree = u.u.index + 1 /\ x.chance = 0
        /\ u.type = "chance" => x.tree = u.tree /\ x.chance = x.parent
        /\ u.type = "choice" => x.tree = u.tree /\ x.chance = u.chance
    BY <1>2 DEF Kin
  <2>4. /\ u2.type # "leaf"
        /\ u2.type = "subgame" => x.tree = u2.u.index + 1 /\ x.chance = 0
        /\ u2.type = "chance" => x.tree = u2.tree /\ x.chance = x.parent
        /\ u2.type = "choice" => x.tree = u2.tree /\ x.chance = u2.chance
    BY <2>2, <2>3
  <2> HIDE DEF u2
  <2> QED BY <1>2, <2>4 DEF Kin, u2
<1> QED BY <1>1, <1>2

LEMMA KinSame ==
  ASSUME NEW ns, NEW x, NEW y, x.parent = y.parent, x.tree = y.tree, x.chance = y.chance, Kin(ns, x)
  PROVE  Kin(ns, y)
BY DEF Kin

LEMMA DealtStays ==
  ASSUME NEW ns, NEW ns2, Keeps(ns, ns2), NEW v, v.parent \in 1 .. Len(ns), DealtAt(ns, v)
  PROVE  DealtAt(ns2, v)
<1>1. v.parent \in DOMAIN ns /\ v.parent # 0 BY DEF Keeps, Extends
<1>2. ns2[v.parent].type = ns[v.parent].type BY <1>1 DEF Keeps, Extends
<1> QED BY <1>1, <1>2 DEF DealtAt

LEMMA PlacedStays ==
  ASSUME NEW ns, NEW ns2, Keeps(ns, ns2), NEW i \in DOMAIN ns, ns[i].parent \in 0 .. i - 1,
         Placed(ns, i)
  PROVE  Placed(ns2, i)
<1>1. /\ ns2[i].type = ns[i].type /\ ns2[i].round = ns[i].round
      /\ ns2[i].tree = ns[i].tree /\ ns2[i].parent = ns[i].parent
  BY DEF Keeps, Extends
<1>2. ns[i].parent # 0 => ns[i].parent \in DOMAIN ns
  <2>1. DOMAIN ns = 1 .. Len(ns) /\ Len(ns) \in Nat BY DEF Keeps, Extends
  <2> QED BY <2>1
<1>3. ns[i].parent # 0 => ns2[ns[i].parent].type = ns[ns[i].parent].type
  BY <1>2 DEF Keeps, Extends
<1> QED BY <1>1, <1>3 DEF Placed

LEMMA NewPlanted ==
  ASSUME TreeInv, TablesInv, NEW n, NEW new, Builds(n, new)
  PROVE  Planted(nodes, n, nodes', todo, new, todo') /\ Keeps(nodes, nodes')
<1>1. TopOfTree /\ Keeps(nodes, nodes') BY TopTree, AddedKeeps DEF Builds
<1>2. /\ Added(NodeType(game), nodes, n, nodes') /\ Stacked(todo, new, todo') /\ todo[1] = Top
      /\ NodeNew(n) /\ EntriesNew(n, new)
  BY DEF Builds
<1>3. 1 \in DOMAIN todo /\ todo[1].kind = "visit" /\ n.parent = todo[1].parent
  BY <1>1, <1>2 DEF Stacked, TopOfTree, NodeNew
<1>4. /\ Len(nodes) \in Nat /\ DOMAIN nodes = 1 .. Len(nodes) /\ Id = Len(nodes) + 1
      /\ DOMAIN nodes' = 1 .. Len(nodes) + 1 /\ Len(nodes') = Len(nodes) + 1
      /\ nodes'[Len(nodes) + 1] = n /\ \A i \in DOMAIN nodes : nodes'[i] = nodes[i]
  BY <1>1, <1>2 DEF TopOfTree, Added
<1>5. \A i \in DOMAIN nodes : nodes[i].parent \in 0 .. i - 1 BY DEF TablesInv, ShapeInv
<1>6. ASSUME NEW k \in DOMAIN todo, todo[k].kind = "visit" PROVE todo[k].parent \in 0 .. Len(nodes)
  <2>1. EntryInv(game, DOMAIN size, nodes, todo[k]) BY DEF TreeInv
  <2> QED BY <1>6, <2>1 DEF EntryInv, PlaceInv
<1>7. \A k \in DOMAIN new : new[k].kind = "visit" => new[k].parent = Len(nodes) + 1
  BY <1>2, <1>4 DEF EntriesNew
<1>8. Stacked(todo, new, todo') BY <1>2
<1> QED BY <1>1, <1>3, <1>4, <1>5, <1>6, <1>7, <1>8 DEF Planted

(* What an entry of the new stack is. *)
LEMMA VisitsNext ==
  ASSUME NEW ns, NEW n, NEW ns2, NEW td, NEW new, NEW td2, Planted(ns, n, ns2, td, new, td2),
         NEW k \in DOMAIN td2
  PROVE  \/ k \in DOMAIN new /\ td2[k] = new[k]
         \/ \E j \in DOMAIN td : j # 1 /\ td2[k] = td[j]
<1>1. Stacked(td, new, td2) BY DEF Planted
<1> DEFINE j == k - Len(new) + 1
<1>2. \/ k \in DOMAIN new /\ td2[k] = new[k]
      \/ j \in 2 .. Len(td) /\ j \in DOMAIN td /\ td2[k] = td[j]
  BY <1>1, Position
<1> HIDE DEF j
<1>3. j \in 2 .. Len(td) => j # 1 OBVIOUS
<1> QED BY <1>2, <1>3

LEMMA NodeTies ==
  ASSUME TreeInv, TablesInv, LinksInv, NEW n, NEW new, Builds(n, new), Descends(n, new),
         NEW s \in Int, AllRounds(game, nodes, todo, s)
  PROVE  Kin(nodes', nodes'[Id]) /\ Placed(nodes', Id)
<1>1. /\ VisitRounds(game, nodes, Top, s) /\ TopOfTree /\ TopInv /\ nodes'[Id] = n /\ Id # 0
      /\ \A i \in DOMAIN nodes : nodes'[i] = nodes[i]
      /\ Top.parent # 0 => Top.parent \in DOMAIN nodes
      /\ Id = Len(nodes) + 1
  BY TopRounds
<1>2. Planted(nodes, n, nodes', todo, new, todo') /\ Keeps(nodes, nodes') BY NewPlanted
<1>3. 1 \in DOMAIN todo /\ todo[1] = Top /\ Top.kind = "visit"
  BY <1>1, <1>2 DEF Planted, Builds, TopOfTree
<1>4. Kin(nodes, Top) /\ DealtAt(nodes, Top) BY <1>3 DEF LinksInv, FamilyTies
<1>5. /\ n.parent = Top.parent /\ n.tree = Top.tree /\ n.chance = Top.chance
      /\ n.round = Top.hand.round
  BY DEF Builds, NodeNew
<1>6. Kin(nodes', n)
  <2> DEFINE ns == nodes'
             v == Top
  <2>1. Kin(nodes, v) /\ v.parent \in 0 .. Len(nodes) /\ Keeps(nodes, ns)
    BY <1>1, <1>2, <1>4 DEF TopOfTree
  <2>2. n.parent = v.parent /\ n.tree = v.tree /\ n.chance = v.chance BY <1>5
  <2> HIDE DEF ns, v
  <2>3. Kin(ns, v) BY <2>1, KinStays
  <2>4. Kin(ns, n) BY <2>2, <2>3, KinSame
  <2> QED BY <2>4 DEF ns
<1>7. /\ n.type \in {"subgame", "chance"} <=> Top.hand.round > Top.last
      /\ n.type = "subgame" => Top.hand.round = Top.split
      /\ n.type \in {"choice", "chance", "leaf", "subgame"}
  <2>1. n \in NodeType(game) BY DEF Builds, Added
  <2> QED BY <2>1 DEF Descends, Deals, NodeType
<1>8. Top.hand.round \in Nat /\ Top.last \in Int BY <1>1 DEF TopOfTree
<1>9. n.parent = 0 => Id = 1 /\ n.type = "chance" /\ n.round = 0
  <2> SUFFICES ASSUME n.parent = 0 PROVE Id = 1 /\ n.type = "chance" /\ n.round = 0 OBVIOUS
  <2>1. nodes = <<>> /\ Top.last = -1 /\ Top.hand.round = 0 /\ Top.split # 0
    BY <1>4, <1>5 DEF DealtAt
  <2>2. Id = 1 BY <1>1, <2>1
  <2> QED BY <1>5, <1>7, <2>1, <2>2
<1>10. n.parent # 0 => n.parent \in DOMAIN nodes /\ nodes'[n.parent].type = nodes[n.parent].type
  BY <1>1, <1>5
<1>11. (n.parent # 0 /\ nodes[n.parent].type = "chance") => n.type \in {"choice", "leaf"}
  <2> SUFFICES ASSUME n.parent # 0, nodes[n.parent].type = "chance"
               PROVE  n.type \in {"choice", "leaf"}
    OBVIOUS
  <2>1. Top.last = Top.hand.round BY <1>4, <1>5 DEF DealtAt
  <2> QED BY <1>7, <1>8, <2>1
<1>12. (n.parent # 0 /\ nodes[n.parent].type = "subgame") => n.type = "chance"
  <2> SUFFICES ASSUME n.parent # 0, nodes[n.parent].type = "subgame" PROVE n.type = "chance"
    OBVIOUS
  <2>1. Top.last = -1 BY <1>4, <1>5 DEF DealtAt
  <2>2. Top.tree # 0
    <3>1. Top.tree = nodes[n.parent].u.index + 1 BY <1>4, <1>5 DEF Kin
    <3>2. nodes[n.parent].u.index \in Nat BY <1>10 DEF LinksInv, OwnTrees
    <3> QED BY <3>1, <3>2
  <2>3. Top.split = -1 BY <1>1, <2>2 DEF VisitRounds
  <2> QED BY <1>7, <1>8, <2>1, <2>3
<1>13. n.type = "subgame" => n.tree = 0
  <2> SUFFICES ASSUME n.type = "subgame", n.tree # 0 PROVE FALSE OBVIOUS
  <2>1. Top.split = -1 BY <1>1, <1>5 DEF VisitRounds
  <2> QED BY <1>7, <1>8, <2>1
<1>14. Placed(nodes', Id) BY <1>1, <1>9, <1>10, <1>11, <1>12, <1>13 DEF Placed
<1> QED BY <1>1, <1>6, <1>14

LEMMA VisitTies ==
  ASSUME TreeInv, TablesInv, NEW n, NEW new, Builds(n, new), Descends(n, new),
         NEW i \in DOMAIN new, new[i].kind = "visit"
  PROVE  Kin(nodes', new[i]) /\ DealtAt(nodes', new[i])
<1> DEFINE v == new[i]
<1>1. TopOfTree BY TopTree
<1>2. Planted(nodes, n, nodes', todo, new, todo') BY NewPlanted
<1>3. nodes'[Id] = n /\ v.parent = Id /\ Id # 0 BY <1>1, <1>2 DEF Planted, TopOfTree
<1>4. Continues(n, v) /\ n.tree = Top.tree /\ n.chance = Top.chance
  BY DEF Descends, Builds, NodeNew
<1>5. n.type = "subgame" => n.u.index + 1 = v.tree BY <1>4 DEF Continues
<1> HIDE DEF v
<1>6. Kin(nodes', v) BY <1>3, <1>4 DEF Kin, Continues
<1>7. DealtAt(nodes', v) BY <1>3, <1>4 DEF DealtAt, Continues
<1> QED BY <1>6, <1>7 DEF v

LEMMA TreesNext ==
  ASSUME TreeInv, TablesInv, LinksInv, NEW n, NEW new, Builds(n, new), Descends(n, new)
  PROVE  OwnTrees(nodes', size')
<1>1. Planted(nodes, n, nodes', todo, new, todo') BY NewPlanted
<1> DEFINE ns == nodes'
           sz == size'
           len == Len(nodes)
<1>2. /\ len \in Nat /\ DOMAIN nodes = 1 .. len /\ DOMAIN ns = 1 .. len + 1 /\ ns[len + 1] = n
      /\ \A i \in 1 .. len : ns[i] = nodes[i]
  BY <1>1 DEF Planted
<1>3. OwnTrees(nodes, size) /\ DOMAIN size \subseteq DOMAIN sz BY DEF LinksInv, Builds, CountsNext
<1>4. n.type = "subgame" =>
        n.u.index \in Nat /\ n.u.index + 1 \in DOMAIN sz /\ n.u.index + 1 \notin DOMAIN size
  <2> SUFFICES ASSUME n.type = "subgame"
               PROVE  n.u.index \in Nat /\ n.u.index + 1 \in DOMAIN sz /\ n.u.index + 1 \notin DOMAIN size
    OBVIOUS
  <2>1. 1 \in DOMAIN new /\ new[1].kind = "visit" /\ n.u.index + 1 \in DOMAIN sz BY DEF Descends
  <2>2. Continues(n, new[1]) BY <2>1 DEF Descends
  <2>3. n.u.index + 1 \notin DOMAIN size BY <2>2 DEF Continues
  <2>4. n.u.index \in Nat BY DEF Descends
  <2> QED BY <2>1, <2>3, <2>4
<1> HIDE DEF ns, sz, len
<1>5. \A i \in 1 .. len + 1 : i \in 1 .. len \/ i = len + 1 BY <1>2
<1> QED BY <1>2, <1>3, <1>4, <1>5 DEF OwnTrees, ns, sz

LEMMA LinksBuilt ==
  ASSUME TreeInv, TablesInv, LinksInv, RoundsInv, NEW n, NEW new, Builds(n, new), Descends(n, new)
  PROVE  LinksInv'
<1>1. Planted(nodes, n, nodes', todo, new, todo') /\ Keeps(nodes, nodes') BY NewPlanted
<1>2. Opened(n, new) BY DEF Descends, Opened
<1>3. Nested(nodes, todo) /\ FirstChildren(nodes, todo) BY DEF LinksInv
<1>4. OwnTrees(nodes', size') BY TreesNext
<1>5. PICK s \in Int : AllRounds(game, nodes, todo, s) BY DEF RoundsInv
<1>6. Kin(nodes', nodes'[Id]) /\ Placed(nodes', Id) BY <1>5, NodeTies
<1>7. \A i \in DOMAIN new : new[i].kind = "visit" => Kin(nodes', new[i]) /\ DealtAt(nodes', new[i])
  BY VisitTies
<1> DEFINE ns == nodes'
           td == todo'
           len == Len(nodes)
<1>8. /\ len \in Nat /\ DOMAIN nodes = 1 .. len /\ DOMAIN ns = 1 .. len + 1 /\ Id = len + 1
      /\ \A i \in 1 .. len : ns[i] = nodes[i] /\ nodes[i].parent \in 0 .. i - 1
      /\ \A k \in DOMAIN todo : todo[k].kind = "visit" => todo[k].parent \in 0 .. len
  BY <1>1 DEF Planted, Id
<1>9. Planted(nodes, n, ns, todo, new, td) /\ Keeps(nodes, ns) BY <1>1
<1>10. Kin(ns, ns[Id]) /\ Placed(ns, Id) BY <1>6
<1>11. \A i \in DOMAIN new : new[i].kind = "visit" => Kin(ns, new[i]) /\ DealtAt(ns, new[i])
  BY <1>7
<1>12. FamilyTies(nodes, todo) BY DEF LinksInv
<1> HIDE DEF ns, td, len
<1>13. Nested(ns, td) BY <1>3, <1>9, NestedNext
<1>14. FirstChildren(ns, td) BY <1>2, <1>3, <1>9, FirstChildrenNext
<1>15. ASSUME NEW i \in DOMAIN ns PROVE Kin(ns, ns[i]) /\ Placed(ns, i)
  <2>1. CASE i = Id BY <1>10, <2>1
  <2>2. CASE i # Id
    <3>1. i \in 1 .. len /\ i \in DOMAIN nodes /\ ns[i] = nodes[i] /\ nodes[i].parent \in 0 .. i - 1
      BY <1>8, <2>2
    <3>2. Kin(nodes, nodes[i]) /\ Placed(nodes, i) BY <1>12, <3>1 DEF FamilyTies
    <3>3. nodes[i].parent \in 0 .. Len(nodes) BY <1>8, <3>1 DEF len
    <3>4. Kin(ns, nodes[i]) BY <1>9, <3>2, <3>3, KinStays
    <3>5. Placed(ns, i) BY <1>9, <3>1, <3>2, PlacedStays
    <3> QED BY <3>1, <3>4, <3>5
  <2> QED BY <2>1, <2>2
<1>16. ASSUME NEW k \in DOMAIN td, td[k].kind = "visit" 
      PROVE  Kin(ns, td[k]) /\ DealtAt(ns, td[k]) /\ td[k].parent # 0
  <2>1. CASE k \in DOMAIN new /\ td[k] = new[k]
    <3>1. new[k].parent = len + 1 BY <1>8, <1>9, <1>16, <2>1 DEF Planted, len
    <3> QED BY <1>8, <1>11, <1>16, <2>1, <3>1
  <2>2. ASSUME NEW j \in DOMAIN todo, j # 1, td[k] = todo[j]
        PROVE  Kin(ns, td[k]) /\ DealtAt(ns, td[k]) /\ td[k].parent # 0
    <3> DEFINE v == todo[j]
    <3>1. Kin(nodes, v) /\ DealtAt(nodes, v) /\ v.parent \in 0 .. Len(nodes)
      BY <1>8, <1>12, <1>16, <2>2 DEF FamilyTies, len
    <3>2. v.parent # 0 BY <1>12, <1>16, <2>2 DEF FamilyTies
    <3> HIDE DEF v
    <3>3. v.parent \in 1 .. Len(nodes) BY <1>8, <3>1, <3>2 DEF len
    <3>4. Kin(ns, v) /\ DealtAt(ns, v) BY <1>9, <3>1, <3>3, KinStays, DealtStays
    <3> QED BY <2>2, <3>2, <3>4 DEF v
  <2> QED BY <1>9, <2>1, <2>2, VisitsNext
<1>17. FamilyTies(ns, td) BY <1>15, <1>16 DEF FamilyTies
<1> QED BY <1>4, <1>13, <1>14, <1>17 DEF LinksInv, ns, td

(* CloseChance changes only what a chance node counts. *)
LEMMA LinksClosed ==
  ASSUME TreeInv, TablesInv, LinksInv, CloseChance
  PROVE  LinksInv'
<1>1. Closes(Top.node) BY CloseFacts
<1>2. /\ todo # <<>> /\ todo' = Tail(todo) /\ Top.kind = "close" /\ size' = size
      /\ Keeps(nodes, nodes') /\ DOMAIN nodes' = DOMAIN nodes /\ Len(nodes') = Len(nodes)
  BY <1>1 DEF Closes
<1>3. todo \in Seq(VisitType(game) \cup CloseType) /\ nodes \in Seq(NodeType(game)) BY DEF TreeInv
<1>4. ShapeInv(nodes) BY DEF TablesInv
<1>5. /\ Len(todo) \in Nat \ {0} /\ DOMAIN todo = 1 .. Len(todo) /\ Top = todo[1]
      /\ DOMAIN todo' = 1 .. Len(todo) - 1 /\ \A k \in 1 .. Len(todo) - 1 : todo'[k] = todo[k + 1]
  BY <1>2, <1>3 DEF Top
<1> DEFINE ns == nodes'
           td == todo'
           len == Len(nodes)
<1>6. /\ len \in Nat /\ DOMAIN nodes = 1 .. len /\ DOMAIN ns = 1 .. len /\ Len(ns) = len
      /\ \A i \in 1 .. len : /\ ns[i].parent = nodes[i].parent /\ ns[i].type = nodes[i].type
                             /\ ns[i].tree = nodes[i].tree /\ ns[i].chance = nodes[i].chance
                             /\ nodes[i].parent \in 0 .. i - 1
      /\ \A i \in 1 .. len : nodes[i].type = "subgame" => ns[i].u = nodes[i].u
  <2>1. Len(nodes) \in Nat /\ DOMAIN nodes = 1 .. Len(nodes) BY <1>3
  <2> QED BY <1>2, <1>4, <2>1 DEF Keeps, Extends, ShapeInv
<1>7. \A k \in DOMAIN td : k + 1 \in DOMAIN todo /\ td[k] = todo[k + 1] /\ k \in Nat \ {0} BY <1>5
<1>8. \A k \in DOMAIN todo : todo[k].kind = "visit" => todo[k].parent \in 0 .. len
  <2> SUFFICES ASSUME NEW k \in DOMAIN todo, todo[k].kind = "visit"
               PROVE  todo[k].parent \in 0 .. Len(nodes)
    OBVIOUS
  <2>1. EntryInv(game, DOMAIN size, nodes, todo[k]) BY DEF TreeInv
  <2> QED BY <2>1 DEF EntryInv, PlaceInv
<1>9. /\ Keeps(nodes, ns) /\ todo[1].kind = "close" /\ 1 \in DOMAIN todo /\ len = Len(nodes)
  BY <1>2, <1>5
<1>10. Nested(nodes, todo) /\ FirstChildren(nodes, todo) /\ FamilyTies(nodes, todo)
       /\ OwnTrees(nodes, size)
  BY DEF LinksInv
<1> HIDE DEF ns, td, len
<1>11. Nested(ns, td)
  <2>1. ASSUME NEW p, NEW l \in 0 .. len, Resumes(nodes, p, l) PROVE Resumes(ns, p, l)
    <3>1. \A i \in 1 .. l : i \in 1 .. len BY <1>6
    <3>2. \A i \in 1 .. l : ns[i].parent = nodes[i].parent BY <1>6, <3>1
    <3> QED BY <2>1, <3>2 DEF Resumes
  <2>2. ASSUME NEW k \in 1 .. len PROVE Resumes(ns, ns[k].parent, k - 1)
    <3>1. Resumes(nodes, nodes[k].parent, k - 1) /\ k - 1 \in 0 .. len
      BY <1>6, <1>10 DEF Nested
    <3> QED BY <1>6, <2>1, <3>1
  <2>3. ASSUME NEW k \in DOMAIN td, td[k].kind = "visit" PROVE Resumes(ns, td[k].parent, len)
    <3>1. Resumes(nodes, td[k].parent, len) BY <1>7, <1>9, <1>10, <2>3 DEF Nested
    <3> QED BY <1>6, <2>1, <3>1
  <2>4. ASSUME NEW j \in DOMAIN td, NEW k \in DOMAIN td, j < k, td[j].kind = "visit",
               td[k].kind = "visit"
        PROVE  td[k].parent <= td[j].parent
    <3>1. j + 1 < k + 1 BY <1>7, <2>4
    <3> QED BY <1>7, <1>10, <2>4, <3>1 DEF Nested
  <2> QED BY <1>6, <2>2, <2>3, <2>4 DEF Nested
<1>12. \A p : HasOne(ns, p) <=> HasOne(nodes, p) BY <1>6 DEF HasOne
<1>13. len # 0 => nodes[len].type = "leaf" BY <1>9, <1>10 DEF FirstChildren
<1>14. FirstChildren(ns, td)
  <2>1. ASSUME NEW i \in 1 .. len, ns[i].type # "leaf", i # len PROVE ns[i + 1].parent = i
    <3>1. i + 1 \in 1 .. len BY <1>6, <2>1
    <3>2. nodes[i + 1].parent = i BY <1>6, <1>9, <1>10, <2>1 DEF FirstChildren
    <3> QED BY <1>6, <3>1, <3>2
  <2>2. len # 0 => ns[len].type = "leaf" BY <1>6, <1>13
  <2>3. ASSUME NEW k \in 1 .. len, HasOne(ns, ns[k].parent) PROVE k = ns[k].parent + 1
    <3>1. ns[k].parent = nodes[k].parent /\ k \in DOMAIN nodes BY <1>6
    <3>2. HasOne(nodes, nodes[k].parent) BY <1>12, <2>3, <3>1
    <3>3. k = nodes[k].parent + 1 BY <1>10, <3>1, <3>2 DEF FirstChildren
    <3> QED BY <3>1, <3>3
  <2>4. ASSUME NEW k \in DOMAIN td, td[k].kind = "visit", HasOne(ns, td[k].parent) PROVE FALSE
    <3>1. k + 1 = 1 BY <1>7, <1>10, <1>12, <2>4 DEF FirstChildren
    <3> QED BY <1>7, <3>1
  <2> QED BY <1>6, <2>1, <2>2, <2>3, <2>4 DEF FirstChildren
<1>15. ASSUME NEW i \in 1 .. len PROVE Kin(ns, ns[i]) /\ Placed(ns, i)
  <2>1. Kin(nodes, nodes[i]) /\ Placed(nodes, i) BY <1>6, <1>10 DEF FamilyTies
  <2>2. nodes[i].parent \in 0 .. Len(nodes) /\ i \in DOMAIN nodes /\ nodes[i].parent \in 0 .. i - 1
    BY <1>6, <1>9
  <2>3. Kin(ns, nodes[i]) BY <1>9, <2>1, <2>2, KinStays
  <2>4. Placed(ns, i) BY <1>9, <2>1, <2>2, PlacedStays
  <2>5. Kin(ns, ns[i]) BY <1>6, <2>3, KinSame
  <2> QED BY <2>4, <2>5
<1>16. ASSUME NEW k \in DOMAIN td, td[k].kind = "visit"
       PROVE  Kin(ns, td[k]) /\ DealtAt(ns, td[k]) /\ td[k].parent # 0
  <2> DEFINE v == td[k]
  <2>1. /\ v = todo[k + 1] /\ k + 1 \in DOMAIN todo /\ k + 1 # 1 BY <1>7
  <2>2. Kin(nodes, v) /\ DealtAt(nodes, v) /\ v.parent # 0 /\ v.parent \in 0 .. Len(nodes)
    BY <1>8, <1>9, <1>10, <1>16, <2>1 DEF FamilyTies
  <2> HIDE DEF v
  <2>3. v.parent \in 1 .. Len(nodes) BY <1>6, <1>9, <2>2
  <2>4. Kin(ns, v) /\ DealtAt(ns, v) BY <1>9, <2>2, <2>3, KinStays, DealtStays
  <2> QED BY <2>2, <2>4 DEF v
<1>17. FamilyTies(ns, td) BY <1>6, <1>15, <1>16 DEF FamilyTies
<1>18. OwnTrees(ns, size')
  <2>1. \A i \in DOMAIN ns : ns[i].type = "subgame" =>
          i \in DOMAIN nodes /\ nodes[i].type = "subgame" /\ nodes[i].u.index = ns[i].u.index
    BY <1>6
  <2> QED BY <1>2, <1>10, <2>1 DEF OwnTrees
<1> QED BY <1>11, <1>14, <1>17, <1>18 DEF LinksInv, ns, td

LEMMA InitLinks ==
  ASSUME Init PROVE LinksInv
<1>1. PICK g \in Games : \E split \in {-1} \cup 1 .. g.numRounds - 1 :
        todo = <<Visit(InitState(g), split, -1, 0, 0, 0)>> /\ nodes = <<>>
  BY DEF Init
<1>2. PICK split \in {-1} \cup 1 .. g.numRounds - 1 :
        todo = <<Visit(InitState(g), split, -1, 0, 0, 0)>>
  BY <1>1
<1> DEFINE v == Visit(InitState(g), split, -1, 0, 0, 0)
<1>3. GameOK(g) /\ g.numRounds \in Nat BY AllGamesOK DEF GameOK
<1>4. InitState(g).round = 0 BY <1>3, InitHand
<1>5. /\ v.kind = "visit" /\ v.parent = 0 /\ v.tree = 0 /\ v.chance = 0 /\ v.last = -1
      /\ v.hand.round = 0 /\ v.split = split /\ split # 0
  BY <1>3, <1>4 DEF Visit
<1>6. todo = <<v>> BY <1>2
<1> HIDE DEF v
<1>7. DOMAIN todo = {1} /\ todo[1] = v /\ nodes = <<>> /\ DOMAIN nodes = {} /\ Len(nodes) = 0
  BY <1>1, <1>6
<1>8. Nested(nodes, todo) BY <1>5, <1>7 DEF Nested, Resumes
<1>9. FirstChildren(nodes, todo) BY <1>5, <1>7 DEF FirstChildren, HasOne
<1>10. Kin(nodes, v) /\ DealtAt(nodes, v) BY <1>5, <1>7 DEF Kin, DealtAt
<1>11. FamilyTies(nodes, todo) BY <1>7, <1>10 DEF FamilyTies
<1>12. OwnTrees(nodes, size) BY <1>7 DEF OwnTrees
<1> QED BY <1>8, <1>9, <1>11, <1>12 DEF LinksInv

LEMMA NextLinks ==
  ASSUME TreeInv, TablesInv, RoundsInv, LinksInv, [Next]_vars PROVE LinksInv'
<1>1. CASE CloseChance BY <1>1, LinksClosed
<1>2. CASE Build /\ ~CloseChance
  <2>1. PICK n, new : Builds(n, new) /\ Descends(n, new) BY <1>2, NodeBuilds
  <2> QED BY <2>1, LinksBuilt
<1>3. CASE UNCHANGED vars
  <2>1. nodes' = nodes /\ todo' = todo /\ size' = size BY <1>3 DEF vars
  <2> QED BY <2>1 DEF LinksInv
<1> QED BY <1>1, <1>2, <1>3 DEF Next, Done

(* The nodes of a tree are in the order in which a walk meets them: what   *)
(* is below a node follows it without a gap, and a node has the tree and   *)
(* the chance node of its parent, or is the first below it.                *)
THEOREM NodesInWalkOrder == (\A g \in Games : NoSkips(g)) => (Spec => []LinksInv)
<1> SUFFICES ASSUME \A g \in Games : NoSkips(g) PROVE Spec => []LinksInv
  OBVIOUS
<1>1. Init => LinksInv BY InitLinks
<1>2. TreeInv /\ TablesInv /\ RoundsInv /\ LinksInv /\ [Next]_vars => LinksInv' BY NextLinks
<1>3. Spec => []RoundsInv BY RoundsInOrder
<1> QED BY <1>1, <1>2, <1>3, Invariant, Tables, PTL DEF Spec
=============================================================================
