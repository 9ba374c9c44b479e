----------------------------- MODULE BettingTree -----------------------------
(***************************************************************************)
(* getBettingTree: the solver's tree of a two-player game, made in order   *)
(* from the root.  Choice nodes get two indices into the strategy arrays   *)
(* of their player: `index` counts through a whole tree (the trunk or one  *)
(* subgame), immIndex from the last chance node on.  Chance nodes get the  *)
(* number of entries below them.  The recursion is a stack of what is left *)
(* to visit.                                                               *)
(***************************************************************************)
EXTENDS GameRules, SequencesExt

CONSTANT Games   \* the games to make trees of

ASSUME TwoPlayersAssumption == NumPlayers = 2

(* readGame takes no blind above the stack.  Both players have the same    *)
(* stack (the assertion of equal bets at a showdown), which not both blinds *)
(* use up (nextPlayer would not return), and raises of a limit game raise. *)
ASSUME GamesAssumption ==
  \A g \in Games :
    /\ g.noLimit \in BOOLEAN /\ g.numRounds \in Nat \ {0}
    /\ g.stack \in [Players -> Nat] /\ g.blind \in [Players -> Nat]
    /\ \A p, q \in Players : g.stack[p] = g.stack[q] /\ g.blind[p] <= g.stack[p]
    /\ \E p \in Players : g.blind[p] < g.stack[p]
    /\ g.firstPlayer \in [RoundsOf(g) -> Players] /\ g.maxRaises \in [RoundsOf(g) -> Nat]
    /\ ~g.noLimit => g.raiseSize \in [RoundsOf(g) -> Nat \ {0}]

VARIABLES game,
          todo,   \* sequence: hands to visit, chance nodes to close
          nodes,  \* sequence: the nodes made
          size,   \* bettingTreeSize of the trunk (0) and of each subgame, so far
          imm     \* immIndex of the choices that follow each chance node, so far

vars == <<game, todo, nodes, size, imm>>

Rounds  == RoundsOf(game)
NoSizes == [r \in Rounds |-> [p \in Players |-> 0]]
Id      == Len(nodes) + 1   \* of the node that is made next

(* split: where subgames begin, or -1; last: the last round that is dealt. *)
Visit(hand, split, last, tree, chance, parent) ==
  [kind |-> "visit", hand |-> hand, split |-> split, last |-> last,
   tree |-> tree, chance |-> chance, parent |-> parent]

Init ==
  \E g \in Games : \E split \in {-1} \cup 1 .. g.numRounds - 1 :
    /\ game = g
    /\ todo = <<Visit(InitState(g), split, -1, 0, 0, 0)>>
    /\ nodes = <<>>
    /\ size = [t \in {0} |-> [r \in RoundsOf(g) |-> [p \in Players |-> 0]]]
    /\ imm = << >>

Top    == Head(todo)
Visits == todo # <<>> /\ Top.kind = "visit"
Deals  == Top.hand.round > Top.last

Make(type, u) ==
  nodes' = Append(nodes, [type |-> type, round |-> Top.hand.round, hand |-> Top.hand,
                          tree |-> Top.tree, chance |-> Top.chance, parent |-> Top.parent,
                          u |-> u])

With(f, x, y) == [z \in DOMAIN f \cup {x} |-> IF z = x THEN y ELSE f[z]]

Trees == DOMAIN size

(* The rest of the tree is a subgame, with sizes of its own. *)
MakeSubgame ==
  /\ Visits /\ Deals /\ Top.hand.round = Top.split
  /\ Make("subgame", [index |-> Cardinality(Trees) - 1])
  /\ LET new == Cardinality(Trees)
     IN /\ size' = With(size, new, NoSizes)
        /\ todo' = <<Visit(Top.hand, -1, -1, new, 0, Id)>> \o Tail(todo)
  /\ UNCHANGED <<game, imm>>

(* Faulty: immIndex goes on behind a chance node. *)
FirstImmGoesOn == IF Top.chance = 0 THEN [p \in Players |-> 0] ELSE imm[Top.chance]

FirstImm == [p \in Players |-> 0]

(* Cards are dealt; what is below is counted when it has been made.        *)
MakeChance ==
  /\ Visits /\ Deals /\ Top.hand.round # Top.split
  /\ Make("chance", [before |-> size[Top.tree], bettingTreeSize |-> NoSizes, closed |-> FALSE])
  /\ imm' = With(imm, Id, FirstImm)
  /\ todo' = <<Visit(Top.hand, Top.split, Top.hand.round, Top.tree, Id, Id),
               [kind |-> "close", node |-> Id]>> \o Tail(todo)
  /\ UNCHANGED <<game, size>>

CloseChance ==
  /\ todo # <<>> /\ Top.kind = "close"
  /\ LET n      == nodes[Top.node]
         after  == size[n.tree]
         dealt  == [r \in Rounds |-> [p \in Players |->
                      IF r >= n.round THEN after[r][p] - n.u.before[r][p] ELSE n.u.before[r][p]]]
     IN nodes' = [nodes EXCEPT ![Top.node].u.bettingTreeSize = dealt, ![Top.node].u.closed = TRUE]
  /\ todo' = Tail(todo)
  /\ UNCHANGED <<game, size, imm>>

(* A fold is worth what the other player spent, a showdown what each did.  *)
MakeLeaf ==
  /\ Visits /\ ~Deals /\ Top.hand.finished
  /\ LET h == Top.hand
         folder == {p \in Players : h.playerFolded[p]}
         sign(p) == IF p \in folder THEN -1 ELSE 1
         stake == IF folder = {} THEN h.spent[0] ELSE h.spent[CHOOSE p \in folder : TRUE]
     IN Make("leaf", [isShowdown |-> folder = {}, value |-> [p \in Players |-> sign(p) * stake]])
  /\ todo' = Tail(todo)
  /\ UNCHANGED <<game, size, imm>>

(* Fold, call, and the raises from small to large. *)
ActionsFrom(hand) ==
  LET sizes == RaiseSizes(game, hand)
      raises == IF sizes = {} THEN <<>>
                ELSE [i \in 1 .. Max(sizes) - Min(sizes) + 1 |->
                        [type |-> "raise", size |-> Min(sizes) + i - 1]]
  IN (IF CanFold(game, hand) THEN <<Fold>> ELSE <<>>) \o <<Call>> \o raises

(* Faulty: of a range of raises one is not counted. *)
NumChoicesShort(hand) ==
  Cardinality({a \in ValidActions(game, hand) : a.type # "raise"})
  + (IF RaiseSizes(game, hand) = {} THEN 0
     ELSE Max(RaiseSizes(game, hand)) - Min(RaiseSizes(game, hand)))

NumChoices(hand) == Cardinality(ValidActions(game, hand))

MakeChoice ==
  /\ Visits /\ ~Deals /\ ~Top.hand.finished
  /\ LET h == Top.hand  p == CurrentPlayer(game, h)  n == NumChoices(h)
         acts == ActionsFrom(h)
         Child(i) == Visit(DoAction(game, h, acts[i]), Top.split, Top.last,
                           Top.tree, Top.chance, Id)
     IN /\ Make("choice", [playerActing |-> p, numChoices |-> n,
                           index |-> size[Top.tree][h.round][p], immIndex |-> imm[Top.chance][p]])
        /\ size' = [size EXCEPT ![Top.tree][h.round][p] = @ + n]
        /\ imm' = [imm EXCEPT ![Top.chance][p] = @ + n]
        /\ todo' = [i \in DOMAIN acts |-> Child(i)] \o Tail(todo)
  /\ UNCHANGED game

(* The tree is returned to setUpTrunkStorage. *)
Done == todo = <<>> /\ UNCHANGED vars

Build == MakeSubgame \/ MakeChance \/ CloseChance \/ MakeLeaf \/ MakeChoice

Next == Build \/ Done

Spec == Init /\ [][Next]_vars

-----------------------------------------------------------------------------
Sizes   == [Rounds -> [Players -> Nat]]
NodeIds == 0 .. Len(nodes)
ChoiceNodes == {i \in DOMAIN nodes : nodes[i].type = "choice"}
ChanceNodes == {i \in DOMAIN nodes : nodes[i].type = "chance"}

TypeOK ==
  /\ game \in Games
  /\ \A i \in DOMAIN todo :
       IF todo[i].kind = "close" THEN todo[i].node \in ChanceNodes
       ELSE /\ todo[i].split \in -1 .. game.numRounds - 1 /\ todo[i].last \in -1 .. game.numRounds - 1
            /\ todo[i].tree \in Trees /\ todo[i].chance \in ChanceNodes \cup {0}
            /\ todo[i].parent \in NodeIds /\ todo[i].hand.round \in Rounds
  /\ \A i \in DOMAIN nodes : nodes[i].type \in {"choice", "chance", "leaf", "subgame"}
  /\ \A i \in ChanceNodes : nodes[i].u.bettingTreeSize \in Sizes
  /\ size \in [Trees -> Sizes] /\ imm \in [ChanceNodes -> [Players -> Nat]]

(* No series of valid actions brings a hand out of the rules: maxSpent is  *)
(* the largest bet (game.h says so) and nobody spends more than the stack; *)
(* somebody can act until the hand is finished (currentPlayer would not    *)
(* return); betting goes on to the next round or a showdown only when the  *)
(* bets are equal (the assertion at the leaf); and a raise raises.         *)
Kept(h) ==
  /\ h.maxSpent = Max(Range(h.spent))
  /\ \A p \in Players : h.spent[p] <= game.stack[p]
  /\ h.finished \/ Acting(game, h) # {}
  /\ \/ NumFolded(h) > 0
     \/ ~h.finished /\ (Actions(h) # <<>> \/ h.round = 0)
     \/ Cardinality(Range(h.spent)) = 1
  /\ \A r \in Rounds : Len(h.action[r]) <= MaxNumActions

LastPlayed(h, parent) == Last(h.action[nodes[parent].round])

RulesKept ==
  \A i \in DOMAIN todo : todo[i].kind = "visit" =>
    LET h == todo[i].hand  parent == todo[i].parent
    IN /\ Kept(h)
       /\ (parent \in ChoiceNodes /\ LastPlayed(h, parent).type = "raise") =>
            h.maxSpent > nodes[parent].hand.maxSpent

(* The ranges of numChoices entries from start[i] on fill 0 .. n - 1 without overlap. *)
Tile(ids, start, n) ==
  LET end(i) == start[i] + nodes[i].u.numChoices
  IN /\ \A i \in ids : 0 <= start[i] /\ end(i) <= n
     /\ \A i, j \in ids : i < j => end(i) <= start[j]
     /\ \A e \in 0 .. n - 1 : \E i \in ids : start[i] <= e /\ e < end(i)

(* The nodes below c; parents are made before their children. *)
Below(c) ==
  LET upTo[n \in 0 .. Len(nodes)] ==
        IF n = 0 THEN {}
        ELSE LET before == upTo[n - 1]
             IN IF nodes[n].parent \in {c} \cup before THEN before \cup {n} ELSE before
  IN upTo[Len(nodes)]

ChoicesOf(ids, p, r) == {i \in ids \cap ChoiceNodes : nodes[i].u.playerActing = p /\ nodes[i].round = r}

(* The entries of a player's choices have places of their own that fill    *)
(* the arrays of a tree without a gap.                                     *)
IndicesFit ==
  \A t \in Trees, p \in Players, r \in Rounds :
    LET ids == ChoicesOf({i \in ChoiceNodes : nodes[i].tree = t}, p, r)
    IN Tile(ids, [i \in ids |-> nodes[i].u.index], size[t][r][p])

(* A choice has as many entries as children, made or left to visit (the    *)
(* assertion i == numChoices).                                             *)
ChildrenComplete ==
  \A i \in ChoiceNodes :
    nodes[i].u.numChoices = Cardinality({j \in DOMAIN nodes : nodes[j].parent = i})
      + Cardinality({k \in DOMAIN todo : todo[k].kind = "visit" /\ todo[k].parent = i})

(* At the same time immIndex fills the block of a chance node, whose size  *)
(* is bettingTreeSize (the walks step over blocks of that size, and        *)
(* compress each as one array); and what is below a chance node fills that *)
(* many entries of each later round, from those there were before.         *)
BlocksFit ==
  \A c \in ChanceNodes, p \in Players : nodes[c].u.closed =>
    /\ LET ids == {i \in ChoiceNodes : nodes[i].chance = c /\ nodes[i].u.playerActing = p}
       IN Tile(ids, [i \in ids |-> nodes[i].u.immIndex], nodes[c].u.bettingTreeSize[nodes[c].round][p])
    /\ \A r \in nodes[c].round .. game.numRounds - 1 :
         LET ids == {i \in ChoicesOf(Below(c), p, r) : nodes[i].tree = nodes[c].tree}
         IN Tile(ids, [i \in ids |-> nodes[i].u.index - nodes[c].u.before[r][p]],
                 nodes[c].u.bettingTreeSize[r][p])

(* A chance node deals the round after the last. *)
RoundsDealt ==
  \A c \in ChanceNodes : nodes[c].parent # 0 =>
    LET parent == nodes[nodes[c].parent]
    IN nodes[c].round = IF parent.type = "choice" THEN parent.round + 1 ELSE parent.round

(* What is in the trunk is before the round of the subgames. *)
TrunkBeforeSubgames ==
  \A s, i \in DOMAIN nodes :
    (nodes[s].type = "subgame" /\ nodes[i].type # "subgame" /\ nodes[i].tree = 0) =>
      nodes[i].round < nodes[s].round

(* What the walks rely on. *)
TablesFit == IndicesFit /\ ChildrenComplete /\ BlocksFit /\ RoundsDealt /\ TrunkBeforeSubgames
=============================================================================
