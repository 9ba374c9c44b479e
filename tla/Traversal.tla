------------------------------- MODULE Traversal -------------------------------
(***************************************************************************)
(* The walks over trunk and subgames: vanilla_r, computeBR_r, generateWork, *)
(* generateBR, and reorder_r of the program recompress.  They find the     *)
(* values of a node by pointers that they move along, one for each round   *)
(* and player, and those of a subgame by the order in which the blocks of  *)
(* its chance nodes come out of compressed streams.  The recursion is a    *)
(* stack of nodes to visit and of chance nodes whose boards are being      *)
(* tried.  Values do not occur; of the opponent's probabilities, reach     *)
(* says whether any is positive.                                           *)
(***************************************************************************)
EXTENDS BettingTree, Boards

CONSTANTS Walked,    \* the games whose trees are walked
          MaxPasses  \* bound: passes of CFR

ASSUME WalkedAssumption == Walked \subseteq Games /\ MaxPasses \in Nat

(* The cards and suit groups that a round can begin with.                  *)
Dealt(g) ==
  LET D[r \in 0 .. g.numRounds] ==
        IF r = 0 THEN {[board |-> {}, suitGroups |-> InitSuitGroups(g)]}
        ELSE UNION {LET new == NewBoards(g, r - 1, b.board, b.suitGroups)
                    IN {[board |-> new[i].board, suitGroups |-> new[i].suitGroups] :
                          i \in DOMAIN new} : b \in D[r - 1]}
  IN D

Board(g) == [board : SUBSET Deck(g), suitGroups : [Suits(g) -> Suits(g)], weight : Nat,
             firstChildIndex : Nat, endChildIndex : Nat]

(* The deck is large enough: whatever has been dealt, there is a board for *)
(* the next round.                                                         *)
ASSUME DeckAssumption ==
  \A g \in Walked : g.numSuits \in Nat /\ \A r \in RoundsOf(g) :
    /\ NumHands(g, r) \in Nat /\ g.numSampledBoards[r] \in Nat
    /\ \A b \in Dealt(g)[r] :
         LET new == NewBoards(g, r, b.board, b.suitGroups)
         IN new \in Seq(Board(g)) /\ new # <<>> /\ \A i \in DOMAIN new : RankCardset(g, new[i].board) \in Nat

VARIABLES passes,      \* CFR passes made
          job,         \* the walk going on: type and player
          stack,
          ptr,         \* roundRegrets and roundAvgStrategy, which move alike
          boardIndex,
          content,     \* of each compressed array and round, the blocks in their order
          read, out,   \* how many have been decompressed; what has been compressed
          place,       \* history: where each block of the trunk was seen first
          moved        \* history: the entries that reorder_r has written

walkVars == <<passes, job, stack, ptr, boardIndex, content, read, out, place, moved>>
allVars  == <<vars, storage, walkVars>>

NoJob  == [type |-> "none", player |-> -1]
Arrays == {"regrets", "avgStrategy"} \X Players
NoBlocks   == [a \in Arrays |-> [r \in Rounds |-> <<>>]]
NothingRead == [a \in Arrays |-> [r \in Rounds |-> 0]]
AtStart    == [r \in Rounds |-> [p \in Players |-> 0]]
FirstBoards == [r \in Rounds |-> 0]

WalkInit ==
  /\ Init
  /\ storage = EmptyStorage(game, 0, 0, 0, {}, InitSuitGroups(game))
  /\ passes = 0 /\ job = NoJob /\ stack = <<>>
  /\ ptr = AtStart /\ boardIndex = FirstBoards
  /\ content = NoBlocks /\ read = NothingRead /\ out = NoBlocks
  /\ place = << >> /\ moved = {}

BuildTree == Build /\ UNCHANGED <<storage, walkVars>>

-----------------------------------------------------------------------------
SubgameNodes == {i \in DOMAIN nodes : nodes[i].type = "subgame"}
TrunkRounds  == IF SubgameNodes = {} THEN game.numRounds
                ELSE Min({nodes[i].round : i \in SubgameNodes})

Children(n) == Ascending({i \in DOMAIN nodes : nodes[i].parent = n})
Root        == IF storage.tree = 0 THEN 1
               ELSE Children(CHOOSE i \in SubgameNodes : nodes[i].u.index = storage.tree - 1)[1]

(* setUpTrunkStorage *)
SetUpTrunk ==
  /\ todo = <<>> /\ game \in Walked /\ storage.endRound = 0
  /\ storage' = [storage EXCEPT !.endRound = TrunkRounds]
  /\ UNCHANGED <<vars, walkVars>>

StorageStep == /\ SetUpBoards(game) \/ NextRound
               /\ UNCHANGED <<vars, walkVars>>

AtRest == storage.endRound > 0 /\ Ready /\ job = NoJob

(* The storage of one subgame: what follows one board of the trunk and one *)
(* sequence of actions.  One is walked in place of the trunk.              *)
SetUpSubgame ==
  /\ AtRest /\ storage.tree = 0 /\ passes = 0 /\ DOMAIN place = {}
  /\ \E i \in SubgameNodes, b \in 0 .. NumBoards(TrunkRounds - 1) - 1 :
       LET board == BoardAt(TrunkRounds - 1, b)
       IN storage' = EmptyStorage(game, nodes[i].u.index + 1, TrunkRounds, game.numRounds,
                                  board.board, board.suitGroups)
  /\ UNCHANGED <<vars, walkVars>>

-----------------------------------------------------------------------------
IsCompressed == storage.tree # 0

Above(r) == IF r = storage.startRound THEN 0 ELSE boardIndex[r - 1]
NumFollowing(r) == EndBoard(r, Above(r)) - FirstBoard(r, Above(r))   \* getNumBoards

(* Which arrays a job decompresses, and which of them it rewrites.         *)
Consumes(j) ==
  LET p == j.player
  IN CASE j.type = "cfr" -> {<<"regrets", p>>, <<"regrets", 1 - p>>, <<"avgStrategy", 1 - p>>}
       [] j.type = "br" -> {<<"avgStrategy", q>> : q \in Players}
       [] j.type = "reorder" -> Arrays
       [] OTHER -> {}

Rewrites(j) ==
  IF j.type = "cfr" THEN {<<"regrets", j.player>>, <<"avgStrategy", 1 - j.player>>} ELSE {}

(* An iteration is a pass for player 1 and one for player 0.  In the trunk *)
(* the trunk thread walks as well ("work"); best responses and recompress  *)
(* come between iterations.                                                *)
Jobs ==
  {[type |-> "cfr", player |-> (passes + 1) % 2]}
  \cup {j \in {[type |-> "work", player |-> (passes + 1) % 2]} : ~IsCompressed}
  \cup (IF passes > 0 /\ passes % 2 = 0
        THEN {[type |-> t, player |-> -1] : t \in {"br", "reorder"}} ELSE {})

VisitNode(n, reach) == [kind |-> "visit", node |-> n, reach |-> reach]

Begin ==
  /\ AtRest /\ passes < MaxPasses
  /\ \E j \in Jobs : job' = j
  /\ stack' = <<VisitNode(Root, TRUE)>>
  /\ UNCHANGED <<vars, storage, passes, ptr, boardIndex, content, read, out, place, moved>>

Current == Head(stack)
Node    == nodes[Current.node]
Visiting(type) == stack # <<>> /\ Current.kind = "visit" /\ Node.type = type

(* A leaf is evaluated, a subgame given or taken as a job. *)
WalkEnd ==
  /\ Visiting("leaf") \/ Visiting("subgame")
  /\ stack' = Tail(stack)
  /\ UNCHANGED <<vars, storage, passes, job, ptr, boardIndex, content, read, out, place, moved>>

(* Regrets are zero in the first pass, and every action is played.         *)
Loses(reach) == reach /\ job.type = "cfr" /\ passes > 0

(* Faulty: what cannot be reached is not walked in any round. *)
CutAnywhere(r, reach) == job.type = "cfr" /\ ~reach

(* RIVER_CUTOFFS *)
Cut(r, reach) == job.type = "cfr" /\ r = game.numRounds - 1 /\ ~reach

(* Faulty: the place is taken from immIndex. *)
OutEntriesByImm(n) ==
  IF job.type # "reorder" THEN {}
  ELSE {<<n.round, n.u.playerActing, n.u.immIndex + c, boardIndex[n.round]>> : c \in 0 .. n.u.numChoices - 1}

(* reorder_r puts the entries of an action at the place that `index` gives. *)
OutEntries(n) ==
  IF job.type # "reorder" THEN {}
  ELSE {<<n.round, n.u.playerActing, n.u.index + c, boardIndex[n.round]>> : c \in 0 .. n.u.numChoices - 1}

WalkChoice ==
  /\ Visiting("choice")
  /\ LET all      == {i \in DOMAIN nodes : nodes[i].parent = Current.node}
         opponent == job.type = "cfr" /\ Node.u.playerActing # job.player
     IN \E reached \in IF ~Current.reach THEN {{}}
                       ELSE IF opponent /\ Loses(Current.reach) THEN SUBSET all \ {{}}
                       ELSE {all} :
          LET kept == Ascending({i \in all : ~(opponent /\ Cut(Node.round, i \in reached))})
          IN stack' = [k \in DOMAIN kept |-> VisitNode(kept[k], kept[k] \in reached)] \o Tail(stack)
  /\ moved' = moved \cup OutEntries(Node)
  /\ UNCHANGED <<vars, storage, passes, job, ptr, boardIndex, content, read, out, place>>

(* The block of a chance node: the node and the board it follows. *)
Block(n) == <<n, Above(nodes[n].round)>>

(* The visits of the next board: none of the opponent's hands may go with  *)
(* it any more.                                                            *)
Deal(n, reach) ==
  {IF Cut(nodes[n].round, x) THEN <<>> ELSE <<VisitNode(Children(n)[1], x)>> :
     x \in IF Loses(reach) THEN BOOLEAN ELSE {reach}}

WalkChance ==
  /\ Visiting("chance")
  /\ LET r == Node.round
     IN /\ read' = [a \in Arrays |-> [read[a] EXCEPT ![r] =
                      @ + IF IsCompressed /\ a \in Consumes(job) THEN 1 ELSE 0]]
        /\ boardIndex' = [boardIndex EXCEPT ![r] = FirstBoard(r, Above(r))]
        /\ \E deal \in Deal(Current.node, Current.reach) :
             stack' = deal \o <<[kind |-> "boards", node |-> Current.node,
                                 reach |-> Current.reach, old |-> ptr[r]]>> \o Tail(stack)
        /\ place' = IF IsCompressed \/ Block(Current.node) \in DOMAIN place THEN place
                    ELSE With(place, Block(Current.node), ptr[r])
  /\ UNCHANGED <<vars, storage, passes, job, ptr, content, out, moved>>

Dealing   == stack # <<>> /\ Current.kind = "boards"
MoreBoards(r) == boardIndex[r] + 1 < EndBoard(r, Above(r))

(* Faulty: the pointers do not move when a board is cut. *)
OneBoardUnlessCut(r, pp) ==
  IF Cut(r, Current.reach) THEN pp ELSE [p \in Players |-> pp[p] + NumHands(game, r)]

OneBoard(r, pp) == [p \in Players |-> pp[p] + NumHands(game, r)]

NextBoard ==
  /\ Dealing
  /\ LET r == Node.round
     IN /\ MoreBoards(r)
        /\ ptr' = [ptr EXCEPT ![r] = OneBoard(r, @)]
        /\ boardIndex' = [boardIndex EXCEPT ![r] = @ + 1]
  /\ \E deal \in Deal(Current.node, Current.reach) : stack' = deal \o stack
  /\ UNCHANGED <<vars, storage, passes, job, content, read, out, place, moved>>

(* Entries of a player in the block of a chance node: one per action below *)
(* it, board and hand.                                                     *)
BlockSize(n, p) == LET r == nodes[n].round
                   IN nodes[n].u.bettingTreeSize[r][p] * NumFollowing(r) * NumHands(game, r)

(* After the last board: in a subgame the values are compressed and the    *)
(* space is used again, in the trunk the pointers go on behind the block.  *)
LeaveChance ==
  /\ Dealing /\ ~MoreBoards(Node.round)
  /\ LET r == Node.round
         behind == [p \in Players |-> Current.old[p] + BlockSize(Current.node, p)]
     IN /\ ptr' = [ptr EXCEPT ![r] = IF IsCompressed THEN Current.old ELSE behind]
        /\ out' = [a \in Arrays |-> [out[a] EXCEPT ![r] =
                     IF IsCompressed /\ a \in Rewrites(job)
                     THEN Append(@, Block(Current.node)) ELSE @]]
  /\ stack' = Tail(stack)
  /\ UNCHANGED <<vars, storage, passes, job, boardIndex, content, read, place, moved>>

Finish ==
  /\ job # NoJob /\ stack = <<>>
  /\ content' = [a \in Arrays |-> IF a \in Rewrites(job) THEN out[a] ELSE content[a]]
  /\ passes' = IF job.type = "cfr" THEN passes + 1 ELSE passes
  /\ job' = NoJob
  /\ ptr' = AtStart /\ boardIndex' = FirstBoards
  /\ read' = NothingRead /\ out' = NoBlocks /\ moved' = {}
  /\ UNCHANGED <<vars, storage, stack, place>>

(* The trees of the games not Walked are only made. *)
Stop == /\ todo = <<>> /\ (game \notin Walked \/ passes = MaxPasses)
        /\ UNCHANGED allVars

WalkNext == \/ BuildTree \/ SetUpTrunk \/ StorageStep \/ SetUpSubgame
            \/ Begin \/ WalkEnd \/ WalkChoice \/ WalkChance \/ NextBoard \/ LeaveChance \/ Finish
            \/ Stop

WalkSpec == WalkInit /\ [][WalkNext]_allVars

-----------------------------------------------------------------------------
Frames    == {i \in DOMAIN stack : stack[i].kind = "boards"}
RoundOf(i) == nodes[stack[i].node].round

(* setUpStorage: strategySize *)
StrategySize(r, p) == size[storage.tree][r][p] * NumBoards(r) * NumHands(game, r)

(* getMaxBettingSize *)
MaxBettingSize(r, p) ==
  Max({nodes[n].u.bettingTreeSize[r][p] :
         n \in {i \in ChanceNodes : nodes[i].tree = storage.tree /\ nodes[i].round = r}})

(* reorderSubgame: the space for the blocks of a round, one after another. *)
WorkingSize(r, p) == MaxBettingSize(r, p) * MaxNumBoards(r) * NumHands(game, r)

WalkTypeOK ==
  /\ TypeOK
  /\ passes \in 0 .. MaxPasses /\ job.type \in {"none", "cfr", "work", "br", "reorder"}
  /\ storage.tree \in Trees /\ storage.startRound \in Rounds /\ storage.endRound \in 0 .. game.numRounds
  /\ \A i \in DOMAIN stack : stack[i].node \in DOMAIN nodes /\ stack[i].reach \in BOOLEAN
  /\ ptr \in Sizes /\ boardIndex \in [Rounds -> Nat]
  /\ \A a \in Arrays, r \in Rounds :
       /\ read[a][r] \in Nat
       /\ \A k \in DOMAIN content[a][r] : content[a][r][k][1] \in ChanceNodes
  /\ \A m \in moved : m[1] \in Rounds /\ m[2] \in Players /\ m[3] \in Nat /\ m[4] \in Nat
  /\ DOMAIN place \subseteq ChanceNodes \X Nat

(* The tree fits the tables when it is complete, before it is walked.      *)
TreeFits == storage.endRound = 0 => TablesFit

(* When the boards that follow one are set up, dealing only the canonical  *)
(* ones with their weights is as good as dealing all (FairFor).  Sampled   *)
(* boards are not: what they leave out is not made up for.                 *)
ChanceIsFair ==
  (AtRest /\ passes = 0 /\ \A r \in Rounds : game.numSampledBoards[r] = 0) =>
    \A r \in storage.startRound .. storage.endRound - 1 :
      IF r = storage.startRound THEN FairFor(game, r, storage, storage.boards[r])
      ELSE \A i \in LiveBoards(r - 1) :
             LET parent == BoardAt(r - 1, i)
             IN FairFor(game, r, parent,
                        SubSeq(storage.boards[r], parent.firstChildIndex + 1, parent.endChildIndex))

(* Entries of a player in a block of the trunk, from the boards it has.    *)
SizeOf(b, p) == LET r == nodes[b[1]].round
                IN nodes[b[1]].u.bettingTreeSize[r][p]
                     * (EndBoard(r, b[2]) - FirstBoard(r, b[2])) * NumHands(game, r)

EndsBefore(b, c, p) == place[b][p] + SizeOf(b, p) <= place[c][p]

(* In every walk, of whatever kind and whatever it cuts, the pointers are  *)
(* at the same entries for the same node and board.  In the trunk: while a *)
(* board of a chance node is walked, the pointers of its round are as many *)
(* boards behind the beginning of the block; the block begins where it     *)
(* began in the first walk; of any two blocks of a round one is behind the *)
(* end of the other, so that they share no entry; and the arrays have room *)
(* for them.  In a subgame each block fits the buffer.  Inside, the block  *)
(* of the visited node's own chance node is the current one of its round   *)
(* (TablesFit is about the rest).                                          *)
PlacesFixed ==
  /\ \A i \in Frames : LET f == stack[i]  r == RoundOf(i) IN \A p \in Players :
       /\ ptr[r][p] = f.old[p] + (boardIndex[r] - FirstBoard(r, Above(r))) * NumHands(game, r)
       /\ IF IsCompressed THEN f.old[p] + BlockSize(f.node, p) <= WorkingSize(r, p)
          ELSE /\ f.old = place[Block(f.node)]
               /\ f.old[p] + BlockSize(f.node, p) <= StrategySize(r, p)
  /\ (job # NoJob /\ stack = <<>>) => \A b, c \in DOMAIN place :
       (b # c /\ nodes[b[1]].round = nodes[c[1]].round) =>
          \A p \in Players : EndsBefore(b, c, p) \/ EndsBefore(c, b, p)
  /\ Visiting("choice") =>
       \E i \in Frames : /\ stack[i].node = Node.chance /\ RoundOf(i) = Node.round
                         /\ \A j \in Frames : j < i => RoundOf(j) # Node.round

(* A subgame's streams have no index: what a walk takes out of a stream at *)
(* a chance node is what was put in for that node and board, and at the    *)
(* end of a walk nothing is left over.                                     *)
StreamsInOrder ==
  IsCompressed => \A a \in Consumes(job), r \in Rounds : content[a][r] # <<>> =>
    /\ \A i \in Frames : RoundOf(i) = r =>
         /\ read[a][r] <= Len(content[a][r])
         /\ content[a][r][read[a][r]] = Block(stack[i].node)
    /\ stack = <<>> => read[a][r] = Len(content[a][r])

(* recompress puts the entries of every action of the tree and every board *)
(* into its own place of the reordered array, exactly once.                *)
ReorderPreserves ==
  job.type = "reorder" =>
    /\ Visiting("choice") => OutEntries(Node) \cap moved = {}
    /\ stack = <<>> =>
         moved = UNION {{<<x[1], x[2], i, b>> :
                           i \in 0 .. size[storage.tree][x[1]][x[2]] - 1, b \in LiveBoards(x[1])} :
                          x \in (storage.startRound .. storage.endRound - 1) \X Players}
=============================================================================
