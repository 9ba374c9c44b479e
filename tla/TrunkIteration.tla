---------------------------- MODULE TrunkIteration ----------------------------
(***************************************************************************)
(* An iteration on the trunk of the game: main and the trunk thread walk   *)
(* the same tree at the same time.  The trunk thread (generateWork_r,      *)
(* generateBR_r) submits a job for each subgame, main (vanilla_r,          *)
(* computeBR_r) waits for the job's result and updates the regrets that    *)
(* the trunk thread reads.  In a CFR pass both leave out the subgames that *)
(* the opponent does not reach with any hand; nothing but the order of     *)
(* these waits and one semaphore keeps the two together.                   *)
(***************************************************************************)
EXTENDS Integers, FiniteSets, Sequences

CONSTANTS Tree,      \* nodes in depth-first order: records of kind, player,
                     \* kids (set of nodes) and last (of the node's subtree)
          Hands,     \* private hands of a player
          Dealt,     \* hands that the cards dealt above a node leave possible
          QueueSize  \* of the queue that the trunk thread submits to

(* The players, and the CFR passes, which are named by their player. *)
CFR == {"p0", "p1"}

Nodes    == 1 .. Len(Tree)
Choices  == {n \in Nodes : Tree[n].kind = "choice"}
Subgames == {n \in Nodes : Tree[n].kind = "subgame"}

(* A tree whose first decision, or only subgame, is its root.              *)
ASSUME TreeAssumption ==
  /\ Len(Tree) \in Nat /\ 1 \in Choices \cup Subgames
  /\ \A n \in Nodes :
       /\ Tree[n].kind \in {"choice", "chance", "leaf", "subgame"}
       /\ Tree[n].last \in n .. Len(Tree) /\ Tree[n].kids \subseteq n + 1 .. Tree[n].last
       /\ n \in Choices => Tree[n].player \in CFR
       /\ Tree[n].kids = {} <=> Tree[n].kind \in {"leaf", "subgame"}
       /\ \A m \in n + 1 .. Tree[n].last : Tree[m].last <= Tree[n].last
  /\ \A n \in Nodes \ {1} : \E m \in Nodes : n \in Tree[m].kids
  /\ \A m, n \in Nodes : m # n => Tree[m].kids \cap Tree[n].kids = {}

(* A hand that is possible before cards are dealt is so after some deal,   *)
(* as the trunk deals every board (numSampledBoards is 0 in its rounds).   *)
ASSUME HandsAssumption ==
  /\ Hands # {} /\ Dealt \in [Nodes -> (SUBSET Hands) \ {{}}] /\ Dealt[1] = Hands
  /\ \A n \in Nodes :
       /\ \A m \in Tree[n].kids :
            Dealt[m] \subseteq Dealt[n] /\ (Tree[n].kind # "chance" => Dealt[m] = Dealt[n])
       /\ Tree[n].kind = "chance" => Dealt[n] \subseteq UNION {Dealt[m] : m \in Tree[n].kids}
  /\ QueueSize \in Nat \ {0}

(* From each node of S, p can play on to a subgame whatever the opponent   *)
(* does and the cards are: p has an action that stays in S, and nothing    *)
(* else leaves it.                                                         *)
PlaysOn(p, S) ==
  \A n \in S : /\ Tree[n].kind # "leaf"
               /\ IF n \in Choices /\ Tree[n].player = p THEN Tree[n].kids \cap S # {}
                                                         ELSE Tree[n].kids \subseteq S

(* Who has to act can play on: by calling, after which the opponent can    *)
(* fold only after a raise (isValidAction).                                *)
ASSUME CallAssumption ==
  \A p \in CFR : \E S \in SUBSET Nodes :
    PlaysOn(p, S) /\ {n \in Choices : Tree[n].player = p} \subseteq S

VARIABLES
  policy,     \* regrets of the trunk: the actions with positive probability
              \* for each possible hand at each choice node
  iterSem, runBR, quit,  \* TrunkWorker
  mainPass, mainAt,      \* what main does, and the node it comes to next
  mainReach,  \* opponent hands with positive probability at each node
  updated,    \* own choice nodes whose regrets this pass has updated
  trunkPass, trunkAt, trunkReach,  \* the same of the trunk thread
  spec,       \* SubgameSpec of each subgame: the input, then the result
  pending, running,      \* submitted jobs, jobs of the workers
  finished    \* SubgameSpec.finished

main  == <<mainPass, mainAt, mainReach, updated>>
trunk == <<trunkPass, trunkAt, trunkReach>>
work  == <<spec, pending, running, finished>>
vars  == <<policy, iterSem, runBR, quit, main, trunk, work>>

End == Len(Tree) + 1
Nowhere == [n \in Nodes |-> {}]
FromRoot == [Nowhere EXCEPT ![1] = Hands]

Init ==
  /\ policy = [n \in Choices |-> [h \in Dealt[n] |-> Tree[n].kids]]
  /\ iterSem = 0 /\ runBR = FALSE /\ quit = FALSE
  /\ mainPass = "idle" /\ mainAt = End /\ mainReach = Nowhere /\ updated = {}
  /\ trunkPass = "wait" /\ trunkAt = End /\ trunkReach = Nowhere
  /\ spec = [s \in Subgames |-> <<>>]
  /\ pending = {} /\ running = {}
  /\ finished = [s \in Subgames |-> 0]

(* The opponent takes the action to m with hand h: a positive probability  *)
(* by the regrets, read in a pass of player p only.                        *)
Plays(h, n, m, p) == p \in CFR /\ Tree[n].player # p => m \in policy[n][h]

(* The hands that go on from node n to each of its children, in a pass of  *)
(* player p or a best-response pass: those the opponent plays on with, and *)
(* after a deal those that hold no dealt card.                             *)
Onward(reach, n, p) ==
  [m \in Nodes |->
     IF m \notin Tree[n].kids THEN reach[m]
     ELSE {h \in reach[n] \cap Dealt[m] : n \in Choices => Plays(h, n, m, p)}]

-----------------------------------------------------------------------------
(* Main *)

(* main's loop: an iteration is a pass of player 1 and one of player 0,    *)
(* perhaps with a best response after it; then the next, or the end.       *)
Follows(pass) == CASE pass = "idle" -> {"p1"}
                   [] pass = "p1"   -> {"p0"}
                   [] pass = "p0"   -> {"p1", "br", "quit"}
                   [] pass = "br"   -> {"p1", "quit"}
                   [] OTHER         -> {}

(* The start of a pass in vanillaIteration or computeBR, and the shutdown. *)
StartPass(pass) ==
  /\ mainAt = End /\ pass \in Follows(mainPass)
  /\ mainPass' = pass
  /\ runBR' = IF pass = "quit" THEN runBR ELSE pass = "br"
  /\ quit' = (pass = "quit")
  /\ mainAt' = IF pass = "quit" THEN End ELSE 1
  /\ mainReach' = IF pass = "quit" THEN Nowhere ELSE FromRoot
  /\ updated' = {}
  /\ iterSem' = iterSem + 1
  /\ UNCHANGED <<policy, trunk, work>>

OwnNode(n) == n \in Choices /\ Tree[n].player = mainPass

(* The own node main returns from next: the innermost that is all visited. *)
Returning == {n \in Choices \ updated : OwnNode(n) /\ Tree[n].last < mainAt}
Innermost(n) == n \in Returning /\ \A m \in Returning : m <= n

(* After the last action of an own node: new regrets, and so a new policy  *)
(* for the next pass.  Where the opponent has no hand left all values are  *)
(* zero and the regrets stay.                                              *)
UpdateRegrets(n) ==
  /\ Innermost(n)
  /\ updated' = updated \cup {n}
  /\ IF mainReach[n] = {} THEN UNCHANGED policy
     ELSE \E new \in [Dealt[n] -> (SUBSET Tree[n].kids) \ {{}}] :
            policy' = [policy EXCEPT ![n] = new]
  /\ UNCHANGED <<iterSem, runBR, quit, mainPass, mainAt, mainReach, trunk, work>>

(* What a job's result depends on. *)
Result(pass, reach) == [of |-> "result", pass |-> pass, reach |-> reach]
Input(pass, reach)  == [of |-> "input", pass |-> pass, reach |-> reach]

MainCuts(n) == mainPass \in CFR /\ mainReach[n] = {}

(* A subgame is left out, or main waits for its job and copies the result. *)
WaitForSubgame(n) ==
  /\ n \in Subgames
  /\ IF MainCuts(n) THEN UNCHANGED finished
     ELSE finished[n] > 0 /\ finished' = [finished EXCEPT ![n] = @ - 1]

Visit ==
  /\ mainAt # End /\ Returning = {}
  /\ WaitForSubgame(mainAt) \/ (mainAt \notin Subgames /\ UNCHANGED finished)
  /\ mainReach' = Onward(mainReach, mainAt, mainPass)
  /\ mainAt' = mainAt + 1
  /\ UNCHANGED <<policy, iterSem, runBR, quit, mainPass, updated, trunk, spec,
                 pending, running>>

-----------------------------------------------------------------------------
(* trunkThreadMain *)

(* Faulty: the two passes of an iteration in the other order. *)
WokenForOther == IF trunkPass = "p0" THEN "p1"
                 ELSE IF quit THEN "gone" ELSE IF runBR THEN "br" ELSE "p0"

(* Faulty: runBR, left set by a best response before the end, hides quit.  *)
WokenForBRFirst == IF trunkPass = "p1" THEN "p0"
                   ELSE IF runBR THEN "br" ELSE IF quit THEN "gone" ELSE "p1"

(* Between the passes of an iteration neither quit nor runBR is looked at, *)
(* and runBR, left set by a best response, not after quit.                 *)
WokenFor == IF trunkPass = "p1" THEN "p0"
            ELSE IF quit THEN "gone" ELSE IF runBR THEN "br" ELSE "p1"

(* sem_wait( &trunk->iterSem ), and the start of a pass or the end. *)
Wake ==
  /\ trunkAt = End /\ trunkPass # "gone" /\ iterSem > 0
  /\ iterSem' = iterSem - 1
  /\ trunkPass' = WokenFor
  /\ trunkAt' = IF WokenFor = "gone" THEN End ELSE 1
  /\ trunkReach' = IF WokenFor = "gone" THEN Nowhere ELSE FromRoot
  /\ UNCHANGED <<policy, runBR, quit, main, work>>

(* Faulty: every subgame gets a job. *)
TrunkCutsNone(n) == FALSE

TrunkCuts(n) == trunkPass \in CFR /\ trunkReach[n] = {}

(* A subgame's job: its specification and its place in the queue. *)
Submit(n) ==
  /\ n \in Subgames
  /\ IF TrunkCuts(n) THEN UNCHANGED <<spec, pending>>
     ELSE /\ Cardinality(pending) < QueueSize
          /\ spec' = [spec EXCEPT ![n] = Input(trunkPass, trunkReach[n])]
          /\ pending' = pending \cup {n}

Generate ==
  /\ trunkAt # End
  /\ Submit(trunkAt) \/ (trunkAt \notin Subgames /\ UNCHANGED <<spec, pending>>)
  /\ trunkReach' = Onward(trunkReach, trunkAt, trunkPass)
  /\ trunkAt' = trunkAt + 1
  /\ UNCHANGED <<policy, iterSem, runBR, quit, main, trunkPass, running, finished>>

-----------------------------------------------------------------------------
(* Workers (and loader and dumper) *)

Take(n) ==
  /\ n \in pending
  /\ pending' = pending \ {n} /\ running' = running \cup {n}
  /\ UNCHANGED <<policy, iterSem, runBR, quit, main, trunk, spec, finished>>

(* Faulty: the job is reported before its result is stored. *)
PerformLate(n) ==
  /\ n \in running
  /\ running' = running \ {n}
  /\ finished' = [finished EXCEPT ![n] = @ + 1]
  /\ UNCHANGED <<policy, iterSem, runBR, quit, main, trunk, pending, spec>>

(* The result takes the place of the input in the union SubgameSpec.u.     *)
Perform(n) ==
  /\ n \in running
  /\ running' = running \ {n}
  /\ spec' = [spec EXCEPT ![n] = Result(@.pass, @.reach)]
  /\ finished' = [finished EXCEPT ![n] = @ + 1]
  /\ UNCHANGED <<policy, iterSem, runBR, quit, main, trunk, pending>>

-----------------------------------------------------------------------------
Ended == mainPass = "quit" /\ trunkPass = "gone" /\ UNCHANGED vars

MainRuns   == (\E pass \in CFR \cup {"br", "quit"} : StartPass(pass)) \/ Visit
              \/ \E n \in Nodes : UpdateRegrets(n)
TrunkRuns  == Wake \/ Generate
WorkerRuns == \E n \in Subgames : Take(n) \/ Perform(n)

Next == MainRuns \/ TrunkRuns \/ WorkerRuns \/ Ended

Spec == Init /\ [][Next]_vars

(* All threads are scheduled. *)
FairSpec == Spec /\ WF_vars(MainRuns) /\ WF_vars(TrunkRuns) /\ WF_vars(WorkerRuns)

-----------------------------------------------------------------------------
(* Properties *)

TypeOK ==
  /\ \A n \in Choices : policy[n] \in [Dealt[n] -> (SUBSET Tree[n].kids) \ {{}}]
  /\ iterSem \in 0 .. 2 /\ runBR \in BOOLEAN /\ quit \in BOOLEAN
  /\ mainPass \in CFR \cup {"idle", "br", "quit"}
  /\ trunkPass \in CFR \cup {"wait", "br", "gone"}
  /\ mainAt \in Nodes \cup {End} /\ trunkAt \in Nodes \cup {End}
  /\ mainReach \in [Nodes -> SUBSET Hands] /\ trunkReach \in [Nodes -> SUBSET Hands]
  /\ updated \subseteq Choices
  /\ pending \subseteq Subgames /\ running \subseteq Subgames
  /\ finished \in [Subgames -> 0 .. 1]

(* When main comes to a subgame whose job is reported, the result in its   *)
(* specification is that of this pass, computed for exactly the opponent   *)
(* hands with which main itself comes there: trunk thread and main saw the *)
(* same regrets on the way, and no report of an earlier job was left over. *)
GetsOwnResult ==
  mainAt \in Subgames /\ Returning = {} /\ ~MainCuts(mainAt) /\ finished[mainAt] > 0 =>
    spec[mainAt] = Result(mainPass, mainReach[mainAt])

(* A job is submitted in the pass that main is in, before main is past the *)
(* subgame; the tail of a pass that main has already left submits nothing. *)
SubmitsInPass ==
  trunkAt \in Subgames /\ ~TrunkCuts(trunkAt) =>
    trunkPass = mainPass /\ mainAt <= trunkAt

(* Main changes regrets only while the trunk thread is in the same pass,   *)
(* where it reads the other player's: although no lock protects them, the  *)
(* trunk thread never reads regrets that are being updated.                *)
UpdatesInStep == [][policy' # policy => trunkPass = mainPass]_vars

(* Every pass ends: main never waits for a job that the trunk thread left  *)
(* out, nor the trunk thread for a pass that main does not start; and the  *)
(* trunk thread that quit wakes ends.                                      *)
PassesEnd == /\ (mainAt # End) ~> (mainAt = End)
             /\ (mainPass = "quit") ~> (trunkPass = "gone")
=============================================================================
