----------------------------- MODULE JobService -----------------------------
(***************************************************************************)
(* What the solver needs of its job plumbing (queues, loader, workers,     *)
(* dumper), however it is built: within a pass over the game tree every    *)
(* subgame is submitted at most once, is performed exactly once after it   *)
(* was submitted, and the next pass begins only when every submitted job   *)
(* has been reported finished (the sem_wait on SubgameSpec.finished in     *)
(* vanilla_r and computeBR_r).                                             *)
(***************************************************************************)
CONSTANT Jobs

VARIABLES pending,   \* submitted, not yet picked up by whoever performs it
          running,   \* being performed
          finished   \* performed and reported

vars == <<pending, running, finished>>

TypeOK == /\ pending \subseteq Jobs
          /\ running \subseteq Jobs
          /\ finished \subseteq Jobs

Init == pending = {} /\ running = {} /\ finished = {}

Submit(j) == /\ j \notin pending \cup running \cup finished
             /\ pending' = pending \cup {j}
             /\ UNCHANGED <<running, finished>>

Start(j) == /\ j \in pending
            /\ pending' = pending \ {j}
            /\ running' = running \cup {j}
            /\ UNCHANGED finished

Finish(j) == /\ j \in running
             /\ running' = running \ {j}
             /\ finished' = finished \cup {j}
             /\ UNCHANGED pending

(* Every submitted job is finished and the caller has consumed the reports. *)
NextPass == /\ pending = {} /\ running = {} /\ finished # {}
            /\ finished' = {}
            /\ UNCHANGED <<pending, running>>

Next == \/ \E j \in Jobs : Submit(j) \/ Start(j) \/ Finish(j)
        \/ NextPass

Spec == Init /\ [][Next]_vars

FairSpec == Spec /\ \A j \in Jobs : WF_vars(Start(j)) /\ WF_vars(Finish(j))
=============================================================================
