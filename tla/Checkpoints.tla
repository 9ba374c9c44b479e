----------------------------- MODULE Checkpoints -----------------------------
(***************************************************************************)
(* The main loop of a run and the checkpoints it leaves: iterations with   *)
(* their averaging weights, the reasons to stop early, the two signals     *)
(* that ask for a save, the dump directory named after the iteration, a    *)
(* killed process, and a later run that resumes from such a directory.     *)
(***************************************************************************)
EXTENDS Integers, Sequences, Functions

CONSTANTS NumIters,  \* OtherParams.numIters
          Warmup,    \* OtherParams.warmup, the same in every run
          MaxRuns    \* bound: how often the program is started

ASSUME NumbersAssumption == NumIters \in Nat /\ Warmup \in Nat /\ MaxRuns \in Nat

VARIABLES
  pc,       \* where main is; "off" when no process runs
  runs,     \* processes started so far
  iter,     \* main's iter
  early,    \* its doneEarly
  quitFlag, contFlag,  \* g_signalSaveAndQuit, g_signalSaveAndContinue
  weights,  \* the strategy in memory: the weights of the iterations in it
  saves,    \* the dump directories: iteration in the name -> contents
  asked     \* history: SIGUSR2 has come, in this or an earlier process

mainVars == <<pc, runs, iter, early, quitFlag, contFlag, weights, saves, asked>>

Running == {"loop", "check", "signals", "saveMid", "writeMid", "saveEnd", "writeEnd"}
Stopped == {"off", "ended", "failed"}

(* g_updateWeight of an iteration, without the constant avgScaling. *)
Weight(i) == IF i + 1 > Warmup THEN i + 1 - Warmup ELSE 0

MainInit ==
  /\ pc = "off" /\ runs = 0 /\ iter = 0 /\ early = FALSE
  /\ quitFlag = FALSE /\ contFlag = FALSE
  /\ weights = <<>> /\ saves = <<>> /\ asked = FALSE

Complete == {n \in DOMAIN saves : saves[n].complete}

-----------------------------------------------------------------------------
(* Start of the program *)

Fresh == iter' = 0 /\ weights' = <<>> /\ pc' = "loop"

(* Faulty: the iteration in the name is taken as the last one done. *)
ResumeAfter(n) ==
  /\ iter' = n + 1
  /\ weights' = saves[n].weights
  /\ pc' = IF saves[n].complete THEN "loop" ELSE "off"

(* parseLoadName takes iter from the directory's name, loadValues reads    *)
(* the contents and gives up when a file is missing or short.              *)
Resume(n) ==
  /\ iter' = n
  /\ weights' = saves[n].weights
  /\ pc' = IF saves[n].complete THEN "loop" ELSE "off"

Start ==
  /\ pc \in Stopped /\ runs < MaxRuns
  /\ runs' = runs + 1
  /\ Fresh \/ \E n \in DOMAIN saves : Resume(n)
  /\ early' = FALSE /\ quitFlag' = FALSE /\ contFlag' = FALSE
  /\ UNCHANGED <<saves, asked>>

-----------------------------------------------------------------------------
(* The loop of main *)

(* Faulty: the loop's bound is included. *)
IterateTooFar ==
  /\ pc = "loop"
  /\ IF iter <= NumIters
     THEN weights' = Append(weights, Weight(iter)) /\ pc' = "check"
     ELSE UNCHANGED weights /\ pc' = "saveEnd"
  /\ UNCHANGED <<runs, iter, early, quitFlag, contFlag, saves, asked>>

(* vanillaIteration, if there are iterations left. *)
Iterate ==
  /\ pc = "loop"
  /\ IF iter < NumIters
     THEN weights' = Append(weights, Weight(iter)) /\ pc' = "check"
     ELSE UNCHANGED weights /\ pc' = "saveEnd"
  /\ UNCHANGED <<runs, iter, early, quitFlag, contFlag, saves, asked>>

(* The exploitability of the current or average strategy (computeBR) may   *)
(* be below the target, the time may be up, a signal may have come: break. *)
Check ==
  /\ pc = "check"
  /\ early' \in (IF quitFlag THEN {TRUE} ELSE BOOLEAN)
  /\ pc' = IF early' THEN "saveEnd" ELSE "signals"
  /\ UNCHANGED <<runs, iter, quitFlag, contFlag, weights, saves, asked>>

(* A save-and-continue, or the ++iter of the loop. *)
HandleContinue ==
  /\ pc = "signals"
  /\ contFlag' = FALSE
  /\ IF contFlag THEN pc' = "saveMid" /\ UNCHANGED iter
                 ELSE pc' = "loop" /\ iter' = iter + 1
  /\ UNCHANGED <<runs, early, quitFlag, weights, saves, asked>>

(* Faulty: every dump is named after iter. *)
NameOfThis == iter

(* dumpValues is called with doneEarly ? iter + 1 : iter; dumpTrunk makes  *)
(* the directory, or exits when it exists.                                 *)
SaveName == IF early THEN iter + 1 ELSE iter

(* Faulty: a directory that exists is used again. *)
MakeDirectoryAgain ==
  /\ pc \in {"saveMid", "saveEnd"}
  /\ pc' = IF pc = "saveMid" THEN "writeMid" ELSE "writeEnd"
  /\ saves' = [n \in DOMAIN saves \cup {SaveName} |->
                 IF n = SaveName THEN [weights |-> weights, complete |-> FALSE]
                 ELSE saves[n]]
  /\ UNCHANGED <<runs, iter, early, quitFlag, contFlag, weights, asked>>

MakeDirectory ==
  /\ pc \in {"saveMid", "saveEnd"}
  /\ IF SaveName \in DOMAIN saves
     THEN pc' = "failed" /\ UNCHANGED saves
     ELSE /\ pc' = IF pc = "saveMid" THEN "writeMid" ELSE "writeEnd"
          /\ saves' = [n \in DOMAIN saves \cup {SaveName} |->
                         IF n = SaveName
                         THEN [weights |-> weights, complete |-> FALSE]
                         ELSE saves[n]]
  /\ UNCHANGED <<runs, iter, early, quitFlag, contFlag, weights, asked>>

(* The trunk and all subgames are written. *)
WriteFiles ==
  /\ pc \in {"writeMid", "writeEnd"}
  /\ saves' = [saves EXCEPT ![SaveName].complete = TRUE]
  /\ IF pc = "writeMid" THEN pc' = "loop" /\ iter' = iter + 1
                        ELSE pc' = "ended" /\ UNCHANGED iter
  /\ UNCHANGED <<runs, early, quitFlag, contFlag, weights, asked>>

-----------------------------------------------------------------------------
(* sig_handler, at any time *)

SaveAndQuit ==
  /\ pc \in Running
  /\ quitFlag' = TRUE
  /\ UNCHANGED <<pc, runs, iter, early, contFlag, weights, saves, asked>>

SaveAndContinue ==
  /\ pc \in Running
  /\ contFlag' = TRUE /\ asked' = TRUE
  /\ UNCHANGED <<pc, runs, iter, early, quitFlag, weights, saves>>

(* The process dies. *)
Kill ==
  /\ pc \in Running
  /\ pc' = "off"
  /\ UNCHANGED <<runs, iter, early, quitFlag, contFlag, weights, saves, asked>>

NoMoreRuns == pc \in Stopped /\ runs = MaxRuns /\ UNCHANGED mainVars

MainNext == \/ Start
            \/ Iterate \/ Check \/ HandleContinue \/ MakeDirectory \/ WriteFiles
            \/ SaveAndQuit \/ SaveAndContinue \/ Kill \/ NoMoreRuns

MainSpec == MainInit /\ [][MainNext]_mainVars

-----------------------------------------------------------------------------
(* Properties *)

MainTypeOK ==
  /\ pc \in Running \cup Stopped
  /\ runs \in 0 .. MaxRuns
  /\ iter \in 0 .. NumIters
  /\ early \in BOOLEAN /\ quitFlag \in BOOLEAN /\ contFlag \in BOOLEAN
  /\ asked \in BOOLEAN
  /\ weights \in Seq(0 .. NumIters)
  /\ \A n \in DOMAIN saves : /\ saves[n].weights \in Seq(0 .. NumIters)
                             /\ saves[n].complete \in BOOLEAN

(* A directory iter-N holds the strategy after N completed iterations,     *)
(* those of earlier runs included (the README on `dump=`).                 *)
NameCountsIterations == \A n \in DOMAIN saves : Len(saves[n].weights) = n

(* The strategy in memory is what one uninterrupted run would have:        *)
(* iteration k entered once, with weight max( 0, k - warmup ).             *)
AsUninterrupted == \A k \in DOMAIN weights : weights[k] = Weight(k - 1)

(* However often the computation is killed, stopped by SIGUSR1 and resumed *)
(* from any complete directory, both hold until SIGUSR2 is first used      *)
(* (SaveName, parseLoadName's iteration and g_updateWeight fit together).  *)
ExactUntilAsked == ~asked => NameCountsIterations /\ AsUninterrupted

(* Whatever signals and kills do, a directory never claims iterations that *)
(* are not in it: a resumed computation may repeat one, it skips none.     *)
NameNeverOverstates == \A n \in DOMAIN saves : Len(saves[n].weights) >= n

(* A run that finishes, for whatever reason, finds its strategy saved, by  *)
(* itself or by an earlier run (the README on `dump=`). There are two      *)
(* exceptions, in both it exits because the directory exists. A process    *)
(* killed while it wrote left the directory in the way. Or SIGUSR2 has     *)
(* come in some process: the save it asks for is named one iteration too   *)
(* low, so the strategy at hand or the one in the directory is of more     *)
(* iterations than the name says, and the one at hand is lost.             *)
OfMoreIterations(n) == Len(weights) > n \/ Len(saves[n].weights) > n

SavedUnlessTaken ==
  /\ pc = "ended" => SaveName \in Complete /\ saves[SaveName].weights = weights
  /\ pc = "failed" =>
       \/ SaveName \in DOMAIN saves \ Complete
       \/ SaveName \in Complete /\ saves[SaveName].weights = weights
       \/ asked /\ SaveName \in Complete /\ OfMoreIterations(SaveName)

(* No step takes a complete checkpoint away or changes it: a resumed run   *)
(* never writes over the directory it was started from.                    *)
CheckpointsKept ==
  [][\A n \in Complete : n \in DOMAIN saves' /\ saves'[n] = saves[n]]_mainVars
=============================================================================
