-------------------------- MODULE MainLoopProofs ---------------------------
(***************************************************************************)
(* Proofs about what main does: its loop with the checkpoints, and the     *)
(* traversal of the trunk, where the trunk thread takes part.              *)
(*   Checkpoints: for every number of iterations, runs and warmup          *)
(* iterations, what the names of the checkpoints promise.                  *)
(*   TrunkIteration: for any tree, hands and queue length, main and the    *)
(* trunk thread agree on the subgames that have a job, main gets the       *)
(* results of its own jobs, and no regret changes while the trunk thread   *)
(* reads it.                                                               *)
(***************************************************************************)
EXTENDS Checkpoints, TrunkIteration, SequenceTheorems, WellFoundedInduction, TLAPS

-----------------------------------------------------------------------------
(* Whatever signals come *)

(* How many iterations main has surely done. *)
Done == IF pc \in {"check", "signals", "saveMid", "writeMid"} \/ early
        THEN iter + 1 ELSE iter

SignalsInv == /\ early \in BOOLEAN /\ quitFlag \in BOOLEAN
            /\ contFlag \in BOOLEAN /\ asked \in BOOLEAN

MemoryInv ==
  /\ pc \in Running \cup Stopped /\ runs \in 0 .. MaxRuns
  /\ iter \in 0 .. NumIters /\ weights \in Seq(0 .. NumIters)
  /\ pc \in {"loop", "check", "signals", "saveMid", "writeMid"} => ~early
  /\ Done <= NumIters

Checkpoint == [weights : Seq(0 .. NumIters), complete : BOOLEAN]

SavesInv == DOMAIN saves \subseteq 0 .. NumIters
            /\ \A n \in DOMAIN saves : saves[n] \in Checkpoint

(* The directory that is being written, or was in the way.                 *)
CurrentInv ==
  /\ pc \in {"writeMid", "writeEnd"} => SaveName \in DOMAIN saves \ Complete
  /\ pc = "ended" => SaveName \in Complete
  /\ pc \in {"writeMid", "writeEnd", "ended"} => saves[SaveName].weights = weights
  /\ pc = "failed" => SaveName \in DOMAIN saves

AtLeastInv == /\ Len(weights) >= Done
              /\ \A n \in DOMAIN saves : Len(saves[n].weights) >= n

Core == MemoryInv /\ SavesInv /\ CurrentInv /\ AtLeastInv

MainInv == SignalsInv /\ Core

LEMMA NothingYet == /\ <<>> \in Seq(0 .. NumIters) /\ Len(<<>>) = 0
                    /\ DOMAIN <<>> = {}
OBVIOUS

LEMMA MainInitInv == MainInit => MainInv
<1> SUFFICES ASSUME MainInit PROVE MainInv OBVIOUS
<1> USE NumbersAssumption, NothingYet
<1>0. SignalsInv BY DEF MainInit, SignalsInv
<1>1. MemoryInv BY DEF MainInit, MemoryInv, Done, Running, Stopped
<1>2. SavesInv BY DEF MainInit, SavesInv
<1>3. CurrentInv BY DEF MainInit, CurrentInv
<1>4. AtLeastInv BY DEF MainInit, AtLeastInv, Done
<1> QED BY <1>0, <1>1, <1>2, <1>3, <1>4 DEF MainInv, Core

LEMMA SignalsStep == SignalsInv /\ [MainNext]_mainVars => SignalsInv'
BY DEF MainNext, Start, Iterate, Check, HandleContinue, MakeDirectory, WriteFiles, SaveAndQuit,
       SaveAndContinue, Kill, NoMoreRuns, mainVars, SignalsInv

LEMMA WeightType == \A i \in 0 .. NumIters - 1 : Weight(i) \in 0 .. NumIters
BY NumbersAssumption DEF Weight

LEMMA SaveNameType == MemoryInv => SaveName \in 0 .. NumIters
BY NumbersAssumption DEF MemoryInv, SaveName, Done

LEMMA CheckpointFields ==
  ASSUME SavesInv, NEW n \in DOMAIN saves
  PROVE  /\ n \in 0 .. NumIters /\ saves[n].weights \in Seq(0 .. NumIters)
         /\ saves[n] = [weights |-> saves[n].weights, complete |-> saves[n].complete]
<1>1. n \in 0 .. NumIters /\ saves[n] \in Checkpoint BY DEF SavesInv
<1> QED BY <1>1 DEF Checkpoint

LEMMA StartInv == MainInv /\ Start => Core'
<1> SUFFICES ASSUME MainInv, Start PROVE Core' OBVIOUS
<1> USE NumbersAssumption
<1>1. CASE Fresh
  <2> USE NothingYet
  <2>1. MemoryInv' BY <1>1 DEF Start, Fresh, MainInv, Core, MemoryInv, Done, Running, Stopped
  <2>2. SavesInv' BY DEF Start, MainInv, Core, SavesInv
  <2>3. CurrentInv' BY <1>1 DEF Fresh, CurrentInv
  <2>4. AtLeastInv' BY <1>1 DEF Start, Fresh, MainInv, Core, AtLeastInv, Done
  <2> QED BY <2>1, <2>2, <2>3, <2>4 DEF MainInv, Core
<1>2. ASSUME NEW n \in DOMAIN saves, Resume(n) PROVE Core'
  <2>1. /\ n \in 0 .. NumIters /\ saves[n].weights \in Seq(0 .. NumIters)
        /\ Len(saves[n].weights) >= n
    BY CheckpointFields DEF MainInv, Core, AtLeastInv
  <2>2. iter' = n /\ weights' = saves[n].weights /\ pc' \in {"loop", "off"}
    BY <1>2 DEF Resume
  <2>3. MemoryInv' BY <2>1, <2>2 DEF Start, MainInv, Core, MemoryInv, Done, Running, Stopped
  <2>4. SavesInv' BY DEF Start, MainInv, Core, SavesInv
  <2>5. CurrentInv' BY <2>2 DEF CurrentInv
  <2>6. AtLeastInv' BY <2>1, <2>2 DEF Start, MainInv, Core, AtLeastInv, Done
  <2> QED BY <2>3, <2>4, <2>5, <2>6 DEF MainInv, Core
<1> QED BY <1>1, <1>2 DEF Start

LEMMA IterateInv == MainInv /\ Iterate => Core'
<1> SUFFICES ASSUME MainInv, Iterate PROVE Core' OBVIOUS
<1> USE NumbersAssumption
<1>1. CASE iter < NumIters
  <2>1. Weight(iter) \in 0 .. NumIters BY <1>1, WeightType DEF MainInv, Core, MemoryInv
  <2>2. /\ Append(weights, Weight(iter)) \in Seq(0 .. NumIters)
        /\ Len(Append(weights, Weight(iter))) = Len(weights) + 1
    BY <2>1, AppendProperties DEF MainInv, Core, MemoryInv
  <2>3. weights' \in Seq(0 .. NumIters) /\ Len(weights') = Len(weights) + 1
    BY <1>1, <2>2 DEF Iterate
  <2>4. Len(weights) \in Nat BY LenProperties DEF MainInv, Core, MemoryInv
  <2> QED BY <1>1, <2>3, <2>4 DEF Iterate, MainInv, Core, MemoryInv, SavesInv, CurrentInv, AtLeastInv,
                       Done, Running, Stopped
<1>2. CASE ~(iter < NumIters)
  BY <1>2 DEF Iterate, MainInv, Core, MemoryInv, SavesInv, CurrentInv, AtLeastInv, Done, Running, Stopped
<1> QED BY <1>1, <1>2

LEMMA CheckInv == MainInv /\ Check => Core'
BY NumbersAssumption
DEF Check, MainInv, Core, MemoryInv, SavesInv, CurrentInv, AtLeastInv, Done, Running, Stopped

LEMMA HandleContinueInv == MainInv /\ HandleContinue => Core'
BY NumbersAssumption
DEF HandleContinue, MainInv, Core, MemoryInv, SavesInv, CurrentInv, AtLeastInv, Done, Running, Stopped

(* A dump adds one directory, and touches no other. *)
LEMMA MakeDirectorySaves ==
  ASSUME MakeDirectory, SaveName \notin DOMAIN saves
  PROVE  /\ DOMAIN saves' = DOMAIN saves \cup {SaveName}
         /\ saves'[SaveName] = [weights |-> weights, complete |-> FALSE]
         /\ \A n \in DOMAIN saves : saves'[n] = saves[n]
         /\ pc' = IF pc = "saveMid" THEN "writeMid" ELSE "writeEnd"
         /\ SaveName' = SaveName
BY DEF MakeDirectory, SaveName

LEMMA MakeDirectoryInv == MainInv /\ MakeDirectory => Core'
<1> SUFFICES ASSUME MainInv, MakeDirectory PROVE Core' OBVIOUS
<1> USE NumbersAssumption
<1>1. CASE SaveName \in DOMAIN saves
  BY <1>1 DEF MakeDirectory, MainInv, Core, MemoryInv, SavesInv, CurrentInv, AtLeastInv, Done,
              SaveName, Running, Stopped
<1>2. CASE SaveName \notin DOMAIN saves
  <2>1. MemoryInv' /\ Len(weights') >= Done'
    BY <1>2, MakeDirectorySaves
    DEF MakeDirectory, MainInv, Core, MemoryInv, AtLeastInv, Done, Running, Stopped
  <2>2. SavesInv'
    <3>1. [weights |-> weights, complete |-> FALSE] \in Checkpoint
      BY DEF Checkpoint, MainInv, Core, MemoryInv
    <3> QED BY <3>1, <1>2, MakeDirectorySaves, SaveNameType DEF MainInv, Core, SavesInv
  <2>3. CurrentInv'
    BY <1>2, MakeDirectorySaves DEF CurrentInv, Complete, MakeDirectory
  <2>4. Len(weights) >= SaveName
    BY DEF MainInv, Core, MemoryInv, AtLeastInv, SaveName, Done, MakeDirectory
  <2>5. AtLeastInv'
    BY <1>2, <2>1, <2>4, MakeDirectorySaves DEF MainInv, Core, AtLeastInv
  <2> QED BY <2>1, <2>2, <2>3, <2>5 DEF MainInv, Core
<1> QED BY <1>1, <1>2

LEMMA WriteFilesSaves ==
  ASSUME MainInv, WriteFiles
  PROVE  /\ DOMAIN saves' = DOMAIN saves /\ SaveName \in DOMAIN saves
         /\ saves'[SaveName] = [weights |-> saves[SaveName].weights, complete |-> TRUE]
         /\ \A n \in DOMAIN saves \ {SaveName} : saves'[n] = saves[n]
         /\ \A n \in DOMAIN saves : saves'[n].weights = saves[n].weights
<1>1. SaveName \in DOMAIN saves BY DEF MainInv, Core, CurrentInv, WriteFiles
<1>2. saves' = [saves EXCEPT ![SaveName].complete = TRUE] BY DEF WriteFiles
<1>3. saves[SaveName] = [weights |-> saves[SaveName].weights,
                         complete |-> saves[SaveName].complete]
  BY <1>1, CheckpointFields DEF MainInv, Core
<1> QED BY <1>1, <1>2, <1>3

LEMMA WriteFilesInv == MainInv /\ WriteFiles => Core'
<1> SUFFICES ASSUME MainInv, WriteFiles PROVE Core' OBVIOUS
<1> USE NumbersAssumption
<1>1. MemoryInv' /\ Len(weights') >= Done'
  BY DEF WriteFiles, MainInv, Core, MemoryInv, AtLeastInv, Done, Running, Stopped
<1>2. SavesInv'
  <2>1. saves'[SaveName] \in Checkpoint
    <3>1. saves[SaveName].weights \in Seq(0 .. NumIters)
      BY WriteFilesSaves, CheckpointFields DEF MainInv, Core
    <3>2. saves'[SaveName] = [weights |-> saves[SaveName].weights, complete |-> TRUE]
      BY WriteFilesSaves
    <3> QED BY <3>1, <3>2 DEF Checkpoint
  <2> QED BY <2>1, WriteFilesSaves DEF MainInv, Core, SavesInv
<1>3. CurrentInv'
  <2>1. saves'[SaveName].weights = weights /\ SaveName \in DOMAIN saves'
    BY WriteFilesSaves DEF MainInv, Core, CurrentInv, WriteFiles
  <2>2. CASE pc = "writeMid" BY <2>2 DEF WriteFiles, CurrentInv
  <2>3. CASE pc = "writeEnd"
    <3>1. pc' = "ended" /\ SaveName' = SaveName /\ weights' = weights
      BY <2>3 DEF WriteFiles, SaveName
    <3>2. SaveName \in Complete'
      BY <2>1, WriteFilesSaves DEF Complete
    <3> QED BY <2>1, <3>1, <3>2 DEF CurrentInv
  <2> QED BY <2>2, <2>3 DEF WriteFiles
<1>4. AtLeastInv'
  BY <1>1, WriteFilesSaves DEF MainInv, Core, AtLeastInv
<1> QED BY <1>1, <1>2, <1>3, <1>4 DEF MainInv, Core

LEMMA OutsideInv ==
  MainInv /\ (SaveAndQuit \/ SaveAndContinue \/ Kill \/ UNCHANGED mainVars) => Core'
<1> SUFFICES ASSUME MainInv, SaveAndQuit \/ SaveAndContinue \/ Kill \/ UNCHANGED mainVars
             PROVE  Core'
  OBVIOUS
<1>1. /\ UNCHANGED <<runs, iter, early, weights, saves>>
      /\ pc' = pc \/ pc' = "off"
      /\ asked' = asked \/ asked'
  BY DEF SaveAndQuit, SaveAndContinue, Kill, mainVars
<1> QED BY <1>1, NumbersAssumption
  DEF MainInv, Core, MemoryInv, SavesInv, CurrentInv, AtLeastInv, Done, SaveName, Complete,
      Running, Stopped

LEMMA StepInv == MainInv /\ [MainNext]_mainVars => MainInv'
BY StartInv, IterateInv, CheckInv, HandleContinueInv, MakeDirectoryInv, WriteFilesInv,
   OutsideInv, SignalsStep
DEF MainNext, NoMoreRuns, MainInv

LEMMA MainInvariant == MainSpec => []MainInv
<1>1. MainInit => MainInv BY MainInitInv
<1>2. MainInv /\ [MainNext]_mainVars => MainInv' BY StepInv
<1> QED BY <1>1, <1>2, PTL DEF MainSpec

(* Types of main's loop and of the dump directories (main in cfr.c).       *)
THEOREM MainTypeCorrect == MainSpec => []MainTypeOK
<1>1. MainInv => MainTypeOK BY DEF MainInv, Core, SignalsInv, MemoryInv, SavesInv, Checkpoint, MainTypeOK
<1> QED BY <1>1, MainInvariant, PTL

(* Whatever signals and kills do, a directory never claims iterations that *)
(* are not in it (SaveName, in main's calls of dumpValues).                *)
THEOREM NamesNeverOverstate == MainSpec => []NameNeverOverstates
<1>1. MainInv => NameNeverOverstates BY DEF MainInv, Core, AtLeastInv, NameNeverOverstates
<1> QED BY <1>1, MainInvariant, PTL

(* No step takes a complete checkpoint away or changes it (mkdir and the   *)
(* writes of dumpTrunk and dumpValues).                                    *)
THEOREM KeepsCheckpoints == MainSpec => CheckpointsKept
<1> DEFINE Kept == \A n \in Complete : n \in DOMAIN saves' /\ saves'[n] = saves[n]
<1>1. ASSUME MainInv, MainNext PROVE Kept
  <2>1. CASE MakeDirectory
    BY <2>1, MakeDirectorySaves DEF MakeDirectory, Complete
  <2>2. CASE WriteFiles
    BY <2>2, <1>1, WriteFilesSaves DEF MainInv, Core, CurrentInv, Complete, WriteFiles
  <2>3. CASE UNCHANGED saves
    BY <2>3 DEF Complete
  <2> QED
    BY <1>1, <2>1, <2>2, <2>3
    DEF MainNext, Start, Iterate, Check, HandleContinue, SaveAndQuit, SaveAndContinue, Kill,
        NoMoreRuns, mainVars
<1>2. MainInv /\ [MainNext]_mainVars => [Kept]_mainVars BY <1>1
<1> QED BY <1>2, MainInvariant, PTL DEF MainSpec, CheckpointsKept

-----------------------------------------------------------------------------
(* Until SIGUSR2 is first used *)

(* The weights an uninterrupted run enters. *)
InOrder(w) == \A k \in DOMAIN w : w[k] = Weight(k - 1)

Strict ==
  /\ contFlag = FALSE /\ pc \notin {"saveMid", "writeMid"}
  /\ InOrder(weights)
  /\ pc # "off" => Len(weights) = Done
  /\ \A n \in DOMAIN saves : Len(saves[n].weights) = n /\ InOrder(saves[n].weights)

LEMMA InitStrict == MainInit => Strict
<1>1. InOrder(<<>>) BY NothingYet DEF InOrder
<1> QED BY <1>1, NothingYet DEF MainInit, Strict

LEMMA StartStrict == MainInv /\ Strict /\ Start => Strict'
<1> SUFFICES ASSUME MainInv, Strict, Start PROVE Strict' OBVIOUS
<1>1. InOrder(weights') /\ (pc' # "off" => Len(weights') = Done')
  <2>1. CASE Fresh
    <3>1. InOrder(<<>>) BY NothingYet DEF InOrder
    <3> QED BY <2>1, <3>1, NothingYet DEF Fresh, Start, Done
  <2>2. ASSUME NEW n \in DOMAIN saves, Resume(n)
        PROVE  InOrder(weights') /\ (pc' # "off" => Len(weights') = Done')
    BY <2>2 DEF Resume, Start, Strict, Done
  <2> QED BY <2>1, <2>2 DEF Start
<1>2. contFlag' = FALSE /\ pc' \notin {"saveMid", "writeMid"} /\ saves' = saves
  BY DEF Start, Fresh, Resume
<1> QED BY <1>1, <1>2 DEF Strict

LEMMA IterateInOrder ==
  ASSUME MainInv, InOrder(weights), Len(weights) = iter, iter < NumIters,
         weights' = Append(weights, Weight(iter))
  PROVE  InOrder(weights') /\ Len(weights') = iter + 1
<1>1. Weight(iter) \in 0 .. NumIters /\ weights \in Seq(0 .. NumIters) /\ iter \in Nat
  BY NumbersAssumption, WeightType DEF MainInv, Core, MemoryInv
<1>2. /\ Len(weights') = iter + 1
      /\ \A k \in 1 .. iter : weights'[k] = weights[k]
      /\ weights'[iter + 1] = Weight(iter)
  BY <1>1, AppendProperties
<1>3. DOMAIN weights' = 1 .. iter + 1 /\ DOMAIN weights = 1 .. iter
  BY <1>1, <1>2, AppendProperties, LenProperties
<1>4. ASSUME NEW k \in 1 .. iter + 1 PROVE weights'[k] = Weight(k - 1)
  <2>1. CASE k \in 1 .. iter BY <2>1, <1>2, <1>3 DEF InOrder
  <2>2. CASE k = iter + 1
    <3>1. k - 1 = iter BY <2>2, <1>1
    <3> QED BY <2>2, <3>1, <1>2
  <2> QED BY <2>1, <2>2, <1>1
<1> QED BY <1>2, <1>3, <1>4 DEF InOrder

LEMMA IterateStrict == MainInv /\ Strict /\ Iterate => Strict'
<1> SUFFICES ASSUME MainInv, Strict, Iterate PROVE Strict' OBVIOUS
<1>1. Len(weights) = iter /\ iter \in Nat /\ ~early
  BY NumbersAssumption DEF MainInv, Core, MemoryInv, Strict, Iterate, Done
<1>2. InOrder(weights') /\ Len(weights') = Done'
  <2>1. CASE iter < NumIters
    BY <1>1, <2>1, IterateInOrder DEF Iterate, Strict, Done
  <2>2. CASE ~(iter < NumIters)
    BY <2>2, <1>1 DEF Iterate, Strict, Done, InOrder
  <2> QED BY <2>1, <2>2
<1> QED BY <1>2 DEF Strict, Iterate

LEMMA CheckStrict == MainInv /\ Strict /\ Check => Strict'
<1> SUFFICES ASSUME MainInv, Strict, Check PROVE Strict' OBVIOUS
<1>1. Len(weights) = iter + 1 BY DEF Strict, Check, Done
<1>2. Done' = iter + 1 BY DEF Check, Done
<1> QED BY <1>1, <1>2 DEF Strict, Check, InOrder

LEMMA HandleContinueStrict == MainInv /\ Strict /\ HandleContinue => Strict'
<1> SUFFICES ASSUME MainInv, Strict, HandleContinue PROVE Strict' OBVIOUS
<1>1. Len(weights) = iter + 1 /\ ~early
  BY DEF MainInv, Core, MemoryInv, Strict, HandleContinue, Done
<1>2. pc' = "loop" /\ iter' = iter + 1 /\ early' = early /\ contFlag' = FALSE
  BY DEF Strict, HandleContinue
<1>3. Done' = iter + 1 BY <1>1, <1>2 DEF Done
<1> QED BY <1>1, <1>2, <1>3 DEF Strict, HandleContinue, InOrder

LEMMA MakeDirectoryStrict == MainInv /\ Strict /\ MakeDirectory => Strict'
<1> SUFFICES ASSUME MainInv, Strict, MakeDirectory PROVE Strict' OBVIOUS
<1>1. /\ pc = "saveEnd" /\ pc' \in {"failed", "writeEnd"}
      /\ contFlag' = contFlag /\ weights' = weights /\ Done' = SaveName /\ Done = SaveName
  BY DEF Strict, MakeDirectory, Done, SaveName
<1>2. \A n \in DOMAIN saves' : /\ Len(saves'[n].weights) = n
                               /\ InOrder(saves'[n].weights)
  <2>1. CASE SaveName \in DOMAIN saves BY <2>1 DEF MakeDirectory, Strict
  <2>2. CASE SaveName \notin DOMAIN saves
    <3>1. saves'[SaveName].weights = weights BY <2>2, MakeDirectorySaves
    <3> QED BY <2>2, <3>1, <1>1, MakeDirectorySaves DEF Strict
  <2> QED BY <2>1, <2>2
<1> QED BY <1>1, <1>2 DEF Strict, InOrder

LEMMA WriteFilesStrict == MainInv /\ Strict /\ WriteFiles => Strict'
<1> SUFFICES ASSUME MainInv, Strict, WriteFiles PROVE Strict' OBVIOUS
<1>1. /\ pc = "writeEnd" /\ pc' = "ended"
      /\ contFlag' = contFlag /\ weights' = weights /\ Done' = Done
  BY DEF Strict, WriteFiles, Done
<1>2. \A n \in DOMAIN saves' : /\ Len(saves'[n].weights) = n
                               /\ InOrder(saves'[n].weights)
  BY WriteFilesSaves DEF Strict
<1> QED BY <1>1, <1>2 DEF Strict, InOrder

LEMMA OutsideStrict == MainInv /\ Strict /\ (SaveAndQuit \/ Kill \/ UNCHANGED mainVars) => Strict'
<1> SUFFICES ASSUME Strict, SaveAndQuit \/ Kill \/ UNCHANGED mainVars PROVE Strict' OBVIOUS
<1>1. /\ weights' = weights /\ saves' = saves /\ contFlag' = contFlag
      /\ (pc' = pc /\ Done' = Done) \/ pc' = "off"
  BY DEF SaveAndQuit, Kill, mainVars, Done
<1> QED BY <1>1 DEF Strict, InOrder

LEMMA AskedKeeps ==
  ASSUME [MainNext]_mainVars, ~asked'
  PROVE  ~asked /\ ~SaveAndContinue
<1>1. asked' = asked \/ SaveAndContinue
  BY DEF MainNext, Start, Iterate, Check, HandleContinue, MakeDirectory, WriteFiles,
         SaveAndQuit, Kill, NoMoreRuns, mainVars
<1>2. SaveAndContinue => asked' BY DEF SaveAndContinue
<1> QED BY <1>1, <1>2

LEMMA StrictInvariant == MainSpec => [](~asked => Strict)
<1>1. MainInit => (~asked => Strict) BY InitStrict
<1>2. MainInv /\ (~asked => Strict) /\ [MainNext]_mainVars => (~asked => Strict)'
  <2> SUFFICES ASSUME MainInv, ~asked => Strict, [MainNext]_mainVars, ~asked' PROVE Strict'
    OBVIOUS
  <2>1. Strict /\ ~SaveAndContinue BY AskedKeeps
  <2> QED
    BY <2>1, StartStrict, IterateStrict, CheckStrict, HandleContinueStrict,
       MakeDirectoryStrict, WriteFilesStrict, OutsideStrict
    DEF MainNext, NoMoreRuns
<1> QED BY <1>1, <1>2, MainInvariant, PTL DEF MainSpec

(* Until SIGUSR2 is used, a directory iter-N holds exactly N iterations    *)
(* and the strategy in memory is that of one uninterrupted run, whatever   *)
(* runs were stopped, killed and resumed (main's calls of dumpValues,      *)
(* parseLoadName's iteration and g_updateWeight).                          *)
THEOREM ExactNames == MainSpec => []ExactUntilAsked
<1>1. (~asked => Strict) => ExactUntilAsked
  BY DEF Strict, InOrder, ExactUntilAsked, NameCountsIterations, AsUninterrupted
<1> QED BY <1>1, StrictInvariant, PTL

-----------------------------------------------------------------------------
(* Of as many iterations as it should have *)

(* Signals or not: a strategy of exactly as many iterations as main has    *)
(* done, or as the name of its directory says, is the uninterrupted run's. *)
Exact ==
  /\ pc # "off" /\ Len(weights) = Done => InOrder(weights)
  /\ \A n \in DOMAIN saves : Len(saves[n].weights) = n => InOrder(saves[n].weights)

LEMMA InitExact == MainInit => Exact
BY NothingYet DEF MainInit, Exact

LEMMA StartExact == MainInv /\ Exact /\ Start => Exact'
<1> SUFFICES ASSUME MainInv, Exact, Start PROVE Exact' OBVIOUS
<1>1. pc' # "off" /\ Len(weights') = Done' => InOrder(weights')
  <2>1. CASE Fresh
    <3>1. InOrder(<<>>) BY NothingYet DEF InOrder
    <3> QED BY <2>1, <3>1 DEF Fresh
  <2>2. ASSUME NEW n \in DOMAIN saves, Resume(n), Len(weights') = Done' PROVE InOrder(weights')
    <3>1. weights' = saves[n].weights /\ Done' = n
      BY <2>2 DEF Resume, Start, Done
    <3> QED BY <2>2, <3>1 DEF Exact
  <2> QED BY <2>1, <2>2 DEF Start
<1>2. saves' = saves BY DEF Start
<1> QED BY <1>1, <1>2 DEF Exact

LEMMA IterateExact == MainInv /\ Exact /\ Iterate => Exact'
<1> SUFFICES ASSUME MainInv, Exact, Iterate PROVE Exact' OBVIOUS
<1>1. Done = iter /\ iter \in Nat /\ ~early /\ pc # "off" /\ saves' = saves
  BY NumbersAssumption DEF MainInv, Core, MemoryInv, Iterate, Done
<1>2. CASE iter < NumIters
  <2>1. weights' = Append(weights, Weight(iter)) /\ Done' = iter + 1 BY <1>2 DEF Iterate, Done
  <2>2. Len(weights) \in Nat /\ Len(weights') = Len(weights) + 1
    <3>1. Weight(iter) \in 0 .. NumIters /\ weights \in Seq(0 .. NumIters)
      BY <1>1, <1>2, NumbersAssumption, WeightType DEF MainInv, Core, MemoryInv
    <3> QED BY <2>1, <3>1, AppendProperties, LenProperties
  <2>3. Len(weights') = Done' => InOrder(weights')
    BY <1>1, <1>2, <2>1, <2>2, IterateInOrder DEF Exact
  <2> QED BY <1>1, <2>3 DEF Exact
<1>3. CASE ~(iter < NumIters)
  BY <1>1, <1>3 DEF Iterate, Exact, Done, InOrder
<1> QED BY <1>2, <1>3

LEMMA CheckExact == MainInv /\ Exact /\ (Check \/ HandleContinue) => Exact'
<1> SUFFICES ASSUME MainInv, Exact, Check \/ HandleContinue PROVE Exact' OBVIOUS
<1>1. pc # "off" /\ Done' = Done
  <2>1. pc \in {"check", "signals"} /\ ~early
    BY DEF MainInv, Core, MemoryInv, Check, HandleContinue
  <2>2. CASE Check BY <2>1, <2>2 DEF Check, Done
  <2>3. CASE HandleContinue BY <2>1, <2>3 DEF HandleContinue, Done
  <2> QED BY <2>1, <2>2, <2>3
<1>2. weights' = weights /\ saves' = saves BY DEF Check, HandleContinue
<1> QED BY <1>1, <1>2 DEF Exact, InOrder

(* The save that SIGUSR2 asks for has an iteration more than its name.     *)
LEMMA MakeDirectoryExact == MainInv /\ Exact /\ MakeDirectory => Exact'
<1> SUFFICES ASSUME MainInv, Exact, MakeDirectory PROVE Exact' OBVIOUS
<1>1. pc # "off" /\ weights' = weights BY DEF MakeDirectory
<1>2. Done' = Done \/ (pc = "saveMid" /\ pc' = "failed")
  BY DEF MakeDirectory, Done
<1>3. Len(weights) \in Nat /\ iter \in Nat /\ Len(weights) >= Done
  BY NumbersAssumption, LenProperties DEF MainInv, Core, MemoryInv, AtLeastInv
<1>4. pc = "saveMid" => Len(weights) > SaveName
  BY <1>3 DEF MainInv, Core, MemoryInv, Done, SaveName
<1>5. pc = "saveEnd" => SaveName = Done BY DEF SaveName, Done
<1>6. pc' # "off" /\ Len(weights') = Done' => InOrder(weights')
  <2>1. CASE pc = "saveMid" /\ pc' = "failed"
    <3>1. Done' = iter /\ SaveName = iter
      BY <2>1 DEF MainInv, Core, MemoryInv, MakeDirectory, Done, SaveName
    <3> QED BY <1>1, <1>3, <1>4, <2>1, <3>1
  <2> QED BY <1>1, <1>2, <2>1 DEF Exact, InOrder
<1>7. \A n \in DOMAIN saves' : Len(saves'[n].weights) = n => InOrder(saves'[n].weights)
  <2>1. CASE SaveName \in DOMAIN saves BY <2>1 DEF MakeDirectory, Exact
  <2>2. CASE SaveName \notin DOMAIN saves
    <3>1. saves'[SaveName].weights = weights BY <2>2, MakeDirectorySaves
    <3>2. Len(weights) = SaveName => InOrder(weights)
      <4>1. CASE pc = "saveMid"
        <5>1. SaveName \in Int BY <1>3 DEF SaveName
        <5> QED BY <1>3, <1>4, <4>1, <5>1
      <4>2. CASE pc = "saveEnd" BY <1>1, <1>5, <4>2 DEF Exact
      <4> QED BY <4>1, <4>2 DEF MakeDirectory
    <3> QED BY <2>2, <3>1, <3>2, MakeDirectorySaves DEF Exact
  <2> QED BY <2>1, <2>2
<1> QED BY <1>6, <1>7 DEF Exact

LEMMA WriteFilesExact == MainInv /\ Exact /\ WriteFiles => Exact'
<1> SUFFICES ASSUME MainInv, Exact, WriteFiles PROVE Exact' OBVIOUS
<1>1. pc # "off" /\ weights' = weights /\ Done' = Done
  BY NumbersAssumption DEF MainInv, Core, MemoryInv, WriteFiles, Done
<1>2. \A n \in DOMAIN saves' : Len(saves'[n].weights) = n => InOrder(saves'[n].weights)
  BY WriteFilesSaves DEF Exact
<1> QED BY <1>1, <1>2 DEF Exact, InOrder

LEMMA OutsideExact ==
  Exact /\ (SaveAndQuit \/ SaveAndContinue \/ Kill \/ UNCHANGED mainVars) => Exact'
<1> SUFFICES ASSUME Exact, SaveAndQuit \/ SaveAndContinue \/ Kill \/ UNCHANGED mainVars
             PROVE  Exact'
  OBVIOUS
<1>1. /\ weights' = weights /\ saves' = saves
      /\ (pc' = pc /\ Done' = Done) \/ pc' = "off"
  BY DEF SaveAndQuit, SaveAndContinue, Kill, mainVars, Done
<1> QED BY <1>1 DEF Exact, InOrder

LEMMA ExactInvariant == MainSpec => []Exact
<1>1. MainInv /\ Exact /\ [MainNext]_mainVars => Exact'
  BY StartExact, IterateExact, CheckExact, MakeDirectoryExact, WriteFilesExact, OutsideExact
  DEF MainNext, NoMoreRuns
<1> QED BY <1>1, InitExact, MainInvariant, PTL DEF MainSpec

(* A run that ends has its strategy on disk (the end of main and           *)
(* dumpTrunk's refusal of an existing directory). A run that exits because *)
(* the directory exists has it there too, unless a killed process left the *)
(* directory, or SIGUSR2 has come and the strategy at hand or the one in   *)
(* the directory has more iterations than the name says.                   *)
THEOREM EndsSaved == MainSpec => []SavedUnlessTaken
<1>1. ASSUME MainInv, SaveName \in DOMAIN saves
      PROVE  /\ saves[SaveName].weights \in Seq(0 .. NumIters) /\ weights \in Seq(0 .. NumIters)
             /\ Len(saves[SaveName].weights) \in Nat /\ Len(weights) \in Nat /\ SaveName \in Nat
             /\ Len(saves[SaveName].weights) >= SaveName
             /\ pc = "failed" => Len(weights) >= SaveName
  <2>1. SaveName \in Nat /\ (Done = SaveName \/ Done = SaveName + 1 \/ pc # "failed")
    BY <1>1, NumbersAssumption DEF MainInv, Core, MemoryInv, Done, SaveName
  <2>2. saves[SaveName].weights \in Seq(0 .. NumIters) /\ weights \in Seq(0 .. NumIters)
    BY <1>1, CheckpointFields DEF MainInv, Core, MemoryInv
  <2>3. Len(weights) >= Done /\ Len(saves[SaveName].weights) >= SaveName
    BY <1>1 DEF MainInv, Core, AtLeastInv
  <2> QED BY <2>1, <2>2, <2>3, LenProperties
<1>2. ASSUME MainInv, Exact, SaveName \in DOMAIN saves, pc = "failed",
             Len(saves[SaveName].weights) = SaveName, Len(weights) = SaveName
      PROVE  saves[SaveName].weights = weights
  <2> DEFINE saved == saves[SaveName].weights
  <2>1. Done = SaveName BY <1>2 DEF Done, SaveName
  <2>2. InOrder(saved) /\ InOrder(weights) BY <1>2, <2>1 DEF Exact
  <2>3. saved \in Seq(0 .. NumIters) /\ weights \in Seq(0 .. NumIters) BY <1>1, <1>2
  <2>4. \A k \in 1 .. Len(saved) : saved[k] = weights[k]
    BY <1>2, <2>2, <2>3, LenProperties DEF InOrder
  <2> QED BY <1>2, <2>3, <2>4, SeqEqual
<1>3. ASSUME MainInv, Exact, ~asked => Strict, pc = "failed", SaveName \in Complete,
             saves[SaveName].weights # weights
      PROVE  asked /\ OfMoreIterations(SaveName)
  <2>1. SaveName \in DOMAIN saves BY <1>3 DEF Complete
  <2>2. ~(Len(saves[SaveName].weights) = SaveName /\ Len(weights) = SaveName)
    BY <1>2, <1>3, <2>1
  <2>3. OfMoreIterations(SaveName) BY <1>1, <1>3, <2>1, <2>2 DEF OfMoreIterations
  <2>4. Strict => Len(saves[SaveName].weights) = SaveName /\ Len(weights) = SaveName
    BY <1>3, <2>1 DEF Strict, Done, SaveName
  <2> QED BY <1>3, <2>2, <2>3, <2>4
<1>4. MainInv /\ Exact /\ (~asked => Strict) => SavedUnlessTaken
  <2> SUFFICES ASSUME MainInv, Exact, ~asked => Strict PROVE SavedUnlessTaken OBVIOUS
  <2>1. pc = "ended" => SaveName \in Complete /\ saves[SaveName].weights = weights
    BY DEF MainInv, Core, CurrentInv
  <2>2. pc = "failed" => SaveName \in DOMAIN saves BY DEF MainInv, Core, CurrentInv
  <2> QED BY <1>3, <2>1, <2>2 DEF SavedUnlessTaken
<1> QED BY <1>4, MainInvariant, StrictInvariant, ExactInvariant, PTL

-----------------------------------------------------------------------------
(* The traversal of the trunk                                              *)


LEMMA Smallest ==
  ASSUME NEW S \in SUBSET Nat, S # {}
  PROVE  \E m \in S : \A n \in S : m <= n
<1>1. PICK m \in S : \A n \in S : <<n, m>> \notin OpToRel(<, Nat)
  BY WFMin, NatLessThanWellFounded
<1>2. \A n \in S : ~(n < m) BY <1>1 DEF OpToRel
<1> QED BY <1>2

-----------------------------------------------------------------------------
(* Walks over the tree                                                     *)

Walking == CFR \cup {"br"}

PolicyOK(pol) == \A n \in Choices : pol[n] \in [Dealt[n] -> (SUBSET Tree[n].kids) \ {{}}]
Reaches == [Nodes -> SUBSET Hands]

(* The hands that go on from n to its child m in a pass of p.              *)
Goes(pol, R, n, m, p) ==
  {h \in R[n] \cap Dealt[m] :
     n \in Choices /\ p \in CFR /\ Tree[n].player # p => m \in pol[n][h]}

(* R is what a walk in a pass of p finds on its way to node b.             *)
Walk(pol, R, p, b) ==
  /\ R \in Reaches /\ R[1] = Hands
  /\ \A n \in Nodes : n < b => \A m \in Tree[n].kids : R[m] = Goes(pol, R, n, m, p)

Cut(p, R, s) == p \in CFR /\ R[s] = {}

LEMMA NodeFacts ==
  /\ Len(Tree) \in Nat /\ 1 \in Nodes /\ End \in Nat
  /\ \A n \in Nodes : n \in Nat /\ n >= 1 /\ n < End /\ n + 1 \in 1 .. End
  /\ Subgames \subseteq Nodes /\ Choices \subseteq Nodes
<1>1. Len(Tree) \in Nat BY TreeAssumption
<1>2. 1 \in Nodes BY TreeAssumption DEF Choices, Subgames
<1> QED BY <1>1, <1>2 DEF Nodes, End, Choices, Subgames

LEMMA KidFacts ==
  ASSUME NEW n \in Nodes
  PROVE  /\ Tree[n].last \in Nodes /\ n <= Tree[n].last
         /\ \A m \in Tree[n].kids :
              m \in Nodes /\ n < m /\ m <= Tree[n].last /\ Tree[m].last <= Tree[n].last
<1>1. /\ Tree[n].last \in n .. Len(Tree) /\ Tree[n].kids \subseteq n + 1 .. Tree[n].last
      /\ \A m \in n + 1 .. Tree[n].last : Tree[m].last <= Tree[n].last
      /\ Len(Tree) \in Nat
  BY TreeAssumption
<1>2. n \in Nat /\ n >= 1 BY NodeFacts
<1>3. Tree[n].last \in Nat /\ n <= Tree[n].last /\ Tree[n].last <= Len(Tree) BY <1>1, <1>2
<1>4. ASSUME NEW m \in Tree[n].kids
      PROVE  m \in Nat /\ n < m /\ m <= Tree[n].last /\ Tree[m].last <= Tree[n].last
  BY <1>1, <1>2, <1>3
<1> QED BY <1>1, <1>2, <1>3, <1>4 DEF Nodes

LEMMA ParentFacts ==
  ASSUME NEW n \in Nodes, n # 1
  PROVE  \E m \in Nodes : n \in Tree[m].kids /\ m < n
<1>1. PICK m \in Nodes : n \in Tree[m].kids BY TreeAssumption
<1>2. m < n BY <1>1, KidFacts
<1> QED BY <1>1, <1>2

(* Visiting node n, a walk goes on.                                        *)
LEMMA WalkOn ==
  ASSUME NEW R, NEW p, NEW n \in Nodes, Walk(policy, R, p, n)
  PROVE  Walk(policy, Onward(R, n, p), p, n + 1)
<1> DEFINE Q == Onward(R, n, p)
<1>1. \A m \in Nodes : Q[m] = IF m \notin Tree[n].kids THEN R[m] ELSE Goes(policy, R, n, m, p)
  BY DEF Onward, Plays, Goes
<1>2. Q \in Reaches
  <2>1. R \in Reaches BY DEF Walk
  <2>2. \A m \in Nodes : Q[m] \subseteq Hands BY <1>1, <2>1 DEF Goes, Reaches
  <2>3. Q = [m \in Nodes |-> Q[m]] BY DEF Onward
  <2> HIDE DEF Q
  <2> QED BY <2>2, <2>3 DEF Reaches
<1> HIDE DEF Q
<1>3. \A k \in Nodes : k <= n => Q[k] = R[k]
  <2> SUFFICES ASSUME NEW k \in Nodes, k <= n PROVE k \notin Tree[n].kids BY <1>1
  <2>1. k \in Nat /\ n \in Nat BY NodeFacts
  <2>2. k \in Tree[n].kids => n < k BY KidFacts
  <2> QED BY <2>1, <2>2
<1>4. Q[1] = Hands
  <2>1. 1 \in Nodes /\ 1 <= n BY NodeFacts
  <2> QED BY <1>3, <2>1 DEF Walk
<1>5. ASSUME NEW k \in Nodes, k < n + 1, NEW m \in Tree[k].kids
      PROVE  Q[m] = Goes(policy, Q, k, m, p)
  <2>1. k \in Nat /\ n \in Nat BY NodeFacts
  <2>2. m \in Nodes BY KidFacts
  <2>3. Q[k] = R[k] BY <1>3, <1>5, <2>1
  <2>4. CASE k = n BY <1>1, <2>2, <2>3, <2>4 DEF Goes
  <2>5. CASE k # n
    <3>1. k < n BY <1>5, <2>1, <2>5
    <3>2. m \notin Tree[n].kids BY <2>5, TreeAssumption
    <3>3. R[m] = Goes(policy, R, k, m, p) BY <3>1 DEF Walk
    <3> QED BY <1>1, <2>2, <2>3, <3>2, <3>3 DEF Goes
  <2> QED BY <2>4, <2>5
<1> QED BY <1>2, <1>4, <1>5 DEF Walk, Q

(* The opponent's regrets decide where a walk leads.                       *)
LEMMA WalkKept ==
  ASSUME NEW pol, NEW new, NEW R, NEW p, NEW b, Walk(pol, R, p, b),
         \A n \in Choices : p \in CFR /\ Tree[n].player # p => new[n] = pol[n]
  PROVE  Walk(new, R, p, b)
<1> SUFFICES ASSUME NEW n \in Nodes, n < b, NEW m \in Tree[n].kids
             PROVE  Goes(new, R, n, m, p) = Goes(pol, R, n, m, p)
  BY DEF Walk
<1> QED BY DEF Goes

(* Two walks in a pass of the same player find the same, as far as both    *)
(* have come.                                                              *)
LEMMA WalksAgree ==
  ASSUME NEW pol, NEW R, NEW Q, NEW p, NEW a \in Nat, NEW b \in Nat,
         Walk(pol, R, p, a), Walk(pol, Q, p, b),
         NEW n \in Nodes, n <= a, n <= b
  PROVE  R[n] = Q[n]
<1> DEFINE Bad == {k \in Nodes : k <= a /\ k <= b /\ R[k] # Q[k]}
<1> SUFFICES ASSUME Bad # {} PROVE FALSE OBVIOUS
<1>1. Bad \in SUBSET Nat BY NodeFacts
<1>2. PICK k \in Bad : \A j \in Bad : k <= j BY <1>1, Smallest
<1>3. k # 1 BY <1>2 DEF Walk
<1>4. PICK m \in Nodes : k \in Tree[m].kids /\ m < k BY <1>2, <1>3, ParentFacts
<1>5. k \in Nat /\ m \in Nat /\ m < a /\ m < b /\ m <= a /\ m <= b
  <2>1. k \in Nat /\ m \in Nat /\ m < k BY <1>1, <1>2, <1>4, NodeFacts
  <2>2. k <= a /\ k <= b BY <1>2
  <2> QED BY <2>1, <2>2
<1>6. m \notin Bad BY <1>2, <1>4, <1>5
<1>7. R[m] = Q[m] BY <1>5, <1>6
<1>8. R[k] = Goes(pol, R, m, k, p) /\ Q[k] = Goes(pol, Q, m, k, p) BY <1>4, <1>5 DEF Walk
<1>9. R[k] = Q[k] BY <1>7, <1>8 DEF Goes
<1> QED BY <1>2, <1>9

LEMMA WalkDealt ==
  ASSUME NEW pol, NEW R, NEW p, NEW b \in Nat, Walk(pol, R, p, b), NEW n \in Nodes, n <= b
  PROVE  R[n] \subseteq Dealt[n]
<1>1. CASE n = 1 BY <1>1, HandsAssumption DEF Walk
<1>2. CASE n # 1
  <2>1. PICK m \in Nodes : n \in Tree[m].kids /\ m < n BY <1>2, ParentFacts
  <2>2. m < b BY <2>1, NodeFacts
  <2>3. R[n] = Goes(pol, R, m, n, p) BY <2>1, <2>2 DEF Walk
  <2> QED BY <2>3 DEF Goes
<1> QED BY <1>1, <1>2

(* Pass p plays on where q does. *)
PlaysFor(p, q) == p = q \/ p = "br"

(* Where its player has a hand to act with, some subgame is reached.       *)
LEMMA SubgameReached ==
  ASSUME NEW pol, PolicyOK(pol), NEW R, NEW p, NEW q, PlaysFor(p, q),
         NEW b \in Nat, Walk(pol, R, p, b), NEW S \in SUBSET Nodes, PlaysOn(q, S),
         NEW n \in S, Tree[n].last < b, R[n] # {}
  PROVE  \E s \in Subgames : n <= s /\ s <= Tree[n].last /\ R[s] # {}
<1> DEFINE Fine(k) == \E s \in Subgames : k <= s /\ s <= Tree[k].last /\ R[s] # {}
           Bad == {k \in S : Tree[k].last < b /\ R[k] # {} /\ ~Fine(k)}
           Up == {End - k : k \in Bad}
<1> SUFFICES ASSUME Bad # {} PROVE FALSE OBVIOUS
<1>1. \A k \in S : k \in Nodes
  <2> HIDE DEF Bad, Up
  <2> QED OBVIOUS
<1>2. Up \in SUBSET Nat /\ Up # {}
  <2>1. \A k \in S : End - k \in Nat
    <3> HIDE DEF Bad, Up
    <3> SUFFICES ASSUME NEW k \in S PROVE End - k \in Nat OBVIOUS
    <3>1. k \in Nat /\ End \in Nat /\ k < End BY <1>1, NodeFacts
    <3> QED BY <3>1
  <2> QED BY <2>1
<1>3. PICK u \in Up : \A v \in Up : u <= v BY <1>2, Smallest
<1>4. PICK k \in Bad : u = End - k BY <1>3
<1>5. \A j \in Bad : j <= k
  <2> SUFFICES ASSUME NEW j \in Bad PROVE j <= k OBVIOUS
  <2>1. End - k <= End - j BY <1>3, <1>4
  <2>2. j \in Nat /\ k \in Nat /\ End \in Nat
    <3>1. j \in Nodes /\ k \in Nodes BY <1>1
    <3> QED BY <3>1, NodeFacts
  <2> HIDE DEF Bad, Up
  <2> QED BY <2>1, <2>2
<1>6. k \in Nodes /\ k \in S /\ Tree[k].last < b /\ R[k] # {} /\ ~Fine(k) BY <1>1, <1>4
<1> HIDE DEF Bad, Up
<1>7. ASSUME NEW m \in Tree[k].kids, m \in S, R[m] # {} PROVE FALSE
  <2>1. m \in Nodes /\ k < m /\ Tree[m].last <= Tree[k].last /\ Tree[k].last \in Nodes
        /\ Tree[m].last \in Nodes
    BY <1>6, KidFacts
  <2>2. m \in Nat /\ k \in Nat /\ Tree[m].last \in Nat /\ Tree[k].last \in Nat BY <1>6, <2>1, NodeFacts
  <2>3. Tree[m].last < b /\ ~(m <= k) BY <1>6, <2>1, <2>2
  <2>4. Fine(m) BY <1>5, <1>7, <2>3 DEF Bad
  <2>5. PICK s \in Subgames : m <= s /\ s <= Tree[m].last /\ R[s] # {} BY <2>4
  <2>6. s \in Nat BY NodeFacts
  <2>7. k <= s /\ s <= Tree[k].last BY <2>1, <2>2, <2>5, <2>6
  <2> QED BY <1>6, <2>5, <2>7
<1>8. \A m \in Tree[k].kids : R[m] = Goes(pol, R, k, m, p)
  <2>1. k <= Tree[k].last /\ Tree[k].last \in Nat /\ k \in Nat BY <1>6, KidFacts, NodeFacts
  <2>2. k < b BY <1>6, <2>1
  <2> QED BY <1>6, <2>2 DEF Walk
<1>9. R[k] \subseteq Dealt[k]
  <2>1. k <= Tree[k].last /\ Tree[k].last \in Nat /\ k \in Nat BY <1>6, KidFacts, NodeFacts
  <2>2. k <= b BY <1>6, <2>1
  <2> QED BY <1>6, <2>2, WalkDealt
<1>10. k \notin Subgames
  <2>1. k <= Tree[k].last /\ k <= k BY <1>6, KidFacts, NodeFacts
  <2> QED BY <1>6, <2>1
<1>11. Tree[k].kind \in {"choice", "chance"} /\ Tree[k].kids # {}
  <2>1. Tree[k].kind \in {"choice", "chance", "leaf", "subgame"} /\ Tree[k].kind # "leaf"
    BY <1>6, TreeAssumption DEF PlaysOn
  <2>2. Tree[k].kind \in {"choice", "chance"} BY <1>6, <1>10, <2>1 DEF Subgames
  <2> QED BY <1>6, <2>2, TreeAssumption
<1>12. PICK h : h \in R[k] BY <1>6
<1>13. CASE Tree[k].kind = "chance"
  <2>1. Tree[k].kids \subseteq S /\ k \notin Choices BY <1>6, <1>13 DEF PlaysOn, Choices
  <2>2. PICK m \in Tree[k].kids : h \in Dealt[m] BY <1>6, <1>9, <1>12, <1>13, HandsAssumption
  <2>3. h \in R[m] BY <1>8, <1>12, <2>1, <2>2 DEF Goes
  <2> QED BY <1>7, <2>1, <2>3
<1>14. CASE Tree[k].kind = "choice"
  <2>1. k \in Choices /\ \A m \in Tree[k].kids : Dealt[m] = Dealt[k]
    BY <1>6, <1>14, HandsAssumption DEF Choices
  <2>2. CASE Tree[k].player = q
    <3>1. PICK m \in Tree[k].kids : m \in S BY <1>6, <2>1, <2>2 DEF PlaysOn
    <3>2. ~(p \in CFR /\ Tree[k].player # p)
      <4>1. "br" \notin CFR BY DEF CFR
      <4> QED BY <2>2, <4>1 DEF PlaysFor
    <3>3. h \in R[m] BY <1>8, <1>9, <1>12, <2>1, <3>1, <3>2 DEF Goes
    <3> QED BY <1>7, <3>1, <3>3
  <2>3. CASE Tree[k].player # q
    <3>1. Tree[k].kids \subseteq S BY <1>6, <2>3 DEF PlaysOn
    <3>2. h \in Dealt[k] BY <1>9, <1>12
    <3>3. pol[k][h] \in (SUBSET Tree[k].kids) \ {{}} BY <2>1, <3>2 DEF PolicyOK
    <3>4. PICK m \in Tree[k].kids : m \in pol[k][h] BY <3>3
    <3>5. h \in R[m] BY <1>8, <1>12, <2>1, <3>2, <3>4 DEF Goes
    <3> QED BY <1>7, <3>1, <3>5
  <2> QED BY <2>2, <2>3
<1> QED BY <1>11, <1>13, <1>14

-----------------------------------------------------------------------------
(* The inductive invariant                                                 *)

Types ==
  /\ DOMAIN policy = Choices /\ policy = [n \in Choices |-> policy[n]] /\ PolicyOK(policy)
  /\ iterSem \in 0 .. 2 /\ runBR \in BOOLEAN /\ quit \in BOOLEAN
  /\ mainPass \in Walking \cup {"idle", "quit"}
  /\ trunkPass \in Walking \cup {"wait", "gone"}
  /\ mainAt \in 1 .. End /\ trunkAt \in 1 .. End
  /\ mainReach \in Reaches /\ trunkReach \in Reaches
  /\ updated \subseteq Choices
  /\ pending \subseteq Subgames /\ running \subseteq Subgames
  /\ spec = [s \in Subgames |-> spec[s]]
  /\ finished \in [Subgames -> 0 .. 1]

(* What main tells the trunk thread about the pass it starts.              *)
FlagsInv ==
  /\ quit <=> mainPass = "quit"
  /\ mainPass \in CFR \cup {"idle"} => ~runBR
  /\ mainPass = "br" => runBR
  /\ mainPass \notin Walking => mainAt = End
  /\ trunkPass \notin Walking => trunkAt = End

WalksInv ==
  /\ mainPass \in Walking => Walk(policy, mainReach, mainPass, mainAt)
  /\ trunkPass \in Walking => Walk(policy, trunkReach, trunkPass, trunkAt)

(* Main gets no further than the first job that the trunk thread has not   *)
(* submitted in this pass.                                                 *)
WaitedInv ==
  mainPass \in Walking =>
    \A s \in Subgames : s < mainAt /\ ~Cut(mainPass, mainReach, s) => iterSem = 0 /\ s < trunkAt

(* A pass of p without a job from node b on.                               *)
NoJobs(p, b) == \E R : Walk(policy, R, p, End) /\ \A s \in Subgames : s >= b => Cut(p, R, s)

After(pass) == Follows(IF pass = "wait" THEN "idle" ELSE pass)

SamePass == \/ mainPass \in Walking /\ trunkPass = mainPass
            \/ mainPass = "idle" /\ trunkPass = "wait"
            \/ mainPass = "quit" /\ trunkPass = "gone"

TrunkDone == trunkAt = End \/ (trunkPass \in Walking /\ NoJobs(trunkPass, trunkAt))

(* The trunk thread is in main's pass, or in the tail of the one before,   *)
(* or main has already been through a pass in between that had no job.     *)
LagInv ==
  /\ iterSem = 0 => SamePass
  /\ iterSem = 1 => TrunkDone /\ mainPass \in After(trunkPass)
  /\ iterSem = 2 => TrunkDone /\ \E p \in CFR : /\ p \in After(trunkPass) /\ mainPass \in Follows(p)
                                               /\ NoJobs(p, 1)

(* A job that main has not yet waited for is one of this pass, and about   *)
(* the hands with which the trunk thread submitted it.                     *)
Open(s) == s \in pending \cup running \/ finished[s] > 0

JobsInv ==
  /\ pending \cap running = {}
  /\ \A s \in Subgames : finished[s] > 0 => s \notin pending \cup running
  /\ \A s \in Subgames : Open(s) =>
       /\ iterSem = 0 /\ mainPass \in Walking /\ mainAt <= s /\ s < trunkAt
       /\ ~Cut(trunkPass, trunkReach, s)
       /\ spec[s] = IF finished[s] > 0 THEN Result(trunkPass, trunkReach[s])
                                       ELSE Input(trunkPass, trunkReach[s])

Inv == Types /\ FlagsInv /\ WalksInv /\ WaitedInv /\ LagInv /\ JobsInv

LEMMA InitInv == Init => Inv
<1> SUFFICES ASSUME Init PROVE Inv OBVIOUS
<1>1. End \in 1 .. End BY NodeFacts
<1>2. PolicyOK(policy)
  <2> SUFFICES ASSUME NEW n \in Choices PROVE policy[n] \in [Dealt[n] -> (SUBSET Tree[n].kids) \ {{}}]
    BY DEF PolicyOK
  <2>1. Tree[n].kids # {} BY TreeAssumption DEF Choices
  <2> QED BY <2>1 DEF Init
<1>3. Nowhere \in Reaches BY DEF Nowhere, Reaches
<1>4. Types
  <2>1. DOMAIN policy = Choices /\ policy = [n \in Choices |-> policy[n]] BY DEF Init
  <2>2. iterSem \in 0 .. 2 /\ finished \in [Subgames -> 0 .. 1] /\ spec = [s \in Subgames |-> spec[s]]
    BY DEF Init
  <2>3. mainReach \in Reaches /\ trunkReach \in Reaches /\ mainAt \in 1 .. End /\ trunkAt \in 1 .. End
    BY <1>1, <1>3 DEF Init
  <2>4. /\ updated \subseteq Choices /\ pending \subseteq Subgames /\ running \subseteq Subgames
        /\ runBR \in BOOLEAN /\ quit \in BOOLEAN
        /\ mainPass \in Walking \cup {"idle", "quit"} /\ trunkPass \in Walking \cup {"wait", "gone"}
    BY DEF Init
  <2> QED BY <1>2, <2>1, <2>2, <2>3, <2>4 DEF Types
<1>5. FlagsInv BY DEF Init, FlagsInv, Walking, CFR
<1>6. WalksInv BY DEF Init, WalksInv, Walking, CFR
<1>7. WaitedInv BY DEF Init, WaitedInv, Walking, CFR
<1>8. LagInv
  <2>1. iterSem = 0 /\ mainPass = "idle" /\ trunkPass = "wait" BY DEF Init
  <2>2. SamePass BY <2>1 DEF SamePass
  <2>3. iterSem # 1 /\ iterSem # 2 BY <2>1
  <2> QED BY <2>2, <2>3 DEF LagInv
<1>9. JobsInv BY DEF Init, JobsInv, Open
<1> QED BY <1>4, <1>5, <1>6, <1>7, <1>8, <1>9 DEF Inv

-----------------------------------------------------------------------------
(* What the invariant says of a state                                      *)

(* On the way to b two walks of the same pass agree.                       *)
LEMMA SameReach ==
  ASSUME Inv, iterSem = 0, mainPass \in Walking,
         NEW n \in Nodes, n <= mainAt, n <= trunkAt
  PROVE  trunkPass = mainPass /\ mainReach[n] = trunkReach[n]
<1>1. trunkPass = mainPass BY DEF Inv, LagInv, SamePass, Walking, CFR
<1>2. Walk(policy, mainReach, mainPass, mainAt) /\ Walk(policy, trunkReach, mainPass, trunkAt)
  BY <1>1 DEF Inv, WalksInv
<1>3. mainAt \in Nat /\ trunkAt \in Nat BY NodeFacts DEF Inv, Types
<1> QED BY <1>1, <1>2, <1>3, WalksAgree

(* The trunk thread submits only in main's pass, and main is not past.     *)
LEMMA Submitting ==
  ASSUME Inv, NEW s \in Subgames, s = trunkAt, ~TrunkCuts(s)
  PROVE  /\ iterSem = 0 /\ trunkPass = mainPass /\ mainPass \in Walking
         /\ mainAt <= s /\ ~Cut(trunkPass, trunkReach, s)
<1>1. s \in Nodes /\ s \in Nat /\ s < End /\ End \in Nat BY NodeFacts
<1>2. trunkPass \in Walking BY <1>1 DEF Inv, FlagsInv
<1>3. Walk(policy, trunkReach, trunkPass, s) BY <1>2 DEF Inv, WalksInv
<1>4. ~Cut(trunkPass, trunkReach, s) BY DEF TrunkCuts, Cut
<1>5. ~TrunkDone
  <2> SUFFICES ASSUME TrunkDone PROVE FALSE OBVIOUS
  <2>1. NoJobs(trunkPass, s) BY <1>1 DEF TrunkDone
  <2>2. PICK R : Walk(policy, R, trunkPass, End) /\ \A t \in Subgames : t >= s => Cut(trunkPass, R, t)
    BY <2>1 DEF NoJobs
  <2>3. Cut(trunkPass, R, s) BY <1>1, <2>2
  <2>4. s <= s /\ s <= End BY <1>1
  <2>5. R[s] = trunkReach[s] BY <1>1, <1>3, <2>2, <2>4, WalksAgree
  <2> QED BY <1>4, <2>3, <2>5 DEF Cut
<1>6. iterSem = 0
  <2>1. iterSem \in 0 .. 2 BY DEF Inv, Types
  <2>2. iterSem # 1 /\ iterSem # 2 BY <1>5 DEF Inv, LagInv
  <2> QED BY <2>1, <2>2
<1>7. trunkPass = mainPass /\ mainPass \in Walking
  BY <1>2, <1>6 DEF Inv, LagInv, SamePass, Walking, CFR
<1>8. mainAt <= s
  <2> SUFFICES ASSUME ~(mainAt <= s) PROVE FALSE OBVIOUS
  <2>1. mainAt \in Nat BY NodeFacts DEF Inv, Types
  <2>2. s < mainAt /\ s <= mainAt /\ s <= trunkAt BY <1>1, <2>1
  <2>3. mainReach[s] = trunkReach[s] BY <1>1, <1>6, <1>7, <2>2, SameReach
  <2>4. ~Cut(mainPass, mainReach, s) BY <1>4, <1>7, <2>3 DEF Cut
  <2>5. s < trunkAt BY <1>7, <2>2, <2>4 DEF Inv, WaitedInv
  <2> QED BY <1>1, <2>5
<1> QED BY <1>4, <1>6, <1>7, <1>8

(* The subgames below a node at which main's player has a hand.            *)
LEMMA MainReaches ==
  ASSUME Inv, mainPass \in Walking, NEW q, PlaysFor(mainPass, q),
         NEW S \in SUBSET Nodes, PlaysOn(q, S), NEW n \in S, Tree[n].last < mainAt, mainReach[n] # {}
  PROVE  iterSem = 0
<1>1. Walk(policy, mainReach, mainPass, mainAt) /\ PolicyOK(policy) /\ mainAt \in Nat
  BY NodeFacts DEF Inv, WalksInv, Types
<1>2. PICK s \in Subgames : n <= s /\ s <= Tree[n].last /\ mainReach[s] # {}
  BY <1>1, SubgameReached
<1>3. s < mainAt
  <2> DEFINE last == Tree[n].last
  <2>1. s \in Nat /\ last \in Nat /\ mainAt \in Nat /\ s <= last /\ last < mainAt
    BY <1>1, <1>2, KidFacts, NodeFacts
  <2> HIDE DEF last
  <2> QED BY <2>1
<1>4. ~Cut(mainPass, mainReach, s) BY <1>2 DEF Cut
<1> QED BY <1>3, <1>4 DEF Inv, WaitedInv

(* A change of regrets at own node n in reach.                             *)
LEMMA Updating ==
  ASSUME Inv, NEW n \in Nodes, Innermost(n), mainReach[n] # {}
  PROVE  iterSem = 0 /\ trunkPass = mainPass
<1>1. n \in Choices /\ Tree[n].player = mainPass /\ Tree[n].last < mainAt
  BY DEF Innermost, Returning, OwnNode
<1>2. mainPass \in CFR BY <1>1, TreeAssumption DEF Choices
<1>3. PICK S \in SUBSET Nodes : PlaysOn(mainPass, S) /\ {k \in Choices : Tree[k].player = mainPass} \subseteq S
  BY <1>2, CallAssumption
<1>4. n \in S /\ mainPass \in Walking BY <1>1, <1>2, <1>3 DEF Walking
<1>5. iterSem = 0
  <2>1. PlaysFor(mainPass, mainPass) BY DEF PlaysFor
  <2> QED BY <1>1, <1>3, <1>4, <2>1, MainReaches
<1> QED BY <1>4, <1>5 DEF Inv, LagInv, SamePass, Walking, CFR

(* Of two passes in a row one has a job: the first to act can play on.     *)
HasJob(q) ==
  \A pol, p, R : PolicyOK(pol) /\ PlaysFor(p, q) /\ Walk(pol, R, p, End) =>
    \E s \in Subgames : R[s] # {}

LEMMA SomeJob == \E q \in CFR : HasJob(q)
<1>1. CASE 1 \in Subgames
  <2>1. "p0" \in CFR BY DEF CFR
  <2>2. \A R : R[1] = Hands => R[1] # {} BY HandsAssumption
  <2>3. HasJob("p0") BY <1>1, <2>2 DEF Walk, HasJob
  <2> QED BY <2>1, <2>3
<1>2. CASE 1 \in Choices
  <2>1. PICK q \in CFR : q = Tree[1].player
    <3>1. Tree[1].player \in CFR BY <1>2, TreeAssumption DEF Choices
    <3> QED BY <3>1
  <2>2. PICK S \in SUBSET Nodes : PlaysOn(q, S) /\ {k \in Choices : Tree[k].player = q} \subseteq S
    BY CallAssumption
  <2>3. 1 \in S BY <1>2, <2>1, <2>2
  <2>4. Tree[1].last < End BY NodeFacts, KidFacts
  <2>5. ASSUME NEW pol, NEW p, NEW R, PolicyOK(pol), PlaysFor(p, q), Walk(pol, R, p, End)
        PROVE  \E s \in Subgames : R[s] # {}
    <3>1. R[1] # {} /\ End \in Nat BY <2>5, NodeFacts, HandsAssumption DEF Walk
    <3>2. PICK n \in S : n = 1 BY <2>3
    <3>3. Tree[n].last < End /\ R[n] # {} BY <2>4, <3>1, <3>2
    <3>4. PlaysOn(q, S) BY <2>2
    <3> QED BY <2>5, <3>1, <3>3, <3>4, SubgameReached
  <2>6. HasJob(q) BY <2>5 DEF HasJob
  <2> QED BY <2>6
<1> QED BY <1>1, <1>2, TreeAssumption

LEMMA NoJobsOfBoth ==
  ASSUME PolicyOK(policy), NEW p \in CFR, NEW b, p # b, b \in Walking, NoJobs(p, 1), NoJobs(b, 1)
  PROVE  FALSE
<1>1. \A s \in Subgames : s >= 1 BY NodeFacts
<1>2. PICK q \in CFR : HasJob(q) BY SomeJob
<1>3. ASSUME NEW o, PlaysFor(o, q), NoJobs(o, 1) PROVE FALSE
  <2>1. PICK R : Walk(policy, R, o, End) /\ \A s \in Subgames : s >= 1 => Cut(o, R, s) BY <1>3 DEF NoJobs
  <2>2. PICK s \in Subgames : R[s] # {} BY <1>2, <1>3, <2>1 DEF HasJob
  <2> QED BY <1>1, <2>1, <2>2 DEF Cut
<1> QED BY <1>3 DEF PlaysFor, CFR, Walking

(* Main, at the end of a pass before which the trunk thread is, had no job *)
(* to wait for.                                                            *)
LEMMA NoneWaitedFor ==
  ASSUME Inv, mainAt = End, mainPass \in Walking
  PROVE  /\ NoJobs(mainPass, trunkAt)
         /\ iterSem # 0 => NoJobs(mainPass, 1)
         /\ \A s \in Subgames : ~Open(s)
<1>1. Walk(policy, mainReach, mainPass, End) BY DEF Inv, WalksInv
<1>2. \A s \in Subgames : s \in Nat /\ s < End /\ s >= 1 BY NodeFacts
<1>3. \A s \in Subgames : ~Cut(mainPass, mainReach, s) => iterSem = 0 /\ s < trunkAt
  BY <1>2 DEF Inv, WaitedInv
<1>4. \A s \in Subgames : s >= trunkAt => Cut(mainPass, mainReach, s)
  <2>1. trunkAt \in Nat BY NodeFacts DEF Inv, Types
  <2> QED BY <1>2, <1>3, <2>1
<1>5. \A s \in Subgames : ~Open(s)
  <2>1. \A s \in Subgames : Open(s) => End <= s BY DEF Inv, JobsInv
  <2>2. End \in Nat BY NodeFacts
  <2> QED BY <1>2, <2>1, <2>2
<1>6. iterSem # 0 => \A s \in Subgames : Cut(mainPass, mainReach, s) BY <1>3
<1> QED BY <1>1, <1>4, <1>5, <1>6 DEF NoJobs

-----------------------------------------------------------------------------
(* The steps of main                                                       *)

LEMMA WalkFromRoot ==
  ASSUME NEW pol, NEW p
  PROVE  FromRoot \in Reaches /\ Walk(pol, FromRoot, p, 1)
<1>1. FromRoot \in Reaches BY DEF FromRoot, Nowhere, Reaches
<1>2. FromRoot[1] = Hands BY NodeFacts DEF FromRoot, Nowhere
<1>3. \A n \in Nodes : ~(n < 1) BY NodeFacts
<1> QED BY <1>1, <1>2, <1>3 DEF Walk

LEMMA StartPassInv ==
  ASSUME Inv, NEW pass \in CFR \cup {"br", "quit"}, StartPass(pass)
  PROVE  Inv'
<1>1. /\ mainAt = End /\ pass \in Follows(mainPass) /\ mainPass' = pass
      /\ iterSem' = iterSem + 1 /\ updated' = {}
      /\ policy' = policy /\ trunkPass' = trunkPass /\ trunkAt' = trunkAt /\ trunkReach' = trunkReach
      /\ spec' = spec /\ pending' = pending /\ running' = running /\ finished' = finished
  BY DEF StartPass, trunk, work
<1>2. mainPass # "quit" /\ (mainPass \in Walking \/ mainPass = "idle")
  BY <1>1 DEF Follows, Inv, Types
<1>3. mainPass \in Walking =>
        /\ NoJobs(mainPass, trunkAt)
        /\ iterSem # 0 => NoJobs(mainPass, 1)
  BY <1>1, NoneWaitedFor
<1>4. \A s \in Subgames : ~Open(s)
  <2>1. CASE mainPass \in Walking BY <1>1, <2>1, NoneWaitedFor
  <2>2. CASE mainPass \notin Walking BY <2>2 DEF Inv, JobsInv
  <2> QED BY <2>1, <2>2
<1>5. iterSem \in 0 .. 2 /\ PolicyOK(policy) BY DEF Inv, Types
<1>6. ASSUME iterSem = 0 PROVE iterSem' \in 0 .. 2 /\ LagInv'
  <2>1. SamePass BY <1>6 DEF Inv, LagInv
  <2>2. trunkPass = (IF mainPass = "idle" THEN "wait" ELSE mainPass)
    BY <1>2, <2>1 DEF SamePass, Walking, CFR
  <2>3. pass \in After(trunkPass) BY <1>1, <1>2, <2>2 DEF After, Walking, CFR
  <2>4. TrunkDone
    <3>1. CASE mainPass \in Walking
      <4>1. trunkPass = mainPass BY <2>2, <3>1 DEF Walking, CFR
      <4> QED BY <1>3, <3>1, <4>1 DEF TrunkDone
    <3>2. CASE mainPass = "idle" BY <2>2, <3>2 DEF TrunkDone, Inv, FlagsInv, Walking, CFR
    <3> QED BY <1>2, <3>1, <3>2
  <2>5. iterSem' = 1 /\ TrunkDone' /\ (mainPass \in After(trunkPass))'
    BY <1>1, <1>6, <2>3, <2>4 DEF TrunkDone, NoJobs, After
  <2> QED BY <2>5 DEF LagInv
<1>7. ASSUME iterSem = 1 PROVE iterSem' \in 0 .. 2 /\ LagInv'
  <2>1. TrunkDone /\ mainPass \in After(trunkPass) BY <1>7 DEF Inv, LagInv
  <2>2. mainPass \in Walking
    <3>1. mainPass # "idle" BY <2>1 DEF After, Follows, CFR
    <3> QED BY <1>2, <3>1
  <2>3. NoJobs(mainPass, 1) BY <1>3, <1>7, <2>2
  <2>4. mainPass \in CFR
    <3> SUFFICES ASSUME mainPass = "br" PROVE FALSE BY <2>2 DEF Walking
    <3>1. PICK R : Walk(policy, R, "br", End) /\ \A s \in Subgames : s >= 1 => Cut("br", R, s)
      BY <2>3 DEF NoJobs
    <3>2. PICK q \in CFR : HasJob(q) BY SomeJob
    <3>3. PICK s \in Subgames : R[s] # {} BY <1>5, <3>1, <3>2 DEF HasJob, PlaysFor
    <3>4. s >= 1 BY NodeFacts
    <3> QED BY <3>1, <3>3, <3>4 DEF Cut
  <2>5. iterSem' = 2 BY <1>1, <1>7
  <2>6. TrunkDone' /\ (\E p \in CFR : p \in After(trunkPass) /\ mainPass \in Follows(p) /\ NoJobs(p, 1))'
    BY <1>1, <2>1, <2>3, <2>4 DEF TrunkDone, NoJobs, After
  <2> QED BY <2>5, <2>6 DEF LagInv
<1>8. ASSUME iterSem = 2 PROVE FALSE
  <2>1. PICK p \in CFR : mainPass \in Follows(p) /\ NoJobs(p, 1) BY <1>8 DEF Inv, LagInv
  <2>2. mainPass # p /\ mainPass # "idle" BY <2>1 DEF Follows, CFR
  <2>3. mainPass \in Walking BY <1>2, <2>2
  <2>4. NoJobs(mainPass, 1) BY <1>3, <1>8, <2>3
  <2> QED BY <1>5, <2>1, <2>2, <2>3, <2>4, NoJobsOfBoth
<1>9. iterSem' \in 0 .. 2 /\ iterSem' # 0 /\ LagInv'
  <2>1. iterSem' \in 0 .. 2 /\ LagInv' BY <1>5, <1>6, <1>7, <1>8
  <2>2. iterSem' # 0 BY <1>1, <1>5
  <2> QED BY <2>1, <2>2
<1>10. mainPass' \in Walking => mainAt' = 1 /\ mainReach' = FromRoot
  BY DEF StartPass, Walking, CFR
<1>11. mainAt' \in 1 .. End /\ mainReach' \in Reaches
  <2>1. mainAt' = 1 \/ mainAt' = End BY DEF StartPass
  <2>2. 1 \in 1 .. End /\ End \in 1 .. End BY NodeFacts
  <2>3. Nowhere \in Reaches BY DEF Nowhere, Reaches
  <2>4. mainReach' = Nowhere \/ mainReach' = FromRoot BY DEF StartPass
  <2> QED BY <2>1, <2>2, <2>3, <2>4, WalkFromRoot
<1>12. Types'
  <2>1. runBR' \in BOOLEAN /\ quit' \in BOOLEAN BY DEF StartPass, Inv, Types
  <2>2. mainPass' \in Walking \cup {"idle", "quit"} BY <1>1 DEF Walking
  <2> QED BY <1>1, <1>9, <1>11, <2>1, <2>2 DEF Inv, Types, PolicyOK
<1>13. FlagsInv'
  <2>1. (quit <=> mainPass = "quit")' BY DEF StartPass
  <2>2. (mainPass \in CFR \cup {"idle"} => ~runBR)' /\ (mainPass = "br" => runBR)'
    BY DEF StartPass, CFR
  <2>3. (mainPass \notin Walking => mainAt = End)' BY DEF StartPass, Walking
  <2>4. (trunkPass \notin Walking => trunkAt = End)' BY <1>1 DEF Inv, FlagsInv
  <2> QED BY <2>1, <2>2, <2>3, <2>4 DEF FlagsInv
<1>14. WalksInv'
  <2>1. (mainPass \in Walking => Walk(policy, mainReach, mainPass, mainAt))' BY <1>10, WalkFromRoot
  <2>2. (trunkPass \in Walking => Walk(policy, trunkReach, trunkPass, trunkAt))'
    BY <1>1 DEF Inv, WalksInv
  <2> QED BY <2>1, <2>2 DEF WalksInv
<1>15. WaitedInv'
  <2>1. \A s \in Subgames : ~(s < 1) BY NodeFacts
  <2> QED BY <1>10, <2>1 DEF WaitedInv
<1>16. JobsInv'
  <2>1. \A s \in Subgames : ~Open(s)' BY <1>1, <1>4 DEF Open
  <2> QED BY <1>1, <2>1 DEF Inv, JobsInv
<1> QED BY <1>9, <1>12, <1>13, <1>14, <1>15, <1>16 DEF Inv

LEMMA UpdateRegretsInv ==
  ASSUME Inv, NEW n \in Nodes, UpdateRegrets(n)
  PROVE  Inv'
<1>1. /\ Innermost(n) /\ updated' = updated \cup {n}
      /\ iterSem' = iterSem /\ runBR' = runBR /\ quit' = quit
      /\ mainPass' = mainPass /\ mainAt' = mainAt /\ mainReach' = mainReach
      /\ trunkPass' = trunkPass /\ trunkAt' = trunkAt /\ trunkReach' = trunkReach
      /\ spec' = spec /\ pending' = pending /\ running' = running /\ finished' = finished
  BY DEF UpdateRegrets, trunk, work
<1>2. n \in Choices /\ Tree[n].player = mainPass /\ mainPass \in CFR
  <2>1. n \in Choices /\ Tree[n].player = mainPass BY <1>1 DEF Innermost, Returning, OwnNode
  <2> QED BY <2>1, TreeAssumption DEF Choices
<1>3. /\ policy' # policy => iterSem = 0 /\ trunkPass = mainPass
      /\ policy' = [k \in Choices |-> policy'[k]] /\ PolicyOK(policy')
      /\ \A k \in Choices : Tree[k].player # mainPass => policy'[k] = policy[k]
  <2>1. CASE mainReach[n] = {}
    <3>1. policy' = policy BY <2>1 DEF UpdateRegrets
    <3> QED BY <3>1 DEF Inv, Types
  <2>2. CASE mainReach[n] # {}
    <3>1. PICK new \in [Dealt[n] -> (SUBSET Tree[n].kids) \ {{}}] :
            policy' = [policy EXCEPT ![n] = new]
      BY <2>2 DEF UpdateRegrets
    <3>2. iterSem = 0 /\ trunkPass = mainPass BY <1>1, <2>2, Updating
    <3>3. DOMAIN policy = Choices /\ policy = [k \in Choices |-> policy[k]] /\ PolicyOK(policy)
      BY DEF Inv, Types
    <3>4. policy' = [k \in Choices |-> IF k = n THEN new ELSE policy[k]] BY <3>1, <3>3
    <3>5. PolicyOK(policy') BY <3>3, <3>4 DEF PolicyOK
    <3> QED BY <1>2, <3>2, <3>4, <3>5
  <2> QED BY <2>1, <2>2
<1>4. Types'
  <2>1. DOMAIN policy' = Choices BY <1>3
  <2>2. updated' \subseteq Choices BY <1>1, <1>2 DEF Inv, Types
  <2> QED BY <1>1, <1>3, <2>1, <2>2 DEF Inv, Types
<1>5. FlagsInv' BY <1>1 DEF Inv, FlagsInv
<1>6. WalksInv'
  <2>1. Walk(policy, mainReach, mainPass, mainAt) BY <1>2 DEF Inv, WalksInv, Walking
  <2>2. Walk(policy', mainReach, mainPass, mainAt) BY <1>3, <2>1, WalkKept
  <2>3. ASSUME trunkPass \in Walking PROVE Walk(policy', trunkReach, trunkPass, trunkAt)
    <3>1. Walk(policy, trunkReach, trunkPass, trunkAt) BY <2>3 DEF Inv, WalksInv
    <3>2. \A k \in Choices : Tree[k].player # trunkPass => policy'[k] = policy[k] BY <1>3
    <3> QED BY <3>1, <3>2, WalkKept
  <2> QED BY <1>1, <2>2, <2>3 DEF WalksInv
<1>7. WaitedInv' BY <1>1 DEF Inv, WaitedInv, Cut
<1>8. LagInv'
  <2>1. CASE policy' = policy BY <1>1, <2>1 DEF Inv, LagInv, SamePass, TrunkDone, NoJobs
  <2>2. CASE policy' # policy
    <3>1. iterSem = 0 BY <1>3, <2>2
    <3>2. SamePass BY <3>1 DEF Inv, LagInv
    <3>3. SamePass' BY <1>1, <3>2 DEF SamePass
    <3>4. iterSem' # 1 /\ iterSem' # 2 BY <1>1, <3>1
    <3> QED BY <3>3, <3>4 DEF LagInv
  <2> QED BY <2>1, <2>2
<1>9. JobsInv' BY <1>1 DEF Inv, JobsInv, Open, Cut
<1> QED BY <1>4, <1>5, <1>6, <1>7, <1>8, <1>9 DEF Inv

LEMMA VisitInv ==
  ASSUME Inv, Visit
  PROVE  Inv'
<1>1. /\ mainAt # End /\ mainReach' = Onward(mainReach, mainAt, mainPass) /\ mainAt' = mainAt + 1
      /\ policy' = policy /\ iterSem' = iterSem /\ runBR' = runBR /\ quit' = quit
      /\ mainPass' = mainPass /\ updated' = updated
      /\ trunkPass' = trunkPass /\ trunkAt' = trunkAt /\ trunkReach' = trunkReach
      /\ spec' = spec /\ pending' = pending /\ running' = running
  BY DEF Visit, trunk
<1>2. mainAt \in Nodes /\ mainAt \in Nat /\ mainAt' \in 1 .. End /\ mainPass \in Walking
  <2>1. mainAt \in 1 .. End /\ End = Len(Tree) + 1 /\ Len(Tree) \in Nat
    BY NodeFacts DEF Inv, Types, End
  <2>2. mainPass \in Walking BY <1>1 DEF Inv, FlagsInv
  <2> QED BY <1>1, <2>1, <2>2 DEF Nodes
<1>3. Walk(policy, mainReach', mainPass, mainAt') BY <1>1, <1>2, WalkOn DEF Inv, WalksInv
<1>4. \A k \in Nodes : k <= mainAt => mainReach'[k] = mainReach[k]
  <2> SUFFICES ASSUME NEW k \in Nodes, k <= mainAt PROVE mainReach'[k] = mainReach[k] OBVIOUS
  <2>1. k \in Nat /\ mainAt' \in Nat /\ k <= mainAt' BY <1>1, <1>2, NodeFacts
  <2>2. Walk(policy, mainReach, mainPass, mainAt) BY <1>2 DEF Inv, WalksInv
  <2> QED BY <1>2, <1>3, <2>1, <2>2, WalksAgree
<1>5. \/ mainAt \notin Subgames /\ finished' = finished
      \/ mainAt \in Subgames /\ Cut(mainPass, mainReach, mainAt) /\ finished' = finished
      \/ mainAt \in Subgames /\ finished[mainAt] > 0 /\ finished' = [finished EXCEPT ![mainAt] = @ - 1]
  BY DEF Visit, WaitForSubgame, MainCuts, Cut
<1>6. finished \in [Subgames -> 0 .. 1] BY DEF Inv, Types
<1>7. ASSUME NEW s \in Subgames PROVE finished'[s] = finished[s] \/ finished'[s] = 0
  <2>1. finished[s] \in 0 .. 1 BY <1>6
  <2> QED BY <1>5, <1>6, <2>1
<1>8. finished' \in [Subgames -> 0 .. 1]
  <2>1. finished' = [s \in Subgames |-> finished'[s]] BY <1>5, <1>6
  <2>2. \A s \in Subgames : finished'[s] \in 0 .. 1 BY <1>6, <1>7
  <2> QED BY <2>1, <2>2
<1>9. Types'
  <2>1. mainReach' \in Reaches BY <1>3 DEF Walk
  <2> QED BY <1>1, <1>2, <1>8, <2>1 DEF Inv, Types
<1>10. FlagsInv' BY <1>1, <1>2 DEF Inv, FlagsInv
<1>11. WalksInv' BY <1>1, <1>3 DEF Inv, WalksInv
<1>12. WaitedInv'
  <2> SUFFICES ASSUME NEW s \in Subgames, s < mainAt', ~Cut(mainPass, mainReach', s)
               PROVE  iterSem = 0 /\ s < trunkAt
    BY <1>1 DEF WaitedInv
  <2>1. s \in Nodes /\ s \in Nat /\ s <= mainAt BY <1>1, <1>2, NodeFacts
  <2>2. ~Cut(mainPass, mainReach, s) BY <1>4, <2>1 DEF Cut
  <2>3. CASE s < mainAt BY <1>2, <2>2, <2>3 DEF Inv, WaitedInv
  <2>4. CASE s = mainAt
    <3>1. finished[s] > 0 BY <1>5, <2>2, <2>4
    <3>2. Open(s) BY <3>1 DEF Open
    <3> QED BY <3>2 DEF Inv, JobsInv
  <2> QED BY <1>2, <2>1, <2>3, <2>4
<1>13. LagInv' BY <1>1 DEF Inv, LagInv, SamePass, TrunkDone, NoJobs, After
<1>14. JobsInv'
  <2>1. \A s \in Subgames : finished'[s] > 0 => finished'[s] = finished[s] BY <1>7
  <2>2. \A s \in Subgames : Open(s)' => Open(s) BY <1>1, <2>1 DEF Open
  <2>3. (pending \cap running = {})' BY <1>1 DEF Inv, JobsInv
  <2>4. (\A s \in Subgames : finished[s] > 0 => s \notin pending \cup running)'
    BY <1>1, <2>1 DEF Inv, JobsInv
  <2>5. ASSUME NEW s \in Subgames, Open(s)'
        PROVE  /\ iterSem' = 0 /\ mainPass' \in Walking /\ mainAt' <= s /\ s < trunkAt'
               /\ ~Cut(trunkPass', trunkReach', s)
               /\ spec'[s] = IF finished'[s] > 0 THEN Result(trunkPass', trunkReach'[s])
                                                 ELSE Input(trunkPass', trunkReach'[s])
    <3>1. /\ iterSem = 0 /\ mainAt <= s /\ s < trunkAt /\ ~Cut(trunkPass, trunkReach, s)
          /\ spec[s] = IF finished[s] > 0 THEN Result(trunkPass, trunkReach[s])
                                          ELSE Input(trunkPass, trunkReach[s])
      BY <2>2, <2>5 DEF Inv, JobsInv
    <3>2. s \in Nodes /\ s \in Nat /\ trunkAt \in Nat /\ s <= trunkAt
      <4>1. s \in Nodes /\ s \in Nat /\ trunkAt \in Nat BY NodeFacts DEF Inv, Types
      <4> QED BY <3>1, <4>1
    <3>3. s # mainAt
      <4> SUFFICES ASSUME s = mainAt PROVE FALSE OBVIOUS
      <4>1. mainReach[s] = trunkReach[s] /\ trunkPass = mainPass BY <1>2, <3>1, <3>2, SameReach
      <4>2. ~Cut(mainPass, mainReach, s) BY <3>1, <4>1 DEF Cut
      <4>3. finished[s] > 0 /\ finished'[s] = finished[s] - 1 BY <1>5, <1>6, <4>2
      <4>4. finished'[s] = 0 BY <1>6, <4>3
      <4>5. s \notin pending \cup running BY <4>3 DEF Inv, JobsInv
      <4> QED BY <1>1, <2>5, <4>4, <4>5 DEF Open
    <3>4. mainAt' <= s BY <1>1, <1>2, <3>1, <3>2, <3>3
    <3>5. finished'[s] = finished[s] BY <1>5, <1>6, <3>3
    <3> QED BY <1>1, <1>2, <3>1, <3>4, <3>5
  <2> QED BY <2>3, <2>4, <2>5 DEF JobsInv
<1> QED BY <1>9, <1>10, <1>11, <1>12, <1>13, <1>14 DEF Inv

-----------------------------------------------------------------------------
(* The steps of the trunk thread                                           *)

LEMMA WakeInv ==
  ASSUME Inv, Wake
  PROVE  Inv'
<1>1. /\ trunkAt = End /\ trunkPass # "gone" /\ iterSem > 0
      /\ iterSem' = iterSem - 1 /\ trunkPass' = WokenFor
      /\ policy' = policy /\ runBR' = runBR /\ quit' = quit
      /\ mainPass' = mainPass /\ mainAt' = mainAt /\ mainReach' = mainReach /\ updated' = updated
      /\ spec' = spec /\ pending' = pending /\ running' = running /\ finished' = finished
  BY DEF Wake, main, work
<1>2. iterSem \in {1, 2} BY <1>1 DEF Inv, Types
<1>3. trunkPass \in Walking \cup {"wait"} BY <1>1 DEF Inv, Types
<1>4. WokenFor \in Walking \cup {"gone"} BY DEF WokenFor, Walking, CFR
<1>5. trunkPass' = "gone" => trunkAt' = End BY DEF Wake
<1>6. trunkPass' \in Walking => trunkAt' = 1 /\ trunkReach' = FromRoot
  <2>1. "gone" \notin Walking BY DEF Walking, CFR
  <2> QED BY <2>1 DEF Wake
<1>7. trunkAt' \in 1 .. End /\ trunkReach' \in Reaches
  <2>1. trunkAt' = 1 \/ trunkAt' = End BY DEF Wake
  <2>2. 1 \in 1 .. End /\ End \in 1 .. End BY NodeFacts
  <2>3. Nowhere \in Reaches BY DEF Nowhere, Reaches
  <2>4. trunkReach' = Nowhere \/ trunkReach' = FromRoot BY DEF Wake
  <2> QED BY <2>1, <2>2, <2>3, <2>4, WalkFromRoot
<1>8. \A s \in Subgames : ~Open(s) BY <1>1 DEF Inv, JobsInv
<1>9. FlagsInv BY DEF Inv
<1>10. Types'
  <2>1. iterSem' \in 0 .. 2 BY <1>1, <1>2
  <2>2. trunkPass' \in Walking \cup {"wait", "gone"} BY <1>1, <1>4
  <2> QED BY <1>1, <1>7, <2>1, <2>2 DEF Inv, Types
<1>11. FlagsInv' BY <1>1, <1>4, <1>5, <1>9 DEF FlagsInv
<1>12. WalksInv'
  <2>1. trunkPass' \in Walking => Walk(policy, trunkReach', trunkPass', trunkAt')
    BY <1>6, WalkFromRoot
  <2> QED BY <1>1, <2>1 DEF Inv, WalksInv
<1>13. WaitedInv'
  <2>1. mainPass \in Walking => \A s \in Subgames : s < mainAt => Cut(mainPass, mainReach, s)
    BY <1>1 DEF Inv, WaitedInv
  <2> QED BY <1>1, <2>1 DEF WaitedInv
<1>14. ASSUME iterSem = 1 PROVE LagInv'
  <2>1. mainPass \in After(trunkPass) BY <1>14 DEF Inv, LagInv
  <2>2. \/ WokenFor = mainPass /\ mainPass \in Walking
        \/ WokenFor = "gone" /\ mainPass = "quit"
    <3>1. CASE trunkPass = "wait"
      <4>1. mainPass = "p1" BY <2>1, <3>1 DEF After, Follows
      <4> QED BY <1>9, <3>1, <4>1 DEF WokenFor, FlagsInv, Walking, CFR
    <3>2. CASE trunkPass = "p1"
      <4>1. mainPass = "p0" BY <2>1, <3>2 DEF After, Follows
      <4> QED BY <3>2, <4>1 DEF WokenFor, Walking, CFR
    <3>3. CASE trunkPass \in {"p0", "br"}
      <4>1. mainPass \in {"p1", "br", "quit"} BY <2>1, <3>3 DEF After, Follows
      <4> QED BY <1>9, <3>3, <4>1 DEF WokenFor, FlagsInv, Walking, CFR
    <3> QED BY <1>3, <3>1, <3>2, <3>3 DEF Walking, CFR
  <2>3. SamePass' BY <1>1, <2>2 DEF SamePass
  <2>4. iterSem' # 1 /\ iterSem' # 2 BY <1>1, <1>14
  <2> QED BY <2>3, <2>4 DEF LagInv
<1>15. ASSUME iterSem = 2 PROVE LagInv'
  <2>1. PICK p \in CFR : p \in After(trunkPass) /\ mainPass \in Follows(p) /\ NoJobs(p, 1)
    BY <1>15 DEF Inv, LagInv
  <2>2. WokenFor = p
    <3>1. CASE p = "p0"
      <4>1. trunkPass = "p1" BY <1>3, <2>1, <3>1 DEF After, Follows, Walking, CFR
      <4> QED BY <3>1, <4>1 DEF WokenFor
    <3>2. CASE p = "p1"
      <4>1. mainPass = "p0" BY <2>1, <3>2 DEF Follows
      <4>2. ~quit /\ ~runBR BY <1>9, <4>1 DEF FlagsInv, CFR
      <4>3. trunkPass # "p1" BY <2>1, <3>2 DEF After, Follows
      <4> QED BY <3>2, <4>2, <4>3 DEF WokenFor
    <3> QED BY <3>1, <3>2 DEF CFR
  <2>3. trunkPass' = p /\ trunkPass' \in Walking /\ trunkAt' = 1 BY <1>1, <1>6, <2>2 DEF Walking
  <2>4. NoJobs(trunkPass, trunkAt)' BY <1>1, <2>1, <2>3 DEF NoJobs
  <2>5. TrunkDone' BY <2>3, <2>4 DEF TrunkDone
  <2>6. After(p) = Follows(p) BY DEF After, CFR
  <2>7. (mainPass \in After(trunkPass))' BY <1>1, <2>1, <2>3, <2>6
  <2>8. iterSem' = 1 BY <1>1, <1>15
  <2> QED BY <2>5, <2>7, <2>8 DEF LagInv
<1>16. JobsInv'
  <2>1. \A s \in Subgames : ~Open(s)' BY <1>1, <1>8 DEF Open
  <2> QED BY <1>1, <2>1 DEF Inv, JobsInv
<1> QED BY <1>2, <1>10, <1>11, <1>12, <1>13, <1>14, <1>15, <1>16 DEF Inv

LEMMA GenerateInv ==
  ASSUME Inv, Generate
  PROVE  Inv'
<1>1. /\ trunkAt # End /\ trunkReach' = Onward(trunkReach, trunkAt, trunkPass) /\ trunkAt' = trunkAt + 1
      /\ policy' = policy /\ iterSem' = iterSem /\ runBR' = runBR /\ quit' = quit
      /\ mainPass' = mainPass /\ mainAt' = mainAt /\ mainReach' = mainReach /\ updated' = updated
      /\ trunkPass' = trunkPass /\ running' = running /\ finished' = finished
  BY DEF Generate, main
<1>2. trunkAt \in Nodes /\ trunkAt \in Nat /\ trunkAt' \in 1 .. End /\ trunkPass \in Walking
  <2>1. trunkAt \in 1 .. End /\ End = Len(Tree) + 1 /\ Len(Tree) \in Nat
    BY NodeFacts DEF Inv, Types, End
  <2>2. trunkPass \in Walking BY <1>1 DEF Inv, FlagsInv
  <2> QED BY <1>1, <2>1, <2>2 DEF Nodes
<1>3. Walk(policy, trunkReach', trunkPass, trunkAt') BY <1>1, <1>2, WalkOn DEF Inv, WalksInv
<1>4. \A k \in Nodes : k <= trunkAt => trunkReach'[k] = trunkReach[k]
  <2> SUFFICES ASSUME NEW k \in Nodes, k <= trunkAt PROVE trunkReach'[k] = trunkReach[k] OBVIOUS
  <2>1. k \in Nat /\ trunkAt' \in Nat /\ k <= trunkAt' BY <1>1, <1>2, NodeFacts
  <2>2. Walk(policy, trunkReach, trunkPass, trunkAt) BY <1>2 DEF Inv, WalksInv
  <2> QED BY <1>2, <1>3, <2>1, <2>2, WalksAgree
<1>5. \/ /\ trunkAt \notin Subgames \/ TrunkCuts(trunkAt)
         /\ spec' = spec /\ pending' = pending
      \/ /\ trunkAt \in Subgames /\ ~TrunkCuts(trunkAt)
         /\ spec' = [spec EXCEPT ![trunkAt] = Input(trunkPass, trunkReach[trunkAt])]
         /\ pending' = pending \cup {trunkAt}
  BY DEF Generate, Submit
<1>6. Types'
  <2>1. trunkReach' \in Reaches BY <1>3 DEF Walk
  <2>2. pending' \subseteq Subgames BY <1>5 DEF Inv, Types
  <2>3. spec = [s \in Subgames |-> spec[s]] BY DEF Inv, Types
  <2>4. spec' = [s \in Subgames |-> spec'[s]] BY <1>5, <2>3
  <2> QED BY <1>1, <1>2, <2>1, <2>2, <2>4 DEF Inv, Types
<1>7. FlagsInv' BY <1>1, <1>2 DEF Inv, FlagsInv
<1>8. WalksInv' BY <1>1, <1>3 DEF Inv, WalksInv
<1>9. WaitedInv'
  <2>1. \A s \in Subgames : s < trunkAt => s < trunkAt'
    <3>1. \A s \in Subgames : s \in Nat BY NodeFacts
    <3> QED BY <1>1, <1>2, <3>1
  <2> QED BY <1>1, <2>1 DEF Inv, WaitedInv
<1>10. LagInv'
  <2>1. ASSUME TrunkDone PROVE TrunkDone'
    <3>1. PICK R : Walk(policy, R, trunkPass, End) /\ \A s \in Subgames : s >= trunkAt => Cut(trunkPass, R, s)
      BY <1>1, <2>1 DEF TrunkDone, NoJobs
    <3>2. \A s \in Subgames : s >= trunkAt' => s >= trunkAt
      <4>1. \A s \in Subgames : s \in Nat BY NodeFacts
      <4> QED BY <1>1, <1>2, <4>1
    <3>3. \E Q : Walk(policy', Q, trunkPass', End) /\ \A s \in Subgames : s >= trunkAt' => Cut(trunkPass', Q, s)
      BY <1>1, <3>1, <3>2
    <3>4. NoJobs(trunkPass, trunkAt)' BY <3>3 DEF NoJobs
    <3> QED BY <1>1, <1>2, <3>4 DEF TrunkDone
  <2> QED BY <1>1, <2>1 DEF Inv, LagInv, SamePass, NoJobs
<1>11. \A s \in Subgames : Open(s) => s # trunkAt
  <2>1. \A s \in Subgames : Open(s) => s < trunkAt BY DEF Inv, JobsInv
  <2> QED BY <1>2, <2>1
<1>12. ASSUME NEW s \in Subgames, Open(s)'
       PROVE  /\ iterSem' = 0 /\ mainPass' \in Walking /\ mainAt' <= s /\ s < trunkAt'
              /\ ~Cut(trunkPass', trunkReach', s)
              /\ spec'[s] = IF finished'[s] > 0 THEN Result(trunkPass', trunkReach'[s])
                                                ELSE Input(trunkPass', trunkReach'[s])
  <2>1. s \in Nodes /\ s \in Nat BY NodeFacts
  <2>2. CASE Open(s)
    <3>1. /\ iterSem = 0 /\ mainPass \in Walking /\ mainAt <= s /\ s < trunkAt
          /\ ~Cut(trunkPass, trunkReach, s)
          /\ spec[s] = IF finished[s] > 0 THEN Result(trunkPass, trunkReach[s])
                                          ELSE Input(trunkPass, trunkReach[s])
      BY <2>2 DEF Inv, JobsInv
    <3>2. s <= trunkAt /\ s < trunkAt' /\ s # trunkAt BY <1>1, <1>2, <2>1, <3>1
    <3>3. trunkReach'[s] = trunkReach[s] BY <1>4, <2>1, <3>2
    <3>4. spec'[s] = spec[s]
      <4>1. spec = [t \in Subgames |-> spec[t]] BY DEF Inv, Types
      <4> QED BY <1>5, <3>2, <4>1
    <3> QED BY <1>1, <3>1, <3>2, <3>3, <3>4 DEF Cut
  <2>3. CASE ~Open(s)
    <3>1. s = trunkAt /\ ~TrunkCuts(s) /\ spec' = [spec EXCEPT ![s] = Input(trunkPass, trunkReach[s])]
      BY <1>1, <1>5, <1>12, <2>3 DEF Open
    <3>2. iterSem = 0 /\ mainPass \in Walking /\ mainAt <= s /\ ~Cut(trunkPass, trunkReach, s)
      BY <3>1, Submitting
    <3>3. trunkReach'[s] = trunkReach[s] /\ s < trunkAt'
      <4>1. s <= trunkAt /\ s < trunkAt' BY <1>1, <1>2, <3>1
      <4> QED BY <1>4, <2>1, <4>1
    <3>4. spec'[s] = Input(trunkPass, trunkReach[s])
      <4>1. spec = [t \in Subgames |-> spec[t]] BY DEF Inv, Types
      <4> QED BY <3>1, <4>1
    <3>5. ~(finished'[s] > 0) BY <1>1, <2>3 DEF Open
    <3> QED BY <1>1, <3>2, <3>3, <3>4, <3>5 DEF Cut
  <2> QED BY <2>2, <2>3
<1>13. (pending \cap running = {})'
  <2>1. pending \cap running = {} BY DEF Inv, JobsInv
  <2>2. trunkAt \in Subgames => trunkAt \notin running BY <1>11 DEF Open
  <2> QED BY <1>1, <1>5, <2>1, <2>2
<1>14. (\A s \in Subgames : finished[s] > 0 => s \notin pending \cup running)'
  <2>1. \A s \in Subgames : finished[s] > 0 => s \notin pending \cup running BY DEF Inv, JobsInv
  <2>2. trunkAt \in Subgames => ~(finished[trunkAt] > 0) BY <1>11 DEF Open
  <2> QED BY <1>1, <1>5, <2>1, <2>2
<1>15. JobsInv' BY <1>12, <1>13, <1>14 DEF JobsInv
<1> QED BY <1>6, <1>7, <1>8, <1>9, <1>10, <1>15 DEF Inv

-----------------------------------------------------------------------------
(* The steps of the workers                                                *)

LEMMA TakeInv ==
  ASSUME Inv, NEW n \in Subgames, Take(n)
  PROVE  Inv'
<1>1. /\ n \in pending /\ pending' = pending \ {n} /\ running' = running \cup {n}
      /\ policy' = policy /\ iterSem' = iterSem /\ runBR' = runBR /\ quit' = quit
      /\ mainPass' = mainPass /\ mainAt' = mainAt /\ mainReach' = mainReach /\ updated' = updated
      /\ trunkPass' = trunkPass /\ trunkAt' = trunkAt /\ trunkReach' = trunkReach
      /\ spec' = spec /\ finished' = finished
  BY DEF Take, main, trunk
<1>2. Types' BY <1>1 DEF Inv, Types
<1>3. FlagsInv' BY <1>1 DEF Inv, FlagsInv
<1>4. WalksInv' BY <1>1 DEF Inv, WalksInv
<1>5. WaitedInv' BY <1>1 DEF Inv, WaitedInv
<1>6. LagInv' BY <1>1 DEF Inv, LagInv, SamePass, TrunkDone, NoJobs, After
<1>7. JobsInv'
  <2>1. \A s \in Subgames : Open(s)' => Open(s) BY <1>1 DEF Open
  <2>2. (pending \cap running = {})' /\ pending' \cup running' = pending \cup running
    BY <1>1 DEF Inv, JobsInv
  <2> QED BY <1>1, <2>1, <2>2 DEF Inv, JobsInv
<1> QED BY <1>2, <1>3, <1>4, <1>5, <1>6, <1>7 DEF Inv

LEMMA PerformInv ==
  ASSUME Inv, NEW n \in Subgames, Perform(n)
  PROVE  Inv'
<1>1. /\ n \in running /\ running' = running \ {n} /\ pending' = pending
      /\ spec' = [spec EXCEPT ![n] = Result(spec[n].pass, spec[n].reach)]
      /\ finished' = [finished EXCEPT ![n] = finished[n] + 1]
      /\ policy' = policy /\ iterSem' = iterSem /\ runBR' = runBR /\ quit' = quit
      /\ mainPass' = mainPass /\ mainAt' = mainAt /\ mainReach' = mainReach /\ updated' = updated
      /\ trunkPass' = trunkPass /\ trunkAt' = trunkAt /\ trunkReach' = trunkReach
  BY DEF Perform, main, trunk
<1>2. Open(n) /\ n \notin pending BY <1>1 DEF Open, Inv, JobsInv
<1>3. finished \in [Subgames -> 0 .. 1] /\ spec = [s \in Subgames |-> spec[s]] BY DEF Inv, Types
<1>4. finished[n] = 0
  <2>1. ~(finished[n] > 0) BY <1>1 DEF Inv, JobsInv
  <2> QED BY <1>3, <2>1
<1>5. finished'[n] = 1 /\ \A s \in Subgames \ {n} : finished'[s] = finished[s] /\ spec'[s] = spec[s]
  BY <1>1, <1>3, <1>4
<1>6. Types'
  <2>1. finished' \in [Subgames -> 0 .. 1] BY <1>1, <1>3, <1>4
  <2>2. spec' = [s \in Subgames |-> spec'[s]] BY <1>1, <1>3
  <2> QED BY <1>1, <2>1, <2>2 DEF Inv, Types
<1>7. FlagsInv' BY <1>1 DEF Inv, FlagsInv
<1>8. WalksInv' BY <1>1 DEF Inv, WalksInv
<1>9. WaitedInv' BY <1>1 DEF Inv, WaitedInv
<1>10. LagInv' BY <1>1 DEF Inv, LagInv, SamePass, TrunkDone, NoJobs, After
<1>11. JobsInv'
  <2>1. \A s \in Subgames : Open(s)' => Open(s) BY <1>1, <1>2, <1>5 DEF Open
  <2>2. (pending \cap running = {})' BY <1>1 DEF Inv, JobsInv
  <2>3. (\A s \in Subgames : finished[s] > 0 => s \notin pending \cup running)'
    BY <1>1, <1>2, <1>5 DEF Inv, JobsInv
  <2>4. ASSUME NEW s \in Subgames, Open(s)'
        PROVE  spec'[s] = IF finished'[s] > 0 THEN Result(trunkPass, trunkReach[s])
                                              ELSE Input(trunkPass, trunkReach[s])
    <3>1. spec[s] = IF finished[s] > 0 THEN Result(trunkPass, trunkReach[s])
                                       ELSE Input(trunkPass, trunkReach[s])
      BY <2>1, <2>4 DEF Inv, JobsInv
    <3>2. CASE s # n BY <1>5, <3>1, <3>2
    <3>3. CASE s = n
      <4>1. spec[n] = Input(trunkPass, trunkReach[n]) BY <1>4, <3>1, <3>3
      <4>2. spec[n].pass = trunkPass /\ spec[n].reach = trunkReach[n] BY <4>1 DEF Input
      <4>3. spec'[n] = Result(trunkPass, trunkReach[n]) BY <1>1, <1>3, <4>2
      <4> QED BY <1>5, <3>3, <4>3
    <3> QED BY <3>2, <3>3
  <2> QED BY <1>1, <2>1, <2>2, <2>3, <2>4 DEF Inv, JobsInv
<1> QED BY <1>6, <1>7, <1>8, <1>9, <1>10, <1>11 DEF Inv

-----------------------------------------------------------------------------
(* Theorems                                                                *)

LEMMA NextInv == Inv /\ [Next]_vars => Inv'
<1> SUFFICES ASSUME Inv, [Next]_vars PROVE Inv' OBVIOUS
<1>1. ASSUME NEW pass \in CFR \cup {"br", "quit"}, StartPass(pass) PROVE Inv' BY <1>1, StartPassInv
<1>2. CASE Visit BY <1>2, VisitInv
<1>3. ASSUME NEW n \in Nodes, UpdateRegrets(n) PROVE Inv' BY <1>3, UpdateRegretsInv
<1>4. CASE Wake BY <1>4, WakeInv
<1>5. CASE Generate BY <1>5, GenerateInv
<1>6. ASSUME NEW n \in Subgames, Take(n) PROVE Inv' BY <1>6, TakeInv
<1>7. ASSUME NEW n \in Subgames, Perform(n) PROVE Inv' BY <1>7, PerformInv
<1>8. CASE UNCHANGED vars
  <2>1. Types' BY <1>8 DEF Inv, Types, vars, main, trunk, work
  <2>2. FlagsInv' BY <1>8 DEF Inv, FlagsInv, vars, main, trunk
  <2>3. WalksInv' BY <1>8 DEF Inv, WalksInv, vars, main, trunk
  <2>4. WaitedInv' BY <1>8 DEF Inv, WaitedInv, vars, main, trunk
  <2>5. LagInv'
    BY <1>8 DEF Inv, LagInv, SamePass, TrunkDone, NoJobs, After, vars, main, trunk
  <2>6. JobsInv' BY <1>8 DEF Inv, JobsInv, Open, vars, main, trunk, work
  <2> QED BY <2>1, <2>2, <2>3, <2>4, <2>5, <2>6 DEF Inv
<1> QED BY <1>1, <1>2, <1>3, <1>4, <1>5, <1>6, <1>7, <1>8
    DEF Next, MainRuns, TrunkRuns, WorkerRuns, Ended

LEMMA Invariant == Spec => []Inv
<1> QED BY InitInv, NextInv, PTL DEF Spec

(* Every variable keeps its type; the semaphore between main and the trunk *)
(* thread never counts more than two passes, and no subgame has more than  *)
(* one report outstanding.                                                 *)
THEOREM TypeCorrect == Spec => []TypeOK
<1>1. Inv => TypeOK
  <2> SUFFICES ASSUME Inv PROVE TypeOK OBVIOUS
  <2>1. 1 .. End \subseteq Nodes \cup {End}
    <3>1. End = Len(Tree) + 1 /\ Len(Tree) \in Nat BY NodeFacts DEF End
    <3> QED BY <3>1 DEF Nodes
  <2>2. \A n \in Choices : policy[n] \in [Dealt[n] -> (SUBSET Tree[n].kids) \ {{}}]
    BY DEF Inv, Types, PolicyOK
  <2>3. mainAt \in Nodes \cup {End} /\ trunkAt \in Nodes \cup {End} BY <2>1 DEF Inv, Types
  <2>4. mainReach \in [Nodes -> SUBSET Hands] /\ trunkReach \in [Nodes -> SUBSET Hands]
    BY DEF Inv, Types, Reaches
  <2>5. mainPass \in CFR \cup {"idle", "br", "quit"} /\ trunkPass \in CFR \cup {"wait", "br", "gone"}
    BY DEF Inv, Types, Walking
  <2>6. /\ iterSem \in 0 .. 2 /\ runBR \in BOOLEAN /\ quit \in BOOLEAN /\ updated \subseteq Choices
        /\ pending \subseteq Subgames /\ running \subseteq Subgames /\ finished \in [Subgames -> 0 .. 1]
    BY DEF Inv, Types
  <2> QED BY <2>2, <2>3, <2>4, <2>5, <2>6 DEF TypeOK
<1> QED BY <1>1, Invariant, PTL

(* Whatever job main finds reported at a subgame, its result is that of    *)
(* main's own pass, for the opponent hands with which main comes there.    *)
THEOREM ResultsAreOwn == Spec => []GetsOwnResult
<1>1. Inv => GetsOwnResult
  <2> SUFFICES ASSUME Inv, mainAt \in Subgames, finished[mainAt] > 0
               PROVE  spec[mainAt] = Result(mainPass, mainReach[mainAt])
    BY DEF GetsOwnResult
  <2>1. mainAt \in Nodes /\ mainAt \in Nat /\ mainAt <= mainAt BY NodeFacts
  <2>2. /\ iterSem = 0 /\ mainPass \in Walking /\ mainAt < trunkAt
        /\ spec[mainAt] = Result(trunkPass, trunkReach[mainAt])
    BY DEF Inv, JobsInv, Open
  <2>3. mainAt <= trunkAt
    <3>1. trunkAt \in Nat BY NodeFacts DEF Inv, Types
    <3> QED BY <2>1, <2>2, <3>1
  <2>4. trunkPass = mainPass /\ mainReach[mainAt] = trunkReach[mainAt]
    BY <2>1, <2>2, <2>3, SameReach
  <2> QED BY <2>2, <2>4
<1> QED BY <1>1, Invariant, PTL

(* The trunk thread submits jobs only in the pass that main is in and not  *)
(* behind it: the tail of a pass that main has left submits nothing.       *)
THEOREM SubmitsWithMain == Spec => []SubmitsInPass
<1>1. Inv => SubmitsInPass
  <2> SUFFICES ASSUME Inv, trunkAt \in Subgames, ~TrunkCuts(trunkAt)
               PROVE  trunkPass = mainPass /\ mainAt <= trunkAt
    BY DEF SubmitsInPass
  <2> QED BY Submitting
<1> QED BY <1>1, Invariant, PTL

(* Main changes regrets only while the trunk thread is in the same pass,   *)
(* in which the trunk thread reads the other player's.                     *)
THEOREM RegretsUpdatedInStep == Spec => UpdatesInStep
<1>1. Inv /\ [Next]_vars => [policy' # policy => trunkPass = mainPass]_vars
  <2> SUFFICES ASSUME Inv, Next, policy' # policy PROVE trunkPass = mainPass OBVIOUS
  <2>1. PICK n \in Nodes : UpdateRegrets(n)
    BY DEF Next, MainRuns, TrunkRuns, WorkerRuns, Ended, StartPass, Visit, Wake, Generate, Take,
           Perform, vars
  <2>2. Innermost(n) /\ mainReach[n] # {} BY <2>1 DEF UpdateRegrets
  <2> QED BY <2>2, Updating
<1> QED BY <1>1, Invariant, PTL DEF Spec, UpdatesInStep
=============================================================================
