--------------------------- MODULE ScratchPipeline ---------------------------
(***************************************************************************)
(* The job pipeline of a run with scratch storage on one machine.  The     *)
(* trunk thread submits subgames to the load queue; the loader takes a set *)
(* of compressed arrays from a pool, reads the subgame's files into it and *)
(* passes the subgame to the workers; a worker performs the job; after a   *)
(* CFR job the dumper writes the changed arrays back, returns the arrays   *)
(* to the pool and reports the job finished, after a best-response job the *)
(* worker itself reports and returns.  A checkpoint is a copy of the       *)
(* scratch files, made by main file by file; a process that resumes it     *)
(* copies them back by jobs of their own.  The four queues are taken as    *)
(* the bounded FIFO queues that WorkQueue shows them to be.                *)
(***************************************************************************)
EXTENDS Integers, Sequences, FiniteSets, Functions

CONSTANTS Subgames,
          Arrays,      \* g_scratchSpace: indices of the pool of arrays
          Workers,
          QueueSize,   \* length of the load, work and dump queues
          Schedule,    \* pairs <<pass, next pass>> of the iterations run
          NetworkCopies, \* how many subgames may be copied at once
          MayCut,      \* bound: the subgames that a CFR pass may skip
          Failing,     \* bound: the files <<subgame, part>> a save may fail to copy
          MaxRuns,     \* bound: processes, each resuming the one before
          None,
          Quit         \* the negative index that stops a thread

ASSUME SizesAssumption ==
  /\ QueueSize \in Nat \ {0} /\ NetworkCopies \in Nat \ {0} /\ MaxRuns \in Nat
  /\ IsFiniteSet(Arrays) /\ Arrays # {} /\ IsFiniteSet(Workers) /\ Workers # {}
ASSUME NamesAssumption == /\ {None, Quit} \cap (Subgames \cup Arrays) = {} /\ None # Quit
                          /\ {"loader", "dumper"} \cap Workers = {}

(* A CFR pass for player 1, one for player 0, a best-response pass, and    *)
(* loadValues, which has a job for every subgame, too.                     *)
Passes == {"cfr1", "cfr0", "br", "load"}

(* dumpValues; a process begins anew or resumes, and then it loads first.  *)
ASSUME ScheduleAssumption ==
  /\ Schedule \subseteq (Passes \cup {"start", "resumed", "save"}) \X (Passes \cup {"save", "quit"})
  /\ \A s \in Schedule : s[1] = "resumed" <=> s[2] = "load"

VARIABLES
  pass,        \* what main is running
  todo,        \* subgames the trunk thread has yet to submit in this pass
  jobs,        \* all subgames of this pass
  quits,       \* how many quit messages main has sent
  jobType,     \* SubgameSpec.jobType and player of each subgame
  finished,    \* SubgameSpec.finished, a semaphore
  loadQ, workQ, dumpQ, poolQ,  \* g_scratchLoad, g_work, g_scratchDump,
                               \* g_scratchIndices
  arraysIndex, \* VanillaStorage.arraysIndex of each subgame (and arrays,
               \* which is set and cleared with it)
  ram,         \* contents of each pool entry: part -> <<subgame, is current>>
  disk,        \* each subgame's scratch files: part -> state of the file
  pc, cur,     \* program point and subgame of loader, dumper and workers
  aborted,     \* an assert failed
  exited,      \* the process has given up with a message
  copySem,     \* g_networkCopySem
  saved,       \* the files of the last checkpoint, like disk, or None
  run          \* which process this is

control == <<pass, todo, jobs, quits>>
queues  == <<loadQ, workQ, dumpQ, poolQ>>
data    == <<ram, disk>>
threads == <<pc, cur>>
process == <<exited, copySem, saved, run>>
vars    == <<control, jobType, finished, queues, arraysIndex, data, threads, aborted, process>>

Loader  == "loader"
Dumper  == "dumper"
Threads == Workers \cup {Loader, Dumper}

(* The stored parts of a subgame: both players' regrets and averages.      *)
Parts == {"r0", "r1", "a0", "a1"}

(* The parts a job changes, which the dumper therefore writes.             *)
Changes(type) == CASE type = "cfr0" -> {"r0", "a1"}
                   [] type = "cfr1" -> {"r1", "a0"}
                   [] OTHER         -> {}

(* The parts a job reads, which the loader therefore reads from disk.      *)
Reads(type) == IF type = "br" THEN {"a0", "a1"} ELSE {"r0", "r1"} \cup Changes(type)

Discarded == [part \in Parts |-> None]

(* A file is missing, holds the latest values, holds others, ends early,   *)
(* or was that with the end of an older and longer one behind it.          *)
FileStates == {"none", "latest", "other", "short", "mixed"}
AllFiles(state) == [g \in Subgames |-> [part \in Parts |-> state]]

(* Without a file the values are zeros, which a process that began anew    *)
(* takes for its own.                                                      *)
IsLatest(file) == file = "latest" \/ (file = "none" /\ run = 1)

(* setUpGlobals, in a scratch directory without files. *)
Init ==
  /\ pass = "start" /\ todo = {} /\ jobs = {} /\ quits = 0
  /\ jobType = [g \in Subgames |-> None]
  /\ finished = [g \in Subgames |-> 0]
  /\ loadQ = <<>> /\ workQ = <<>> /\ dumpQ = <<>>
  /\ poolQ \in [1 .. Cardinality(Arrays) -> Arrays] /\ Range(poolQ) = Arrays
  /\ arraysIndex = [g \in Subgames |-> None]
  /\ ram = [a \in Arrays |-> Discarded]
  /\ disk = AllFiles("none")
  /\ pc = [t \in Threads |-> "wait"]
  /\ cur = [t \in Threads |-> None]
  /\ aborted = FALSE /\ exited = FALSE
  /\ copySem = NetworkCopies /\ saved = None /\ run = 1

Goto(t, point) == pc' = [pc EXCEPT ![t] = point]
Post(g) == finished' = [finished EXCEPT ![g] = @ + 1]
Abort == aborted' = TRUE

-----------------------------------------------------------------------------
(* Main and trunk thread *)

(* Faulty: main does not wait for the jobs. *)
AllReportedEarly == TRUE

(* sem_wait on `finished` of every subgame of the pass. *)
AllReported == \A g \in jobs : finished[g] > 0

(* Main has waited for `finished` of every job and starts the next pass.   *)
(* A CFR pass skips the subgames the opponent does not reach, the first of *)
(* all none: with regrets of zero every action is played.                  *)
StartPass(next) ==
  /\ <<pass, next>> \in Schedule /\ next # "save"
  /\ todo = {} /\ AllReported
  /\ finished' = [g \in Subgames |-> IF g \in jobs THEN finished[g] - 1
                                                   ELSE finished[g]]
  /\ jobs' \in IF next = "quit" THEN {{}} ELSE {Subgames \ cuts : cuts \in SUBSET MayCut}
  /\ pass = "start" => jobs' = Subgames
  /\ next \in {"br", "load"} => jobs' = Subgames
  /\ todo' = jobs'
  /\ pass' = next
  /\ UNCHANGED <<quits, jobType, queues, arraysIndex, data, threads, aborted, process>>

(* generateWork_r / generateBR_r at a subgame. *)
Submit(g) ==
  /\ pass # "load" /\ g \in todo /\ Len(loadQ) < QueueSize
  /\ jobType' = [jobType EXCEPT ![g] = pass]
  /\ loadQ' = Append(loadQ, g)
  /\ todo' = todo \ {g}
  /\ UNCHANGED <<pass, jobs, quits, finished, workQ, dumpQ, poolQ, arraysIndex,
                 data, threads, aborted, process>>

(* loadValues: main gives the workers a job for every subgame, but only    *)
(* some at once.                                                           *)
SubmitLoad(g) ==
  /\ pass = "load" /\ g \in todo /\ copySem > 0 /\ Len(workQ) < QueueSize
  /\ jobType' = [jobType EXCEPT ![g] = pass]
  /\ workQ' = Append(workQ, g)
  /\ todo' = todo \ {g}
  /\ copySem' = copySem - 1
  /\ UNCHANGED <<pass, jobs, quits, finished, loadQ, dumpQ, poolQ, arraysIndex,
                 data, threads, aborted, exited, saved, run>>

ASSUME FailingAssumption == Failing \subseteq Subgames \X Parts

(* A copy may fail: the file is not there or ends early. *)
CopiesOf(files) ==
  {files} \cup UNION {{[files EXCEPT ![f[1]][f[2]] = bad] : bad \in {"none", "short"}} :
                        f \in {x \in Failing : files[x[1]][x[2]] # "none"}}

(* dumpValues copies the scratch files of all subgames.  It reports a copy *)
(* that fails and goes on.  (Bound: the last process saves nothing.)       *)
Save ==
  /\ <<pass, "save">> \in Schedule /\ run < MaxRuns
  /\ todo = {} /\ AllReported
  /\ saved' \in CopiesOf(disk)
  /\ finished' = [g \in Subgames |-> IF g \in jobs THEN finished[g] - 1 ELSE finished[g]]
  /\ jobs' = {}
  /\ pass' = "save"
  /\ UNCHANGED <<todo, quits, jobType, queues, arraysIndex, data, threads, aborted,
                 exited, copySem, run>>

(* Faulty: the last worker gets no quit message. *)
WorkerQuitsShort == Cardinality(Workers) - 1

WorkerQuits == Cardinality(Workers)

(* The end of main: a quit message for every worker; when they are joined, *)
(* one for the loader and one for the dumper.                              *)
Stop ==
  LET workersStopped == \A w \in Workers : pc[w] = "gone"
      n == WorkerQuits
  IN /\ pass = "quit"
     /\ \/ /\ quits < n /\ Len(workQ) < QueueSize
           /\ workQ' = Append(workQ, Quit)
           /\ UNCHANGED <<loadQ, dumpQ>>
        \/ /\ quits = n /\ workersStopped /\ Len(loadQ) < QueueSize
           /\ loadQ' = Append(loadQ, Quit)
           /\ UNCHANGED <<workQ, dumpQ>>
        \/ /\ quits = n + 1 /\ Len(dumpQ) < QueueSize
           /\ dumpQ' = Append(dumpQ, Quit)
           /\ UNCHANGED <<workQ, loadQ>>
     /\ quits' = quits + 1
     /\ UNCHANGED <<pass, todo, jobs, jobType, finished, poolQ, arraysIndex,
                    data, threads, aborted, process>>

-----------------------------------------------------------------------------
(* scratchLoaderThreadMain *)

(* A subgame is taken, and its asserts must find no arrays in use.         *)
LoaderTake ==
  /\ pc[Loader] = "wait" /\ loadQ # <<>>
  /\ loadQ' = Tail(loadQ)
  /\ cur' = [cur EXCEPT ![Loader] = Head(loadQ)]
  /\ Goto(Loader, IF Head(loadQ) = Quit THEN "gone" ELSE "check")
  /\ UNCHANGED <<control, jobType, finished, workQ, dumpQ, poolQ, arraysIndex,
                 data, aborted, process>>

LoaderCheck ==
  /\ pc[Loader] = "check"
  /\ IF arraysIndex[cur[Loader]] = None THEN Goto(Loader, "grab") /\ UNCHANGED aborted
                                        ELSE Abort /\ UNCHANGED pc
  /\ UNCHANGED <<control, jobType, finished, queues, arraysIndex, data, cur, process>>

(* Arrays from the pool, whose earlier contents are discarded. *)
Grab ==
  /\ pc[Loader] = "grab" /\ poolQ # <<>>
  /\ poolQ' = Tail(poolQ)
  /\ arraysIndex' = [arraysIndex EXCEPT ![cur[Loader]] = Head(poolQ)]
  /\ ram' = [ram EXCEPT ![Head(poolQ)] = Discarded]
  /\ Goto(Loader, "load")
  /\ UNCHANGED <<control, jobType, finished, loadQ, workQ, dumpQ, disk, cur, aborted, process>>

(* Faulty: the average strategy is not loaded. *)
LoadsRegretsOnly(type) == {"r0", "r1"}

(* The loader opens the files of the parts that the job reads. *)
Loads(type) == Reads(type)

(* loadSubgameFromScratch: a file that ends early ends the process. *)
Load ==
  /\ pc[Loader] = "load"
  /\ LET g == cur[Loader]
         parts == Loads(jobType[g])
     IN IF \E part \in parts : disk[g][part] = "short"
        THEN exited' = TRUE /\ UNCHANGED <<ram, pc>>
        ELSE /\ ram' = [ram EXCEPT ![arraysIndex[g]] =
                  [part \in Parts |-> IF part \in parts
                                      THEN <<g, IsLatest(disk[g][part])>> ELSE @[part]]]
             /\ Goto(Loader, "enqueue") /\ UNCHANGED exited
  /\ UNCHANGED <<control, jobType, finished, queues, arraysIndex, disk, cur, aborted,
                 copySem, saved, run>>

Enqueue ==
  /\ pc[Loader] = "enqueue" /\ Len(workQ) < QueueSize
  /\ workQ' = Append(workQ, cur[Loader])
  /\ cur' = [cur EXCEPT ![Loader] = None]
  /\ Goto(Loader, "wait")
  /\ UNCHANGED <<control, jobType, finished, loadQ, dumpQ, poolQ, arraysIndex,
                 data, aborted, process>>

-----------------------------------------------------------------------------
(* workerThreadMain and workerHandleJob *)

WorkerTake(w) ==
  /\ pc[w] = "wait" /\ workQ # <<>>
  /\ workQ' = Tail(workQ)
  /\ cur' = [cur EXCEPT ![w] = Head(workQ)]
  /\ Goto(w, CASE Head(workQ) = Quit -> "gone"
                [] Head(workQ) # Quit /\ jobType[Head(workQ)] = "load" -> "copy"
                [] OTHER -> "perform")
  /\ UNCHANGED <<control, jobType, finished, loadQ, dumpQ, poolQ, arraysIndex,
                 data, aborted, process>>

(* assert( storage->arrays != NULL ), and the job itself. *)
Perform(w) ==
  LET g == cur[w]
      changed == Changes(jobType[g])
  IN /\ pc[w] = "perform"
     /\ IF arraysIndex[g] = None THEN Abort /\ UNCHANGED <<data, pc>>
        ELSE /\ ram' = [ram EXCEPT ![arraysIndex[g]] =
                          [part \in Parts |-> IF part \in changed
                                              THEN <<g, TRUE>> ELSE @[part]]]
             /\ disk' = [disk EXCEPT ![g] =
                          [part \in Parts |-> IF part \in changed THEN "other" ELSE @[part]]]
             /\ Goto(w, IF jobType[g] = "br" THEN "report" ELSE "toDump")
             /\ UNCHANGED aborted
     /\ UNCHANGED <<control, jobType, finished, queues, arraysIndex, cur, process>>

(* Faulty: the worker reports a job that is still to be dumped. *)
ToDumpReports(w) ==
  /\ pc[w] = "toDump" /\ Len(dumpQ) < QueueSize
  /\ dumpQ' = Append(dumpQ, cur[w])
  /\ Post(cur[w])
  /\ cur' = [cur EXCEPT ![w] = None]
  /\ Goto(w, "wait")
  /\ UNCHANGED <<control, jobType, loadQ, workQ, poolQ, arraysIndex, data, aborted, process>>

(* A CFR job goes to the dumper. *)
ToDump(w) ==
  /\ pc[w] = "toDump" /\ Len(dumpQ) < QueueSize
  /\ dumpQ' = Append(dumpQ, cur[w])
  /\ cur' = [cur EXCEPT ![w] = None]
  /\ Goto(w, "wait")
  /\ UNCHANGED <<control, jobType, finished, loadQ, workQ, poolQ, arraysIndex,
                 data, aborted, process>>

(* Faulty: the arrays of a best-response job are not returned. *)
ReportBRKeepsArrays(w) ==
  /\ pc[w] = "report"
  /\ Post(cur[w])
  /\ Goto(w, "clear")
  /\ UNCHANGED <<control, jobType, queues, arraysIndex, data, cur, aborted, process>>

(* After a best-response job the worker reports first, *)
ReportBR(w) ==
  /\ pc[w] = "report"
  /\ Post(cur[w])
  /\ Goto(w, "return")
  /\ UNCHANGED <<control, jobType, queues, arraysIndex, data, cur, aborted, process>>

(* then it, like the dumper, returns the arrays to the pool, *)
ReturnArrays(t) ==
  /\ pc[t] = "return" /\ Len(poolQ) < Cardinality(Arrays)
  /\ poolQ' = Append(poolQ, arraysIndex[cur[t]])
  /\ Goto(t, "clear")
  /\ UNCHANGED <<control, jobType, finished, loadQ, workQ, dumpQ, arraysIndex,
                 data, cur, aborted, process>>

(* and only then forgets them; the dumper has still to report.             *)
ClearArrays(t) ==
  /\ pc[t] = "clear"
  /\ arraysIndex' = [arraysIndex EXCEPT ![cur[t]] = None]
  /\ IF t = Dumper THEN Goto(t, "report") /\ UNCHANGED cur
                   ELSE Goto(t, "wait") /\ cur' = [cur EXCEPT ![t] = None]
  /\ UNCHANGED <<control, jobType, finished, queues, data, aborted, process>>

(* Faulty: a copy that fails is only reported, as in dumpValues. *)
CopyFailsReported(g) == FALSE

(* The file to be copied is missing. *)
CopyFails(g) == saved = None \/ \E part \in Parts : saved[g][part] = "none"

(* LOAD_JOB: a subgame's files are copied from the checkpoint to the       *)
(* scratch directory; a copy that fails ends the process.  copyfile does   *)
(* not truncate: what a shorter file leaves of an older one stays behind.  *)
CopyFiles(w) ==
  /\ pc[w] = "copy"
  /\ LET g == cur[w]
     IN IF CopyFails(g) THEN exited' = TRUE /\ UNCHANGED <<disk, pc>>
        ELSE /\ disk' = [disk EXCEPT ![g] = [part \in Parts |->
                          IF saved = None \/ saved[g][part] = "none" THEN @[part]
                          ELSE IF saved[g][part] = "short" /\ @[part] # "none" THEN "mixed"
                          ELSE saved[g][part]]]
             /\ Goto(w, "reportLoad") /\ UNCHANGED exited
  /\ UNCHANGED <<control, jobType, finished, queues, arraysIndex, ram, cur, aborted,
                 copySem, saved, run>>

ReportLoad(w) ==
  /\ pc[w] = "reportLoad"
  /\ Post(cur[w])
  /\ copySem' = copySem + 1
  /\ cur' = [cur EXCEPT ![w] = None]
  /\ Goto(w, "wait")
  /\ UNCHANGED <<control, jobType, queues, arraysIndex, data, aborted, exited, saved, run>>

-----------------------------------------------------------------------------
(* scratchDumperThreadMain *)

DumperTake ==
  /\ pc[Dumper] = "wait" /\ dumpQ # <<>>
  /\ dumpQ' = Tail(dumpQ)
  /\ cur' = [cur EXCEPT ![Dumper] = Head(dumpQ)]
  /\ Goto(Dumper, IF Head(dumpQ) = Quit THEN "gone" ELSE "dump")
  /\ UNCHANGED <<control, jobType, finished, loadQ, workQ, poolQ, arraysIndex,
                 data, aborted, process>>

(* Its asserts, and dumpSubgameToScratch. *)
Dump ==
  LET g == cur[Dumper]
      written == Changes(jobType[g])
  IN /\ pc[Dumper] = "dump"
     /\ IF arraysIndex[g] = None \/ jobType[g] = "br"
        THEN Abort /\ UNCHANGED <<disk, pc>>
        ELSE /\ disk' = [disk EXCEPT ![g] = [part \in Parts |->
                          IF part \notin written THEN @[part]
                          ELSE IF ram[arraysIndex[g]][part] = <<g, TRUE>> THEN "latest"
                          ELSE "other"]]
             /\ Goto(Dumper, "return")
             /\ UNCHANGED aborted
     /\ UNCHANGED <<control, jobType, finished, queues, arraysIndex, ram, cur, process>>

ReportCFR ==
  /\ pc[Dumper] = "report"
  /\ Post(cur[Dumper])
  /\ cur' = [cur EXCEPT ![Dumper] = None]
  /\ Goto(Dumper, "wait")
  /\ UNCHANGED <<control, jobType, queues, arraysIndex, data, aborted, process>>

-----------------------------------------------------------------------------
AllGone == pass = "quit" /\ \A t \in Threads : pc[t] = "gone"

(* The process has ended by itself, or is killed somewhere; another one    *)
(* resumes the checkpoint, with the same scratch directory or another.     *)
Resume ==
  /\ run < MaxRuns /\ saved # None
  /\ run' = run + 1
  /\ disk' \in {AllFiles("none"),
                [g \in Subgames |-> [part \in Parts |->
                   IF disk[g][part] = "none" THEN "none" ELSE "other"]]}
  /\ pass' = "resumed" /\ todo' = {} /\ jobs' = {} /\ quits' = 0
  /\ jobType' = [g \in Subgames |-> None]
  /\ finished' = [g \in Subgames |-> 0]
  /\ loadQ' = <<>> /\ workQ' = <<>> /\ dumpQ' = <<>>
  /\ poolQ' \in [1 .. Cardinality(Arrays) -> Arrays] /\ Range(poolQ') = Arrays
  /\ arraysIndex' = [g \in Subgames |-> None]
  /\ ram' = [a \in Arrays |-> Discarded]
  /\ pc' = [t \in Threads |-> "wait"]
  /\ cur' = [t \in Threads |-> None]
  /\ aborted' = FALSE /\ exited' = FALSE
  /\ copySem' = NetworkCopies
  /\ UNCHANGED saved

(* The program has ended; main is past pthread_join. *)
Ended == (AllGone \/ exited) /\ UNCHANGED vars

(* A failed assert and exit end the process. *)
Up    == ~aborted /\ ~exited
Trunk == Up /\ \E g \in Subgames : Submit(g)
Main  == Up /\ (Stop \/ Save \/ (\E g \in Subgames : SubmitLoad(g))
               \/ \E next \in Passes \cup {"quit"} : StartPass(next))
LoaderRun    == Up /\ (LoaderTake \/ LoaderCheck \/ Grab \/ Load \/ Enqueue)
WorkerRun(w) == Up /\ (WorkerTake(w) \/ Perform(w) \/ ToDump(w) \/ ReportBR(w)
                       \/ ReturnArrays(w) \/ ClearArrays(w) \/ CopyFiles(w) \/ ReportLoad(w))
DumperRun    == Up /\ (DumperTake \/ Dump \/ ReturnArrays(Dumper)
                       \/ ClearArrays(Dumper) \/ ReportCFR)

Next == Trunk \/ Main \/ LoaderRun \/ DumperRun \/ (\E w \in Workers : WorkerRun(w))
        \/ Resume \/ Ended

Spec == Init /\ [][Next]_vars

(* Every thread that can step is scheduled; no semaphore of the pipeline   *)
(* starves a waiter for ever, since a pass has finitely many jobs.         *)
FairSpec == /\ Spec
            /\ WF_vars(Trunk) /\ WF_vars(Main)
            /\ WF_vars(LoaderRun) /\ WF_vars(DumperRun)
            /\ \A w \in Workers : WF_vars(WorkerRun(w))

-----------------------------------------------------------------------------
(* Properties *)

TypeOK ==
  /\ pass \in Passes \cup {"start", "resumed", "save", "quit"}
  /\ todo \subseteq jobs /\ jobs \subseteq Subgames
  /\ quits \in 0 .. Cardinality(Workers) + 2
  /\ jobType \in [Subgames -> Passes \cup {None}]
  /\ finished \in [Subgames -> Nat]
  /\ \A q \in {loadQ, workQ, dumpQ} :
       Len(q) <= QueueSize /\ Range(q) \subseteq Subgames \cup {Quit}
  /\ Range(poolQ) \subseteq Arrays
  /\ arraysIndex \in [Subgames -> Arrays \cup {None}]
  /\ ram \in [Arrays -> [Parts -> (Subgames \X BOOLEAN) \cup {None}]]
  /\ disk \in [Subgames -> [Parts -> FileStates]]
  /\ pc \in [Threads -> {"wait", "check", "grab", "load", "enqueue", "perform", "copy",
                         "toDump", "dump", "report", "reportLoad", "return", "clear", "gone"}]
  /\ cur \in [Threads -> Subgames \cup {None, Quit}]
  /\ aborted \in BOOLEAN /\ exited \in BOOLEAN
  /\ copySem \in 0 .. NetworkCopies
  /\ saved \in [Subgames -> [Parts -> FileStates]] \cup {None}
  /\ run \in Nat

(* Every set of arrays is in the pool once or used by one subgame, so two  *)
(* subgames never compress into the same arrays and none is lost           *)
(* (g_scratchIndices against VanillaStorage.arraysIndex; between returning *)
(* an index and clearing it the subgame no longer counts as a user).       *)
Users(a) == {g \in Subgames :
               /\ arraysIndex[g] = a
               /\ \A t \in Threads : ~(pc[t] = "clear" /\ cur[t] = g)}

PoolConserved ==
  \A a \in Arrays :
    Cardinality({i \in DOMAIN poolQ : poolQ[i] = a}) + Cardinality(Users(a)) = 1

(* The checkpoint's file ended early; the save reported it.                *)
Cut(g, part) == disk[g][part] \in {"short", "mixed"}

(* For as long as a worker performs a job, everything the job reads is in  *)
(* its arrays and is what the last job that changed it left, in this       *)
(* process or the one it resumes: nothing is reloaded before it was        *)
(* dumped, discarded early or left unloaded, and nothing that an earlier   *)
(* process left in the scratch directory is taken for the checkpoint's.    *)
(* Only a file can be that a save cut short, where an older was longer.    *)
JobsSeeLatest ==
  \A w \in Workers : pc[w] = "perform" =>
    LET g == cur[w]
    IN /\ arraysIndex[g] # None
       /\ \A part \in Reads(jobType[g]) :
            \/ ram[arraysIndex[g]][part] = <<g, TRUE>>
            \/ ram[arraysIndex[g]][part] = <<g, FALSE>> /\ Cut(g, part)

(* When main has the results of all jobs of a pass the scratch files hold  *)
(* the whole strategy: dumpValues, which copies them, saves no stale part, *)
(* and a resumed process that goes on has copied back all of the           *)
(* checkpoint.                                                             *)
FilesCurrent ==
  (pass # "resumed" /\ todo = {} /\ \A g \in jobs : finished[g] > 0) =>
    \A g \in Subgames, part \in Parts : IsLatest(disk[g][part]) \/ Cut(g, part)

(* No assert of the loader, the workers or the dumper fails: a subgame has *)
(* no arrays when it comes to the loader and has them afterwards.          *)
NoAbort == ~aborted

(* Loader, workers and dumper together are the job service: every subgame  *)
(* submitted in a pass is performed and reported exactly once, and the     *)
(* next pass begins only then.  Another process begins with no jobs.       *)
Pending == (Range(loadQ) \cup Range(workQ) \cup {cur[Loader]}) \cap Subgames
Running == (Range(dumpQ) \cup {cur[Dumper]}
            \cup {cur[w] : w \in {v \in Workers :
                                    pc[v] \in {"perform", "toDump", "report",
                                              "copy", "reportLoad"}}})
           \cap Subgames
Done    == {g \in Subgames : finished[g] > 0}

Service == INSTANCE JobService WITH Jobs <- Subgames, pending <- Pending,
                                    running <- Running, finished <- Done
ServesJobs == Service!Init /\ [][Service!Next \/ run' # run]_Service!vars

(* A pass ends: main, waiting for the jobs one by one, is never left       *)
(* waiting by a loader, worker or dumper that waits for another (a full    *)
(* queue, an empty pool).  And the shutdown at the end of main stops every *)
(* thread it joins.  No assert fails, which would leave all of them; but a *)
(* file that cannot be copied or read may end the process.                 *)
PassesEnd ==
  /\ (jobs # {}) ~> ((todo = {} /\ \A g \in jobs : finished[g] > 0) \/ exited)
  /\ (pass = "quit") ~> (AllGone \/ pass = "resumed")
=============================================================================
