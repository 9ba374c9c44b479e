------------------------- MODULE ScratchPipelineProofs -------------------------
(***************************************************************************)
(* For every number of subgames, sets of arrays, workers and processes,    *)
(* every length of the queues and every order of passes: no set of arrays  *)
(* is lost or used twice, jobs find what the last job left, checkpoints    *)
(* are current, and the threads implement the job service.                 *)
(***************************************************************************)
EXTENDS ScratchPipeline, FiniteSetTheorems, TLAPS

-----------------------------------------------------------------------------
(* Queues *)

(* Each element of T is at one place of a queue.                           *)
Once(q, T) == \A i, j \in DOMAIN q : q[i] = q[j] /\ q[i] \in T => i = j

LEMMA Appended ==
  ASSUME NEW S, NEW q \in Seq(S), NEW x \in S, NEW T
  PROVE  /\ Append(q, x) \in Seq(S)
         /\ Len(Append(q, x)) = Len(q) + 1
         /\ Range(Append(q, x)) = Range(q) \cup {x}
         /\ (Once(q, T) /\ (x \in T => x \notin Range(q))) => Once(Append(q, x), T)
<1>1. Append(q, x) \in Seq(S) /\ Len(Append(q, x)) = Len(q) + 1 OBVIOUS
<1>2. /\ DOMAIN Append(q, x) = 1 .. Len(q) + 1 /\ DOMAIN q = 1 .. Len(q) /\ Len(q) \in Nat
      /\ \A i \in 1 .. Len(q) : Append(q, x)[i] = q[i]
      /\ Append(q, x)[Len(q) + 1] = x
  OBVIOUS
<1>3. Range(Append(q, x)) = Range(q) \cup {x}
  <2>1. ASSUME NEW y \in Range(q) PROVE y \in Range(Append(q, x)) BY <1>2 DEF Range
  <2>2. x \in Range(Append(q, x)) BY <1>2 DEF Range
  <2>3. ASSUME NEW y \in Range(Append(q, x)) PROVE y \in Range(q) \cup {x}
    <3>1. PICK i \in 1 .. Len(q) + 1 : y = Append(q, x)[i] BY <1>2 DEF Range
    <3>2. CASE i = Len(q) + 1 BY <3>1, <3>2, <1>2
    <3>3. CASE i \in 1 .. Len(q) BY <3>1, <3>3, <1>2 DEF Range
    <3> QED BY <3>2, <3>3, <1>2
  <2> QED BY <2>1, <2>2, <2>3
<1>4. ASSUME Once(q, T), x \in T => x \notin Range(q) PROVE Once(Append(q, x), T)
  <2> SUFFICES ASSUME NEW i \in 1 .. Len(q) + 1, NEW j \in 1 .. Len(q) + 1,
                      Append(q, x)[i] = Append(q, x)[j], Append(q, x)[i] \in T
               PROVE  i = j
    BY <1>2 DEF Once
  <2>1. CASE i \in 1 .. Len(q) /\ j \in 1 .. Len(q) BY <1>2, <1>4, <2>1 DEF Once
  <2>2. \A k \in 1 .. Len(q) : q[k] \in Range(q) BY <1>2 DEF Range
  <2> QED BY <1>2, <1>4, <2>1, <2>2
<1> QED BY <1>1, <1>3, <1>4

LEMMA Taken ==
  ASSUME NEW S, NEW q \in Seq(S), q # <<>>, NEW T
  PROVE  /\ Tail(q) \in Seq(S) /\ Head(q) \in S
         /\ Len(Tail(q)) = Len(q) - 1 /\ Len(q) \in Nat
         /\ Range(q) = Range(Tail(q)) \cup {Head(q)}
         /\ Once(q, T) => /\ Once(Tail(q), T)
                          /\ Head(q) \in T => Head(q) \notin Range(Tail(q))
<1>1. Tail(q) \in Seq(S) /\ Head(q) \in S /\ Len(Tail(q)) = Len(q) - 1 /\ Len(q) \in Nat \ {0}
  OBVIOUS
<1>2. /\ DOMAIN q = 1 .. Len(q) /\ DOMAIN Tail(q) = 1 .. Len(q) - 1
      /\ \A i \in 1 .. Len(q) - 1 : Tail(q)[i] = q[i + 1]
      /\ Head(q) = q[1]
  BY <1>1
<1>3. Range(q) = Range(Tail(q)) \cup {Head(q)}
  <2>1. ASSUME NEW y \in Range(Tail(q)) PROVE y \in Range(q)
    <3>1. PICK i \in 1 .. Len(q) - 1 : y = q[i + 1] BY <1>2 DEF Range
    <3>2. i + 1 \in 1 .. Len(q) BY <1>1
    <3> QED BY <3>1, <3>2, <1>2 DEF Range
  <2>2. Head(q) \in Range(q) BY <1>1, <1>2 DEF Range
  <2>3. ASSUME NEW y \in Range(q), y # Head(q) PROVE y \in Range(Tail(q))
    <3>1. PICK i \in 1 .. Len(q) : y = q[i] BY <1>2 DEF Range
    <3>2. i - 1 \in 1 .. Len(q) - 1 BY <1>1, <1>2, <3>1, <2>3
    <3>3. Tail(q)[i - 1] = y BY <1>1, <1>2, <3>1, <3>2
    <3> QED BY <1>2, <3>2, <3>3 DEF Range
  <2> QED BY <2>1, <2>2, <2>3
<1>4. ASSUME Once(q, T)
      PROVE  Once(Tail(q), T) /\ (Head(q) \in T => Head(q) \notin Range(Tail(q)))
  <2>1. \A i \in 1 .. Len(q) - 1 : i + 1 \in 1 .. Len(q) /\ i + 1 # 1 BY <1>1
  <2>2. 1 \in 1 .. Len(q) BY <1>1
  <2>3. Once(Tail(q), T) BY <1>1, <1>2, <1>4, <2>1 DEF Once
  <2>4. Head(q) \in T => Head(q) \notin Range(Tail(q))
    BY <1>2, <1>4, <2>1, <2>2 DEF Once, Range
  <2> QED BY <2>3, <2>4
<1> QED BY <1>1, <1>3, <1>4

-----------------------------------------------------------------------------
(* Types *)

Points == {"wait", "check", "grab", "load", "enqueue", "perform", "copy", "toDump", "dump",
           "report", "reportLoad", "return", "clear", "gone"}
LoaderPoints == {"wait", "check", "grab", "load", "enqueue", "gone"}
WorkerPoints == {"wait", "perform", "toDump", "report", "return", "clear", "copy",
                 "reportLoad", "gone"}
DumperPoints == {"wait", "dump", "return", "clear", "report", "gone"}

ControlType ==
  /\ pass \in Passes \cup {"start", "resumed", "save", "quit"}
  /\ todo \subseteq jobs /\ jobs \subseteq Subgames
  /\ pass \notin Passes => jobs = {}
  /\ quits \in 0 .. Cardinality(Workers) + 2
  /\ jobType \in [Subgames -> Passes \cup {None}]
  /\ finished \in [Subgames -> Nat]

IsQueue(q) == q \in Seq(Subgames \cup {Quit}) /\ Len(q) <= QueueSize

QueuesType == IsQueue(loadQ) /\ IsQueue(workQ) /\ IsQueue(dumpQ)

DataType ==
  /\ arraysIndex \in [Subgames -> Arrays \cup {None}]
  /\ ram \in [Arrays -> [Parts -> (Subgames \X BOOLEAN) \cup {None}]]
  /\ disk \in [Subgames -> [Parts -> FileStates]]
  /\ saved \in [Subgames -> [Parts -> FileStates]] \cup {None}

FlagsType == aborted \in BOOLEAN /\ exited \in BOOLEAN /\ copySem \in Int /\ run \in Nat

ThreadsType ==
  /\ pc \in [Threads -> Points] /\ cur \in [Threads -> Subgames \cup {None, Quit}]
  /\ \A t \in Threads : /\ cur[t] = None <=> pc[t] = "wait"
                        /\ cur[t] = Quit <=> pc[t] = "gone"
  /\ pc[Loader] \in LoaderPoints /\ pc[Dumper] \in DumperPoints
  /\ \A w \in Workers : pc[w] \in WorkerPoints

Types == ControlType /\ QueuesType /\ DataType /\ FlagsType /\ ThreadsType

LEMMA JobAppended ==
  ASSUME NEW q, IsQueue(q), Once(q, Subgames), NEW x \in Subgames \cup {Quit},
         x \in Subgames => x \notin Range(q)
  PROVE  Range(Append(q, x)) = Range(q) \cup {x} /\ Once(Append(q, x), Subgames)
BY Appended DEF IsQueue

LEMMA JobTaken ==
  ASSUME NEW q, IsQueue(q), Once(q, Subgames), q # <<>>
  PROVE  /\ Head(q) \in Subgames \cup {Quit}
         /\ Range(q) = Range(Tail(q)) \cup {Head(q)} /\ Once(Tail(q), Subgames)
         /\ Head(q) \in Subgames => Head(q) \notin Range(Tail(q))
BY Taken DEF IsQueue

LEMMA ThreadNames ==
  /\ Loader \in Threads /\ Dumper \in Threads /\ Loader # Dumper
  /\ \A w \in Workers : w \in Threads /\ w # Loader /\ w # Dumper
  /\ \A t \in Threads : t \in Workers \/ t = Loader \/ t = Dumper
  /\ \A g \in Subgames : g # None /\ g # Quit
  /\ \A a \in Arrays : a # None
  /\ None # Quit
BY NamesAssumption DEF Threads, Loader, Dumper

LEMMA Numbers ==
  /\ QueueSize \in Nat \ {0} /\ NetworkCopies \in Nat /\ Cardinality(Workers) \in Nat
  /\ NetworkCopies > 0
BY SizesAssumption, FS_CardinalityType

LEMMA InitTypes == Init => Types
<1> SUFFICES ASSUME Init PROVE Types OBVIOUS
<1> USE ThreadNames, Numbers DEF Init
<1>1. ControlType BY DEF ControlType
<1>2. QueuesType
  <2>1. <<>> \in Seq(Subgames \cup {Quit}) /\ Len(<<>>) = 0 OBVIOUS
  <2> QED BY <2>1 DEF QueuesType, IsQueue
<1>3. DataType
  <2>1. Discarded \in [Parts -> (Subgames \X BOOLEAN) \cup {None}] BY DEF Discarded
  <2>2. ram \in [Arrays -> [Parts -> (Subgames \X BOOLEAN) \cup {None}]] BY <2>1
  <2>3. disk \in [Subgames -> [Parts -> FileStates]] BY DEF AllFiles, FileStates
  <2>4. arraysIndex \in [Subgames -> Arrays \cup {None}] /\ saved = None OBVIOUS
  <2> QED BY <2>2, <2>3, <2>4 DEF DataType
<1>4. FlagsType
  <2>1. aborted \in BOOLEAN /\ exited \in BOOLEAN OBVIOUS
  <2>2. copySem \in Int /\ run \in Nat OBVIOUS
  <2> QED BY <2>1, <2>2 DEF FlagsType
<1>5. ThreadsType BY DEF ThreadsType, Points, LoaderPoints, WorkerPoints, DumperPoints
<1> QED BY <1>1, <1>2, <1>3, <1>4, <1>5 DEF Types

(* What an action of main, of a thread or a new process may be.            *)
LEMMA Steps ==
  ASSUME [Next]_vars
  PROVE  \/ \E g \in Subgames : Up /\ (Submit(g) \/ SubmitLoad(g))
         \/ Up /\ (Stop \/ Save)
         \/ \E next \in Passes \cup {"quit"} : Up /\ StartPass(next)
         \/ Up /\ (LoaderTake \/ LoaderCheck \/ Grab \/ Load \/ Enqueue)
         \/ \E w \in Workers : Up /\ (WorkerTake(w) \/ Perform(w) \/ ToDump(w) \/ ReportBR(w)
                                      \/ CopyFiles(w) \/ ReportLoad(w))
         \/ \E t \in Workers \cup {Dumper} : Up /\ (ReturnArrays(t) \/ ClearArrays(t))
         \/ Up /\ (DumperTake \/ Dump \/ ReportCFR)
         \/ Resume \/ UNCHANGED vars
BY DEF Next, Trunk, Main, LoaderRun, WorkerRun, DumperRun, Ended

LEMMA ControlStep == Types /\ [Next]_vars => ControlType'
<1> SUFFICES ASSUME Types, [Next]_vars PROVE ControlType' OBVIOUS
<1> USE ThreadNames, Numbers DEF Types, ControlType
<1>1. ASSUME NEW g \in Subgames, Submit(g) \/ SubmitLoad(g) PROVE ControlType'
  BY <1>1 DEF Submit, SubmitLoad
<1>2. CASE Stop
  <2>1. quits' \in 0 .. Cardinality(Workers) + 2 BY <1>2 DEF Stop, WorkerQuits
  <2> QED BY <1>2, <2>1 DEF Stop
<1>3. CASE Save
  <2>1. finished' \in [Subgames -> Nat] BY <1>3 DEF Save, AllReported
  <2> QED BY <1>3, <2>1 DEF Save
<1>4. ASSUME NEW next \in Passes \cup {"quit"}, StartPass(next) PROVE ControlType'
  <2>1. finished' \in [Subgames -> Nat] BY <1>4 DEF StartPass, AllReported
  <2>2. jobs' \subseteq Subgames BY <1>4 DEF StartPass
  <2> QED BY <1>4, <2>1, <2>2 DEF StartPass
<1>5. CASE LoaderTake \/ LoaderCheck \/ Grab \/ Load \/ Enqueue
  BY <1>5 DEF LoaderTake, LoaderCheck, Grab, Load, Enqueue, control
<1>6. ASSUME NEW w \in Workers, WorkerTake(w) \/ Perform(w) \/ ToDump(w) \/ CopyFiles(w)
      PROVE  ControlType'
  BY <1>6 DEF WorkerTake, Perform, ToDump, CopyFiles, control
<1>7. ASSUME NEW t \in Workers \cup {Dumper}, ReturnArrays(t) \/ ClearArrays(t)
      PROVE  ControlType'
  BY <1>7 DEF ReturnArrays, ClearArrays, control
<1>8. ASSUME NEW g \in Subgames, Post(g) PROVE finished' \in [Subgames -> Nat]
  BY <1>8 DEF Post
<1>9. ASSUME NEW w \in Workers, ReportBR(w) \/ ReportLoad(w) PROVE ControlType'
  <2>1. cur[w] \in Subgames
    BY <1>9 DEF ThreadsType, ReportBR, ReportLoad
  <2>2. finished' \in [Subgames -> Nat] BY <1>9, <2>1, <1>8 DEF ReportBR, ReportLoad
  <2> QED BY <1>9, <2>2 DEF ReportBR, ReportLoad, control
<1>10. CASE ReportCFR
  <2>1. cur[Dumper] \in Subgames BY <1>10 DEF ThreadsType, ReportCFR
  <2>2. finished' \in [Subgames -> Nat] BY <1>10, <2>1, <1>8 DEF ReportCFR
  <2> QED BY <1>10, <2>2 DEF ReportCFR, control
<1>11. CASE DumperTake \/ Dump BY <1>11 DEF DumperTake, Dump, control
<1>12. CASE Resume BY <1>12 DEF Resume
<1>13. CASE UNCHANGED vars BY <1>13 DEF vars, control
<1> QED BY Steps, <1>1, <1>2, <1>3, <1>4, <1>5, <1>6, <1>7, <1>9, <1>10, <1>11, <1>12, <1>13

LEMMA QueuesStep == Types /\ [Next]_vars => QueuesType'
<1> SUFFICES ASSUME Types, [Next]_vars PROVE QueuesType' OBVIOUS
<1> USE ThreadNames, Numbers DEF Types, QueuesType
<1> DEFINE S == Subgames \cup {Quit}
<1>0. ASSUME NEW q, IsQueue(q)
      PROVE  /\ \A x \in S : Len(q) < QueueSize => IsQueue(Append(q, x))
             /\ q # <<>> => IsQueue(Tail(q))
  <2>1. ASSUME NEW x \in S, Len(q) < QueueSize PROVE IsQueue(Append(q, x))
    BY <1>0, <2>1, Appended DEF IsQueue
  <2>2. ASSUME q # <<>> PROVE IsQueue(Tail(q)) BY <1>0, <2>2, Taken DEF IsQueue
  <2> QED BY <2>1, <2>2
<1>1. ASSUME NEW g \in Subgames, Submit(g) \/ SubmitLoad(g) PROVE QueuesType'
  <2>1. CASE Submit(g) BY <2>1, <1>0 DEF Submit
  <2>2. CASE SubmitLoad(g) BY <2>2, <1>0 DEF SubmitLoad
  <2> QED BY <1>1, <2>1, <2>2
<1>2. CASE Stop BY <1>2, <1>0 DEF Stop
<1>3. CASE Save BY <1>3 DEF Save, queues
<1>4. ASSUME NEW next \in Passes \cup {"quit"}, StartPass(next) PROVE QueuesType'
  BY <1>4 DEF StartPass, queues
<1>5. CASE LoaderTake BY <1>5, <1>0 DEF LoaderTake
<1>6. CASE LoaderCheck \/ Load BY <1>6 DEF LoaderCheck, Load, queues
<1>7. CASE Grab BY <1>7 DEF Grab
<1>8. CASE Enqueue
  <2>1. cur[Loader] \in Subgames BY <1>8 DEF ThreadsType, Enqueue
  <2> QED BY <1>8, <2>1, <1>0 DEF Enqueue
<1>9. ASSUME NEW w \in Workers, WorkerTake(w) PROVE QueuesType' BY <1>9, <1>0 DEF WorkerTake
<1>10. ASSUME NEW w \in Workers, Perform(w) \/ ReportBR(w) \/ CopyFiles(w) \/ ReportLoad(w)
       PROVE  QueuesType'
  BY <1>10 DEF Perform, ReportBR, CopyFiles, ReportLoad, queues
<1>11. ASSUME NEW w \in Workers, ToDump(w) PROVE QueuesType'
  <2>1. cur[w] \in Subgames BY <1>11 DEF ThreadsType, ToDump
  <2> QED BY <1>11, <2>1, <1>0 DEF ToDump
<1>12. ASSUME NEW t \in Workers \cup {Dumper}, ReturnArrays(t) \/ ClearArrays(t)
       PROVE  QueuesType'
  BY <1>12 DEF ReturnArrays, ClearArrays, queues
<1>13. CASE DumperTake BY <1>13, <1>0 DEF DumperTake
<1>14. CASE Dump \/ ReportCFR BY <1>14 DEF Dump, ReportCFR, queues
<1>15. CASE Resume
  <2>1. <<>> \in Seq(S) /\ Len(<<>>) = 0 OBVIOUS
  <2> QED BY <1>15, <2>1 DEF Resume, IsQueue
<1>16. CASE UNCHANGED vars BY <1>16 DEF vars, queues
<1> QED BY Steps, <1>1, <1>2, <1>3, <1>4, <1>5, <1>6, <1>7, <1>8, <1>9, <1>10, <1>11, <1>12,
          <1>13, <1>14, <1>15, <1>16

LEMMA DataStep == Types /\ [Next]_vars /\ poolQ \in Seq(Arrays) => DataType'
<1> SUFFICES ASSUME Types, [Next]_vars, poolQ \in Seq(Arrays) PROVE DataType' OBVIOUS
<1> USE ThreadNames DEF Types, DataType
<1> DEFINE Entries == [Parts -> (Subgames \X BOOLEAN) \cup {None}]
           Files   == [Parts -> FileStates]
<1>1. ASSUME NEW g \in Subgames, Submit(g) \/ SubmitLoad(g) PROVE DataType'
  BY <1>1 DEF Submit, SubmitLoad, data, process
<1>2. CASE Stop BY <1>2 DEF Stop, data, process
<1>3. CASE Save
  <2>1. CopiesOf(disk) \subseteq [Subgames -> Files]
    <3>1. ASSUME NEW f \in Subgames \X Parts, NEW bad \in {"none", "short"}
          PROVE  [disk EXCEPT ![f[1]][f[2]] = bad] \in [Subgames -> Files]
      BY DEF FileStates
    <3>2. disk \in [Subgames -> Files] OBVIOUS
    <3>3. ASSUME NEW files \in CopiesOf(disk) PROVE files \in [Subgames -> Files]
      <4>1. CASE files = disk BY <4>1, <3>2
      <4>2. CASE files # disk
        <5>1. PICK f \in Failing :
                files \in {[disk EXCEPT ![f[1]][f[2]] = bad] : bad \in {"none", "short"}}
          BY <4>2 DEF CopiesOf
        <5>2. PICK bad \in {"none", "short"} : files = [disk EXCEPT ![f[1]][f[2]] = bad]
          BY <5>1
        <5>3. f \in Subgames \X Parts BY FailingAssumption
        <5> QED BY <5>2, <5>3, <3>1
      <4> QED BY <4>1, <4>2
    <3> QED BY <3>3
  <2> QED BY <1>3, <2>1 DEF Save, data
<1>4. ASSUME NEW next \in Passes \cup {"quit"}, StartPass(next) PROVE DataType'
  BY <1>4 DEF StartPass, data, process
<1>5. CASE LoaderTake \/ LoaderCheck \/ Enqueue
  BY <1>5 DEF LoaderTake, LoaderCheck, Enqueue, data, process
<1>6. CASE Grab
  <2>1. Head(poolQ) \in Arrays BY <1>6, Taken DEF Grab
  <2>2. Discarded \in Entries BY DEF Discarded
  <2>3. ram' \in [Arrays -> Entries] BY <1>6, <2>1, <2>2 DEF Grab
  <2>4. arraysIndex' \in [Subgames -> Arrays \cup {None}] BY <1>6, <2>1 DEF Grab
  <2> QED BY <1>6, <2>3, <2>4 DEF Grab, process
<1>7. CASE Load
  <2>1. cur[Loader] \in Subgames BY <1>7 DEF ThreadsType, Load
  <2>2. ram' \in [Arrays -> Entries]
    <3>1. CASE UNCHANGED ram BY <3>1
    <3>2. CASE ~UNCHANGED ram
      <4> DEFINE g == cur[Loader]
                 a == arraysIndex[g]
                 e == [part \in Parts |-> IF part \in Loads(jobType[g])
                                         THEN <<g, IsLatest(disk[g][part])>> ELSE ram[a][part]]
      <4>1. ram' = [ram EXCEPT ![a] = e] BY <1>7, <3>2 DEF Load
      <4>2. CASE a \in Arrays
        <5>1. \A x : IsLatest(x) \in BOOLEAN BY DEF IsLatest
        <5>2. ram[a] \in Entries BY <4>2
        <5>3. e \in Entries BY <2>1, <5>1, <5>2
        <5> HIDE DEF e
        <5> QED BY <4>1, <4>2, <5>3
      <4>3. CASE a \notin Arrays
        <5> HIDE DEF e, a
        <5> QED BY <4>1, <4>3
      <4> QED BY <4>2, <4>3
    <3> QED BY <3>1, <3>2
  <2> QED BY <1>7, <2>2 DEF Load
<1>8. ASSUME NEW w \in Workers, WorkerTake(w) \/ ToDump(w) \/ ReportBR(w) \/ ReportLoad(w)
      PROVE  DataType'
  BY <1>8 DEF WorkerTake, ToDump, ReportBR, ReportLoad, data, process
<1>9. ASSUME NEW w \in Workers, Perform(w) PROVE DataType'
  <2>1. cur[w] \in Subgames BY <1>9 DEF ThreadsType, Perform
  <2>2. ram' \in [Arrays -> Entries]
    <3>1. CASE UNCHANGED ram BY <3>1
    <3>2. CASE ~UNCHANGED ram
      <4> DEFINE g == cur[w]
                 a == arraysIndex[g]
                 e == [part \in Parts |-> IF part \in Changes(jobType[g])
                                         THEN <<g, TRUE>> ELSE ram[a][part]]
      <4>1. ram' = [ram EXCEPT ![a] = e] BY <1>9, <3>2 DEF Perform, data
      <4>2. CASE a \in Arrays
        <5>1. ram[a] \in Entries BY <4>2
        <5>2. e \in Entries BY <2>1, <5>1
        <5> HIDE DEF e
        <5> QED BY <4>1, <4>2, <5>2
      <4>3. CASE a \notin Arrays
        <5> HIDE DEF e, a
        <5> QED BY <4>1, <4>3
      <4> QED BY <4>2, <4>3
    <3> QED BY <3>1, <3>2
  <2>3. disk' \in [Subgames -> Files] BY <1>9, <2>1 DEF Perform, data, FileStates
  <2> QED BY <1>9, <2>2, <2>3 DEF Perform, process
<1>10. ASSUME NEW w \in Workers, CopyFiles(w) PROVE DataType'
  <2>1. cur[w] \in Subgames BY <1>10 DEF ThreadsType, CopyFiles
  <2>2. disk' \in [Subgames -> Files]
    <3> DEFINE g == cur[w]
               f == [part \in Parts |->
                       IF saved = None \/ saved[g][part] = "none" THEN disk[g][part]
                       ELSE IF saved[g][part] = "short" /\ disk[g][part] # "none" THEN "mixed"
                       ELSE saved[g][part]]
    <3>1. UNCHANGED disk \/ disk' = [disk EXCEPT ![g] = f] BY <1>10 DEF CopyFiles
    <3>2. f \in Files BY <2>1 DEF FileStates
    <3> HIDE DEF f
    <3> QED BY <2>1, <3>1, <3>2
  <2> QED BY <1>10, <2>2 DEF CopyFiles
<1>11. ASSUME NEW t \in Workers \cup {Dumper}, ReturnArrays(t) PROVE DataType'
  BY <1>11 DEF ReturnArrays, data, process
<1>12. ASSUME NEW t \in Workers \cup {Dumper}, ClearArrays(t) PROVE DataType'
  BY <1>12 DEF ClearArrays, data, process
<1>13. CASE DumperTake \/ ReportCFR BY <1>13 DEF DumperTake, ReportCFR, data, process
<1>14. CASE Dump
  <2>1. cur[Dumper] \in Subgames BY <1>14 DEF ThreadsType, Dump
  <2>2. disk' \in [Subgames -> Files]
    <3> DEFINE g == cur[Dumper]
               f == [part \in Parts |->
                       IF part \notin Changes(jobType[g]) THEN disk[g][part]
                       ELSE IF ram[arraysIndex[g]][part] = <<g, TRUE>> THEN "latest"
                       ELSE "other"]
    <3>1. UNCHANGED disk \/ disk' = [disk EXCEPT ![g] = f] BY <1>14 DEF Dump
    <3>2. f \in Files BY <2>1 DEF FileStates
    <3> HIDE DEF f
    <3> QED BY <2>1, <3>1, <3>2
  <2> QED BY <1>14, <2>2 DEF Dump, process
<1>15. CASE Resume
  <2>1. Discarded \in Entries BY DEF Discarded
  <2>2. ram' \in [Arrays -> Entries] BY <1>15, <2>1 DEF Resume
  <2>3. disk' \in [Subgames -> Files] BY <1>15 DEF Resume, AllFiles, FileStates
  <2> QED BY <1>15, <2>2, <2>3 DEF Resume
<1>16. CASE UNCHANGED vars BY <1>16 DEF vars, data, process
<1> QED BY Steps, <1>1, <1>2, <1>3, <1>4, <1>5, <1>6, <1>7, <1>8, <1>9, <1>10, <1>11, <1>12,
          <1>13, <1>14, <1>15, <1>16

LEMMA FlagsStep == Types /\ [Next]_vars => FlagsType'
<1> SUFFICES ASSUME Types, [Next]_vars PROVE FlagsType' OBVIOUS
<1> USE Numbers DEF Types, FlagsType
<1>1. ASSUME NEW g \in Subgames, Submit(g) PROVE FlagsType' BY <1>1 DEF Submit, process
<1>2. ASSUME NEW g \in Subgames, SubmitLoad(g) PROVE FlagsType'
  <2>1. copySem' \in Int BY <1>2 DEF SubmitLoad
  <2> QED BY <1>2, <2>1 DEF SubmitLoad
<1>3. CASE Stop \/ Save BY <1>3 DEF Stop, Save, process
<1>4. ASSUME NEW next \in Passes \cup {"quit"}, StartPass(next) PROVE FlagsType'
  BY <1>4 DEF StartPass, process
<1>5. CASE LoaderTake \/ LoaderCheck \/ Grab \/ Load \/ Enqueue
  BY <1>5 DEF LoaderTake, LoaderCheck, Grab, Load, Enqueue, process, Abort
<1>6. ASSUME NEW w \in Workers,
             WorkerTake(w) \/ Perform(w) \/ ToDump(w) \/ ReportBR(w) \/ CopyFiles(w)
      PROVE  FlagsType'
  BY <1>6 DEF WorkerTake, Perform, ToDump, ReportBR, CopyFiles, process, Abort
<1>7. ASSUME NEW w \in Workers, ReportLoad(w) PROVE FlagsType'
  <2>1. copySem' \in Int BY <1>7 DEF ReportLoad
  <2> QED BY <1>7, <2>1 DEF ReportLoad
<1>8. ASSUME NEW t \in Workers \cup {Dumper}, ReturnArrays(t) \/ ClearArrays(t)
      PROVE  FlagsType'
  BY <1>8 DEF ReturnArrays, ClearArrays, process
<1>9. CASE DumperTake \/ Dump \/ ReportCFR
  BY <1>9 DEF DumperTake, Dump, ReportCFR, process, Abort
<1>10. CASE Resume
  <2>1. copySem' \in Int /\ run' \in Nat BY <1>10 DEF Resume
  <2>2. aborted' \in BOOLEAN /\ exited' \in BOOLEAN BY <1>10 DEF Resume
  <2> QED BY <2>1, <2>2
<1>11. CASE UNCHANGED vars BY <1>11 DEF vars, process
<1> QED BY Steps, <1>1, <1>2, <1>3, <1>4, <1>5, <1>6, <1>7, <1>8, <1>9, <1>10, <1>11

(* One thread moves to another point, with another subgame or the same.    *)
LEMMA Moves ==
  ASSUME ThreadsType, NEW t \in Threads, NEW point \in Points,
         NEW c \in Subgames \cup {None, Quit},
         c = None <=> point = "wait", c = Quit <=> point = "gone",
         t = Loader => point \in LoaderPoints,
         t = Dumper => point \in DumperPoints,
         t \in Workers => point \in WorkerPoints,
         pc' = [pc EXCEPT ![t] = point], cur' = [cur EXCEPT ![t] = c]
  PROVE  ThreadsType'
<1> USE ThreadNames DEF ThreadsType
<1>1. pc' \in [Threads -> Points] /\ cur' \in [Threads -> Subgames \cup {None, Quit}] OBVIOUS
<1>2. \A u \in Threads : (cur'[u] = None <=> pc'[u] = "wait") /\ (cur'[u] = Quit <=> pc'[u] = "gone")
  OBVIOUS
<1>3. pc'[Loader] \in LoaderPoints /\ pc'[Dumper] \in DumperPoints OBVIOUS
<1>4. \A w \in Workers : pc'[w] \in WorkerPoints OBVIOUS
<1> QED BY <1>1, <1>2, <1>3, <1>4

LEMMA ThreadsStep == Types /\ [Next]_vars => ThreadsType'
<1> SUFFICES ASSUME Types, [Next]_vars PROVE ThreadsType' OBVIOUS
<1> USE ThreadNames
<1>a. ThreadsType BY DEF Types
<1>b. \A t \in Threads : cur[t] \in Subgames \cup {None, Quit} /\ pc[t] \in Points
  BY <1>a DEF ThreadsType
<1>0. ASSUME NEW t \in Threads, NEW point \in Points \ {"wait", "gone"},
             t = Loader => point \in LoaderPoints, t = Dumper => point \in DumperPoints,
             t \in Workers => point \in WorkerPoints,
             pc[t] \notin {"wait", "gone"}, Goto(t, point), cur' = cur
      PROVE  ThreadsType'
  <2>1. cur' = [cur EXCEPT ![t] = cur[t]] BY <1>0, <1>a DEF ThreadsType
  <2>2. cur[t] # None /\ cur[t] # Quit BY <1>0, <1>a DEF ThreadsType
  <2>3. pc' = [pc EXCEPT ![t] = point] BY <1>0 DEF Goto
  <2> QED BY Moves, <1>0, <1>a, <1>b, <2>1, <2>2, <2>3
<1>c. ASSUME NEW t \in Threads, pc[t] # "gone", Goto(t, "wait"), cur' = [cur EXCEPT ![t] = None]
      PROVE  ThreadsType'
  BY Moves, <1>c, <1>a DEF Goto, Points, LoaderPoints, WorkerPoints, DumperPoints
<1>d. ASSUME NEW t \in Threads, NEW q, IsQueue(q), q # <<>>, NEW point \in Points \ {"wait", "gone"},
             t = Loader => point \in LoaderPoints, t = Dumper => point \in DumperPoints,
             t \in Workers => point \in WorkerPoints,
             Goto(t, IF Head(q) = Quit THEN "gone" ELSE point),
             cur' = [cur EXCEPT ![t] = Head(q)]
      PROVE  ThreadsType'
  <2>1. Head(q) \in Subgames \cup {Quit} BY <1>d, Taken DEF IsQueue
  <2>2. CASE Head(q) = Quit
    <3>1. pc' = [pc EXCEPT ![t] = "gone"] BY <1>d, <2>2 DEF Goto
    <3>2. cur' = [cur EXCEPT ![t] = Quit] BY <1>d, <2>2
    <3> QED BY Moves, <1>a, <3>1, <3>2 DEF Points, LoaderPoints, WorkerPoints, DumperPoints
  <2>3. CASE Head(q) # Quit
    <3>1. pc' = [pc EXCEPT ![t] = point] BY <1>d, <2>3 DEF Goto
    <3> QED BY Moves, <1>a, <1>d, <2>1, <2>3, <3>1
  <2> QED BY <2>2, <2>3
<1> USE DEF Points, LoaderPoints, WorkerPoints, DumperPoints
<1>1. CASE UNCHANGED threads BY <1>1, <1>a DEF threads, ThreadsType
<1>2. ASSUME NEW g \in Subgames, Submit(g) \/ SubmitLoad(g) PROVE UNCHANGED threads
  BY <1>2 DEF Submit, SubmitLoad
<1>3. CASE Stop \/ Save BY <1>3, <1>1 DEF Stop, Save
<1>4. ASSUME NEW next \in Passes \cup {"quit"}, StartPass(next) PROVE UNCHANGED threads
  BY <1>4 DEF StartPass
<1>5. CASE LoaderTake
  <2>1. IsQueue(loadQ) BY DEF Types, QueuesType
  <2> QED BY <1>5, <2>1, <1>d DEF LoaderTake
<1>6. CASE LoaderCheck BY <1>6, <1>0, <1>1 DEF LoaderCheck, threads
<1>7. CASE Grab BY <1>7, <1>0 DEF Grab
<1>8. CASE Load
  <2>1. CASE UNCHANGED pc BY <1>8, <2>1, <1>1 DEF Load, threads
  <2>2. CASE Goto(Loader, "enqueue") BY <1>8, <2>2, <1>0 DEF Load
  <2> QED BY <1>8, <2>1, <2>2 DEF Load
<1>9. CASE Enqueue BY <1>9, <1>c DEF Enqueue
<1>10. ASSUME NEW w \in Workers, WorkerTake(w) PROVE ThreadsType'
  <2>1. IsQueue(workQ) BY DEF Types, QueuesType
  <2>2. Goto(w, IF Head(workQ) = Quit THEN "gone"
                ELSE IF jobType[Head(workQ)] = "load" THEN "copy" ELSE "perform")
    BY <1>10 DEF WorkerTake
  <2>3. CASE jobType[Head(workQ)] = "load" BY <1>10, <2>1, <2>2, <2>3, <1>d DEF WorkerTake
  <2>4. CASE jobType[Head(workQ)] # "load" BY <1>10, <2>1, <2>2, <2>4, <1>d DEF WorkerTake
  <2> QED BY <2>3, <2>4
<1>11. ASSUME NEW w \in Workers, Perform(w) PROVE ThreadsType'
  <2>1. CASE UNCHANGED pc BY <1>11, <2>1, <1>1 DEF Perform, threads
  <2>2. CASE Goto(w, "report") \/ Goto(w, "toDump") BY <1>11, <2>2, <1>0 DEF Perform
  <2> QED BY <1>11, <2>1, <2>2 DEF Perform
<1>12. ASSUME NEW w \in Workers, ToDump(w) \/ ReportLoad(w) PROVE ThreadsType'
  BY <1>12, <1>c DEF ToDump, ReportLoad
<1>13. ASSUME NEW w \in Workers, ReportBR(w) PROVE ThreadsType' BY <1>13, <1>0 DEF ReportBR
<1>14. ASSUME NEW w \in Workers, CopyFiles(w) PROVE ThreadsType'
  <2>1. CASE UNCHANGED pc BY <1>14, <2>1, <1>1 DEF CopyFiles, threads
  <2>2. CASE Goto(w, "reportLoad") BY <1>14, <2>2, <1>0 DEF CopyFiles
  <2> QED BY <1>14, <2>1, <2>2 DEF CopyFiles
<1>15. ASSUME NEW t \in Workers \cup {Dumper}, ReturnArrays(t) PROVE ThreadsType'
  BY <1>15, <1>0 DEF ReturnArrays
<1>16. ASSUME NEW t \in Workers \cup {Dumper}, ClearArrays(t) PROVE ThreadsType'
  <2>1. CASE t = Dumper BY <1>16, <2>1, <1>0 DEF ClearArrays
  <2>2. CASE t # Dumper BY <1>16, <2>2, <1>c DEF ClearArrays
  <2> QED BY <2>1, <2>2
<1>17. CASE DumperTake
  <2>1. IsQueue(dumpQ) BY DEF Types, QueuesType
  <2> QED BY <1>17, <2>1, <1>d DEF DumperTake
<1>18. CASE Dump
  <2>1. CASE UNCHANGED pc BY <1>18, <2>1, <1>1 DEF Dump, threads
  <2>2. CASE Goto(Dumper, "return") BY <1>18, <2>2, <1>0 DEF Dump
  <2> QED BY <1>18, <2>1, <2>2 DEF Dump
<1>19. CASE ReportCFR BY <1>19, <1>c DEF ReportCFR
<1>20. CASE Resume
  <2>1. pc' = [t \in Threads |-> "wait"] /\ cur' = [t \in Threads |-> None] BY <1>20 DEF Resume
  <2> QED BY <2>1 DEF ThreadsType
<1>21. CASE UNCHANGED vars BY <1>21, <1>1 DEF vars
<1> QED BY Steps, <1>1, <1>2, <1>3, <1>4, <1>5, <1>6, <1>7, <1>8, <1>9, <1>10, <1>11, <1>12,
          <1>13, <1>14, <1>15, <1>16, <1>17, <1>18, <1>19, <1>20, <1>21

-----------------------------------------------------------------------------
(* Where the jobs are *)

Places == {"idle", "todo", "loadQ", "loader", "workQ", "worker", "dumpQ", "dumper", "done"}
CFRPasses == {"cfr1", "cfr0"}

(* At these points a worker has a job that is not reported.                *)
JobPoints == {"perform", "toDump", "report", "copy", "reportLoad"}
Works(w, g) == cur[w] = g /\ pc[w] \in JobPoints
AtWork(g)   == \E w \in Workers : Works(w, g)

(* The job of subgame g is at place x and nowhere else.                    *)
JobAt(g, x) ==
  /\ g \in jobs <=> x # "idle"
  /\ g \in todo <=> x = "todo"
  /\ g \in Range(loadQ) <=> x = "loadQ"
  /\ cur[Loader] = g <=> x = "loader"
  /\ g \in Range(workQ) <=> x = "workQ"
  /\ AtWork(g) <=> x = "worker"
  /\ g \in Range(dumpQ) <=> x = "dumpQ"
  /\ cur[Dumper] = g <=> x = "dumper"
  /\ finished[g] = IF x = "done" THEN 1 ELSE 0

(* A job is of the kind of the pass, and is where such jobs come.          *)
KindAt(g, x) ==
  /\ x \notin {"idle", "todo", "done"} => jobType[g] = pass /\ pass \in Passes
  /\ x \in {"loadQ", "loader"} => pass # "load"
  /\ x \in {"dumpQ", "dumper"} => pass \in CFRPasses
  /\ x = "idle" => pass # "load"

PlacesInv == \A g \in Subgames : \E x \in Places : JobAt(g, x) /\ KindAt(g, x)

PointsFit ==
  \A w \in Workers :
    /\ pc[w] \in {"copy", "reportLoad"} => pass = "load"
    /\ pc[w] = "perform" => pass \in CFRPasses \cup {"br"}
    /\ pc[w] = "toDump" => pass \in CFRPasses
    /\ pc[w] = "report" => pass = "br"

OnceInv == /\ Once(loadQ, Subgames) /\ Once(workQ, Subgames) /\ Once(dumpQ, Subgames)
           /\ \A v, w \in Workers, g \in Subgames : Works(v, g) /\ Works(w, g) => v = w

JobsInv == PlacesInv /\ PointsFit /\ OnceInv

LEMMA InitJobs == Init => JobsInv
<1> SUFFICES ASSUME Init PROVE JobsInv OBVIOUS
<1> USE ThreadNames DEF Init
<1>1. \A t \in Threads : pc[t] = "wait" /\ cur[t] = None OBVIOUS
<1>2. Range(<<>>) = {} /\ Once(<<>>, Subgames) BY DEF Range, Once
<1>3. \A w \in Workers, g \in Subgames : ~Works(w, g) BY <1>1 DEF Works
<1>4. PlacesInv
  <2> SUFFICES ASSUME NEW g \in Subgames PROVE JobAt(g, "idle") /\ KindAt(g, "idle")
    BY DEF PlacesInv, Places
  <2>1. ~AtWork(g) BY <1>3 DEF AtWork
  <2> QED BY <1>1, <1>2, <2>1 DEF JobAt, KindAt
<1>5. PointsFit BY <1>1 DEF PointsFit
<1>6. OnceInv BY <1>2, <1>3 DEF OnceInv
<1> QED BY <1>4, <1>5, <1>6 DEF JobsInv

(* What the step of one thread leaves of a subgame's job.                  *)
LEMMA WorksKept ==
  ASSUME ThreadsType, NEW t \in Threads, NEW p, NEW c,
         pc' = [pc EXCEPT ![t] = p], cur' = [cur EXCEPT ![t] = c], NEW g,
         t \in Workers => ((c = g /\ p \in JobPoints) <=> Works(t, g))
  PROVE  /\ \A w \in Workers : Works(w, g)' <=> Works(w, g)
         /\ AtWork(g)' <=> AtWork(g)
<1>1. ASSUME NEW w \in Workers PROVE Works(w, g)' <=> Works(w, g)
  <2>1. CASE w = t BY <2>1, ThreadNames DEF ThreadsType, Works
  <2>2. CASE w # t
    <3>1. pc'[w] = pc[w] /\ cur'[w] = cur[w] BY <2>2, ThreadNames DEF ThreadsType
    <3> QED BY <3>1 DEF Works
  <2> QED BY <2>1, <2>2
<1> QED BY <1>1 DEF AtWork

(* A step that leaves the jobs where they are.                             *)
LEMMA JobsStay ==
  ASSUME JobsInv, UNCHANGED <<jobs, todo, loadQ, workQ, dumpQ, finished, jobType, pass>>,
         \A w \in Workers, g \in Subgames : Works(w, g)' <=> Works(w, g),
         \A g \in Subgames : /\ cur'[Loader] = g <=> cur[Loader] = g
                             /\ cur'[Dumper] = g <=> cur[Dumper] = g,
         PointsFit'
  PROVE  JobsInv'
<1>1. \A g \in Subgames : AtWork(g)' <=> AtWork(g) BY DEF AtWork
<1>2. PlacesInv'
  <2> SUFFICES ASSUME NEW g \in Subgames PROVE \E x \in Places : JobAt(g, x)' /\ KindAt(g, x)'
    BY DEF PlacesInv
  <2>1. PICK x \in Places : JobAt(g, x) /\ KindAt(g, x) BY DEF JobsInv, PlacesInv
  <2>2. JobAt(g, x)' BY <2>1, <1>1 DEF JobAt
  <2>3. KindAt(g, x)' BY <2>1 DEF KindAt
  <2> QED BY <2>2, <2>3
<1>3. OnceInv' BY DEF JobsInv, OnceInv, Once
<1> QED BY <1>2, <1>3 DEF JobsInv

LEMMA JobsNotTouched ==
  ASSUME JobsInv, UNCHANGED <<jobs, todo, loadQ, workQ, dumpQ, finished, jobType, pass, threads>>
  PROVE  JobsInv'
<1>1. PointsFit' BY DEF JobsInv, PointsFit, threads
<1>2. \A w \in Workers, g \in Subgames : Works(w, g)' <=> Works(w, g) BY DEF Works, threads
<1> QED BY <1>1, <1>2, JobsStay DEF threads

(* A step of one thread that keeps its subgame.                            *)
LEMMA JobsKept ==
  ASSUME Types, JobsInv, NEW t \in Threads, NEW p, Goto(t, p), cur' = cur,
         UNCHANGED <<jobs, todo, loadQ, workQ, dumpQ, finished, jobType, pass>>,
         t \in Workers => /\ p \in JobPoints <=> pc[t] \in JobPoints
                          /\ p \in {"copy", "reportLoad"} => pass = "load"
                          /\ p = "perform" => pass \in CFRPasses \cup {"br"}
                          /\ p = "toDump" => pass \in CFRPasses
                          /\ p = "report" => pass = "br"
  PROVE  JobsInv'
<1>0. ThreadsType BY DEF Types
<1>1. pc' = [pc EXCEPT ![t] = p] /\ cur' = [cur EXCEPT ![t] = cur[t]]
  BY <1>0 DEF Goto, ThreadsType
<1>2. PointsFit' BY <1>0, <1>1, ThreadNames DEF JobsInv, PointsFit, ThreadsType
<1>3. \A w \in Workers, g \in Subgames : Works(w, g)' <=> Works(w, g)
  <2> TAKE w \in Workers, g \in Subgames
  <2>1. t \in Workers => ((cur[t] = g /\ p \in JobPoints) <=> Works(t, g)) BY DEF Works
  <2> QED BY <1>0, <1>1, <2>1, WorksKept
<1> QED BY <1>2, <1>3, JobsStay

(* A step that moves the job of subgame m to place x.                      *)
LEMMA JobsMove ==
  ASSUME JobsInv, NEW m \in Subgames, NEW x \in Places, JobAt(m, x)', KindAt(m, x)',
         UNCHANGED <<jobs, pass>>,
         \A g \in Subgames \ {m} :
           /\ g \in todo' <=> g \in todo
           /\ g \in Range(loadQ') <=> g \in Range(loadQ)
           /\ cur'[Loader] = g <=> cur[Loader] = g
           /\ g \in Range(workQ') <=> g \in Range(workQ)
           /\ \A w \in Workers : Works(w, g)' <=> Works(w, g)
           /\ g \in Range(dumpQ') <=> g \in Range(dumpQ)
           /\ cur'[Dumper] = g <=> cur[Dumper] = g
           /\ finished'[g] = finished[g] /\ jobType'[g] = jobType[g],
         \A v, w \in Workers : Works(v, m)' /\ Works(w, m)' => v = w,
         Once(loadQ, Subgames)', Once(workQ, Subgames)', Once(dumpQ, Subgames)', PointsFit'
  PROVE  JobsInv'
<1>1. PlacesInv'
  <2> SUFFICES ASSUME NEW g \in Subgames PROVE \E y \in Places : JobAt(g, y)' /\ KindAt(g, y)'
    BY DEF PlacesInv
  <2>1. CASE g = m BY <2>1
  <2>2. CASE g # m
    <3>1. PICK y \in Places : JobAt(g, y) /\ KindAt(g, y) BY DEF JobsInv, PlacesInv
    <3>2. AtWork(g)' <=> AtWork(g) BY <2>2 DEF AtWork
    <3>3. JobAt(g, y)' BY <2>2, <3>1, <3>2 DEF JobAt
    <3>4. KindAt(g, y)' BY <2>2, <3>1 DEF KindAt
    <3> QED BY <3>3, <3>4
  <2> QED BY <2>1, <2>2
<1>2. OnceInv'
  <2>1. ASSUME NEW v \in Workers, NEW w \in Workers, NEW g \in Subgames, Works(v, g)', Works(w, g)'
        PROVE  v = w
    <3>1. CASE g = m BY <2>1, <3>1
    <3>2. CASE g # m BY <2>1, <3>2 DEF JobsInv, OnceInv
    <3> QED BY <3>1, <3>2
  <2> QED BY <2>1 DEF OnceInv
<1> QED BY <1>1, <1>2 DEF JobsInv

(* What one thread does for its subgame c, at point p, when it had b. *)
LEMMA OtherWorks ==
  ASSUME ThreadsType, NEW t \in Threads, NEW p, NEW c, NEW b,
         pc' = [pc EXCEPT ![t] = p], cur' = [cur EXCEPT ![t] = c], cur[t] = b
  PROVE  \A g : (g # b /\ g # c) => \A w \in Workers : Works(w, g)' <=> Works(w, g)
<1> SUFFICES ASSUME NEW g, g # b, g # c PROVE \A w \in Workers : Works(w, g)' <=> Works(w, g)
  OBVIOUS
<1>1. t \in Workers => ((c = g /\ p \in JobPoints) <=> Works(t, g)) BY DEF Works
<1> QED BY <1>1, WorksKept

LEMMA SubmitJobs == ASSUME Types, JobsInv, NEW m \in Subgames, Submit(m) \/ SubmitLoad(m)
                    PROVE  JobsInv'
<1> USE ThreadNames
<1>1. JobAt(m, "todo") /\ KindAt(m, "todo")
  BY DEF JobsInv, PlacesInv, JobAt, Submit, SubmitLoad
<1>2. pass \in Passes BY <1>1 DEF Types, ControlType, JobAt
<1>3. UNCHANGED <<jobs, pass, finished, dumpQ, pc, cur>> /\ todo' = todo \ {m}
  BY DEF Submit, SubmitLoad, threads
<1>4. jobType' = [jobType EXCEPT ![m] = pass] BY DEF Submit, SubmitLoad
<1>5. \A g : \A w \in Workers : Works(w, g)' <=> Works(w, g) BY <1>3 DEF Works
<1>6. \A g : AtWork(g)' <=> AtWork(g) BY <1>5 DEF AtWork
<1>7. \A v, w \in Workers : Works(v, m)' /\ Works(w, m)' => v = w BY <1>5 DEF JobsInv, OnceInv
<1>8. PointsFit' BY <1>3 DEF JobsInv, PointsFit
<1>9. jobType'[m] = pass /\ \A g \in Subgames \ {m} : jobType'[g] = jobType[g]
  BY <1>4 DEF Types, ControlType
<1>10. CASE Submit(m)
  <2>1. /\ Range(loadQ') = Range(loadQ) \cup {m} /\ Once(loadQ, Subgames)'
        /\ UNCHANGED workQ
    BY <1>10, <1>1, JobAppended DEF Submit, JobAt, JobsInv, OnceInv, Types, QueuesType
  <2>2. JobAt(m, "loadQ")' BY <1>1, <1>3, <1>6, <2>1 DEF JobAt
  <2>3. KindAt(m, "loadQ")' BY <1>2, <1>3, <1>9, <1>10 DEF KindAt, Submit
  <2>4. Once(workQ, Subgames)' /\ Once(dumpQ, Subgames)' BY <1>3, <2>1 DEF JobsInv, OnceInv
  <2>5. "loadQ" \in Places BY DEF Places
  <2> QED BY JobsMove, <1>3, <1>5, <1>7, <1>8, <1>9, <2>1, <2>2, <2>3, <2>4, <2>5
<1>11. CASE SubmitLoad(m)
  <2>1. /\ Range(workQ') = Range(workQ) \cup {m} /\ Once(workQ, Subgames)'
        /\ UNCHANGED loadQ
    BY <1>11, <1>1, JobAppended DEF SubmitLoad, JobAt, JobsInv, OnceInv, Types, QueuesType
  <2>2. JobAt(m, "workQ")' BY <1>1, <1>3, <1>6, <2>1 DEF JobAt
  <2>3. KindAt(m, "workQ")' BY <1>2, <1>3, <1>9 DEF KindAt
  <2>4. Once(loadQ, Subgames)' /\ Once(dumpQ, Subgames)' BY <1>3, <2>1 DEF JobsInv, OnceInv
  <2>5. "workQ" \in Places BY DEF Places
  <2> QED BY JobsMove, <1>3, <1>5, <1>7, <1>8, <1>9, <2>1, <2>2, <2>3, <2>4, <2>5
<1> QED BY <1>10, <1>11

LEMMA LoaderJobs == ASSUME Types, JobsInv, LoaderTake \/ Enqueue PROVE JobsInv'
<1> USE ThreadNames
<1>0. ThreadsType BY DEF Types
<1>1. UNCHANGED <<jobs, todo, pass, finished, jobType, dumpQ>>
  BY DEF LoaderTake, Enqueue, control
<1>2. \A w \in Workers : pc'[w] = pc[w] /\ cur'[w] = cur[w]
  BY <1>0 DEF LoaderTake, Enqueue, Goto, ThreadsType
<1>3. \A g : \A w \in Workers : Works(w, g)' <=> Works(w, g) BY <1>2 DEF Works
<1>4. \A g : AtWork(g)' <=> AtWork(g) BY <1>3 DEF AtWork
<1>5. \A v, w \in Workers, g \in Subgames : Works(v, g)' /\ Works(w, g)' => v = w
  BY <1>3 DEF JobsInv, OnceInv
<1>6. PointsFit' BY <1>1, <1>2 DEF JobsInv, PointsFit
<1>7. cur'[Dumper] = cur[Dumper] BY <1>0 DEF LoaderTake, Enqueue, ThreadsType
<1>8. CASE LoaderTake
  <2> DEFINE h == Head(loadQ)
  <2>1. /\ h \in Subgames \cup {Quit} /\ Range(loadQ) = Range(loadQ') \cup {h}
        /\ Once(loadQ', Subgames) /\ (h \in Subgames => h \notin Range(loadQ'))
        /\ cur[Loader] = None /\ cur'[Loader] = h /\ UNCHANGED workQ
    BY <1>8, JobTaken DEF LoaderTake, JobsInv, OnceInv, Types, QueuesType, ThreadsType
  <2>2. Once(workQ, Subgames)' /\ Once(dumpQ, Subgames)' BY <1>1, <2>1 DEF JobsInv, OnceInv
  <2>3. CASE h \in Subgames
    <3>1. PICK m \in Subgames : m = h BY <2>3
    <3>2. JobAt(m, "loadQ") /\ KindAt(m, "loadQ")
      BY <2>1, <3>1 DEF JobsInv, PlacesInv, JobAt
    <3>3. JobAt(m, "loader")' BY <1>1, <1>4, <1>7, <2>1, <3>1, <3>2 DEF JobAt
    <3>4. KindAt(m, "loader")' BY <1>1, <3>2 DEF KindAt
    <3>5. "loader" \in Places BY DEF Places
    <3> HIDE DEF h
    <3> QED BY JobsMove, <1>1, <1>3, <1>5, <1>6, <1>7, <2>1, <2>2, <3>1, <3>3, <3>4, <3>5
  <2>4. CASE h = Quit
    <3>1. PlacesInv'
      <4> SUFFICES ASSUME NEW g \in Subgames
                   PROVE  \E x \in Places : JobAt(g, x)' /\ KindAt(g, x)'
        BY DEF PlacesInv
      <4>1. PICK x \in Places : JobAt(g, x) /\ KindAt(g, x) BY DEF JobsInv, PlacesInv
      <4>2. JobAt(g, x)' BY <1>1, <1>4, <1>7, <2>1, <2>4, <4>1 DEF JobAt
      <4>3. KindAt(g, x)' BY <1>1, <4>1 DEF KindAt
      <4> QED BY <4>2, <4>3
    <3> QED BY <1>5, <1>6, <2>1, <2>2, <3>1 DEF JobsInv, OnceInv
  <2> QED BY <2>1, <2>3, <2>4
<1>9. CASE Enqueue
  <2>1. PICK m \in Subgames : m = cur[Loader] BY <1>0, <1>9 DEF Enqueue, ThreadsType
  <2>2. JobAt(m, "loader") /\ KindAt(m, "loader") BY <2>1 DEF JobsInv, PlacesInv, JobAt
  <2>3. /\ Range(workQ') = Range(workQ) \cup {m} /\ Once(workQ, Subgames)'
        /\ UNCHANGED loadQ
    BY <1>9, <2>1, <2>2, JobAppended DEF Enqueue, JobAt, JobsInv, OnceInv, Types, QueuesType
  <2>4. cur'[Loader] = None BY <1>0, <1>9 DEF Enqueue, ThreadsType
  <2>5. JobAt(m, "workQ")' BY <1>1, <1>4, <1>7, <2>2, <2>3, <2>4 DEF JobAt
  <2>6. KindAt(m, "workQ")' BY <1>1, <2>2 DEF KindAt
  <2>7. Once(loadQ, Subgames)' /\ Once(dumpQ, Subgames)' BY <1>1, <2>3 DEF JobsInv, OnceInv
  <2>8. "workQ" \in Places BY DEF Places
  <2> QED BY JobsMove, <1>1, <1>3, <1>5, <1>6, <1>7, <2>1, <2>3, <2>4, <2>5, <2>6, <2>7, <2>8
<1> QED BY <1>8, <1>9

LEMMA WorkerTakesJob == ASSUME Types, JobsInv, NEW w \in Workers, WorkerTake(w) PROVE JobsInv'
<1> USE ThreadNames
<1> DEFINE h == Head(workQ)
<1>0. ThreadsType BY DEF Types
<1>1. UNCHANGED <<jobs, todo, pass, finished, jobType, loadQ, dumpQ>>
  BY DEF WorkerTake, control
<1>2. /\ h \in Subgames \cup {Quit} /\ Range(workQ) = Range(workQ') \cup {h}
      /\ Once(workQ', Subgames) /\ (h \in Subgames => h \notin Range(workQ'))
  BY JobTaken DEF WorkerTake, JobsInv, OnceInv, Types, QueuesType
<1>3. cur[w] = None /\ pc[w] = "wait" /\ cur' = [cur EXCEPT ![w] = h]
  BY <1>0 DEF WorkerTake, ThreadsType
<1>4. Once(loadQ, Subgames)' /\ Once(dumpQ, Subgames)' BY <1>1 DEF JobsInv, OnceInv
<1>5. cur'[Loader] = cur[Loader] /\ cur'[Dumper] = cur[Dumper] BY <1>0, <1>3 DEF ThreadsType
<1>6. ASSUME NEW p, pc' = [pc EXCEPT ![w] = p]
      PROVE  /\ \A g \in Subgames \ {h} : \A v \in Workers : Works(v, g)' <=> Works(v, g)
             /\ pc'[w] = p /\ \A v \in Workers \ {w} : pc'[v] = pc[v]
  <2> HIDE DEF h
  <2>1. \A g : (g # None /\ g # h) => \A v \in Workers : Works(v, g)' <=> Works(v, g)
    BY <1>0, <1>3, <1>6, OtherWorks
  <2>2. pc'[w] = p /\ \A v \in Workers \ {w} : pc'[v] = pc[v] BY <1>0, <1>6 DEF ThreadsType
  <2> QED BY <2>1, <2>2
<1>7. CASE h \in Subgames
  <2>1. PICK m \in Subgames : m = h BY <1>7
  <2>2. JobAt(m, "workQ") /\ KindAt(m, "workQ") BY <1>2, <2>1 DEF JobsInv, PlacesInv, JobAt
  <2>3. PICK p : /\ pc' = [pc EXCEPT ![w] = p]
                 /\ p = IF pass = "load" THEN "copy" ELSE "perform"
    BY <2>1, <2>2 DEF WorkerTake, Goto, KindAt
  <2>4. p \in JobPoints BY <2>3 DEF JobPoints
  <2>5. Works(w, m)' BY <1>0, <1>3, <2>1, <2>3, <2>4 DEF Works, ThreadsType
  <2>6. \A v \in Workers \ {w} : ~Works(v, m)'
    <3>1. \A v \in Workers : ~Works(v, m) BY <2>2 DEF JobAt, AtWork
    <3>2. \A v \in Workers \ {w} : cur'[v] = cur[v] /\ pc'[v] = pc[v]
      BY <1>0, <1>3, <2>3 DEF ThreadsType
    <3> QED BY <3>1, <3>2 DEF Works
  <2>7. AtWork(m)' BY <2>5 DEF AtWork
  <2>8. JobAt(m, "worker")' BY <1>1, <1>2, <1>5, <2>1, <2>2, <2>7 DEF JobAt
  <2>9. KindAt(m, "worker")' BY <1>1, <2>2 DEF KindAt
  <2>10. PointsFit'
    <3>1. pass \in CFRPasses \cup {"br", "load"} BY <2>2 DEF KindAt, Passes, CFRPasses
    <3>2. p = "copy" \/ p = "perform" BY <2>3
    <3> QED BY <1>1, <1>6, <2>3, <3>1, <3>2 DEF JobsInv, PointsFit
  <2>11. "worker" \in Places BY DEF Places
  <2>12. \A v, u \in Workers : Works(v, m)' /\ Works(u, m)' => v = u BY <2>6
  <2>13. \A g \in Subgames \ {m} : \A v \in Workers : Works(v, g)' <=> Works(v, g)
    BY <1>6, <2>1, <2>3
  <2> HIDE DEF h
  <2> QED BY JobsMove, <1>1, <1>2, <1>4, <1>5, <2>1, <2>8, <2>9, <2>10, <2>11, <2>12, <2>13
<1>8. CASE h = Quit
  <2>1. pc' = [pc EXCEPT ![w] = "gone"] BY <1>8 DEF WorkerTake, Goto
  <2>2. \A g \in Subgames : \A v \in Workers : Works(v, g)' <=> Works(v, g)
    BY <1>6, <1>8, <2>1
  <2>3. \A g \in Subgames : AtWork(g)' <=> AtWork(g) BY <2>2 DEF AtWork
  <2>4. PointsFit' BY <1>1, <1>6, <2>1 DEF JobsInv, PointsFit
  <2>5. PlacesInv'
    <3> SUFFICES ASSUME NEW g \in Subgames PROVE \E x \in Places : JobAt(g, x)' /\ KindAt(g, x)'
      BY DEF PlacesInv
    <3>1. PICK x \in Places : JobAt(g, x) /\ KindAt(g, x) BY DEF JobsInv, PlacesInv
    <3>2. JobAt(g, x)' BY <1>1, <1>2, <1>5, <1>8, <2>3, <3>1 DEF JobAt
    <3>3. KindAt(g, x)' BY <1>1, <3>1 DEF KindAt
    <3> QED BY <3>2, <3>3
  <2> QED BY <1>2, <1>4, <2>2, <2>4, <2>5 DEF JobsInv, OnceInv
<1> QED BY <1>2, <1>7, <1>8

(* A worker hands its job on.                                              *)
LEMMA WorkerLeavesJob ==
  ASSUME Types, JobsInv, NEW w \in Workers, ToDump(w) \/ ReportBR(w) \/ ReportLoad(w)
  PROVE  JobsInv'
<1> USE ThreadNames
<1>0. ThreadsType BY DEF Types
<1>1. UNCHANGED <<jobs, todo, pass, jobType, loadQ, workQ>>
  BY DEF ToDump, ReportBR, ReportLoad, control, queues
<1>2. PICK m \in Subgames : m = cur[w] BY <1>0 DEF ToDump, ReportBR, ReportLoad, ThreadsType
<1>3. Works(w, m) BY <1>2 DEF ToDump, ReportBR, ReportLoad, Works, JobPoints
<1>4. JobAt(m, "worker") /\ KindAt(m, "worker")
  BY <1>3 DEF JobsInv, PlacesInv, JobAt, AtWork
<1>5. PICK p \in {"wait", "return"}, c \in {None, m} :
        pc' = [pc EXCEPT ![w] = p] /\ cur' = [cur EXCEPT ![w] = c]
  <2>1. CASE ToDump(w) \/ ReportLoad(w) BY <2>1 DEF ToDump, ReportLoad, Goto
  <2>2. CASE ReportBR(w)
    <3>1. cur' = [cur EXCEPT ![w] = m] BY <1>0, <1>2, <2>2 DEF ReportBR, ThreadsType
    <3> QED BY <2>2, <3>1 DEF ReportBR, Goto
  <2> QED BY <2>1, <2>2
<1>6. \A g \in Subgames \ {m} : \A v \in Workers : Works(v, g)' <=> Works(v, g)
  BY <1>0, <1>2, <1>5, OtherWorks
<1>7. \A v \in Workers : ~Works(v, m)'
  <2>1. ~Works(w, m)' BY <1>0, <1>5 DEF Works, JobPoints, ThreadsType
  <2>2. ASSUME NEW v \in Workers \ {w} PROVE ~Works(v, m)'
    <3>1. ~Works(v, m) BY <1>3 DEF JobsInv, OnceInv
    <3>2. cur'[v] = cur[v] /\ pc'[v] = pc[v] BY <1>0, <1>5 DEF ThreadsType
    <3> QED BY <3>1, <3>2 DEF Works
  <2> QED BY <2>1, <2>2
<1>8. ~AtWork(m)' BY <1>7 DEF AtWork
<1>9. PointsFit'
  <2>1. pc'[w] = p /\ \A v \in Workers \ {w} : pc'[v] = pc[v] BY <1>0, <1>5 DEF ThreadsType
  <2> QED BY <1>1, <2>1 DEF JobsInv, PointsFit
<1>10. cur'[Loader] = cur[Loader] /\ cur'[Dumper] = cur[Dumper] BY <1>0, <1>5 DEF ThreadsType
<1>11. Once(loadQ, Subgames)' /\ Once(workQ, Subgames)' BY <1>1 DEF JobsInv, OnceInv
<1>12. \A v, u \in Workers : Works(v, m)' /\ Works(u, m)' => v = u BY <1>7
<1>13. "dumpQ" \in Places /\ "done" \in Places BY DEF Places
<1>14. CASE ToDump(w)
  <2>1. /\ Range(dumpQ') = Range(dumpQ) \cup {m} /\ Once(dumpQ, Subgames)'
        /\ UNCHANGED finished
    BY <1>14, <1>2, <1>4, JobAppended DEF ToDump, JobAt, JobsInv, OnceInv, Types, QueuesType
  <2>2. JobAt(m, "dumpQ")' BY <1>1, <1>4, <1>8, <1>10, <2>1 DEF JobAt
  <2>3. pass \in CFRPasses BY <1>14 DEF ToDump, JobsInv, PointsFit
  <2>4. KindAt(m, "dumpQ")' BY <1>1, <1>4, <2>3 DEF KindAt
  <2> QED BY JobsMove, <1>1, <1>6, <1>9, <1>10, <1>11, <1>12, <1>13, <2>1, <2>2, <2>4
<1>15. CASE ReportBR(w) \/ ReportLoad(w)
  <2>1. UNCHANGED dumpQ /\ finished' = [finished EXCEPT ![m] = @ + 1]
    BY <1>15, <1>2 DEF ReportBR, ReportLoad, Post, queues
  <2>2. finished'[m] = 1 /\ \A g \in Subgames \ {m} : finished'[g] = finished[g]
    <3>1. finished[m] = 0 BY <1>4 DEF JobAt
    <3> QED BY <2>1, <3>1 DEF Types, ControlType
  <2>3. JobAt(m, "done")' BY <1>1, <1>4, <1>8, <1>10, <2>1, <2>2 DEF JobAt
  <2>4. KindAt(m, "done")' BY DEF KindAt
  <2>5. Once(dumpQ, Subgames)' BY <2>1 DEF JobsInv, OnceInv
  <2> QED BY JobsMove, <1>1, <1>6, <1>9, <1>10, <1>11, <1>12, <1>13, <2>1, <2>2, <2>3, <2>4, <2>5
<1> QED BY <1>14, <1>15

LEMMA DumperJobs == ASSUME Types, JobsInv, DumperTake \/ ReportCFR PROVE JobsInv'
<1> USE ThreadNames
<1>0. ThreadsType BY DEF Types
<1>1. UNCHANGED <<jobs, todo, pass, jobType, loadQ, workQ>>
  BY DEF DumperTake, ReportCFR, control, queues
<1>2. \A w \in Workers : pc'[w] = pc[w] /\ cur'[w] = cur[w]
  BY <1>0 DEF DumperTake, ReportCFR, Goto, ThreadsType
<1>3. \A g : \A w \in Workers : Works(w, g)' <=> Works(w, g) BY <1>2 DEF Works
<1>4. \A g : AtWork(g)' <=> AtWork(g) BY <1>3 DEF AtWork
<1>5. \A v, w \in Workers, g \in Subgames : Works(v, g)' /\ Works(w, g)' => v = w
  BY <1>3 DEF JobsInv, OnceInv
<1>6. PointsFit' BY <1>1, <1>2 DEF JobsInv, PointsFit
<1>7. cur'[Loader] = cur[Loader] BY <1>0 DEF DumperTake, ReportCFR, ThreadsType
<1>8. Once(loadQ, Subgames)' /\ Once(workQ, Subgames)' BY <1>1 DEF JobsInv, OnceInv
<1>9. "dumper" \in Places /\ "done" \in Places BY DEF Places
<1>10. CASE DumperTake
  <2> DEFINE h == Head(dumpQ)
  <2>1. /\ h \in Subgames \cup {Quit} /\ Range(dumpQ) = Range(dumpQ') \cup {h}
        /\ Once(dumpQ', Subgames) /\ (h \in Subgames => h \notin Range(dumpQ'))
        /\ cur[Dumper] = None /\ cur'[Dumper] = h /\ UNCHANGED finished
    BY <1>10, <1>0, JobTaken DEF DumperTake, JobsInv, OnceInv, Types, QueuesType, ThreadsType
  <2>2. CASE h \in Subgames
    <3>1. PICK m \in Subgames : m = h BY <2>2
    <3>2. JobAt(m, "dumpQ") /\ KindAt(m, "dumpQ")
      BY <2>1, <3>1 DEF JobsInv, PlacesInv, JobAt
    <3>3. JobAt(m, "dumper")' BY <1>1, <1>4, <1>7, <2>1, <3>1, <3>2 DEF JobAt
    <3>4. KindAt(m, "dumper")' BY <1>1, <3>2 DEF KindAt
    <3> HIDE DEF h
    <3> QED BY JobsMove, <1>1, <1>3, <1>5, <1>6, <1>7, <1>8, <1>9, <2>1, <3>1, <3>3, <3>4
  <2>3. CASE h = Quit
    <3>1. PlacesInv'
      <4> SUFFICES ASSUME NEW g \in Subgames
                   PROVE  \E x \in Places : JobAt(g, x)' /\ KindAt(g, x)'
        BY DEF PlacesInv
      <4>1. PICK x \in Places : JobAt(g, x) /\ KindAt(g, x) BY DEF JobsInv, PlacesInv
      <4>2. JobAt(g, x)' BY <1>1, <1>4, <1>7, <2>1, <2>3, <4>1 DEF JobAt
      <4>3. KindAt(g, x)' BY <1>1, <4>1 DEF KindAt
      <4> QED BY <4>2, <4>3
    <3> QED BY <1>5, <1>6, <1>8, <2>1, <3>1 DEF JobsInv, OnceInv
  <2> QED BY <2>1, <2>2, <2>3
<1>11. CASE ReportCFR
  <2>1. PICK m \in Subgames : m = cur[Dumper] BY <1>0, <1>11 DEF ReportCFR, ThreadsType
  <2>2. JobAt(m, "dumper") BY <2>1 DEF JobsInv, PlacesInv, JobAt
  <2>3. UNCHANGED dumpQ /\ finished' = [finished EXCEPT ![m] = @ + 1]
    BY <1>11, <2>1 DEF ReportCFR, Post, queues
  <2>4. finished'[m] = 1 /\ \A g \in Subgames \ {m} : finished'[g] = finished[g]
    <3>1. finished[m] = 0 BY <2>2 DEF JobAt
    <3> QED BY <2>3, <3>1 DEF Types, ControlType
  <2>5. cur'[Dumper] = None BY <1>0, <1>11 DEF ReportCFR, ThreadsType
  <2>6. JobAt(m, "done")' BY <1>1, <1>4, <1>7, <2>2, <2>3, <2>4, <2>5 DEF JobAt
  <2>7. KindAt(m, "done")' BY DEF KindAt
  <2>8. Once(dumpQ, Subgames)' BY <2>3 DEF JobsInv, OnceInv
  <2> QED BY JobsMove, <1>1, <1>3, <1>5, <1>6, <1>7, <1>8, <1>9, <2>1, <2>3, <2>4, <2>5, <2>6,
             <2>7, <2>8
<1> QED BY <1>10, <1>11

(* When all jobs are reported nothing is under way. *)
LEMMA AllDone ==
  ASSUME Types, JobsInv, todo = {}, AllReported, NEW g \in Subgames
  PROVE  \/ JobAt(g, "done") /\ KindAt(g, "done")
         \/ JobAt(g, "idle") /\ KindAt(g, "idle")
<1>1. PICK x \in Places : JobAt(g, x) /\ KindAt(g, x) BY DEF JobsInv, PlacesInv
<1>2. x # "todo" BY <1>1 DEF JobAt
<1>3. x # "idle" => finished[g] > 0 BY <1>1 DEF JobAt, AllReported
<1>4. x \notin {"idle", "done"} => finished[g] = 0 BY <1>1 DEF JobAt
<1> QED BY <1>1, <1>2, <1>3, <1>4

LEMMA NewPassJobs ==
  ASSUME Types, JobsInv, Save \/ \E next \in Passes \cup {"quit"} : StartPass(next)
  PROVE  JobsInv'
<1> USE ThreadNames
<1>0. ThreadsType BY DEF Types
<1>1. /\ todo = {} /\ AllReported /\ UNCHANGED <<loadQ, workQ, dumpQ, pc, cur, jobType>>
      /\ finished' = [g \in Subgames |-> IF g \in jobs THEN finished[g] - 1 ELSE finished[g]]
      /\ todo' = jobs'
  <2>1. CASE Save BY <2>1 DEF Save, queues, threads
  <2>2. ASSUME NEW next \in Passes \cup {"quit"}, StartPass(next)
        PROVE  /\ todo = {} /\ AllReported /\ UNCHANGED <<loadQ, workQ, dumpQ, pc, cur, jobType>>
               /\ finished' = [g \in Subgames |-> IF g \in jobs THEN finished[g] - 1
                                                                ELSE finished[g]]
               /\ todo' = jobs'
    BY <2>2 DEF StartPass, queues, threads
  <2>3. Save => todo' = jobs' BY DEF Save
  <2> QED BY <2>1, <2>2, <2>3
<1>2. jobs' \subseteq Subgames /\ (pass' = "load" => jobs' = Subgames)
  BY DEF Save, StartPass
<1>3. \A g \in Subgames : JobAt(g, "done") \/ JobAt(g, "idle") BY <1>1, AllDone
<1>4. \A g \in Subgames, w \in Workers : ~Works(w, g) /\ ~Works(w, g)'
  <2>1. \A g \in Subgames : ~AtWork(g) BY <1>3 DEF JobAt
  <2> QED BY <1>1, <2>1 DEF AtWork, Works
<1>5. \A g \in Subgames : ~AtWork(g)' BY <1>4 DEF AtWork
<1>6. PlacesInv'
  <2> SUFFICES ASSUME NEW g \in Subgames PROVE \E x \in Places : JobAt(g, x)' /\ KindAt(g, x)'
    BY DEF PlacesInv
  <2>1. finished'[g] = 0 BY <1>1, <1>3 DEF JobAt
  <2>2. CASE g \in jobs'
    <3>1. JobAt(g, "todo")' BY <1>1, <1>3, <1>5, <2>1, <2>2 DEF JobAt
    <3>2. KindAt(g, "todo")' BY DEF KindAt
    <3> QED BY <3>1, <3>2 DEF Places
  <2>3. CASE g \notin jobs'
    <3>1. JobAt(g, "idle")' BY <1>1, <1>3, <1>5, <2>1, <2>3 DEF JobAt
    <3>2. KindAt(g, "idle")' BY <1>2, <2>3 DEF KindAt
    <3> QED BY <3>1, <3>2 DEF Places
  <2> QED BY <2>2, <2>3
<1>7. PointsFit'
  <2> SUFFICES ASSUME NEW w \in Workers PROVE pc'[w] \notin JobPoints
    BY DEF PointsFit, JobPoints
  <2>1. pc[w] \in JobPoints => cur[w] \in Subgames BY <1>0 DEF ThreadsType, JobPoints
  <2> QED BY <1>1, <1>4, <2>1 DEF Works
<1>8. OnceInv' BY <1>1, <1>4 DEF JobsInv, OnceInv
<1> QED BY <1>6, <1>7, <1>8 DEF JobsInv

LEMMA StopJobs == ASSUME Types, JobsInv, Stop PROVE JobsInv'
<1> USE ThreadNames
<1>1. UNCHANGED <<jobs, todo, pass, finished, jobType, pc, cur>> BY DEF Stop, threads
<1>2. ASSUME NEW q, IsQueue(q), Once(q, Subgames)
      PROVE  Range(Append(q, Quit)) = Range(q) \cup {Quit} /\ Once(Append(q, Quit), Subgames)
  BY <1>2, JobAppended
<1>3. /\ Range(loadQ') = Range(loadQ) \/ Range(loadQ') = Range(loadQ) \cup {Quit}
      /\ Range(workQ') = Range(workQ) \/ Range(workQ') = Range(workQ) \cup {Quit}
      /\ Range(dumpQ') = Range(dumpQ) \/ Range(dumpQ') = Range(dumpQ) \cup {Quit}
      /\ Once(loadQ, Subgames)' /\ Once(workQ, Subgames)' /\ Once(dumpQ, Subgames)'
  BY <1>2 DEF Stop, Types, QueuesType, JobsInv, OnceInv
<1>4. \A g : \A w \in Workers : Works(w, g)' <=> Works(w, g) BY <1>1 DEF Works
<1>5. \A g : AtWork(g)' <=> AtWork(g) BY <1>4 DEF AtWork
<1>6. PlacesInv'
  <2> SUFFICES ASSUME NEW g \in Subgames PROVE \E x \in Places : JobAt(g, x)' /\ KindAt(g, x)'
    BY DEF PlacesInv
  <2>1. PICK x \in Places : JobAt(g, x) /\ KindAt(g, x) BY DEF JobsInv, PlacesInv
  <2>2. JobAt(g, x)' BY <1>1, <1>3, <1>5, <2>1 DEF JobAt
  <2>3. KindAt(g, x)' BY <1>1, <2>1 DEF KindAt
  <2> QED BY <2>2, <2>3
<1>7. PointsFit' BY <1>1 DEF JobsInv, PointsFit
<1>8. OnceInv' BY <1>3, <1>4 DEF JobsInv, OnceInv
<1> QED BY <1>6, <1>7, <1>8 DEF JobsInv

LEMMA ResumeJobs == ASSUME Resume PROVE JobsInv'
<1> USE ThreadNames DEF Resume
<1>1. \A t \in Threads : pc'[t] = "wait" /\ cur'[t] = None OBVIOUS
<1>2. Range(<<>>) = {} /\ Once(<<>>, Subgames) BY DEF Range, Once
<1>3. \A w \in Workers, g \in Subgames : ~Works(w, g)' BY <1>1 DEF Works
<1>4. PlacesInv'
  <2> SUFFICES ASSUME NEW g \in Subgames PROVE JobAt(g, "idle")' /\ KindAt(g, "idle")'
    BY DEF PlacesInv, Places
  <2>1. ~AtWork(g)' BY <1>3 DEF AtWork
  <2> QED BY <1>1, <1>2, <2>1 DEF JobAt, KindAt
<1>5. PointsFit' BY <1>1 DEF PointsFit
<1>6. OnceInv' BY <1>2, <1>3 DEF OnceInv
<1> QED BY <1>4, <1>5, <1>6 DEF JobsInv

LEMMA JobsStep == Types /\ JobsInv /\ [Next]_vars => JobsInv'
<1> SUFFICES ASSUME Types, JobsInv, [Next]_vars PROVE JobsInv' OBVIOUS
<1> USE ThreadNames
<1>0. ThreadsType BY DEF Types
<1>1. ASSUME NEW w \in Workers, Perform(w) PROVE JobsInv'
  <2>1. CASE UNCHANGED pc
    BY <1>1, <2>1, JobsNotTouched DEF Perform, control, queues, threads
  <2>2. CASE ~UNCHANGED pc
    <3>1. PICK m \in Subgames : m = cur[w] BY <1>0, <1>1 DEF Perform, ThreadsType
    <3>2. JobAt(m, "worker") /\ KindAt(m, "worker")
      BY <1>1, <3>1 DEF JobsInv, PlacesInv, JobAt, AtWork, Works, JobPoints, Perform
    <3>3. jobType[m] = pass /\ pass \in CFRPasses \cup {"br"}
      BY <1>1, <3>2 DEF KindAt, JobsInv, PointsFit, Perform
    <3>4. PICK p : Goto(w, p) /\ p = IF pass = "br" THEN "report" ELSE "toDump"
      BY <1>1, <2>2, <3>1, <3>3 DEF Perform
    <3>5. p \in JobPoints /\ pc[w] \in JobPoints BY <1>1, <3>4 DEF JobPoints, Perform
    <3>6. UNCHANGED <<jobs, todo, loadQ, workQ, dumpQ, finished, jobType, pass, cur>>
      BY <1>1 DEF Perform, control, queues
    <3> QED BY JobsKept, <3>3, <3>4, <3>5, <3>6
  <2> QED BY <2>1, <2>2
<1>2. ASSUME NEW w \in Workers, CopyFiles(w) PROVE JobsInv'
  <2>1. UNCHANGED <<jobs, todo, loadQ, workQ, dumpQ, finished, jobType, pass, cur>>
    BY <1>2 DEF CopyFiles, control, queues
  <2>2. CASE UNCHANGED pc BY <2>1, <2>2, JobsNotTouched DEF threads
  <2>3. CASE Goto(w, "reportLoad")
    <3>1. pass = "load" BY <1>2 DEF JobsInv, PointsFit, CopyFiles
    <3>2. "reportLoad" \in JobPoints /\ pc[w] \in JobPoints BY <1>2 DEF JobPoints, CopyFiles
    <3> QED BY JobsKept, <2>1, <2>3, <3>1, <3>2
  <2> QED BY <1>2, <2>2, <2>3 DEF CopyFiles
<1>3. CASE LoaderCheck \/ Grab \/ Load
  <2>1. UNCHANGED <<jobs, todo, loadQ, workQ, dumpQ, finished, jobType, pass, cur>>
    BY <1>3 DEF LoaderCheck, Grab, Load, control, queues
  <2>2. CASE UNCHANGED pc BY <2>1, <2>2, JobsNotTouched DEF threads
  <2>3. CASE \E p : Goto(Loader, p) BY <2>1, <2>3, JobsKept
  <2> QED BY <1>3, <2>2, <2>3 DEF LoaderCheck, Grab, Load
<1>4. CASE Dump
  <2>1. UNCHANGED <<jobs, todo, loadQ, workQ, dumpQ, finished, jobType, pass, cur>>
    BY <1>4 DEF Dump, control, queues
  <2>2. CASE UNCHANGED pc BY <2>1, <2>2, JobsNotTouched DEF threads
  <2>3. CASE Goto(Dumper, "return") BY <2>1, <2>3, JobsKept
  <2> QED BY <1>4, <2>2, <2>3 DEF Dump
<1>5. ASSUME NEW t \in Workers \cup {Dumper}, ReturnArrays(t) PROVE JobsInv'
  <2>1. UNCHANGED <<jobs, todo, loadQ, workQ, dumpQ, finished, jobType, pass, cur>>
    BY <1>5 DEF ReturnArrays, control
  <2>2. "clear" \notin JobPoints /\ pc[t] \notin JobPoints BY <1>5 DEF ReturnArrays, JobPoints
  <2> QED BY <1>5, <2>1, <2>2, JobsKept DEF ReturnArrays
<1>6. ASSUME NEW t \in Workers \cup {Dumper}, ClearArrays(t) PROVE JobsInv'
  <2>1. UNCHANGED <<jobs, todo, loadQ, workQ, dumpQ, finished, jobType, pass>>
    BY <1>6 DEF ClearArrays, control, queues
  <2>2. CASE t = Dumper BY <1>6, <2>1, <2>2, JobsKept DEF ClearArrays
  <2>3. CASE t \in Workers
    <3>1. /\ pc' = [pc EXCEPT ![t] = "wait"] /\ cur' = [cur EXCEPT ![t] = None]
          /\ pc[t] = "clear"
      BY <1>6, <2>3 DEF ClearArrays, Goto
    <3>2. \A w \in Workers, g \in Subgames : Works(w, g)' <=> Works(w, g)
      <4> TAKE w \in Workers, g \in Subgames
      <4>1. ~Works(t, g) BY <3>1 DEF Works, JobPoints
      <4> QED BY <1>0, <3>1, <4>1, WorksKept
    <3>3. cur'[Loader] = cur[Loader] /\ cur'[Dumper] = cur[Dumper]
      BY <1>0, <2>3, <3>1 DEF ThreadsType
    <3>4. PointsFit'
      <4>1. pc'[t] = "wait" /\ \A w \in Workers \ {t} : pc'[w] = pc[w]
        BY <1>0, <3>1 DEF ThreadsType
      <4> QED BY <2>1, <4>1 DEF JobsInv, PointsFit
    <3> QED BY <2>1, <3>2, <3>3, <3>4, JobsStay
  <2> QED BY <2>2, <2>3
<1>7. CASE UNCHANGED vars BY <1>7, JobsNotTouched DEF vars, control, queues
<1> QED BY Steps, SubmitJobs, LoaderJobs, WorkerTakesJob, WorkerLeavesJob, DumperJobs,
          NewPassJobs, StopJobs, ResumeJobs, <1>1, <1>2, <1>3, <1>4, <1>5, <1>6, <1>7

-----------------------------------------------------------------------------
(* Who holds a subgame's arrays *)

HoldPoints(t) == {"load", "enqueue", "perform", "toDump", "dump", "return", "clear"}
                 \cup IF t = Dumper THEN {} ELSE {"report"}
Holds(t, g)   == cur[t] = g /\ pc[t] \in HoldPoints(t)
Queued(g)     == g \in Range(dumpQ) \/ (g \in Range(workQ) /\ pass # "load")

(* A subgame that has arrays has them at one place.                        *)
HoldersInv ==
  /\ \A g \in Subgames :
       /\ arraysIndex[g] # None <=> (Queued(g) \/ \E t \in Threads : Holds(t, g))
       /\ \A t \in Threads : Holds(t, g) => ~Queued(g)
       /\ \A t, u \in Threads : Holds(t, g) /\ Holds(u, g) => t = u
       /\ pass \in {"load", "resumed"} => arraysIndex[g] = None
  /\ pc[Loader] = "grab" => arraysIndex[cur[Loader]] = None

LEMMA InitHolders == Init => HoldersInv
<1> SUFFICES ASSUME Init PROVE HoldersInv OBVIOUS
<1> USE ThreadNames DEF Init
<1>1. \A t \in Threads, g \in Subgames : ~Holds(t, g) BY DEF Holds
<1>2. \A g \in Subgames : ~Queued(g) BY DEF Queued, Range
<1> QED BY <1>1, <1>2 DEF HoldersInv

(* A step that leaves arrays and their holders alone.                      *)
LEMMA HoldersStay ==
  ASSUME HoldersInv, UNCHANGED arraysIndex, pass' \in {"load", "resumed"} => pass \in {"load", "resumed"},
         \A g \in Subgames : Queued(g)' <=> Queued(g),
         \A g \in Subgames, t \in Threads : Holds(t, g)' <=> Holds(t, g),
         pc'[Loader] = "grab" => /\ pc[Loader] = "grab" \/ arraysIndex[cur[Loader]] = None
                                 /\ cur'[Loader] = cur[Loader]
  PROVE  HoldersInv'
BY DEF HoldersInv

(* A step of thread t, from a place where it does or does not hold b to    *)
(* one where it does or does not hold c.                                   *)
LEMMA OtherHolders ==
  ASSUME ThreadsType, NEW t \in Threads, NEW p, NEW c,
         pc' = [pc EXCEPT ![t] = p], cur' = [cur EXCEPT ![t] = c]
  PROVE  /\ \A g : Holds(t, g)' <=> (c = g /\ p \in HoldPoints(t))
         /\ \A g : \A u \in Threads \ {t} : Holds(u, g)' <=> Holds(u, g)
         /\ pc'[t] = p /\ cur'[t] = c
         /\ \A u \in Threads \ {t} : pc'[u] = pc[u] /\ cur'[u] = cur[u]
BY DEF Holds, ThreadsType, HoldPoints

(* A subgame m of thread t, which holds m's arrays before and after.       *)
LEMMA HolderKept ==
  ASSUME Types, HoldersInv, NEW t \in Threads, NEW p, Goto(t, p), UNCHANGED <<cur, arraysIndex, pass>>,
         p \in HoldPoints(t) <=> pc[t] \in HoldPoints(t), p # "grab",
         UNCHANGED <<workQ, dumpQ>>
  PROVE  HoldersInv'
<1>0. ThreadsType BY DEF Types
<1>1. pc' = [pc EXCEPT ![t] = p] /\ cur' = [cur EXCEPT ![t] = cur[t]]
  BY <1>0 DEF Goto, ThreadsType
<1>2. \A g \in Subgames, u \in Threads : Holds(u, g)' <=> Holds(u, g)
  <2> TAKE g \in Subgames, u \in Threads
  <2>1. CASE u = t BY <1>0, <1>1, <2>1, OtherHolders DEF Holds
  <2>2. CASE u # t BY <1>0, <1>1, <2>2, OtherHolders
  <2> QED BY <2>1, <2>2
<1>3. \A g \in Subgames : Queued(g)' <=> Queued(g) BY DEF Queued
<1>4. pc'[Loader] = "grab" => pc[Loader] = "grab" /\ cur'[Loader] = cur[Loader]
  BY <1>0, <1>1, ThreadNames DEF ThreadsType
<1> QED BY <1>2, <1>3, <1>4, HoldersStay

(* Subgame m's arrays pass from one holder to another, or to or from none. *)
LEMMA HolderChanges ==
  ASSUME HoldersInv, NEW m \in Subgames,
         \A g \in Subgames \ {m} :
           /\ arraysIndex'[g] = arraysIndex[g]
           /\ Queued(g)' <=> Queued(g)
           /\ \A t \in Threads : Holds(t, g)' <=> Holds(t, g),
         arraysIndex'[m] # None <=> (Queued(m)' \/ \E t \in Threads : Holds(t, m)'),
         \A t \in Threads : Holds(t, m)' => ~Queued(m)',
         \A t, u \in Threads : Holds(t, m)' /\ Holds(u, m)' => t = u,
         pass' = pass, pass \in {"load", "resumed"} => arraysIndex'[m] = None,
         pc'[Loader] = "grab" => /\ pc[Loader] = "grab" /\ cur'[Loader] = cur[Loader]
                                 /\ cur[Loader] \in Subgames
                                 /\ arraysIndex'[m] = arraysIndex[m] \/ arraysIndex'[m] = None
  PROVE  HoldersInv'
<1>1. ASSUME NEW g \in Subgames
      PROVE  /\ arraysIndex'[g] # None <=> (Queued(g)' \/ \E t \in Threads : Holds(t, g)')
             /\ \A t \in Threads : Holds(t, g)' => ~Queued(g)'
             /\ \A t, u \in Threads : Holds(t, g)' /\ Holds(u, g)' => t = u
             /\ pass' \in {"load", "resumed"} => arraysIndex'[g] = None
  <2>1. CASE g = m BY <2>1
  <2>2. CASE g # m BY <2>2 DEF HoldersInv
  <2> QED BY <2>1, <2>2
<1>2. pc'[Loader] = "grab" => arraysIndex'[cur'[Loader]] = None BY DEF HoldersInv
<1> QED BY <1>1, <1>2 DEF HoldersInv

(* A thread moves between points where it holds nothing.                   *)
LEMMA HoldersQuiet ==
  ASSUME Types, HoldersInv, NEW t \in Threads, NEW p, NEW c,
         pc' = [pc EXCEPT ![t] = p], cur' = [cur EXCEPT ![t] = c],
         pc[t] \notin HoldPoints(t), p \notin HoldPoints(t), p # "grab",
         UNCHANGED <<arraysIndex, pass>>, \A g \in Subgames : Queued(g)' <=> Queued(g)
  PROVE  HoldersInv'
<1>0. ThreadsType BY DEF Types
<1>1. \A g \in Subgames, u \in Threads : Holds(u, g)' <=> Holds(u, g)
  <2> TAKE g \in Subgames, u \in Threads
  <2>1. CASE u = t BY <1>0, <2>1, OtherHolders DEF Holds
  <2>2. CASE u # t BY <1>0, <2>2, OtherHolders
  <2> QED BY <2>1, <2>2
<1>2. pc'[Loader] = "grab" => pc[Loader] = "grab" /\ cur'[Loader] = cur[Loader]
  BY <1>0, ThreadNames DEF ThreadsType
<1> QED BY <1>1, <1>2, HoldersStay

(* Thread t moves, and m's arrays come to it or leave it.                  *)
LEMMA HolderMoves ==
  ASSUME Types, HoldersInv, NEW t \in Threads, NEW p, NEW m \in Subgames, NEW c \in {None, m},
         pc' = [pc EXCEPT ![t] = p], cur' = [cur EXCEPT ![t] = c], cur[t] \in {None, m},
         p # "grab", pass' = pass, pass \in {"load", "resumed"} => arraysIndex'[m] = None,
         t = Loader \/ arraysIndex'[m] \in {arraysIndex[m], None},
         \A g \in Subgames \ {m} : arraysIndex'[g] = arraysIndex[g] /\ (Queued(g)' <=> Queued(g)),
         \A u \in Threads \ {t} : ~Holds(u, m),
         ~(Queued(m)' /\ c = m /\ p \in HoldPoints(t)),
         arraysIndex'[m] # None <=> (Queued(m)' \/ (c = m /\ p \in HoldPoints(t)))
  PROVE  HoldersInv'
<1> USE ThreadNames
<1>0. ThreadsType BY DEF Types
<1>1. /\ \A g : Holds(t, g)' <=> (c = g /\ p \in HoldPoints(t))
      /\ \A g : \A u \in Threads \ {t} : Holds(u, g)' <=> Holds(u, g)
      /\ pc'[t] = p /\ \A u \in Threads \ {t} : pc'[u] = pc[u] /\ cur'[u] = cur[u]
  BY <1>0, OtherHolders
<1>2. \A g \in Subgames \ {m}, u \in Threads : Holds(u, g)' <=> Holds(u, g)
  <2> TAKE g \in Subgames \ {m}, u \in Threads
  <2>1. CASE u = t
    <3>1. ~Holds(t, g) BY DEF Holds
    <3> QED BY <1>1, <2>1, <3>1
  <2>2. CASE u # t BY <1>1, <2>2
  <2> QED BY <2>1, <2>2
<1>3. pc'[Loader] = "grab" => /\ pc[Loader] = "grab" /\ cur'[Loader] = cur[Loader]
                              /\ cur[Loader] \in Subgames /\ t # Loader
  BY <1>0, <1>1 DEF ThreadsType
<1>4. \A u, v \in Threads : Holds(u, m)' /\ Holds(v, m)' => u = v BY <1>1
<1>5. \A u \in Threads : Holds(u, m)' => ~Queued(m)' BY <1>1
<1>6. arraysIndex'[m] # None <=> (Queued(m)' \/ \E u \in Threads : Holds(u, m)') BY <1>1
<1> QED BY <1>2, <1>3, <1>4, <1>5, <1>6, HolderChanges

(* The job that a thread has.                                              *)
LEMMA LoaderHas == ASSUME Types, JobsInv, NEW m \in Subgames, cur[Loader] = m
                   PROVE  JobAt(m, "loader") /\ KindAt(m, "loader")
BY DEF JobsInv, PlacesInv, JobAt

LEMMA WorkerHas == ASSUME Types, JobsInv, NEW w \in Workers, NEW m \in Subgames, Works(w, m)
                   PROVE  JobAt(m, "worker") /\ KindAt(m, "worker")
BY DEF JobsInv, PlacesInv, JobAt, AtWork

LEMMA LoaderHolders ==
  ASSUME Types, JobsInv, HoldersInv, poolQ \in Seq(Arrays),
         LoaderTake \/ LoaderCheck \/ Grab \/ Load \/ Enqueue
  PROVE  HoldersInv'
<1> USE ThreadNames
<1>0. ThreadsType BY DEF Types
<1>1. pass' = pass /\ dumpQ' = dumpQ
  BY DEF LoaderTake, LoaderCheck, Grab, Load, Enqueue, control, queues
<1>2. CASE LoaderTake
  <2>1. PICK p \in {"gone", "check"} :
          pc' = [pc EXCEPT ![Loader] = p] /\ cur' = [cur EXCEPT ![Loader] = Head(loadQ)]
    BY <1>2 DEF LoaderTake, Goto
  <2>2. \A g \in Subgames : Queued(g)' <=> Queued(g) BY <1>1, <1>2 DEF LoaderTake, Queued
  <2>3. pc[Loader] \notin HoldPoints(Loader) /\ p \notin HoldPoints(Loader)
    BY <1>2 DEF LoaderTake, HoldPoints
  <2>4. UNCHANGED arraysIndex BY <1>2 DEF LoaderTake
  <2> QED BY <1>1, <2>1, <2>2, <2>3, <2>4, HoldersQuiet
<1>3. CASE LoaderCheck \/ (Load /\ UNCHANGED pc)
  <2>1. UNCHANGED <<arraysIndex, workQ, dumpQ, cur>> BY <1>3 DEF LoaderCheck, Load, queues
  <2>2. \A g \in Subgames : Queued(g)' <=> Queued(g) BY <1>1, <2>1 DEF Queued
  <2>3. CASE UNCHANGED pc BY <1>1, <2>1, <2>2, <2>3, HoldersStay DEF Holds
  <2>4. CASE Goto(Loader, "grab") /\ LoaderCheck /\ arraysIndex[cur[Loader]] = None
    <3>1. \A g \in Subgames, t \in Threads : Holds(t, g)' <=> Holds(t, g)
      <4> TAKE g \in Subgames, t \in Threads
      <4>1. CASE t = Loader
        BY <1>0, <2>4, <4>1 DEF Goto, LoaderCheck, ThreadsType, Holds, HoldPoints
      <4>2. CASE t # Loader
        <5>1. pc'[t] = pc[t] /\ cur'[t] = cur[t] BY <1>0, <2>1, <2>4, <4>2 DEF Goto, ThreadsType
        <5> QED BY <5>1 DEF Holds
      <4> QED BY <4>1, <4>2
    <3> QED BY <1>1, <2>1, <2>2, <2>4, <3>1, HoldersStay
  <2> QED BY <1>3, <2>3, <2>4 DEF LoaderCheck
<1>4. CASE Load /\ ~UNCHANGED pc
  <2>1. Goto(Loader, "enqueue") /\ pc[Loader] = "load" /\ UNCHANGED <<cur, arraysIndex, workQ, dumpQ>>
    BY <1>4 DEF Load, queues
  <2>2. "enqueue" \in HoldPoints(Loader) /\ "load" \in HoldPoints(Loader) BY DEF HoldPoints
  <2> QED BY <1>1, <2>1, <2>2, HolderKept
<1>5. CASE Grab
  <2>1. PICK m \in Subgames : m = cur[Loader] BY <1>0, <1>5 DEF Grab, ThreadsType
  <2>2. PICK a \in Arrays : a = Head(poolQ) BY <1>5, Taken DEF Grab
  <2>3. arraysIndex'[m] = a /\ \A g \in Subgames \ {m} : arraysIndex'[g] = arraysIndex[g]
    BY <1>5, <2>1, <2>2 DEF Grab, Types, DataType
  <2>4. /\ pc' = [pc EXCEPT ![Loader] = "load"] /\ cur' = [cur EXCEPT ![Loader] = m]
        /\ UNCHANGED workQ
    BY <1>0, <1>5, <2>1 DEF Grab, Goto, ThreadsType
  <2>5. \A g \in Subgames : Queued(g)' <=> Queued(g) BY <1>1, <2>4 DEF Queued
  <2>6. arraysIndex[m] = None BY <1>5, <2>1 DEF Grab, HoldersInv
  <2>7. ~Queued(m) /\ \A u \in Threads : ~Holds(u, m) BY <2>6 DEF HoldersInv
  <2>8. pass \notin {"load", "resumed"}
    <3>1. KindAt(m, "loader") BY <2>1, LoaderHas
    <3> QED BY <3>1 DEF KindAt, Passes
  <2>9. "load" \in HoldPoints(Loader) BY DEF HoldPoints
  <2> QED BY <1>1, <2>1, <2>2, <2>3, <2>4, <2>5, <2>7, <2>8, <2>9, HolderMoves
<1>6. CASE Enqueue
  <2>1. PICK m \in Subgames : m = cur[Loader] BY <1>0, <1>6 DEF Enqueue, ThreadsType
  <2>2. JobAt(m, "loader") /\ KindAt(m, "loader") BY <2>1, LoaderHas
  <2>3. /\ pc' = [pc EXCEPT ![Loader] = "wait"] /\ cur' = [cur EXCEPT ![Loader] = None]
        /\ UNCHANGED arraysIndex
    BY <1>6 DEF Enqueue, Goto
  <2>4. Range(workQ') = Range(workQ) \cup {m}
    BY <1>6, <2>1, <2>2, JobAppended DEF Enqueue, JobAt, JobsInv, OnceInv, Types, QueuesType
  <2>5. Holds(Loader, m) BY <1>6, <2>1 DEF Enqueue, Holds, HoldPoints
  <2>6. \A u \in Threads \ {Loader} : ~Holds(u, m) BY <2>5 DEF HoldersInv
  <2>7. arraysIndex[m] # None BY <2>5 DEF HoldersInv
  <2>8. pass \notin {"load", "resumed"} BY <2>2 DEF KindAt, Passes
  <2>9. Queued(m)' BY <1>1, <2>4, <2>8 DEF Queued
  <2>10. \A g \in Subgames \ {m} : Queued(g)' <=> Queued(g) BY <1>1, <2>4 DEF Queued
  <2> QED BY <1>1, <2>1, <2>3, <2>6, <2>7, <2>8, <2>9, <2>10, HolderMoves
<1> QED BY <1>2, <1>3, <1>4, <1>5, <1>6

LEMMA WorkerHolders ==
  ASSUME Types, JobsInv, HoldersInv, NEW w \in Workers,
         WorkerTake(w) \/ Perform(w) \/ ToDump(w) \/ ReportBR(w) \/ CopyFiles(w) \/ ReportLoad(w)
  PROVE  HoldersInv'
<1> USE ThreadNames
<1>0. ThreadsType BY DEF Types
<1>1. pass' = pass /\ arraysIndex' = arraysIndex
  BY DEF WorkerTake, Perform, ToDump, ReportBR, CopyFiles, ReportLoad, control
<1>2. CASE WorkerTake(w)
  <2> DEFINE h == Head(workQ)
  <2>1. /\ h \in Subgames \cup {Quit} /\ Range(workQ) = Range(workQ') \cup {h}
        /\ (h \in Subgames => h \notin Range(workQ')) /\ UNCHANGED dumpQ
    BY <1>2, JobTaken DEF WorkerTake, JobsInv, OnceInv, Types, QueuesType
  <2>2. cur[w] = None /\ pc[w] = "wait" /\ cur' = [cur EXCEPT ![w] = h]
    BY <1>0, <1>2 DEF WorkerTake, ThreadsType
  <2>3. pc[w] \notin HoldPoints(w) BY <2>2 DEF HoldPoints
  <2>4. \A g \in Subgames \ {h} : Queued(g)' <=> Queued(g) BY <1>1, <2>1 DEF Queued
  <2>5. CASE h = Quit
    <3>1. pc' = [pc EXCEPT ![w] = "gone"] BY <1>2, <2>5 DEF WorkerTake, Goto
    <3>2. "gone" \notin HoldPoints(w) BY DEF HoldPoints
    <3>3. \A g \in Subgames : Queued(g)' <=> Queued(g) BY <2>4, <2>5
    <3> HIDE DEF h
    <3> QED BY <1>1, <2>2, <2>3, <3>1, <3>2, <3>3, HoldersQuiet
  <2>6. CASE h \in Subgames
    <3>1. PICK m \in Subgames : m = h BY <2>6
    <3>2. JobAt(m, "workQ") /\ KindAt(m, "workQ")
      BY <2>1, <3>1 DEF JobsInv, PlacesInv, JobAt
    <3>3. CASE pass = "load"
      <4>1. pc' = [pc EXCEPT ![w] = "copy"]
        BY <1>2, <3>1, <3>2, <3>3 DEF WorkerTake, Goto, KindAt
      <4>2. "copy" \notin HoldPoints(w) BY DEF HoldPoints
      <4>3. \A g \in Subgames : Queued(g)' <=> Queued(g) BY <1>1, <2>1, <3>3 DEF Queued
      <4> HIDE DEF h
      <4> QED BY <1>1, <2>2, <2>3, <4>1, <4>2, <4>3, HoldersQuiet
    <3>4. CASE pass # "load"
      <4>1. pc' = [pc EXCEPT ![w] = "perform"]
        BY <1>2, <3>1, <3>2, <3>4 DEF WorkerTake, Goto, KindAt
      <4>2. "perform" \in HoldPoints(w) BY DEF HoldPoints
      <4>3. Queued(m) BY <3>2, <3>4 DEF Queued, JobAt
      <4>4. \A u \in Threads : ~Holds(u, m) BY <4>3 DEF HoldersInv
      <4>5. ~Queued(m)' BY <2>1, <3>1, <3>2 DEF Queued, JobAt
      <4>6. arraysIndex[m] # None BY <4>3 DEF HoldersInv
      <4>7. pass \notin {"load", "resumed"} BY <3>2, <3>4 DEF KindAt, Passes
      <4> HIDE DEF h
      <4> QED BY <1>1, <2>2, <2>4, <3>1, <4>1, <4>2, <4>4, <4>5, <4>6, <4>7, HolderMoves
    <3> QED BY <3>3, <3>4
  <2> QED BY <2>1, <2>5, <2>6
<1>3. CASE Perform(w)
  <2>1. UNCHANGED <<workQ, dumpQ, cur>> /\ pc[w] = "perform" BY <1>3 DEF Perform, queues
  <2>2. CASE UNCHANGED pc
    <3>1. \A g \in Subgames : Queued(g)' <=> Queued(g) BY <1>1, <2>1 DEF Queued
    <3>2. \A g \in Subgames, t \in Threads : Holds(t, g)' <=> Holds(t, g)
      BY <2>1, <2>2 DEF Holds
    <3> QED BY <1>1, <2>1, <2>2, <3>1, <3>2, HoldersStay
  <2>3. CASE \E p \in {"report", "toDump"} : Goto(w, p)
    <3>1. \A p \in {"report", "toDump", "perform"} : p \in HoldPoints(w) BY DEF HoldPoints
    <3> QED BY <1>1, <2>1, <2>3, <3>1, HolderKept
  <2> QED BY <1>3, <2>2, <2>3 DEF Perform
<1>4. CASE ReportBR(w)
  <2>1. Goto(w, "return") /\ pc[w] = "report" /\ UNCHANGED <<workQ, dumpQ, cur>>
    BY <1>4 DEF ReportBR, queues
  <2>2. "return" \in HoldPoints(w) /\ "report" \in HoldPoints(w) BY DEF HoldPoints
  <2> QED BY <1>1, <2>1, <2>2, HolderKept
<1>5. CASE CopyFiles(w)
  <2>1. UNCHANGED <<workQ, dumpQ, cur>> /\ pc[w] = "copy" BY <1>5 DEF CopyFiles, queues
  <2>2. CASE UNCHANGED pc
    <3>1. \A g \in Subgames : Queued(g)' <=> Queued(g) BY <1>1, <2>1 DEF Queued
    <3>2. \A g \in Subgames, t \in Threads : Holds(t, g)' <=> Holds(t, g)
      BY <2>1, <2>2 DEF Holds
    <3> QED BY <1>1, <2>1, <2>2, <3>1, <3>2, HoldersStay
  <2>3. CASE Goto(w, "reportLoad")
    <3>1. "reportLoad" \notin HoldPoints(w) /\ "copy" \notin HoldPoints(w) BY DEF HoldPoints
    <3> QED BY <1>1, <2>1, <2>3, <3>1, HolderKept
  <2> QED BY <1>5, <2>2, <2>3 DEF CopyFiles
<1>6. CASE ReportLoad(w)
  <2>1. /\ pc' = [pc EXCEPT ![w] = "wait"] /\ cur' = [cur EXCEPT ![w] = None]
        /\ pc[w] = "reportLoad" /\ UNCHANGED <<workQ, dumpQ>>
    BY <1>6 DEF ReportLoad, Goto, queues
  <2>2. "wait" \notin HoldPoints(w) /\ "reportLoad" \notin HoldPoints(w) BY DEF HoldPoints
  <2>3. \A g \in Subgames : Queued(g)' <=> Queued(g) BY <1>1, <2>1 DEF Queued
  <2> QED BY <1>1, <2>1, <2>2, <2>3, HoldersQuiet
<1>7. CASE ToDump(w)
  <2>1. PICK m \in Subgames : m = cur[w] BY <1>0, <1>7 DEF ToDump, ThreadsType
  <2>2. Works(w, m) BY <1>7, <2>1 DEF ToDump, Works, JobPoints
  <2>3. JobAt(m, "worker") /\ KindAt(m, "worker") BY <2>2, WorkerHas
  <2>4. /\ pc' = [pc EXCEPT ![w] = "wait"] /\ cur' = [cur EXCEPT ![w] = None]
        /\ UNCHANGED workQ
    BY <1>7 DEF ToDump, Goto
  <2>5. Range(dumpQ') = Range(dumpQ) \cup {m}
    BY <1>7, <2>1, <2>3, JobAppended DEF ToDump, JobAt, JobsInv, OnceInv, Types, QueuesType
  <2>6. Holds(w, m) BY <1>7, <2>1 DEF ToDump, Holds, HoldPoints
  <2>7. \A u \in Threads \ {w} : ~Holds(u, m) BY <2>6 DEF HoldersInv
  <2>8. arraysIndex[m] # None BY <2>6 DEF HoldersInv
  <2>9. pass \notin {"load", "resumed"} BY <2>8 DEF HoldersInv
  <2>10. Queued(m)' BY <2>5 DEF Queued
  <2>11. \A g \in Subgames \ {m} : Queued(g)' <=> Queued(g) BY <1>1, <2>4, <2>5 DEF Queued
  <2> QED BY <1>1, <2>1, <2>4, <2>7, <2>8, <2>9, <2>10, <2>11, HolderMoves
<1> QED BY <1>2, <1>3, <1>4, <1>5, <1>6, <1>7

LEMMA DumperHolders ==
  ASSUME Types, JobsInv, HoldersInv, DumperTake \/ Dump \/ ReportCFR
  PROVE  HoldersInv'
<1> USE ThreadNames
<1>0. ThreadsType BY DEF Types
<1>1. pass' = pass /\ arraysIndex' = arraysIndex /\ workQ' = workQ
  BY DEF DumperTake, Dump, ReportCFR, control, queues
<1>2. CASE DumperTake
  <2> DEFINE h == Head(dumpQ)
  <2>1. /\ h \in Subgames \cup {Quit} /\ Range(dumpQ) = Range(dumpQ') \cup {h}
        /\ (h \in Subgames => h \notin Range(dumpQ'))
    BY <1>2, JobTaken DEF DumperTake, JobsInv, OnceInv, Types, QueuesType
  <2>2. cur[Dumper] = None /\ pc[Dumper] = "wait" /\ cur' = [cur EXCEPT ![Dumper] = h]
    BY <1>0, <1>2 DEF DumperTake, ThreadsType
  <2>3. \A g \in Subgames \ {h} : Queued(g)' <=> Queued(g) BY <1>1, <2>1 DEF Queued
  <2>4. CASE h = Quit
    <3>1. pc' = [pc EXCEPT ![Dumper] = "gone"] BY <1>2, <2>4 DEF DumperTake, Goto
    <3>2. "gone" \notin HoldPoints(Dumper) /\ "wait" \notin HoldPoints(Dumper) BY DEF HoldPoints
    <3>3. \A g \in Subgames : Queued(g)' <=> Queued(g) BY <2>3, <2>4
    <3> HIDE DEF h
    <3> QED BY <1>1, <2>2, <3>1, <3>2, <3>3, HoldersQuiet
  <2>5. CASE h \in Subgames
    <3>1. PICK m \in Subgames : m = h BY <2>5
    <3>2. JobAt(m, "dumpQ") BY <2>1, <3>1 DEF JobsInv, PlacesInv, JobAt
    <3>3. pc' = [pc EXCEPT ![Dumper] = "dump"] BY <1>2, <3>1 DEF DumperTake, Goto
    <3>4. "dump" \in HoldPoints(Dumper) BY DEF HoldPoints
    <3>5. Queued(m) BY <3>2 DEF Queued, JobAt
    <3>6. \A u \in Threads : ~Holds(u, m) BY <3>5 DEF HoldersInv
    <3>7. ~Queued(m)' BY <1>1, <2>1, <3>1, <3>2 DEF Queued, JobAt
    <3>8. arraysIndex[m] # None BY <3>5 DEF HoldersInv
    <3>9. pass \notin {"load", "resumed"} BY <3>8 DEF HoldersInv
    <3> HIDE DEF h
    <3> QED BY <1>1, <2>2, <2>3, <3>1, <3>3, <3>4, <3>6, <3>7, <3>8, <3>9, HolderMoves
  <2> QED BY <2>1, <2>4, <2>5
<1>3. CASE Dump
  <2>1. UNCHANGED <<workQ, dumpQ, cur>> /\ pc[Dumper] = "dump" BY <1>3 DEF Dump, queues
  <2>2. CASE UNCHANGED pc
    <3>1. \A g \in Subgames : Queued(g)' <=> Queued(g) BY <1>1, <2>1 DEF Queued
    <3>2. \A g \in Subgames, t \in Threads : Holds(t, g)' <=> Holds(t, g)
      BY <2>1, <2>2 DEF Holds
    <3> QED BY <1>1, <2>1, <2>2, <3>1, <3>2, HoldersStay
  <2>3. CASE Goto(Dumper, "return")
    <3>1. "return" \in HoldPoints(Dumper) /\ "dump" \in HoldPoints(Dumper) BY DEF HoldPoints
    <3> QED BY <1>1, <2>1, <2>3, <3>1, HolderKept
  <2> QED BY <1>3, <2>2, <2>3 DEF Dump
<1>4. CASE ReportCFR
  <2>1. /\ pc' = [pc EXCEPT ![Dumper] = "wait"] /\ cur' = [cur EXCEPT ![Dumper] = None]
        /\ pc[Dumper] = "report" /\ UNCHANGED dumpQ
    BY <1>4 DEF ReportCFR, Goto, queues
  <2>2. "wait" \notin HoldPoints(Dumper) /\ "report" \notin HoldPoints(Dumper) BY DEF HoldPoints
  <2>3. \A g \in Subgames : Queued(g)' <=> Queued(g) BY <1>1, <2>1 DEF Queued
  <2> QED BY <1>1, <2>1, <2>2, <2>3, HoldersQuiet
<1> QED BY <1>2, <1>3, <1>4

LEMMA ReturnHolders ==
  ASSUME Types, HoldersInv, NEW t \in Workers \cup {Dumper}, ReturnArrays(t) \/ ClearArrays(t)
  PROVE  HoldersInv'
<1> USE ThreadNames
<1>0. ThreadsType BY DEF Types
<1>1. UNCHANGED <<pass, workQ, dumpQ>> BY DEF ReturnArrays, ClearArrays, control, queues
<1>2. \A g \in Subgames : Queued(g)' <=> Queued(g) BY <1>1 DEF Queued
<1>3. CASE ReturnArrays(t)
  <2>1. Goto(t, "clear") /\ pc[t] = "return" /\ UNCHANGED <<cur, arraysIndex>>
    BY <1>3 DEF ReturnArrays
  <2>2. "clear" \in HoldPoints(t) /\ "return" \in HoldPoints(t) BY DEF HoldPoints
  <2> QED BY <1>1, <2>1, <2>2, HolderKept
<1>4. CASE ClearArrays(t)
  <2>1. PICK m \in Subgames : m = cur[t] BY <1>0, <1>4 DEF ClearArrays, ThreadsType
  <2>2. PICK p \in {"report", "wait"}, c \in {None, m} :
         /\ pc' = [pc EXCEPT ![t] = p] /\ cur' = [cur EXCEPT ![t] = c]
         /\ p = IF t = Dumper THEN "report" ELSE "wait"
    <3>1. CASE t = Dumper
      <4>1. cur' = [cur EXCEPT ![t] = m] BY <1>0, <1>4, <2>1, <3>1 DEF ClearArrays, ThreadsType
      <4> QED BY <1>4, <3>1, <4>1 DEF ClearArrays, Goto
    <3>2. CASE t # Dumper BY <1>4, <3>2 DEF ClearArrays, Goto
    <3> QED BY <3>1, <3>2
  <2>3. p \notin HoldPoints(t) /\ p # "grab" BY <2>2 DEF HoldPoints
  <2>4. Holds(t, m) BY <1>4, <2>1 DEF ClearArrays, Holds, HoldPoints
  <2>5. ~Queued(m) /\ \A u \in Threads \ {t} : ~Holds(u, m) BY <2>4 DEF HoldersInv
  <2>6. arraysIndex'[m] = None /\ \A g \in Subgames \ {m} : arraysIndex'[g] = arraysIndex[g]
    BY <1>4, <2>1 DEF ClearArrays, Types, DataType
  <2> QED BY <1>1, <1>2, <2>1, <2>2, <2>3, <2>5, <2>6, HolderMoves
<1> QED BY <1>3, <1>4

LEMMA MainHolders ==
  ASSUME Types, JobsInv, HoldersInv,
         \/ \E g \in Subgames : Submit(g) \/ SubmitLoad(g)
         \/ Stop \/ Save \/ \E next \in Passes \cup {"quit"} : StartPass(next)
  PROVE  HoldersInv'
<1> USE ThreadNames
<1>1. UNCHANGED <<arraysIndex, pc, cur>> BY DEF Submit, SubmitLoad, Stop, Save, StartPass, threads
<1>2. \A g \in Subgames, t \in Threads : Holds(t, g)' <=> Holds(t, g) BY <1>1 DEF Holds
<1>3. ASSUME pass' \in {"load", "resumed"} => pass \in {"load", "resumed"},
             \A g \in Subgames : Queued(g)' <=> Queued(g)
      PROVE  HoldersInv'
  BY <1>1, <1>2, <1>3, HoldersStay
<1>4. ASSUME NEW g \in Subgames, Submit(g) PROVE HoldersInv'
  <2>1. \A f \in Subgames : Queued(f)' <=> Queued(f) BY <1>4 DEF Submit, Queued
  <2> QED BY <1>3, <1>4, <2>1 DEF Submit
<1>5. ASSUME NEW g \in Subgames, SubmitLoad(g) PROVE HoldersInv'
  <2>1. \A f \in Subgames : Queued(f)' <=> Queued(f) BY <1>5 DEF SubmitLoad, Queued
  <2> QED BY <1>3, <1>5, <2>1 DEF SubmitLoad
<1>6. CASE Stop
  <2>1. ASSUME NEW q, IsQueue(q), Once(q, Subgames)
        PROVE  Range(Append(q, Quit)) = Range(q) \cup {Quit}
    BY <2>1, JobAppended
  <2>2. /\ Range(workQ') = Range(workQ) \/ Range(workQ') = Range(workQ) \cup {Quit}
        /\ Range(dumpQ') = Range(dumpQ) \/ Range(dumpQ') = Range(dumpQ) \cup {Quit}
    BY <1>6, <2>1 DEF Stop, Types, QueuesType, JobsInv, OnceInv
  <2>3. pass' = pass BY <1>6 DEF Stop
  <2>4. \A f \in Subgames : Queued(f)' <=> Queued(f) BY <2>2, <2>3 DEF Queued
  <2> QED BY <1>3, <2>3, <2>4
<1>7. ASSUME Save \/ \E next \in Passes \cup {"quit"} : StartPass(next) PROVE HoldersInv'
  <2>1. todo = {} /\ AllReported /\ UNCHANGED <<workQ, dumpQ>>
    BY <1>7 DEF Save, StartPass, queues
  <2>2. \A f \in Subgames : f \notin Range(workQ) /\ f \notin Range(dumpQ)
    <3> TAKE f \in Subgames
    <3>1. JobAt(f, "done") \/ JobAt(f, "idle") BY <2>1, AllDone
    <3> QED BY <3>1 DEF JobAt
  <2>3. \A f \in Subgames : Queued(f)' <=> Queued(f) BY <2>1, <2>2 DEF Queued
  <2>4. pass' \in {"load", "resumed"} => pass \in {"load", "resumed"}
    <3>1. CASE Save BY <3>1 DEF Save
    <3>2. ASSUME NEW next \in Passes \cup {"quit"}, StartPass(next), pass' \in {"load", "resumed"}
          PROVE  pass = "resumed"
      <4>1. pass' = next /\ <<pass, next>> \in Schedule BY <3>2 DEF StartPass
      <4>2. next = "load" BY <3>2, <4>1 DEF Passes
      <4> QED BY <4>1, <4>2, ScheduleAssumption
    <3> QED BY <1>7, <3>1, <3>2
  <2> QED BY <1>3, <2>3, <2>4
<1> QED BY <1>4, <1>5, <1>6, <1>7

LEMMA HoldersStep == Types /\ JobsInv /\ HoldersInv /\ poolQ \in Seq(Arrays) /\ [Next]_vars => HoldersInv'
<1> SUFFICES ASSUME Types, JobsInv, HoldersInv, poolQ \in Seq(Arrays), [Next]_vars PROVE HoldersInv'
  OBVIOUS
<1>1. CASE Resume
  <2>1. \A t \in Threads : pc'[t] = "wait" /\ cur'[t] = None BY <1>1 DEF Resume
  <2>2. \A t \in Threads, g \in Subgames : ~Holds(t, g)' BY <2>1, ThreadNames DEF Holds
  <2>3. \A g \in Subgames : ~Queued(g)' /\ arraysIndex'[g] = None
    BY <1>1 DEF Resume, Queued, Range
  <2> QED BY <2>1, <2>2, <2>3, ThreadNames DEF HoldersInv
<1>2. CASE UNCHANGED vars
  <2>1. UNCHANGED <<arraysIndex, pc, cur, pass, workQ, dumpQ>>
    BY <1>2 DEF vars, control, queues, threads
  <2> QED BY <2>1, HoldersStay DEF Holds, Queued
<1> QED BY Steps, MainHolders, LoaderHolders, WorkerHolders, ReturnHolders, DumperHolders,
          <1>1, <1>2

-----------------------------------------------------------------------------
(* The pool *)

(* Between returning and clearing a subgame still names arrays that are    *)
(* no longer its own.                                                      *)
Returned(g) == \E t \in Threads : pc[t] = "clear" /\ cur[t] = g
Owns(g)     == arraysIndex[g] # None /\ ~Returned(g)

PoolInv ==
  /\ poolQ \in Seq(Arrays) /\ Once(poolQ, Arrays)
  /\ \A g \in Subgames : Owns(g) => arraysIndex[g] \notin Range(poolQ)
  /\ \A g, h \in Subgames : Owns(g) /\ Owns(h) /\ arraysIndex[g] = arraysIndex[h] => g = h
  /\ \A a \in Arrays : a \in Range(poolQ) \/ \E g \in Subgames : Owns(g) /\ arraysIndex[g] = a

(* The pool of a new process has each set of arrays once.                  *)
LEMMA FullPool ==
  ASSUME NEW q \in [1 .. Cardinality(Arrays) -> Arrays], Range(q) = Arrays
  PROVE  q \in Seq(Arrays) /\ Once(q, Arrays)
<1> DEFINE n == Cardinality(Arrays)
           S == 1 .. n
<1>1. n \in Nat BY SizesAssumption, FS_CardinalityType
<1>2. IsFiniteSet(S) /\ Cardinality(S) = n BY <1>1, FS_Interval
<1>3. q \in Surjection(S, Arrays) BY DEF Range, Surjection
<1> HIDE DEF S
<1>4. q \in Injection(S, Arrays) BY <1>2, <1>3, FS_SurjSameCardinalityImpliesInj
<1>5. Once(q, Arrays) BY <1>4 DEF Injection, IsInjective, Once
<1>6. q \in Seq(Arrays) BY <1>1
<1> QED BY <1>5, <1>6

LEMMA FreshPool ==
  ASSUME poolQ \in [1 .. Cardinality(Arrays) -> Arrays], Range(poolQ) = Arrays,
         \A g \in Subgames : arraysIndex[g] = None
  PROVE  PoolInv
<1>1. \A g \in Subgames : ~Owns(g) BY DEF Owns
<1> QED BY <1>1, FullPool DEF PoolInv

LEMMA InitPool == Init => PoolInv
BY FreshPool DEF Init

LEMMA PoolStays ==
  ASSUME PoolInv, UNCHANGED <<poolQ, arraysIndex>>,
         \A g \in Subgames : Returned(g)' <=> Returned(g)
  PROVE  PoolInv'
<1>1. \A g \in Subgames : Owns(g)' <=> Owns(g) BY DEF Owns
<1> QED BY <1>1 DEF PoolInv

LEMMA ReturnedKept ==
  ASSUME ThreadsType, NEW t \in Threads, NEW p, NEW c, NEW g,
         pc' = [pc EXCEPT ![t] = p], cur' = [cur EXCEPT ![t] = c],
         (c = g /\ p = "clear") <=> (cur[t] = g /\ pc[t] = "clear")
  PROVE  Returned(g)' <=> Returned(g)
<1>1. pc'[t] = p /\ cur'[t] = c /\ \A u \in Threads \ {t} : pc'[u] = pc[u] /\ cur'[u] = cur[u]
  BY DEF ThreadsType
<1> QED BY <1>1 DEF Returned

(* A step that returns and clears nothing.                                 *)
LEMMA PoolQuiet ==
  ASSUME Types, PoolInv, UNCHANGED <<poolQ, arraysIndex>>,
         \/ UNCHANGED threads
         \/ \E t \in Threads : /\ pc[t] # "clear" /\ \E p : p # "clear" /\ Goto(t, p)
                               /\ UNCHANGED cur \/ \E c : cur' = [cur EXCEPT ![t] = c]
  PROVE  PoolInv'
<1>0. ThreadsType BY DEF Types
<1>1. CASE UNCHANGED threads
  <2>1. \A g \in Subgames : Returned(g)' <=> Returned(g) BY <1>1 DEF threads, Returned
  <2> QED BY <2>1, PoolStays
<1>2. ASSUME NEW t \in Threads, pc[t] # "clear", NEW p, p # "clear", Goto(t, p),
             UNCHANGED cur \/ \E c : cur' = [cur EXCEPT ![t] = c]
      PROVE  PoolInv'
  <2>1. PICK c : cur' = [cur EXCEPT ![t] = c] 
    <3>1. UNCHANGED cur => cur' = [cur EXCEPT ![t] = cur[t]] BY <1>0 DEF ThreadsType
    <3> QED BY <1>2, <3>1
  <2>2. pc' = [pc EXCEPT ![t] = p] BY <1>2 DEF Goto
  <2>3. \A g \in Subgames : Returned(g)' <=> Returned(g) BY <1>0, <1>2, <2>1, <2>2, ReturnedKept
  <2> QED BY <2>3, PoolStays
<1> QED BY <1>1, <1>2

LEMMA GrabPool == ASSUME Types, HoldersInv, PoolInv, Grab PROVE PoolInv'
<1> USE ThreadNames
<1>0. ThreadsType BY DEF Types
<1>1. PICK m \in Subgames : m = cur[Loader] BY <1>0 DEF Grab, ThreadsType
<1>2. PICK a \in Arrays : a = Head(poolQ) BY Taken DEF Grab, PoolInv
<1>3. arraysIndex'[m] = a /\ \A g \in Subgames \ {m} : arraysIndex'[g] = arraysIndex[g]
  BY <1>1, <1>2 DEF Grab, Types, DataType
<1>4. /\ poolQ' \in Seq(Arrays) /\ Once(poolQ', Arrays)
      /\ Range(poolQ) = Range(poolQ') \cup {a} /\ a \notin Range(poolQ')
  BY <1>2, Taken DEF Grab, PoolInv
<1>5. \A g \in Subgames : Returned(g)' <=> Returned(g)
  <2>1. pc' = [pc EXCEPT ![Loader] = "load"] /\ cur' = [cur EXCEPT ![Loader] = m]
    BY <1>0, <1>1 DEF Grab, Goto, ThreadsType
  <2> QED BY <1>0, <2>1, ReturnedKept DEF Grab
<1>6. arraysIndex[m] = None BY <1>1 DEF Grab, HoldersInv
<1>7. ~Returned(m)
  <2>1. \A t \in Threads : ~Holds(t, m) BY <1>6 DEF HoldersInv
  <2> QED BY <2>1 DEF Returned, Holds, HoldPoints
<1>8. ~Owns(m) /\ Owns(m)' BY <1>2, <1>3, <1>5, <1>6, <1>7 DEF Owns
<1>9. \A g \in Subgames \ {m} : Owns(g)' <=> Owns(g) BY <1>3, <1>5 DEF Owns
<1>10. ASSUME NEW g \in Subgames, Owns(g)' PROVE arraysIndex'[g] \notin Range(poolQ')
  <2>1. CASE g = m BY <1>3, <1>4, <2>1
  <2>2. CASE g # m BY <1>3, <1>4, <1>9, <1>10, <2>2 DEF PoolInv
  <2> QED BY <2>1, <2>2
<1>11. ASSUME NEW g \in Subgames, NEW h \in Subgames, Owns(g)', Owns(h)',
              arraysIndex'[g] = arraysIndex'[h]
       PROVE  g = h
  <2>1. \A f \in Subgames \ {m} : Owns(f)' => arraysIndex'[f] # a
    BY <1>3, <1>4, <1>9 DEF PoolInv
  <2> QED BY <1>3, <1>9, <1>11, <2>1 DEF PoolInv
<1>12. ASSUME NEW b \in Arrays
       PROVE  b \in Range(poolQ') \/ \E g \in Subgames : Owns(g)' /\ arraysIndex'[g] = b
  <2>1. CASE b = a BY <1>3, <1>8, <2>1
  <2>2. CASE b # a
    <3>1. CASE b \in Range(poolQ) BY <1>4, <2>2, <3>1
    <3>2. ASSUME NEW g \in Subgames, Owns(g), arraysIndex[g] = b
          PROVE  Owns(g)' /\ arraysIndex'[g] = b
      BY <1>3, <1>8, <1>9, <3>2
    <3> QED BY <3>1, <3>2 DEF PoolInv
  <2> QED BY <2>1, <2>2
<1> QED BY <1>4, <1>10, <1>11, <1>12 DEF PoolInv

LEMMA ReturnPool ==
  ASSUME Types, HoldersInv, PoolInv, NEW t \in Workers \cup {Dumper}, ReturnArrays(t)
  PROVE  PoolInv'
<1> USE ThreadNames
<1>0. ThreadsType BY DEF Types
<1>1. PICK m \in Subgames : m = cur[t] BY <1>0 DEF ReturnArrays, ThreadsType
<1>2. /\ pc' = [pc EXCEPT ![t] = "clear"] /\ cur' = [cur EXCEPT ![t] = m]
      /\ UNCHANGED arraysIndex
  BY <1>0, <1>1 DEF ReturnArrays, Goto, ThreadsType
<1>3. Holds(t, m) BY <1>1 DEF ReturnArrays, Holds, HoldPoints
<1>4. PICK a \in Arrays : a = arraysIndex[m] BY <1>3 DEF HoldersInv, Types, DataType
<1>5. ~Returned(m)
  <2>1. ASSUME NEW u \in Threads, pc[u] = "clear", cur[u] = m PROVE FALSE
    <3>1. Holds(u, m) BY <2>1 DEF Holds, HoldPoints
    <3>2. u = t BY <1>3, <3>1 DEF HoldersInv
    <3> QED BY <2>1, <3>2 DEF ReturnArrays
  <2> QED BY <2>1 DEF Returned
<1>6. Owns(m) BY <1>4, <1>5 DEF Owns
<1>7. a \notin Range(poolQ) BY <1>4, <1>6 DEF PoolInv
<1>8. /\ poolQ' \in Seq(Arrays) /\ Once(poolQ', Arrays)
      /\ Range(poolQ') = Range(poolQ) \cup {a}
  BY <1>1, <1>4, <1>7, Appended DEF ReturnArrays, PoolInv
<1>9. ~Owns(m)'
  <2>1. pc'[t] = "clear" /\ cur'[t] = m BY <1>0, <1>2 DEF ThreadsType
  <2> QED BY <2>1 DEF Owns, Returned
<1>10. \A g \in Subgames \ {m} : Owns(g)' <=> Owns(g)
  <2>1. \A g \in Subgames \ {m} : Returned(g)' <=> Returned(g)
    BY <1>0, <1>1, <1>2, ReturnedKept
  <2> QED BY <1>2, <2>1 DEF Owns
<1>11. ASSUME NEW g \in Subgames, Owns(g)' PROVE arraysIndex'[g] \notin Range(poolQ')
  <2>1. g # m /\ Owns(g) BY <1>9, <1>10, <1>11
  <2>2. arraysIndex[g] # a BY <1>4, <1>6, <2>1 DEF PoolInv
  <2> QED BY <1>2, <1>8, <2>1, <2>2 DEF PoolInv
<1>12. \A g, h \in Subgames : Owns(g)' /\ Owns(h)' /\ arraysIndex'[g] = arraysIndex'[h] => g = h
  BY <1>2, <1>9, <1>10 DEF PoolInv
<1>13. ASSUME NEW b \in Arrays
       PROVE  b \in Range(poolQ') \/ \E g \in Subgames : Owns(g)' /\ arraysIndex'[g] = b
  <2>1. CASE b = a BY <1>8, <2>1
  <2>2. CASE b \in Range(poolQ) BY <1>8, <2>2
  <2>3. ASSUME b # a, NEW g \in Subgames, Owns(g), arraysIndex[g] = b
        PROVE  Owns(g)' /\ arraysIndex'[g] = b
    BY <1>2, <1>4, <1>10, <2>3
  <2> QED BY <2>1, <2>2, <2>3 DEF PoolInv
<1> QED BY <1>8, <1>11, <1>12, <1>13 DEF PoolInv

LEMMA ClearPool ==
  ASSUME Types, HoldersInv, PoolInv, NEW t \in Workers \cup {Dumper}, ClearArrays(t)
  PROVE  PoolInv'
<1> USE ThreadNames
<1>0. ThreadsType BY DEF Types
<1>1. PICK m \in Subgames : m = cur[t] BY <1>0 DEF ClearArrays, ThreadsType
<1>2. arraysIndex'[m] = None /\ \A g \in Subgames \ {m} : arraysIndex'[g] = arraysIndex[g]
  BY <1>1 DEF ClearArrays, Types, DataType
<1>3. PICK p \in {"report", "wait"}, c \in {None, m} :
        pc' = [pc EXCEPT ![t] = p] /\ cur' = [cur EXCEPT ![t] = c]
  <2>1. CASE t = Dumper
    <3>1. cur' = [cur EXCEPT ![t] = m] BY <1>0, <1>1, <2>1 DEF ClearArrays, ThreadsType
    <3> QED BY <2>1, <3>1 DEF ClearArrays, Goto
  <2>2. CASE t # Dumper BY <2>2 DEF ClearArrays, Goto
  <2> QED BY <2>1, <2>2
<1>4. \A g \in Subgames \ {m} : Returned(g)' <=> Returned(g)
  BY <1>0, <1>1, <1>3, ReturnedKept
<1>5. \A g \in Subgames \ {m} : Owns(g)' <=> Owns(g) BY <1>2, <1>4 DEF Owns
<1>6. ~Owns(m) /\ ~Owns(m)' BY <1>1, <1>2 DEF Owns, Returned, ClearArrays
<1>7. UNCHANGED poolQ BY DEF ClearArrays, queues
<1> QED BY <1>2, <1>5, <1>6, <1>7 DEF PoolInv

LEMMA PoolStep == Types /\ HoldersInv /\ PoolInv /\ [Next]_vars => PoolInv'
<1> SUFFICES ASSUME Types, HoldersInv, PoolInv, [Next]_vars PROVE PoolInv' OBVIOUS
<1> USE ThreadNames
<1>1. ASSUME NEW g \in Subgames, Submit(g) \/ SubmitLoad(g) PROVE PoolInv'
  BY <1>1, PoolQuiet DEF Submit, SubmitLoad
<1>2. CASE Stop \/ Save BY <1>2, PoolQuiet DEF Stop, Save, queues
<1>3. ASSUME NEW next \in Passes \cup {"quit"}, StartPass(next) PROVE PoolInv'
  BY <1>3, PoolQuiet DEF StartPass, queues
<1>4. ASSUME NEW t \in Threads, NEW p, pc[t] # "clear", p # "clear", Goto(t, p),
             UNCHANGED <<poolQ, arraysIndex>>,
             UNCHANGED cur \/ \E c : cur' = [cur EXCEPT ![t] = c]
      PROVE  PoolInv'
  BY <1>4, PoolQuiet
<1>5. ASSUME UNCHANGED <<pc, cur, poolQ, arraysIndex>> PROVE PoolInv'
  BY <1>5, PoolQuiet DEF threads
<1>6. CASE LoaderTake
  <2>1. Goto(Loader, "gone") \/ Goto(Loader, "check") BY <1>6 DEF LoaderTake
  <2> QED BY <1>4, <1>6, <2>1 DEF LoaderTake
<1>7. CASE LoaderCheck BY <1>4, <1>5, <1>7 DEF LoaderCheck, queues
<1>8. CASE Load
  <2>1. UNCHANGED <<poolQ, arraysIndex, cur>> /\ pc[Loader] = "load" BY <1>8 DEF Load, queues
  <2>2. UNCHANGED pc \/ Goto(Loader, "enqueue") BY <1>8 DEF Load
  <2> QED BY <1>4, <1>5, <2>1, <2>2
<1>9. CASE Enqueue BY <1>4, <1>9 DEF Enqueue
<1>10. ASSUME NEW w \in Workers, WorkerTake(w) PROVE PoolInv'
  <2>1. Goto(w, "gone") \/ Goto(w, "copy") \/ Goto(w, "perform") BY <1>10 DEF WorkerTake
  <2>2. pc[w] = "wait" /\ cur' = [cur EXCEPT ![w] = Head(workQ)] /\ UNCHANGED <<poolQ, arraysIndex>>
    BY <1>10 DEF WorkerTake
  <2> QED BY <1>4, <2>1, <2>2
<1>11. ASSUME NEW w \in Workers, Perform(w) PROVE PoolInv'
  <2>1. UNCHANGED <<poolQ, arraysIndex, cur>> /\ pc[w] = "perform" BY <1>11 DEF Perform, queues
  <2>2. UNCHANGED pc \/ Goto(w, "report") \/ Goto(w, "toDump") BY <1>11 DEF Perform
  <2> QED BY <1>4, <1>5, <2>1, <2>2
<1>12. ASSUME NEW w \in Workers, CopyFiles(w) PROVE PoolInv'
  <2>1. UNCHANGED <<poolQ, arraysIndex, cur>> /\ pc[w] = "copy" BY <1>12 DEF CopyFiles, queues
  <2>2. UNCHANGED pc \/ Goto(w, "reportLoad") BY <1>12 DEF CopyFiles
  <2> QED BY <1>4, <1>5, <2>1, <2>2
<1>13. ASSUME NEW w \in Workers, ToDump(w) \/ ReportBR(w) \/ ReportLoad(w) PROVE PoolInv'
  <2>1. UNCHANGED <<poolQ, arraysIndex>> /\ pc[w] \in {"toDump", "report", "reportLoad"}
    BY <1>13 DEF ToDump, ReportBR, ReportLoad, queues
  <2>2. \/ Goto(w, "wait") /\ cur' = [cur EXCEPT ![w] = None]
        \/ Goto(w, "return") /\ UNCHANGED cur
    BY <1>13 DEF ToDump, ReportBR, ReportLoad
  <2> QED BY <1>4, <2>1, <2>2
<1>14. CASE DumperTake
  <2>1. Goto(Dumper, "gone") \/ Goto(Dumper, "dump") BY <1>14 DEF DumperTake
  <2> QED BY <1>4, <1>14, <2>1 DEF DumperTake
<1>15. CASE Dump
  <2>1. UNCHANGED <<poolQ, arraysIndex, cur>> /\ pc[Dumper] = "dump" BY <1>15 DEF Dump, queues
  <2>2. UNCHANGED pc \/ Goto(Dumper, "return") BY <1>15 DEF Dump
  <2> QED BY <1>4, <1>5, <2>1, <2>2
<1>16. CASE ReportCFR BY <1>4, <1>16 DEF ReportCFR, queues
<1>17. CASE Resume
  <2>1. poolQ' \in [1 .. Cardinality(Arrays) -> Arrays] /\ Range(poolQ') = Arrays
    BY <1>17 DEF Resume
  <2>2. \A g \in Subgames : ~Owns(g)' BY <1>17 DEF Resume, Owns
  <2> QED BY <2>1, <2>2, FullPool DEF PoolInv
<1>18. CASE UNCHANGED vars BY <1>5, <1>18 DEF vars, threads, queues
<1> QED BY Steps, GrabPool, ReturnPool, ClearPool, <1>1, <1>2, <1>3, <1>6, <1>7, <1>8, <1>9, <1>10,
          <1>11, <1>12, <1>13, <1>14, <1>15, <1>16, <1>17, <1>18

LEMMA PoolCounts == PoolInv => PoolConserved
<1> SUFFICES ASSUME PoolInv, NEW a \in Arrays
             PROVE  Cardinality({i \in DOMAIN poolQ : poolQ[i] = a}) + Cardinality(Users(a)) = 1
  BY DEF PoolConserved
<1> DEFINE here == {i \in DOMAIN poolQ : poolQ[i] = a}
<1>0. a # None BY ThreadNames
<1>1. \A g \in Subgames : g \in Users(a) <=> (Owns(g) /\ arraysIndex[g] = a)
  BY <1>0 DEF Users, Owns, Returned
<1>2. Users(a) \subseteq Subgames BY DEF Users
<1>3. CASE a \in Range(poolQ)
  <2>1. PICK i \in DOMAIN poolQ : poolQ[i] = a BY <1>3 DEF Range
  <2>2. here = {i} BY <2>1 DEF PoolInv, Once
  <2>3. Users(a) = {} BY <1>1, <1>2, <1>3 DEF PoolInv
  <2>4. Cardinality(here) = 1 BY <2>2, FS_Singleton
  <2>5. Cardinality(Users(a)) = 0 BY <2>3, FS_EmptySet
  <2> QED BY <2>4, <2>5
<1>4. CASE a \notin Range(poolQ)
  <2>1. here = {} BY <1>4 DEF Range
  <2>2. PICK g \in Subgames : Owns(g) /\ arraysIndex[g] = a BY <1>4 DEF PoolInv
  <2>3. Users(a) = {g} BY <1>1, <1>2, <2>2 DEF PoolInv
  <2>4. Cardinality(here) = 0 BY <2>1, FS_EmptySet
  <2>5. Cardinality(Users(a)) = 1 BY <2>3, FS_Singleton
  <2> QED BY <2>4, <2>5
<1> QED BY <1>3, <1>4

-----------------------------------------------------------------------------
(* Refinement of the job service *)

InPending(g) == g \in Range(loadQ) \/ g \in Range(workQ) \/ cur[Loader] = g
InRunning(g) == g \in Range(dumpQ) \/ cur[Dumper] = g \/ AtWork(g)

MapsFit ==
  /\ Pending \subseteq Subgames /\ Running \subseteq Subgames /\ Done \subseteq Subgames
  /\ \A g \in Subgames : /\ g \in Pending <=> InPending(g)
                         /\ g \in Running <=> InRunning(g)
                         /\ g \in Done <=> finished[g] > 0

LEMMA Maps == MapsFit
<1>1. \A g \in Subgames : g \in Pending <=> InPending(g) BY DEF Pending, InPending
<1>2. \A g \in Subgames : g \in Running <=> InRunning(g)
  BY DEF Running, InRunning, AtWork, Works, JobPoints
<1>3. \A g \in Subgames : g \in Done <=> finished[g] > 0 BY DEF Done
<1>4. Pending \subseteq Subgames /\ Running \subseteq Subgames /\ Done \subseteq Subgames
  BY DEF Pending, Running, Done
<1> QED BY <1>1, <1>2, <1>3, <1>4 DEF MapsFit

(* What becomes of the mapped sets when one subgame moves.                 *)
LEMMA MapsMove ==
  ASSUME NEW m \in Subgames,
         \A g \in Subgames \ {m} : /\ InPending(g)' <=> InPending(g)
                                   /\ InRunning(g)' <=> InRunning(g)
                                   /\ finished'[g] = finished[g]
  PROVE  /\ Pending' = IF InPending(m)' THEN Pending \cup {m} ELSE Pending \ {m}
         /\ Running' = IF InRunning(m)' THEN Running \cup {m} ELSE Running \ {m}
         /\ Done' = IF finished'[m] > 0 THEN Done \cup {m} ELSE Done \ {m}
<1>1. MapsFit /\ MapsFit' BY Maps, PTL
<1> QED BY <1>1 DEF MapsFit

LEMMA MapsStay ==
  ASSUME \A g \in Subgames : /\ InPending(g)' <=> InPending(g)
                             /\ InRunning(g)' <=> InRunning(g)
                             /\ finished'[g] > 0 <=> finished[g] > 0
  PROVE  UNCHANGED Service!vars
<1>1. MapsFit /\ MapsFit' BY Maps, PTL
<1>2. Pending' = Pending /\ Running' = Running /\ Done' = Done BY <1>1 DEF MapsFit
<1> QED BY <1>2 DEF Service!vars

(* A job enters the pipeline, is picked up, and is reported.               *)
LEMMA MapsEnter ==
  ASSUME NEW m \in Subgames, ~InPending(m), ~InRunning(m), ~(finished[m] > 0), InPending(m)',
         UNCHANGED finished, \A g \in Subgames : InRunning(g)' <=> InRunning(g),
         \A g \in Subgames \ {m} : InPending(g)' <=> InPending(g)
  PROVE  Service!Submit(m)
<1>1. m \notin Pending /\ m \notin Running /\ m \notin Done BY Maps DEF MapsFit
<1>2. Pending' = Pending \cup {m} /\ Running' = Running /\ Done' = Done BY <1>1, MapsMove
<1> QED BY <1>1, <1>2 DEF Service!Submit

LEMMA MapsStart ==
  ASSUME NEW m \in Subgames, InPending(m), ~InPending(m)', InRunning(m)', UNCHANGED finished,
         \A g \in Subgames \ {m} : (InPending(g)' <=> InPending(g)) /\ (InRunning(g)' <=> InRunning(g))
  PROVE  Service!Start(m)
<1>1. m \in Pending BY Maps DEF MapsFit
<1>2. Pending' = Pending \ {m} /\ Running' = Running \cup {m} /\ Done' = Done
  <2>1. Pending' = Pending \ {m} /\ Running' = Running \cup {m} BY MapsMove
  <2>2. Done' = Done BY DEF Done
  <2> QED BY <2>1, <2>2
<1> QED BY <1>1, <1>2 DEF Service!Start

LEMMA MapsFinish ==
  ASSUME NEW m \in Subgames, InRunning(m), ~InRunning(m)', finished'[m] = 1,
         \A g \in Subgames : InPending(g)' <=> InPending(g),
         \A g \in Subgames \ {m} : (InRunning(g)' <=> InRunning(g)) /\ finished'[g] = finished[g]
  PROVE  Service!Finish(m)
<1>1. m \in Running BY Maps DEF MapsFit
<1>2. Running' = Running \ {m} /\ Done' = Done \cup {m} BY MapsMove
<1>3. MapsFit /\ MapsFit' BY Maps, PTL
<1>4. Pending' = Pending BY <1>3 DEF MapsFit
<1> QED BY <1>1, <1>2, <1>4 DEF Service!Finish

LEMMA SubmitServes ==
  ASSUME Types, JobsInv, NEW m \in Subgames, Submit(m) \/ SubmitLoad(m)
  PROVE  Service!Submit(m)
<1>1. JobAt(m, "todo") BY DEF JobsInv, PlacesInv, JobAt, Submit, SubmitLoad
<1>2. UNCHANGED <<finished, dumpQ, pc, cur>> BY DEF Submit, SubmitLoad, threads
<1>3. \A g : AtWork(g)' <=> AtWork(g) BY <1>2 DEF AtWork, Works
<1>4. \A g \in Subgames : InRunning(g)' <=> InRunning(g) BY <1>2, <1>3 DEF InRunning
<1>5. /\ Range(loadQ') \cup Range(workQ') = (Range(loadQ) \cup Range(workQ)) \cup {m}
  <2>1. CASE Submit(m)
    BY <2>1, <1>1, JobAppended DEF Submit, JobAt, JobsInv, OnceInv, Types, QueuesType
  <2>2. CASE SubmitLoad(m)
    BY <2>2, <1>1, JobAppended DEF SubmitLoad, JobAt, JobsInv, OnceInv, Types, QueuesType
  <2> QED BY <2>1, <2>2
<1>6. ~InPending(m) /\ ~InRunning(m) /\ ~(finished[m] > 0)
  BY <1>1 DEF JobAt, InPending, InRunning
<1>7. InPending(m)' /\ \A g \in Subgames \ {m} : InPending(g)' <=> InPending(g)
  BY <1>2, <1>5 DEF InPending
<1> QED BY <1>2, <1>4, <1>6, <1>7, MapsEnter

LEMMA LoaderServes ==
  ASSUME Types, JobsInv, LoaderTake \/ Enqueue
  PROVE  UNCHANGED Service!vars
<1> USE ThreadNames
<1>0. ThreadsType BY DEF Types
<1>1. UNCHANGED <<finished, dumpQ>> BY DEF LoaderTake, Enqueue
<1>2. \A t \in Threads \ {Loader} : pc'[t] = pc[t] /\ cur'[t] = cur[t]
  BY <1>0 DEF LoaderTake, Enqueue, Goto, ThreadsType
<1>3. \A g : AtWork(g)' <=> AtWork(g) BY <1>2 DEF AtWork, Works
<1>4. \A g \in Subgames : InRunning(g)' <=> InRunning(g) BY <1>1, <1>2, <1>3 DEF InRunning
<1>5. \A g \in Subgames : InPending(g)' <=> InPending(g)
  <2>1. CASE LoaderTake
    <3>1. /\ Range(loadQ) = Range(loadQ') \cup {Head(loadQ)} /\ UNCHANGED workQ
          /\ cur[Loader] = None /\ cur'[Loader] = Head(loadQ)
      BY <1>0, <2>1, JobTaken DEF LoaderTake, JobsInv, OnceInv, Types, QueuesType, ThreadsType
    <3> QED BY <3>1 DEF InPending
  <2>2. CASE Enqueue
    <3>1. PICK m \in Subgames : m = cur[Loader] BY <1>0, <2>2 DEF Enqueue, ThreadsType
    <3>2. JobAt(m, "loader") BY <3>1, LoaderHas
    <3>3. /\ Range(workQ') = Range(workQ) \cup {m} /\ UNCHANGED loadQ /\ cur'[Loader] = None
      BY <1>0, <2>2, <3>1, <3>2, JobAppended
      DEF Enqueue, JobAt, JobsInv, OnceInv, Types, QueuesType, ThreadsType
    <3> QED BY <3>1, <3>3 DEF InPending
  <2> QED BY <2>1, <2>2
<1> QED BY <1>1, <1>4, <1>5, MapsStay

LEMMA WorkerServes ==
  ASSUME Types, JobsInv, NEW w \in Workers, WorkerTake(w) \/ ToDump(w) \/ ReportBR(w) \/ ReportLoad(w)
  PROVE  (\E m \in Subgames : Service!Start(m) \/ Service!Finish(m)) \/ UNCHANGED Service!vars
<1> USE ThreadNames
<1>0. ThreadsType BY DEF Types
<1>1. CASE WorkerTake(w)
  <2> DEFINE h == Head(workQ)
  <2>1. /\ h \in Subgames \cup {Quit} /\ Range(workQ) = Range(workQ') \cup {h}
        /\ (h \in Subgames => h \notin Range(workQ')) /\ UNCHANGED <<loadQ, dumpQ, finished>>
    BY <1>1, JobTaken DEF WorkerTake, JobsInv, OnceInv, Types, QueuesType
  <2>2. /\ cur[w] = None /\ cur' = [cur EXCEPT ![w] = h]
        /\ \E p : pc' = [pc EXCEPT ![w] = p] /\ (h # Quit => p \in JobPoints)
    BY <1>0, <1>1 DEF WorkerTake, ThreadsType, Goto, JobPoints
  <2>3. \A u \in Threads \ {w} : cur'[u] = cur[u] BY <1>0, <2>2 DEF ThreadsType
  <2>4. \A g : (g # None /\ g # h) => (AtWork(g)' <=> AtWork(g))
    <3> HIDE DEF h
    <3>1. \A g : (g # None /\ g # h) => \A v \in Workers : Works(v, g)' <=> Works(v, g)
      BY <1>0, <2>2, OtherWorks
    <3> QED BY <3>1 DEF AtWork
  <2>5. \A g \in Subgames \ {h} : (InPending(g)' <=> InPending(g)) /\ (InRunning(g)' <=> InRunning(g))
    BY <2>1, <2>3, <2>4 DEF InPending, InRunning
  <2>6. CASE h = Quit BY <2>1, <2>5, <2>6, MapsStay
  <2>7. CASE h \in Subgames
    <3>1. PICK m \in Subgames : m = h BY <2>7
    <3>2. JobAt(m, "workQ") BY <2>1, <3>1 DEF JobsInv, PlacesInv, JobAt
    <3>3. InPending(m) /\ ~InPending(m)' BY <2>1, <2>3, <3>1, <3>2 DEF InPending, JobAt
    <3>4. Works(w, m)' BY <1>0, <2>2, <3>1 DEF Works, ThreadsType
    <3>5. InRunning(m)' BY <3>4 DEF InRunning, AtWork
    <3> HIDE DEF h
    <3> QED BY <2>1, <2>5, <3>1, <3>3, <3>5, MapsStart
  <2> QED BY <2>1, <2>6, <2>7
<1>2. CASE ToDump(w) \/ ReportBR(w) \/ ReportLoad(w)
  <2>1. PICK m \in Subgames : m = cur[w]
    BY <1>0, <1>2 DEF ToDump, ReportBR, ReportLoad, ThreadsType
  <2>2. Works(w, m) BY <1>2, <2>1 DEF ToDump, ReportBR, ReportLoad, Works, JobPoints
  <2>3. JobAt(m, "worker") BY <2>2, WorkerHas
  <2>4. PICK p \in {"wait", "return"}, c \in {None, m} :
          pc' = [pc EXCEPT ![w] = p] /\ cur' = [cur EXCEPT ![w] = c]
    <3>1. CASE ToDump(w) \/ ReportLoad(w) BY <3>1 DEF ToDump, ReportLoad, Goto
    <3>2. CASE ReportBR(w)
      <4>1. cur' = [cur EXCEPT ![w] = m] BY <1>0, <2>1, <3>2 DEF ReportBR, ThreadsType
      <4> QED BY <3>2, <4>1 DEF ReportBR, Goto
    <3> QED BY <1>2, <3>1, <3>2
  <2>5. \A u \in Threads \ {w} : cur'[u] = cur[u] /\ pc'[u] = pc[u] BY <1>0, <2>4 DEF ThreadsType
  <2>6. \A g \in Subgames \ {m} : AtWork(g)' <=> AtWork(g)
    <3>1. \A g \in Subgames \ {m} : \A v \in Workers : Works(v, g)' <=> Works(v, g)
      BY <1>0, <2>1, <2>4, OtherWorks
    <3> QED BY <3>1 DEF AtWork
  <2>7. ~AtWork(m)'
    <3>1. ~Works(w, m)' BY <1>0, <2>4 DEF Works, JobPoints, ThreadsType
    <3>2. ASSUME NEW v \in Workers \ {w} PROVE ~Works(v, m)'
      <4>1. ~Works(v, m) BY <2>2 DEF JobsInv, OnceInv
      <4> QED BY <2>5, <4>1 DEF Works
    <3> QED BY <3>1, <3>2 DEF AtWork
  <2>8. UNCHANGED <<loadQ, workQ>> BY <1>2 DEF ToDump, ReportBR, ReportLoad, queues
  <2>9. \A g \in Subgames : InPending(g)' <=> InPending(g) BY <2>5, <2>8 DEF InPending
  <2>10. InRunning(m) BY <2>3 DEF InRunning, JobAt
  <2>11. CASE ToDump(w)
    <3>1. Range(dumpQ') = Range(dumpQ) \cup {m} /\ UNCHANGED finished
      BY <2>1, <2>3, <2>11, JobAppended DEF ToDump, JobAt, JobsInv, OnceInv, Types, QueuesType
    <3>2. \A g \in Subgames \ {m} : InRunning(g)' <=> InRunning(g)
      BY <2>5, <2>6, <3>1 DEF InRunning
    <3>3. InRunning(m)' BY <3>1 DEF InRunning
    <3> QED BY <2>9, <2>10, <3>1, <3>2, <3>3, MapsStay
  <2>12. CASE ReportBR(w) \/ ReportLoad(w)
    <3>1. UNCHANGED dumpQ /\ finished' = [finished EXCEPT ![m] = @ + 1]
      BY <2>1, <2>12 DEF ReportBR, ReportLoad, Post, queues
    <3>2. finished'[m] = 1 /\ \A g \in Subgames \ {m} : finished'[g] = finished[g]
      <4>1. finished[m] = 0 BY <2>3 DEF JobAt
      <4> QED BY <3>1, <4>1 DEF Types, ControlType
    <3>3. \A g \in Subgames \ {m} : InRunning(g)' <=> InRunning(g)
      BY <2>5, <2>6, <3>1 DEF InRunning
    <3>4. ~InRunning(m)' BY <2>3, <2>5, <2>7, <3>1 DEF InRunning, JobAt
    <3> QED BY <2>9, <2>10, <3>2, <3>3, <3>4, MapsFinish
  <2> QED BY <1>2, <2>11, <2>12
<1> QED BY <1>1, <1>2

LEMMA DumperServes ==
  ASSUME Types, JobsInv, DumperTake \/ ReportCFR
  PROVE  (\E m \in Subgames : Service!Finish(m)) \/ UNCHANGED Service!vars
<1> USE ThreadNames
<1>0. ThreadsType BY DEF Types
<1>1. UNCHANGED <<loadQ, workQ>> BY DEF DumperTake, ReportCFR, queues
<1>2. \A t \in Threads \ {Dumper} : pc'[t] = pc[t] /\ cur'[t] = cur[t]
  BY <1>0 DEF DumperTake, ReportCFR, Goto, ThreadsType
<1>3. \A g : AtWork(g)' <=> AtWork(g) BY <1>2 DEF AtWork, Works
<1>4. \A g \in Subgames : InPending(g)' <=> InPending(g) BY <1>1, <1>2 DEF InPending
<1>5. CASE DumperTake
  <2>1. /\ Range(dumpQ) = Range(dumpQ') \cup {Head(dumpQ)} /\ UNCHANGED finished
        /\ cur[Dumper] = None /\ cur'[Dumper] = Head(dumpQ)
    BY <1>0, <1>5, JobTaken DEF DumperTake, JobsInv, OnceInv, Types, QueuesType, ThreadsType
  <2>2. \A g \in Subgames : InRunning(g)' <=> InRunning(g) BY <1>3, <2>1 DEF InRunning
  <2> QED BY <1>4, <2>1, <2>2, MapsStay
<1>6. CASE ReportCFR
  <2>1. PICK m \in Subgames : m = cur[Dumper] BY <1>0, <1>6 DEF ReportCFR, ThreadsType
  <2>2. JobAt(m, "dumper") BY <2>1 DEF JobsInv, PlacesInv, JobAt
  <2>3. UNCHANGED dumpQ /\ finished' = [finished EXCEPT ![m] = @ + 1] /\ cur'[Dumper] = None
    BY <1>0, <1>6, <2>1 DEF ReportCFR, Post, queues, ThreadsType
  <2>4. finished'[m] = 1 /\ \A g \in Subgames \ {m} : finished'[g] = finished[g]
    <3>1. finished[m] = 0 BY <2>2 DEF JobAt
    <3> QED BY <2>3, <3>1 DEF Types, ControlType
  <2>5. InRunning(m) /\ ~InRunning(m)' BY <1>3, <2>2, <2>3 DEF InRunning, JobAt
  <2>6. \A g \in Subgames \ {m} : InRunning(g)' <=> InRunning(g)
    BY <1>3, <2>1, <2>3 DEF InRunning
  <2> QED BY <1>4, <2>4, <2>5, <2>6, MapsFinish
<1> QED BY <1>5, <1>6

LEMMA NewPassServes ==
  ASSUME Types, JobsInv, Save \/ \E next \in Passes \cup {"quit"} : StartPass(next)
  PROVE  Service!NextPass \/ UNCHANGED Service!vars
<1>1. /\ todo = {} /\ AllReported /\ UNCHANGED <<loadQ, workQ, dumpQ, pc, cur>>
      /\ finished' = [g \in Subgames |-> IF g \in jobs THEN finished[g] - 1 ELSE finished[g]]
  <2>1. CASE Save BY <2>1 DEF Save, queues, threads
  <2>2. ASSUME NEW next \in Passes \cup {"quit"}, StartPass(next)
        PROVE  /\ todo = {} /\ AllReported /\ UNCHANGED <<loadQ, workQ, dumpQ, pc, cur>>
               /\ finished' = [g \in Subgames |-> IF g \in jobs THEN finished[g] - 1
                                                                ELSE finished[g]]
    BY <2>2 DEF StartPass, queues, threads
  <2> QED BY <2>1, <2>2
<1>2. \A g \in Subgames : JobAt(g, "done") \/ JobAt(g, "idle") BY <1>1, AllDone
<1>3. \A g \in Subgames : ~InPending(g) /\ ~InRunning(g) BY <1>2 DEF JobAt, InPending, InRunning
<1>4. \A g \in Subgames : (InPending(g)' <=> InPending(g)) /\ (InRunning(g)' <=> InRunning(g))
  BY <1>1 DEF InPending, InRunning, AtWork, Works
<1>5. \A g \in Subgames : finished'[g] = 0 BY <1>1, <1>2 DEF JobAt
<1>6. MapsFit /\ MapsFit' BY Maps, PTL
<1>7. Pending = {} /\ Running = {} /\ Pending' = {} /\ Running' = {} /\ Done' = {}
  BY <1>3, <1>4, <1>5, <1>6 DEF MapsFit
<1>8. CASE Done = {} BY <1>7, <1>8 DEF Service!vars
<1>9. CASE Done # {} BY <1>7, <1>9 DEF Service!NextPass
<1> QED BY <1>8, <1>9

(* The other steps leave every job as far as it is.                        *)
LEMMA OthersServe ==
  ASSUME Types, JobsInv,
         \/ Stop \/ LoaderCheck \/ Grab \/ Load \/ Dump \/ UNCHANGED vars
         \/ \E w \in Workers : Perform(w) \/ CopyFiles(w)
         \/ \E t \in Workers \cup {Dumper} : ReturnArrays(t) \/ ClearArrays(t)
  PROVE  UNCHANGED Service!vars
<1> USE ThreadNames
<1>0. ThreadsType BY DEF Types
<1>1. ASSUME UNCHANGED <<loadQ, workQ, dumpQ, finished, cur>>,
             UNCHANGED pc \/ \E t \in Threads : \E p : /\ Goto(t, p)
                                                       /\ p \in JobPoints <=> pc[t] \in JobPoints
      PROVE  UNCHANGED Service!vars
  <2>1. \A w \in Workers, g \in Subgames : Works(w, g)' <=> Works(w, g)
    <3>1. CASE UNCHANGED pc BY <1>1, <3>1 DEF Works
    <3>2. ASSUME NEW t \in Threads, NEW p, Goto(t, p), p \in JobPoints <=> pc[t] \in JobPoints,
                 NEW w \in Workers, NEW g \in Subgames
          PROVE  Works(w, g)' <=> Works(w, g)
      BY <1>0, <1>1, <3>2 DEF Works, Goto, ThreadsType
    <3> QED BY <1>1, <3>1, <3>2
  <2>2. \A g \in Subgames : AtWork(g)' <=> AtWork(g) BY <2>1 DEF AtWork
  <2>3. \A g \in Subgames : (InPending(g)' <=> InPending(g)) /\ (InRunning(g)' <=> InRunning(g))
    BY <1>1, <2>2 DEF InPending, InRunning
  <2> QED BY <1>1, <2>3, MapsStay
<1>2. CASE Stop
  <2>1. ASSUME NEW q, IsQueue(q), Once(q, Subgames)
        PROVE  Range(Append(q, Quit)) = Range(q) \cup {Quit}
    BY <2>1, JobAppended
  <2>2. /\ Range(loadQ') = Range(loadQ) \/ Range(loadQ') = Range(loadQ) \cup {Quit}
        /\ Range(workQ') = Range(workQ) \/ Range(workQ') = Range(workQ) \cup {Quit}
        /\ Range(dumpQ') = Range(dumpQ) \/ Range(dumpQ') = Range(dumpQ) \cup {Quit}
    BY <1>2, <2>1 DEF Stop, Types, QueuesType, JobsInv, OnceInv
  <2>3. UNCHANGED <<pc, cur, finished>> BY <1>2 DEF Stop, threads
  <2>4. \A g \in Subgames : (InPending(g)' <=> InPending(g)) /\ (InRunning(g)' <=> InRunning(g))
    BY <2>2, <2>3 DEF InPending, InRunning, AtWork, Works
  <2> QED BY <2>3, <2>4, MapsStay
<1>3. CASE LoaderCheck \/ Grab \/ Load
  <2>1. UNCHANGED <<loadQ, workQ, dumpQ, finished, cur>>
    BY <1>3 DEF LoaderCheck, Grab, Load, queues
  <2>2. UNCHANGED pc \/ \E p \in {"grab", "load", "enqueue"} : Goto(Loader, p)
    BY <1>3 DEF LoaderCheck, Grab, Load
  <2>3. pc[Loader] \in {"check", "grab", "load"} BY <1>3 DEF LoaderCheck, Grab, Load
  <2> QED BY <1>1, <2>1, <2>2, <2>3 DEF JobPoints
<1>4. CASE Dump
  <2>1. UNCHANGED <<loadQ, workQ, dumpQ, finished, cur>> /\ pc[Dumper] = "dump"
    BY <1>4 DEF Dump, queues
  <2>2. UNCHANGED pc \/ Goto(Dumper, "return") BY <1>4 DEF Dump
  <2> QED BY <1>1, <2>1, <2>2 DEF JobPoints
<1>5. CASE UNCHANGED vars BY <1>1, <1>5 DEF vars, queues, threads
<1>6. ASSUME NEW w \in Workers, Perform(w) \/ CopyFiles(w) PROVE UNCHANGED Service!vars
  <2>1. UNCHANGED <<loadQ, workQ, dumpQ, finished, cur>> /\ pc[w] \in {"perform", "copy"}
    BY <1>6 DEF Perform, CopyFiles, queues
  <2>2. UNCHANGED pc \/ \E p \in {"report", "toDump", "reportLoad"} : Goto(w, p)
    BY <1>6 DEF Perform, CopyFiles
  <2> QED BY <1>1, <2>1, <2>2 DEF JobPoints
<1>7. ASSUME NEW t \in Workers \cup {Dumper}, ReturnArrays(t) PROVE UNCHANGED Service!vars
  <2>1. UNCHANGED <<loadQ, workQ, dumpQ, finished, cur>> /\ pc[t] = "return" /\ Goto(t, "clear")
    BY <1>7 DEF ReturnArrays
  <2> QED BY <1>1, <2>1 DEF JobPoints
<1>8. ASSUME NEW t \in Workers \cup {Dumper}, ClearArrays(t) PROVE UNCHANGED Service!vars
  <2>1. UNCHANGED <<loadQ, workQ, dumpQ, finished>> /\ pc[t] = "clear"
    BY <1>8 DEF ClearArrays, queues
  <2>2. CASE t = Dumper
    <3>1. UNCHANGED cur /\ Goto(Dumper, "report") BY <1>8, <2>2 DEF ClearArrays
    <3>2. \A w \in Workers : pc'[w] = pc[w] BY <1>0, <3>1 DEF Goto, ThreadsType
    <3>3. \A g \in Subgames : (InPending(g)' <=> InPending(g)) /\ (InRunning(g)' <=> InRunning(g))
      BY <2>1, <3>1, <3>2 DEF InPending, InRunning, AtWork, Works
    <3> QED BY <2>1, <3>3, MapsStay
  <2>3. CASE t \in Workers
    <3>1. /\ pc' = [pc EXCEPT ![t] = "wait"] /\ cur' = [cur EXCEPT ![t] = None]
      BY <1>8, <2>3 DEF ClearArrays, Goto
    <3>2. \A g \in Subgames : ~(None = g /\ "wait" \in JobPoints) /\ ~Works(t, g)
      BY <2>1 DEF Works, JobPoints
    <3>3. \A g \in Subgames : AtWork(g)' <=> AtWork(g) BY <1>0, <3>1, <3>2, WorksKept
    <3>4. cur'[Loader] = cur[Loader] /\ cur'[Dumper] = cur[Dumper]
      BY <1>0, <2>3, <3>1 DEF ThreadsType
    <3>5. \A g \in Subgames : (InPending(g)' <=> InPending(g)) /\ (InRunning(g)' <=> InRunning(g))
      BY <2>1, <3>3, <3>4 DEF InPending, InRunning
    <3> QED BY <2>1, <3>5, MapsStay
  <2> QED BY <2>2, <2>3
<1> QED BY <1>2, <1>3, <1>4, <1>5, <1>6, <1>7, <1>8

LEMMA ServesStep ==
  ASSUME Types, JobsInv, [Next]_vars
  PROVE  Service!Next \/ run' # run \/ UNCHANGED Service!vars
<1>1. CASE Resume
  <2>1. run' = run + 1 /\ run \in Nat BY <1>1 DEF Resume, Types, FlagsType
  <2> QED BY <2>1
<1>2. (\E m \in Subgames : Service!Submit(m) \/ Service!Start(m) \/ Service!Finish(m))
        \/ Service!NextPass => Service!Next
  BY DEF Service!Next
<1>3. \/ Resume
      \/ \E m \in Subgames : Service!Submit(m) \/ Service!Start(m) \/ Service!Finish(m)
      \/ Service!NextPass \/ UNCHANGED Service!vars
  BY Steps, SubmitServes, LoaderServes, WorkerServes, DumperServes, NewPassServes, OthersServe
<1> QED BY <1>1, <1>2, <1>3

-----------------------------------------------------------------------------
(* Copies under way *)

InCopy == {g \in Subgames : pass = "load" /\ g \in jobs \ todo /\ finished[g] = 0}

(* g_networkCopySem counts the copies that may still be started.           *)
CopiesInv == /\ IsFiniteSet(InCopy) /\ copySem \in Nat
             /\ copySem + Cardinality(InCopy) = NetworkCopies

LEMMA NoCopies ==
  ASSUME InCopy = {}, copySem = NetworkCopies
  PROVE  CopiesInv
<1>1. Cardinality(InCopy) = 0 /\ IsFiniteSet(InCopy) BY FS_EmptySet
<1>2. copySem \in Nat /\ NetworkCopies \in Nat BY Numbers
<1> QED BY <1>1, <1>2 DEF CopiesInv

LEMMA CopiesStay ==
  ASSUME CopiesInv, InCopy' = InCopy, copySem' = copySem PROVE CopiesInv'
BY DEF CopiesInv

LEMMA CopiesStep == Types /\ JobsInv /\ CopiesInv /\ [Next]_vars => CopiesInv'
<1> SUFFICES ASSUME Types, JobsInv, CopiesInv, [Next]_vars PROVE CopiesInv' OBVIOUS
<1> USE ThreadNames
<1>0. ThreadsType BY DEF Types
<1>1. ASSUME UNCHANGED <<pass, todo, jobs, finished, copySem>> PROVE CopiesInv'
  <2>1. InCopy' = InCopy BY <1>1 DEF InCopy
  <2> QED BY <1>1, <2>1, CopiesStay
<1>2. ASSUME pass # "load", pass' = pass, copySem' = copySem PROVE CopiesInv'
  <2>1. InCopy' = InCopy BY <1>2 DEF InCopy
  <2> QED BY <1>2, <2>1, CopiesStay
<1>3. ASSUME NEW m \in Subgames, Submit(m) PROVE CopiesInv'
  BY <1>2, <1>3 DEF Submit, process
<1>4. ASSUME NEW m \in Subgames, SubmitLoad(m) PROVE CopiesInv'
  <2>1. JobAt(m, "todo") BY <1>4 DEF JobsInv, PlacesInv, JobAt, SubmitLoad
  <2>2. m \in jobs /\ m \in todo /\ finished[m] = 0 BY <2>1 DEF JobAt
  <2>3. m \notin InCopy BY <2>2 DEF InCopy
  <2>4. InCopy' = InCopy \cup {m} BY <1>4, <2>2 DEF SubmitLoad, InCopy
  <2>5. IsFiniteSet(InCopy') /\ Cardinality(InCopy') = Cardinality(InCopy) + 1
    BY <2>3, <2>4, FS_AddElement DEF CopiesInv
  <2>6. copySem > 0 /\ copySem' = copySem - 1 BY <1>4 DEF SubmitLoad
  <2>7. Cardinality(InCopy) \in Nat BY FS_CardinalityType DEF CopiesInv
  <2> QED BY <2>5, <2>6, <2>7, Numbers DEF CopiesInv
<1>5. CASE Stop BY <1>1, <1>5 DEF Stop, process
<1>6. CASE Save \/ \E next \in Passes \cup {"quit"} : StartPass(next)
  <2>1. todo = {} /\ AllReported /\ todo' = jobs' /\ copySem' = copySem
    <3>1. CASE Save BY <3>1 DEF Save
    <3>2. ASSUME NEW next \in Passes \cup {"quit"}, StartPass(next)
          PROVE  todo = {} /\ AllReported /\ todo' = jobs' /\ copySem' = copySem
      BY <3>2 DEF StartPass, process
    <3> QED BY <1>6, <3>1, <3>2
  <2>2. InCopy' = {} BY <2>1 DEF InCopy
  <2>3. InCopy = {}
    <3>1. ASSUME NEW g \in Subgames, g \in jobs PROVE finished[g] # 0
      <4>1. JobAt(g, "done") BY <2>1, <3>1, AllDone DEF JobAt
      <4> QED BY <4>1 DEF JobAt
    <3> QED BY <3>1 DEF InCopy
  <2> QED BY <2>1, <2>2, <2>3, CopiesStay
<1>7. CASE LoaderTake \/ LoaderCheck \/ Grab \/ Load \/ Enqueue
  BY <1>1, <1>7 DEF LoaderTake, LoaderCheck, Grab, Load, Enqueue, control, process
<1>8. ASSUME NEW w \in Workers, WorkerTake(w) \/ Perform(w) \/ ToDump(w) \/ CopyFiles(w)
      PROVE  CopiesInv'
  BY <1>1, <1>8 DEF WorkerTake, Perform, ToDump, CopyFiles, control, process
<1>9. ASSUME NEW w \in Workers, ReportBR(w) PROVE CopiesInv'
  <2>1. pass = "br" BY <1>9 DEF JobsInv, PointsFit, ReportBR
  <2> QED BY <1>2, <1>9, <2>1 DEF ReportBR, control, process
<1>10. ASSUME NEW w \in Workers, ReportLoad(w) PROVE CopiesInv'
  <2>1. PICK m \in Subgames : m = cur[w] BY <1>0, <1>10 DEF ReportLoad, ThreadsType
  <2>2. JobAt(m, "worker")
    <3>1. Works(w, m) BY <1>10, <2>1 DEF ReportLoad, Works, JobPoints
    <3> QED BY <3>1, WorkerHas
  <2>3. pass = "load" BY <1>10 DEF JobsInv, PointsFit, ReportLoad
  <2>4. m \in jobs \ todo /\ finished[m] = 0 BY <2>2 DEF JobAt
  <2>5. m \in InCopy BY <2>3, <2>4 DEF InCopy
  <2>6. finished'[m] = 1 /\ \A g \in Subgames \ {m} : finished'[g] = finished[g]
    <3>1. finished' = [finished EXCEPT ![m] = @ + 1] BY <1>10, <2>1 DEF ReportLoad, Post
    <3> QED BY <2>4, <3>1 DEF Types, ControlType
  <2>7. InCopy' = InCopy \ {m} BY <1>10, <2>6 DEF InCopy, ReportLoad, control
  <2>8. IsFiniteSet(InCopy') /\ Cardinality(InCopy') = Cardinality(InCopy) - 1
    BY <2>5, <2>7, FS_RemoveElement DEF CopiesInv
  <2>9. copySem' = copySem + 1 BY <1>10 DEF ReportLoad
  <2>10. Cardinality(InCopy) \in Nat BY FS_CardinalityType DEF CopiesInv
  <2> QED BY <2>8, <2>9, <2>10, Numbers DEF CopiesInv
<1>11. ASSUME NEW t \in Workers \cup {Dumper}, ReturnArrays(t) \/ ClearArrays(t)
       PROVE  CopiesInv'
  BY <1>1, <1>11 DEF ReturnArrays, ClearArrays, control, process
<1>12. CASE DumperTake \/ Dump BY <1>1, <1>12 DEF DumperTake, Dump, control, process
<1>13. CASE ReportCFR
  <2>1. PICK m \in Subgames : m = cur[Dumper] BY <1>0, <1>13 DEF ReportCFR, ThreadsType
  <2>2. KindAt(m, "dumper") BY <2>1 DEF JobsInv, PlacesInv, JobAt
  <2>3. pass # "load" BY <2>2 DEF KindAt, CFRPasses
  <2> QED BY <1>2, <1>13, <2>3 DEF ReportCFR, control, process
<1>14. CASE Resume
  <2>1. InCopy' = {} /\ copySem' = NetworkCopies BY <1>14 DEF Resume, InCopy
  <2>2. IsFiniteSet(InCopy') /\ Cardinality(InCopy') = 0 BY <2>1, FS_EmptySet
  <2> QED BY <2>1, <2>2, Numbers DEF CopiesInv
<1>15. CASE UNCHANGED vars BY <1>1, <1>15 DEF vars, control, process
<1> QED BY Steps, <1>3, <1>4, <1>5, <1>6, <1>7, <1>8, <1>9, <1>10, <1>11, <1>12, <1>13,
          <1>14, <1>15

-----------------------------------------------------------------------------
(* What arrays and files hold *)

SomeAt(g, points) == \E t \in Threads : cur[t] = g /\ pc[t] \in points

(* The arrays hold what the job will read; what it changed; the files are  *)
(* copied from the checkpoint.                                             *)
Loaded(g)  == SomeAt(g, {"enqueue", "perform"}) \/ (g \in Range(workQ) /\ pass # "load")
Unsaved(g) == SomeAt(g, {"toDump", "dump"}) \/ g \in Range(dumpQ)
Copied(g)  == pass = "load" /\ (finished[g] > 0 \/ SomeAt(g, {"reportLoad"}))
Marks == {"enqueue", "perform", "toDump", "dump", "reportLoad"}

Fine(g, part) == IsLatest(disk[g][part]) \/ Cut(g, part)

DiskFine(g) == pass \notin {"load", "resumed"} =>
                 \A part \in Parts : Fine(g, part) \/ (Unsaved(g) /\ part \in Changes(jobType[g]))
CopyFine(g) == Copied(g) => \A part \in Parts : Fine(g, part)
LoadedFine(g) == Loaded(g) =>
                   \A part \in Reads(jobType[g]) :
                     \/ ram[arraysIndex[g]][part] = <<g, TRUE>>
                     \/ ram[arraysIndex[g]][part] = <<g, FALSE>> /\ Cut(g, part)
UnsavedFine(g) == Unsaved(g) => \A part \in Changes(jobType[g]) :
                                  ram[arraysIndex[g]][part] = <<g, TRUE>>

DataFine(g) == DiskFine(g) /\ CopyFine(g) /\ LoadedFine(g) /\ UnsavedFine(g)
SavedFine   == saved # None => \A g \in Subgames, part \in Parts : saved[g][part] # "other"
DataInv     == SavedFine /\ \A g \in Subgames : DataFine(g)

(* A step that changes neither where g is nor its arrays and files.        *)
LEMMA DataKept ==
  ASSUME NEW g \in Subgames, DataFine(g), UNCHANGED <<pass, run>>, disk'[g] = disk[g],
         Loaded(g)' <=> Loaded(g), Unsaved(g)' <=> Unsaved(g), Copied(g)' <=> Copied(g),
         Loaded(g) \/ Unsaved(g) => /\ jobType'[g] = jobType[g] /\ arraysIndex'[g] = arraysIndex[g]
                                    /\ ram'[arraysIndex[g]] = ram[arraysIndex[g]]
  PROVE  DataFine(g)'
<1>1. \A part : Fine(g, part)' <=> Fine(g, part) BY DEF Fine, IsLatest, Cut
<1>2. DiskFine(g)' BY <1>1 DEF DataFine, DiskFine
<1>3. CopyFine(g)' BY <1>1 DEF DataFine, CopyFine
<1>4. LoadedFine(g)' BY DEF DataFine, LoadedFine, Cut
<1>5. UnsavedFine(g)' BY DEF DataFine, UnsavedFine
<1> QED BY <1>2, <1>3, <1>4, <1>5 DEF DataFine

LEMMA SomeAtMoves ==
  ASSUME ThreadsType, NEW t \in Threads, NEW p, NEW c, NEW g, NEW P,
         pc' = [pc EXCEPT ![t] = p], cur' = [cur EXCEPT ![t] = c]
  PROVE  /\ (c = g /\ p \in P) => SomeAt(g, P)'
         /\ ((c = g /\ p \in P) <=> (cur[t] = g /\ pc[t] \in P)) => (SomeAt(g, P)' <=> SomeAt(g, P))
         /\ ~(c = g /\ p \in P) =>
              (SomeAt(g, P)' <=> \E u \in Threads \ {t} : cur[u] = g /\ pc[u] \in P)
<1>1. pc'[t] = p /\ cur'[t] = c /\ \A u \in Threads \ {t} : pc'[u] = pc[u] /\ cur'[u] = cur[u]
  BY DEF ThreadsType
<1> QED BY <1>1 DEF SomeAt

LEMMA SomeAtSame ==
  ASSUME ThreadsType, NEW t \in Threads, NEW p, NEW c, NEW g, NEW P,
         pc' = [pc EXCEPT ![t] = p], cur' = [cur EXCEPT ![t] = c],
         (c = g /\ p \in P) <=> (cur[t] = g /\ pc[t] \in P)
  PROVE  SomeAt(g, P)' <=> SomeAt(g, P)
BY SomeAtMoves

(* A step of a thread that leaves the queues alone, between points where   *)
(* its subgame is neither loaded nor unsaved nor copied.                   *)
LEMMA UnmarkedMove ==
  ASSUME ThreadsType, NEW t \in Threads, NEW p, NEW c,
         pc' = [pc EXCEPT ![t] = p], cur' = [cur EXCEPT ![t] = c],
         pc[t] \notin Marks, p \notin Marks, NEW g
  PROVE  /\ SomeAt(g, {"enqueue", "perform"})' <=> SomeAt(g, {"enqueue", "perform"})
         /\ SomeAt(g, {"toDump", "dump"})' <=> SomeAt(g, {"toDump", "dump"})
         /\ SomeAt(g, {"reportLoad"})' <=> SomeAt(g, {"reportLoad"})
<1>1. ASSUME NEW P, P \subseteq Marks PROVE SomeAt(g, P)' <=> SomeAt(g, P)
  BY <1>1, SomeAtMoves
<1> QED BY <1>1 DEF Marks

(* Subgames that are loaded or unsaved own their arrays.                   *)
LEMMA InUseOwns ==
  ASSUME Types, HoldersInv, NEW g \in Subgames, Loaded(g) \/ Unsaved(g)
  PROVE  Owns(g)
<1>1. ASSUME NEW t \in Threads, cur[t] = g, pc[t] \in {"enqueue", "perform", "toDump", "dump"}
      PROVE  Holds(t, g)
  BY <1>1 DEF Holds, HoldPoints
<1>2. Queued(g) \/ \E t \in Threads : Holds(t, g) /\ pc[t] # "clear"
  BY <1>1 DEF Loaded, Unsaved, SomeAt, Queued
<1>3. arraysIndex[g] # None BY <1>2 DEF HoldersInv
<1>4. ~Returned(g)
  <2>1. ASSUME NEW u \in Threads, pc[u] = "clear", cur[u] = g PROVE FALSE
    <3>1. Holds(u, g) BY <2>1 DEF Holds, HoldPoints
    <3>2. ~Queued(g) BY <3>1 DEF HoldersInv
    <3>3. \A t \in Threads : Holds(t, g) => t = u BY <3>1 DEF HoldersInv
    <3> QED BY <1>2, <2>1, <3>2, <3>3
  <2> QED BY <2>1 DEF Returned
<1> QED BY <1>3, <1>4 DEF Owns

(* Nobody else has the job that a thread is at. *)
LEMMA Alone ==
  ASSUME Types, JobsInv, NEW t \in Threads, NEW m \in Subgames, cur[t] = m,
         t \in Workers => Works(t, m)
  PROVE  /\ m \notin Range(workQ) /\ m \notin Range(dumpQ)
         /\ \A u \in Threads \ {t} : cur[u] = m => pc[u] \notin Marks
<1> USE ThreadNames
<1>0. ThreadsType BY DEF Types
<1>1. PICK x \in Places : JobAt(m, x) BY DEF JobsInv, PlacesInv
<1>2. x = IF t = Loader THEN "loader" ELSE IF t = Dumper THEN "dumper" ELSE "worker"
  BY <1>1 DEF JobAt, AtWork
<1>3. m \notin Range(workQ) /\ m \notin Range(dumpQ) BY <1>1, <1>2 DEF JobAt
<1>4. ASSUME NEW u \in Threads \ {t}, cur[u] = m, pc[u] \in Marks PROVE FALSE
  <2>1. CASE u = Loader BY <1>1, <1>2, <1>4, <2>1 DEF JobAt
  <2>2. CASE u = Dumper BY <1>1, <1>2, <1>4, <2>2 DEF JobAt
  <2>3. CASE u \in Workers
    <3>1. Works(u, m) BY <1>0, <1>4, <2>3 DEF Works, Marks, JobPoints, ThreadsType, WorkerPoints
    <3>2. t \in Workers BY <1>1, <1>2, <2>3, <3>1 DEF JobAt, AtWork
    <3> QED BY <1>4, <2>3, <3>1, <3>2 DEF JobsInv, OnceInv
  <2> QED BY <2>1, <2>2, <2>3
<1> QED BY <1>3, <1>4

LEMMA DataStays ==
  ASSUME DataInv, UNCHANGED <<pass, run, disk, saved>>,
         \A g \in Subgames :
           /\ Loaded(g)' <=> Loaded(g)
           /\ Unsaved(g)' <=> Unsaved(g)
           /\ Copied(g)' <=> Copied(g)
           /\ Loaded(g) \/ Unsaved(g) => /\ jobType'[g] = jobType[g] /\ arraysIndex'[g] = arraysIndex[g]
                                         /\ ram'[arraysIndex[g]] = ram[arraysIndex[g]]
  PROVE  DataInv'
<1>1. \A g \in Subgames : DataFine(g)' BY DataKept DEF DataInv
<1>2. SavedFine' BY DEF DataInv, SavedFine
<1> QED BY <1>1, <1>2 DEF DataInv

(* The loader's steps but Load, and those of main within a pass.           *)
LEMMA LoaderData ==
  ASSUME Types, JobsInv, HoldersInv, PoolInv, DataInv, LoaderTake \/ LoaderCheck \/ Grab \/ Enqueue
  PROVE  DataInv'
<1> USE ThreadNames
<1>0. ThreadsType BY DEF Types
<1>1. UNCHANGED <<pass, run, disk, saved, finished, dumpQ, jobType>>
  BY DEF LoaderTake, LoaderCheck, Grab, Enqueue, control, queues, data, process
<1>2. PICK p \in {"wait", "check", "grab", "load", "gone"} :
        \E c : pc' = [pc EXCEPT ![Loader] = p] /\ cur' = [cur EXCEPT ![Loader] = c]
  <2>1. CASE LoaderTake \/ Enqueue BY <2>1 DEF LoaderTake, Enqueue, Goto
  <2>2. CASE LoaderCheck \/ Grab
    <3>1. cur' = [cur EXCEPT ![Loader] = cur[Loader]] BY <1>0, <2>2 DEF LoaderCheck, Grab, ThreadsType
    <3>2. CASE UNCHANGED pc /\ pc[Loader] = "check"
      <4>1. pc' = [pc EXCEPT ![Loader] = "check"] BY <1>0, <3>2 DEF ThreadsType
      <4> QED BY <3>1, <4>1
    <3> QED BY <2>2, <3>1, <3>2 DEF LoaderCheck, Grab, Goto
  <2> QED BY <2>1, <2>2
<1>3. PICK c : pc' = [pc EXCEPT ![Loader] = p] /\ cur' = [cur EXCEPT ![Loader] = c]
  BY <1>2
<1>4. CASE LoaderTake \/ LoaderCheck \/ Grab
  <2>1. pc[Loader] \notin Marks /\ p \notin Marks
    BY <1>4 DEF LoaderTake, LoaderCheck, Grab, Marks
  <2>2. UNCHANGED workQ BY <1>4 DEF LoaderTake, LoaderCheck, Grab, queues
  <2>3. \A g \in Subgames : /\ Loaded(g)' <=> Loaded(g)
                            /\ Unsaved(g)' <=> Unsaved(g)
                            /\ Copied(g)' <=> Copied(g)
    BY <1>0, <1>1, <1>3, <2>1, <2>2, UnmarkedMove DEF Loaded, Unsaved, Copied
  <2>4. ASSUME NEW g \in Subgames, Loaded(g) \/ Unsaved(g)
        PROVE  arraysIndex'[g] = arraysIndex[g] /\ ram'[arraysIndex[g]] = ram[arraysIndex[g]]
    <3>1. CASE LoaderTake \/ LoaderCheck BY <3>1 DEF LoaderTake, LoaderCheck, data
    <3>2. CASE Grab
      <4>1. Owns(g) BY <2>4, InUseOwns
      <4>2. PICK a \in Arrays : a = Head(poolQ) /\ a \in Range(poolQ) BY <3>2, Taken DEF Grab, PoolInv
      <4>3. arraysIndex[g] # a BY <4>1, <4>2 DEF PoolInv
      <4>4. g # cur[Loader] BY <3>2, <4>1 DEF Grab, HoldersInv, Owns
      <4>5. arraysIndex[g] \in Arrays BY <4>1 DEF Owns, Types, DataType
      <4> QED BY <3>2, <4>2, <4>3, <4>4, <4>5 DEF Grab, Types, DataType
    <3> QED BY <1>4, <3>1, <3>2
  <2> QED BY <1>1, <2>3, <2>4, DataStays
<1>5. CASE Enqueue
  <2>1. PICK m \in Subgames : m = cur[Loader] BY <1>0, <1>5 DEF Enqueue, ThreadsType
  <2>2. JobAt(m, "loader") /\ KindAt(m, "loader") BY <2>1, LoaderHas
  <2>3. Range(workQ') = Range(workQ) \cup {m}
    BY <1>5, <2>1, <2>2, JobAppended DEF Enqueue, JobAt, JobsInv, OnceInv, Types, QueuesType
  <2>4. cur' = [cur EXCEPT ![Loader] = None] /\ pc' = [pc EXCEPT ![Loader] = "wait"]
        /\ pc[Loader] = "enqueue"
    BY <1>5 DEF Enqueue, Goto
  <2>5. Loaded(m) BY <2>1, <2>4 DEF Loaded, SomeAt
  <2>6. Loaded(m)' BY <1>1, <2>2, <2>3 DEF Loaded, KindAt
  <2>7. ASSUME NEW g \in Subgames, NEW P, g # m \/ "enqueue" \notin P
        PROVE  SomeAt(g, P)' <=> SomeAt(g, P)
    <3>1. (None = g /\ "wait" \in P) <=> (cur[Loader] = g /\ pc[Loader] \in P)
      BY <2>1, <2>4, <2>7
    <3> QED BY <1>0, <2>4, <3>1, SomeAtSame
  <2>8. \A g \in Subgames \ {m} : Loaded(g)' <=> Loaded(g) BY <1>1, <2>3, <2>7 DEF Loaded
  <2>9. \A g \in Subgames : (Unsaved(g)' <=> Unsaved(g)) /\ (Copied(g)' <=> Copied(g))
    BY <1>1, <2>7 DEF Unsaved, Copied
  <2>10. UNCHANGED <<arraysIndex, ram>> BY <1>5 DEF Enqueue, data
  <2> QED BY <1>1, <2>5, <2>6, <2>8, <2>9, <2>10, DataStays
<1> QED BY <1>4, <1>5

LEMMA LoadData ==
  ASSUME Types, JobsInv, HoldersInv, PoolInv, DataInv, Load
  PROVE  DataInv'
<1> USE ThreadNames
<1>0. ThreadsType BY DEF Types
<1>1. UNCHANGED <<pass, run, disk, saved, finished, workQ, dumpQ, jobType, arraysIndex, cur>>
  BY DEF Load, control, queues
<1>2. CASE UNCHANGED <<pc, ram>>
  BY <1>1, <1>2, DataStays DEF Loaded, Unsaved, Copied, SomeAt
<1>3. CASE ~UNCHANGED <<pc, ram>>
  <2>1. PICK m \in Subgames : m = cur[Loader] BY <1>0 DEF Load, ThreadsType
  <2>2. JobAt(m, "loader") /\ KindAt(m, "loader") BY <2>1, LoaderHas
  <2>3. Holds(Loader, m) BY <2>1 DEF Holds, HoldPoints, Load
  <2>4. PICK a \in Arrays : a = arraysIndex[m] BY <2>3 DEF HoldersInv, Types, DataType
  <2>5. /\ ram' = [ram EXCEPT ![a] = [part \in Parts |->
                     IF part \in Reads(jobType[m]) THEN <<m, IsLatest(disk[m][part])>> ELSE @[part]]]
        /\ Goto(Loader, "enqueue")
        /\ \A part \in Reads(jobType[m]) : disk[m][part] # "short"
    BY <1>3, <2>1, <2>4 DEF Load, Loads
  <2>6. cur' = [cur EXCEPT ![Loader] = m] /\ pc' = [pc EXCEPT ![Loader] = "enqueue"]
        /\ pc[Loader] = "load"
    BY <1>0, <1>1, <2>1, <2>5 DEF Goto, Load, ThreadsType
  <2>7. ASSUME NEW g \in Subgames, NEW P, g # m \/ P \cap {"load", "enqueue"} = {}
        PROVE  SomeAt(g, P)' <=> SomeAt(g, P)
    <3>1. (m = g /\ "enqueue" \in P) <=> (cur[Loader] = g /\ pc[Loader] \in P)
      BY <2>1, <2>6, <2>7
    <3> QED BY <1>0, <2>6, <3>1, SomeAtSame
  <2>8. \A g \in Subgames : (Unsaved(g)' <=> Unsaved(g)) /\ (Copied(g)' <=> Copied(g))
    BY <1>1, <2>7 DEF Unsaved, Copied
  <2>9. \A g \in Subgames \ {m} : Loaded(g)' <=> Loaded(g) BY <1>1, <2>7 DEF Loaded
  <2>10. ~Returned(m)
    <3>1. \A u \in Threads : Holds(u, m) => u = Loader BY <2>3 DEF HoldersInv
    <3> QED BY <2>6, <3>1 DEF Returned, Holds, HoldPoints
  <2>11. Owns(m) BY <2>4, <2>10 DEF Owns
  <2>12. ASSUME NEW g \in Subgames \ {m} PROVE DataFine(g)'
    <3>1. ASSUME Loaded(g) \/ Unsaved(g) PROVE ram'[arraysIndex[g]] = ram[arraysIndex[g]]
      <4>1. Owns(g) BY <3>1, InUseOwns
      <4>2. arraysIndex[g] # a BY <2>4, <2>11, <4>1 DEF PoolInv
      <4>3. arraysIndex[g] \in Arrays BY <4>1 DEF Owns, Types, DataType
      <4> QED BY <2>5, <4>2, <4>3 DEF Types, DataType
    <3> QED BY <1>1, <2>8, <2>9, <3>1, DataKept DEF DataInv
  <2>13. DataFine(m)'
    <3>1. ~Unsaved(m)
      <4>1. m \notin Range(dumpQ) /\ \A u \in Threads \ {Loader} : cur[u] = m => pc[u] \notin Marks
        BY <2>1, Alone
      <4> QED BY <2>6, <4>1 DEF Unsaved, SomeAt, Marks
    <3>2. pass \notin {"load", "resumed"} /\ jobType[m] = pass BY <2>2 DEF KindAt, Passes
    <3>3. \A part \in Parts : Fine(m, part) BY <3>1, <3>2 DEF DataInv, DataFine, DiskFine
    <3>4. \A part \in Parts : Fine(m, part)' BY <1>1, <3>3 DEF Fine, IsLatest, Cut
    <3>5. LoadedFine(m)'
      <4> SUFFICES ASSUME NEW part \in Reads(jobType[m])
                   PROVE  \/ ram'[a][part] = <<m, TRUE>>
                          \/ ram'[a][part] = <<m, FALSE>> /\ Cut(m, part)'
        BY <1>1, <2>4 DEF LoadedFine
      <4>1. part \in Parts BY <3>2 DEF Reads, Changes, Parts
      <4>2. ram'[a][part] = <<m, IsLatest(disk[m][part])>> BY <2>5, <4>1 DEF Types, DataType
      <4>3. Fine(m, part) BY <3>3, <4>1
      <4>4. Cut(m, part)' <=> Cut(m, part) BY <1>1 DEF Cut
      <4>5. CASE IsLatest(disk[m][part])
        <5>1. IsLatest(disk[m][part]) = TRUE BY <4>5 DEF IsLatest
        <5> QED BY <4>2, <5>1
      <4>6. CASE ~IsLatest(disk[m][part])
        <5>1. IsLatest(disk[m][part]) = FALSE BY <4>6 DEF IsLatest
        <5> QED BY <4>2, <4>3, <4>4, <4>6, <5>1 DEF Fine
      <4> QED BY <4>5, <4>6
    <3>6. UnsavedFine(m)' BY <2>8, <3>1 DEF UnsavedFine
    <3>7. DiskFine(m)' BY <3>4 DEF DiskFine
    <3>8. CopyFine(m)' BY <3>4 DEF CopyFine
    <3> QED BY <3>5, <3>6, <3>7, <3>8 DEF DataFine
  <2>14. SavedFine' BY <1>1 DEF DataInv, SavedFine
  <2> QED BY <2>12, <2>13, <2>14 DEF DataInv
<1> QED BY <1>2, <1>3

(* A thread writes to the arrays of its subgame m, or to m's files.        *)
LEMMA OthersData ==
  ASSUME Types, HoldersInv, PoolInv, DataInv, NEW t \in Threads, NEW m \in Subgames, NEW p,
         cur[t] = m, Goto(t, p), Holds(t, m) \/ UNCHANGED ram, pc[t] # "clear",
         UNCHANGED <<pass, run, finished, workQ, dumpQ, jobType, arraysIndex, cur>>,
         \A a \in Arrays : a # arraysIndex[m] => ram'[a] = ram[a],
         \A g \in Subgames \ {m} : disk'[g] = disk[g]
  PROVE  \A g \in Subgames \ {m} : DataFine(g)'
<1>0. ThreadsType BY DEF Types
<1>1. cur' = [cur EXCEPT ![t] = m] /\ pc' = [pc EXCEPT ![t] = p]
  BY <1>0 DEF Goto, ThreadsType
<1>2. ASSUME NEW g \in Subgames \ {m}, NEW P PROVE SomeAt(g, P)' <=> SomeAt(g, P)
  <2>1. (m = g /\ p \in P) <=> (cur[t] = g /\ pc[t] \in P) OBVIOUS
  <2> QED BY <1>0, <1>1, <2>1, SomeAtSame
<1>3. \A g \in Subgames \ {m} : /\ Loaded(g)' <=> Loaded(g)
                                /\ Unsaved(g)' <=> Unsaved(g)
                                /\ Copied(g)' <=> Copied(g)
  BY <1>2 DEF Loaded, Unsaved, Copied
<1>4. ASSUME NEW g \in Subgames \ {m}, Loaded(g) \/ Unsaved(g)
      PROVE  ram'[arraysIndex[g]] = ram[arraysIndex[g]]
  <2>1. Owns(g) BY <1>4, InUseOwns
  <2>2. arraysIndex[g] \in Arrays BY <2>1 DEF Owns, Types, DataType
  <2>3. CASE Holds(t, m)
    <3>1. arraysIndex[m] # None BY <2>3 DEF HoldersInv
    <3>2. ~Returned(m)
      <4>1. \A u \in Threads : Holds(u, m) => u = t BY <2>3 DEF HoldersInv
      <4> QED BY <4>1 DEF Returned, Holds, HoldPoints
    <3>3. Owns(m) BY <3>1, <3>2 DEF Owns
    <3>4. arraysIndex[g] # arraysIndex[m] BY <2>1, <3>3 DEF PoolInv
    <3> QED BY <2>2, <3>4
  <2> QED BY <2>3
<1> QED BY <1>3, <1>4, DataKept DEF DataInv

LEMMA PerformData ==
  ASSUME Types, JobsInv, HoldersInv, PoolInv, DataInv, NEW w \in Workers, Perform(w)
  PROVE  DataInv'
<1> USE ThreadNames
<1>0. ThreadsType BY DEF Types
<1>1. UNCHANGED <<pass, run, saved, finished, workQ, dumpQ, jobType, arraysIndex, cur>>
  BY DEF Perform, control, queues, process
<1>2. PICK m \in Subgames : m = cur[w] BY <1>0 DEF Perform, ThreadsType
<1>3. pc[w] = "perform" BY DEF Perform
<1>4. Works(w, m) /\ Holds(w, m) BY <1>2, <1>3 DEF Works, JobPoints, Holds, HoldPoints
<1>5. JobAt(m, "worker") /\ KindAt(m, "worker") BY <1>4, WorkerHas
<1>6. jobType[m] = pass /\ pass \in CFRPasses \cup {"br"}
  BY <1>3, <1>5 DEF KindAt, JobsInv, PointsFit
<1>7. PICK a \in Arrays : a = arraysIndex[m] BY <1>4 DEF HoldersInv, Types, DataType
<1> DEFINE changed == Changes(jobType[m])
<1>8. /\ ram' = [ram EXCEPT ![a] = [part \in Parts |-> IF part \in changed THEN <<m, TRUE>> ELSE @[part]]]
      /\ disk' = [disk EXCEPT ![m] = [part \in Parts |-> IF part \in changed THEN "other" ELSE @[part]]]
      /\ Goto(w, IF jobType[m] = "br" THEN "report" ELSE "toDump")
  BY <1>2, <1>7 DEF Perform
<1>9. PICK p \in {"report", "toDump"} : Goto(w, p) /\ p = IF pass = "br" THEN "report" ELSE "toDump"
  BY <1>6, <1>8
<1>10. cur' = [cur EXCEPT ![w] = m] /\ pc' = [pc EXCEPT ![w] = p]
  BY <1>0, <1>1, <1>2, <1>9 DEF Goto, ThreadsType
<1>11. /\ \A part \in Parts : ram'[a][part] = IF part \in changed THEN <<m, TRUE>> ELSE ram[a][part]
       /\ \A b \in Arrays \ {a} : ram'[b] = ram[b]
       /\ \A part \in Parts : disk'[m][part] = IF part \in changed THEN "other" ELSE disk[m][part]
       /\ \A g \in Subgames \ {m} : disk'[g] = disk[g]
  BY <1>8 DEF Types, DataType
<1>12. /\ m \notin Range(workQ) /\ m \notin Range(dumpQ)
       /\ \A u \in Threads \ {w} : cur[u] = m => pc[u] \notin Marks
  BY <1>2, <1>4, Alone
<1>13. ~Unsaved(m) BY <1>3, <1>12 DEF Unsaved, SomeAt, Marks
<1>14. \A u \in Threads \ {w} : cur'[u] = cur[u] /\ pc'[u] = pc[u] BY <1>0, <1>10 DEF ThreadsType
<1>15. pc'[w] = p BY <1>0, <1>10 DEF ThreadsType
<1>16. ~Loaded(m)' BY <1>1, <1>12, <1>14, <1>15 DEF Loaded, SomeAt, Marks
<1>17. ~Copied(m)' BY <1>1, <1>6 DEF Copied, CFRPasses
<1>18. changed # {} => Unsaved(m)'
  <2>1. pass = "br" => changed = {} BY <1>6 DEF Changes
  <2>2. pass # "br" => SomeAt(m, {"toDump", "dump"})'
    <3>1. pass # "br" => p = "toDump" BY <1>9
    <3>2. cur'[w] = m BY <1>0, <1>10 DEF ThreadsType
    <3> QED BY <1>15, <3>1, <3>2 DEF SomeAt
  <2> QED BY <2>1, <2>2 DEF Unsaved
<1>19. changed \subseteq Parts BY <1>6 DEF Changes, Parts
<1> HIDE DEF changed
<1>20. DiskFine(m)'
  <2> SUFFICES ASSUME NEW part \in Parts
               PROVE  Fine(m, part)' \/ (Unsaved(m)' /\ part \in Changes(jobType'[m]))
    BY DEF DiskFine
  <2>1. CASE part \in changed BY <1>1, <1>18, <2>1 DEF changed
  <2>2. CASE part \notin changed
    <3>1. Fine(m, part) BY <1>6, <1>13 DEF DataInv, DataFine, DiskFine, CFRPasses
    <3>2. disk'[m][part] = disk[m][part] BY <1>11, <2>2
    <3> QED BY <1>1, <3>1, <3>2 DEF Fine, IsLatest, Cut
  <2> QED BY <2>1, <2>2
<1>21. UnsavedFine(m)'
  <2> SUFFICES ASSUME NEW part \in changed PROVE ram'[a][part] = <<m, TRUE>>
    BY <1>1, <1>7 DEF UnsavedFine, changed
  <2> QED BY <1>11, <1>19
<1>22. DataFine(m)' BY <1>16, <1>17, <1>20, <1>21 DEF DataFine, CopyFine, LoadedFine
<1>23. \A g \in Subgames \ {m} : DataFine(g)'
  BY <1>1, <1>2, <1>3, <1>4, <1>7, <1>9, <1>11, OthersData
<1>24. SavedFine' BY <1>1 DEF DataInv, SavedFine
<1> QED BY <1>22, <1>23, <1>24 DEF DataInv

LEMMA DumpData ==
  ASSUME Types, JobsInv, HoldersInv, PoolInv, DataInv, Dump
  PROVE  DataInv'
<1> USE ThreadNames
<1>0. ThreadsType BY DEF Types
<1>1. UNCHANGED <<pass, run, saved, finished, workQ, dumpQ, jobType, arraysIndex, cur, ram>>
  BY DEF Dump, control, queues, process
<1>2. CASE UNCHANGED <<pc, disk>>
  BY <1>1, <1>2, DataStays DEF Loaded, Unsaved, Copied, SomeAt
<1>3. CASE ~UNCHANGED <<pc, disk>>
  <2>1. PICK m \in Subgames : m = cur[Dumper] BY <1>0 DEF Dump, ThreadsType
  <2>2. pc[Dumper] = "dump" BY DEF Dump
  <2>3. JobAt(m, "dumper") /\ KindAt(m, "dumper") BY <2>1 DEF JobsInv, PlacesInv, JobAt
  <2>4. /\ disk' = [disk EXCEPT ![m] = [part \in Parts |->
                      IF part \notin Changes(jobType[m]) THEN @[part]
                      ELSE IF ram[arraysIndex[m]][part] = <<m, TRUE>> THEN "latest" ELSE "other"]]
        /\ Goto(Dumper, "return")
    BY <1>3, <2>1 DEF Dump
  <2>5. Unsaved(m) BY <2>1, <2>2 DEF Unsaved, SomeAt
  <2>6. \A part \in Parts : disk'[m][part] = IF part \in Changes(jobType[m]) THEN "latest"
                                             ELSE disk[m][part]
    <3>1. \A part \in Changes(jobType[m]) : ram[arraysIndex[m]][part] = <<m, TRUE>>
      BY <2>5 DEF DataInv, DataFine, UnsavedFine
    <3> QED BY <2>4, <3>1 DEF Types, DataType
  <2>7. pass \notin {"load", "resumed"} BY <2>3 DEF KindAt, CFRPasses
  <2>8. \A part \in Parts : Fine(m, part)'
    <3> TAKE part \in Parts
    <3>1. CASE part \in Changes(jobType[m]) BY <2>6, <3>1 DEF Fine, IsLatest
    <3>2. CASE part \notin Changes(jobType[m])
      <4>1. Fine(m, part) BY <2>7, <3>2 DEF DataInv, DataFine, DiskFine
      <4>2. disk'[m][part] = disk[m][part] BY <2>6, <3>2
      <4> QED BY <1>1, <4>1, <4>2 DEF Fine, IsLatest, Cut
    <3> QED BY <3>1, <3>2
  <2>9. cur' = [cur EXCEPT ![Dumper] = m] /\ pc' = [pc EXCEPT ![Dumper] = "return"]
    BY <1>0, <1>1, <2>1, <2>4 DEF Goto, ThreadsType
  <2>10. /\ pc'[Dumper] = "return"
         /\ \A u \in Threads \ {Dumper} : cur'[u] = cur[u] /\ pc'[u] = pc[u]
    BY <1>0, <2>9 DEF ThreadsType
  <2>11. /\ m \notin Range(workQ) /\ m \notin Range(dumpQ)
         /\ \A u \in Threads \ {Dumper} : cur[u] = m => pc[u] \notin Marks
    BY <2>1, Alone
  <2>12. ~Loaded(m)' /\ ~Unsaved(m)'
    BY <1>1, <2>10, <2>11 DEF Loaded, Unsaved, SomeAt, Marks
  <2>13. DataFine(m)'
    BY <2>8, <2>12 DEF DataFine, DiskFine, CopyFine, LoadedFine, UnsavedFine
  <2>14. \A g \in Subgames \ {m} : disk'[g] = disk[g] BY <2>4 DEF Types, DataType
  <2>15. \A g \in Subgames \ {m} : DataFine(g)'
    BY <1>1, <2>1, <2>2, <2>4, <2>14, OthersData
  <2>16. SavedFine' BY <1>1 DEF DataInv, SavedFine
  <2> QED BY <2>13, <2>15, <2>16 DEF DataInv
<1> QED BY <1>2, <1>3

LEMMA CopyData ==
  ASSUME Types, JobsInv, HoldersInv, PoolInv, DataInv, NEW w \in Workers, CopyFiles(w)
  PROVE  DataInv'
<1> USE ThreadNames
<1>0. ThreadsType BY DEF Types
<1>1. UNCHANGED <<pass, run, saved, finished, workQ, dumpQ, jobType, arraysIndex, cur, ram>>
  BY DEF CopyFiles, control, queues
<1>2. CASE UNCHANGED <<pc, disk>>
  BY <1>1, <1>2, DataStays DEF Loaded, Unsaved, Copied, SomeAt
<1>3. CASE ~UNCHANGED <<pc, disk>>
  <2>1. PICK m \in Subgames : m = cur[w] BY <1>0 DEF CopyFiles, ThreadsType
  <2>2. pc[w] = "copy" BY DEF CopyFiles
  <2>3. Works(w, m) BY <2>1, <2>2 DEF Works, JobPoints
  <2>4. pass = "load" BY <2>2 DEF JobsInv, PointsFit
  <2>5. /\ ~CopyFails(m) /\ Goto(w, "reportLoad")
        /\ disk' = [disk EXCEPT ![m] = [part \in Parts |->
                      IF saved = None \/ saved[m][part] = "none" THEN @[part]
                      ELSE IF saved[m][part] = "short" /\ @[part] # "none" THEN "mixed"
                      ELSE saved[m][part]]]
    BY <1>3, <2>1 DEF CopyFiles
  <2>6. saved # None /\ \A part \in Parts : saved[m][part] # "none" BY <2>5 DEF CopyFails
  <2>7. ASSUME NEW part \in Parts PROVE Fine(m, part)'
    <3>1. disk'[m][part] = IF saved[m][part] = "short" /\ disk[m][part] # "none" THEN "mixed"
                           ELSE saved[m][part]
      BY <2>5, <2>6 DEF Types, DataType
    <3>2. saved[m][part] \in {"latest", "short", "mixed"}
      <4>1. saved[m][part] \in FileStates BY <2>6 DEF Types, DataType
      <4>2. saved[m][part] # "other" BY <2>6 DEF DataInv, SavedFine
      <4> QED BY <2>6, <4>1, <4>2 DEF FileStates
    <3> QED BY <3>1, <3>2 DEF Fine, IsLatest, Cut
  <2>8. cur' = [cur EXCEPT ![w] = m] /\ pc' = [pc EXCEPT ![w] = "reportLoad"]
    BY <1>0, <1>1, <2>1, <2>5 DEF Goto, ThreadsType
  <2>9. /\ pc'[w] = "reportLoad"
        /\ \A u \in Threads \ {w} : cur'[u] = cur[u] /\ pc'[u] = pc[u]
    BY <1>0, <2>8 DEF ThreadsType
  <2>10. /\ m \notin Range(workQ) /\ m \notin Range(dumpQ)
         /\ \A u \in Threads \ {w} : cur[u] = m => pc[u] \notin Marks
    BY <2>1, <2>3, Alone
  <2>11. ~Loaded(m)' /\ ~Unsaved(m)'
    BY <1>1, <2>9, <2>10 DEF Loaded, Unsaved, SomeAt, Marks
  <2>12. DataFine(m)'
    BY <2>7, <2>11 DEF DataFine, DiskFine, CopyFine, LoadedFine, UnsavedFine
  <2>13. \A g \in Subgames \ {m} : disk'[g] = disk[g] BY <2>5 DEF Types, DataType
  <2>14. \A g \in Subgames \ {m} : DataFine(g)'
    BY <1>1, <2>1, <2>2, <2>5, <2>13, OthersData
  <2>15. SavedFine' BY <1>1 DEF DataInv, SavedFine
  <2> QED BY <2>12, <2>14, <2>15 DEF DataInv
<1> QED BY <1>2, <1>3

LEMMA WorkerTakeData ==
  ASSUME Types, JobsInv, HoldersInv, DataInv, NEW w \in Workers, WorkerTake(w)
  PROVE  DataInv'
<1> USE ThreadNames
<1> DEFINE h == Head(workQ)
<1>0. ThreadsType BY DEF Types
<1>1. UNCHANGED <<pass, run, disk, saved, ram, finished, dumpQ, jobType, arraysIndex>>
  BY DEF WorkerTake, control, data, process
<1>2. /\ h \in Subgames \cup {Quit} /\ Range(workQ) = Range(workQ') \cup {h}
      /\ (h \in Subgames => h \notin Range(workQ'))
  BY JobTaken DEF WorkerTake, JobsInv, OnceInv, Types, QueuesType
<1>3. cur[w] = None /\ pc[w] = "wait" /\ cur' = [cur EXCEPT ![w] = h]
  BY <1>0 DEF WorkerTake, ThreadsType
<1>4. ASSUME h = Quit \/ pass = "load" PROVE DataInv'
  <2>1. PICK p \in {"gone", "copy"} : Goto(w, p)
    <3>1. CASE h = Quit BY <3>1 DEF WorkerTake
    <3>2. CASE h \in Subgames
      <4>1. JobAt(h, "workQ") /\ KindAt(h, "workQ")
        BY <1>2, <3>2 DEF JobsInv, PlacesInv, JobAt
      <4>2. jobType[h] = "load" /\ h # Quit BY <1>4, <3>2, <4>1 DEF KindAt
      <4> QED BY <4>2 DEF WorkerTake
    <3> QED BY <1>2, <3>1, <3>2
  <2>2. p \notin Marks /\ pc[w] \notin Marks BY <1>3 DEF Marks
  <2>3. pc' = [pc EXCEPT ![w] = p] BY <2>1 DEF Goto
  <2>4. \A g \in Subgames : pass # "load" => (g \in Range(workQ') <=> g \in Range(workQ))
    BY <1>2, <1>4, ThreadNames
  <2>5. cur' = [cur EXCEPT ![w] = h] BY <1>3
  <2> HIDE DEF h
  <2>6. w \in Threads OBVIOUS
  <2>7. ASSUME NEW g \in Subgames
        PROVE  /\ SomeAt(g, {"enqueue", "perform"})' <=> SomeAt(g, {"enqueue", "perform"})
               /\ SomeAt(g, {"toDump", "dump"})' <=> SomeAt(g, {"toDump", "dump"})
               /\ SomeAt(g, {"reportLoad"})' <=> SomeAt(g, {"reportLoad"})
    BY <1>0, <2>2, <2>3, <2>5, <2>6, UnmarkedMove
  <2>8. \A g \in Subgames : /\ Loaded(g)' <=> Loaded(g)
                            /\ Unsaved(g)' <=> Unsaved(g)
                            /\ Copied(g)' <=> Copied(g)
    BY <1>1, <2>4, <2>7 DEF Loaded, Unsaved, Copied
  <2> QED BY <1>1, <2>8, DataStays
<1>5. ASSUME h \in Subgames, pass # "load" PROVE DataInv'
  <2>1. PICK m \in Subgames : m = h BY <1>5
  <2>2. KindAt(m, "workQ") BY <1>2, <2>1 DEF JobsInv, PlacesInv, JobAt
  <2>3. pc' = [pc EXCEPT ![w] = "perform"] BY <1>5, <2>1, <2>2 DEF WorkerTake, Goto, KindAt
  <2>4. cur' = [cur EXCEPT ![w] = m] /\ Range(workQ) = Range(workQ') \cup {m}
    BY <1>2, <1>3, <2>1
  <2> HIDE DEF h
  <2>5. ASSUME NEW g \in Subgames, NEW P, g # m \/ "perform" \notin P
        PROVE  SomeAt(g, P)' <=> SomeAt(g, P)
    <3>1. (m = g /\ "perform" \in P) <=> (cur[w] = g /\ pc[w] \in P) BY <1>3, <2>5
    <3> QED BY <1>0, <2>3, <2>4, <3>1, SomeAtSame
  <2>6. Loaded(m) BY <1>5, <2>4 DEF Loaded
  <2>7. Loaded(m)'
    <3>1. pc'[w] = "perform" /\ cur'[w] = m BY <1>0, <2>3, <2>4 DEF ThreadsType
    <3> QED BY <3>1 DEF Loaded, SomeAt
  <2>8. \A g \in Subgames \ {m} : Loaded(g)' <=> Loaded(g) BY <1>1, <2>4, <2>5 DEF Loaded
  <2>9. \A g \in Subgames : (Unsaved(g)' <=> Unsaved(g)) /\ (Copied(g)' <=> Copied(g))
    BY <1>1, <2>5 DEF Unsaved, Copied
  <2> QED BY <1>1, <2>6, <2>7, <2>8, <2>9, DataStays
<1> QED BY <1>2, <1>4, <1>5

LEMMA WorkerLeavesData ==
  ASSUME Types, JobsInv, HoldersInv, DataInv, NEW w \in Workers,
         ToDump(w) \/ ReportBR(w) \/ ReportLoad(w)
  PROVE  DataInv'
<1> USE ThreadNames
<1>0. ThreadsType BY DEF Types
<1>1. UNCHANGED <<pass, run, disk, saved, ram, workQ, jobType, arraysIndex>>
  BY DEF ToDump, ReportBR, ReportLoad, control, data, process, queues
<1>2. PICK m \in Subgames : m = cur[w] BY <1>0 DEF ToDump, ReportBR, ReportLoad, ThreadsType
<1>3. JobAt(m, "worker")
  <2>1. Works(w, m) BY <1>2 DEF ToDump, ReportBR, ReportLoad, Works, JobPoints
  <2> QED BY <2>1, WorkerHas
<1>4. CASE ToDump(w)
  <2>1. /\ cur' = [cur EXCEPT ![w] = None] /\ pc' = [pc EXCEPT ![w] = "wait"]
        /\ pc[w] = "toDump" /\ UNCHANGED finished
    BY <1>4 DEF ToDump, Goto
  <2>2. Range(dumpQ') = Range(dumpQ) \cup {m}
    BY <1>2, <1>3, <1>4, JobAppended DEF ToDump, JobAt, JobsInv, OnceInv, Types, QueuesType
  <2>3. ASSUME NEW g \in Subgames, NEW P, g # m \/ "toDump" \notin P
        PROVE  SomeAt(g, P)' <=> SomeAt(g, P)
    <3>1. (None = g /\ "wait" \in P) <=> (cur[w] = g /\ pc[w] \in P) BY <1>2, <2>1, <2>3
    <3> QED BY <1>0, <2>1, <3>1, SomeAtSame
  <2>4. Unsaved(m) /\ Unsaved(m)' BY <1>2, <2>1, <2>2 DEF Unsaved, SomeAt
  <2>5. \A g \in Subgames \ {m} : Unsaved(g)' <=> Unsaved(g) BY <2>2, <2>3 DEF Unsaved
  <2>6. \A g \in Subgames : (Loaded(g)' <=> Loaded(g)) /\ (Copied(g)' <=> Copied(g))
    BY <1>1, <2>1, <2>3 DEF Loaded, Copied
  <2> QED BY <1>1, <2>4, <2>5, <2>6, DataStays
<1>5. CASE ReportBR(w)
  <2>1. pass = "br" /\ pc[w] = "report" /\ pc' = [pc EXCEPT ![w] = "return"] /\ UNCHANGED dumpQ
    BY <1>5 DEF ReportBR, JobsInv, PointsFit, Goto, queues
  <2>2. cur' = [cur EXCEPT ![w] = m] BY <1>0, <1>2, <1>5 DEF ReportBR, ThreadsType
  <2>3. pc[w] \notin Marks /\ "return" \notin Marks BY <2>1 DEF Marks
  <2>4. \A g \in Subgames : /\ Loaded(g)' <=> Loaded(g)
                            /\ Unsaved(g)' <=> Unsaved(g)
                            /\ Copied(g)' <=> Copied(g)
    BY <1>0, <1>1, <2>1, <2>2, <2>3, UnmarkedMove DEF Loaded, Unsaved, Copied
  <2> QED BY <1>1, <2>4, DataStays
<1>6. CASE ReportLoad(w)
  <2>1. /\ cur' = [cur EXCEPT ![w] = None] /\ pc' = [pc EXCEPT ![w] = "wait"]
        /\ pc[w] = "reportLoad" /\ pass = "load" /\ UNCHANGED dumpQ
    BY <1>6 DEF ReportLoad, Goto, JobsInv, PointsFit, queues
  <2>2. finished'[m] > 0 /\ \A g \in Subgames \ {m} : finished'[g] = finished[g]
    <3>1. finished' = [finished EXCEPT ![m] = @ + 1] /\ finished[m] = 0
      BY <1>2, <1>3, <1>6 DEF ReportLoad, Post, JobAt
    <3> QED BY <3>1 DEF Types, ControlType
  <2>3. ASSUME NEW g \in Subgames, NEW P, g # m \/ "reportLoad" \notin P
        PROVE  SomeAt(g, P)' <=> SomeAt(g, P)
    <3>1. (None = g /\ "wait" \in P) <=> (cur[w] = g /\ pc[w] \in P) BY <1>2, <2>1, <2>3
    <3> QED BY <1>0, <2>1, <3>1, SomeAtSame
  <2>4. Copied(m) BY <1>2, <2>1 DEF Copied, SomeAt
  <2>5. Copied(m)' BY <1>1, <2>1, <2>2 DEF Copied
  <2>6. \A g \in Subgames \ {m} : Copied(g)' <=> Copied(g) BY <1>1, <2>2, <2>3 DEF Copied
  <2>7. \A g \in Subgames : (Loaded(g)' <=> Loaded(g)) /\ (Unsaved(g)' <=> Unsaved(g))
    BY <1>1, <2>1, <2>3 DEF Loaded, Unsaved
  <2> QED BY <1>1, <2>4, <2>5, <2>6, <2>7, DataStays
<1> QED BY <1>4, <1>5, <1>6

LEMMA ReturnData ==
  ASSUME Types, HoldersInv, DataInv, NEW t \in Workers \cup {Dumper}, ReturnArrays(t) \/ ClearArrays(t)
  PROVE  DataInv'
<1> USE ThreadNames
<1>0. ThreadsType BY DEF Types
<1>1. UNCHANGED <<pass, run, disk, saved, ram, finished, workQ, dumpQ, jobType>>
  BY DEF ReturnArrays, ClearArrays, control, data, process, queues
<1>2. PICK p \in {"clear", "report", "wait"}, c \in Subgames \cup {None} :
        pc' = [pc EXCEPT ![t] = p] /\ cur' = [cur EXCEPT ![t] = c]
  <2>1. CASE ReturnArrays(t) \/ (ClearArrays(t) /\ t = Dumper)
    <3>1. cur' = [cur EXCEPT ![t] = cur[t]] /\ cur[t] \in Subgames
      BY <1>0, <2>1 DEF ReturnArrays, ClearArrays, ThreadsType
    <3> QED BY <2>1, <3>1 DEF ReturnArrays, ClearArrays, Goto
  <2>2. CASE ClearArrays(t) /\ t # Dumper BY <2>2 DEF ClearArrays, Goto
  <2> QED BY <2>1, <2>2
<1>3. pc[t] \notin Marks /\ p \notin Marks BY DEF ReturnArrays, ClearArrays, Marks
<1>4. \A g \in Subgames : /\ Loaded(g)' <=> Loaded(g)
                          /\ Unsaved(g)' <=> Unsaved(g)
                          /\ Copied(g)' <=> Copied(g)
  BY <1>0, <1>1, <1>2, <1>3, UnmarkedMove DEF Loaded, Unsaved, Copied
<1>5. ASSUME NEW g \in Subgames, Loaded(g) \/ Unsaved(g) PROVE arraysIndex'[g] = arraysIndex[g]
  <2>1. CASE ReturnArrays(t) BY <2>1 DEF ReturnArrays
  <2>2. CASE ClearArrays(t)
    <3>1. Owns(g) BY <1>5, InUseOwns
    <3>2. g # cur[t] BY <2>2, <3>1 DEF ClearArrays, Owns, Returned
    <3> QED BY <2>2, <3>2 DEF ClearArrays, Types, DataType
  <2> QED BY <2>1, <2>2
<1> QED BY <1>1, <1>4, <1>5, DataStays

LEMMA DumperData ==
  ASSUME Types, JobsInv, DataInv, DumperTake \/ ReportCFR
  PROVE  DataInv'
<1> USE ThreadNames
<1>0. ThreadsType BY DEF Types
<1>1. UNCHANGED <<pass, run, disk, saved, ram, workQ, jobType, arraysIndex>>
  BY DEF DumperTake, ReportCFR, control, data, process, queues
<1>2. CASE DumperTake
  <2>1. PICK h \in Subgames \cup {Quit} :
          h = Head(dumpQ) /\ Range(dumpQ) = Range(dumpQ') \cup {h} /\ UNCHANGED finished
    BY <1>2, JobTaken DEF DumperTake, JobsInv, OnceInv, Types, QueuesType
  <2>2. /\ pc[Dumper] = "wait" /\ cur' = [cur EXCEPT ![Dumper] = h] /\ cur[Dumper] = None
        /\ pc' = [pc EXCEPT ![Dumper] = IF h = Quit THEN "gone" ELSE "dump"]
    BY <1>0, <1>2, <2>1 DEF DumperTake, Goto, ThreadsType
  <2>3. ASSUME NEW g \in Subgames, NEW P, P \subseteq Marks, g # h \/ "dump" \notin P
        PROVE  SomeAt(g, P)' <=> SomeAt(g, P)
    <3>1. PICK p : pc' = [pc EXCEPT ![Dumper] = p] /\ p = IF h = Quit THEN "gone" ELSE "dump"
      BY <2>2
    <3>2. (h = g /\ p \in P) <=> (cur[Dumper] = g /\ pc[Dumper] \in P)
      BY <2>2, <2>3, <3>1 DEF Marks
    <3>3. pc' = [pc EXCEPT ![Dumper] = p] BY <3>1
    <3>4. cur' = [cur EXCEPT ![Dumper] = h] BY <2>2
    <3> QED BY <1>0, <3>2, <3>3, <3>4, SomeAtSame
  <2>4. ASSUME h \in Subgames PROVE Unsaved(h) /\ Unsaved(h)'
    <3>1. pc' = [pc EXCEPT ![Dumper] = "dump"] BY <2>2, <2>4
    <3>2. cur' = [cur EXCEPT ![Dumper] = h] BY <2>2
    <3>3. pc'[Dumper] = "dump" /\ cur'[Dumper] = h BY <1>0, <3>1, <3>2 DEF ThreadsType
    <3> QED BY <2>1, <3>3 DEF Unsaved, SomeAt
  <2>5. \A g \in Subgames \ {h} : Unsaved(g)' <=> Unsaved(g) BY <2>1, <2>3 DEF Unsaved, Marks
  <2>6. \A g \in Subgames : (Loaded(g)' <=> Loaded(g)) /\ (Copied(g)' <=> Copied(g))
    BY <1>1, <2>1, <2>3 DEF Loaded, Copied, Marks
  <2>7. \A g \in Subgames : Unsaved(g)' <=> Unsaved(g) BY <2>4, <2>5
  <2> QED BY <1>1, <2>6, <2>7, DataStays
<1>3. CASE ReportCFR
  <2>1. /\ pc[Dumper] = "report" /\ UNCHANGED dumpQ
        /\ pc' = [pc EXCEPT ![Dumper] = "wait"] /\ cur' = [cur EXCEPT ![Dumper] = None]
    BY <1>3 DEF ReportCFR, Goto, queues
  <2>2. pass # "load"
    <3>1. PICK m \in Subgames : m = cur[Dumper] BY <1>0, <2>1 DEF ThreadsType
    <3>2. KindAt(m, "dumper") BY <3>1 DEF JobsInv, PlacesInv, JobAt
    <3> QED BY <3>2 DEF KindAt, CFRPasses
  <2>3. pc[Dumper] \notin Marks /\ "wait" \notin Marks BY <2>1 DEF Marks
  <2>4. \A g \in Subgames : /\ Loaded(g)' <=> Loaded(g)
                            /\ Unsaved(g)' <=> Unsaved(g)
                            /\ Copied(g)' <=> Copied(g)
    BY <1>0, <1>1, <2>1, <2>2, <2>3, UnmarkedMove DEF Loaded, Unsaved, Copied
  <2> QED BY <1>1, <2>4, DataStays
<1> QED BY <1>2, <1>3

(* A subgame without a job under way.                                      *)
LEMMA NotInUse ==
  ASSUME Types, NEW m \in Subgames, NEW x \in {"idle", "todo", "done"}, JobAt(m, x)
  PROVE  ~Loaded(m) /\ ~Unsaved(m) /\ ~SomeAt(m, {"reportLoad"})
<1> USE ThreadNames
<1>0. ThreadsType BY DEF Types
<1>1. ASSUME NEW t \in Threads, cur[t] = m, pc[t] \in Marks PROVE FALSE
  <2>1. CASE t = Loader \/ t = Dumper BY <1>1, <2>1 DEF JobAt
  <2>2. CASE t \in Workers
    <3>1. Works(t, m) BY <1>0, <1>1, <2>2 DEF Works, Marks, JobPoints, ThreadsType, WorkerPoints
    <3> QED BY <2>2, <3>1 DEF JobAt, AtWork
  <2> QED BY <2>1, <2>2
<1>2. m \notin Range(workQ) /\ m \notin Range(dumpQ) BY DEF JobAt
<1> QED BY <1>1, <1>2 DEF Loaded, Unsaved, SomeAt, Marks

LEMMA MainData ==
  ASSUME Types, JobsInv, DataInv, Stop \/ \E m \in Subgames : Submit(m) \/ SubmitLoad(m)
  PROVE  DataInv'
<1> USE ThreadNames
<1>1. UNCHANGED <<pass, run, disk, saved, finished, pc, cur, ram, arraysIndex>>
  BY DEF Stop, Submit, SubmitLoad, data, threads, process
<1>2. \A g, P : SomeAt(g, P)' <=> SomeAt(g, P) BY <1>1 DEF SomeAt
<1>3. ASSUME NEW g \in Subgames
      PROVE  /\ pass # "load" => (g \in Range(workQ') <=> g \in Range(workQ))
             /\ g \in Range(dumpQ') <=> g \in Range(dumpQ)
  <2>1. CASE Stop
    <3>1. ASSUME NEW q, IsQueue(q) PROVE g \in Range(Append(q, Quit)) <=> g \in Range(q)
      BY <3>1, Appended DEF IsQueue
    <3> QED BY <2>1, <3>1 DEF Stop, Types, QueuesType
  <2>2. ASSUME NEW m \in Subgames, Submit(m) \/ SubmitLoad(m)
        PROVE  UNCHANGED dumpQ /\ (pass # "load" => UNCHANGED workQ)
    BY <2>2 DEF Submit, SubmitLoad
  <2> QED BY <2>1, <2>2
<1>4. \A g \in Subgames : /\ Loaded(g)' <=> Loaded(g)
                          /\ Unsaved(g)' <=> Unsaved(g)
                          /\ Copied(g)' <=> Copied(g)
  BY <1>1, <1>2, <1>3 DEF Loaded, Unsaved, Copied
<1>5. ASSUME NEW g \in Subgames, Loaded(g) \/ Unsaved(g) PROVE jobType'[g] = jobType[g]
  <2>1. CASE Stop BY <2>1 DEF Stop
  <2>2. ASSUME NEW m \in Subgames, Submit(m) \/ SubmitLoad(m) PROVE jobType'[g] = jobType[g]
    <3>1. JobAt(m, "todo") BY <2>2 DEF JobsInv, PlacesInv, JobAt, Submit, SubmitLoad
    <3>2. g # m BY <1>5, <3>1, NotInUse
    <3>3. jobType' = [jobType EXCEPT ![m] = pass] BY <2>2 DEF Submit, SubmitLoad
    <3> QED BY <3>2, <3>3 DEF Types, ControlType
  <2> QED BY <2>1, <2>2
<1> QED BY <1>1, <1>4, <1>5, DataStays

(* When all jobs of a pass are reported all files are written.             *)
LEMMA AllFine ==
  ASSUME Types, JobsInv, DataInv, todo = {}, AllReported, pass # "resumed",
         NEW g \in Subgames, NEW part \in Parts
  PROVE  Fine(g, part)
<1>1. JobAt(g, "done") \/ (JobAt(g, "idle") /\ KindAt(g, "idle")) BY AllDone
<1>2. CASE pass = "load"
  <2>1. JobAt(g, "done") BY <1>1, <1>2 DEF KindAt
  <2>2. Copied(g) BY <1>2, <2>1 DEF Copied, JobAt
  <2> QED BY <2>2 DEF DataInv, DataFine, CopyFine
<1>3. CASE pass # "load"
  <2>1. ~Unsaved(g) BY <1>1, NotInUse
  <2> QED BY <1>3, <2>1 DEF DataInv, DataFine, DiskFine
<1> QED BY <1>2, <1>3

LEMMA NewPassData ==
  ASSUME Types, JobsInv, DataInv, Save \/ \E next \in Passes \cup {"quit"} : StartPass(next)
  PROVE  DataInv'
<1> USE ThreadNames
<1>1. /\ todo = {} /\ AllReported
      /\ UNCHANGED <<workQ, dumpQ, pc, cur, jobType, arraysIndex, ram, disk, run>>
      /\ finished' = [g \in Subgames |-> IF g \in jobs THEN finished[g] - 1 ELSE finished[g]]
      /\ <<pass, pass'>> \in Schedule
  BY DEF Save, StartPass, queues, threads, data, process
<1>2. \A g \in Subgames : \/ JobAt(g, "done") /\ KindAt(g, "done")
                          \/ JobAt(g, "idle") /\ KindAt(g, "idle")
  BY <1>1, AllDone
<1>3. \A g \in Subgames : ~Loaded(g) /\ ~Unsaved(g) /\ ~SomeAt(g, {"reportLoad"})
  BY <1>2, NotInUse
<1>4. ASSUME NEW g \in Subgames PROVE ~Loaded(g)' /\ ~Unsaved(g)' /\ ~Copied(g)'
  <2>1. finished'[g] = 0 BY <1>1, <1>2 DEF JobAt
  <2>2. \A P : SomeAt(g, P)' <=> SomeAt(g, P) BY <1>1 DEF SomeAt
  <2>3. g \notin Range(workQ) BY <1>2 DEF JobAt
  <2> QED BY <1>1, <1>3, <2>1, <2>2, <2>3 DEF Loaded, Unsaved, Copied
<1>5. pass # "resumed" => \A g \in Subgames, part \in Parts : Fine(g, part)
  BY <1>1, AllFine
<1>6. pass = "resumed" => pass' = "load" BY <1>1, ScheduleAssumption
<1>7. ASSUME NEW g \in Subgames PROVE DataFine(g)'
  <2>1. \A part : Fine(g, part)' <=> Fine(g, part) BY <1>1 DEF Fine, IsLatest, Cut
  <2>2. DiskFine(g)' BY <1>5, <1>6, <2>1 DEF DiskFine
  <2> QED BY <1>4, <2>2 DEF DataFine, CopyFine, LoadedFine, UnsavedFine
<1>8. SavedFine'
  <2>1. ASSUME NEW next \in Passes \cup {"quit"}, StartPass(next) PROVE UNCHANGED saved
    BY <2>1 DEF StartPass, process
  <2>2. CASE UNCHANGED saved BY <2>2 DEF DataInv, SavedFine
  <2>3. CASE Save
    <3> SUFFICES ASSUME NEW g \in Subgames, NEW part \in Parts PROVE saved'[g][part] # "other"
      BY DEF SavedFine
    <3>1. pass # "resumed" BY <1>6, <2>3 DEF Save
    <3>2. disk[g][part] # "other" BY <1>5, <3>1 DEF Fine, IsLatest, Cut
    <3>3. saved' \in CopiesOf(disk) BY <2>3 DEF Save
    <3>4. CASE saved' = disk BY <3>2, <3>4
    <3>5. CASE saved' # disk
      <4>1. PICK f \in Failing :
              saved' \in {[disk EXCEPT ![f[1]][f[2]] = bad] : bad \in {"none", "short"}}
        BY <3>3, <3>5 DEF CopiesOf
      <4>2. PICK bad \in {"none", "short"} : saved' = [disk EXCEPT ![f[1]][f[2]] = bad]
        BY <4>1
      <4>3. f[1] \in Subgames /\ f[2] \in Parts BY FailingAssumption
      <4> QED BY <3>2, <4>2, <4>3 DEF Types, DataType
    <3> QED BY <3>4, <3>5
  <2> QED BY <2>1, <2>2, <2>3
<1> QED BY <1>7, <1>8 DEF DataInv

LEMMA ResumeData == ASSUME DataInv, Resume PROVE DataInv'
<1> USE ThreadNames
<1>1. \A t \in Threads : pc'[t] = "wait" BY DEF Resume
<1>2. Range(<<>>) = {} BY DEF Range
<1>3. /\ workQ' = <<>> /\ dumpQ' = <<>> /\ UNCHANGED saved /\ pass' = "resumed"
  BY DEF Resume
<1>4. \A g \in Subgames : ~Loaded(g)' /\ ~Unsaved(g)' /\ ~Copied(g)'
  BY <1>1, <1>2, <1>3 DEF Loaded, Unsaved, Copied, SomeAt
<1>5. \A g \in Subgames : DataFine(g)'
  BY <1>3, <1>4 DEF DataFine, DiskFine, CopyFine, LoadedFine, UnsavedFine
<1>6. SavedFine' BY <1>3 DEF DataInv, SavedFine
<1> QED BY <1>5, <1>6 DEF DataInv

LEMMA InitData == Init => DataInv
<1> SUFFICES ASSUME Init PROVE DataInv OBVIOUS
<1> USE ThreadNames
<1>1. \A t \in Threads : pc[t] = "wait" BY DEF Init
<1>2. Range(<<>>) = {} BY DEF Range
<1>3. /\ workQ = <<>> /\ dumpQ = <<>> /\ pass = "start" /\ run = 1 /\ saved = None
  BY DEF Init
<1>4. \A g \in Subgames : ~Loaded(g) /\ ~Unsaved(g) /\ ~Copied(g)
  BY <1>1, <1>2, <1>3 DEF Loaded, Unsaved, Copied, SomeAt
<1>5. \A g \in Subgames, part \in Parts : disk[g][part] = "none" BY DEF Init, AllFiles
<1>6. \A g \in Subgames, part \in Parts : Fine(g, part) BY <1>3, <1>5 DEF Fine, IsLatest
<1>7. \A g \in Subgames : DataFine(g)
  BY <1>4, <1>6 DEF DataFine, DiskFine, CopyFine, LoadedFine, UnsavedFine
<1>8. SavedFine BY <1>3 DEF SavedFine
<1> QED BY <1>7, <1>8 DEF DataInv

LEMMA DataInvStep ==
  Types /\ JobsInv /\ HoldersInv /\ PoolInv /\ DataInv /\ [Next]_vars => DataInv'
<1> SUFFICES ASSUME Types, JobsInv, HoldersInv, PoolInv, DataInv, [Next]_vars PROVE DataInv'
  OBVIOUS
<1>1. CASE UNCHANGED vars
  <2>1. UNCHANGED <<pass, run, disk, saved, finished, workQ, dumpQ, pc, cur, ram, jobType, arraysIndex>>
    BY <1>1 DEF vars, control, queues, data, threads, process
  <2> QED BY <2>1, DataStays DEF Loaded, Unsaved, Copied, SomeAt
<1> QED BY Steps, <1>1, MainData, NewPassData, LoaderData, LoadData, WorkerTakeData, PerformData,
          WorkerLeavesData, CopyData, ReturnData, DumperData, DumpData, ResumeData

-----------------------------------------------------------------------------
(* The asserts, when no pass follows a best-response pass *)

ResponseIsLast == \A s \in Schedule : s[1] = "br" => s[2] = "quit"

(* A worker that has reported a best response has yet to clear the arrays. *)
EndsInv == \A w \in Workers :
             pc[w] \in {"return", "clear"} =>
               pass = "quit" \/ (pass = "br" /\ finished[cur[w]] > 0)

LEMMA EndsStay ==
  ASSUME ThreadsType, EndsInv, UNCHANGED pass,
         \A w \in Workers : pc'[w] \in {"return", "clear"} =>
           pc[w] \in {"return", "clear"} /\ cur'[w] = cur[w],
         \A g \in Subgames : finished[g] > 0 => finished'[g] > 0
  PROVE  EndsInv'
<1>1. \A w \in Workers : pc[w] \in {"return", "clear"} => cur[w] \in Subgames
  BY ThreadNames DEF ThreadsType
<1> QED BY <1>1 DEF EndsInv

(* A thread whose step does not lead a worker to these points.             *)
LEMMA EndsMove ==
  ASSUME ThreadsType, EndsInv, UNCHANGED pass, NEW t \in Threads, NEW p, NEW c,
         pc' = [pc EXCEPT ![t] = p], cur' = [cur EXCEPT ![t] = c],
         t \in Workers => p \notin {"return", "clear"},
         \A g \in Subgames : finished[g] > 0 => finished'[g] > 0
  PROVE  EndsInv'
<1>1. /\ t \in Workers => pc'[t] = p
      /\ \A w \in Workers \ {t} : pc'[w] = pc[w] /\ cur'[w] = cur[w]
  BY ThreadNames DEF ThreadsType
<1>2. \A w \in Workers : pc'[w] \in {"return", "clear"} =>
        pc[w] \in {"return", "clear"} /\ cur'[w] = cur[w]
  BY <1>1
<1> QED BY <1>2, EndsStay

LEMMA Posted ==
  ASSUME Types, NEW m \in Subgames, Post(m)
  PROVE  finished'[m] > 0 /\ \A g \in Subgames : finished[g] > 0 => finished'[g] > 0
<1>1. finished \in [Subgames -> Nat] BY DEF Types, ControlType
<1>2. finished' = [g \in Subgames |-> IF g = m THEN finished[g] + 1 ELSE finished[g]]
  BY <1>1 DEF Post
<1>3. ASSUME NEW g \in Subgames, finished[g] > 0 PROVE finished'[g] > 0 BY <1>1, <1>2, <1>3
<1>4. finished'[m] > 0 BY <1>1, <1>2
<1> QED BY <1>3, <1>4

LEMMA EndsStep ==
  ASSUME ResponseIsLast, Types, JobsInv, EndsInv, [Next]_vars
  PROVE  EndsInv'
<1> USE ThreadNames
<1>0. ThreadsType BY DEF Types
<1>1. CASE UNCHANGED <<pass, finished, pc, cur>> BY <1>0, <1>1, EndsStay
<1>2. CASE Stop \/ \E g \in Subgames : Submit(g) \/ SubmitLoad(g)
  <2>1. UNCHANGED <<pass, finished, pc, cur>> BY <1>2 DEF Stop, Submit, SubmitLoad, threads
  <2> QED BY <1>1, <2>1
<1>3. CASE Save \/ \E next \in Passes \cup {"quit"} : StartPass(next)
  <2>1. <<pass, pass'>> \in Schedule /\ UNCHANGED <<pc, cur>> BY <1>3 DEF Save, StartPass, threads
  <2>2. pass # "quit" BY <2>1, ScheduleAssumption DEF Passes
  <2>3. pass = "br" => pass' = "quit" BY <2>1 DEF ResponseIsLast
  <2> QED BY <2>1, <2>2, <2>3 DEF EndsInv
<1>4. CASE LoaderCheck \/ Grab \/ Load \/ Dump
  <2>1. UNCHANGED <<pass, finished, cur>>
    BY <1>4 DEF LoaderCheck, Grab, Load, Dump, control
  <2>2. \A w \in Workers : pc'[w] = pc[w]
    BY <1>0, <1>4 DEF LoaderCheck, Grab, Load, Dump, Goto, ThreadsType
  <2> QED BY <1>0, <2>1, <2>2, EndsStay
<1>5. CASE LoaderTake \/ Enqueue \/ DumperTake
  <2>1. UNCHANGED <<pass, finished>> BY <1>5 DEF LoaderTake, Enqueue, DumperTake, control
  <2>2. \A w \in Workers : pc'[w] = pc[w]
    BY <1>0, <1>5 DEF LoaderTake, Enqueue, DumperTake, Goto, ThreadsType
  <2>3. \A w \in Workers : cur'[w] = cur[w]
    BY <1>0, <1>5 DEF LoaderTake, Enqueue, DumperTake, ThreadsType
  <2> QED BY <1>0, <2>1, <2>2, <2>3, EndsStay
<1>6. ASSUME NEW w \in Workers, WorkerTake(w) \/ ToDump(w)
      PROVE  EndsInv'
  <2>1. UNCHANGED <<pass, finished>> BY <1>6 DEF WorkerTake, ToDump, control
  <2>2. PICK p \in {"gone", "copy", "perform", "wait"} :
          \E c : pc' = [pc EXCEPT ![w] = p] /\ cur' = [cur EXCEPT ![w] = c]
    BY <1>6 DEF WorkerTake, ToDump, Goto
  <2>3. PICK c : pc' = [pc EXCEPT ![w] = p] /\ cur' = [cur EXCEPT ![w] = c] BY <2>2
  <2> QED BY <1>0, <2>1, <2>3, EndsMove
<1>7. ASSUME NEW w \in Workers, Perform(w) \/ CopyFiles(w)
      PROVE  EndsInv'
  <2>1. UNCHANGED <<pass, finished, cur>> BY <1>7 DEF Perform, CopyFiles, control
  <2>2. CASE UNCHANGED pc BY <1>1, <2>1, <2>2
  <2>3. CASE ~UNCHANGED pc
    <3>1. PICK p \in {"report", "toDump", "reportLoad"} : pc' = [pc EXCEPT ![w] = p]
      BY <1>7, <2>3 DEF Perform, CopyFiles, Goto
    <3>2. cur' = [cur EXCEPT ![w] = cur[w]] BY <1>0, <2>1 DEF ThreadsType
    <3> QED BY <1>0, <2>1, <3>1, <3>2, EndsMove
  <2> QED BY <2>2, <2>3
<1>8. ASSUME NEW w \in Workers, ReportBR(w) PROVE EndsInv'
  <2>1. PICK m \in Subgames : m = cur[w] BY <1>0, <1>8 DEF ReportBR, ThreadsType
  <2>2. finished'[m] > 0 /\ \A g \in Subgames : finished[g] > 0 => finished'[g] > 0
    BY <1>8, <2>1, Posted DEF ReportBR
  <2>3. pass = "br" /\ UNCHANGED <<pass, cur>>
    BY <1>8 DEF ReportBR, control, JobsInv, PointsFit
  <2>4. \A v \in Workers \ {w} : pc'[v] = pc[v]
    BY <1>0, <1>8 DEF ReportBR, Goto, ThreadsType
  <2>5. \A v \in Workers : pc[v] \in {"return", "clear"} => cur[v] \in Subgames
    BY <1>0 DEF ThreadsType
  <2> QED BY <2>1, <2>2, <2>3, <2>4, <2>5 DEF EndsInv
<1>9. ASSUME NEW w \in Workers, ReportLoad(w) PROVE EndsInv'
  <2>1. PICK m \in Subgames : m = cur[w] BY <1>0, <1>9 DEF ReportLoad, ThreadsType
  <2>2. \A g \in Subgames : finished[g] > 0 => finished'[g] > 0
    BY <1>9, <2>1, Posted DEF ReportLoad
  <2>3. UNCHANGED pass BY <1>9 DEF ReportLoad, control
  <2>4. pc' = [pc EXCEPT ![w] = "wait"] BY <1>9 DEF ReportLoad, Goto
  <2>5. cur' = [cur EXCEPT ![w] = None] BY <1>9 DEF ReportLoad
  <2> QED BY <1>0, <2>2, <2>3, <2>4, <2>5, EndsMove
<1>10. ASSUME NEW t \in Workers \cup {Dumper}, ReturnArrays(t) \/ ClearArrays(t)
       PROVE  EndsInv'
  <2>1. UNCHANGED <<pass, finished>> BY <1>10 DEF ReturnArrays, ClearArrays, control
  <2>2. \A w \in Workers \ {t} : pc'[w] = pc[w] /\ cur'[w] = cur[w]
    BY <1>0, <1>10 DEF ReturnArrays, ClearArrays, Goto, ThreadsType
  <2>3. t \in Workers => \/ pc[t] = "return" /\ cur'[t] = cur[t]
                         \/ pc'[t] = "wait"
    BY <1>0, <1>10 DEF ReturnArrays, ClearArrays, Goto, ThreadsType
  <2> QED BY <1>0, <2>1, <2>2, <2>3, EndsStay
<1>11. CASE ReportCFR
  <2>1. PICK m \in Subgames : m = cur[Dumper] BY <1>0, <1>11 DEF ReportCFR, ThreadsType
  <2>2. \A g \in Subgames : finished[g] > 0 => finished'[g] > 0
    BY <1>11, <2>1, Posted DEF ReportCFR
  <2>3. UNCHANGED pass BY <1>11 DEF ReportCFR, control
  <2>4. pc' = [pc EXCEPT ![Dumper] = "wait"] BY <1>11 DEF ReportCFR, Goto
  <2>5. cur' = [cur EXCEPT ![Dumper] = None] BY <1>11 DEF ReportCFR
  <2> QED BY <1>0, <2>2, <2>3, <2>4, <2>5, EndsMove
<1>12. CASE Resume
  <2>1. \A w \in Workers : pc'[w] = "wait" BY <1>12 DEF Resume
  <2> QED BY <2>1 DEF EndsInv
<1>13. CASE UNCHANGED vars BY <1>1, <1>13 DEF vars, control, threads
<1> QED BY Steps, <1>2, <1>3, <1>4, <1>5, <1>6, <1>7, <1>8, <1>9, <1>10, <1>11, <1>12, <1>13

(* At the loader's asserts the subgame has no arrays. *)
LEMMA CheckPasses ==
  ASSUME Types, JobsInv, HoldersInv, EndsInv, pc[Loader] = "check"
  PROVE  arraysIndex[cur[Loader]] = None
<1> USE ThreadNames
<1>0. ThreadsType BY DEF Types
<1>1. PICK m \in Subgames : m = cur[Loader] BY <1>0 DEF ThreadsType
<1>2. JobAt(m, "loader") /\ KindAt(m, "loader") BY <1>1, LoaderHas
<1>3. ~Queued(m) BY <1>2 DEF JobAt, Queued
<1>4. ASSUME NEW t \in Threads, Holds(t, m) PROVE FALSE
  <2>1. CASE t = Loader BY <1>4, <2>1 DEF Holds, HoldPoints
  <2>2. CASE t = Dumper BY <1>2, <1>4, <2>2 DEF Holds, JobAt
  <2>3. CASE t \in Workers
    <3>1. ~Works(t, m) BY <1>2, <2>3 DEF JobAt, AtWork
    <3>2. pc[t] \in {"return", "clear"}
      BY <1>0, <1>4, <2>3, <3>1 DEF Holds, HoldPoints, Works, JobPoints, ThreadsType, WorkerPoints
    <3>3. cur[t] = m BY <1>4 DEF Holds
    <3>4. finished[m] = 0 BY <1>2 DEF JobAt
    <3>5. pass # "quit" BY <1>2 DEF KindAt, Passes
    <3> QED BY <2>3, <3>2, <3>3, <3>4, <3>5 DEF EndsInv
  <2> QED BY <2>1, <2>2, <2>3
<1> QED BY <1>1, <1>3, <1>4 DEF HoldersInv

LEMMA AbortStep ==
  ASSUME Types, JobsInv, HoldersInv, EndsInv, ~aborted, [Next]_vars
  PROVE  ~aborted'
<1> USE ThreadNames
<1>0. ThreadsType BY DEF Types
<1>1. CASE LoaderCheck BY <1>1, CheckPasses DEF LoaderCheck
<1>2. ASSUME NEW w \in Workers, Perform(w) PROVE ~aborted'
  <2>1. PICK m \in Subgames : m = cur[w] BY <1>0, <1>2 DEF Perform, ThreadsType
  <2>2. Holds(w, m) BY <1>2, <2>1 DEF Perform, Holds, HoldPoints
  <2>3. arraysIndex[m] # None BY <2>2 DEF HoldersInv
  <2> QED BY <1>2, <2>1, <2>3 DEF Perform
<1>3. CASE Dump
  <2>1. PICK m \in Subgames : m = cur[Dumper] BY <1>0, <1>3 DEF Dump, ThreadsType
  <2>2. Holds(Dumper, m) BY <1>3, <2>1 DEF Dump, Holds, HoldPoints
  <2>3. arraysIndex[m] # None BY <2>2 DEF HoldersInv
  <2>4. KindAt(m, "dumper") BY <2>1 DEF JobsInv, PlacesInv, JobAt
  <2>5. jobType[m] # "br" BY <2>4 DEF KindAt, CFRPasses
  <2> QED BY <1>3, <2>1, <2>3, <2>5 DEF Dump
<1>4. CASE Stop \/ Save \/ \E g \in Subgames : Submit(g) \/ SubmitLoad(g)
  BY <1>4 DEF Stop, Save, Submit, SubmitLoad
<1>5. ASSUME NEW next \in Passes \cup {"quit"}, StartPass(next) PROVE ~aborted'
  BY <1>5 DEF StartPass
<1>6. CASE LoaderTake \/ Grab \/ Load \/ Enqueue \/ DumperTake \/ ReportCFR
  BY <1>6 DEF LoaderTake, Grab, Load, Enqueue, DumperTake, ReportCFR
<1>7. ASSUME NEW w \in Workers,
             WorkerTake(w) \/ ToDump(w) \/ ReportBR(w) \/ CopyFiles(w) \/ ReportLoad(w)
      PROVE  ~aborted'
  BY <1>7 DEF WorkerTake, ToDump, ReportBR, CopyFiles, ReportLoad
<1>8. ASSUME NEW t \in Workers \cup {Dumper}, ReturnArrays(t) \/ ClearArrays(t) PROVE ~aborted'
  BY <1>8 DEF ReturnArrays, ClearArrays
<1>9. CASE Resume BY <1>9 DEF Resume
<1>10. CASE UNCHANGED vars BY <1>10 DEF vars
<1> QED BY Steps, <1>1, <1>2, <1>3, <1>4, <1>5, <1>6, <1>7, <1>8, <1>9, <1>10

-----------------------------------------------------------------------------
(* Theorems *)

Core == Types /\ JobsInv /\ HoldersInv /\ PoolInv /\ CopiesInv

LEMMA CoreInvariant == Spec => []Core
<1>1. Init => Core
  <2>1. Init => CopiesInv
    <3>1. Init => InCopy = {} /\ copySem = NetworkCopies BY DEF Init, InCopy
    <3> QED BY <3>1, NoCopies
  <2> QED BY <2>1, InitTypes, InitJobs, InitHolders, InitPool DEF Core
<1>2. Core /\ [Next]_vars => Core'
  <2> SUFFICES ASSUME Core, [Next]_vars PROVE Core' OBVIOUS
  <2>1. poolQ \in Seq(Arrays) BY DEF Core, PoolInv
  <2>2. Types' BY <2>1, ControlStep, QueuesStep, DataStep, FlagsStep, ThreadsStep DEF Core, Types
  <2>3. JobsInv' /\ HoldersInv' /\ PoolInv' /\ CopiesInv'
    BY <2>1, JobsStep, HoldersStep, PoolStep, CopiesStep DEF Core
  <2> QED BY <2>2, <2>3 DEF Core
<1> QED BY <1>1, <1>2, PTL DEF Spec

LEMMA CoreTypes == Core => TypeOK
<1> SUFFICES ASSUME Core PROVE TypeOK OBVIOUS
<1>1. ASSUME NEW q, IsQueue(q) PROVE Len(q) <= QueueSize /\ Range(q) \subseteq Subgames \cup {Quit}
  BY <1>1 DEF IsQueue, Range
<1>2. \A q \in {loadQ, workQ, dumpQ} :
        Len(q) <= QueueSize /\ Range(q) \subseteq Subgames \cup {Quit}
  BY <1>1 DEF Core, Types, QueuesType
<1>3. Range(poolQ) \subseteq Arrays BY DEF Core, PoolInv, Range
<1>4. copySem \in 0 .. NetworkCopies
  <2>1. Cardinality(InCopy) \in Nat BY FS_CardinalityType DEF Core, CopiesInv
  <2> QED BY <2>1, Numbers DEF Core, CopiesInv
<1>5. aborted \in BOOLEAN /\ exited \in BOOLEAN /\ run \in Nat BY DEF Core, Types, FlagsType
<1>6. /\ pass \in Passes \cup {"start", "resumed", "save", "quit"}
      /\ todo \subseteq jobs /\ jobs \subseteq Subgames
      /\ quits \in 0 .. Cardinality(Workers) + 2
      /\ jobType \in [Subgames -> Passes \cup {None}]
      /\ finished \in [Subgames -> Nat]
  BY DEF Core, Types, ControlType
<1>7. pc \in [Threads -> Points] /\ cur \in [Threads -> Subgames \cup {None, Quit}]
  BY DEF Core, Types, ThreadsType
<1>8. /\ arraysIndex \in [Subgames -> Arrays \cup {None}]
      /\ ram \in [Arrays -> [Parts -> (Subgames \X BOOLEAN) \cup {None}]]
      /\ disk \in [Subgames -> [Parts -> FileStates]]
      /\ saved \in [Subgames -> [Parts -> FileStates]] \cup {None}
  BY DEF Core, Types, DataType
<1> QED BY <1>2, <1>3, <1>4, <1>5, <1>6, <1>7, <1>8 DEF TypeOK, Points

(* Every variable has its type; so no queue holds more than its length and *)
(* no more than NetworkCopies subgames are copied at once (loadValues'     *)
(* sem_wait and the sem_post of workerHandleJob on g_networkCopySem).      *)
THEOREM TypeCorrect == Spec => []TypeOK
BY CoreTypes, CoreInvariant, PTL

(* In every state each set of arrays is in the pool once, or is used by    *)
(* exactly one subgame: none is lost and no two subgames compress into the *)
(* same (scratchLoaderThreadMain's dequeue of g_scratchIndices and the     *)
(* enqueues of scratchDumperThreadMain and workerHandleJob).               *)
THEOREM PoolKept == Spec => []PoolConserved
<1>1. Core => PoolConserved BY PoolCounts DEF Core
<1> QED BY <1>1, CoreInvariant, PTL

(* The pipeline implements the job service: the load, work and dump queues *)
(* and the threads between them lose no job, perform none twice, and       *)
(* report each before main's sem_wait lets the next pass begin; only a new *)
(* process begins with none.                                               *)
THEOREM PipelineServesJobs == Spec => ServesJobs
<1>1. Init => Service!Init
  <2>1. ASSUME Init PROVE \A g \in Subgames : ~InPending(g) /\ ~InRunning(g) /\ finished[g] = 0
    <3>1. \A t \in Threads : cur[t] = None /\ pc[t] = "wait" BY <2>1 DEF Init
    <3> QED BY <2>1, <3>1, ThreadNames
        DEF Init, InPending, InRunning, AtWork, Works, JobPoints, Range
  <2>2. Init => Pending = {} /\ Running = {} /\ Done = {} BY <2>1, Maps DEF MapsFit
  <2> QED BY <2>2 DEF Service!Init
<1>2. Core /\ [Next]_vars => [Service!Next \/ run' # run]_(Service!vars)
  BY ServesStep DEF Core
<1> QED BY <1>1, <1>2, CoreInvariant, PTL DEF Spec, ServesJobs

LEMMA DataInvariant == Spec => [](Core /\ DataInv)
<1>1. Core /\ DataInv /\ [Next]_vars => DataInv' BY DataInvStep DEF Core
<1> QED BY InitData, <1>1, CoreInvariant, PTL DEF Spec

(* While a worker performs a job, its arrays hold what the last job that   *)
(* changed the subgame left, in this process or the one whose checkpoint   *)
(* it resumed: the loader reads nothing that the dumper has yet to write,  *)
(* and nothing is discarded before it is dumped (loadSubgameFromScratch,   *)
(* dumpSubgameToScratch and LOAD_JOB); but for a file a save cut short.    *)
THEOREM JobsFindLatest == Spec => []JobsSeeLatest
<1>1. ASSUME Core, DataInv, NEW w \in Workers, pc[w] = "perform", NEW g \in Subgames, g = cur[w]
      PROVE  /\ arraysIndex[g] # None
             /\ \A part \in Reads(jobType[g]) :
                  \/ ram[arraysIndex[g]][part] = <<g, TRUE>>
                  \/ ram[arraysIndex[g]][part] = <<g, FALSE>> /\ Cut(g, part)
  <2>1. w \in Threads BY ThreadNames
  <2>2. Holds(w, g) BY <1>1 DEF Holds, HoldPoints
  <2>3. Loaded(g) BY <1>1, <2>1 DEF Loaded, SomeAt
  <2>4. arraysIndex[g] # None BY <1>1, <2>1, <2>2 DEF Core, HoldersInv
  <2> QED BY <1>1, <2>3, <2>4 DEF DataInv, DataFine, LoadedFine
<1>2. ASSUME Core, NEW w \in Workers, pc[w] = "perform" PROVE cur[w] \in Subgames
  BY <1>2, ThreadNames DEF Core, Types, ThreadsType
<1>3. Core /\ DataInv => JobsSeeLatest BY <1>1, <1>2 DEF JobsSeeLatest
<1> QED BY <1>3, DataInvariant, PTL

(* When main has the results of a pass, every scratch file holds what the  *)
(* last job left (or is one the checkpoint cut short), so that dumpValues  *)
(* saves the whole strategy and loadValues has brought all of it back.     *)
THEOREM FilesKept == Spec => []FilesCurrent
<1>1. Core /\ DataInv => FilesCurrent BY AllFine DEF Core, FilesCurrent, AllReported, Fine
<1> QED BY <1>1, DataInvariant, PTL

(* No assert of the loader, a worker or the dumper fails (a subgame's      *)
(* arrays are NULL when it is loaded and not afterwards) as long as main   *)
(* ends after a best-response pass.  A pass that follows one may find a    *)
(* worker that has reported its job and not yet cleared the arrays: run    *)
(* scratch_next shows the assert failing then.                             *)
THEOREM NoAssertFails == ResponseIsLast => (Spec => []NoAbort)
<1> SUFFICES ASSUME ResponseIsLast PROVE Spec => []NoAbort OBVIOUS
<1>1. Init => EndsInv /\ ~aborted
  <2>1. Init => \A w \in Workers : pc[w] = "wait" BY ThreadNames DEF Init
  <2>2. Init => EndsInv BY <2>1 DEF EndsInv
  <2>3. Init => ~aborted BY DEF Init
  <2> QED BY <2>2, <2>3
<1>2. Core /\ EndsInv /\ ~aborted /\ [Next]_vars => EndsInv' /\ ~aborted'
  BY EndsStep, AbortStep DEF Core
<1>3. Core /\ EndsInv /\ ~aborted => NoAbort BY DEF NoAbort
<1> QED BY <1>1, <1>2, <1>3, CoreInvariant, PTL DEF Spec
=============================================================================
