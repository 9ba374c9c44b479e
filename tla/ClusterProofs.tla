---------------------------- MODULE ClusterProofs ----------------------------
(***************************************************************************)
(* For every number of subgames, nodes and workers, every length of the    *)
(* queues and every room for messages: the replies a node sends answer the *)
(* jobs of this pass, a node loads, saves and counts while it is at rest,  *)
(* and when main goes on every node has done what it was asked to do.      *)
(***************************************************************************)
EXTENDS Cluster, FiniteSetTheorems, TLAPS

-----------------------------------------------------------------------------
(* Queues and mailboxes *)

(* Each element of T is at one place of a queue.                           *)
Once(q, T) == \A i, j \in DOMAIN q : q[i] = q[j] /\ q[i] \in T => i = j

(* A mailbox has a message about the job of g, and one for each job only.  *)
JobAmong(q, g) == \E i \in DOMAIN q : q[i].tag = "job" /\ q[i].g = g
OnceJobs(q) == \A i, j \in DOMAIN q :
                 q[i].tag = "job" /\ q[j].tag = "job" /\ q[i].g = q[j].g => i = j

LEMMA AppendedAt ==
  ASSUME NEW S, NEW q \in Seq(S), NEW x \in S
  PROVE  /\ Append(q, x) \in Seq(S) /\ Len(Append(q, x)) = Len(q) + 1 /\ Len(q) \in Nat
         /\ DOMAIN q = 1 .. Len(q) /\ DOMAIN Append(q, x) = 1 .. Len(q) + 1
         /\ \A i \in 1 .. Len(q) : Append(q, x)[i] = q[i]
         /\ Append(q, x)[Len(q) + 1] = x
OBVIOUS

LEMMA TailAt ==
  ASSUME NEW S, NEW q \in Seq(S), q # <<>>
  PROVE  /\ Tail(q) \in Seq(S) /\ Head(q) \in S /\ Len(q) \in Nat \ {0}
         /\ Len(Tail(q)) = Len(q) - 1
         /\ DOMAIN q = 1 .. Len(q) /\ DOMAIN Tail(q) = 1 .. Len(q) - 1
         /\ \A i \in 1 .. Len(q) - 1 : Tail(q)[i] = q[i + 1]
         /\ Head(q) = q[1]
OBVIOUS

LEMMA Appended ==
  ASSUME NEW S, NEW q \in Seq(S), NEW x \in S, NEW T
  PROVE  /\ Range(Append(q, x)) = Range(q) \cup {x}
         /\ (Once(q, T) /\ (x \in T => x \notin Range(q))) => Once(Append(q, x), T)
<1>1. /\ DOMAIN Append(q, x) = 1 .. Len(q) + 1 /\ DOMAIN q = 1 .. Len(q) /\ Len(q) \in Nat
      /\ \A i \in 1 .. Len(q) : Append(q, x)[i] = q[i]
      /\ Append(q, x)[Len(q) + 1] = x
  BY AppendedAt
<1>2. Range(Append(q, x)) = Range(q) \cup {x}
  <2>1. ASSUME NEW y \in Range(q) PROVE y \in Range(Append(q, x)) BY <1>1 DEF Range
  <2>2. x \in Range(Append(q, x)) BY <1>1 DEF Range
  <2>3. ASSUME NEW y \in Range(Append(q, x)) PROVE y \in Range(q) \cup {x}
    <3>1. PICK i \in 1 .. Len(q) + 1 : y = Append(q, x)[i] BY <1>1 DEF Range
    <3>2. CASE i = Len(q) + 1 BY <3>1, <3>2, <1>1
    <3>3. CASE i \in 1 .. Len(q) BY <3>1, <3>3, <1>1 DEF Range
    <3> QED BY <3>2, <3>3, <1>1
  <2> QED BY <2>1, <2>2, <2>3
<1>3. ASSUME Once(q, T), x \in T => x \notin Range(q) PROVE Once(Append(q, x), T)
  <2> SUFFICES ASSUME NEW i \in 1 .. Len(q) + 1, NEW j \in 1 .. Len(q) + 1,
                      Append(q, x)[i] = Append(q, x)[j], Append(q, x)[i] \in T
               PROVE  i = j
    BY <1>1 DEF Once
  <2>1. CASE i \in 1 .. Len(q) /\ j \in 1 .. Len(q) BY <1>1, <1>3, <2>1 DEF Once
  <2>2. \A k \in 1 .. Len(q) : q[k] \in Range(q) BY <1>1 DEF Range
  <2> QED BY <1>1, <1>3, <2>1, <2>2
<1> QED BY <1>2, <1>3

LEMMA Taken ==
  ASSUME NEW S, NEW q \in Seq(S), q # <<>>, NEW T
  PROVE  /\ Range(q) = Range(Tail(q)) \cup {Head(q)}
         /\ Once(q, T) => /\ Once(Tail(q), T)
                          /\ Head(q) \in T => Head(q) \notin Range(Tail(q))
<1>1. /\ DOMAIN q = 1 .. Len(q) /\ DOMAIN Tail(q) = 1 .. Len(q) - 1 /\ Len(q) \in Nat \ {0}
      /\ \A i \in 1 .. Len(q) - 1 : Tail(q)[i] = q[i + 1]
      /\ Head(q) = q[1]
  BY TailAt
<1>2. Range(q) = Range(Tail(q)) \cup {Head(q)}
  <2>1. ASSUME NEW y \in Range(Tail(q)) PROVE y \in Range(q)
    <3>1. PICK i \in 1 .. Len(q) - 1 : y = q[i + 1] BY <1>1 DEF Range
    <3>2. i + 1 \in 1 .. Len(q) BY <1>1
    <3> QED BY <3>1, <3>2, <1>1 DEF Range
  <2>2. Head(q) \in Range(q) BY <1>1 DEF Range
  <2>3. ASSUME NEW y \in Range(q), y # Head(q) PROVE y \in Range(Tail(q))
    <3>1. PICK i \in 1 .. Len(q) : y = q[i] BY <1>1 DEF Range
    <3>2. i - 1 \in 1 .. Len(q) - 1 BY <1>1, <3>1, <2>3
    <3>3. Tail(q)[i - 1] = y BY <1>1, <3>1, <3>2
    <3> QED BY <1>1, <3>2, <3>3 DEF Range
  <2> QED BY <2>1, <2>2, <2>3
<1>3. ASSUME Once(q, T)
      PROVE  Once(Tail(q), T) /\ (Head(q) \in T => Head(q) \notin Range(Tail(q)))
  <2>1. \A i \in 1 .. Len(q) - 1 : i + 1 \in 1 .. Len(q) /\ i + 1 # 1 BY <1>1
  <2>2. 1 \in 1 .. Len(q) BY <1>1
  <2>3. Once(Tail(q), T) BY <1>1, <1>3, <2>1 DEF Once
  <2>4. Head(q) \in T => Head(q) \notin Range(Tail(q))
    BY <1>1, <1>3, <2>1, <2>2 DEF Once, Range
  <2> QED BY <2>3, <2>4
<1> QED BY <1>2, <1>3

LEMMA JobSent ==
  ASSUME NEW S, NEW q \in Seq(S), NEW m \in S
  PROVE  /\ \A g : JobAmong(Append(q, m), g) <=> JobAmong(q, g) \/ (m.tag = "job" /\ m.g = g)
         /\ OnceJobs(q) /\ (m.tag = "job" => ~JobAmong(q, m.g)) => OnceJobs(Append(q, m))
<1>1. /\ DOMAIN Append(q, m) = 1 .. Len(q) + 1 /\ DOMAIN q = 1 .. Len(q) /\ Len(q) \in Nat
      /\ \A i \in 1 .. Len(q) : Append(q, m)[i] = q[i]
      /\ Append(q, m)[Len(q) + 1] = m
  BY AppendedAt
<1>2. \A i \in 1 .. Len(q) + 1 : i \in 1 .. Len(q) \/ i = Len(q) + 1 BY <1>1
<1>3. ASSUME NEW g PROVE JobAmong(Append(q, m), g) <=> JobAmong(q, g) \/ (m.tag = "job" /\ m.g = g)
  BY <1>1, <1>2 DEF JobAmong
<1>4. ASSUME OnceJobs(q), m.tag = "job" => ~JobAmong(q, m.g) PROVE OnceJobs(Append(q, m))
  BY <1>1, <1>2, <1>4 DEF OnceJobs, JobAmong
<1> QED BY <1>3, <1>4

LEMMA JobGot ==
  ASSUME NEW S, NEW q \in Seq(S), q # <<>>
  PROVE  /\ \A g : JobAmong(q, g)
                   <=> JobAmong(Tail(q), g) \/ (Head(q).tag = "job" /\ Head(q).g = g)
         /\ OnceJobs(q) => /\ OnceJobs(Tail(q))
                           /\ Head(q).tag = "job" => ~JobAmong(Tail(q), Head(q).g)
<1>1. /\ DOMAIN q = 1 .. Len(q) /\ DOMAIN Tail(q) = 1 .. Len(q) - 1 /\ Len(q) \in Nat \ {0}
      /\ \A i \in 1 .. Len(q) - 1 : Tail(q)[i] = q[i + 1]
      /\ Head(q) = q[1]
  BY TailAt
<1>2. \A i \in 1 .. Len(q) - 1 : i + 1 \in 1 .. Len(q) /\ i + 1 # 1 BY <1>1
<1>3. 1 \in 1 .. Len(q) BY <1>1
<1>4. ASSUME NEW i \in 1 .. Len(q), i # 1
      PROVE  \E j \in 1 .. Len(q) - 1 : Tail(q)[j] = q[i]
  <2>1. i - 1 \in 1 .. Len(q) - 1 /\ (i - 1) + 1 = i BY <1>1, <1>4
  <2> QED BY <1>1, <2>1
<1>5. ASSUME NEW g PROVE JobAmong(q, g)
                         <=> JobAmong(Tail(q), g) \/ (Head(q).tag = "job" /\ Head(q).g = g)
  <2>1. ASSUME JobAmong(q, g), ~(Head(q).tag = "job" /\ Head(q).g = g) PROVE JobAmong(Tail(q), g)
    <3>1. PICK i \in 1 .. Len(q) : q[i].tag = "job" /\ q[i].g = g BY <1>1, <2>1 DEF JobAmong
    <3>2. i # 1 BY <1>1, <2>1, <3>1
    <3>3. PICK j \in 1 .. Len(q) - 1 : Tail(q)[j] = q[i] BY <1>4, <3>2
    <3> QED BY <1>1, <3>1, <3>3 DEF JobAmong
  <2>2. ASSUME JobAmong(Tail(q), g) PROVE JobAmong(q, g) BY <1>1, <1>2, <2>2 DEF JobAmong
  <2>3. Head(q).tag = "job" /\ Head(q).g = g => JobAmong(q, g) BY <1>1, <1>3 DEF JobAmong
  <2> QED BY <2>1, <2>2, <2>3
<1>6. ASSUME OnceJobs(q)
      PROVE  OnceJobs(Tail(q)) /\ (Head(q).tag = "job" => ~JobAmong(Tail(q), Head(q).g))
  <2>1. OnceJobs(Tail(q))
    <3> SUFFICES ASSUME NEW i \in 1 .. Len(q) - 1, NEW j \in 1 .. Len(q) - 1,
                        q[i + 1].tag = "job", q[j + 1].tag = "job", q[i + 1].g = q[j + 1].g
                 PROVE  i = j
      BY <1>1 DEF OnceJobs
    <3>1. i + 1 = j + 1 BY <1>1, <1>2, <1>6 DEF OnceJobs
    <3> QED BY <3>1
  <2>2. Head(q).tag = "job" => ~JobAmong(Tail(q), Head(q).g)
    BY <1>1, <1>2, <1>3, <1>6 DEF OnceJobs, JobAmong
  <2> QED BY <2>1, <2>2
<1> QED BY <1>5, <1>6

-----------------------------------------------------------------------------
(* Types *)

Messages == Jobs \cup [tag : Requests \cup {"iterstart"}, iter : 0 .. 1] \cup [tag : {"quit"}]
Replies  == Jobs \cup [tag : {"load", "dump"}] \cup [tag : {"stats"}, stats : StatsOf]

NodePoints == Requests \cup {"receive", "add", "loaded", "dumped", "quit", "gone"}
WorkPoints == {"perform", "reply"}

IsQueue(q) == q \in Seq(Indices) /\ Len(q) <= QueueSize

MainType ==
  /\ step \in Steps \cup {"start"} /\ iter \in 0 .. 1
  /\ sent \in Nat /\ waited \in Nat
  /\ jobs \subseteq Subgames /\ todo \subseteq jobs

ServerType ==
  /\ spec \in [Subgames -> JobSpecs] /\ finished \in [Subgames -> Nat]
  /\ mpiSem \in Nat /\ copySem \in Nat
  /\ remoteStats \in [Nodes -> StatsOf]
  /\ IsQueue(workQ) /\ (sending = {} \/ \E x \in Indices : sending = {x})
  /\ receiving \in {"runs", "told", "gone"}

MailType ==
  /\ req \in [Nodes -> Seq(Messages)] /\ reply \in [Nodes -> Seq(Replies)]
  /\ \A n \in Nodes : Len(req[n]) <= Buffer /\ Len(reply[n]) <= Buffer

NodesType ==
  /\ weight \in [Nodes -> 0 .. 1] /\ nodeSpec \in [Subgames -> JobSpecs]
  /\ nodePc \in [Nodes -> NodePoints] /\ nodeCur \in [Nodes -> Subgames]
  /\ nodeQ \in [Nodes -> Seq(Indices)] /\ \A n \in Nodes : Len(nodeQ[n]) <= QueueSize
  /\ quits \in [Nodes -> 0 .. NumWorkers]

WorkersType ==
  /\ pc \in [Workers -> WorkPoints \cup {"wait", "gone"}] /\ cur \in [Workers -> Indices]
  /\ \A w \in Workers : pc[w] \in WorkPoints => cur[w] \in Subgames
  /\ same \in [Nodes -> BOOLEAN]

Types == MainType /\ ServerType /\ MailType /\ NodesType /\ WorkersType

-----------------------------------------------------------------------------
(* Where the jobs are *)

Works(w, g) == cur[w] = g /\ pc[w] \in WorkPoints

Places == {"idle", "todo", "workQ", "sending", "req", "add", "nodeQ", "worker", "reply", "done"}

(* The job of subgame g is at place x; "idle" when this pass has none.     *)
At(g, x) ==
  \/ x = "idle" /\ g \notin jobs
  \/ x = "todo" /\ g \in todo
  \/ x = "workQ" /\ g \in Range(workQ)
  \/ x = "sending" /\ g \in sending
  \/ x = "req" /\ JobAmong(req[NodeOf(g)], g)
  \/ x = "add" /\ nodePc[NodeOf(g)] = "add" /\ nodeCur[NodeOf(g)] = g
  \/ x = "nodeQ" /\ g \in Range(nodeQ[NodeOf(g)])
  \/ x = "worker" /\ \E w \in Workers : Works(w, g)
  \/ x = "reply" /\ JobAmong(reply[NodeOf(g)], g)
  \/ x = "done" /\ finished[g] > 0

PlacesInv == \A g \in Subgames : \E x \in Places : \A y \in Places : At(g, y) <=> y = x

(* Nothing is twice in one place, and a node has its own subgames only.    *)
BoxRules(box) == \A n \in Nodes : /\ OnceJobs(box[n])
                                  /\ \A g \in Subgames : JobAmong(box[n], g) => NodeOf(g) = n

WorkQInv   == Once(workQ, Subgames)
ReqInv     == BoxRules(req)
AddInv     == \A n \in Nodes : nodePc[n] = "add" => NodeOf(nodeCur[n]) = n
NodeQInv   == \A n \in Nodes : /\ Once(nodeQ[n], Subgames)
                               /\ \A g \in Subgames : g \in Range(nodeQ[n]) => NodeOf(g) = n
WorkersInv == \A w \in Workers, g \in Subgames :
                Works(w, g) => /\ w[1] = NodeOf(g)
                               /\ \A v \in Workers : Works(v, g) => v = w
ReplyInv   == BoxRules(reply)
FinishedInv == \A g \in Subgames : finished[g] <= 1

JobsInv == /\ PlacesInv /\ WorkQInv /\ ReqInv /\ AddInv /\ NodeQInv /\ WorkersInv /\ ReplyInv
           /\ FinishedInv

(* What is known of the jobs of this pass, wherever it is kept.            *)
Now == [type |-> step, iter |-> iter]

JobsSay(box, what) == \A i \in DOMAIN box : box[i].tag = "job" => box[i].spec = what

SpecInv == \A g \in jobs \ todo : spec[g] = Now
MessagesInv == \A n \in Nodes : JobsSay(req[n], Now) /\ JobsSay(reply[n], Now)
NodeSpecInv == \A g \in Subgames :
                 At(g, "add") \/ At(g, "nodeQ") \/ At(g, "worker") => nodeSpec[g] = Now

-----------------------------------------------------------------------------
(* What main does, and what a node is at then *)

MainInv ==
  /\ step \notin Passes => jobs = {}
  /\ step \in Passes \cup {"start"} => sent = 0
  /\ step \in Requests \cup {"iterstart"} => sent <= NumNodes
  /\ sent <= NumNodes + 1
  /\ step \notin Requests \cup {"quit"} => waited = 0
  /\ step = "quit" => waited <= 1
  /\ waited <= NumNodes

(* The server and the nodes are told to stop at the end only.              *)
QuitInv ==
  step # "quit" => /\ receiving = "runs" /\ Quit \notin Range(workQ) /\ Quit \notin sending
                   /\ \A n \in Nodes : Quit \notin Range(nodeQ[n])

Start == [tag |-> "iterstart", iter |-> iter]
Ask   == [tag |-> step, iter |-> iter]
Reply == IF step = "stats" THEN [tag |-> "stats", stats |-> <<iter, TRUE>>] ELSE [tag |-> step]

Rest(n)  == nodePc[n] = "receive" /\ reply[n] = <<>>
Quiet(n) == /\ nodePc[n] = "receive" /\ nodeQ[n] = <<>>
            /\ \A w \in Workers : w[1] = n => pc[w] \notin WorkPoints
Told(n)    == weight[n] = iter /\ req[n] = <<>>
Current(n) == Told(n) \/ req[n] = <<Start>>

(* The node has done what main asked of all in this step.                  *)
Kept(n) == IF step = "stats" THEN remoteStats[n] = <<iter, TRUE>> ELSE same[n]

Unasked(n)  == n >= sent /\ Rest(n) /\ Current(n)
Asked(n)    == /\ n < sent /\ Rest(n)
               /\ (weight[n] = iter /\ req[n] = <<Ask>>) \/ req[n] = <<Start, Ask>>
Serving(n)  == /\ n < sent /\ reply[n] = <<>> /\ Told(n)
               /\ \/ nodePc[n] = step
                  \/ nodePc[n] = "loaded" /\ step = "load" /\ same[n]
                  \/ nodePc[n] = "dumped" /\ step = "dump" /\ same[n]
Answered(n) == /\ n < sent /\ nodePc[n] = "receive" /\ reply[n] = <<Reply>> /\ Told(n)
               /\ step # "stats" => same[n]
Served(n)   == n < sent /\ Rest(n) /\ Told(n) /\ Kept(n)

InRequest(n) == Unasked(n) \/ Asked(n) \/ Serving(n) \/ Answered(n) \/ Served(n)

(* The start of the iteration is ahead of the jobs and meets no work.      *)
InPass(n) ==
  /\ nodePc[n] \in {"receive", "add"}
  /\ \A i \in DOMAIN reply[n] : reply[n][i].tag = "job"
  /\ \A i \in DOMAIN req[n] : i # 1 => req[n][i].tag = "job"
  /\ \/ weight[n] = iter /\ (req[n] # <<>> => req[n][1].tag = "job")
     \/ req[n] # <<>> /\ req[n][1] = Start /\ Quiet(n)

AtEnd(n) == /\ nodePc[n] \in {"receive", "quit", "gone"} /\ reply[n] = <<>>
            /\ \A i \in DOMAIN req[n] : req[n][i] = [tag |-> "quit"]

Fits(n) ==
  /\ step = "start" => Rest(n) /\ Told(n)
  /\ step = "iterstart" => /\ Rest(n)
                           /\ IF n < sent THEN Current(n) ELSE req[n] = <<>>
  /\ step \in Requests => InRequest(n)
  /\ step \in Passes => InPass(n)
  /\ step = "quit" => AtEnd(n)

FitInv == \A n \in Nodes : Fits(n)

(* Every request sent is still with its node, or posted, or waited for;    *)
(* and a permit of the network is with each node that copies.              *)
Outstanding == {n \in Nodes : n < sent /\ (req[n] # <<>> \/ nodePc[n] # "receive"
                                           \/ reply[n] # <<>>)}

RepliesCount == IF step \in Requests THEN waited + mpiSem + Cardinality(Outstanding) = sent
                                     ELSE mpiSem = 0
PermitsCount == IF step \in {"load", "dump"}
                THEN copySem + Cardinality(Outstanding) = NetworkCopies
                ELSE copySem = NetworkCopies

Inv == /\ Types /\ JobsInv /\ SpecInv /\ MessagesInv /\ NodeSpecInv
       /\ MainInv /\ QuitInv /\ FitInv /\ RepliesCount /\ PermitsCount

-----------------------------------------------------------------------------
(* Types are kept *)

LEMMA Numbers ==
  /\ NumNodes \in Nat \ {0} /\ NumWorkers \in Nat \ {0} /\ QueueSize \in Nat \ {0}
  /\ NetworkCopies \in Nat \ {0} /\ Buffer \in Nat \ {0}
  /\ 0 \in Subgames /\ Quit \notin Subgames
  /\ \A w \in Workers : w[1] \in Nodes
BY NumbersAssumption DEF Subgames, Workers

LEMMA NodeOfSubgame == \A g \in Subgames : NodeOf(g) \in Nodes
<1> SUFFICES ASSUME NEW g \in Subgames PROVE NodeOf(g) \in Nodes OBVIOUS
<1>1. g \in Nat /\ NumNodes \in Nat \ {0} BY NumbersAssumption DEF Subgames
<1>2. g % NumNodes \in 0 .. NumNodes - 1 BY <1>1
<1> QED BY <1>2 DEF NodeOf, Nodes

(* What a step may be.                                                     *)
LEMMA NextCases ==
  ASSUME [Next]_vars
  PROVE  \/ \E next \in Steps : NextStep(next)
         \/ SendToNode \/ AwaitReply \/ SendQuit \/ StopSender
         \/ \E g \in Subgames : Submit(g)
         \/ SenderTakes \/ SenderSends
         \/ \E n \in Nodes : Receive(n)
         \/ ReceiverStops
         \/ \E n \in Nodes : \/ NodeReceive(n) \/ NodeAdd(n) \/ NodeCopies(n)
                             \/ NodeReplies(n) \/ NodeStops(n)
         \/ \E w \in Workers : WorkerTakes(w) \/ Perform(w) \/ WorkerReplies(w)
         \/ UNCHANGED vars
BY DEF Next, MainSteps, TrunkSteps, SenderSteps, ReceiverSteps, NodeSteps, WorkerSteps, Ended

LEMMA ScheduleSteps ==
  ASSUME NEW next \in Steps, step \in Steps \cup {"start"}, next \in Schedule[step]
  PROVE  /\ step # "quit"
         /\ next \in Passes \cup {"iterstart"} \/ step \notin Passes \/ next = "stats"
         /\ next = "iterstart" => step \in {"start", "load", "stats", "dump"}
         /\ next = "quit" => step \in {"start", "load", "stats", "dump"}
         /\ next \in {"load", "dump"} => step \in {"start", "load", "stats"}
         /\ next = "stats" => step \in {"cfr0", "br"}
         /\ next \in Passes => step \in {"iterstart", "cfr1", "cfr0"}
         /\ next # "start"
BY DEF Schedule, Steps, Passes, Requests

LEMMA StepDoneIs ==
  ASSUME StepDone
  PROVE  /\ step \in Passes => AllReported
         /\ step \in Requests => waited = NumNodes
         /\ step = "iterstart" => sent = NumNodes
BY DEF StepDone, Passes, Requests

LEMMA MainTypeStep == MainType /\ [Next]_vars => MainType'
<1> SUFFICES ASSUME MainType, [Next]_vars PROVE MainType' OBVIOUS
<1> USE DEF MainType
<1>1. ASSUME NEW next \in Steps, NextStep(next) PROVE MainType'
  <2>1. jobs' \subseteq Subgames /\ todo' = jobs' BY <1>1 DEF NextStep
  <2>2. iter' \in 0 .. 1 /\ step' \in Steps /\ sent' = 0 /\ waited' = 0 BY <1>1 DEF NextStep
  <2> QED BY <2>1, <2>2
<1>2. CASE SendToNode \/ AwaitReply \/ SendQuit \/ StopSender
  BY <1>2 DEF SendToNode, AwaitReply, SendQuit, StopSender
<1>3. ASSUME NEW g \in Subgames, Submit(g) PROVE MainType' BY <1>3 DEF Submit
<1>4. CASE UNCHANGED main BY <1>4 DEF main
<1>5. ASSUME NEW n \in Nodes, Receive(n) PROVE MainType' BY <1>4, <1>5 DEF Receive
<1>6. ASSUME NEW n \in Nodes,
             NodeReceive(n) \/ NodeAdd(n) \/ NodeCopies(n) \/ NodeReplies(n) \/ NodeStops(n)
      PROVE  MainType'
  BY <1>4, <1>6 DEF NodeReceive, NodeAdd, NodeCopies, NodeReplies, NodeStops
<1>7. ASSUME NEW w \in Workers, WorkerTakes(w) \/ Perform(w) \/ WorkerReplies(w) PROVE MainType'
  BY <1>4, <1>7 DEF WorkerTakes, Perform, WorkerReplies
<1>8. CASE SenderTakes \/ SenderSends \/ ReceiverStops
  BY <1>4, <1>8 DEF SenderTakes, SenderSends, ReceiverStops
<1> QED BY NextCases, <1>1, <1>2, <1>3, <1>4, <1>5, <1>6, <1>7, <1>8 DEF vars

LEMMA QueueKept ==
  ASSUME NEW q, IsQueue(q)
  PROVE  /\ \A x \in Indices : Len(q) < QueueSize => IsQueue(Append(q, x))
         /\ q # <<>> => IsQueue(Tail(q)) /\ Head(q) \in Indices
<1>1. ASSUME NEW x \in Indices, Len(q) < QueueSize PROVE IsQueue(Append(q, x))
  BY <1>1, AppendedAt, Numbers DEF IsQueue
<1>2. ASSUME q # <<>> PROVE IsQueue(Tail(q)) /\ Head(q) \in Indices
  BY <1>2, TailAt, Numbers DEF IsQueue
<1> QED BY <1>1, <1>2

(* The messages at the head of a mailbox.                                  *)
LEMMA HeadOfMail ==
  ASSUME MailType, NEW n \in Nodes
  PROVE  /\ req[n] # <<>> => Head(req[n]) \in Messages
         /\ reply[n] # <<>> => Head(reply[n]) \in Replies
BY TailAt DEF MailType

LEMMA MessageKinds ==
  /\ \A m \in Messages : /\ m.tag = "job" => m.g \in Subgames /\ m.spec \in JobSpecs
                         /\ m.tag = "iterstart" => m.iter \in 0 .. 1
                         /\ m.tag \in Requests \cup {"job", "iterstart", "quit"}
  /\ \A m \in Replies : /\ m.tag = "job" => m.g \in Subgames /\ m.spec \in JobSpecs
                        /\ m.tag = "stats" => m.stats \in StatsOf
                        /\ m.tag \in {"job", "load", "dump", "stats"}
BY DEF Messages, Replies, Jobs, Requests

LEMMA ServerTypeStep == Types /\ MainInv /\ [Next]_vars => ServerType'
<1> SUFFICES ASSUME Types, MainInv, [Next]_vars PROVE ServerType' OBVIOUS
<1> USE DEF Types, ServerType
<1>1. ASSUME NEW next \in Steps, NextStep(next) PROVE ServerType'
  <2>1. finished' \in [Subgames -> Nat]
    <3>1. \A g \in jobs : finished[g] > 0
      <4>1. CASE step \in Passes
        <5>1. AllReported BY <1>1, <4>1, StepDoneIs DEF NextStep
        <5> QED BY <5>1 DEF AllReported
      <4>2. CASE step \notin Passes BY <4>2 DEF MainInv
      <4> QED BY <4>1, <4>2
    <3> QED BY <1>1, <3>1 DEF NextStep
  <2>2. spec' \in [Subgames -> JobSpecs]
    <3>1. Idle \in JobSpecs BY DEF Idle, JobSpecs
    <3> QED BY <1>1, <3>1 DEF NextStep
  <2> QED BY <1>1, <2>1, <2>2 DEF NextStep
<1>2. CASE SendToNode
  <2>1. copySem' \in Nat BY <1>2 DEF SendToNode, TakePermit
  <2> QED BY <1>2, <2>1 DEF SendToNode
<1>3. CASE AwaitReply
  <2>1. mpiSem' \in Nat BY <1>3 DEF AwaitReply
  <2> QED BY <1>3, <2>1 DEF AwaitReply
<1>4. CASE SendQuit BY <1>4 DEF SendQuit
<1>5. CASE StopSender
  <2>1. IsQueue(workQ') BY <1>5, QueueKept DEF StopSender, Indices
  <2> QED BY <1>5, <2>1 DEF StopSender
<1>6. ASSUME NEW g \in Subgames, Submit(g) PROVE ServerType'
  <2>1. IsQueue(workQ') BY <1>6, QueueKept DEF Submit, Indices
  <2>2. [type |-> step, iter |-> iter] \in JobSpecs
    <3>1. step \in Passes BY <1>6 DEF Submit, MainInv, MainType
    <3> QED BY <3>1 DEF JobSpecs, MainType
  <2>3. spec' \in [Subgames -> JobSpecs] BY <1>6, <2>2 DEF Submit
  <2> QED BY <1>6, <2>1, <2>3 DEF Submit
<1>7. CASE SenderTakes
  <2>1. IsQueue(workQ') /\ Head(workQ) \in Indices BY <1>7, QueueKept DEF SenderTakes
  <2> QED BY <1>7, <2>1 DEF SenderTakes
<1>8. CASE SenderSends BY <1>8 DEF SenderSends
<1>9. ASSUME NEW n \in Nodes, Receive(n) PROVE ServerType'
  <2> DEFINE m == Head(reply[n])
  <2>1. m \in Replies BY <1>9, HeadOfMail DEF Receive
  <2>2. /\ m.tag = "job" => m.g \in Subgames /\ m.spec \in JobSpecs
        /\ m.tag = "stats" => m.stats \in StatsOf
    BY <2>1, MessageKinds
  <2>3. CASE m.tag = "job"
    <3>1. /\ spec' = [spec EXCEPT ![m.g] = m.spec]
          /\ finished' = [finished EXCEPT ![m.g] = @ + 1]
          /\ UNCHANGED <<mpiSem, copySem, remoteStats, workQ, sending, receiving>>
      BY <1>9, <2>3 DEF Receive
    <3> HIDE DEF m
    <3>2. finished' \in [Subgames -> Nat] BY <2>2, <2>3, <3>1
    <3>3. spec' \in [Subgames -> JobSpecs] BY <2>2, <2>3, <3>1
    <3> QED BY <3>1, <3>2, <3>3
  <2>4. CASE m.tag # "job"
    <3>1. /\ mpiSem' = mpiSem + 1
          /\ copySem' = IF m.tag \in {"load", "dump"} THEN copySem + 1 ELSE copySem
          /\ remoteStats' = IF m.tag = "stats"
                            THEN [remoteStats EXCEPT ![n] = m.stats] ELSE remoteStats
          /\ UNCHANGED <<spec, finished, workQ, sending, receiving>>
      BY <1>9, <2>4 DEF Receive
    <3> HIDE DEF m
    <3>2. mpiSem' \in Nat /\ copySem' \in Nat BY <3>1
    <3>3. remoteStats' \in [Nodes -> StatsOf] BY <2>2, <3>1
    <3> QED BY <3>1, <3>2, <3>3
  <2> QED BY <2>3, <2>4
<1>10. CASE ReceiverStops BY <1>10 DEF ReceiverStops
<1>11. CASE UNCHANGED server BY <1>11 DEF server
<1>12. ASSUME NEW n \in Nodes,
              NodeReceive(n) \/ NodeAdd(n) \/ NodeCopies(n) \/ NodeReplies(n) \/ NodeStops(n)
       PROVE  ServerType'
  BY <1>11, <1>12 DEF NodeReceive, NodeAdd, NodeCopies, NodeReplies, NodeStops
<1>13. ASSUME NEW w \in Workers, WorkerTakes(w) \/ Perform(w) \/ WorkerReplies(w)
       PROVE  ServerType'
  BY <1>11, <1>13 DEF WorkerTakes, Perform, WorkerReplies
<1> QED BY NextCases, <1>1, <1>2, <1>3, <1>4, <1>5, <1>6, <1>7, <1>8, <1>9, <1>10, <1>11, <1>12,
           <1>13 DEF vars

(* A message is put behind the others, or the first is taken.              *)
LEMMA MailSent ==
  ASSUME MailType, NEW n \in Nodes, NEW m \in Messages, Send(n, m)
  PROVE  req' \in [Nodes -> Seq(Messages)] /\ (\A k \in Nodes : Len(req'[k]) <= Buffer)
<1>1. req' = [req EXCEPT ![n] = Append(req[n], m)] /\ Len(req[n]) < Buffer
  BY DEF Send, CanSend, MailType
<1>2. /\ Append(req[n], m) \in Seq(Messages) /\ Len(Append(req[n], m)) = Len(req[n]) + 1
      /\ Len(req[n]) \in Nat
  BY AppendedAt DEF MailType
<1>3. Len(Append(req[n], m)) <= Buffer BY <1>1, <1>2, Numbers
<1> QED BY <1>1, <1>2, <1>3 DEF MailType

LEMMA ReplySent ==
  ASSUME MailType, NEW n \in Nodes, NEW m \in Replies, Answer(n, m)
  PROVE  reply' \in [Nodes -> Seq(Replies)] /\ (\A k \in Nodes : Len(reply'[k]) <= Buffer)
<1>1. reply' = [reply EXCEPT ![n] = Append(reply[n], m)] /\ Len(reply[n]) < Buffer
  BY DEF Answer, MailType
<1>2. /\ Append(reply[n], m) \in Seq(Replies) /\ Len(Append(reply[n], m)) = Len(reply[n]) + 1
      /\ Len(reply[n]) \in Nat
  BY AppendedAt DEF MailType
<1>3. Len(Append(reply[n], m)) <= Buffer BY <1>1, <1>2, Numbers
<1> QED BY <1>1, <1>2, <1>3 DEF MailType

LEMMA MailTypeStep == Types /\ MainInv /\ [Next]_vars => MailType'
<1> SUFFICES ASSUME Types, MainInv, [Next]_vars PROVE MailType' OBVIOUS
<1> USE DEF Types
<1>0. CASE UNCHANGED <<req, reply>> BY <1>0 DEF MailType
<1>1. ASSUME NEW next \in Steps, NextStep(next) PROVE MailType' BY <1>0, <1>1 DEF NextStep
<1>2. CASE SendToNode
  <2>1. sent \in Nodes /\ [tag |-> step, iter |-> iter] \in Messages
    BY <1>2, Numbers DEF SendToNode, MainType, Nodes, Messages
  <2> QED BY <1>2, <2>1, MailSent DEF SendToNode, MailType
<1>3. CASE AwaitReply \/ StopSender BY <1>0, <1>3 DEF AwaitReply, StopSender
<1>4. CASE SendQuit
  <2>1. CASE sent = 0 BY <1>0, <1>4, <2>1 DEF SendQuit
  <2>2. CASE sent # 0
    <3>1. sent - 1 \in Nodes /\ [tag |-> "quit"] \in Messages
      BY <1>4, <2>2, Numbers DEF SendQuit, Ranks, MainType, Nodes, Messages
    <3>2. Send(sent - 1, [tag |-> "quit"]) /\ UNCHANGED reply BY <1>4, <2>2 DEF SendQuit
    <3> QED BY <3>1, <3>2, MailSent DEF MailType
  <2> QED BY <2>1, <2>2
<1>5. ASSUME NEW g \in Subgames, Submit(g) PROVE MailType' BY <1>0, <1>5 DEF Submit
<1>6. CASE SenderTakes \/ ReceiverStops BY <1>0, <1>6 DEF SenderTakes, ReceiverStops
<1>7. CASE SenderSends
  <2>1. PICK g \in sending \ {Quit} : Send(NodeOf(g), [tag |-> "job", g |-> g, spec |-> spec[g]])
    BY <1>7 DEF SenderSends
  <2>2. g \in Subgames BY <2>1 DEF ServerType, Indices
  <2>3. NodeOf(g) \in Nodes /\ spec[g] \in JobSpecs BY <2>2, NodeOfSubgame DEF ServerType
  <2>4. [tag |-> "job", g |-> g, spec |-> spec[g]] \in Messages
    BY <2>2, <2>3 DEF Messages, Jobs
  <2> QED BY <1>7, <2>1, <2>3, <2>4, MailSent DEF SenderSends, MailType
<1>8. ASSUME NEW n \in Nodes, Receive(n) PROVE MailType'
  <2>1. Tail(reply[n]) \in Seq(Replies) /\ Len(Tail(reply[n])) <= Buffer
    BY <1>8, TailAt, Numbers DEF Receive, MailType
  <2>2. reply' = [reply EXCEPT ![n] = Tail(reply[n])] /\ UNCHANGED req
    BY <1>8 DEF Receive, MailType
  <2> QED BY <2>1, <2>2 DEF MailType
<1>9. ASSUME NEW n \in Nodes, NodeReceive(n) PROVE MailType'
  <2>1. Tail(req[n]) \in Seq(Messages) /\ Len(Tail(req[n])) <= Buffer
    BY <1>9, TailAt, Numbers DEF NodeReceive, MailType
  <2>2. req' = [req EXCEPT ![n] = Tail(req[n])] /\ UNCHANGED reply
    BY <1>9 DEF NodeReceive, MailType
  <2> QED BY <2>1, <2>2 DEF MailType
<1>10. ASSUME NEW n \in Nodes, NodeReplies(n) PROVE MailType'
  <2>1. StatsOfNode(n) \in StatsOf BY DEF StatsOfNode, StatsOf, NodesType
  <2>2. PICK m \in Replies : Answer(n, m)
    BY <1>10, <2>1 DEF NodeReplies, Replies
  <2> QED BY <1>10, <2>2, ReplySent DEF NodeReplies, MailType
<1>11. ASSUME NEW n \in Nodes, NodeAdd(n) \/ NodeCopies(n) \/ NodeStops(n) PROVE MailType'
  BY <1>0, <1>11 DEF NodeAdd, NodeCopies, NodeStops
<1>12. ASSUME NEW w \in Workers, WorkerReplies(w) PROVE MailType'
  <2>1. cur[w] \in Subgames /\ w[1] \in Nodes
    BY <1>12, Numbers DEF WorkerReplies, WorkersType, WorkPoints
  <2>2. [tag |-> "job", g |-> cur[w], spec |-> nodeSpec[cur[w]]] \in Replies
    BY <2>1 DEF Replies, Jobs, NodesType
  <2> QED BY <1>12, <2>1, <2>2, ReplySent DEF WorkerReplies, MailType
<1>13. ASSUME NEW w \in Workers, WorkerTakes(w) \/ Perform(w) PROVE MailType'
  BY <1>0, <1>13 DEF WorkerTakes, Perform
<1> QED BY NextCases, <1>0, <1>1, <1>2, <1>3, <1>4, <1>5, <1>6, <1>7, <1>8, <1>9, <1>10, <1>11,
           <1>12, <1>13 DEF vars

LEMMA QueueOfNode == NodesType => \A n \in Nodes : IsQueue(nodeQ[n])
BY DEF NodesType, IsQueue

LEMMA NodesTypeStep == Types /\ [Next]_vars => NodesType'
<1> SUFFICES ASSUME Types, [Next]_vars PROVE NodesType' OBVIOUS
<1> USE DEF Types
<1>0. CASE UNCHANGED nodes BY <1>0 DEF NodesType, nodes
<1>1. ASSUME NEW next \in Steps, NextStep(next) PROVE NodesType' BY <1>0, <1>1 DEF NextStep
<1>2. CASE SendToNode \/ AwaitReply \/ SendQuit \/ StopSender
  BY <1>0, <1>2 DEF SendToNode, AwaitReply, SendQuit, StopSender
<1>3. ASSUME NEW g \in Subgames, Submit(g) PROVE NodesType' BY <1>0, <1>3 DEF Submit
<1>4. CASE SenderTakes \/ SenderSends \/ ReceiverStops
  BY <1>0, <1>4 DEF SenderTakes, SenderSends, ReceiverStops
<1>5. ASSUME NEW n \in Nodes, Receive(n) PROVE NodesType' BY <1>0, <1>5 DEF Receive
<1>6. ASSUME NEW n \in Nodes, NEW q, IsQueue(q), nodeQ' = [nodeQ EXCEPT ![n] = q]
      PROVE  nodeQ' \in [Nodes -> Seq(Indices)] /\ \A k \in Nodes : Len(nodeQ'[k]) <= QueueSize
  BY <1>6 DEF NodesType, IsQueue
<1>7. ASSUME NEW n \in Nodes, NodeReceive(n) PROVE NodesType'
  <2> DEFINE m == Head(req[n])
  <2>1. m \in Messages BY <1>7, HeadOfMail DEF NodeReceive
  <2>2. /\ m.tag = "job" => m.g \in Subgames /\ m.spec \in JobSpecs
        /\ m.tag = "iterstart" => m.iter \in 0 .. 1
        /\ m.tag \in Requests \cup {"job", "iterstart", "quit"}
    BY <2>1, MessageKinds
  <2>3. UNCHANGED <<nodeQ, quits>> BY <1>7 DEF NodeReceive
  <2>4. CASE m.tag = "job"
    <3>1. /\ nodeSpec' = [nodeSpec EXCEPT ![m.g] = m.spec]
          /\ nodeCur' = [nodeCur EXCEPT ![n] = m.g]
          /\ nodePc' = [nodePc EXCEPT ![n] = "add"] /\ UNCHANGED weight
      BY <1>7, <2>4 DEF NodeReceive, NodeGoto
    <3> HIDE DEF m
    <3>2. nodeSpec' \in [Subgames -> JobSpecs] /\ nodeCur' \in [Nodes -> Subgames]
      BY <2>2, <2>4, <3>1 DEF NodesType
    <3> QED BY <2>3, <3>1, <3>2 DEF NodesType, NodePoints
  <2>5. CASE m.tag = "iterstart"
    <3>1. weight' = [weight EXCEPT ![n] = m.iter] /\ UNCHANGED <<nodePc, nodeCur, nodeSpec>>
      BY <1>7, <2>5 DEF NodeReceive
    <3> HIDE DEF m
    <3> QED BY <2>2, <2>3, <2>5, <3>1 DEF NodesType
  <2>6. CASE m.tag \notin {"job", "iterstart"}
    <3>1. nodePc' = [nodePc EXCEPT ![n] = m.tag] /\ UNCHANGED <<weight, nodeSpec, nodeCur>>
      BY <1>7, <2>6 DEF NodeReceive, NodeGoto
    <3>2. m.tag \in NodePoints BY <2>2, <2>6 DEF NodePoints
    <3> HIDE DEF m
    <3> QED BY <2>3, <3>1, <3>2 DEF NodesType
  <2> QED BY <2>4, <2>5, <2>6
<1>8. ASSUME NEW n \in Nodes, NodeAdd(n) PROVE NodesType'
  <2>1. nodeCur[n] \in Indices BY DEF NodesType, Indices
  <2>2. IsQueue(Append(nodeQ[n], nodeCur[n]))
    BY <1>8, <2>1, QueueOfNode, QueueKept DEF NodeAdd
  <2>3. nodeQ' = [nodeQ EXCEPT ![n] = Append(nodeQ[n], nodeCur[n])]
    BY <1>8 DEF NodeAdd, NodesType
  <2>4. nodeQ' \in [Nodes -> Seq(Indices)] /\ \A k \in Nodes : Len(nodeQ'[k]) <= QueueSize
    BY <1>6, <2>2, <2>3
  <2>5. nodePc' \in [Nodes -> NodePoints] BY <1>8 DEF NodeAdd, NodeGoto, NodesType, NodePoints
  <2>6. nodeCur' \in [Nodes -> Subgames] BY <1>8, Numbers DEF NodeAdd, NodesType
  <2> QED BY <1>8, <2>4, <2>5, <2>6 DEF NodeAdd, NodesType
<1>9. ASSUME NEW n \in Nodes, NodeCopies(n) \/ NodeReplies(n) PROVE NodesType'
  <2>1. PICK point \in NodePoints : nodePc' = [nodePc EXCEPT ![n] = point]
    BY <1>9 DEF NodeCopies, NodeReplies, NodeGoto, NodePoints
  <2> QED BY <1>9, <2>1 DEF NodeCopies, NodeReplies, NodesType
<1>10. ASSUME NEW n \in Nodes, NodeStops(n) PROVE NodesType'
  <2>1. CASE quits[n] < NumWorkers
    <3>1. /\ nodeQ' = [nodeQ EXCEPT ![n] = Append(nodeQ[n], Quit)]
          /\ quits' = [quits EXCEPT ![n] = quits[n] + 1] /\ Len(nodeQ[n]) < QueueSize
          /\ UNCHANGED <<nodePc, weight, nodeSpec, nodeCur>>
      BY <1>10, <2>1 DEF NodeStops, NodesType
    <3>2. Quit \in Indices BY DEF Indices
    <3>3. IsQueue(Append(nodeQ[n], Quit)) BY <3>1, <3>2, QueueOfNode, QueueKept
    <3>4. nodeQ' \in [Nodes -> Seq(Indices)] /\ \A k \in Nodes : Len(nodeQ'[k]) <= QueueSize
      BY <1>6, <3>1, <3>3
    <3>5. quits[n] \in 0 .. NumWorkers BY DEF NodesType
    <3>6. quits[n] + 1 \in 0 .. NumWorkers BY <2>1, <3>5, Numbers
    <3>7. quits' \in [Nodes -> 0 .. NumWorkers] BY <3>1, <3>6 DEF NodesType
    <3> QED BY <3>1, <3>4, <3>7 DEF NodesType
  <2>2. CASE ~(quits[n] < NumWorkers)
    <3>1. /\ nodePc' = [nodePc EXCEPT ![n] = "gone"]
          /\ UNCHANGED <<nodeQ, quits, weight, nodeSpec, nodeCur>>
      BY <1>10, <2>2 DEF NodeStops, NodeGoto
    <3> QED BY <3>1 DEF NodesType, NodePoints
  <2> QED BY <2>1, <2>2
<1>11. ASSUME NEW w \in Workers, WorkerTakes(w) PROVE NodesType'
  <2>1. w[1] \in Nodes BY Numbers
  <2>2. IsQueue(Tail(nodeQ[w[1]])) BY <1>11, <2>1, QueueOfNode, QueueKept DEF WorkerTakes
  <2>3. nodeQ' = [nodeQ EXCEPT ![w[1]] = Tail(nodeQ[w[1]])]
    BY <1>11, <2>1 DEF WorkerTakes, NodesType
  <2>4. nodeQ' \in [Nodes -> Seq(Indices)] /\ \A k \in Nodes : Len(nodeQ'[k]) <= QueueSize
    BY <1>6, <2>1, <2>2, <2>3
  <2> QED BY <1>11, <2>4 DEF WorkerTakes, NodesType
<1>12. ASSUME NEW w \in Workers, Perform(w) PROVE NodesType'
  <2>1. w[1] \in Nodes /\ cur[w] \in Subgames
    BY <1>12, Numbers DEF Perform, WorkersType, WorkPoints
  <2>2. [nodeSpec[cur[w]] EXCEPT !.iter = weight[w[1]]] \in JobSpecs
    BY <2>1 DEF NodesType, JobSpecs
  <2>3. \/ UNCHANGED nodeSpec
        \/ nodeSpec' = [nodeSpec EXCEPT ![cur[w]] = [nodeSpec[cur[w]] EXCEPT !.iter = weight[w[1]]]]
    BY <1>12, <2>1 DEF Perform, NodesType
  <2>4. nodeSpec' \in [Subgames -> JobSpecs] BY <2>2, <2>3 DEF NodesType
  <2> QED BY <1>12, <2>4 DEF Perform, NodesType
<1>13. ASSUME NEW w \in Workers, WorkerReplies(w) PROVE NodesType'
  <2>1. Idle \in JobSpecs BY DEF Idle, JobSpecs
  <2>2. nodeSpec' \in [Subgames -> JobSpecs] BY <1>13, <2>1 DEF WorkerReplies, NodesType
  <2> QED BY <1>13, <2>2 DEF WorkerReplies, NodesType
<1> QED BY NextCases, <1>0, <1>1, <1>2, <1>3, <1>4, <1>5, <1>7, <1>8, <1>9, <1>10, <1>11, <1>12,
           <1>13 DEF vars

LEMMA WorkersTypeStep == Types /\ [Next]_vars => WorkersType'
<1> SUFFICES ASSUME Types, [Next]_vars PROVE WorkersType' OBVIOUS
<1> USE DEF Types
<1>0. CASE UNCHANGED workers BY <1>0 DEF WorkersType, workers
<1>1. ASSUME NEW next \in Steps, NextStep(next) PROVE WorkersType' BY <1>0, <1>1 DEF NextStep
<1>2. CASE SendToNode \/ AwaitReply \/ SendQuit \/ StopSender
  BY <1>0, <1>2 DEF SendToNode, AwaitReply, SendQuit, StopSender
<1>3. ASSUME NEW g \in Subgames, Submit(g) PROVE WorkersType' BY <1>0, <1>3 DEF Submit
<1>4. CASE SenderTakes \/ SenderSends \/ ReceiverStops
  BY <1>0, <1>4 DEF SenderTakes, SenderSends, ReceiverStops
<1>5. ASSUME NEW n \in Nodes, Receive(n) PROVE WorkersType' BY <1>0, <1>5 DEF Receive
<1>6. ASSUME NEW n \in Nodes, NodeReceive(n) \/ NodeAdd(n) \/ NodeReplies(n) \/ NodeStops(n)
      PROVE  WorkersType'
  BY <1>0, <1>6 DEF NodeReceive, NodeAdd, NodeReplies, NodeStops
<1>7. ASSUME NEW n \in Nodes, NodeCopies(n) PROVE WorkersType' BY <1>7 DEF NodeCopies, WorkersType
<1>8. ASSUME NEW w \in Workers, WorkerTakes(w) PROVE WorkersType'
  <2> DEFINE h == Head(nodeQ[w[1]])
  <2>1. h \in Indices BY <1>8, Numbers, QueueOfNode, QueueKept DEF WorkerTakes
  <2>2. /\ cur' = [cur EXCEPT ![w] = h] /\ UNCHANGED same
        /\ pc' = [pc EXCEPT ![w] = IF h = Quit THEN "gone" ELSE "perform"]
    BY <1>8 DEF WorkerTakes
  <2> HIDE DEF h
  <2>3. h # Quit => h \in Subgames BY <2>1 DEF Indices
  <2> QED BY <2>1, <2>2, <2>3 DEF WorkersType, WorkPoints
<1>9. ASSUME NEW w \in Workers, Perform(w) PROVE WorkersType'
  <2>1. /\ cur[w] \in Subgames /\ UNCHANGED cur /\ pc' = [pc EXCEPT ![w] = "reply"]
        /\ \E b \in BOOLEAN : same' = [same EXCEPT ![w[1]] = b]
    BY <1>9, Numbers DEF Perform, WorkersType, WorkPoints
  <2> QED BY <2>1 DEF WorkersType, WorkPoints
<1>10. ASSUME NEW w \in Workers, WorkerReplies(w) PROVE WorkersType'
  <2>1. /\ cur' = [cur EXCEPT ![w] = 0] /\ pc' = [pc EXCEPT ![w] = "wait"] /\ UNCHANGED same
        /\ 0 \in Indices
    BY <1>10, Numbers DEF WorkerReplies, Indices
  <2> QED BY <2>1 DEF WorkersType, WorkPoints
<1> QED BY NextCases, <1>0, <1>1, <1>2, <1>3, <1>4, <1>5, <1>6, <1>7, <1>8, <1>9, <1>10 DEF vars

-----------------------------------------------------------------------------
(* How jobs move *)

(* The jobs at place x stay there, and no other job gets there.            *)
Stays(x) == \A g \in Subgames : (At(g, x))' <=> At(g, x)

AllStay == \A x \in Places : Stays(x)

(* The job of subgame m goes from one place to another, no other does.     *)
Moved(m, from, to) ==
  /\ At(m, from) /\ (At(m, to))' /\ ~(At(m, from))'
  /\ \A x \in Places \ {from, to} : Stays(x)
  /\ \A g \in Subgames \ {m}, x \in {from, to} : (At(g, x))' <=> At(g, x)

(* One step of a job's way through the cluster.                            *)
JobMoves(m) ==
  \/ Moved(m, "todo", "workQ") \/ Moved(m, "workQ", "sending") \/ Moved(m, "sending", "req")
  \/ Moved(m, "req", "add") \/ Moved(m, "add", "nodeQ") \/ Moved(m, "nodeQ", "worker")
  \/ Moved(m, "worker", "reply") \/ Moved(m, "reply", "done")

LEMMA StaysIf ==
  /\ UNCHANGED jobs => Stays("idle")
  /\ UNCHANGED todo => Stays("todo")
  /\ UNCHANGED workQ => Stays("workQ")
  /\ UNCHANGED sending => Stays("sending")
  /\ UNCHANGED req => Stays("req")
  /\ UNCHANGED <<nodePc, nodeCur>> => Stays("add")
  /\ UNCHANGED nodeQ => Stays("nodeQ")
  /\ UNCHANGED <<pc, cur>> => Stays("worker")
  /\ UNCHANGED reply => Stays("reply")
  /\ UNCHANGED finished => Stays("done")
<1>1. UNCHANGED <<pc, cur>> => Stays("worker") BY DEF Stays, At, Works
<1> QED BY <1>1 DEF Stays, At

LEMMA OnePlace ==
  ASSUME PlacesInv, NEW g \in Subgames, NEW x \in Places, NEW y \in Places, At(g, x), At(g, y)
  PROVE  x = y
BY DEF PlacesInv

LEMMA PlacesStay == PlacesInv /\ AllStay => PlacesInv'
<1> SUFFICES ASSUME PlacesInv, AllStay, NEW g \in Subgames
             PROVE  \E x \in Places : \A y \in Places : (At(g, y))' <=> y = x
  BY DEF PlacesInv
<1>1. PICK x \in Places : \A y \in Places : At(g, y) <=> y = x BY DEF PlacesInv
<1> QED BY <1>1 DEF AllStay, Stays

LEMMA PlacesMove ==
  ASSUME PlacesInv, NEW m \in Subgames, NEW from \in Places, NEW to \in Places, Moved(m, from, to)
  PROVE  PlacesInv'
<1> SUFFICES ASSUME NEW g \in Subgames
             PROVE  \E x \in Places : \A y \in Places : (At(g, y))' <=> y = x
  BY DEF PlacesInv
<1>1. PICK x \in Places : \A y \in Places : At(g, y) <=> y = x BY DEF PlacesInv
<1>2. \A y \in Places \ {from, to} : (At(g, y))' <=> At(g, y) BY DEF Moved, Stays
<1>3. CASE g = m
  <2>1. x = from BY <1>1, <1>3 DEF Moved
  <2>2. \A y \in Places : (At(g, y))' <=> y = to BY <1>1, <1>2, <1>3, <2>1 DEF Moved
  <2> QED BY <2>2
<1>4. CASE g # m
  <2>1. \A y \in Places : (At(g, y))' <=> At(g, y) BY <1>2, <1>4 DEF Moved
  <2> QED BY <1>1, <2>1
<1> QED BY <1>3, <1>4

LEMMA PlaceNames ==
  ASSUME NEW m, JobMoves(m)
  PROVE  \E from, to \in Places : Moved(m, from, to)
BY DEF JobMoves, Places

(* A place that a step does not concern keeps what holds of it.            *)
LEMMA RulesStay ==
  /\ WorkQInv /\ UNCHANGED workQ => WorkQInv'
  /\ ReqInv /\ UNCHANGED req => ReqInv'
  /\ AddInv /\ UNCHANGED <<nodePc, nodeCur>> => AddInv'
  /\ NodeQInv /\ UNCHANGED nodeQ => NodeQInv'
  /\ WorkersInv /\ UNCHANGED <<pc, cur>> => WorkersInv'
  /\ ReplyInv /\ UNCHANGED reply => ReplyInv'
  /\ FinishedInv /\ UNCHANGED finished => FinishedInv'
<1>1. WorkersInv /\ UNCHANGED <<pc, cur>> => WorkersInv' BY DEF WorkersInv, Works
<1>2. ReqInv /\ UNCHANGED req => ReqInv' BY DEF ReqInv
<1>3. ReplyInv /\ UNCHANGED reply => ReplyInv' BY DEF ReplyInv
<1>4. NodeQInv /\ UNCHANGED nodeQ => NodeQInv' BY DEF NodeQInv
<1>5. AddInv /\ UNCHANGED <<nodePc, nodeCur>> => AddInv' BY DEF AddInv
<1>6. WorkQInv /\ UNCHANGED workQ => WorkQInv' BY DEF WorkQInv
<1>7. FinishedInv /\ UNCHANGED finished => FinishedInv' BY DEF FinishedInv
<1> QED BY <1>1, <1>2, <1>3, <1>4, <1>5, <1>6, <1>7

(* What the invariants say of the mail and of the workers of one node.     *)
LEMMA AtReq ==
  ASSUME ReqInv, NEW n \in Nodes, NEW g \in Subgames, JobAmong(req[n], g)
  PROVE  At(g, "req") /\ NodeOf(g) = n
BY DEF ReqInv, BoxRules, At

LEMMA AtReply ==
  ASSUME ReplyInv, NEW n \in Nodes, NEW g \in Subgames, JobAmong(reply[n], g)
  PROVE  At(g, "reply") /\ NodeOf(g) = n
BY DEF ReplyInv, BoxRules, At

LEMMA AtNodeQ ==
  ASSUME NodeQInv, NEW n \in Nodes, NEW g \in Subgames, g \in Range(nodeQ[n])
  PROVE  At(g, "nodeQ") /\ NodeOf(g) = n
BY DEF NodeQInv, At

LEMMA AtWorker ==
  ASSUME WorkersInv, NEW w \in Workers, NEW g \in Subgames, Works(w, g)
  PROVE  At(g, "worker") /\ w[1] = NodeOf(g)
BY DEF WorkersInv, At

(* What a message that is sent, or taken, changes in the mailboxes.         *)
LEMMA ReqGrows ==
  ASSUME Types, JobsInv, NEW n \in Nodes, NEW m \in Messages, Send(n, m),
         m.tag = "job" => NodeOf(m.g) = n /\ ~JobAmong(req[n], m.g)
  PROVE  /\ \A k \in Nodes : \A g : JobAmong(req'[k], g)
                               <=> JobAmong(req[k], g) \/ (k = n /\ m.tag = "job" /\ m.g = g)
         /\ ReqInv'
<1>1. req[n] \in Seq(Messages) BY DEF Types, MailType
<1>2. req'[n] = Append(req[n], m) /\ \A k \in Nodes \ {n} : req'[k] = req[k]
  BY DEF Send, Types, MailType
<1>3. /\ \A g : JobAmong(Append(req[n], m), g)
                <=> JobAmong(req[n], g) \/ (m.tag = "job" /\ m.g = g)
      /\ (OnceJobs(req[n]) /\ (m.tag = "job" => ~JobAmong(req[n], m.g)))
           => OnceJobs(Append(req[n], m))
  BY <1>1, JobSent
<1>4. \A k \in Nodes : \A g : JobAmong(req'[k], g)
                          <=> JobAmong(req[k], g) \/ (k = n /\ m.tag = "job" /\ m.g = g)
  BY <1>2, <1>3
<1>5. \A k \in Nodes : OnceJobs(req'[k])
  BY <1>2, <1>3 DEF JobsInv, ReqInv, BoxRules
<1>6. \A k \in Nodes : \A g \in Subgames : JobAmong(req'[k], g) => NodeOf(g) = k
  BY <1>4 DEF JobsInv, ReqInv, BoxRules
<1> QED BY <1>4, <1>5, <1>6 DEF ReqInv, BoxRules

LEMMA ReplyGrows ==
  ASSUME Types, JobsInv, NEW n \in Nodes, NEW m \in Replies, Answer(n, m),
         m.tag = "job" => NodeOf(m.g) = n /\ ~JobAmong(reply[n], m.g)
  PROVE  /\ \A k \in Nodes : \A g : JobAmong(reply'[k], g)
                               <=> JobAmong(reply[k], g) \/ (k = n /\ m.tag = "job" /\ m.g = g)
         /\ ReplyInv'
<1>1. reply[n] \in Seq(Replies) BY DEF Types, MailType
<1>2. reply'[n] = Append(reply[n], m) /\ \A k \in Nodes \ {n} : reply'[k] = reply[k]
  BY DEF Answer, Types, MailType
<1>3. /\ \A g : JobAmong(Append(reply[n], m), g)
                <=> JobAmong(reply[n], g) \/ (m.tag = "job" /\ m.g = g)
      /\ (OnceJobs(reply[n]) /\ (m.tag = "job" => ~JobAmong(reply[n], m.g)))
           => OnceJobs(Append(reply[n], m))
  BY <1>1, JobSent
<1>4. \A k \in Nodes : \A g : JobAmong(reply'[k], g)
                          <=> JobAmong(reply[k], g) \/ (k = n /\ m.tag = "job" /\ m.g = g)
  BY <1>2, <1>3
<1>5. \A k \in Nodes : OnceJobs(reply'[k])
  BY <1>2, <1>3 DEF JobsInv, ReplyInv, BoxRules
<1>6. \A k \in Nodes : \A g \in Subgames : JobAmong(reply'[k], g) => NodeOf(g) = k
  BY <1>4 DEF JobsInv, ReplyInv, BoxRules
<1> QED BY <1>4, <1>5, <1>6 DEF ReplyInv, BoxRules

LEMMA ReqShrinks ==
  ASSUME Types, JobsInv, NEW n \in Nodes, req[n] # <<>>, NEW m, m = Head(req[n]),
         req' = [req EXCEPT ![n] = Tail(@)]
  PROVE  /\ m \in Messages /\ ReqInv'
         /\ \A k \in Nodes : \A g : JobAmong(req[k], g)
                               <=> JobAmong(req'[k], g) \/ (k = n /\ m.tag = "job" /\ m.g = g)
         /\ m.tag = "job" => /\ m.g \in Subgames /\ m.spec \in JobSpecs /\ NodeOf(m.g) = n
                             /\ JobAmong(req[n], m.g) /\ ~JobAmong(req'[n], m.g)
<1>1. req[n] \in Seq(Messages) BY DEF Types, MailType
<1>2. req'[n] = Tail(req[n]) /\ \A k \in Nodes \ {n} : req'[k] = req[k]
  BY DEF Types, MailType
<1>3. /\ \A g : JobAmong(req[n], g)
                <=> JobAmong(Tail(req[n]), g) \/ (Head(req[n]).tag = "job" /\ Head(req[n]).g = g)
      /\ OnceJobs(req[n]) => OnceJobs(Tail(req[n]))
      /\ OnceJobs(req[n]) /\ Head(req[n]).tag = "job"
           => ~JobAmong(Tail(req[n]), Head(req[n]).g)
  BY <1>1, JobGot
<1>4. \A k \in Nodes : \A g : JobAmong(req[k], g)
                          <=> JobAmong(req'[k], g) \/ (k = n /\ m.tag = "job" /\ m.g = g)
  BY <1>2, <1>3
<1>5. \A k \in Nodes : OnceJobs(req'[k])
  BY <1>2, <1>3 DEF JobsInv, ReqInv, BoxRules
<1>6. \A k \in Nodes : \A g \in Subgames : JobAmong(req'[k], g) => NodeOf(g) = k
  BY <1>4 DEF JobsInv, ReqInv, BoxRules
<1>7. m \in Messages BY HeadOfMail DEF Types
<1>8. ASSUME m.tag = "job"
      PROVE  /\ m.g \in Subgames /\ m.spec \in JobSpecs /\ NodeOf(m.g) = n
             /\ JobAmong(req[n], m.g) /\ ~JobAmong(req'[n], m.g)
  <2>1. m.g \in Subgames /\ m.spec \in JobSpecs BY <1>7, <1>8, MessageKinds
  <2>2. JobAmong(req[n], m.g) /\ ~JobAmong(req'[n], m.g)
    BY <1>2, <1>3, <1>8 DEF JobsInv, ReqInv, BoxRules
  <2>3. NodeOf(m.g) = n BY <2>1, <2>2 DEF JobsInv, ReqInv, BoxRules
  <2> QED BY <2>1, <2>2, <2>3
<1>9. ReqInv' BY <1>5, <1>6 DEF ReqInv, BoxRules
<1> QED BY <1>4, <1>7, <1>8, <1>9

LEMMA ReplyShrinks ==
  ASSUME Types, JobsInv, NEW n \in Nodes, reply[n] # <<>>, NEW m, m = Head(reply[n]),
         reply' = [reply EXCEPT ![n] = Tail(@)]
  PROVE  /\ m \in Replies /\ ReplyInv'
         /\ \A k \in Nodes : \A g : JobAmong(reply[k], g)
                               <=> JobAmong(reply'[k], g) \/ (k = n /\ m.tag = "job" /\ m.g = g)
         /\ m.tag = "job" => /\ m.g \in Subgames /\ m.spec \in JobSpecs /\ NodeOf(m.g) = n
                             /\ JobAmong(reply[n], m.g) /\ ~JobAmong(reply'[n], m.g)
<1>1. reply[n] \in Seq(Replies) BY DEF Types, MailType
<1>2. reply'[n] = Tail(reply[n]) /\ \A k \in Nodes \ {n} : reply'[k] = reply[k]
  BY DEF Types, MailType
<1>3. /\ \A g : JobAmong(reply[n], g)
                <=> \/ JobAmong(Tail(reply[n]), g)
                    \/ (Head(reply[n]).tag = "job" /\ Head(reply[n]).g = g)
      /\ OnceJobs(reply[n]) => OnceJobs(Tail(reply[n]))
      /\ OnceJobs(reply[n]) /\ Head(reply[n]).tag = "job"
           => ~JobAmong(Tail(reply[n]), Head(reply[n]).g)
  BY <1>1, JobGot
<1>4. \A k \in Nodes : \A g : JobAmong(reply[k], g)
                          <=> JobAmong(reply'[k], g) \/ (k = n /\ m.tag = "job" /\ m.g = g)
  BY <1>2, <1>3
<1>5. \A k \in Nodes : OnceJobs(reply'[k])
  BY <1>2, <1>3 DEF JobsInv, ReplyInv, BoxRules
<1>6. \A k \in Nodes : \A g \in Subgames : JobAmong(reply'[k], g) => NodeOf(g) = k
  BY <1>4 DEF JobsInv, ReplyInv, BoxRules
<1>7. m \in Replies BY HeadOfMail DEF Types
<1>8. ASSUME m.tag = "job"
      PROVE  /\ m.g \in Subgames /\ m.spec \in JobSpecs /\ NodeOf(m.g) = n
             /\ JobAmong(reply[n], m.g) /\ ~JobAmong(reply'[n], m.g)
  <2>1. m.g \in Subgames /\ m.spec \in JobSpecs BY <1>7, <1>8, MessageKinds
  <2>2. JobAmong(reply[n], m.g) /\ ~JobAmong(reply'[n], m.g)
    BY <1>2, <1>3, <1>8 DEF JobsInv, ReplyInv, BoxRules
  <2>3. NodeOf(m.g) = n BY <2>1, <2>2 DEF JobsInv, ReplyInv, BoxRules
  <2> QED BY <2>1, <2>2, <2>3
<1>9. ReplyInv' BY <1>5, <1>6 DEF ReplyInv, BoxRules
<1> QED BY <1>4, <1>7, <1>8, <1>9

(* Main submits a job; the send thread takes it and sends it.              *)
LEMMA SubmitMoves ==
  ASSUME Types, JobsInv, NEW g \in Subgames, Submit(g)
  PROVE  Moved(g, "todo", "workQ") /\ JobsInv'
<1>1. g \in todo /\ todo' = todo \ {g} /\ workQ' = Append(workQ, g)
  BY DEF Submit
<1>2. UNCHANGED <<jobs, sending, req, nodePc, nodeCur, nodeQ, pc, cur, reply, finished>>
  BY DEF Submit, nodes, workers
<1>3. At(g, "todo") BY <1>1 DEF At
<1>4. g \notin Range(workQ) BY <1>3, OnePlace DEF JobsInv, Places, At
<1>5. workQ \in Seq(Indices) /\ g \in Indices BY DEF Types, ServerType, IsQueue, Indices
<1>6. Range(workQ') = Range(workQ) \cup {g} /\ WorkQInv'
  BY <1>1, <1>4, <1>5, Appended DEF JobsInv, WorkQInv
<1>7. \A x \in Places \ {"todo", "workQ"} : Stays(x) BY <1>2, StaysIf DEF Places
<1>8. Moved(g, "todo", "workQ") BY <1>1, <1>3, <1>6, <1>7 DEF Moved, At
<1>9. PlacesInv' BY <1>8, PlacesMove DEF JobsInv, Places
<1> QED BY <1>2, <1>6, <1>8, <1>9, RulesStay DEF JobsInv

LEMMA SenderMoves ==
  ASSUME Types, JobsInv, SenderTakes \/ SenderSends
  PROVE  (AllStay \/ \E g \in Subgames : JobMoves(g)) /\ JobsInv'
<1>1. CASE SenderTakes
  <2> DEFINE h == Head(workQ)
  <2>1. UNCHANGED <<jobs, todo, req, nodePc, nodeCur, nodeQ, pc, cur, reply, finished>>
    BY <1>1 DEF SenderTakes, main, nodes, workers
  <2>2. workQ \in Seq(Indices) /\ workQ # <<>> /\ sending = {} /\ sending' = {h}
        /\ workQ' = Tail(workQ)
    BY <1>1 DEF SenderTakes, Types, ServerType, IsQueue
  <2>3. /\ h \in Indices /\ Range(workQ) = Range(workQ') \cup {h} /\ WorkQInv'
        /\ h \in Subgames => h \notin Range(workQ')
    BY <2>2, TailAt, Taken DEF JobsInv, WorkQInv
  <2>4. \A x \in Places \ {"workQ", "sending"} : Stays(x) BY <2>1, StaysIf DEF Places
  <2>5. CASE h \in Subgames
    <3>1. PICK g \in Subgames : g = h BY <2>5
    <3>2. Moved(g, "workQ", "sending") BY <2>2, <2>3, <2>4, <3>1 DEF Moved, At
    <3>3. PlacesInv' BY <3>2, PlacesMove DEF JobsInv, Places
    <3> QED BY <2>1, <2>3, <3>2, <3>3, RulesStay DEF JobsInv, JobMoves
  <2>6. CASE h = Quit
    <3>1. Stays("workQ") /\ Stays("sending") BY <2>2, <2>3, <2>6, Numbers DEF Stays, At
    <3>2. AllStay BY <2>4, <3>1 DEF AllStay
    <3> QED BY <2>1, <2>3, <3>2, PlacesStay, RulesStay DEF JobsInv
  <2> QED BY <2>3, <2>5, <2>6 DEF Indices
<1>2. CASE SenderSends
  <2>1. PICK g \in sending \ {Quit} : Send(NodeOf(g), [tag |-> "job", g |-> g, spec |-> spec[g]])
    BY <1>2 DEF SenderSends
  <2> DEFINE m == [tag |-> "job", g |-> g, spec |-> spec[g]]
  <2>2. g \in Subgames /\ sending = {g} BY <2>1 DEF Types, ServerType, Indices
  <2>3. sending' = {} BY <1>2 DEF SenderSends
  <2>4. UNCHANGED <<jobs, todo, workQ, nodePc, nodeCur, nodeQ, pc, cur, reply, finished>>
    BY <1>2 DEF SenderSends, main, nodes, workers
  <2>5. At(g, "sending") BY <2>2 DEF At
  <2>6. ~JobAmong(req[NodeOf(g)], g) BY <2>2, <2>5, OnePlace DEF JobsInv, Places, At
  <2>7. NodeOf(g) \in Nodes /\ m \in Messages /\ m.tag = "job" /\ m.g = g
    BY <2>2, NodeOfSubgame DEF Messages, Jobs, Types, ServerType
  <2>8. Send(NodeOf(g), m) BY <2>1
  <2> HIDE DEF m
  <2>9. /\ \A n \in Nodes : \A k : JobAmong(req'[n], k)
                               <=> JobAmong(req[n], k) \/ (n = NodeOf(g) /\ k = g)
        /\ ReqInv'
    BY <2>6, <2>7, <2>8, ReqGrows
  <2>10. \A x \in Places \ {"sending", "req"} : Stays(x) BY <2>4, StaysIf DEF Places
  <2>11. \A k \in Subgames : (At(k, "req"))' <=> At(k, "req") \/ k = g
    BY <2>2, <2>9, NodeOfSubgame DEF At
  <2>12. Moved(g, "sending", "req") BY <2>2, <2>3, <2>5, <2>10, <2>11 DEF Moved, At
  <2>13. PlacesInv' BY <2>2, <2>12, PlacesMove DEF JobsInv, Places
  <2> QED BY <2>2, <2>4, <2>9, <2>12, <2>13, RulesStay DEF JobsInv, JobMoves
<1> QED BY <1>1, <1>2

(* A message that is not about a job moves no job.                         *)
LEMMA NodeReceiveMoves ==
  ASSUME Types, JobsInv, NEW n \in Nodes, NodeReceive(n)
  PROVE  /\ JobsInv' /\ (AllStay \/ \E g \in Subgames : JobMoves(g))
         /\ Head(req[n]).tag = "job" => /\ Head(req[n]).g \in Subgames
                                       /\ Moved(Head(req[n]).g, "req", "add")
         /\ Head(req[n]).tag # "job" => AllStay
<1> DEFINE m == Head(req[n])
<1>1. req[n] # <<>> /\ req' = [req EXCEPT ![n] = Tail(@)] /\ nodePc[n] = "receive"
  BY DEF NodeReceive
<1>2. UNCHANGED <<jobs, todo, workQ, sending, nodeQ, pc, cur, reply, finished>>
  BY DEF NodeReceive, main, server, workers
<1>3. /\ m \in Messages /\ ReqInv'
      /\ \A k \in Nodes : \A g : JobAmong(req[k], g)
                            <=> JobAmong(req'[k], g) \/ (k = n /\ m.tag = "job" /\ m.g = g)
      /\ m.tag = "job" => /\ m.g \in Subgames /\ m.spec \in JobSpecs /\ NodeOf(m.g) = n
                          /\ JobAmong(req[n], m.g) /\ ~JobAmong(req'[n], m.g)
  BY <1>1, ReqShrinks
<1>4. \A x \in Places \ {"req", "add"} : Stays(x) BY <1>2, StaysIf DEF Places
<1>5. CASE m.tag = "job"
  <2>1. nodeCur' = [nodeCur EXCEPT ![n] = m.g] /\ nodePc' = [nodePc EXCEPT ![n] = "add"]
    BY <1>5 DEF NodeReceive, NodeGoto
  <2> HIDE DEF m
  <2>2. PICK g \in Subgames : g = m.g /\ NodeOf(g) = n BY <1>3, <1>5
  <2>3. /\ nodePc'[n] = "add" /\ nodeCur'[n] = g
        /\ \A k \in Nodes \ {n} : nodePc'[k] = nodePc[k] /\ nodeCur'[k] = nodeCur[k]
    BY <2>1, <2>2 DEF Types, NodesType
  <2>4. \A k \in Subgames : At(k, "req") <=> (At(k, "req"))' \/ k = g
    BY <1>3, <1>5, <2>2, NodeOfSubgame DEF At
  <2>5. ~(At(g, "req"))' BY <1>3, <1>5, <2>2 DEF At
  <2>6. \A k \in Subgames : (At(k, "add"))' <=> At(k, "add") \/ k = g
    BY <1>1, <2>2, <2>3, NodeOfSubgame DEF At
  <2>7. Moved(g, "req", "add") BY <1>4, <2>4, <2>5, <2>6 DEF Moved
  <2>8. PlacesInv' BY <2>7, PlacesMove DEF JobsInv, Places
  <2>9. AddInv' BY <2>2, <2>3 DEF JobsInv, AddInv
  <2>10. JobMoves(g) BY <2>7 DEF JobMoves
  <2>11. JobsInv' BY <1>2, <1>3, <2>8, <2>9, RulesStay DEF JobsInv
  <2> QED BY <1>5, <2>2, <2>7, <2>10, <2>11 DEF m
<1>6. CASE m.tag # "job"
  <2>1. \A k \in Subgames : At(k, "req") <=> (At(k, "req"))'
    BY <1>3, <1>6, NodeOfSubgame DEF At
  <2>2. \/ UNCHANGED <<nodePc, nodeCur>>
        \/ nodePc' = [nodePc EXCEPT ![n] = m.tag] /\ UNCHANGED nodeCur
    BY <1>6 DEF NodeReceive, NodeGoto
  <2> HIDE DEF m
  <2>3. \A k \in Nodes : (nodePc'[k] = "add" <=> nodePc[k] = "add") /\ nodeCur'[k] = nodeCur[k]
    <3>1. CASE UNCHANGED <<nodePc, nodeCur>> BY <3>1
    <3>2. CASE nodePc' = [nodePc EXCEPT ![n] = m.tag] /\ UNCHANGED nodeCur
      <4>1. m.tag # "add" BY <1>3, MessageKinds DEF Requests
      <4> QED BY <1>1, <3>2, <4>1 DEF Types, NodesType
    <3> QED BY <2>2, <3>1, <3>2
  <2>4. Stays("req") BY <2>1 DEF Stays
  <2>5. Stays("add") BY <2>3, NodeOfSubgame DEF Stays, At
  <2>6. AllStay BY <1>4, <2>4, <2>5 DEF AllStay
  <2>7. AddInv' BY <2>3 DEF JobsInv, AddInv
  <2>8. JobsInv' BY <1>2, <1>3, <2>6, <2>7, PlacesStay, RulesStay DEF JobsInv
  <2> QED BY <1>6, <2>6, <2>8 DEF m
<1> QED BY <1>5, <1>6

LEMMA NodeAddMoves ==
  ASSUME Types, JobsInv, NEW n \in Nodes, NodeAdd(n)
  PROVE  (\E g \in Subgames : JobMoves(g)) /\ JobsInv'
<1>1. UNCHANGED <<jobs, todo, workQ, sending, req, pc, cur, reply, finished>>
  BY DEF NodeAdd, main, server, workers
<1>2. \A x \in Places \ {"add", "nodeQ"} : Stays(x) BY <1>1, StaysIf DEF Places
<1>3. PICK g \in Subgames : g = nodeCur[n] BY DEF Types, NodesType
<1>4. nodePc[n] = "add" /\ NodeOf(g) = n BY <1>3 DEF NodeAdd, JobsInv, AddInv
<1>5. At(g, "add") BY <1>3, <1>4 DEF At
<1>6. g \notin Range(nodeQ[n]) BY <1>4, <1>5, OnePlace DEF JobsInv, Places, At
<1>7. nodeQ[n] \in Seq(Indices) /\ g \in Indices BY DEF Types, NodesType, Indices
<1>8. nodeQ'[n] = Append(nodeQ[n], g) /\ \A k \in Nodes \ {n} : nodeQ'[k] = nodeQ[k]
  BY <1>3 DEF NodeAdd, Types, NodesType
<1>9. Range(nodeQ'[n]) = Range(nodeQ[n]) \cup {g} /\ Once(nodeQ'[n], Subgames)
  BY <1>6, <1>7, <1>8, Appended DEF JobsInv, NodeQInv
<1>10. /\ nodePc'[n] = "receive" /\ nodeCur'[n] = 0
       /\ \A k \in Nodes \ {n} : nodePc'[k] = nodePc[k] /\ nodeCur'[k] = nodeCur[k]
  BY DEF NodeAdd, NodeGoto, Types, NodesType
<1>11. \A k \in Subgames : (At(k, "nodeQ"))' <=> At(k, "nodeQ") \/ k = g
  BY <1>4, <1>8, <1>9, NodeOfSubgame DEF At
<1>12. \A k \in Subgames : At(k, "add") <=> (At(k, "add"))' \/ k = g
  BY <1>3, <1>4, <1>10, NodeOfSubgame DEF At
<1>13. ~(At(g, "add"))' BY <1>4, <1>10 DEF At
<1>14. Moved(g, "add", "nodeQ") BY <1>2, <1>5, <1>11, <1>12, <1>13 DEF Moved
<1>15. PlacesInv' BY <1>14, PlacesMove DEF JobsInv, Places
<1>16. AddInv' BY <1>10 DEF JobsInv, AddInv
<1>17. NodeQInv' BY <1>4, <1>8, <1>9 DEF JobsInv, NodeQInv
<1> QED BY <1>1, <1>14, <1>15, <1>16, <1>17, RulesStay DEF JobsInv, JobMoves

(* What another worker has does not change.                                *)
LEMMA OtherWorkers ==
  ASSUME WorkersType, NEW w \in Workers, NEW p, NEW c,
         pc' = [pc EXCEPT ![w] = p], cur' = [cur EXCEPT ![w] = c]
  PROVE  /\ pc'[w] = p /\ cur'[w] = c
         /\ \A v \in Workers \ {w} : pc'[v] = pc[v] /\ cur'[v] = cur[v]
         /\ \A v \in Workers \ {w} : \A g : (Works(v, g))' <=> Works(v, g)
         /\ \A g : (Works(w, g))' <=> c = g /\ p \in WorkPoints
<1>1. /\ pc'[w] = p /\ cur'[w] = c
      /\ \A v \in Workers \ {w} : pc'[v] = pc[v] /\ cur'[v] = cur[v]
  BY DEF WorkersType
<1> QED BY <1>1 DEF Works

LEMMA WorkerTakesMoves ==
  ASSUME Types, JobsInv, NEW w \in Workers, WorkerTakes(w)
  PROVE  (AllStay \/ \E g \in Subgames : JobMoves(g)) /\ JobsInv'
<1>1. PICK n \in Nodes : n = w[1] BY Numbers
<1> DEFINE h == Head(nodeQ[n])
<1>2. UNCHANGED <<jobs, todo, workQ, sending, req, nodePc, nodeCur, reply, finished>>
  BY DEF WorkerTakes, main, server
<1>3. \A x \in Places \ {"nodeQ", "worker"} : Stays(x) BY <1>2, StaysIf DEF Places
<1>4. nodeQ[n] \in Seq(Indices) /\ nodeQ[n] # <<>> BY <1>1 DEF WorkerTakes, Types, NodesType
<1>5. nodeQ'[n] = Tail(nodeQ[n]) /\ \A k \in Nodes \ {n} : nodeQ'[k] = nodeQ[k]
  BY <1>1 DEF WorkerTakes, Types, NodesType
<1>6. /\ h \in Indices /\ Range(nodeQ[n]) = Range(nodeQ'[n]) \cup {h} /\ Once(nodeQ'[n], Subgames)
      /\ h \in Subgames => h \notin Range(nodeQ'[n])
  BY <1>4, <1>5, TailAt, Taken DEF JobsInv, NodeQInv
<1>7. NodeQInv' BY <1>5, <1>6 DEF JobsInv, NodeQInv
<1>8. /\ pc[w] = "wait" /\ cur' = [cur EXCEPT ![w] = h]
      /\ pc' = [pc EXCEPT ![w] = IF h = Quit THEN "gone" ELSE "perform"]
  BY <1>1 DEF WorkerTakes
<1>9. \A g \in Subgames : g \in Range(nodeQ[n]) => NodeOf(g) = n BY DEF JobsInv, NodeQInv
<1> HIDE DEF h
<1>10. /\ \A v \in Workers \ {w} : \A g : (Works(v, g))' <=> Works(v, g)
       /\ \A g : (Works(w, g))' <=> (h = g /\ h # Quit)
  <2> DEFINE p == IF h = Quit THEN "gone" ELSE "perform"
  <2>1. p \in WorkPoints <=> h # Quit BY DEF WorkPoints
  <2>2. pc' = [pc EXCEPT ![w] = p] BY <1>8
  <2> HIDE DEF p
  <2>3. /\ \A v \in Workers \ {w} : \A g : (Works(v, g))' <=> Works(v, g)
        /\ \A g : (Works(w, g))' <=> h = g /\ p \in WorkPoints
    BY <1>8, <2>2, OtherWorkers DEF Types
  <2> QED BY <2>1, <2>3
<1>11. \A g : ~Works(w, g) BY <1>8 DEF Works, WorkPoints
<1>12. CASE h \in Subgames
  <2>1. PICK g \in Subgames : g = h /\ g # Quit BY <1>12, Numbers
  <2>2. NodeOf(g) = n /\ At(g, "nodeQ") BY <1>6, <1>9, <2>1 DEF At
  <2>3. ~At(g, "worker") BY <2>2, OnePlace DEF JobsInv, Places
  <2>4. \A v \in Workers : ~Works(v, g) BY <2>3 DEF At
  <2>5. \A k \in Subgames : At(k, "nodeQ") <=> (At(k, "nodeQ"))' \/ k = g
    BY <1>5, <1>6, <2>1, <2>2, NodeOfSubgame DEF At
  <2>6. ~(At(g, "nodeQ"))' BY <1>6, <2>1, <2>2 DEF At
  <2>7. \A k \in Subgames : (At(k, "worker"))' <=> At(k, "worker") \/ k = g
    BY <1>10, <1>11, <2>1 DEF At
  <2>8. Moved(g, "nodeQ", "worker") BY <1>3, <2>5, <2>6, <2>7 DEF Moved
  <2>9. PlacesInv' BY <2>8, PlacesMove DEF JobsInv, Places
  <2>10. WorkersInv'
    <3> SUFFICES ASSUME NEW v \in Workers, NEW k \in Subgames, (Works(v, k))'
                 PROVE  v[1] = NodeOf(k) /\ \A u \in Workers : (Works(u, k))' => u = v
      BY DEF WorkersInv
    <3>1. CASE v = w BY <1>1, <1>10, <2>1, <2>2, <2>4, <3>1
    <3>2. CASE v # w
      <4>1. Works(v, k) BY <1>10, <3>2
      <4>2. k # g BY <2>4, <4>1
      <4> QED BY <1>10, <2>1, <4>1, <4>2 DEF JobsInv, WorkersInv
    <3> QED BY <3>1, <3>2
  <2> QED BY <1>2, <1>7, <2>8, <2>9, <2>10, RulesStay DEF JobsInv, JobMoves
<1>13. CASE h = Quit
  <2>1. \A v \in Workers : \A g : (Works(v, g))' <=> Works(v, g) BY <1>10, <1>11, <1>13
  <2>2. Stays("worker") /\ WorkersInv' BY <2>1 DEF Stays, At, JobsInv, WorkersInv
  <2>3. Stays("nodeQ") BY <1>5, <1>6, <1>13, Numbers, NodeOfSubgame DEF Stays, At
  <2>4. AllStay BY <1>3, <2>2, <2>3 DEF AllStay
  <2> QED BY <1>2, <1>7, <2>2, <2>4, PlacesStay, RulesStay DEF JobsInv
<1> QED BY <1>6, <1>12, <1>13 DEF Indices

LEMMA PerformMoves ==
  ASSUME Types, JobsInv, NEW w \in Workers, Perform(w)
  PROVE  AllStay /\ JobsInv'
<1>1. UNCHANGED <<jobs, todo, workQ, sending, req, nodePc, nodeCur, nodeQ, reply, finished>>
  BY DEF Perform, main, server
<1>2. pc[w] = "perform" /\ pc' = [pc EXCEPT ![w] = "reply"] /\ UNCHANGED cur BY DEF Perform
<1>3. \A v \in Workers : \A g : (Works(v, g))' <=> Works(v, g)
  BY <1>2 DEF Works, WorkPoints, Types, WorkersType
<1>4. Stays("worker") /\ WorkersInv' BY <1>3 DEF Stays, At, JobsInv, WorkersInv
<1>5. AllStay BY <1>1, <1>4, StaysIf DEF AllStay, Places
<1> QED BY <1>1, <1>4, <1>5, PlacesStay, RulesStay DEF JobsInv

LEMMA WorkerRepliesMoves ==
  ASSUME Types, JobsInv, NEW w \in Workers, WorkerReplies(w)
  PROVE  /\ JobsInv' /\ \E g \in Subgames : JobMoves(g)
         /\ cur[w] \in Subgames /\ Moved(cur[w], "worker", "reply")
<1>1. UNCHANGED <<jobs, todo, workQ, sending, req, nodePc, nodeCur, nodeQ, finished>>
  BY DEF WorkerReplies, main, server
<1>2. \A x \in Places \ {"worker", "reply"} : Stays(x) BY <1>1, StaysIf DEF Places
<1>3. PICK g \in Subgames : g = cur[w] /\ Works(w, g)
  BY DEF WorkerReplies, Types, WorkersType, Works, WorkPoints
<1>4. PICK n \in Nodes : n = w[1] /\ NodeOf(g) = n
  BY <1>3, Numbers, AtWorker DEF JobsInv
<1>5. At(g, "worker") BY <1>3, AtWorker DEF JobsInv
<1>6. ~JobAmong(reply[n], g) BY <1>4, <1>5, OnePlace DEF JobsInv, Places, At
<1> DEFINE m == [tag |-> "job", g |-> g, spec |-> nodeSpec[g]]
<1>7. m \in Replies /\ m.tag = "job" /\ m.g = g
  BY DEF Types, NodesType, Replies, Jobs
<1>8. Answer(n, m) BY <1>3, <1>4 DEF WorkerReplies
<1> HIDE DEF m
<1>9. /\ \A k \in Nodes : \A h : JobAmong(reply'[k], h) <=> JobAmong(reply[k], h)
                                             \/ (k = n /\ h = g)
      /\ ReplyInv'
  BY <1>4, <1>6, <1>7, <1>8, ReplyGrows
<1>10. \A k \in Subgames : (At(k, "reply"))' <=> At(k, "reply") \/ k = g
  BY <1>4, <1>9, NodeOfSubgame DEF At
<1>11. /\ \A v \in Workers \ {w} : \A k : (Works(v, k))' <=> Works(v, k)
       /\ \A k : ~(Works(w, k))'
  <2>1. pc' = [pc EXCEPT ![w] = "wait"] /\ cur' = [cur EXCEPT ![w] = 0] BY DEF WorkerReplies
  <2> QED BY <2>1, OtherWorkers DEF Types, WorkPoints
<1>12. \A v \in Workers \ {w} : ~Works(v, g) BY <1>3 DEF JobsInv, WorkersInv
<1>13. ~(At(g, "worker"))' BY <1>11, <1>12 DEF At
<1>14. \A k \in Subgames \ {g} : (At(k, "worker"))' <=> At(k, "worker")
  <2>1. \A k : Works(w, k) => k = g BY <1>3 DEF Works
  <2> QED BY <1>11, <2>1 DEF At
<1>15. Moved(g, "worker", "reply") BY <1>2, <1>5, <1>10, <1>13, <1>14 DEF Moved
<1>16. PlacesInv' BY <1>15, PlacesMove DEF JobsInv, Places
<1>17. WorkersInv' BY <1>11 DEF JobsInv, WorkersInv
<1> QED BY <1>1, <1>3, <1>9, <1>15, <1>16, <1>17, RulesStay DEF JobsInv, JobMoves

LEMMA ReceiveMoves ==
  ASSUME Types, JobsInv, NEW n \in Nodes, Receive(n)
  PROVE  (AllStay \/ \E g \in Subgames : JobMoves(g)) /\ JobsInv'
<1> DEFINE m == Head(reply[n])
<1>1. reply[n] # <<>> /\ reply' = [reply EXCEPT ![n] = Tail(@)] BY DEF Receive
<1>2. UNCHANGED <<jobs, todo, workQ, sending, req, nodePc, nodeCur, nodeQ, pc, cur>>
  BY DEF Receive, main, nodes, workers
<1>3. /\ m \in Replies /\ ReplyInv'
      /\ \A k \in Nodes : \A g : JobAmong(reply[k], g)
                            <=> JobAmong(reply'[k], g) \/ (k = n /\ m.tag = "job" /\ m.g = g)
      /\ m.tag = "job" => /\ m.g \in Subgames /\ m.spec \in JobSpecs /\ NodeOf(m.g) = n
                          /\ JobAmong(reply[n], m.g) /\ ~JobAmong(reply'[n], m.g)
  BY <1>1, ReplyShrinks
<1>4. \A x \in Places \ {"reply", "done"} : Stays(x) BY <1>2, StaysIf DEF Places
<1>5. CASE m.tag = "job"
  <2>1. finished' = [finished EXCEPT ![m.g] = @ + 1] BY <1>5 DEF Receive
  <2> HIDE DEF m
  <2>2. PICK g \in Subgames : g = m.g /\ NodeOf(g) = n BY <1>3, <1>5
  <2>3. At(g, "reply") BY <1>3, <1>5, <2>2 DEF At
  <2>4. finished[g] = 0 BY <2>3, OnePlace DEF JobsInv, Places, At, Types, ServerType
  <2>5. finished'[g] = 1 /\ \A k \in Subgames \ {g} : finished'[k] = finished[k]
    BY <2>1, <2>2, <2>4 DEF Types, ServerType
  <2>6. \A k \in Subgames : At(k, "reply") <=> (At(k, "reply"))' \/ k = g
    BY <1>3, <1>5, <2>2, NodeOfSubgame DEF At
  <2>7. ~(At(g, "reply"))' BY <1>3, <1>5, <2>2 DEF At
  <2>8. (At(g, "done"))' /\ \A k \in Subgames \ {g} : (At(k, "done"))' <=> At(k, "done")
    BY <2>5 DEF At
  <2>9. Moved(g, "reply", "done") BY <1>4, <2>3, <2>6, <2>7, <2>8 DEF Moved
  <2>10. PlacesInv' BY <2>9, PlacesMove DEF JobsInv, Places
  <2>11. FinishedInv' BY <2>5 DEF JobsInv, FinishedInv
  <2> QED BY <1>2, <1>3, <2>9, <2>10, <2>11, RulesStay DEF JobsInv, JobMoves
<1>6. CASE m.tag # "job"
  <2>1. UNCHANGED finished BY <1>6 DEF Receive
  <2>2. Stays("reply") BY <1>3, <1>6, NodeOfSubgame DEF Stays, At
  <2>3. AllStay BY <1>4, <2>1, <2>2, StaysIf DEF AllStay
  <2> QED BY <1>2, <1>3, <2>1, <2>3, PlacesStay, RulesStay DEF JobsInv
<1> QED BY <1>5, <1>6

(* When a step is done, no job is on its way.                              *)
LEMMA AllDone ==
  ASSUME Types, MainInv, PlacesInv, StepDone
  PROVE  \A g \in Subgames, x \in Places \ {"idle", "done"} : ~At(g, x)
<1> SUFFICES ASSUME NEW g \in Subgames, NEW x \in Places \ {"idle", "done"} PROVE ~At(g, x)
  OBVIOUS
<1>1. CASE g \in jobs
  <2>1. finished[g] > 0 BY <1>1, StepDoneIs DEF MainInv, AllReported
  <2>2. At(g, "done") BY <2>1 DEF At
  <2> QED BY <2>2, OnePlace DEF Places
<1>2. CASE g \notin jobs
  <2>1. At(g, "idle") BY <1>2 DEF At
  <2> QED BY <2>1, OnePlace DEF Places
<1> QED BY <1>1, <1>2

LEMMA NextStepMoves ==
  ASSUME Types, MainInv, JobsInv, NEW next \in Steps, NextStep(next)
  PROVE  JobsInv' /\ \A g \in Subgames : finished'[g] = 0
<1>1. UNCHANGED <<workQ, sending, req, nodePc, nodeCur, nodeQ, pc, cur, reply>>
  BY DEF NextStep, nodes, workers
<1>2. \A g \in Subgames, x \in Places \ {"idle", "done"} : ~At(g, x)
  BY AllDone DEF NextStep, JobsInv
<1>3. \A x \in Places \ {"idle", "todo", "done"} : Stays(x) BY <1>1, StaysIf DEF Places
<1>4. \A g \in Subgames : finished'[g] = 0
  <2> SUFFICES ASSUME NEW g \in Subgames PROVE finished'[g] = 0 OBVIOUS
  <2>1. finished[g] \in Nat /\ finished[g] <= 1 BY DEF Types, ServerType, JobsInv, FinishedInv
  <2>2. finished'[g] = IF g \in jobs THEN finished[g] - 1 ELSE finished[g] BY DEF NextStep
  <2>3. CASE g \in jobs
    <3>1. finished[g] > 0 BY <2>3, StepDoneIs DEF NextStep, MainInv, AllReported
    <3> QED BY <2>1, <2>2, <2>3, <3>1
  <2>4. CASE g \notin jobs
    <3>1. At(g, "idle") BY <2>4 DEF At
    <3>2. ~At(g, "done") BY <3>1, OnePlace DEF JobsInv, Places
    <3> QED BY <2>1, <2>2, <2>4, <3>2 DEF At
  <2> QED BY <2>3, <2>4
<1>5. todo' = jobs' BY DEF NextStep
<1>6. PlacesInv'
  <2> SUFFICES ASSUME NEW g \in Subgames
               PROVE  \E x \in Places : \A y \in Places : (At(g, y))' <=> y = x
    BY DEF PlacesInv
  <2>1. \A y \in Places \ {"idle", "todo", "done"} : ~(At(g, y))' BY <1>2, <1>3 DEF Stays
  <2>2. ~(At(g, "done"))' BY <1>4 DEF At
  <2>3. CASE g \in jobs'
    <3>1. (At(g, "todo"))' /\ ~(At(g, "idle"))' BY <1>5, <2>3 DEF At
    <3>2. \A y \in Places : (At(g, y))' <=> y = "todo" BY <2>1, <2>2, <3>1
    <3> QED BY <3>2 DEF Places
  <2>4. CASE g \notin jobs'
    <3>1. ~(At(g, "todo"))' /\ (At(g, "idle"))' BY <1>5, <2>4 DEF At
    <3>2. \A y \in Places : (At(g, y))' <=> y = "idle" BY <2>1, <2>2, <3>1
    <3> QED BY <3>2 DEF Places
  <2> QED BY <2>3, <2>4
<1>7. FinishedInv' BY <1>4 DEF FinishedInv
<1> QED BY <1>1, <1>4, <1>6, <1>7, RulesStay DEF JobsInv

(* Requests, answers to them and quit indices move no job.                 *)
LEMMA OthersMove ==
  ASSUME Types, JobsInv,
         \/ SendToNode \/ AwaitReply \/ SendQuit \/ StopSender \/ ReceiverStops \/ UNCHANGED vars
         \/ \E n \in Nodes : NodeCopies(n) \/ NodeReplies(n) \/ NodeStops(n)
  PROVE  AllStay /\ JobsInv'
<1>1. CASE UNCHANGED <<jobs, todo, workQ, sending, req, nodePc, nodeCur, nodeQ, pc, cur, reply,
                       finished>>
  <2>1. AllStay BY <1>1, StaysIf DEF AllStay, Places
  <2> QED BY <1>1, <2>1, PlacesStay, RulesStay DEF JobsInv
<1>2. ASSUME NEW n \in Nodes, NEW m \in Messages, Send(n, m), m.tag # "job",
             UNCHANGED <<jobs, todo, workQ, sending, nodePc, nodeCur, nodeQ, pc, cur,
                          reply, finished>>
      PROVE  AllStay /\ JobsInv'
  <2>1. /\ \A k \in Nodes : \A g : JobAmong(req'[k], g) <=> JobAmong(req[k], g)
        /\ ReqInv'
    BY <1>2, ReqGrows
  <2>2. Stays("req") BY <2>1, NodeOfSubgame DEF Stays, At
  <2>3. AllStay BY <1>2, <2>2, StaysIf DEF AllStay, Places
  <2> QED BY <1>2, <2>1, <2>3, PlacesStay, RulesStay DEF JobsInv
<1>3. CASE SendToNode
  <2>1. sent \in Nodes BY <1>3, Numbers DEF SendToNode, Types, MainType, Nodes
  <2>2. PICK m \in Messages : Send(sent, m) /\ m.tag # "job"
    <3>1. [tag |-> step, iter |-> iter] \in Messages /\ step # "job"
      BY <1>3 DEF SendToNode, Types, MainType, Messages, Requests
    <3> QED BY <1>3, <3>1 DEF SendToNode
  <2> QED BY <1>2, <1>3, <2>1, <2>2 DEF SendToNode, nodes, workers
<1>4. CASE SendQuit
  <2>1. CASE sent = 0 BY <1>1, <1>4, <2>1 DEF SendQuit, nodes, workers
  <2>2. CASE sent # 0
    <3>1. sent - 1 \in Nodes
      BY <1>4, <2>2, Numbers DEF SendQuit, Ranks, Types, MainType, Nodes
    <3>2. PICK m \in Messages : Send(sent - 1, m) /\ m.tag # "job"
      <4>1. [tag |-> "quit"] \in Messages BY DEF Messages
      <4> QED BY <1>4, <2>2, <4>1 DEF SendQuit
    <3> QED BY <1>2, <1>4, <3>1, <3>2 DEF SendQuit, nodes, workers
  <2> QED BY <2>1, <2>2
<1>5. CASE StopSender
  <2>1. UNCHANGED <<jobs, todo, sending, req, nodePc, nodeCur, nodeQ, pc, cur, reply, finished>>
    BY <1>5 DEF StopSender, nodes, workers
  <2>2. workQ \in Seq(Indices) /\ Quit \in Indices /\ workQ' = Append(workQ, Quit)
    BY <1>5 DEF StopSender, Types, ServerType, IsQueue, Indices
  <2>3. Range(workQ') = Range(workQ) \cup {Quit} /\ WorkQInv'
    BY <2>2, Appended, Numbers DEF JobsInv, WorkQInv
  <2>4. Stays("workQ") BY <2>3, Numbers DEF Stays, At
  <2>5. AllStay BY <2>1, <2>4, StaysIf DEF AllStay, Places
  <2> QED BY <2>1, <2>3, <2>5, PlacesStay, RulesStay DEF JobsInv
<1>6. CASE AwaitReply \/ ReceiverStops \/ UNCHANGED vars
  BY <1>1, <1>6 DEF AwaitReply, ReceiverStops, vars, main, server, nodes, workers
<1>7. ASSUME NEW n \in Nodes, NEW p, nodePc[n] # "add", p # "add", NodeGoto(n, p),
             UNCHANGED nodeCur
      PROVE  Stays("add") /\ AddInv'
  <2>1. \A k \in Nodes : (nodePc'[k] = "add" <=> nodePc[k] = "add") /\ nodeCur'[k] = nodeCur[k]
    BY <1>7 DEF NodeGoto, Types, NodesType
  <2> QED BY <2>1, NodeOfSubgame DEF Stays, At, JobsInv, AddInv
<1>8. ASSUME NEW n \in Nodes, NodeCopies(n) PROVE AllStay /\ JobsInv'
  <2>1. UNCHANGED <<jobs, todo, workQ, sending, req, nodeQ, pc, cur, reply, finished>>
    BY <1>8 DEF NodeCopies, main, server
  <2>2. Stays("add") /\ AddInv' BY <1>7, <1>8 DEF NodeCopies
  <2>3. AllStay BY <2>1, <2>2, StaysIf DEF AllStay, Places
  <2> QED BY <2>1, <2>2, <2>3, PlacesStay, RulesStay DEF JobsInv
<1>9. ASSUME NEW n \in Nodes, NodeReplies(n) PROVE AllStay /\ JobsInv'
  <2>1. UNCHANGED <<jobs, todo, workQ, sending, req, nodeQ, pc, cur, finished>>
    BY <1>9 DEF NodeReplies, main, server, workers
  <2>2. Stays("add") /\ AddInv' BY <1>7, <1>9 DEF NodeReplies
  <2>3. PICK m \in Replies : Answer(n, m) /\ m.tag # "job"
    <3>1. StatsOfNode(n) \in StatsOf BY DEF StatsOfNode, StatsOf, Types, NodesType
    <3>2. /\ [tag |-> "load"] \in Replies /\ [tag |-> "dump"] \in Replies
          /\ [tag |-> "stats", stats |-> StatsOfNode(n)] \in Replies
      BY <3>1 DEF Replies
    <3> QED BY <1>9, <3>2 DEF NodeReplies
  <2>4. /\ \A k \in Nodes : \A g : JobAmong(reply'[k], g) <=> JobAmong(reply[k], g)
        /\ ReplyInv'
    BY <2>3, ReplyGrows
  <2>5. Stays("reply") BY <2>4, NodeOfSubgame DEF Stays, At
  <2>6. AllStay BY <2>1, <2>2, <2>5, StaysIf DEF AllStay, Places
  <2> QED BY <2>1, <2>2, <2>4, <2>6, PlacesStay, RulesStay DEF JobsInv
<1>10. ASSUME NEW n \in Nodes, NodeStops(n) PROVE AllStay /\ JobsInv'
  <2>1. UNCHANGED <<jobs, todo, workQ, sending, req, nodeCur, pc, cur, reply, finished>>
    BY <1>10 DEF NodeStops, main, server, workers
  <2>2. CASE quits[n] < NumWorkers
    <3>1. UNCHANGED nodePc /\ nodeQ' = [nodeQ EXCEPT ![n] = Append(@, Quit)]
      BY <1>10, <2>2 DEF NodeStops
    <3>2. nodeQ[n] \in Seq(Indices) /\ Quit \in Indices BY DEF Types, NodesType, Indices
    <3>3. nodeQ'[n] = Append(nodeQ[n], Quit) /\ \A k \in Nodes \ {n} : nodeQ'[k] = nodeQ[k]
      BY <3>1 DEF Types, NodesType
    <3>4. Range(nodeQ'[n]) = Range(nodeQ[n]) \cup {Quit} /\ Once(nodeQ'[n], Subgames)
      BY <3>2, <3>3, Appended, Numbers DEF JobsInv, NodeQInv
    <3>5. \A k \in Nodes, g \in Subgames : g \in Range(nodeQ'[k]) <=> g \in Range(nodeQ[k])
      <4> TAKE k \in Nodes, g \in Subgames
      <4>1. g # Quit BY Numbers
      <4> QED BY <3>3, <3>4, <4>1
    <3>6. \A k \in Nodes : Once(nodeQ'[k], Subgames) BY <3>3, <3>4 DEF JobsInv, NodeQInv
    <3>7. Stays("nodeQ") BY <3>5, NodeOfSubgame DEF Stays, At
    <3>8. NodeQInv' BY <3>5, <3>6 DEF JobsInv, NodeQInv
    <3>9. AllStay BY <2>1, <3>1, <3>7, StaysIf DEF AllStay, Places
    <3> QED BY <2>1, <3>1, <3>8, <3>9, PlacesStay, RulesStay DEF JobsInv
  <2>3. CASE ~(quits[n] < NumWorkers)
    <3>1. nodePc[n] = "quit" /\ NodeGoto(n, "gone") /\ UNCHANGED nodeQ
      BY <1>10, <2>3 DEF NodeStops
    <3>2. Stays("add") /\ AddInv' BY <1>7, <2>1, <3>1
    <3>3. AllStay BY <2>1, <3>1, <3>2, StaysIf DEF AllStay, Places
    <3> QED BY <2>1, <3>1, <3>2, <3>3, PlacesStay, RulesStay DEF JobsInv
  <2> QED BY <2>2, <2>3
<1> QED BY <1>3, <1>4, <1>5, <1>6, <1>8, <1>9, <1>10

(* Each step moves no job, or one job one place on, or starts a new pass.  *)
LEMMA JobsStep ==
  ASSUME Types, MainInv, JobsInv, [Next]_vars
  PROVE  /\ JobsInv'
         /\ \/ AllStay
            \/ \E g \in Subgames : JobMoves(g)
            \/ \E next \in Steps : NextStep(next)
<1>1. ASSUME NEW g \in Subgames, Submit(g) PROVE JobsInv' /\ \E k \in Subgames : JobMoves(k)
  BY <1>1, SubmitMoves DEF JobMoves
<1> QED BY NextCases, NextStepMoves, OthersMove, SenderMoves, ReceiveMoves, NodeReceiveMoves,
           NodeAddMoves, WorkerTakesMoves, PerformMoves, WorkerRepliesMoves, <1>1

LEMMA JobsInit == Init => JobsInv
<1> SUFFICES ASSUME Init PROVE JobsInv OBVIOUS
<1> USE DEF Init
<1>1. \A g : ~JobAmong(<<>>, g) BY DEF JobAmong
<1>2. OnceJobs(<<>>) /\ Once(<<>>, Subgames) /\ Range(<<>>) = {} BY DEF OnceJobs, Once, Range
<1>3. \A w \in Workers : \A g : ~Works(w, g) BY DEF Works, WorkPoints
<1>4. PlacesInv
  <2> SUFFICES ASSUME NEW g \in Subgames PROVE \A y \in Places : At(g, y) <=> y = "idle"
    BY DEF PlacesInv, Places
  <2>1. /\ req[NodeOf(g)] = <<>> /\ reply[NodeOf(g)] = <<>> /\ nodeQ[NodeOf(g)] = <<>>
        /\ nodePc[NodeOf(g)] = "receive" /\ finished[g] = 0
    BY NodeOfSubgame
  <2> QED BY <1>1, <1>2, <1>3, <2>1 DEF At, Places
<1>5. ReqInv /\ ReplyInv BY <1>1, <1>2 DEF ReqInv, ReplyInv, BoxRules
<1>6. WorkQInv /\ AddInv /\ NodeQInv /\ FinishedInv
  BY <1>2 DEF WorkQInv, AddInv, NodeQInv, FinishedInv
<1>7. WorkersInv BY <1>3 DEF WorkersInv
<1> QED BY <1>4, <1>5, <1>6, <1>7 DEF JobsInv

-----------------------------------------------------------------------------
(* What is known of the jobs *)

LEMMA JobOfPass ==
  ASSUME Inv, NEW g \in Subgames, NEW x \in Places \ {"idle"}, At(g, x)
  PROVE  g \in jobs /\ step \in Passes /\ (x # "todo" => g \notin todo)
<1>1. g \in jobs
  <2>1. CASE At(g, "idle") BY <2>1, OnePlace DEF Places, Inv, JobsInv
  <2>2. CASE ~At(g, "idle") BY <2>2 DEF At
  <2> QED BY <2>1, <2>2
<1>2. step \in Passes BY <1>1 DEF Inv, MainInv
<1>3. x # "todo" => g \notin todo
  <2>1. g \in todo => At(g, "todo") BY DEF At
  <2> QED BY <2>1, OnePlace DEF Places, Inv, JobsInv
<1> QED BY <1>1, <1>2, <1>3

LEMMA JobsSaySent ==
  ASSUME NEW S, NEW q \in Seq(S), NEW x \in S, NEW v, JobsSay(q, v), x.tag = "job" => x.spec = v
  PROVE  JobsSay(Append(q, x), v)
<1>1. /\ DOMAIN q = 1 .. Len(q) /\ DOMAIN Append(q, x) = 1 .. Len(q) + 1 /\ Len(q) \in Nat
      /\ \A i \in 1 .. Len(q) : Append(q, x)[i] = q[i]
      /\ Append(q, x)[Len(q) + 1] = x
  BY AppendedAt
<1>2. \A i \in 1 .. Len(q) + 1 : i \in 1 .. Len(q) \/ i = Len(q) + 1 BY <1>1
<1> QED BY <1>1, <1>2 DEF JobsSay

LEMMA JobsSayGot ==
  ASSUME NEW S, NEW q \in Seq(S), q # <<>>, NEW v, JobsSay(q, v)
  PROVE  JobsSay(Tail(q), v) /\ (Head(q).tag = "job" => Head(q).spec = v)
<1>1. /\ DOMAIN q = 1 .. Len(q) /\ DOMAIN Tail(q) = 1 .. Len(q) - 1 /\ Len(q) \in Nat \ {0}
      /\ \A i \in 1 .. Len(q) - 1 : Tail(q)[i] = q[i + 1]
      /\ Head(q) = q[1]
  BY TailAt
<1>2. 1 \in 1 .. Len(q) /\ \A i \in 1 .. Len(q) - 1 : i + 1 \in 1 .. Len(q) BY <1>1
<1> QED BY <1>1, <1>2 DEF JobsSay

(* Without jobs on their way there is no message about one.                *)
LEMMA NoJobMail ==
  ASSUME Types, JobsInv
  PROVE  /\ (\A g \in Subgames : ~At(g, "req"))
              => \A n \in Nodes : \A i \in DOMAIN req[n] : req[n][i].tag # "job"
         /\ (\A g \in Subgames : ~At(g, "reply"))
              => \A n \in Nodes : \A i \in DOMAIN reply[n] : reply[n][i].tag # "job"
<1>1. ASSUME NEW n \in Nodes, NEW i \in DOMAIN req[n], req[n][i].tag = "job"
      PROVE  \E g \in Subgames : At(g, "req")
  <2>1. req[n][i] \in Messages BY DEF Types, MailType
  <2>2. req[n][i].g \in Subgames BY <1>1, <2>1, MessageKinds
  <2>3. JobAmong(req[n], req[n][i].g) BY <1>1 DEF JobAmong
  <2> QED BY <2>2, <2>3, AtReq DEF JobsInv
<1>2. ASSUME NEW n \in Nodes, NEW i \in DOMAIN reply[n], reply[n][i].tag = "job"
      PROVE  \E g \in Subgames : At(g, "reply")
  <2>1. reply[n][i] \in Replies BY DEF Types, MailType
  <2>2. reply[n][i].g \in Subgames BY <1>2, <2>1, MessageKinds
  <2>3. JobAmong(reply[n], reply[n][i].g) BY <1>2 DEF JobAmong
  <2> QED BY <2>2, <2>3, AtReply DEF JobsInv
<1> QED BY <1>1, <1>2

(* A job's results are what its node was sent.                             *)
LEMMA ReceivedSpec ==
  ASSUME Inv, NEW n \in Nodes, Receive(n), Head(reply[n]).tag = "job"
  PROVE  Head(reply[n]).spec = Now
<1>1. reply[n] \in Seq(Replies) /\ reply[n] # <<>> BY DEF Receive, Inv, Types, MailType
<1>2. JobsSay(reply[n], Now) BY DEF Inv, MessagesInv
<1> QED BY <1>1, <1>2, JobsSayGot

LEMMA SpecStep == Inv /\ [Next]_vars => SpecInv'
<1> SUFFICES ASSUME Inv, [Next]_vars PROVE SpecInv' OBVIOUS
<1>0. CASE UNCHANGED <<jobs, todo, spec, step, iter>> BY <1>0 DEF Inv, SpecInv, Now
<1>1. ASSUME NEW next \in Steps, NextStep(next) PROVE SpecInv' BY <1>1 DEF NextStep, SpecInv
<1>2. CASE SendToNode \/ AwaitReply \/ SendQuit \/ StopSender
  BY <1>0, <1>2 DEF SendToNode, AwaitReply, SendQuit, StopSender
<1>3. ASSUME NEW g \in Subgames, Submit(g) PROVE SpecInv'
  <2>1. /\ spec' = [spec EXCEPT ![g] = Now] /\ todo' = todo \ {g}
        /\ UNCHANGED <<jobs, step, iter>>
    BY <1>3 DEF Submit, Now
  <2>2. jobs \subseteq Subgames /\ spec \in [Subgames -> JobSpecs]
    BY DEF Inv, Types, MainType, ServerType
  <2>3. Now' = Now BY <2>1 DEF Now
  <2> SUFFICES ASSUME NEW k \in jobs \ todo' PROVE spec'[k] = Now
    BY <2>1, <2>3 DEF SpecInv
  <2>4. CASE k = g BY <2>1, <2>2, <2>4
  <2>5. CASE k # g BY <2>1, <2>2, <2>5 DEF Inv, SpecInv
  <2> QED BY <2>4, <2>5
<1>4. CASE SenderTakes \/ SenderSends \/ ReceiverStops
  BY <1>0, <1>4 DEF SenderTakes, SenderSends, ReceiverStops, main
<1>5. ASSUME NEW n \in Nodes, Receive(n) PROVE SpecInv'
  <2> DEFINE m == Head(reply[n])
  <2>1. UNCHANGED <<jobs, todo, step, iter>> BY <1>5 DEF Receive, main
  <2>2. CASE m.tag = "job"
    <3>1. spec' = [spec EXCEPT ![m.g] = m.spec] BY <1>5, <2>2 DEF Receive
    <3>2. m.spec = Now BY <1>5, <2>2, ReceivedSpec
    <3> HIDE DEF m
    <3>3. Now' = Now BY <2>1 DEF Now
    <3>4. jobs \subseteq Subgames /\ spec \in [Subgames -> JobSpecs]
      BY DEF Inv, Types, MainType, ServerType
    <3> SUFFICES ASSUME NEW k \in jobs \ todo PROVE spec'[k] = Now
      BY <2>1, <3>3 DEF SpecInv
    <3> QED BY <3>1, <3>2, <3>4 DEF Inv, SpecInv
  <2>3. CASE m.tag # "job"
    <3>1. UNCHANGED spec BY <1>5, <2>3 DEF Receive
    <3> QED BY <1>0, <2>1, <3>1
  <2> QED BY <2>2, <2>3
<1>6. ASSUME NEW n \in Nodes,
             NodeReceive(n) \/ NodeAdd(n) \/ NodeCopies(n) \/ NodeReplies(n) \/ NodeStops(n)
      PROVE  SpecInv'
  BY <1>0, <1>6 DEF NodeReceive, NodeAdd, NodeCopies, NodeReplies, NodeStops, main, server
<1>7. ASSUME NEW w \in Workers, WorkerTakes(w) \/ Perform(w) \/ WorkerReplies(w) PROVE SpecInv'
  BY <1>0, <1>7 DEF WorkerTakes, Perform, WorkerReplies, main, server
<1>8. CASE UNCHANGED vars BY <1>0, <1>8 DEF vars, main, server
<1> QED BY NextCases, <1>1, <1>2, <1>3, <1>4, <1>5, <1>6, <1>7, <1>8

LEMMA MessagesStep == Inv /\ [Next]_vars => MessagesInv'
<1> SUFFICES ASSUME Inv, [Next]_vars PROVE MessagesInv' OBVIOUS
<1> USE DEF Inv
<1>a. Types /\ JobsInv /\ MainInv /\ MessagesInv OBVIOUS
<1>0. CASE UNCHANGED <<req, reply, step, iter>> BY <1>0 DEF MessagesInv, Now
<1>1. ASSUME NEW next \in Steps, NextStep(next) PROVE MessagesInv'
  <2>1. UNCHANGED <<req, reply>> BY <1>1 DEF NextStep
  <2>2. \A g \in Subgames : ~At(g, "req") /\ ~At(g, "reply")
    BY <1>1, AllDone DEF JobsInv, NextStep, Places
  <2>3. \A n \in Nodes : /\ \A i \in DOMAIN req[n] : req[n][i].tag # "job"
                         /\ \A i \in DOMAIN reply[n] : reply[n][i].tag # "job"
    BY <2>2, NoJobMail
  <2> QED BY <2>1, <2>3 DEF MessagesInv, JobsSay
(* A request or a job of this pass is sent; a message is taken.            *)
<1>2. ASSUME NEW n \in Nodes, NEW m \in Messages, Send(n, m), m.tag = "job" => m.spec = Now,
             UNCHANGED <<reply, step, iter>>
      PROVE  MessagesInv'
  <2>1. req[n] \in Seq(Messages) /\ JobsSay(req[n], Now) BY DEF Types, MailType, MessagesInv
  <2>2. JobsSay(Append(req[n], m), Now) BY <1>2, <2>1, JobsSaySent
  <2>3. req'[n] = Append(req[n], m) /\ \A k \in Nodes \ {n} : req'[k] = req[k]
    BY <1>2 DEF Send, Types, MailType
  <2>4. Now' = Now BY <1>2 DEF Now
  <2>5. \A k \in Nodes : JobsSay(req'[k], Now) /\ JobsSay(reply'[k], Now)
    BY <1>2, <2>2, <2>3 DEF MessagesInv
  <2> QED BY <2>4, <2>5 DEF MessagesInv, JobsSay
<1>3. ASSUME NEW n \in Nodes, NEW m \in Replies, Answer(n, m), m.tag = "job" => m.spec = Now,
             UNCHANGED <<req, step, iter>>
      PROVE  MessagesInv'
  <2>1. reply[n] \in Seq(Replies) /\ JobsSay(reply[n], Now) BY DEF Types, MailType, MessagesInv
  <2>2. JobsSay(Append(reply[n], m), Now) BY <1>3, <2>1, JobsSaySent
  <2>3. reply'[n] = Append(reply[n], m) /\ \A k \in Nodes \ {n} : reply'[k] = reply[k]
    BY <1>3 DEF Answer, Types, MailType
  <2>4. Now' = Now BY <1>3 DEF Now
  <2>5. \A k \in Nodes : JobsSay(req'[k], Now) /\ JobsSay(reply'[k], Now)
    BY <1>3, <2>2, <2>3 DEF MessagesInv
  <2> QED BY <2>4, <2>5 DEF MessagesInv, JobsSay
<1>4. CASE SendToNode
  <2>1. sent \in Nodes BY <1>4, Numbers DEF SendToNode, Types, MainType, Nodes
  <2>2. PICK m \in Messages : Send(sent, m) /\ m.tag # "job"
    <3>1. [tag |-> step, iter |-> iter] \in Messages /\ step # "job"
      BY <1>4 DEF SendToNode, Types, MainType, Messages, Requests
    <3> QED BY <1>4, <3>1 DEF SendToNode
  <2> QED BY <1>2, <1>4, <2>1, <2>2 DEF SendToNode
<1>5. CASE SendQuit
  <2>1. CASE sent = 0 BY <1>0, <1>5, <2>1 DEF SendQuit
  <2>2. CASE sent # 0
    <3>1. sent - 1 \in Nodes BY <1>5, <2>2, Numbers DEF SendQuit, Ranks, Types, MainType, Nodes
    <3>2. PICK m \in Messages : Send(sent - 1, m) /\ m.tag # "job"
      <4>1. [tag |-> "quit"] \in Messages BY DEF Messages
      <4> QED BY <1>5, <2>2, <4>1 DEF SendQuit
    <3> QED BY <1>2, <1>5, <3>1, <3>2 DEF SendQuit
  <2> QED BY <2>1, <2>2
<1>6. CASE SenderSends
  <2>1. PICK g \in sending \ {Quit} : Send(NodeOf(g), [tag |-> "job", g |-> g, spec |-> spec[g]])
    BY <1>6 DEF SenderSends
  <2>2. g \in Subgames BY <2>1 DEF Types, ServerType, Indices
  <2>3. At(g, "sending") BY <2>1 DEF At
  <2>4. g \in jobs \ todo BY <2>2, <2>3, JobOfPass DEF Places
  <2>5. spec[g] = Now BY <2>4 DEF SpecInv
  <2> DEFINE m == [tag |-> "job", g |-> g, spec |-> spec[g]]
  <2>6. m \in Messages /\ m.tag = "job" /\ m.spec = Now /\ NodeOf(g) \in Nodes
    BY <2>2, <2>5, NodeOfSubgame DEF Messages, Jobs, Types, ServerType
  <2>7. Send(NodeOf(g), m) BY <2>1
  <2> HIDE DEF m
  <2> QED BY <1>2, <1>6, <2>6, <2>7 DEF SenderSends, main
<1>7. ASSUME NEW n \in Nodes, Receive(n) PROVE MessagesInv'
  <2>1. reply[n] \in Seq(Replies) /\ reply[n] # <<>> /\ JobsSay(reply[n], Now)
    BY <1>7 DEF Receive, Types, MailType, MessagesInv
  <2>2. JobsSay(Tail(reply[n]), Now) BY <2>1, JobsSayGot
  <2>3. /\ reply'[n] = Tail(reply[n]) /\ \A k \in Nodes \ {n} : reply'[k] = reply[k]
        /\ UNCHANGED <<req, step, iter>>
    BY <1>7 DEF Receive, Types, MailType, main
  <2>4. \A k \in Nodes : JobsSay(req'[k], Now) /\ JobsSay(reply'[k], Now)
    BY <2>2, <2>3 DEF MessagesInv
  <2>5. Now' = Now BY <2>3 DEF Now
  <2> QED BY <2>4, <2>5 DEF MessagesInv, JobsSay
<1>8. ASSUME NEW n \in Nodes, NodeReceive(n) PROVE MessagesInv'
  <2>1. req[n] \in Seq(Messages) /\ req[n] # <<>> /\ JobsSay(req[n], Now)
    BY <1>8 DEF NodeReceive, Types, MailType, MessagesInv
  <2>2. JobsSay(Tail(req[n]), Now) BY <2>1, JobsSayGot
  <2>3. /\ req'[n] = Tail(req[n]) /\ \A k \in Nodes \ {n} : req'[k] = req[k]
        /\ UNCHANGED <<reply, step, iter>>
    BY <1>8 DEF NodeReceive, Types, MailType, main
  <2>4. \A k \in Nodes : JobsSay(req'[k], Now) /\ JobsSay(reply'[k], Now)
    BY <2>2, <2>3 DEF MessagesInv
  <2>5. Now' = Now BY <2>3 DEF Now
  <2> QED BY <2>4, <2>5 DEF MessagesInv, JobsSay
<1>9. ASSUME NEW n \in Nodes, NodeReplies(n) PROVE MessagesInv'
  <2>1. PICK m \in Replies : Answer(n, m) /\ m.tag # "job"
    <3>1. StatsOfNode(n) \in StatsOf BY DEF StatsOfNode, StatsOf, Types, NodesType
    <3>2. /\ [tag |-> "load"] \in Replies /\ [tag |-> "dump"] \in Replies
          /\ [tag |-> "stats", stats |-> StatsOfNode(n)] \in Replies
      BY <3>1 DEF Replies
    <3> QED BY <1>9, <3>2 DEF NodeReplies
  <2> QED BY <1>3, <1>9, <2>1 DEF NodeReplies, main
<1>10. ASSUME NEW w \in Workers, WorkerReplies(w) PROVE MessagesInv'
  <2>1. PICK g \in Subgames : g = cur[w] /\ Works(w, g)
    BY <1>10 DEF WorkerReplies, Types, WorkersType, Works, WorkPoints
  <2>2. At(g, "worker") BY <2>1, AtWorker DEF JobsInv
  <2>3. nodeSpec[g] = Now BY <2>2 DEF NodeSpecInv
  <2> DEFINE m == [tag |-> "job", g |-> g, spec |-> nodeSpec[g]]
  <2>4. m \in Replies /\ m.tag = "job" /\ m.spec = Now /\ w[1] \in Nodes
    BY <2>3, Numbers DEF Types, NodesType, Replies, Jobs
  <2>5. Answer(w[1], m) BY <1>10, <2>1 DEF WorkerReplies
  <2> HIDE DEF m
  <2> QED BY <1>3, <1>10, <2>4, <2>5 DEF WorkerReplies, main
<1>11. CASE \/ AwaitReply \/ StopSender \/ SenderTakes \/ ReceiverStops \/ UNCHANGED vars
  BY <1>0, <1>11 DEF AwaitReply, StopSender, SenderTakes, ReceiverStops, vars, main
<1>12. ASSUME NEW g \in Subgames, Submit(g) PROVE MessagesInv' BY <1>0, <1>12 DEF Submit
<1>13. ASSUME NEW n \in Nodes, NodeAdd(n) \/ NodeCopies(n) \/ NodeStops(n) PROVE MessagesInv'
  BY <1>0, <1>13 DEF NodeAdd, NodeCopies, NodeStops, main
<1>14. ASSUME NEW w \in Workers, WorkerTakes(w) \/ Perform(w) PROVE MessagesInv'
  BY <1>0, <1>14 DEF WorkerTakes, Perform, main
<1> QED BY NextCases, <1>1, <1>4, <1>5, <1>6, <1>7, <1>8, <1>9, <1>10, <1>11, <1>12, <1>13, <1>14

(* A node knows a job from its message until it has replied.               *)
HeldPlaces == {"add", "nodeQ", "worker"}

LEMMA NodeSpecIs == 
  NodeSpecInv <=> \A g \in Subgames, x \in HeldPlaces : At(g, x) => nodeSpec[g] = Now
BY DEF NodeSpecInv, HeldPlaces

(* No job comes to a node but from its mailbox.                            *)
LEMMA HeldBefore ==
  ASSUME PlacesInv, PlacesInv', AllStay \/ \E g \in Subgames : JobMoves(g),
         Stays("req") \/ Stays("add"), NEW k \in Subgames, NEW y \in HeldPlaces, (At(k, y))'
  PROVE  \E x \in HeldPlaces : At(k, x)
<1>1. CASE AllStay BY <1>1 DEF AllStay, Stays, HeldPlaces, Places
<1>2. ASSUME NEW g \in Subgames, JobMoves(g) PROVE \E x \in HeldPlaces : At(k, x)
  <2>1. PICK from \in Places, to \in Places : Moved(g, from, to) BY <1>2, PlaceNames
  <2>2. CASE k # g \/ y \notin {from, to}
    BY <2>1, <2>2 DEF Moved, Stays, HeldPlaces, Places
  <2>3. CASE k = g /\ y = to
    <3>1. ~Moved(g, "req", "add")
      <4>1. ASSUME Moved(g, "req", "add") PROVE FALSE
        <5>1. At(g, "req") /\ (At(g, "add"))' /\ ~(At(g, "req"))' BY <4>1 DEF Moved
        <5>2. ~At(g, "add") BY <5>1, OnePlace DEF Places
        <5> QED BY <5>1, <5>2 DEF Stays
      <4> QED BY <4>1
    <3>2. PICK f \in Places, t \in Places :
            Moved(g, f, t) /\ (t \in HeldPlaces => f \in HeldPlaces)
      BY <1>2, <3>1 DEF JobMoves, Places, HeldPlaces
    <3>3. (At(g, t))' /\ At(g, f) BY <3>2 DEF Moved
    <3>4. t = y
      <4>1. y \in Places BY DEF HeldPlaces, Places
      <4>2. \A a, b \in Places : (At(k, a))' /\ (At(k, b))' => a = b BY DEF PlacesInv
      <4> QED BY <2>3, <3>2, <3>3, <4>1, <4>2
    <3> QED BY <2>3, <3>2, <3>3, <3>4
  <2>4. CASE k = g /\ y = from BY <2>1, <2>4 DEF Moved
  <2> QED BY <2>2, <2>3, <2>4
<1> QED BY <1>1, <1>2

(* While a node has work, it has the weights of this iteration.            *)
LEMMA BusyHasWeight ==
  ASSUME Inv, NEW w \in Workers, NEW g \in Subgames, Works(w, g)
  PROVE  weight[w[1]] = iter
<1>1. At(g, "worker") BY AtWorker DEF Inv, JobsInv
<1>2. step \in Passes BY <1>1, JobOfPass DEF Places
<1>3. w[1] \in Nodes BY Numbers
<1>4. InPass(w[1]) BY <1>2, <1>3 DEF Inv, FitInv, Fits
<1>5. ~Quiet(w[1]) BY DEF Quiet, Works
<1> QED BY <1>4, <1>5 DEF InPass

LEMMA NodeSpecStep == Inv /\ [Next]_vars => NodeSpecInv'
<1> SUFFICES ASSUME Inv, [Next]_vars PROVE NodeSpecInv' OBVIOUS
<1>a. Types /\ JobsInv /\ MainInv /\ NodeSpecInv /\ MessagesInv BY DEF Inv
<1>b. JobsInv' BY <1>a, JobsStep
<1>d. AllStay \/ (\E g \in Subgames : JobMoves(g)) \/ \E next \in Steps : NextStep(next)
  BY <1>a, JobsStep
<1>c. PlacesInv /\ PlacesInv' BY <1>a, <1>b DEF JobsInv
<1>0. ASSUME AllStay \/ \E g \in Subgames : JobMoves(g), Stays("req") \/ Stays("add"),
             UNCHANGED <<step, iter>>,
             \A g \in Subgames, x \in HeldPlaces :
               At(g, x) /\ (\E y \in HeldPlaces : (At(g, y))') => nodeSpec'[g] = nodeSpec[g]
      PROVE  NodeSpecInv'
  <2>1. Now' = Now BY <1>0 DEF Now
  <2>2. ASSUME NEW k \in Subgames, NEW y \in HeldPlaces, (At(k, y))' PROVE nodeSpec'[k] = Now
    <3>1. PICK x \in HeldPlaces : At(k, x) BY <1>0, <1>c, <2>2, HeldBefore
    <3> QED BY <1>0, <1>a, <2>2, <3>1, NodeSpecIs
  <2> QED BY <2>1, <2>2 DEF NodeSpecInv, HeldPlaces
<1>1. ASSUME NEW next \in Steps, NextStep(next) PROVE NodeSpecInv'
  <2>1. UNCHANGED <<nodePc, nodeCur, nodeQ, pc, cur>> BY <1>1 DEF NextStep, nodes, workers
  <2>2. \A x \in HeldPlaces : Stays(x) BY <2>1, StaysIf DEF HeldPlaces
  <2>3. \A g \in Subgames, x \in HeldPlaces : ~At(g, x)
    BY <1>1, <1>a, <1>c, AllDone DEF NextStep, HeldPlaces, Places
  <2>4. \A g \in Subgames, x \in HeldPlaces : ~(At(g, x))' BY <2>2, <2>3 DEF Stays
  <2> QED BY <2>4 DEF NodeSpecInv, HeldPlaces
<1>2. CASE UNCHANGED <<nodeSpec, step, iter>> /\ (UNCHANGED req \/ UNCHANGED <<nodePc, nodeCur>>)
  <2>1. Stays("req") \/ Stays("add") BY <1>2, StaysIf
  <2> QED BY <1>0, <1>1, <1>2, <1>d, <2>1
<1>3. CASE \/ SendToNode \/ AwaitReply \/ SendQuit \/ StopSender \/ SenderTakes \/ SenderSends
           \/ ReceiverStops \/ UNCHANGED vars
  BY <1>2, <1>3 DEF SendToNode, AwaitReply, SendQuit, StopSender, SenderTakes, SenderSends,
                    ReceiverStops, vars, main, nodes
<1>4. ASSUME NEW g \in Subgames, Submit(g) PROVE NodeSpecInv' BY <1>2, <1>4 DEF Submit, nodes
<1>5. ASSUME NEW n \in Nodes, Receive(n) PROVE NodeSpecInv' BY <1>2, <1>5 DEF Receive, main, nodes
<1>6. ASSUME NEW n \in Nodes, NodeReceive(n) PROVE NodeSpecInv'
  <2> DEFINE m == Head(req[n])
  <2>1. UNCHANGED <<step, iter>> BY <1>6 DEF NodeReceive, main
  <2>2. CASE m.tag = "job"
    <3>1. m.g \in Subgames /\ Moved(m.g, "req", "add") BY <1>6, <1>a, <2>2, NodeReceiveMoves
    <3>2. nodeSpec' = [nodeSpec EXCEPT ![m.g] = m.spec] BY <1>6, <2>2 DEF NodeReceive
    <3>3. m.spec = Now
      <4>1. req[n] \in Seq(Messages) /\ req[n] # <<>> /\ JobsSay(req[n], Now)
        BY <1>6, <1>a DEF NodeReceive, Types, MailType, MessagesInv
      <4> QED BY <2>2, <4>1, JobsSayGot
    <3> HIDE DEF m
    <3>4. PICK g \in Subgames : g = m.g BY <3>1
    <3>5. nodeSpec'[g] = Now /\ \A k \in Subgames \ {g} : nodeSpec'[k] = nodeSpec[k]
      BY <1>a, <3>2, <3>3, <3>4 DEF Types, NodesType
    <3>6. \A k \in Subgames \ {g}, x \in HeldPlaces : (At(k, x))' <=> At(k, x)
      BY <3>1, <3>4 DEF Moved, Stays, HeldPlaces, Places
    <3>7. Now' = Now BY <2>1 DEF Now
    <3>8. \A k \in Subgames, x \in HeldPlaces : (At(k, x))' => nodeSpec'[k] = Now
      BY <1>a, <3>5, <3>6, NodeSpecIs
    <3> QED BY <3>7, <3>8 DEF NodeSpecInv, HeldPlaces
  <2>3. CASE m.tag # "job"
    <3>1. AllStay BY <1>6, <1>a, <2>3, NodeReceiveMoves
    <3>2. UNCHANGED nodeSpec BY <1>6, <2>3 DEF NodeReceive
    <3>3. Stays("req") BY <3>1 DEF AllStay, Places
    <3> QED BY <1>0, <2>1, <3>1, <3>2, <3>3
  <2> QED BY <2>2, <2>3
<1>7. ASSUME NEW n \in Nodes, NodeAdd(n) \/ NodeCopies(n) \/ NodeReplies(n) \/ NodeStops(n)
      PROVE  NodeSpecInv'
  BY <1>2, <1>7 DEF NodeAdd, NodeCopies, NodeReplies, NodeStops, main
<1>8. ASSUME NEW w \in Workers, WorkerTakes(w) PROVE NodeSpecInv'
  BY <1>2, <1>8 DEF WorkerTakes, main
<1>9. ASSUME NEW w \in Workers, Perform(w) PROVE NodeSpecInv'
  <2>1. PICK g \in Subgames : g = cur[w] /\ Works(w, g)
    BY <1>9, <1>a DEF Perform, Types, WorkersType, Works, WorkPoints
  <2>2. weight[w[1]] = iter BY <2>1, BusyHasWeight
  <2>3. nodeSpec[g] = Now
    <3>1. At(g, "worker") BY <1>a, <2>1, AtWorker DEF JobsInv
    <3> QED BY <1>a, <3>1 DEF NodeSpecInv
  <2>4. nodeSpec' = nodeSpec
    <3>1. nodeSpec \in [Subgames -> JobSpecs] BY <1>a DEF Types, NodesType
    <3>2. [nodeSpec[g] EXCEPT !.iter = iter] = nodeSpec[g] BY <2>3 DEF Now
    <3>3. \/ UNCHANGED nodeSpec
          \/ nodeSpec' = [nodeSpec EXCEPT ![g] = [nodeSpec[g] EXCEPT !.iter = iter]]
      BY <1>9, <2>1, <2>2, <3>1 DEF Perform
    <3> QED BY <3>1, <3>2, <3>3
  <2>5. UNCHANGED <<step, iter, req>> BY <1>9 DEF Perform, main
  <2> QED BY <1>2, <2>4, <2>5
<1>10. ASSUME NEW w \in Workers, WorkerReplies(w) PROVE NodeSpecInv'
  <2>1. PICK g \in Subgames : g = cur[w] /\ Moved(g, "worker", "reply")
    BY <1>10, <1>a, WorkerRepliesMoves
  <2>2. JobMoves(g) BY <2>1 DEF JobMoves
  <2>3. \A k \in Subgames \ {g} : nodeSpec'[k] = nodeSpec[k]
    BY <1>10, <1>a, <2>1 DEF WorkerReplies, Types, NodesType
  <2>4. UNCHANGED <<step, iter, req>> BY <1>10 DEF WorkerReplies, main
  <2>5. \A y \in HeldPlaces : ~(At(g, y))'
    <3>1. (At(g, "reply"))' BY <2>1 DEF Moved
    <3>2. \A a, b \in Places : (At(g, a))' /\ (At(g, b))' => a = b BY <1>c DEF PlacesInv
    <3> QED BY <3>1, <3>2 DEF HeldPlaces, Places
  <2>6. Stays("req") BY <2>4, StaysIf
  <2>7. \A k \in Subgames, x \in HeldPlaces :
          At(k, x) /\ (\E y \in HeldPlaces : (At(k, y))') => nodeSpec'[k] = nodeSpec[k]
    BY <2>3, <2>5
  <2> QED BY <1>0, <2>2, <2>4, <2>6, <2>7
<1> QED BY NextCases, <1>1, <1>3, <1>4, <1>5, <1>6, <1>7, <1>8, <1>9, <1>10

-----------------------------------------------------------------------------
(* The order of what main does *)

LEMMA InitInv == Init => Inv
<1> SUFFICES ASSUME Init PROVE Inv OBVIOUS
<1>1. JobsInv BY JobsInit
<1>2. MainType /\ MainInv /\ ~(step \in Passes \cup Requests \cup {"iterstart", "quit"})
  BY Numbers DEF Init, MainType, MainInv, Steps, Passes, Requests
<1>3. ServerType /\ MailType
  <2>1. Idle \in JobSpecs BY DEF Idle, JobSpecs
  <2>2. IsQueue(<<>>) BY Numbers DEF IsQueue
  <2>3. ServerType
    <3>1. remoteStats \in [Nodes -> StatsOf]
      <4>1. 0 \in 0 .. 1 OBVIOUS
      <4>2. <<0, FALSE>> \in StatsOf BY <4>1, Zenon DEF StatsOf
      <4> QED BY <4>2 DEF Init
    <3>2. spec \in [Subgames -> JobSpecs] /\ finished \in [Subgames -> Nat] BY <2>1 DEF Init
    <3> QED BY <2>2, <3>1, <3>2, Numbers DEF Init, ServerType
  <2>4. MailType BY Numbers DEF Init, MailType
  <2> QED BY <2>3, <2>4
<1>4. NodesType /\ WorkersType
  <2>1. Idle \in JobSpecs BY DEF Idle, JobSpecs
  <2> QED BY <2>1, Numbers DEF Init, NodesType, NodePoints, WorkersType, WorkPoints, Indices
<1>5. SpecInv /\ MessagesInv BY DEF Init, SpecInv, MessagesInv, JobsSay
<1>6. NodeSpecInv
  <2>1. \A g \in Subgames : At(g, "idle") BY DEF Init, At
  <2> QED BY <1>1, <2>1, OnePlace DEF NodeSpecInv, JobsInv, Places
<1>7. QuitInv
  <2>1. Range(<<>>) = {} BY DEF Range
  <2> QED BY <2>1 DEF Init, QuitInv
<1>8. FitInv BY <1>2 DEF Init, FitInv, Fits, Rest, Told
<1>9. RepliesCount /\ PermitsCount
  BY <1>2 DEF Init, RepliesCount, PermitsCount, Requests
<1> QED BY <1>1, <1>2, <1>3, <1>4, <1>5, <1>6, <1>7, <1>8, <1>9 DEF Inv, Types

LEMMA MainInvStep == Inv /\ [Next]_vars => MainInv'
<1> SUFFICES ASSUME Inv, [Next]_vars PROVE MainInv' OBVIOUS
<1>a. MainType /\ MainInv BY DEF Inv, Types
<1>0. CASE UNCHANGED <<step, sent, waited, jobs>> BY <1>0, <1>a DEF MainInv
<1>1. ASSUME NEW next \in Steps, NextStep(next) PROVE MainInv'
  <2>1. step' = next /\ sent' = 0 /\ waited' = 0 BY <1>1 DEF NextStep
  <2>2. next \notin Passes => jobs' = {} BY <1>1 DEF NextStep, Passes
  <2> QED BY <2>1, <2>2, Numbers DEF MainInv
<1>2. CASE SendToNode
  <2>1. sent \in Nat /\ sent + 1 <= NumNodes /\ sent' = sent + 1 /\ UNCHANGED <<step, waited, jobs>>
    BY <1>2, <1>a, Numbers DEF SendToNode, MainType
  <2>2. step \in Requests \cup {"iterstart"} BY <1>2 DEF SendToNode
  <2> QED BY <1>a, <2>1, <2>2, Numbers DEF MainInv, Passes, Requests
<1>3. CASE AwaitReply
  <2>1. waited + 1 <= NumNodes /\ waited' = waited + 1 /\ UNCHANGED <<step, sent, jobs>>
        /\ step \in Requests
    BY <1>3, <1>a, Numbers DEF AwaitReply, MainType
  <2> QED BY <1>a, <2>1 DEF MainInv, Requests
<1>4. CASE SendQuit
  <2>1. sent + 1 <= NumNodes + 1 /\ sent' = sent + 1 /\ UNCHANGED <<step, waited, jobs>>
        /\ step = "quit"
    BY <1>4, <1>a, Numbers DEF SendQuit, Ranks, MainType
  <2> QED BY <1>a, <2>1 DEF MainInv, Requests, Passes
<1>5. CASE StopSender
  <2>1. waited' = 1 /\ UNCHANGED <<step, sent, jobs>> /\ step = "quit" BY <1>5 DEF StopSender
  <2> QED BY <1>a, <2>1, Numbers DEF MainInv, Requests, Passes
<1>6. ASSUME NEW g \in Subgames, Submit(g) PROVE MainInv' BY <1>0, <1>6 DEF Submit
<1>7. CASE SenderTakes \/ SenderSends \/ ReceiverStops \/ UNCHANGED vars
  BY <1>0, <1>7 DEF SenderTakes, SenderSends, ReceiverStops, main, vars
<1>8. ASSUME NEW n \in Nodes, Receive(n) PROVE MainInv' BY <1>0, <1>8 DEF Receive, main
<1>9. ASSUME NEW n \in Nodes,
             NodeReceive(n) \/ NodeAdd(n) \/ NodeCopies(n) \/ NodeReplies(n) \/ NodeStops(n)
      PROVE  MainInv'
  BY <1>0, <1>9 DEF NodeReceive, NodeAdd, NodeCopies, NodeReplies, NodeStops, main
<1>10. ASSUME NEW w \in Workers, WorkerTakes(w) \/ Perform(w) \/ WorkerReplies(w) PROVE MainInv'
  BY <1>0, <1>10 DEF WorkerTakes, Perform, WorkerReplies, main
<1> QED BY NextCases, <1>1, <1>2, <1>3, <1>4, <1>5, <1>6, <1>7, <1>8, <1>9, <1>10

(* A node stops its workers only when main has turned to the end.          *)
LEMMA NodeAtQuit ==
  ASSUME Inv, NEW n \in Nodes, nodePc[n] = "quit"
  PROVE  step = "quit"
<1>1. Fits(n) /\ step \in Steps \cup {"start"} BY DEF Inv, FitInv, Types, MainType
<1> QED BY <1>1 DEF Fits, Rest, InRequest, Unasked, Asked, Serving, Answered, Served, InPass,
                    Steps, Passes, Requests

LEMMA QuitInvStep == Inv /\ [Next]_vars => QuitInv'
<1> SUFFICES ASSUME Inv, [Next]_vars PROVE QuitInv' OBVIOUS
<1> USE Numbers DEF Inv
<1>a. Types /\ QuitInv OBVIOUS
<1>0. CASE UNCHANGED <<step, receiving, workQ, sending, nodeQ>> BY <1>0, <1>a DEF QuitInv
<1>1. ASSUME NEW next \in Steps, NextStep(next) PROVE QuitInv'
  <2>1. step # "quit" BY <1>1, ScheduleSteps DEF NextStep, Types, MainType
  <2> QED BY <1>1, <1>a, <2>1 DEF NextStep, nodes, QuitInv
<1>2. CASE SendToNode \/ AwaitReply
  BY <1>0, <1>2 DEF SendToNode, AwaitReply, nodes
<1>3. CASE SendQuit \/ StopSender
  BY <1>3 DEF SendQuit, StopSender, QuitInv
<1>4. ASSUME NEW g \in Subgames, Submit(g) PROVE QuitInv'
  <2>1. g \in Indices /\ workQ \in Seq(Indices) /\ workQ' = Append(workQ, g) /\ g # Quit
        /\ UNCHANGED <<step, receiving, sending, nodeQ>>
    BY <1>4 DEF Submit, nodes, Types, ServerType, IsQueue, Indices
  <2>2. Range(workQ') = Range(workQ) \cup {g} BY <2>1, Appended
  <2> QED BY <1>a, <2>1, <2>2 DEF QuitInv
<1>5. CASE SenderTakes
  <2>1. workQ \in Seq(Indices) /\ workQ # <<>> /\ workQ' = Tail(workQ) /\ sending' = {Head(workQ)}
        /\ UNCHANGED <<step, receiving, nodeQ>>
    BY <1>5 DEF SenderTakes, main, nodes, Types, ServerType, IsQueue
  <2>2. Range(workQ) = Range(workQ') \cup {Head(workQ)} BY <2>1, Taken
  <2> QED BY <1>a, <2>1, <2>2 DEF QuitInv
<1>6. CASE SenderSends BY <1>6, <1>a DEF SenderSends, main, nodes, QuitInv
<1>7. CASE ReceiverStops BY <1>7, <1>a DEF ReceiverStops, QuitInv, main
<1>8. ASSUME NEW n \in Nodes, Receive(n) PROVE QuitInv' BY <1>0, <1>8 DEF Receive, main, nodes
<1>9. ASSUME NEW n \in Nodes, NodeReceive(n) \/ NodeCopies(n) \/ NodeReplies(n) PROVE QuitInv'
  BY <1>0, <1>9 DEF NodeReceive, NodeCopies, NodeReplies, main, server
<1>10. ASSUME NEW n \in Nodes, NodeAdd(n) PROVE QuitInv'
  <2>1. PICK g \in Subgames : g = nodeCur[n] BY DEF Types, NodesType
  <2>2. /\ nodeQ[n] \in Seq(Indices) /\ g \in Indices /\ nodeQ'[n] = Append(nodeQ[n], g) /\ g # Quit
        /\ \A k \in Nodes \ {n} : nodeQ'[k] = nodeQ[k]
        /\ UNCHANGED <<step, receiving, workQ, sending>>
    BY <1>10, <2>1 DEF NodeAdd, main, server, Types, NodesType, Indices
  <2>3. Range(nodeQ'[n]) = Range(nodeQ[n]) \cup {g} BY <2>2, Appended
  <2> QED BY <1>a, <2>2, <2>3 DEF QuitInv
<1>11. ASSUME NEW n \in Nodes, NodeStops(n) PROVE QuitInv'
  <2>1. step = "quit" BY <1>11, NodeAtQuit DEF NodeStops
  <2>2. UNCHANGED step BY <1>11 DEF NodeStops, main
  <2> QED BY <2>1, <2>2 DEF QuitInv
<1>12. ASSUME NEW w \in Workers, WorkerTakes(w) PROVE QuitInv'
  <2>1. PICK n \in Nodes : n = w[1] OBVIOUS
  <2>2. /\ nodeQ[n] \in Seq(Indices) /\ nodeQ[n] # <<>> /\ nodeQ'[n] = Tail(nodeQ[n])
        /\ \A k \in Nodes \ {n} : nodeQ'[k] = nodeQ[k]
        /\ UNCHANGED <<step, receiving, workQ, sending>>
    BY <1>12, <2>1 DEF WorkerTakes, main, server, Types, NodesType
  <2>3. Range(nodeQ[n]) = Range(nodeQ'[n]) \cup {Head(nodeQ[n])} BY <2>2, Taken
  <2> QED BY <1>a, <2>2, <2>3 DEF QuitInv
<1>13. ASSUME NEW w \in Workers, Perform(w) \/ WorkerReplies(w) PROVE QuitInv'
  BY <1>0, <1>13 DEF Perform, WorkerReplies, main, server
<1>14. CASE UNCHANGED vars BY <1>0, <1>14 DEF vars, main, server, nodes
<1> QED BY NextCases, <1>1, <1>2, <1>3, <1>4, <1>5, <1>6, <1>7, <1>8, <1>9, <1>10, <1>11, <1>12,
           <1>13, <1>14

-----------------------------------------------------------------------------
(* What main has waited for when it goes on *)

LEMMA NothingQueued == ASSUME NEW S, NEW q \in Seq(S), Range(q) = {} PROVE q = <<>>
<1>1. DOMAIN q = 1 .. Len(q) /\ Len(q) \in Nat OBVIOUS
<1>2. Len(q) = 0
  <2>1. Len(q) # 0 => 1 \in DOMAIN q BY <1>1
  <2> QED BY <2>1 DEF Range
<1> QED BY <1>2

(* Where no job is on its way, no queue and no worker has one.             *)
LEMMA AtRest ==
  ASSUME Types, JobsInv, \A g \in Subgames, x \in Places \ {"idle", "done"} : ~At(g, x)
  PROVE  /\ sending \subseteq {Quit} /\ Range(workQ) \subseteq {Quit}
         /\ \A w \in Workers : pc[w] \notin WorkPoints
         /\ \A n \in Nodes : /\ nodePc[n] # "add" /\ Range(nodeQ[n]) \subseteq {Quit}
                             /\ \A i \in DOMAIN req[n] : req[n][i].tag # "job"
                             /\ \A i \in DOMAIN reply[n] : reply[n][i].tag # "job"
<1>1. \A g \in Subgames : /\ ~At(g, "sending") /\ ~At(g, "workQ") /\ ~At(g, "worker")
                          /\ ~At(g, "req") /\ ~At(g, "reply") /\ ~At(g, "add") /\ ~At(g, "nodeQ")
  BY DEF Places
<1>2. sending \subseteq {Quit} BY <1>1 DEF At, Types, ServerType, Indices
<1>3. Range(workQ) \subseteq {Quit}
  <2>1. workQ \in Seq(Indices) BY DEF Types, ServerType, IsQueue
  <2>2. Range(workQ) \subseteq Indices BY <2>1 DEF Range
  <2> QED BY <1>1, <2>2 DEF At, Indices
<1>4. \A w \in Workers : pc[w] \notin WorkPoints
  <2>1. \A w \in Workers : pc[w] \in WorkPoints => cur[w] \in Subgames BY DEF Types, WorkersType
  <2> QED BY <1>1, <2>1 DEF At, Works
<1>5. ASSUME NEW n \in Nodes PROVE nodePc[n] # "add" /\ Range(nodeQ[n]) \subseteq {Quit}
  <2>1. nodePc[n] # "add" BY <1>1 DEF At, JobsInv, AddInv, Types, NodesType
  <2>2. nodeQ[n] \in Seq(Indices) BY DEF Types, NodesType
  <2>3. Range(nodeQ[n]) \subseteq Indices BY <2>2 DEF Range
  <2> QED BY <1>1, <2>1, <2>3, AtNodeQ DEF JobsInv, Indices
<1> QED BY <1>1, <1>2, <1>3, <1>4, <1>5, NoJobMail

LEMMA QuietNode ==
  ASSUME Inv, NEW n \in Nodes, step # "quit",
         \A g \in Subgames, x \in Places \ {"idle", "done"} : ~At(g, x)
  PROVE  /\ nodeQ[n] = <<>> /\ ~AtWork(n)
         /\ nodePc[n] = "receive" => Quiet(n)
<1>1. Types /\ JobsInv /\ QuitInv BY DEF Inv
<1>2. Range(nodeQ[n]) = {} BY <1>1, AtRest DEF QuitInv
<1>3. nodeQ[n] \in Seq(Indices) BY <1>1 DEF Types, NodesType
<1>4. nodeQ[n] = <<>> BY <1>2, <1>3, NothingQueued
<1>5. \A w \in Workers : pc[w] \notin WorkPoints BY <1>1, AtRest
<1> QED BY <1>4, <1>5 DEF AtWork, Quiet, WorkPoints

LEMMA NoJobs ==
  ASSUME Inv, step \notin Passes
  PROVE  \A g \in Subgames, x \in Places \ {"idle", "done"} : ~At(g, x)
BY JobOfPass

LEMMA FiniteNodes ==
  /\ IsFiniteSet(Nodes) /\ Cardinality(Nodes) = NumNodes
  /\ IsFiniteSet(Outstanding) /\ Cardinality(Outstanding) \in Nat
  /\ Cardinality(Outstanding) <= NumNodes
<1>1. IsFiniteSet(Nodes) /\ Cardinality(Nodes) = NumNodes
  <2>1. 0 \in Int /\ NumNodes - 1 \in Int /\ (NumNodes - 1) - 0 + 1 = NumNodes
        /\ ~(0 > NumNodes - 1)
    BY Numbers
  <2> QED BY <2>1, FS_Interval DEF Nodes
<1>2. Outstanding \subseteq Nodes BY DEF Outstanding
<1>3. IsFiniteSet(Outstanding) /\ Cardinality(Outstanding) <= Cardinality(Nodes)
  BY <1>1, <1>2, FS_Subset
<1>4. Cardinality(Outstanding) \in Nat BY <1>3, FS_CardinalityType
<1> QED BY <1>1, <1>3, <1>4

(* All replies are in: nothing is posted and no node has a request left.   *)
LEMMA AllReplied ==
  ASSUME Inv, step \in Requests, waited = NumNodes
  PROVE  sent = NumNodes /\ mpiSem = 0 /\ Outstanding = {}
<1>1. sent \in Nat /\ sent <= NumNodes /\ mpiSem \in Nat /\ NumNodes \in Nat
  BY Numbers DEF Inv, Types, MainType, ServerType, MainInv
<1>2. waited + mpiSem + Cardinality(Outstanding) = sent BY DEF Inv, RepliesCount
<1>3. Cardinality(Outstanding) \in Nat BY FiniteNodes
<1>4. sent = NumNodes /\ mpiSem = 0 /\ Cardinality(Outstanding) = 0 BY <1>1, <1>2, <1>3
<1> QED BY <1>4, FiniteNodes, FS_EmptySet

LEMMA StepEnds ==
  ASSUME Inv, StepDone, step # "quit", NEW n \in Nodes
  PROVE  /\ Rest(n) /\ Current(n)
         /\ step \notin Passes \cup {"iterstart"} => Told(n)
         /\ step \in Requests => Kept(n)
         /\ nodeQ[n] = <<>> /\ \A w \in Workers : w[1] = n => pc[w] \notin WorkPoints
<1>a. Types /\ JobsInv /\ MainInv /\ PlacesInv /\ Fits(n) BY DEF Inv, JobsInv, FitInv
<1>b. step \in Steps \cup {"start"} BY <1>a DEF Types, MainType
<1>c. \A g \in Subgames, x \in Places \ {"idle", "done"} : ~At(g, x) BY <1>a, AllDone
<1>1. nodeQ[n] = <<>> /\ \A w \in Workers : w[1] = n => pc[w] \notin WorkPoints
  BY <1>a, <1>c, AtRest, QuietNode
<1>2. CASE step = "start"
  BY <1>a, <1>1, <1>2 DEF Fits, Current, Requests
<1>3. CASE step = "iterstart"
  <2>1. n < sent BY <1>3, StepDoneIs, Numbers DEF Nodes
  <2> QED BY <1>a, <1>1, <1>3, <2>1 DEF Fits, Requests
<1>4. CASE step \in Passes
  <2>1. InPass(n) BY <1>a, <1>4 DEF Fits
  <2>2. /\ nodePc[n] # "add"
        /\ \A i \in DOMAIN req[n] : req[n][i].tag # "job"
        /\ \A i \in DOMAIN reply[n] : reply[n][i].tag # "job"
    BY <1>a, <1>c, AtRest
  <2>3. req[n] \in Seq(Messages) /\ reply[n] \in Seq(Replies) BY <1>a DEF Types, MailType
  <2>4. reply[n] = <<>>
    <3>1. Range(reply[n]) = {} BY <2>1, <2>2 DEF InPass, Range
    <3> QED BY <2>3, <3>1, NothingQueued
  <2>5. Current(n)
    <3>1. CASE req[n] = <<>> BY <2>1, <3>1 DEF InPass, Current, Told
    <3>2. CASE req[n] # <<>>
      <4>1. DOMAIN req[n] = 1 .. Len(req[n]) /\ Len(req[n]) \in Nat /\ Len(req[n]) # 0
        BY <2>3, <3>2
      <4>2. Len(req[n]) = 1
        <5>1. ASSUME Len(req[n]) # 1 PROVE FALSE
          <6>0. \A k \in Nat : k # 0 /\ k # 1 => 2 <= k OBVIOUS
          <6>1. 2 <= Len(req[n]) BY <4>1, <5>1, <6>0
          <6>2. \A k \in Nat : 2 <= k => 2 \in 1 .. k OBVIOUS
          <6>3. 2 \in DOMAIN req[n] /\ 2 # 1 BY <4>1, <6>1, <6>2
          <6> QED BY <2>1, <2>2, <6>3 DEF InPass
        <5> QED BY <5>1
      <4>3. 1 \in DOMAIN req[n] BY <4>1
      <4>4. req[n][1] = Start BY <2>1, <2>2, <3>2, <4>3 DEF InPass
      <4>5. req[n] = <<Start>> BY <2>3, <4>2, <4>4
      <4> QED BY <4>5 DEF Current
    <3> QED BY <3>1, <3>2
  <2> QED BY <1>1, <1>4, <2>1, <2>2, <2>4, <2>5 DEF InPass, Rest, Passes, Requests
<1>5. CASE step \in Requests
  <2>1. sent = NumNodes /\ Outstanding = {} BY <1>5, StepDoneIs, AllReplied
  <2>2. n < sent /\ n \in Int /\ ~(n >= sent) BY <2>1, Numbers DEF Nodes
  <2>3. req[n] = <<>> /\ nodePc[n] = "receive" /\ reply[n] = <<>>
    BY <2>1, <2>2 DEF Outstanding
  <2>4. InRequest(n) BY <1>a, <1>5 DEF Fits
  <2>5. ~Unasked(n) /\ ~Answered(n) BY <2>2, <2>3 DEF Unasked, Answered
  <2>6. ~Serving(n) BY <1>5, <2>3 DEF Serving, Requests
  <2>7. ~Asked(n) BY <2>3 DEF Asked
  <2>8. Served(n) BY <2>4, <2>5, <2>6, <2>7 DEF InRequest
  <2> QED BY <1>1, <2>8 DEF Served, Current
<1> QED BY <1>b, <1>2, <1>3, <1>4, <1>5 DEF Steps

-----------------------------------------------------------------------------
(* Each node is where main expects it to be *)

LEMMA NodeFacts ==
  ASSUME Inv, NEW n \in Nodes
  PROVE  /\ nodePc[n] \in Requests \cup {"loaded", "dumped"} => step \in Requests /\ Serving(n)
         /\ nodePc[n] = "add" => step \in Passes /\ InPass(n) /\ weight[n] = iter
         /\ nodePc[n] \in {"quit", "gone"} => step = "quit" /\ AtEnd(n)
         /\ reply[n] # <<>> => (step \in Passes /\ InPass(n)) \/ (step \in Requests /\ Answered(n))
         /\ step \in Passes => InPass(n)
         /\ step \in Requests => InRequest(n)
<1>1. Fits(n) /\ step \in Steps \cup {"start"} BY DEF Inv, FitInv, Types, MainType
<1>2. CASE step = "start" BY <1>1, <1>2 DEF Fits, Rest, Requests, Passes
<1>3. CASE step = "iterstart" BY <1>1, <1>3 DEF Fits, Rest, Requests, Passes
<1>4. CASE step \in Requests
  <2>1. InRequest(n) BY <1>1, <1>4 DEF Fits
  <2>2. step \notin Passes /\ step # "quit" BY <1>4 DEF Requests, Passes
  <2>3. nodePc[n] # "receive" => Serving(n)
    BY <2>1 DEF InRequest, Unasked, Asked, Answered, Served, Rest
  <2>4. reply[n] # <<>> => Answered(n)
    BY <2>1 DEF InRequest, Unasked, Asked, Serving, Served, Rest
  <2>5. nodePc[n] \notin {"add", "quit", "gone"}
    BY <1>4, <2>1 DEF InRequest, Unasked, Asked, Serving, Answered, Served, Rest, Requests
  <2>6. "receive" \notin Requests BY DEF Requests
  <2> QED BY <1>4, <2>1, <2>2, <2>3, <2>4, <2>5, <2>6
<1>5. CASE step \in Passes
  <2>1. InPass(n) BY <1>1, <1>5 DEF Fits
  <2>2. step \notin Requests /\ step # "quit" BY <1>5 DEF Requests, Passes
  <2>3. nodePc[n] = "add" => weight[n] = iter BY <2>1 DEF InPass, Quiet
  <2> QED BY <1>5, <2>1, <2>2, <2>3 DEF InPass, Requests
<1>6. CASE step = "quit" BY <1>1, <1>6 DEF Fits, AtEnd, Requests, Passes
<1> QED BY <1>1, <1>2, <1>3, <1>4, <1>5, <1>6 DEF Steps

(* What a step leaves alone of a node, and of what main asked of it.       *)
NodeStays(n) ==
  /\ nodePc'[n] = nodePc[n] /\ req'[n] = req[n] /\ reply'[n] = reply[n] /\ weight'[n] = weight[n]
  /\ step \in Requests => same'[n] = same[n] /\ remoteStats'[n] = remoteStats[n]
  /\ step \in Passes /\ Quiet(n) => Quiet(n)'

MainStays(n) == /\ UNCHANGED <<step, iter>>
                /\ (n < sent)' <=> (n < sent)
                /\ (n >= sent)' <=> (n >= sent)

LEMMA FitsStays ==
  ASSUME Inv, NEW n \in Nodes, NodeStays(n), UNCHANGED <<step, iter>>,
         step # "quit" => MainStays(n)
  PROVE  Fits(n)'
<1>1. Fits(n) /\ step \in Steps \cup {"start"} BY DEF Inv, FitInv, Types, MainType
<1> USE DEF NodeStays, MainStays
<1>2. CASE step = "start" BY <1>1, <1>2 DEF Fits, Rest, Told, Requests, Passes
<1>3. CASE step = "iterstart"
  BY <1>1, <1>3 DEF Fits, Rest, Told, Current, Start, Requests, Passes
<1>4. CASE step \in Requests
  <2>1. InRequest(n) BY <1>1, <1>4 DEF Fits
  <2>2. step \notin Passes /\ step \notin {"quit", "start", "iterstart"}
    BY <1>4 DEF Requests, Passes
  <2>3. /\ Rest(n)' <=> Rest(n)
        /\ Told(n)' <=> Told(n)
        /\ Current(n)' <=> Current(n)
        /\ Kept(n)' <=> Kept(n)
        /\ Ask' = Ask /\ Start' = Start /\ Reply' = Reply
    BY <1>4 DEF Rest, Told, Current, Kept, Ask, Start, Reply
  <2>4. (Unasked(n) => Unasked(n)') /\ (Served(n) => Served(n)')
    BY <1>4, <2>2, <2>3 DEF Unasked, Served
  <2>5. Asked(n) => Asked(n)' BY <1>4, <2>2, <2>3 DEF Asked
  <2>6. Serving(n) => Serving(n)' BY <1>4, <2>2, <2>3 DEF Serving
  <2>7. Answered(n) => Answered(n)' BY <1>4, <2>2, <2>3 DEF Answered
  <2>8. InRequest(n)' BY <2>1, <2>4, <2>5, <2>6, <2>7 DEF InRequest
  <2> QED BY <1>4, <2>2, <2>8 DEF Fits
<1>5. CASE step \in Passes
  <2>1. InPass(n) BY <1>1, <1>5 DEF Fits
  <2>2. InPass(n)' BY <1>5, <2>1 DEF InPass, Start
  <2> QED BY <1>5, <2>2 DEF Fits, Passes, Requests
<1>6. CASE step = "quit" BY <1>1, <1>6 DEF Fits, AtEnd, Requests, Passes
<1> QED BY <1>1, <1>2, <1>3, <1>4, <1>5, <1>6 DEF Steps

LEMMA FitNext == ASSUME Inv, NEW next \in Steps, NextStep(next) PROVE FitInv'
<1> SUFFICES ASSUME NEW n \in Nodes PROVE Fits(n)' BY DEF FitInv
<1>1. /\ step \in Steps \cup {"start"} /\ next \in Schedule[step] /\ StepDone
      /\ step' = next /\ sent' = 0
      /\ UNCHANGED <<req, reply, weight, nodePc, nodeQ, pc>>
      /\ next # "iterstart" => UNCHANGED iter
  BY DEF NextStep, nodes, workers, Inv, Types, MainType
<1>2. /\ step # "quit" /\ next # "start"
      /\ next = "iterstart" \/ next = "quit" => step \in {"start", "load", "stats", "dump"}
  BY <1>1, ScheduleSteps
<1>3. /\ Rest(n) /\ Current(n)
      /\ step \notin Passes \cup {"iterstart"} => Told(n)
      /\ nodeQ[n] = <<>> /\ \A w \in Workers : w[1] = n => pc[w] \notin WorkPoints
  BY <1>1, <1>2, StepEnds
<1>4. n \in Nat /\ n >= 0 /\ ~(n < 0) BY Numbers DEF Nodes
<1>5. Rest(n)' BY <1>1, <1>3 DEF Rest
<1>6. CASE next = "iterstart"
  <2>1. req'[n] = <<>> BY <1>1, <1>2, <1>3, <1>6 DEF Told, Passes
  <2> QED BY <1>1, <1>4, <1>5, <1>6, <2>1 DEF Fits, Passes, Requests
<1>7. CASE next = "quit"
  <2>1. req'[n] = <<>> BY <1>1, <1>2, <1>3, <1>7 DEF Told, Passes
  <2>2. AtEnd(n)' BY <1>5, <2>1 DEF AtEnd, Rest
  <2> QED BY <1>1, <1>7, <2>2 DEF Fits, Passes, Requests
<1>8. CASE next \in Requests
  <2>1. Current(n)' BY <1>1, <1>3, <1>8 DEF Current, Told, Start, Requests
  <2>2. Unasked(n)' BY <1>1, <1>4, <1>5, <2>1 DEF Unasked
  <2> QED BY <1>1, <1>8, <2>2 DEF Fits, InRequest, Passes, Requests
<1>9. CASE next \in Passes
  <2>1. UNCHANGED iter /\ Start' = Start BY <1>1, <1>9 DEF Passes, Start
  <2>2. Quiet(n)' BY <1>1, <1>3, <1>5 DEF Quiet, Rest
  <2>3. InPass(n)'
    <3>1. CASE Told(n) BY <1>1, <1>5, <2>1, <3>1 DEF InPass, Rest, Told
    <3>2. CASE req[n] = <<Start>>
      <4>1. /\ req'[n] = <<Start>>
            /\ DOMAIN <<Start>> = {1} /\ <<Start>>[1] = Start /\ <<Start>> # <<>>
        BY <1>1, <3>2
      <4> QED BY <1>1, <1>5, <2>1, <2>2, <4>1 DEF InPass, Rest
    <3> QED BY <1>3, <3>1, <3>2 DEF Current
  <2> QED BY <1>1, <1>9, <2>3 DEF Fits, Passes, Requests
<1> QED BY <1>1, <1>2, <1>6, <1>7, <1>8, <1>9 DEF Steps

LEMMA ShortQueues ==
  /\ \A x : Append(<<>>, x) = <<x>> /\ Tail(<<x>>) = <<>> /\ Head(<<x>>) = x
  /\ \A x, y : /\ Append(<<x>>, y) = <<x, y>>
               /\ Tail(<<x, y>>) = <<y>> /\ Head(<<x, y>>) = x
<1>1. \A x : Append(<<>>, x) = <<x>> /\ Tail(<<x>>) = <<>> /\ Head(<<x>>) = x OBVIOUS
<1>2. ASSUME NEW x, NEW y PROVE Append(<<x>>, y) = <<x, y>>
  <2> DEFINE q == Append(<<x>>, y)
  <2>1. <<x>> \in Seq({x, y}) /\ Len(<<x>>) = 1 /\ <<x>>[1] = x OBVIOUS
  <2>2. q \in Seq({x, y}) /\ Len(q) = 2 /\ q[1] = x /\ q[2] = y
    BY <2>1, AppendedAt
  <2> HIDE DEF q
  <2>3. q = <<x, y>> BY <2>2
  <2> QED BY <2>3 DEF q
<1>3. \A x, y : Tail(<<x, y>>) = <<y>> /\ Head(<<x, y>>) = x OBVIOUS
<1> QED BY <1>1, <1>2, <1>3

LEMMA FitSendToNode == ASSUME Inv, SendToNode PROVE FitInv'
<1>0. PICK k \in Nodes : k = sent
  BY Numbers DEF SendToNode, Inv, Types, MainType, Nodes
<1>1. /\ sent < NumNodes /\ sent \in Nat /\ sent' = sent + 1
      /\ step \in Requests \cup {"iterstart"}
      /\ req' = [req EXCEPT ![k] = Append(req[k], Ask)]
  BY <1>0 DEF SendToNode, Send, Inv, Types, MainType, MailType, Ask
<1>2. UNCHANGED <<step, iter, reply, weight, nodePc, nodeQ, pc, same, remoteStats>>
  BY <1>1 DEF SendToNode, nodes, workers
<1>3. req'[k] = Append(req[k], Ask) /\ \A n \in Nodes \ {k} : req'[n] = req[n]
  BY <1>1 DEF Inv, Types, MailType
<1>4. ASSUME NEW n \in Nodes, n # k PROVE Fits(n)'
  <2>1. MainStays(n) BY <1>0, <1>1, <1>2, <1>4, Numbers DEF MainStays, Nodes
  <2>2. NodeStays(n)
    <3>1. Quiet(n)' <=> Quiet(n) BY <1>2 DEF Quiet
    <3> QED BY <1>2, <1>3, <1>4, <3>1 DEF NodeStays
  <2> QED BY <1>2, <2>1, <2>2, FitsStays
<1>5. Fits(k)'
  <2>1. ~(k < sent) /\ k < sent' /\ ~(k >= sent') BY <1>0, <1>1
  <2>2. Fits(k) BY DEF Inv, FitInv
  <2>3. Start' = Start /\ Ask' = Ask /\ ((Rest(k))' <=> Rest(k)) BY <1>2 DEF Start, Ask, Rest
  <2>4. CASE step = "iterstart"
    <3>1. Rest(k) /\ req[k] = <<>> BY <2>1, <2>2, <2>4 DEF Fits
    <3>2. req'[k] = <<Start>> BY <1>3, <2>4, <3>1 DEF Start, Ask
    <3>3. Current(k)' BY <2>3, <3>2 DEF Current
    <3> QED BY <1>2, <2>1, <2>3, <2>4, <3>1, <3>3 DEF Fits, Passes, Requests
  <2>5. CASE step \in Requests
    <3>1. InRequest(k) BY <2>2, <2>5 DEF Fits
    <3>2. Rest(k) /\ Current(k)
      BY <2>1, <3>1 DEF InRequest, Unasked, Asked, Serving, Answered, Served
    <3>3. (weight[k] = iter /\ req'[k] = <<Ask>>) \/ req'[k] = <<Start, Ask>>
      BY <1>3, <3>2, ShortQueues DEF Current, Told
    <3>4. (weight'[k] = iter' /\ req'[k] = <<Ask'>>) \/ req'[k] = <<Start', Ask'>>
      BY <1>2, <2>3, <3>3
    <3>5. k < sent' /\ (Rest(k))' BY <2>1, <2>3, <3>2
    <3>6. Asked(k)' BY <3>4, <3>5, Zenon DEF Asked
    <3> QED BY <1>2, <2>5, <3>6 DEF Fits, InRequest, Passes, Requests
  <2> QED BY <1>1, <2>4, <2>5
<1> QED BY <1>4, <1>5 DEF FitInv

(* What an appended message, or the tail, has at its places.               *)
LEMMA AllAppended ==
  ASSUME NEW S, NEW q \in Seq(S), NEW x \in S
  PROVE  /\ Append(q, x) # <<>> /\ DOMAIN q = 1 .. Len(q) /\ Len(q) \in Nat
         /\ \A i \in DOMAIN Append(q, x) : (i \in DOMAIN q /\ Append(q, x)[i] = q[i])
                                           \/ Append(q, x)[i] = x
         /\ q # <<>> => 1 \in DOMAIN q /\ Append(q, x)[1] = q[1]
         /\ q = <<>> => Append(q, x)[1] = x
<1>1. /\ DOMAIN Append(q, x) = 1 .. Len(q) + 1 /\ DOMAIN q = 1 .. Len(q) /\ Len(q) \in Nat
      /\ \A i \in 1 .. Len(q) : Append(q, x)[i] = q[i]
      /\ Append(q, x)[Len(q) + 1] = x
  BY AppendedAt
<1>2. 1 \in DOMAIN Append(q, x) BY <1>1
<1>3. Append(q, x) # <<>> BY <1>2
<1>4. \A i \in 1 .. Len(q) + 1 : i \in 1 .. Len(q) \/ i = Len(q) + 1 BY <1>1
<1>5. q # <<>> => 1 \in DOMAIN q
  <2>1. Len(q) # 0 => 1 \in 1 .. Len(q) BY <1>1
  <2>2. q # <<>> => Len(q) # 0 OBVIOUS
  <2> QED BY <1>1, <2>1, <2>2
<1> QED BY <1>1, <1>3, <1>4, <1>5

LEMMA FitSendQuit == ASSUME Inv, SendQuit PROVE FitInv'
<1> SUFFICES ASSUME NEW n \in Nodes PROVE Fits(n)' BY DEF FitInv
<1>1. step = "quit" /\ UNCHANGED <<step, iter, reply, weight, nodePc, nodeQ, pc>>
  BY DEF SendQuit, nodes, workers
<1>2. AtEnd(n) BY <1>1 DEF Inv, FitInv, Fits
<1>3. \A i \in DOMAIN req'[n] : req'[n][i] = [tag |-> "quit"]
  <2>1. CASE UNCHANGED req BY <1>2, <2>1 DEF AtEnd
  <2>2. CASE sent # 0
    <3>1. PICK k \in Nodes : k = sent - 1
      BY <2>2, Numbers DEF SendQuit, Ranks, Inv, Types, MainType, Nodes
    <3> DEFINE m == [tag |-> "quit"]
    <3>2. m \in Messages BY DEF Messages
    <3>3. req'[k] = Append(req[k], m) /\ \A j \in Nodes \ {k} : req'[j] = req[j]
      BY <2>2, <3>1 DEF SendQuit, Send, Inv, Types, MailType
    <3>4. req[n] \in Seq(Messages) BY DEF Inv, Types, MailType
    <3> HIDE DEF m
    <3>5. \A i \in DOMAIN Append(req[n], m) :
            (i \in DOMAIN req[n] /\ Append(req[n], m)[i] = req[n][i]) \/ Append(req[n], m)[i] = m
      BY <3>2, <3>4, AllAppended
    <3>6. \A i \in DOMAIN req[n] : req[n][i] = m BY <1>2 DEF AtEnd, m
    <3>7. \A i \in DOMAIN req'[n] : req'[n][i] = m BY <3>3, <3>5, <3>6
    <3> QED BY <3>7 DEF m
  <2> QED BY <2>1, <2>2 DEF SendQuit
<1>4. AtEnd(n)' BY <1>1, <1>2, <1>3 DEF AtEnd
<1> QED BY <1>1, <1>4 DEF Fits, Passes, Requests

LEMMA FitSenderSends == ASSUME Inv, SenderSends PROVE FitInv'
<1> SUFFICES ASSUME NEW n \in Nodes PROVE Fits(n)' BY DEF FitInv
<1>1. PICK g \in sending \ {Quit} : Send(NodeOf(g), [tag |-> "job", g |-> g, spec |-> spec[g]])
  BY DEF SenderSends
<1>2. g \in Subgames BY <1>1 DEF Inv, Types, ServerType, Indices
<1>3. At(g, "sending") BY <1>1 DEF At
<1>4. step \in Passes BY <1>2, <1>3, JobOfPass DEF Places
<1>5. UNCHANGED <<step, iter, sent, reply, weight, nodePc, nodeQ, pc, same, remoteStats>>
  BY DEF SenderSends, main, nodes, workers
<1>6. Quiet(n)' <=> Quiet(n) BY <1>5 DEF Quiet
<1> DEFINE m == [tag |-> "job", g |-> g, spec |-> spec[g]]
<1>7. m \in Messages /\ m.tag = "job"
  BY <1>2 DEF Messages, Jobs, Inv, Types, ServerType
<1>8. req'[NodeOf(g)] = Append(req[NodeOf(g)], m)
      /\ \A j \in Nodes \ {NodeOf(g)} : req'[j] = req[j]
  BY <1>1, <1>2, NodeOfSubgame DEF Send, Inv, Types, MailType
<1> HIDE DEF m
<1>9. CASE n # NodeOf(g)
  <2>1. MainStays(n) BY <1>5 DEF MainStays
  <2>2. NodeStays(n) BY <1>5, <1>6, <1>8, <1>9 DEF NodeStays
  <2> QED BY <1>5, <2>1, <2>2, FitsStays
<1>10. CASE n = NodeOf(g)
  <2>1. req[n] \in Seq(Messages) BY DEF Inv, Types, MailType
  <2>2. InPass(n) BY <1>4, NodeFacts
  <2>3. /\ Append(req[n], m) # <<>>
        /\ \A i \in DOMAIN Append(req[n], m) :
             (i \in DOMAIN req[n] /\ Append(req[n], m)[i] = req[n][i]) \/ Append(req[n], m)[i] = m
        /\ req[n] # <<>> => 1 \in DOMAIN req[n] /\ Append(req[n], m)[1] = req[n][1]
        /\ req[n] = <<>> => Append(req[n], m)[1] = m
    BY <1>7, <2>1, AllAppended
  <2>4. \A i \in DOMAIN req'[n] : i # 1 => req'[n][i].tag = "job"
    BY <1>7, <1>8, <1>10, <2>2, <2>3 DEF InPass
  <2>5. \/ weight'[n] = iter' /\ req'[n][1].tag = "job"
        \/ req'[n] # <<>> /\ req'[n][1] = Start /\ Quiet(n)'
    BY <1>5, <1>6, <1>7, <1>8, <1>10, <2>2, <2>3 DEF InPass
  <2>6. Start' = Start BY <1>5 DEF Start
  <2>7. InPass(n)' BY <1>5, <2>2, <2>4, <2>5, <2>6 DEF InPass
  <2> QED BY <1>4, <1>5, <2>7 DEF Fits, Passes, Requests
<1> QED BY <1>9, <1>10

(* The only replies to main's requests are those of the nodes that answered. *)
LEMMA FitReceive == ASSUME Inv, NEW n \in Nodes, Receive(n) PROVE FitInv'
<1> SUFFICES ASSUME NEW k \in Nodes PROVE Fits(k)' BY DEF FitInv
<1>1. reply[n] # <<>> /\ reply[n] \in Seq(Replies) BY DEF Receive, Inv, Types, MailType
<1>2. /\ UNCHANGED <<step, iter, sent, waited, req, weight, nodePc, nodeQ, pc, same>>
      /\ reply'[n] = Tail(reply[n]) /\ \A j \in Nodes \ {n} : reply'[j] = reply[j]
      /\ \A j \in Nodes \ {n} : remoteStats'[j] = remoteStats[j]
  BY DEF Receive, main, nodes, workers, Inv, Types, MailType, ServerType
<1>3. Quiet(k)' <=> Quiet(k) BY <1>2 DEF Quiet
<1>4. CASE k # n
  <2>1. MainStays(k) BY <1>2 DEF MainStays
  <2>2. NodeStays(k) BY <1>2, <1>3, <1>4 DEF NodeStays
  <2> QED BY <1>2, <2>1, <2>2, FitsStays
<1>5. CASE k = n /\ step \in Passes
  <2>1. InPass(k) BY <1>5, NodeFacts
  <2>2. \A i \in DOMAIN reply'[k] : reply'[k][i].tag = "job"
    <3>1. /\ DOMAIN Tail(reply[n]) = 1 .. Len(reply[n]) - 1 /\ DOMAIN reply[n] = 1 .. Len(reply[n])
          /\ \A i \in 1 .. Len(reply[n]) - 1 : Tail(reply[n])[i] = reply[n][i + 1]
          /\ Len(reply[n]) \in Nat \ {0}
      BY <1>1, TailAt
    <3>2. \A i \in 1 .. Len(reply[n]) - 1 : i + 1 \in DOMAIN reply[n] BY <3>1
    <3>3. \A i \in DOMAIN reply[n] : reply[n][i].tag = "job" BY <1>5, <2>1 DEF InPass
    <3>4. \A i \in DOMAIN Tail(reply[n]) : Tail(reply[n])[i].tag = "job" BY <3>1, <3>2, <3>3
    <3> QED BY <1>2, <1>5, <3>4
  <2>3. InPass(k)' BY <1>2, <1>3, <2>1, <2>2 DEF InPass, Start
  <2> QED BY <1>2, <1>5, <2>3 DEF Fits, Passes, Requests
<1>6. CASE k = n /\ step \notin Passes
  <2>1. step \in Requests /\ Answered(n) BY <1>1, <1>6, NodeFacts
  <2>2. reply[n] = <<Reply>> BY <2>1 DEF Answered
  <2>3. reply'[n] = <<>> /\ Head(reply[n]) = Reply BY <1>2, <2>2, ShortQueues
  <2>4. Reply.tag = step /\ step # "job" /\ (step = "stats" => Reply.stats = <<iter, TRUE>>)
    BY <2>1 DEF Reply, Requests
  <2>5. step = "stats" => remoteStats'[n] = <<iter, TRUE>>
    BY <2>3, <2>4 DEF Receive, Inv, Types, ServerType
  <2>6. Kept(n)' BY <1>2, <2>1, <2>5 DEF Kept, Answered
  <2>7. Served(n)' BY <1>2, <2>1, <2>3, <2>6 DEF Answered, Served, Rest, Told
  <2> QED BY <1>2, <1>6, <2>1, <2>7 DEF Fits, InRequest, Passes, Requests
<1> QED BY <1>4, <1>5, <1>6

(* A node takes the start of the iteration before its job or its request.  *)
LEMMA FitNodeReceive == ASSUME Inv, NEW n \in Nodes, NodeReceive(n) PROVE FitInv'
<1> SUFFICES ASSUME NEW k \in Nodes PROVE Fits(k)' BY DEF FitInv
<1> DEFINE m == Head(req[n])
<1>1. /\ req[n] # <<>> /\ req[n] \in Seq(Messages) /\ nodePc[n] = "receive"
      /\ weight \in [Nodes -> 0 .. 1] /\ nodePc \in [Nodes -> NodePoints]
  BY DEF NodeReceive, Inv, Types, MailType, NodesType
<1>2. /\ UNCHANGED <<step, iter, sent, waited, reply, nodeQ, pc, same, remoteStats>>
      /\ req'[n] = Tail(req[n]) /\ \A j \in Nodes \ {n} : req'[j] = req[j]
      /\ \A j \in Nodes \ {n} : nodePc'[j] = nodePc[j] /\ weight'[j] = weight[j]
  BY <1>1 DEF NodeReceive, NodeGoto, main, server, workers, Inv, Types, MailType
<1>3. /\ m.tag = "job" => nodePc'[n] = "add" /\ weight'[n] = weight[n]
      /\ m.tag = "iterstart" => nodePc'[n] = "receive" /\ weight'[n] = m.iter
      /\ m.tag \notin {"job", "iterstart"} => nodePc'[n] = m.tag /\ weight'[n] = weight[n]
  BY <1>1 DEF NodeReceive, NodeGoto
<1> HIDE DEF m
<1>4. Start' = Start /\ Ask' = Ask BY <1>2 DEF Start, Ask
<1>5. Start.tag = "iterstart" /\ Start.iter = iter /\ Ask.tag = step BY DEF Start, Ask
<1>6. Fits(n) /\ step \in Steps \cup {"start"} BY DEF Inv, FitInv, Types, MainType
<1>a. m = Head(req[n]) BY DEF m
<1>7. CASE k # n
  <2>1. MainStays(k) BY <1>2 DEF MainStays
  <2>2. Quiet(k)' <=> Quiet(k) BY <1>2, <1>7 DEF Quiet
  <2>3. NodeStays(k) BY <1>2, <1>7, <2>2 DEF NodeStays
  <2> QED BY <1>2, <2>1, <2>3, FitsStays
<1>8. CASE k = n /\ step = "start" BY <1>1, <1>6, <1>8 DEF Fits, Told
<1>9. CASE k = n /\ step = "iterstart"
  <2>1. Rest(n) /\ n < sent /\ req[n] = <<Start>>
    BY <1>1, <1>6, <1>9 DEF Fits, Current, Told
  <2>2. m = Start /\ req'[n] = <<>> BY <1>2, <1>a, <2>1, ShortQueues
  <2>3. weight'[n] = iter /\ nodePc'[n] = "receive" BY <1>3, <1>5, <2>2
  <2>4. (Rest(n))' /\ Current(n)' BY <1>2, <2>1, <2>2, <2>3 DEF Rest, Current, Told
  <2> QED BY <1>2, <1>9, <2>1, <2>4 DEF Fits, Passes, Requests
<1>10. CASE k = n /\ step \in Requests
  <2>1. InRequest(n) BY <1>10, NodeFacts
  <2>2. \/ Unasked(n) /\ req[n] = <<Start>>
        \/ Asked(n)
    <3>1. Unasked(n) => req[n] = <<Start>> BY <1>1 DEF Unasked, Current, Told
    <3>2. ~Serving(n) /\ ~Answered(n) /\ ~Served(n) BY <1>1 DEF Serving, Answered, Served, Told
    <3> QED BY <2>1, <3>1, <3>2 DEF InRequest
  <2>3. step # "iterstart" /\ step # "job" BY <1>10 DEF Requests
  <2>4. CASE Unasked(n) /\ req[n] = <<Start>>
    <3>1. m = Start /\ req'[n] = <<>> BY <1>2, <1>a, <2>4, ShortQueues
    <3>2. weight'[n] = iter /\ nodePc'[n] = "receive" BY <1>3, <1>5, <3>1
    <3>3. Unasked(n)' BY <1>2, <2>4, <3>1, <3>2 DEF Unasked, Rest, Current, Told
    <3> QED BY <1>2, <1>10, <3>3 DEF Fits, InRequest, Passes, Requests
  <2>5. CASE n < sent /\ Rest(n) /\ weight[n] = iter /\ req[n] = <<Ask>>
    <3>1. m = Ask /\ req'[n] = <<>> BY <1>2, <1>a, <2>5, ShortQueues
    <3>2. weight'[n] = iter /\ nodePc'[n] = step BY <1>3, <1>5, <2>3, <2>5, <3>1
    <3>3. Serving(n)' BY <1>2, <2>5, <3>1, <3>2 DEF Serving, Rest, Told
    <3> QED BY <1>2, <1>10, <3>3 DEF Fits, InRequest, Passes, Requests
  <2>6. CASE n < sent /\ Rest(n) /\ req[n] = <<Start, Ask>>
    <3>1. m = Start /\ req'[n] = <<Ask>> BY <1>2, <1>a, <2>6, ShortQueues
    <3>2. weight'[n] = iter /\ nodePc'[n] = "receive" BY <1>3, <1>5, <3>1
    <3>3. (Rest(n))' BY <1>2, <2>6, <3>2 DEF Rest
    <3>4. Asked(n)' BY <1>2, <1>4, <2>6, <3>1, <3>2, <3>3 DEF Asked
    <3> QED BY <1>2, <1>10, <3>4 DEF Fits, InRequest, Passes, Requests
  <2> QED BY <2>2, <2>4, <2>5, <2>6 DEF Asked
<1>b. /\ DOMAIN req'[n] = 1 .. Len(req[n]) - 1 /\ DOMAIN req[n] = 1 .. Len(req[n])
      /\ \A i \in DOMAIN req'[n] : req'[n][i] = req[n][i + 1]
      /\ Len(req[n]) \in Nat \ {0} /\ m = req[n][1]
  BY <1>1, <1>2, <1>a, TailAt
<1>c. \A i \in DOMAIN req'[n] : i + 1 \in DOMAIN req[n] /\ i + 1 # 1 BY <1>b
<1>11. CASE k = n /\ step \in Passes
  <2>1. InPass(n) BY <1>11, NodeFacts
  <2>2. \A i \in DOMAIN req'[n] : req'[n][i].tag = "job"
    BY <1>b, <1>c, <2>1 DEF InPass
  <2>3. (m.tag = "job" /\ weight[n] = iter) \/ m = Start
    BY <1>1, <1>b, <2>1 DEF InPass
  <2>4. weight'[n] = iter /\ nodePc'[n] \in {"receive", "add"} BY <1>3, <1>5, <2>3
  <2>5. req'[n] # <<>> => req'[n][1].tag = "job"
    <3>1. req'[n] \in Seq(Messages) BY <1>1, <1>2, TailAt
    <3>2. req'[n] # <<>> => 1 \in DOMAIN req'[n]
      <4>1. Len(req'[n]) # 0 => 1 \in 1 .. Len(req'[n]) BY <3>1
      <4> QED BY <3>1, <4>1
    <3> QED BY <2>2, <3>2
  <2>6. InPass(n)' BY <1>2, <2>1, <2>2, <2>4, <2>5 DEF InPass
  <2> QED BY <1>2, <1>11, <2>6 DEF Fits, Passes, Requests
<1>12. CASE k = n /\ step = "quit"
  <2>1. AtEnd(n) BY <1>6, <1>12 DEF Fits
  <2>2. 1 \in DOMAIN req[n] BY <1>b
  <2>3. m = [tag |-> "quit"] BY <1>b, <2>1, <2>2 DEF AtEnd
  <2>4. nodePc'[n] = "quit" BY <1>3, <2>3
  <2>5. \A i \in DOMAIN req'[n] : req'[n][i] = [tag |-> "quit"] BY <1>b, <1>c, <2>1 DEF AtEnd
  <2>6. AtEnd(n)' BY <1>2, <2>1, <2>4, <2>5 DEF AtEnd
  <2> QED BY <1>2, <1>12, <2>6 DEF Fits, Passes, Requests
<1> QED BY <1>6, <1>7, <1>8, <1>9, <1>10, <1>11, <1>12 DEF Steps

LEMMA FitNodeOwn ==
  ASSUME Inv, NEW n \in Nodes, NodeAdd(n) \/ NodeCopies(n) \/ NodeReplies(n) \/ NodeStops(n)
  PROVE  FitInv'
<1> SUFFICES ASSUME NEW k \in Nodes PROVE Fits(k)' BY DEF FitInv
<1>a. /\ nodePc \in [Nodes -> NodePoints] /\ nodeQ \in [Nodes -> Seq(Indices)]
      /\ same \in [Nodes -> BOOLEAN] /\ reply \in [Nodes -> Seq(Replies)]
  BY DEF Inv, Types, NodesType, WorkersType, MailType
<1>1. /\ UNCHANGED <<step, iter, sent, req, weight, pc, remoteStats>>
      /\ \A j \in Nodes \ {n} : /\ nodePc'[j] = nodePc[j] /\ nodeQ'[j] = nodeQ[j]
                                /\ reply'[j] = reply[j] /\ same'[j] = same[j]
  BY <1>a DEF NodeAdd, NodeCopies, NodeReplies, Answer, NodeStops, NodeGoto, main, server, workers
<1>2. CASE k # n
  <2>1. MainStays(k) BY <1>1 DEF MainStays
  <2>2. Quiet(k)' <=> Quiet(k) BY <1>1, <1>2 DEF Quiet
  <2>3. NodeStays(k) BY <1>1, <1>2, <2>2 DEF NodeStays
  <2> QED BY <1>1, <2>1, <2>3, FitsStays
<1>3. CASE k = n /\ NodeAdd(n)
  <2>1. nodePc[n] = "add" /\ nodePc'[n] = "receive" /\ UNCHANGED reply
    BY <1>3, <1>a DEF NodeAdd, NodeGoto
  <2>2. step \in Passes /\ InPass(n) /\ weight[n] = iter BY <2>1, NodeFacts
  <2>3. req[n] # <<>> => req[n][1].tag = "job" BY <2>1, <2>2 DEF InPass, Quiet
  <2>4. InPass(n)' BY <1>1, <2>1, <2>2, <2>3 DEF InPass
  <2> QED BY <1>1, <1>3, <2>2, <2>4 DEF Fits, Passes, Requests
<1>4. CASE k = n /\ NodeCopies(n)
  <2>1. /\ nodePc[n] \in {"load", "dump"} /\ same'[n] = TRUE /\ UNCHANGED reply
        /\ nodePc'[n] = IF nodePc[n] = "load" THEN "loaded" ELSE "dumped"
    BY <1>4, <1>a DEF NodeCopies, NodeGoto
  <2>2. step \in Requests /\ Serving(n) BY <2>1, NodeFacts DEF Requests
  <2>3. nodePc[n] = step BY <2>1, <2>2 DEF Serving
  <2>4. Serving(n)' BY <1>1, <2>1, <2>2, <2>3 DEF Serving, Told
  <2> QED BY <1>1, <1>4, <2>2, <2>4 DEF Fits, InRequest, Passes, Requests
<1>5. CASE k = n /\ NodeReplies(n)
  <2>1. /\ nodePc[n] \in {"loaded", "dumped", "stats"} /\ nodePc'[n] = "receive" /\ UNCHANGED same
    BY <1>5, <1>a DEF NodeReplies, NodeGoto, workers
  <2>2. step \in Requests /\ Serving(n) BY <2>1, NodeFacts DEF Requests
  <2>3. step \notin Passes /\ step # "quit" BY <2>2 DEF Requests, Passes
  <2>4. ~AtWork(n) BY <2>3, NoJobs, QuietNode
  <2>5. reply[n] = <<>> /\ weight[n] = iter /\ n < sent /\ req[n] = <<>>
    BY <2>2 DEF Serving, Told
  <2>6. /\ nodePc[n] = "loaded" => step = "load" /\ same[n] = TRUE
        /\ nodePc[n] = "dumped" => step = "dump" /\ same[n] = TRUE
        /\ nodePc[n] = "stats" => step = "stats"
    BY <1>a, <2>1, <2>2 DEF Serving, Requests
  <2>7. reply'[n] = <<Reply>>
    <3>1. CASE nodePc[n] = "stats"
      <4>1. StatsOfNode(n) = <<iter, TRUE>>
        <5>1. (~AtWork(n)) = TRUE BY <2>4
        <5> QED BY <2>5, <5>1 DEF StatsOfNode
      <4>2. reply'[n] = Append(<<>>, [tag |-> "stats", stats |-> <<iter, TRUE>>])
        BY <1>5, <1>a, <2>5, <3>1, <4>1 DEF NodeReplies, Answer
      <4> QED BY <2>6, <3>1, <4>2, ShortQueues DEF Reply
    <3>2. CASE nodePc[n] \in {"loaded", "dumped"}
      <4>1. reply'[n] = Append(<<>>, [tag |-> step])
        BY <1>5, <1>a, <2>5, <2>6, <3>2 DEF NodeReplies, Answer
      <4>2. step # "stats" BY <2>6, <3>2
      <4> QED BY <4>1, <4>2, ShortQueues DEF Reply
    <3> QED BY <2>1, <3>1, <3>2
  <2>8. Reply' = Reply BY <1>1 DEF Reply
  <2>9. Answered(n)' BY <1>1, <2>1, <2>5, <2>6, <2>7, <2>8 DEF Answered, Told
  <2> QED BY <1>1, <1>5, <2>2, <2>9 DEF Fits, InRequest, Passes, Requests
<1>6. CASE k = n /\ NodeStops(n)
  <2>1. nodePc[n] = "quit" /\ nodePc'[n] \in {"quit", "gone"} /\ UNCHANGED reply
    BY <1>6, <1>a DEF NodeStops, NodeGoto
  <2>2. step = "quit" /\ AtEnd(n) BY <2>1, NodeFacts
  <2>3. AtEnd(n)' BY <1>1, <2>1, <2>2 DEF AtEnd
  <2> QED BY <1>1, <1>6, <2>2, <2>3 DEF Fits, Passes, Requests
<1> QED BY <1>2, <1>3, <1>4, <1>5, <1>6

(* A worker with work is not at rest, nor is its node.                     *)
LEMMA FitWorker ==
  ASSUME Inv, NEW w \in Workers, WorkerTakes(w) \/ Perform(w) \/ WorkerReplies(w)
  PROVE  FitInv'
<1> SUFFICES ASSUME NEW k \in Nodes PROVE Fits(k)' BY DEF FitInv
<1>a. PICK n \in Nodes : n = w[1] BY Numbers
<1>b. /\ pc \in [Workers -> WorkPoints \cup {"wait", "gone"}] /\ nodeQ \in [Nodes -> Seq(Indices)]
      /\ same \in [Nodes -> BOOLEAN] /\ reply \in [Nodes -> Seq(Replies)]
  BY DEF Inv, Types, NodesType, WorkersType, MailType
<1>1. /\ UNCHANGED <<step, iter, sent, req, weight, nodePc, remoteStats>>
      /\ \A j \in Nodes \ {n} : /\ nodeQ'[j] = nodeQ[j] /\ reply'[j] = reply[j]
                                /\ same'[j] = same[j]
      /\ \A v \in Workers \ {w} : pc'[v] = pc[v]
  BY <1>a, <1>b DEF WorkerTakes, Perform, WorkerReplies, Answer, main, server
<1>2. ~Quiet(n)
  <2>1. WorkerTakes(w) => nodeQ[n] # <<>> BY <1>a DEF WorkerTakes
  <2>2. ~WorkerTakes(w) => pc[w] \in WorkPoints BY DEF Perform, WorkerReplies, WorkPoints
  <2> QED BY <1>a, <2>1, <2>2 DEF Quiet
<1>3. Quiet(k) => Quiet(k)'
  <2> SUFFICES ASSUME Quiet(k) PROVE Quiet(k)' OBVIOUS
  <2>1. k # n BY <1>2
  <2> QED BY <1>a, <1>1, <2>1 DEF Quiet
<1>4. CASE k # n \/ WorkerTakes(w)
  <2>1. MainStays(k) BY <1>1 DEF MainStays
  <2>2. WorkerTakes(w) => UNCHANGED <<reply, same>> BY DEF WorkerTakes
  <2>3. NodeStays(k) BY <1>1, <1>3, <1>4, <2>2 DEF NodeStays
  <2> QED BY <1>1, <2>1, <2>3, FitsStays
<1>5. CASE k = n /\ ~WorkerTakes(w)
  <2>1. PICK g \in Subgames : g = cur[w] /\ Works(w, g)
    BY <1>5 DEF Perform, WorkerReplies, Inv, Types, WorkersType, Works, WorkPoints
  <2>2. At(g, "worker") BY <2>1, AtWorker DEF Inv, JobsInv
  <2>3. step \in Passes /\ InPass(n) BY <2>2, JobOfPass, NodeFacts DEF Places
  <2>4. \A i \in DOMAIN reply'[n] : reply'[n][i].tag = "job"
    <3>1. CASE Perform(w)
      <4>1. UNCHANGED reply BY <3>1 DEF Perform
      <4> QED BY <2>3, <4>1 DEF InPass
    <3>2. CASE WorkerReplies(w)
      <4> DEFINE m == [tag |-> "job", g |-> g, spec |-> nodeSpec[g]]
      <4>1. m \in Replies /\ m.tag = "job"
        BY DEF Replies, Jobs, Inv, Types, NodesType
      <4>2. reply'[n] = Append(reply[n], m) /\ reply[n] \in Seq(Replies)
        BY <1>a, <1>b, <2>1, <3>2 DEF WorkerReplies, Answer
      <4> HIDE DEF m
      <4>3. \A i \in DOMAIN Append(reply[n], m) :
               (i \in DOMAIN reply[n] /\ Append(reply[n], m)[i] = reply[n][i])
               \/ Append(reply[n], m)[i] = m
        BY <4>1, <4>2, AllAppended
      <4>4. \A i \in DOMAIN reply[n] : reply[n][i].tag = "job" BY <2>3 DEF InPass
      <4> QED BY <4>1, <4>2, <4>3, <4>4
    <3> QED BY <1>5, <3>1, <3>2
  <2>5. weight[n] = iter /\ (req[n] # <<>> => req[n][1].tag = "job")
    BY <1>2, <2>3 DEF InPass
  <2>6. InPass(n)' BY <1>1, <2>3, <2>4, <2>5 DEF InPass
  <2> QED BY <1>1, <1>5, <2>3, <2>6 DEF Fits, Passes, Requests
<1> QED BY <1>4, <1>5

LEMMA FitStep == Inv /\ [Next]_vars => FitInv'
<1> SUFFICES ASSUME Inv, [Next]_vars PROVE FitInv' OBVIOUS
<1>0. CASE UNCHANGED <<step, iter, sent, req, reply, weight, nodePc, nodeQ, pc, same, remoteStats>>
  <2> SUFFICES ASSUME NEW n \in Nodes PROVE Fits(n)' BY DEF FitInv
  <2>1. Quiet(n)' <=> Quiet(n) BY <1>0 DEF Quiet
  <2>2. NodeStays(n) /\ MainStays(n) BY <1>0, <2>1 DEF NodeStays, MainStays
  <2> QED BY <1>0, <2>2, FitsStays
<1>1. CASE AwaitReply \/ StopSender
  BY <1>0, <1>1 DEF AwaitReply, StopSender, nodes, workers
<1>2. ASSUME NEW g \in Subgames, Submit(g) PROVE FitInv'
  BY <1>0, <1>2 DEF Submit, nodes, workers
<1>3. CASE SenderTakes \/ ReceiverStops
  BY <1>0, <1>3 DEF SenderTakes, ReceiverStops, main, nodes, workers
<1>4. CASE UNCHANGED vars BY <1>0, <1>4 DEF vars, main, server, nodes, workers
<1> QED BY NextCases, FitNext, FitSendToNode, FitSendQuit, FitSenderSends, FitReceive,
           FitNodeReceive, FitNodeOwn, FitWorker, <1>1, <1>2, <1>3, <1>4

-----------------------------------------------------------------------------
(* Every reply and every permit is accounted for *)

LEMMA OutstandingStays ==
  ASSUME \A n \in Nodes : (n \in Outstanding)' <=> n \in Outstanding
  PROVE  Outstanding' = Outstanding
<1>1. Outstanding \subseteq Nodes BY DEF Outstanding
<1>2. Outstanding' \subseteq Nodes BY DEF Outstanding
<1> QED BY <1>1, <1>2

LEMMA CountsStay ==
  ASSUME Inv, UNCHANGED <<step, sent, waited, mpiSem, copySem>>,
         step \in Requests => \A n \in Nodes : (n \in Outstanding)' <=> n \in Outstanding
  PROVE  RepliesCount' /\ PermitsCount'
<1>1. RepliesCount /\ PermitsCount BY DEF Inv
<1>2. CASE step \in Requests
  <2>1. Outstanding' = Outstanding BY <1>2, OutstandingStays
  <2> QED BY <1>1, <2>1 DEF RepliesCount, PermitsCount
<1>3. CASE step \notin Requests
  BY <1>1, <1>3 DEF RepliesCount, PermitsCount, Requests
<1> QED BY <1>2, <1>3

LEMMA CountsNext ==
  ASSUME Inv, NEW next \in Steps, NextStep(next)
  PROVE  RepliesCount' /\ PermitsCount'
<1>1. /\ step' = next /\ sent' = 0 /\ waited' = 0 /\ UNCHANGED <<mpiSem, copySem>> /\ StepDone
  BY DEF NextStep
<1>2. (Cardinality(Outstanding))' = 0
  <2>1. \A n \in Nodes : ~(n < 0) BY Numbers DEF Nodes
  <2>2. Outstanding' = {} BY <1>1, <2>1 DEF Outstanding
  <2> QED BY <2>2, FS_EmptySet
<1>3. mpiSem = 0 /\ copySem = NetworkCopies
  <2>1. CASE step \in Requests
    <3>1. mpiSem = 0 /\ Outstanding = {} BY <1>1, <2>1, StepDoneIs, AllReplied
    <3>2. Cardinality(Outstanding) = 0 BY <3>1, FS_EmptySet
    <3>3. copySem \in Nat BY DEF Inv, Types, ServerType
    <3> QED BY <3>1, <3>2, <3>3 DEF Inv, PermitsCount
  <2>2. CASE step \notin Requests BY <2>2 DEF Inv, RepliesCount, PermitsCount, Requests
  <2> QED BY <2>1, <2>2
<1> QED BY <1>1, <1>2, <1>3, Numbers DEF RepliesCount, PermitsCount

LEMMA CountsSend == ASSUME Inv, SendToNode PROVE RepliesCount' /\ PermitsCount'
<1>0. PICK k \in Nodes : k = sent
  BY Numbers DEF SendToNode, Inv, Types, MainType, Nodes
<1>1. /\ sent \in Nat /\ sent' = sent + 1 /\ UNCHANGED <<step, waited, mpiSem, nodePc, reply>>
      /\ step \in Requests \cup {"iterstart"} /\ TakePermit
      /\ req' = [req EXCEPT ![k] = Append(req[k], Ask)]
  BY <1>0 DEF SendToNode, Send, Inv, Types, MainType, MailType, Ask, nodes
<1>2. /\ mpiSem \in Nat /\ copySem \in Nat /\ waited \in Nat
      /\ RepliesCount /\ PermitsCount
  BY DEF Inv, Types, MainType, ServerType
<1>3. CASE step = "iterstart"
  BY <1>1, <1>2, <1>3 DEF RepliesCount, PermitsCount, TakePermit, Requests
<1>4. CASE step \in Requests
  <2>1. [tag |-> step, iter |-> iter] \in Messages
    BY <1>4 DEF Messages, Inv, Types, MainType
  <2>2. req'[k] = Append(req[k], Ask) /\ \A n \in Nodes \ {k} : req'[n] = req[n]
    BY <1>1 DEF Inv, Types, MailType
  <2>3. req'[k] # <<>>
    <3>1. req[k] \in Seq(Messages) BY DEF Inv, Types, MailType
    <3>2. Append(req[k], Ask) # <<>> BY <2>1, <3>1, AllAppended DEF Ask
    <3> QED BY <2>2, <3>2
  <2>4. \A n \in Nodes : (n < sent' <=> n < sent \/ n = k) /\ ~(k < sent)
    BY <1>0, <1>1, Numbers DEF Nodes
  <2>5. k \notin Outstanding BY <2>4 DEF Outstanding
  <2>6. Outstanding' = Outstanding \cup {k}
    BY <1>1, <2>2, <2>3, <2>4 DEF Outstanding
  <2>7. (Cardinality(Outstanding))' = Cardinality(Outstanding) + 1
    BY <2>5, <2>6, FiniteNodes, FS_AddElement
  <2>8. Cardinality(Outstanding) \in Nat BY FiniteNodes
  <2>9. RepliesCount' BY <1>1, <1>2, <1>4, <2>7, <2>8 DEF RepliesCount
  <2>10. PermitsCount'
    <3>1. CASE step \in {"load", "dump"}
      <4>1. copySem > 0 /\ copySem' = copySem - 1 BY <1>1, <3>1 DEF TakePermit
      <4>2. copySem + Cardinality(Outstanding) = NetworkCopies BY <1>2, <3>1 DEF PermitsCount
      <4>3. copySem' + (Cardinality(Outstanding))' = NetworkCopies
        BY <1>2, <2>7, <2>8, <4>1, <4>2
      <4> QED BY <1>1, <3>1, <4>3 DEF PermitsCount
    <3>2. CASE step \notin {"load", "dump"}
      BY <1>1, <1>2, <3>2 DEF PermitsCount, TakePermit
    <3> QED BY <3>1, <3>2
  <2> QED BY <2>9, <2>10
<1> QED BY <1>1, <1>3, <1>4

LEMMA CountsReceive ==
  ASSUME Inv, NEW n \in Nodes, Receive(n)
  PROVE  RepliesCount' /\ PermitsCount'
<1>1. /\ reply[n] # <<>> /\ reply \in [Nodes -> Seq(Replies)]
      /\ UNCHANGED <<step, sent, waited, req, nodePc>>
      /\ reply' = [reply EXCEPT ![n] = Tail(reply[n])]
      /\ RepliesCount /\ PermitsCount
      /\ mpiSem \in Nat /\ copySem \in Nat /\ waited \in Nat
  BY DEF Receive, main, nodes, Inv, Types, MailType, MainType, ServerType
<1>2. CASE step \in Passes
  <2>1. InPass(n) BY <1>2, NodeFacts
  <2>2. Head(reply[n]) = reply[n][1] /\ 1 \in DOMAIN reply[n]
    <3>1. /\ DOMAIN reply[n] = 1 .. Len(reply[n]) /\ Len(reply[n]) \in Nat \ {0}
          /\ Head(reply[n]) = reply[n][1]
      BY <1>1, TailAt
    <3> QED BY <3>1
  <2>3. Head(reply[n]).tag = "job" BY <2>1, <2>2 DEF InPass
  <2>4. UNCHANGED <<mpiSem, copySem>> BY <2>3 DEF Receive
  <2>5. step \notin Requests BY <1>2 DEF Passes, Requests
  <2> QED BY <1>1, <2>4, <2>5, CountsStay
<1>3. CASE step \notin Passes
  <2>1. step \in Requests /\ Answered(n) BY <1>1, <1>3, NodeFacts
  <2>2. reply[n] = <<Reply>> /\ Told(n) /\ n < sent /\ nodePc[n] = "receive"
    BY <2>1 DEF Answered
  <2>3. reply'[n] = <<>> /\ Head(reply[n]) = Reply BY <1>1, <2>2, ShortQueues
  <2>4. Reply.tag = step /\ step # "job" BY <2>1 DEF Reply, Requests
  <2>5. /\ mpiSem' = mpiSem + 1
        /\ copySem' = IF step \in {"load", "dump"} THEN copySem + 1 ELSE copySem
    BY <2>3, <2>4 DEF Receive
  <2>6. \A k \in Nodes \ {n} : reply'[k] = reply[k] BY <1>1
  <2>7. n \in Outstanding BY <1>1, <2>2 DEF Outstanding
  <2>8. Outstanding' = Outstanding \ {n}
    BY <1>1, <2>2, <2>3, <2>6 DEF Outstanding, Told
  <2>9. (Cardinality(Outstanding))' = Cardinality(Outstanding) - 1
    BY <2>7, <2>8, FiniteNodes, FS_RemoveElement
  <2>10. Cardinality(Outstanding) \in Nat BY FiniteNodes
  <2>11. sent \in Nat BY DEF Inv, Types, MainType
  <2>12. RepliesCount' BY <1>1, <2>1, <2>5, <2>9, <2>10, <2>11 DEF RepliesCount
  <2>13. PermitsCount' BY <1>1, <2>5, <2>9, <2>10, Numbers DEF PermitsCount
  <2> QED BY <2>12, <2>13
<1> QED BY <1>2, <1>3

LEMMA CountsNode ==
  ASSUME Inv, NEW n \in Nodes, step \in Requests,
         NodeReceive(n) \/ NodeCopies(n) \/ NodeReplies(n)
  PROVE  RepliesCount' /\ PermitsCount'
<1>a. /\ req \in [Nodes -> Seq(Messages)] /\ reply \in [Nodes -> Seq(Replies)]
      /\ nodePc \in [Nodes -> NodePoints]
  BY DEF Inv, Types, MailType, NodesType
<1>1. /\ UNCHANGED <<step, sent, waited, mpiSem, copySem>>
      /\ \A k \in Nodes \ {n} : /\ nodePc'[k] = nodePc[k] /\ reply'[k] = reply[k]
                                /\ req'[k] = req[k]
  BY <1>a DEF NodeReceive, NodeCopies, NodeReplies, Answer, NodeGoto, main, server
<1>2. InRequest(n) BY NodeFacts
<1>3. (n \in Outstanding)' <=> n \in Outstanding
  <2>1. CASE NodeReceive(n)
    <3>1. /\ req[n] # <<>> /\ nodePc[n] = "receive" /\ req'[n] = Tail(req[n])
      BY <1>a, <2>1 DEF NodeReceive
    <3>2. CASE n < sent
      <4>1. ~Unasked(n) BY <3>2, Numbers DEF Unasked, Nodes, Inv, Types, MainType
      <4>2. Asked(n) BY <1>2, <3>1, <4>1 DEF InRequest, Serving, Answered, Served, Told
      <4>3. CASE req[n] = <<Ask>>
        <5>1. Head(req[n]).tag = step /\ step \notin {"job", "iterstart", "receive"}
          BY <4>3, ShortQueues DEF Ask, Requests
        <5>2. nodePc'[n] # "receive"
          BY <1>a, <2>1, <5>1 DEF NodeReceive, NodeGoto
        <5> QED BY <1>1, <3>1, <3>2, <5>2 DEF Outstanding
      <4>4. CASE req[n] = <<Start, Ask>>
        <5>1. req'[n] # <<>> BY <3>1, <4>4, ShortQueues
        <5> QED BY <1>1, <3>1, <3>2, <5>1 DEF Outstanding
      <4> QED BY <4>2, <4>3, <4>4 DEF Asked
    <3>3. CASE ~(n < sent) BY <1>1, <3>3 DEF Outstanding
    <3> QED BY <3>2, <3>3
  <2>2. CASE NodeCopies(n)
    <3>1. nodePc[n] # "receive" /\ nodePc'[n] # "receive"
      BY <1>a, <2>2 DEF NodeCopies, NodeGoto
    <3> QED BY <1>1, <3>1 DEF Outstanding
  <2>3. CASE NodeReplies(n)
    <3>1. nodePc[n] # "receive" BY <2>3 DEF NodeReplies
    <3>2. reply'[n] # <<>>
      <4>1. PICK m \in Replies : reply'[n] = Append(reply[n], m)
        <5>1. StatsOfNode(n) \in StatsOf BY DEF StatsOfNode, StatsOf, Inv, Types, NodesType
        <5>2. /\ [tag |-> "load"] \in Replies /\ [tag |-> "dump"] \in Replies
              /\ [tag |-> "stats", stats |-> StatsOfNode(n)] \in Replies
          BY <5>1 DEF Replies
        <5> QED BY <1>a, <2>3, <5>2 DEF NodeReplies, Answer
      <4> QED BY <1>a, <4>1, AllAppended
    <3> QED BY <1>1, <3>1, <3>2 DEF Outstanding
  <2> QED BY <2>1, <2>2, <2>3
<1>4. ASSUME NEW k \in Nodes PROVE (k \in Outstanding)' <=> k \in Outstanding
  <2>1. CASE k # n BY <1>1, <2>1 DEF Outstanding
  <2> QED BY <1>3, <2>1
<1> QED BY <1>1, <1>4, CountsStay

LEMMA CountsStep == Inv /\ [Next]_vars => RepliesCount' /\ PermitsCount'
<1> SUFFICES ASSUME Inv, [Next]_vars PROVE RepliesCount' /\ PermitsCount' OBVIOUS
<1>0. CASE UNCHANGED <<step, mpiSem, copySem>> /\ step \notin Requests
  BY <1>0 DEF Inv, RepliesCount, PermitsCount, Requests
<1>1. CASE UNCHANGED <<step, sent, waited, mpiSem, copySem, req, nodePc, reply>>
  <2>1. \A n \in Nodes : (n \in Outstanding)' <=> n \in Outstanding BY <1>1 DEF Outstanding
  <2> QED BY <1>1, <2>1, CountsStay
<1>2. CASE AwaitReply
  <2>1. /\ UNCHANGED <<step, sent, copySem, req, nodePc, reply>> /\ step \in Requests
        /\ mpiSem > 0 /\ mpiSem' = mpiSem - 1 /\ waited' = waited + 1
        /\ mpiSem \in Nat /\ waited \in Nat /\ RepliesCount /\ PermitsCount
    BY <1>2 DEF AwaitReply, nodes, Inv, Types, ServerType, MainType
  <2>2. Outstanding' = Outstanding BY <2>1 DEF Outstanding
  <2>3. Cardinality(Outstanding) \in Nat BY FiniteNodes
  <2>4. waited' + mpiSem' + Cardinality(Outstanding) = sent
    BY <2>1, <2>3 DEF RepliesCount
  <2> QED BY <2>1, <2>2, <2>4 DEF RepliesCount, PermitsCount
<1>3. CASE SendQuit \/ StopSender
  <2>1. step \notin Requests /\ UNCHANGED <<step, mpiSem, copySem>>
    BY <1>3 DEF SendQuit, StopSender, Requests
  <2> QED BY <1>0, <2>1
<1>4. CASE SenderSends
  <2>1. PICK g \in sending \ {Quit} : TRUE BY <1>4 DEF SenderSends
  <2>2. g \in Subgames BY <2>1 DEF Inv, Types, ServerType, Indices
  <2>3. At(g, "sending") BY <2>1 DEF At
  <2>4. step \in Passes BY <2>2, <2>3, JobOfPass DEF Places
  <2>5. step \notin Requests BY <2>4 DEF Passes, Requests
  <2> QED BY <1>0, <1>4, <2>5 DEF SenderSends, main
<1>5. ASSUME NEW n \in Nodes, NodeReceive(n) \/ NodeCopies(n) \/ NodeReplies(n)
      PROVE  RepliesCount' /\ PermitsCount'
  <2>1. UNCHANGED <<step, mpiSem, copySem>>
    BY <1>5 DEF NodeReceive, NodeCopies, NodeReplies, main, server
  <2> QED BY <1>0, <1>5, <2>1, CountsNode
<1>6. ASSUME NEW n \in Nodes, NodeAdd(n) \/ NodeStops(n) PROVE RepliesCount' /\ PermitsCount'
  <2>1. nodePc[n] \in {"add", "quit"} BY <1>6 DEF NodeAdd, NodeStops
  <2>2. step \notin Requests BY <2>1, NodeFacts DEF Passes, Requests
  <2>3. UNCHANGED <<step, mpiSem, copySem>> BY <1>6 DEF NodeAdd, NodeStops, main, server
  <2> QED BY <1>0, <2>2, <2>3
<1>7. ASSUME NEW w \in Workers, WorkerReplies(w) PROVE RepliesCount' /\ PermitsCount'
  <2>1. PICK g \in Subgames : g = cur[w] /\ Works(w, g)
    BY <1>7 DEF WorkerReplies, Inv, Types, WorkersType, Works, WorkPoints
  <2>2. At(g, "worker") BY <2>1, AtWorker DEF Inv, JobsInv
  <2>3. step \in Passes BY <2>2, JobOfPass DEF Places
  <2>4. step \notin Requests BY <2>3 DEF Passes, Requests
  <2> QED BY <1>0, <1>7, <2>4 DEF WorkerReplies, main, server
<1>8. ASSUME NEW w \in Workers, WorkerTakes(w) \/ Perform(w) PROVE RepliesCount' /\ PermitsCount'
  BY <1>1, <1>8 DEF WorkerTakes, Perform, main, server
<1>9. ASSUME NEW g \in Subgames, Submit(g) PROVE RepliesCount' /\ PermitsCount'
  BY <1>1, <1>9 DEF Submit, nodes
<1>10. CASE SenderTakes \/ ReceiverStops \/ UNCHANGED vars
  BY <1>1, <1>10 DEF SenderTakes, ReceiverStops, vars, main, server, nodes
<1> QED BY NextCases, CountsNext, CountsSend, CountsReceive, <1>2, <1>3, <1>4, <1>5, <1>6, <1>7,
           <1>8, <1>9, <1>10

-----------------------------------------------------------------------------
(* The inductive invariant *)

(* In every state of the cluster each job is in one place, each message is *)
(* of its pass, and the replies and permits add up.                        *)
THEOREM Invariant == Spec => []Inv
<1>1. Init => Inv BY InitInv
<1>2. Inv /\ [Next]_vars => Inv'
  <2> SUFFICES ASSUME Inv, [Next]_vars PROVE Inv' OBVIOUS
  <2>1. Types'
    BY MainTypeStep, ServerTypeStep, MailTypeStep, NodesTypeStep, WorkersTypeStep DEF Inv, Types
  <2>2. JobsInv' BY JobsStep DEF Inv
  <2>3. SpecInv' /\ MessagesInv' /\ NodeSpecInv' BY SpecStep, MessagesStep, NodeSpecStep
  <2>4. MainInv' /\ QuitInv' /\ FitInv' BY MainInvStep, QuitInvStep, FitStep
  <2>5. RepliesCount' /\ PermitsCount' BY CountsStep
  <2> QED BY <2>1, <2>2, <2>3, <2>4, <2>5 DEF Inv
<1> QED BY <1>1, <1>2, PTL DEF Spec

-----------------------------------------------------------------------------
(* What the runs check *)

LEMMA InvGives == Inv => TypeOK /\ RepliesMatch /\ QuietNodes /\ NodesHaveDone
<1> SUFFICES ASSUME Inv PROVE TypeOK /\ RepliesMatch /\ QuietNodes /\ NodesHaveDone OBVIOUS
<1>0. Types /\ JobsInv /\ MainInv /\ step \in Steps \cup {"start"}
  BY DEF Inv, Types, MainType
<1>a. \A q : IsQueue(q) => q \in Queues
  <2> SUFFICES ASSUME NEW q, IsQueue(q) PROVE q \in Queues OBVIOUS
  <2>1. Len(q) \in 0 .. QueueSize /\ q \in [1 .. Len(q) -> Indices] BY Numbers DEF IsQueue
  <2> QED BY <2>1 DEF Queues
<1>b. Cardinality(Outstanding) \in Nat /\ mpiSem \in Nat /\ copySem \in Nat /\ sent \in Nat
      /\ waited \in Nat
  BY <1>0, FiniteNodes DEF Types, MainType, ServerType
<1>1. TypeOK
  <2>1. /\ step \in Steps \cup {"start"} /\ sent \in 0 .. NumNodes + 1
        /\ waited \in 0 .. NumNodes /\ iter \in 0 .. 1 /\ todo \subseteq jobs
        /\ jobs \subseteq Subgames
    BY <1>0, Numbers DEF Types, MainType, MainInv
  <2>2. spec \in [Subgames -> JobSpecs] /\ finished \in [Subgames -> 0 .. 1]
    BY <1>0 DEF Types, ServerType, JobsInv, FinishedInv
  <2>3. mpiSem \in 0 .. NumNodes
    <3>1. CASE step \in Requests
      <4>1. sent <= NumNodes BY <1>0, <3>1 DEF MainInv
      <4>2. waited + mpiSem + Cardinality(Outstanding) = sent BY <3>1 DEF Inv, RepliesCount
      <4> QED BY <1>b, <4>1, <4>2, Numbers
    <3>2. CASE step \notin Requests BY <3>2, Numbers DEF Inv, RepliesCount
    <3> QED BY <3>1, <3>2
  <2>4. copySem \in 0 .. NetworkCopies
    <3>1. copySem <= NetworkCopies BY <1>b, Numbers DEF Inv, PermitsCount
    <3> QED BY <1>b, <3>1, Numbers
  <2>5. workQ \in Queues /\ \A n \in Nodes : nodeQ[n] \in Queues
    BY <1>0, <1>a, QueueOfNode DEF Types, ServerType
  <2>6. sending \subseteq Indices /\ Cardinality(sending) <= 1
    <3>1. CASE sending = {} BY <3>1, FS_EmptySet
    <3>2. ASSUME NEW x \in Indices, sending = {x} PROVE Cardinality(sending) <= 1
      BY <3>2, FS_Singleton
    <3> QED BY <1>0, <3>1, <3>2 DEF Types, ServerType
  <2>7. ASSUME NEW n \in Nodes
        PROVE  /\ Len(req[n]) <= Buffer /\ Len(reply[n]) <= Buffer
               /\ Range(req[n]) \subseteq Messages /\ Range(reply[n]) \subseteq Replies
    <3>1. req[n] \in Seq(Messages) /\ reply[n] \in Seq(Replies) BY <1>0 DEF Types, MailType
    <3>2. Range(req[n]) \subseteq Messages /\ Range(reply[n]) \subseteq Replies
      BY <3>1 DEF Range
    <3> QED BY <1>0, <3>2 DEF Types, MailType
  <2>8. /\ remoteStats \in [Nodes -> StatsOf] /\ receiving \in {"runs", "told", "gone"}
        /\ weight \in [Nodes -> 0 .. 1] /\ nodeSpec \in [Subgames -> JobSpecs]
        /\ nodePc \in [Nodes -> NodePoints]
        /\ nodeCur \in [Nodes -> Subgames] /\ quits \in [Nodes -> 0 .. NumWorkers]
        /\ same \in [Nodes -> BOOLEAN]
    BY <1>0 DEF Types, ServerType, NodesType, WorkersType
  <2>9. pc \in [Workers -> {"wait", "perform", "reply", "gone"}] /\ cur \in [Workers -> Indices]
    BY <1>0 DEF Types, WorkersType, WorkPoints
  <2>10. nodePc \in [Nodes -> Requests \cup {"receive", "add", "loaded", "dumped", "quit", "gone"}]
    BY <2>8 DEF NodePoints
  <2> QED BY <2>1, <2>2, <2>3, <2>4, <2>5, <2>6, <2>7, <2>8, <2>9, <2>10
      DEF TypeOK, Messages, Replies
<1>2. RepliesMatch
  <2> SUFFICES ASSUME NEW n \in Nodes, NEW i \in DOMAIN reply[n], reply[n][i].tag = "job"
               PROVE  LET m == reply[n][i]
                      IN m.spec = spec[m.g] /\ m.spec.iter = iter /\ m.g \in jobs
    BY DEF RepliesMatch, Range
  <2> DEFINE m == reply[n][i]
  <2>1. reply[n] \in Seq(Replies) BY <1>0 DEF Types, MailType
  <2>2. m \in Replies BY <2>1
  <2>3. m.g \in Subgames /\ JobAmong(reply[n], m.g) BY <2>2, MessageKinds DEF JobAmong
  <2>4. m.spec = Now BY DEF Inv, MessagesInv, JobsSay
  <2> HIDE DEF m
  <2>5. At(m.g, "reply") BY <1>0, <2>3, AtReply DEF JobsInv
  <2>6. m.g \in jobs \ todo BY <2>3, <2>5, JobOfPass DEF Places
  <2>7. spec[m.g] = Now BY <2>6 DEF Inv, SpecInv
  <2> QED BY <2>4, <2>6, <2>7 DEF Now, m
<1>3. QuietNodes
  <2> DEFINE copying == {n \in Nodes : nodePc[n] \in {"load", "dump"}
                                       \/ \E m \in Range(req[n]) : m.tag \in {"load", "dump"}}
  <2>1. ASSUME NEW n \in Nodes, nodePc[n] \in Requests PROVE ~AtWork(n)
    <3>1. step \in Requests BY <2>1, NodeFacts
    <3>2. step \notin Passes /\ step # "quit" BY <3>1 DEF Requests, Passes
    <3> QED BY <3>2, NoJobs, QuietNode
  <2>2. ASSUME NEW n \in copying PROVE step \in {"load", "dump"} /\ n \in Outstanding
    <3>1. CASE nodePc[n] \in {"load", "dump"}
      <4>1. Serving(n) BY <3>1, NodeFacts DEF Requests
      <4>2. step = nodePc[n] /\ nodePc[n] # "receive" BY <3>1, <4>1 DEF Serving
      <4> QED BY <3>1, <4>1, <4>2 DEF Serving, Outstanding
    <3>2. ASSUME NEW i \in DOMAIN req[n], req[n][i].tag \in {"load", "dump"}
          PROVE  step \in {"load", "dump"} /\ n \in Outstanding
      <4>1. Fits(n) /\ req[n] # <<>> BY <3>2 DEF Inv, FitInv
      <4>2. \A x : DOMAIN <<x>> = {1} /\ <<x>>[1] = x OBVIOUS
      <4>3. Start.tag = "iterstart" /\ Ask.tag = step BY DEF Start, Ask
      <4>4. req[n] # <<Start>> BY <3>2, <4>2, <4>3
      <4>5. CASE step = "start" BY <4>1, <4>5 DEF Fits, Told
      <4>6. CASE step = "iterstart"
        BY <4>1, <4>4, <4>6 DEF Fits, Current, Told
      <4>7. CASE step \in Requests
        <5>1. InRequest(n) BY <4>7, NodeFacts
        <5>2. Asked(n)
          <6>1. ~Unasked(n) BY <4>1, <4>4 DEF Unasked, Current, Told
          <6>2. ~Serving(n) /\ ~Answered(n) /\ ~Served(n)
            BY <4>1 DEF Serving, Answered, Served, Told
          <6> QED BY <5>1, <6>1, <6>2 DEF InRequest
        <5>3. n \in Outstanding BY <4>1, <5>2 DEF Asked, Outstanding
        <5>4. step \in {"load", "dump"}
          <6>1. CASE req[n] = <<Ask>> BY <3>2, <4>2, <4>3, <6>1
          <6>2. CASE req[n] = <<Start, Ask>>
            <7>1. DOMAIN req[n] = {1, 2} /\ req[n][1] = Start /\ req[n][2] = Ask BY <6>2
            <7> QED BY <3>2, <4>3, <7>1
          <6> QED BY <5>2, <6>1, <6>2 DEF Asked
        <5> QED BY <5>3, <5>4
      <4>8. CASE step \in Passes
        <5>1. InPass(n) BY <4>8, NodeFacts
        <5>2. i = 1 BY <3>2, <5>1 DEF InPass
        <5> QED BY <3>2, <4>1, <4>3, <5>1, <5>2 DEF InPass
      <4>9. CASE step = "quit" BY <3>2, <4>1, <4>9 DEF Fits, AtEnd
      <4> QED BY <1>0, <4>5, <4>6, <4>7, <4>8, <4>9 DEF Steps
    <3> QED BY <2>2, <3>1, <3>2 DEF Range
  <2>3. Cardinality(copying) <= NetworkCopies
    <3>1. CASE copying = {} BY <3>1, FS_EmptySet, Numbers
    <3>2. CASE copying # {}
      <4>1. step \in {"load", "dump"} /\ copying \subseteq Outstanding BY <2>2, <3>2
      <4> HIDE DEF copying
      <4>2. Cardinality(copying) <= Cardinality(Outstanding) /\ IsFiniteSet(copying)
        BY <4>1, FiniteNodes, FS_Subset
      <4>3. Cardinality(copying) \in Nat BY <4>2, FS_CardinalityType
      <4>4. copySem + Cardinality(Outstanding) = NetworkCopies
        BY <4>1 DEF Inv, PermitsCount
      <4> QED BY <1>b, <4>2, <4>3, <4>4, Numbers
    <3> QED BY <3>1, <3>2
  <2> QED BY <2>1, <2>3 DEF QuietNodes
<1>4. NodesHaveDone
  <2>1. ASSUME step \in Requests, StepDone, NEW n \in Nodes PROVE Kept(n)
    <3>1. step # "quit" BY <2>1 DEF Requests
    <3> QED BY <2>1, <3>1, StepEnds
  <2>2. ASSUME receiving = "gone", NEW n \in Nodes PROVE reply[n] = <<>>
    <3>1. step = "quit" BY <2>2 DEF Inv, QuitInv
    <3> QED BY <3>1 DEF Inv, FitInv, Fits, AtEnd
  <2> QED BY <2>1, <2>2 DEF NodesHaveDone, Kept, Requests
<1> QED BY <1>1, <1>2, <1>3, <1>4

(* Variables keep their types: replies that main has not waited for and    *)
(* permits never exceed the nodes and the limit of the network.            *)
THEOREM TypeCorrect == Spec => []TypeOK
BY Invariant, InvGives, PTL

(* A reply that comes back to the server answers the job of this pass that *)
(* its SubgameSpec describes, worked on with the weights of this iteration.*)
THEOREM RepliesAnswer == Spec => []RepliesMatch
BY Invariant, InvGives, PTL

(* mpiWorkerLoad, mpiWorkerDump and sumSubgameStats take no lock: no job is *)
(* queued or in the hands of a worker of the node meanwhile.               *)
THEOREM NodesRest == Spec => []QuietNodes
BY Invariant, InvGives, PTL

(* When main has counted its replies, each of them is of this step: every  *)
(* node has loaded or saved, or its statistics are this iteration's.       *)
THEOREM NodesAnswer == Spec => []NodesHaveDone
BY Invariant, InvGives, PTL

-----------------------------------------------------------------------------
(* Refinement of the job service *)

PendingAt == {"workQ", "sending", "req", "add", "nodeQ"}
RunningAt == {"worker", "reply"}

Done == {g \in Subgames : finished[g] > 0}

MapsFit ==
  /\ Pending = {g \in Subgames : \E x \in PendingAt : At(g, x)}
  /\ Running = {g \in Subgames : \E x \in RunningAt : At(g, x)}
  /\ Done = {g \in Subgames : At(g, "done")}

LEMMA JobsInMail == \A q, g : g \in JobsIn(Range(q)) <=> JobAmong(q, g)
BY DEF JobsIn, JobAmong, Range

LEMMA Maps == Inv => MapsFit
<1> SUFFICES ASSUME Inv PROVE MapsFit OBVIOUS
<1>0. Types /\ JobsInv BY DEF Inv
<1>a. Quit \notin Subgames BY Numbers
<1>b. \A n \in Nodes : /\ \A g \in JobsIn(Range(req[n])) : g \in Subgames
                       /\ \A g \in JobsIn(Range(reply[n])) : g \in Subgames
  <2> SUFFICES ASSUME NEW n \in Nodes
               PROVE  /\ \A i \in DOMAIN req[n] : req[n][i].tag = "job" => req[n][i].g \in Subgames
                      /\ \A i \in DOMAIN reply[n] : reply[n][i].tag = "job"
                                                    => reply[n][i].g \in Subgames
    BY DEF JobsIn, Range
  <2>1. req[n] \in Seq(Messages) /\ reply[n] \in Seq(Replies) BY <1>0 DEF Types, MailType
  <2>2. /\ \A i \in DOMAIN req[n] : req[n][i] \in Messages
        /\ \A i \in DOMAIN reply[n] : reply[n][i] \in Replies
    BY <2>1
  <2> QED BY <2>2, MessageKinds
<1>c. \A g : g \in Pending <=> /\ g # Quit
                               /\ \/ g \in Range(workQ) \/ g \in sending
                                  \/ \E n \in Nodes : g \in Range(nodeQ[n])
                                  \/ \E n \in Nodes : g \in JobsIn(Range(req[n]))
                                  \/ \E n \in Nodes : nodePc[n] = "add" /\ nodeCur[n] = g
  <2> DEFINE held == UNION {Range(nodeQ[n]) \cup JobsIn(Range(req[n])) : n \in Nodes}
             adding == {nodeCur[n] : n \in {x \in Nodes : nodePc[x] = "add"}}
  <2>1. Pending = (Range(workQ) \cup sending \cup held \cup adding) \ {Quit} BY DEF Pending
  <2>2. \A g : g \in adding <=> \E n \in Nodes : nodePc[n] = "add" /\ nodeCur[n] = g OBVIOUS
  <2>3. \A g : g \in held <=> \E n \in Nodes : g \in Range(nodeQ[n]) \/ g \in JobsIn(Range(req[n]))
    OBVIOUS
  <2> HIDE DEF held, adding
  <2>4. \A g : g \in Pending <=> /\ g # Quit
                                 /\ \/ g \in Range(workQ) \/ g \in sending
                                    \/ g \in held \/ g \in adding
    BY <2>1
  <2> QED BY <2>2, <2>3, <2>4
<1>1. Pending \subseteq Subgames
  <2>1. Range(workQ) \subseteq Indices
    <3>1. workQ \in Seq(Indices) BY <1>0 DEF Types, ServerType, IsQueue
    <3> QED BY <3>1 DEF Range
  <2>2. sending \subseteq Indices BY <1>0 DEF Types, ServerType
  <2>3. \A n \in Nodes : Range(nodeQ[n]) \subseteq Indices /\ nodeCur[n] \in Subgames
    <3> SUFFICES ASSUME NEW n \in Nodes
                 PROVE  Range(nodeQ[n]) \subseteq Indices /\ nodeCur[n] \in Subgames
      OBVIOUS
    <3>1. nodeQ[n] \in Seq(Indices) /\ nodeCur[n] \in Subgames BY <1>0 DEF Types, NodesType
    <3> QED BY <3>1 DEF Range
  <2> SUFFICES ASSUME NEW g \in Pending PROVE g \in Subgames OBVIOUS
  <2> QED BY <1>b, <1>c, <2>1, <2>2, <2>3 DEF Indices
<1>2. Running \subseteq Subgames
  <2>1. \A w \in Workers : pc[w] \in {"perform", "reply"} => cur[w] \in Subgames
    BY <1>0 DEF Types, WorkersType, WorkPoints
  <2> QED BY <1>b, <2>1 DEF Running
<1>3. ASSUME NEW g \in Subgames PROVE g \in Pending <=> \E x \in PendingAt : At(g, x)
  <2>1. (\E n \in Nodes : g \in Range(nodeQ[n])) <=> At(g, "nodeQ")
    BY <1>0, AtNodeQ, NodeOfSubgame DEF JobsInv, At
  <2>2. (\E n \in Nodes : g \in JobsIn(Range(req[n]))) <=> At(g, "req")
    BY <1>0, AtReq, NodeOfSubgame, JobsInMail DEF JobsInv, At
  <2>3. (\E n \in Nodes : nodePc[n] = "add" /\ nodeCur[n] = g) <=> At(g, "add")
    BY <1>0, NodeOfSubgame DEF JobsInv, AddInv, At
  <2>4. (g \in Range(workQ) <=> At(g, "workQ")) /\ (g \in sending <=> At(g, "sending"))
    BY DEF At
  <2>5. g \in Pending <=> \/ g \in Range(workQ) \/ g \in sending
                          \/ \E n \in Nodes : g \in Range(nodeQ[n])
                          \/ \E n \in Nodes : g \in JobsIn(Range(req[n]))
                          \/ \E n \in Nodes : nodePc[n] = "add" /\ nodeCur[n] = g
    BY <1>a, <1>c
  <2> QED BY <2>1, <2>2, <2>3, <2>4, <2>5 DEF PendingAt
<1>4. ASSUME NEW g \in Subgames PROVE g \in Running <=> \E x \in RunningAt : At(g, x)
  <2>1. (\E n \in Nodes : g \in JobsIn(Range(reply[n]))) <=> At(g, "reply")
    BY <1>0, AtReply, NodeOfSubgame, JobsInMail DEF JobsInv, At
  <2>2. (\E w \in Workers : pc[w] \in {"perform", "reply"} /\ cur[w] = g) <=> At(g, "worker")
    BY DEF At, Works, WorkPoints
  <2>3. g \in Running <=> \/ \E w \in Workers : pc[w] \in {"perform", "reply"} /\ cur[w] = g
                          \/ \E n \in Nodes : g \in JobsIn(Range(reply[n]))
    BY DEF Running
  <2> QED BY <2>1, <2>2, <2>3 DEF RunningAt
<1>5. Done = {g \in Subgames : At(g, "done")} BY DEF Done, At
<1> QED BY <1>1, <1>2, <1>3, <1>4, <1>5 DEF MapsFit

LEMMA MapsNext == Inv' => MapsFit'
BY Maps, PTL

LEMMA MapsStay == ASSUME MapsFit, MapsFit', AllStay PROVE UNCHANGED Service!vars
<1>1. \A g \in Subgames, x \in Places : (At(g, x))' <=> At(g, x) BY DEF AllStay, Stays
<1>2. PendingAt \subseteq Places /\ RunningAt \subseteq Places /\ "done" \in Places
  BY DEF PendingAt, RunningAt, Places
<1>3. Pending' = Pending BY <1>1, <1>2 DEF MapsFit, PendingAt
<1>4. Running' = Running BY <1>1, <1>2 DEF MapsFit, RunningAt
<1>5. Done' = Done BY <1>1, <1>2 DEF MapsFit
<1> QED BY <1>3, <1>4, <1>5 DEF Service!vars, Done

(* The job of m is at one place before and at one after a step; the others *)
(* are where they were.                                                    *)
LEMMA MapsMove ==
  ASSUME MapsFit, MapsFit', PlacesInv, PlacesInv', NEW m \in Subgames,
         NEW from \in Places, NEW to \in Places, Moved(m, from, to)
  PROVE  /\ (m \in Pending <=> from \in PendingAt) /\ (m \in Running <=> from \in RunningAt)
         /\ m \in Done <=> from = "done"
         /\ Pending' = IF to \in PendingAt THEN Pending \cup {m} ELSE Pending \ {m}
         /\ Running' = IF to \in RunningAt THEN Running \cup {m} ELSE Running \ {m}
         /\ Done' = IF to = "done" THEN Done \cup {m} ELSE Done \ {m}
<1>1. \A x \in Places : (At(m, x) <=> x = from) /\ ((At(m, x))' <=> x = to)
  BY DEF PlacesInv, Moved
<1>2. \A g \in Subgames \ {m}, x \in Places : (At(g, x))' <=> At(g, x) BY DEF Moved, Stays
<1>3. PendingAt \subseteq Places /\ RunningAt \subseteq Places /\ "done" \in Places
  BY DEF PendingAt, RunningAt, Places
<1>4. PendingAt' = PendingAt /\ RunningAt' = RunningAt BY DEF PendingAt, RunningAt
<1>5. /\ (m \in Pending <=> from \in PendingAt) /\ (m \in Pending' <=> to \in PendingAt)
      /\ \A g \in Subgames \ {m} : g \in Pending' <=> g \in Pending
      /\ Pending \subseteq Subgames /\ Pending' \subseteq Subgames
  BY <1>1, <1>2, <1>3, <1>4 DEF MapsFit
<1>6. /\ (m \in Running <=> from \in RunningAt) /\ (m \in Running' <=> to \in RunningAt)
      /\ \A g \in Subgames \ {m} : g \in Running' <=> g \in Running
      /\ Running \subseteq Subgames /\ Running' \subseteq Subgames
  BY <1>1, <1>2, <1>3, <1>4 DEF MapsFit
<1>7. /\ (m \in Done <=> from = "done") /\ (m \in Done' <=> to = "done")
      /\ \A g \in Subgames \ {m} : g \in Done' <=> g \in Done
      /\ Done \subseteq Subgames /\ Done' \subseteq Subgames
  BY <1>1, <1>2, <1>3 DEF MapsFit
<1>8. Pending' = IF to \in PendingAt THEN Pending \cup {m} ELSE Pending \ {m} BY <1>5
<1>9. Running' = IF to \in RunningAt THEN Running \cup {m} ELSE Running \ {m} BY <1>6
<1>10. Done' = IF to = "done" THEN Done \cup {m} ELSE Done \ {m} BY <1>7
<1> QED BY <1>5, <1>6, <1>7, <1>8, <1>9, <1>10

(* A job's way is the service's: submitted, picked up by a worker, and     *)
(* finished when its reply is in.                                          *)
LEMMA ServesMove ==
  ASSUME Inv, Inv', NEW m \in Subgames, JobMoves(m)
  PROVE  Service!Submit(m) \/ Service!Start(m) \/ Service!Finish(m) \/ UNCHANGED Service!vars
<1>0. MapsFit /\ MapsFit' /\ PlacesInv /\ PlacesInv' BY Maps, MapsNext DEF Inv, JobsInv
<1>1. ASSUME NEW from \in Places, NEW to \in Places, Moved(m, from, to)
      PROVE  /\ (m \in Pending <=> from \in PendingAt) /\ (m \in Running <=> from \in RunningAt)
             /\ m \in Done <=> from = "done"
             /\ Pending' = IF to \in PendingAt THEN Pending \cup {m} ELSE Pending \ {m}
             /\ Running' = IF to \in RunningAt THEN Running \cup {m} ELSE Running \ {m}
             /\ Done' = IF to = "done" THEN Done \cup {m} ELSE Done \ {m}
  BY <1>0, <1>1, MapsMove
<1>2. CASE Moved(m, "todo", "workQ")
  <2>1. /\ m \notin Pending /\ m \notin Running /\ m \notin Done
        /\ Pending' = Pending \cup {m} /\ Running' = Running /\ Done' = Done
    BY <1>1, <1>2 DEF Places, PendingAt, RunningAt
  <2> QED BY <2>1 DEF Service!Submit, Done
<1>3. ASSUME NEW from \in PendingAt, NEW to \in PendingAt, Moved(m, from, to)
      PROVE  UNCHANGED Service!vars
  <2>1. /\ m \in Pending /\ m \notin Running /\ m \notin Done
        /\ Pending' = Pending \cup {m} /\ Running' = Running \ {m} /\ Done' = Done \ {m}
    BY <1>1, <1>3 DEF Places, PendingAt, RunningAt
  <2>2. Pending' = Pending /\ Running' = Running /\ Done' = Done BY <2>1
  <2> QED BY <2>2 DEF Service!vars, Done
<1>4. CASE Moved(m, "nodeQ", "worker")
  <2>1. /\ m \in Pending /\ m \notin Running /\ m \notin Done
        /\ Pending' = Pending \ {m} /\ Running' = Running \cup {m} /\ Done' = Done
    BY <1>1, <1>4 DEF Places, PendingAt, RunningAt
  <2> QED BY <2>1 DEF Service!Start, Done
<1>5. CASE Moved(m, "worker", "reply")
  <2>1. /\ m \notin Pending /\ m \in Running /\ m \notin Done
        /\ Pending' = Pending \ {m} /\ Running' = Running \cup {m} /\ Done' = Done \ {m}
    BY <1>1, <1>5 DEF Places, PendingAt, RunningAt
  <2>2. Pending' = Pending /\ Running' = Running /\ Done' = Done BY <2>1
  <2> QED BY <2>2 DEF Service!vars, Done
<1>6. CASE Moved(m, "reply", "done")
  <2>1. /\ m \notin Pending /\ m \in Running
        /\ Pending' = Pending /\ Running' = Running \ {m} /\ Done' = Done \cup {m}
    BY <1>1, <1>6 DEF Places, PendingAt, RunningAt
  <2> QED BY <2>1 DEF Service!Finish, Done
<1>7. /\ "workQ" \in PendingAt /\ "sending" \in PendingAt /\ "req" \in PendingAt
      /\ "add" \in PendingAt /\ "nodeQ" \in PendingAt
  BY DEF PendingAt
<1> QED BY <1>2, <1>3, <1>4, <1>5, <1>6, <1>7 DEF JobMoves

LEMMA ServesNext ==
  ASSUME Inv, Inv', NEW next \in Steps, NextStep(next)
  PROVE  Service!NextPass \/ UNCHANGED Service!vars
<1>0. MapsFit /\ MapsFit' BY Maps, MapsNext
<1>1. \A g \in Subgames, x \in Places \ {"idle", "done"} : ~At(g, x)
  BY AllDone DEF NextStep, Inv, JobsInv
<1>2. UNCHANGED <<workQ, sending, req, nodePc, nodeCur, nodeQ, pc, cur, reply>>
  BY DEF NextStep, nodes, workers
<1>3. \A x \in PendingAt \cup RunningAt : Stays(x) BY <1>2, StaysIf DEF PendingAt, RunningAt
<1>4. \A g \in Subgames, x \in PendingAt \cup RunningAt : ~At(g, x) /\ ~(At(g, x))'
  BY <1>1, <1>3 DEF Stays, PendingAt, RunningAt, Places
<1>5. \A g \in Subgames : finished'[g] = 0 BY NextStepMoves DEF Inv
<1>6. Done' = {} BY <1>5 DEF Done
<1>7. PendingAt' = PendingAt /\ RunningAt' = RunningAt BY DEF PendingAt, RunningAt
<1>8. Pending = {} /\ Pending' = {} BY <1>0, <1>4, <1>7 DEF MapsFit
<1>9. Running = {} /\ Running' = {} BY <1>0, <1>4, <1>7 DEF MapsFit
<1>10. CASE Done = {} BY <1>6, <1>8, <1>9, <1>10 DEF Service!vars, Done
<1>11. CASE Done # {} BY <1>6, <1>8, <1>9, <1>11 DEF Service!NextPass, Done
<1> QED BY <1>10, <1>11

(* Queues, threads and messages perform every job of a pass once, and the  *)
(* next pass begins when all are reported.                                 *)
THEOREM ClusterServesJobs == Spec => ServesJobs
<1>1. Init => Service!Init
  <2> SUFFICES ASSUME Init PROVE Service!Init OBVIOUS
  <2>1. MapsFit BY InitInv, Maps
  <2>2. \A g \in Subgames : At(g, "idle") BY DEF Init, At
  <2>3. \A g \in Subgames, x \in Places \ {"idle"} : ~At(g, x)
    BY <2>2, InitInv, OnePlace DEF Inv, JobsInv, Places
  <2>4. Pending = {} /\ Running = {} /\ Done = {}
    BY <2>1, <2>3 DEF MapsFit, PendingAt, RunningAt, Places
  <2> QED BY <2>4 DEF Service!Init, Done
<1>2. Inv /\ Inv' /\ [Next]_vars => [Service!Next]_(Service!vars)
  <2> SUFFICES ASSUME Inv, Inv', [Next]_vars
               PROVE  Service!Next \/ UNCHANGED Service!vars
    OBVIOUS
  <2>1. \/ AllStay
        \/ \E g \in Subgames : JobMoves(g)
        \/ \E next \in Steps : NextStep(next)
    BY JobsStep DEF Inv
  <2>2. CASE AllStay BY <2>2, Maps, MapsNext, MapsStay
  <2>3. ASSUME NEW g \in Subgames, JobMoves(g) PROVE Service!Next \/ UNCHANGED Service!vars
    BY <2>3, ServesMove DEF Service!Next
  <2>4. ASSUME NEW next \in Steps, NextStep(next) PROVE Service!Next \/ UNCHANGED Service!vars
    BY <2>4, ServesNext DEF Service!Next
  <2> QED BY <2>1, <2>2, <2>3, <2>4
<1> QED BY <1>1, <1>2, Invariant, PTL DEF Spec, ServesJobs, Service!Spec
=============================================================================
