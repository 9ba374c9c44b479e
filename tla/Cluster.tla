------------------------------- MODULE Cluster -------------------------------
(***************************************************************************)
(* A run on a cluster.  Rank 0, the server, walks the trunk; every other   *)
(* rank is a node that stores the subgames whose index it gets by          *)
(* getNodeForSubgame and works on them in memory.  The server's send       *)
(* thread turns queued jobs into messages, its receive thread turns        *)
(* replies into semaphore posts; main itself sends the start of an         *)
(* iteration and the requests to load, to dump and for statistics.  A node *)
(* reads one message after the other and queues jobs for its workers.      *)
(* Messages from one rank to another are received in the order in which    *)
(* the sends happen, whatever thread sends them.                           *)
(***************************************************************************)
EXTENDS Integers, Sequences, FiniteSets, Functions

CONSTANTS NumSubgames,
          NumNodes,      \* params.numNodes
          NumWorkers,    \* worker threads of a node
          QueueSize,     \* length of the work queues of server and nodes
          NetworkCopies, \* OtherParams.networkSimultaneousCopies
          Buffer,        \* messages that MPI_Send leaves on their way to a rank
          Quit           \* the negative index that stops a thread

ASSUME NumbersAssumption ==
  /\ NumSubgames \in Nat \ {0} /\ NumNodes \in Nat \ {0} /\ NumWorkers \in Nat \ {0}
  /\ QueueSize \in Nat \ {0} /\ NetworkCopies \in Nat \ {0} /\ Buffer \in Nat \ {0}
  /\ Quit \notin 0 .. NumSubgames - 1

Subgames == 0 .. NumSubgames - 1
Nodes    == 0 .. NumNodes - 1
Workers  == Nodes \X (1 .. NumWorkers)

Passes   == {"cfr1", "cfr0", "br"}
Requests == {"load", "dump", "stats"}   \* main waits for a reply of each node
Steps    == Passes \cup Requests \cup {"iterstart", "quit"}

(* What main does after each step: values may be loaded; an iteration is a *)
(* pass for each player and perhaps one for the best response; then come   *)
(* the statistics and, if a signal asked for it, the number of iterations  *)
(* is reached or the run is done early, a checkpoint.                      *)
Schedule ==
  [start     |-> {"load", "iterstart", "dump", "quit"},
   load      |-> {"iterstart", "dump", "quit"},
   iterstart |-> {"cfr1"},
   cfr1      |-> {"cfr0"},
   cfr0      |-> {"br", "stats"},
   br        |-> {"stats"},
   stats     |-> {"iterstart", "dump", "quit"},
   dump      |-> {"iterstart", "quit"},
   quit      |-> {}]

VARIABLES
  step,      \* what main is doing
  sent,      \* how many nodes it has sent the message of this step
  waited,    \* how many replies it has waited for
  iter,      \* main's iter, modulo 2
  todo, jobs,             \* subgames to submit, and all, of this pass
  spec,      \* g_subgames: type of a job and iteration of what is in its union
  finished,  \* SubgameSpec.finished
  mpiSem, copySem,        \* g_mpiSem, g_networkCopySem
  remoteStats,            \* g_mpiRemoteStats: iteration they are about
  workQ, sending,         \* g_work, and the send thread's index in a set
  receiving, \* the receive thread: runs, is told to stop, is gone
  req, reply,             \* messages to and from each node
  weight,    \* a node's g_updateWeight, by iteration
  nodeSpec,  \* g_subgames of the nodes
  nodePc, nodeCur,        \* the loop of mpiWorkerNodeMain
  nodeQ,     \* a node's g_work
  quits,     \* quit indices a node has queued
  pc, cur,   \* the workers
  same       \* a node's strategy is what the checkpoint directory holds

main    == <<step, sent, waited, iter, todo, jobs>>
server  == <<spec, finished, mpiSem, copySem, remoteStats, workQ, sending, receiving>>
nodes   == <<weight, nodeSpec, nodePc, nodeCur, nodeQ, quits>>
workers == <<pc, cur, same>>
vars    == <<main, server, req, reply, nodes, workers>>

NodeOf(g) == g % NumNodes

Idle == [type |-> "none", iter |-> 0]

(* setUpGlobals on all ranks, after the handshake. *)
Init ==
  /\ step = "start" /\ sent = 0 /\ waited = 0 /\ iter = 0 /\ todo = {} /\ jobs = {}
  /\ spec = [g \in Subgames |-> Idle] /\ finished = [g \in Subgames |-> 0]
  /\ mpiSem = 0 /\ copySem = NetworkCopies
  /\ remoteStats = [n \in Nodes |-> <<0, FALSE>>]
  /\ workQ = <<>> /\ sending = {} /\ receiving = "runs"
  /\ req = [n \in Nodes |-> <<>>] /\ reply = [n \in Nodes |-> <<>>]
  /\ weight = [n \in Nodes |-> 0] /\ nodeSpec = [g \in Subgames |-> Idle]
  /\ nodePc = [n \in Nodes |-> "receive"] /\ nodeCur = [n \in Nodes |-> 0]
  /\ nodeQ = [n \in Nodes |-> <<>>] /\ quits = [n \in Nodes |-> 0]
  /\ pc = [w \in Workers |-> "wait"] /\ cur = [w \in Workers |-> 0]
  /\ same = [n \in Nodes |-> FALSE]

(* MPI_Send to a node and to the server; it may block until there is room. *)
CanSend(n)    == Len(req[n]) < Buffer
Send(n, m)    == CanSend(n) /\ req' = [req EXCEPT ![n] = Append(@, m)]
Answer(n, m)  == Len(reply[n]) < Buffer /\ reply' = [reply EXCEPT ![n] = Append(@, m)]

-----------------------------------------------------------------------------
(* main and trunk thread of the server *)

(* Faulty: main goes on once every job is submitted. *)
AllSubmitted == todo = {}

AllReported == todo = {} /\ \A g \in jobs : finished[g] > 0

(* Faulty: main goes on while a node has yet to reply. *)
StepDoneEarly ==
  CASE step \in Passes    -> AllReported
    [] step \in Requests  -> waited = NumNodes - 1
    [] step = "iterstart" -> sent = NumNodes
    [] OTHER              -> step = "start"

(* Faulty: the pass begins before the last node has the weights. *)
StepDoneUnsent ==
  CASE step \in Passes    -> AllReported
    [] step \in Requests  -> waited = NumNodes
    [] step = "iterstart" -> sent = NumNodes - 1
    [] OTHER              -> step = "start"

StepDone ==
  CASE step \in Passes    -> AllReported
    [] step \in Requests  -> waited = NumNodes
    [] step = "iterstart" -> sent = NumNodes
    [] OTHER              -> step = "start"

(* main turns to the next thing; after a pass it has waited for `finished` *)
(* of each job.  A CFR pass skips the subgames the opponent does not reach.*)
(* What nobody reads before it is written again is forgotten, here and in  *)
(* NodeAdd and WorkerReplies: it would only multiply the states.           *)
NextStep(next) ==
  /\ next \in Schedule[step] /\ StepDone
  /\ step' = next /\ sent' = 0 /\ waited' = 0
  /\ iter' = IF next = "iterstart" THEN 1 - iter ELSE iter
  /\ finished' = [g \in Subgames |-> IF g \in jobs THEN finished[g] - 1 ELSE finished[g]]
  /\ jobs' \in IF next = "br" THEN {Subgames}
               ELSE IF next \in Passes THEN SUBSET Subgames ELSE {{}}
  /\ todo' = jobs'
  /\ spec' = [g \in Subgames |-> Idle]
  /\ UNCHANGED <<mpiSem, copySem, remoteStats, workQ, sending, receiving,
                 req, reply, nodes, workers>>

(* Faulty: a copy starts whatever the others do. *)
TakePermitOpen == UNCHANGED copySem

(* Loads and dumps wait for a permit to use the network. *)
TakePermit == IF step \in {"load", "dump"}
              THEN copySem > 0 /\ copySem' = copySem - 1
              ELSE UNCHANGED copySem

(* mpiServerSendMessage to one node after the other. *)
SendToNode ==
  /\ step \in Requests \cup {"iterstart"} /\ sent < NumNodes
  /\ TakePermit
  /\ Send(sent, [tag |-> step, iter |-> iter])
  /\ sent' = sent + 1
  /\ UNCHANGED <<step, waited, iter, todo, jobs, spec, finished, mpiSem, remoteStats,
                 workQ, sending, receiving, reply, nodes, workers>>

(* sem_wait( &g_mpiSem ), once for every node. *)
AwaitReply ==
  /\ step \in Requests /\ sent = NumNodes /\ waited < NumNodes
  /\ mpiSem > 0 /\ mpiSem' = mpiSem - 1
  /\ waited' = waited + 1
  /\ UNCHANGED <<step, sent, iter, todo, jobs, spec, finished, copySem, remoteStats,
                 workQ, sending, receiving, req, reply, nodes, workers>>

(* generateWork_r, generateBR_r at a subgame. *)
Submit(g) ==
  /\ g \in todo /\ Len(workQ) < QueueSize
  /\ todo' = todo \ {g}
  /\ spec' = [spec EXCEPT ![g] = [type |-> step, iter |-> iter]]
  /\ workQ' = Append(workQ, g)
  /\ UNCHANGED <<step, sent, waited, iter, jobs, finished, mpiSem, copySem, remoteStats,
                 sending, receiving, req, reply, nodes, workers>>

(* Faulty: the loop ends at numNodes, and the last node is never told. *)
NumRanks == NumNodes

(* main's loop over i < numNodes + 1, which includes its own rank. *)
Ranks == NumNodes + 1

(* The quit message to each rank, the server's own receive thread first.   *)
SendQuit ==
  /\ step = "quit" /\ sent < Ranks
  /\ IF sent = 0 THEN receiving' = "told" /\ UNCHANGED req
                 ELSE Send(sent - 1, [tag |-> "quit"]) /\ UNCHANGED receiving
  /\ sent' = sent + 1
  /\ UNCHANGED <<step, waited, iter, todo, jobs, spec, finished, mpiSem, copySem,
                 remoteStats, workQ, sending, reply, nodes, workers>>

(* When the receive thread is joined, a negative index for the send thread. *)
StopSender ==
  /\ step = "quit" /\ sent = Ranks /\ waited = 0
  /\ receiving = "gone" /\ Len(workQ) < QueueSize
  /\ workQ' = Append(workQ, Quit)
  /\ waited' = 1
  /\ UNCHANGED <<step, sent, iter, todo, jobs, spec, finished, mpiSem, copySem,
                 remoteStats, sending, receiving, req, reply, nodes, workers>>

-----------------------------------------------------------------------------
(* mpiServerSendThreadMain, which keeps a negative index and ends, and     *)
(* mpiServerReceiveThreadMain.                                             *)

SenderTakes ==
  /\ sending = {} /\ workQ # <<>>
  /\ sending' = {Head(workQ)}
  /\ workQ' = Tail(workQ)
  /\ UNCHANGED <<main, spec, finished, mpiSem, copySem, remoteStats, receiving,
                 req, reply, nodes, workers>>

(* The job's message is made from what its SubgameSpec is now. *)
SenderSends ==
  /\ \E g \in sending \ {Quit} :
       Send(NodeOf(g), [tag |-> "job", g |-> g, spec |-> spec[g]])
  /\ sending' = {}
  /\ UNCHANGED <<main, spec, finished, mpiSem, copySem, remoteStats, workQ, receiving,
                 reply, nodes, workers>>

(* A job's results go into its SubgameSpec, statistics into their array;   *)
(* then whoever waits is posted, and a copy gives its permit back.         *)
Receive(n) ==
  /\ receiving # "gone" /\ reply[n] # <<>>
  /\ reply' = [reply EXCEPT ![n] = Tail(@)]
  /\ LET m == Head(reply[n])
     IN IF m.tag = "job"
        THEN /\ spec' = [spec EXCEPT ![m.g] = m.spec]
             /\ finished' = [finished EXCEPT ![m.g] = @ + 1]
             /\ UNCHANGED <<mpiSem, copySem, remoteStats>>
        ELSE /\ mpiSem' = mpiSem + 1
             /\ copySem' = IF m.tag \in {"load", "dump"} THEN copySem + 1 ELSE copySem
             /\ remoteStats' = IF m.tag = "stats"
                               THEN [remoteStats EXCEPT ![n] = m.stats] ELSE remoteStats
             /\ UNCHANGED <<spec, finished>>
  /\ UNCHANGED <<main, workQ, sending, receiving, req, nodes, workers>>

(* main's own quit message.                                                *)
ReceiverStops ==
  /\ receiving = "told" /\ receiving' = "gone"
  /\ UNCHANGED <<main, spec, finished, mpiSem, copySem, remoteStats, workQ, sending,
                 req, reply, nodes, workers>>

-----------------------------------------------------------------------------
(* mpiWorkerNodeMain and mpiWorkerReceiveMessage *)

NodeGoto(n, point) == nodePc' = [nodePc EXCEPT ![n] = point]

NodeReceive(n) ==
  LET m == Head(req[n])
  IN /\ nodePc[n] = "receive" /\ req[n] # <<>>
     /\ req' = [req EXCEPT ![n] = Tail(@)]
     /\ CASE m.tag = "job" ->
               /\ nodeSpec' = [nodeSpec EXCEPT ![m.g] = m.spec]
               /\ nodeCur' = [nodeCur EXCEPT ![n] = m.g]
               /\ NodeGoto(n, "add") /\ UNCHANGED weight
          [] m.tag = "iterstart" ->
               /\ weight' = [weight EXCEPT ![n] = m.iter]
               /\ UNCHANGED <<nodePc, nodeCur, nodeSpec>>
          [] OTHER -> NodeGoto(n, m.tag) /\ UNCHANGED <<weight, nodeSpec, nodeCur>>
     /\ UNCHANGED <<main, server, reply, nodeQ, quits, workers>>

(* The job waits for space in the queue, and all later messages with it.   *)
NodeAdd(n) ==
  /\ nodePc[n] = "add" /\ Len(nodeQ[n]) < QueueSize
  /\ nodeQ' = [nodeQ EXCEPT ![n] = Append(@, nodeCur[n])]
  /\ nodeCur' = [nodeCur EXCEPT ![n] = 0]
  /\ NodeGoto(n, "receive")
  /\ UNCHANGED <<main, server, req, reply, weight, nodeSpec, quits, workers>>

(* mpiWorkerLoad, mpiWorkerDump: afterwards strategy and files agree.      *)
NodeCopies(n) ==
  /\ nodePc[n] \in {"load", "dump"}
  /\ same' = [same EXCEPT ![n] = TRUE]
  /\ NodeGoto(n, IF nodePc[n] = "load" THEN "loaded" ELSE "dumped")
  /\ UNCHANGED <<main, server, req, reply, weight, nodeSpec, nodeCur, nodeQ, quits, pc, cur>>

AtWork(n) == nodeQ[n] # <<>> \/ \E w \in Workers : w[1] = n /\ pc[w] = "perform"

(* sumSubgameStats adds up storages that a worker may be changing.         *)
StatsOfNode(n) == <<weight[n], ~AtWork(n)>>

(* The reply to the server. *)
NodeReplies(n) ==
  /\ \/ nodePc[n] = "loaded" /\ Answer(n, [tag |-> "load"])
     \/ nodePc[n] = "dumped" /\ Answer(n, [tag |-> "dump"])
     \/ nodePc[n] = "stats"  /\ Answer(n, [tag |-> "stats", stats |-> StatsOfNode(n)])
  /\ NodeGoto(n, "receive")
  /\ UNCHANGED <<main, server, req, weight, nodeSpec, nodeCur, nodeQ, quits, workers>>

(* A negative index for each worker; then the workers are joined.          *)
NodeStops(n) ==
  /\ nodePc[n] = "quit"
  /\ IF quits[n] < NumWorkers
     THEN /\ Len(nodeQ[n]) < QueueSize
          /\ nodeQ' = [nodeQ EXCEPT ![n] = Append(@, Quit)]
          /\ quits' = [quits EXCEPT ![n] = @ + 1]
          /\ UNCHANGED nodePc
     ELSE /\ \A w \in Workers : w[1] = n => pc[w] = "gone"
          /\ NodeGoto(n, "gone")
          /\ UNCHANGED <<nodeQ, quits>>
  /\ UNCHANGED <<main, server, req, reply, weight, nodeSpec, nodeCur, workers>>

-----------------------------------------------------------------------------
(* workerThreadMain of a node, with useMPI *)

WorkerTakes(w) ==
  LET n == w[1]
  IN /\ pc[w] = "wait" /\ nodeQ[n] # <<>>
     /\ nodeQ' = [nodeQ EXCEPT ![n] = Tail(@)]
     /\ cur' = [cur EXCEPT ![w] = Head(nodeQ[n])]
     /\ pc' = [pc EXCEPT ![w] = IF Head(nodeQ[n]) = Quit THEN "gone" ELSE "perform"]
     /\ UNCHANGED <<main, server, req, reply, weight, nodeSpec, nodePc, nodeCur, quits, same>>

(* A CFR job enters the iteration's weight and changes the strategy.       *)
Perform(w) ==
  LET n == w[1]  cfr == nodeSpec[cur[w]].type # "br"
  IN /\ pc[w] = "perform"
     /\ nodeSpec' = IF cfr THEN [nodeSpec EXCEPT ![cur[w]].iter = weight[n]] ELSE nodeSpec
     /\ same' = [same EXCEPT ![n] = @ /\ ~cfr]
     /\ pc' = [pc EXCEPT ![w] = "reply"]
     /\ UNCHANGED <<main, server, req, reply, weight, nodePc, nodeCur, nodeQ, quits, cur>>

WorkerReplies(w) ==
  /\ pc[w] = "reply"
  /\ Answer(w[1], [tag |-> "job", g |-> cur[w], spec |-> nodeSpec[cur[w]]])
  /\ pc' = [pc EXCEPT ![w] = "wait"]
  /\ cur' = [cur EXCEPT ![w] = 0]
  /\ nodeSpec' = [nodeSpec EXCEPT ![cur[w]] = Idle]
  /\ UNCHANGED <<main, server, req, weight, nodePc, nodeCur, nodeQ, quits, same>>

-----------------------------------------------------------------------------
AllGone ==
  /\ step = "quit" /\ waited = 1 /\ sending = {Quit}
  /\ \A n \in Nodes : nodePc[n] = "gone"

(* Every process has ended: not a deadlock. *)
Ended == AllGone /\ UNCHANGED vars

MainSteps      == (\E next \in Steps : NextStep(next)) \/ SendToNode \/ AwaitReply
                  \/ SendQuit \/ StopSender
TrunkSteps     == \E g \in Subgames : Submit(g)
SenderSteps    == SenderTakes \/ SenderSends
ReceiverSteps  == (\E n \in Nodes : Receive(n)) \/ ReceiverStops
NodeSteps(n)   == NodeReceive(n) \/ NodeAdd(n) \/ NodeCopies(n) \/ NodeReplies(n)
                  \/ NodeStops(n)
WorkerSteps(w) == WorkerTakes(w) \/ Perform(w) \/ WorkerReplies(w)

Next == \/ MainSteps \/ TrunkSteps \/ SenderSteps \/ ReceiverSteps
        \/ \E n \in Nodes : NodeSteps(n)
        \/ \E w \in Workers : WorkerSteps(w)
        \/ Ended

Spec == Init /\ [][Next]_vars

(* No thread is left waiting for ever for a turn it could take: they are   *)
(* kernel threads, and a semaphore wakes whoever waits.                    *)
FairSpec ==
  /\ Spec
  /\ WF_vars(MainSteps) /\ WF_vars(TrunkSteps) /\ WF_vars(SenderSteps)
  /\ WF_vars(ReceiverSteps)
  /\ \A n \in Nodes : WF_vars(NodeSteps(n))
  /\ \A w \in Workers : WF_vars(WorkerSteps(w))

-----------------------------------------------------------------------------
JobSpecs == [type : Passes \cup {"none"}, iter : 0 .. 1]
Jobs     == [tag : {"job"}, g : Subgames, spec : JobSpecs]
Indices  == Subgames \cup {Quit}
Queues   == UNION {[1 .. k -> Indices] : k \in 0 .. QueueSize}
StatsOf  == (0 .. 1) \X BOOLEAN

(* The variables keep their types; no mailbox and no queue overflows.      *)
TypeOK ==
  /\ step \in Steps \cup {"start"} /\ sent \in 0 .. NumNodes + 1
  /\ waited \in 0 .. NumNodes /\ iter \in 0 .. 1 /\ todo \subseteq jobs
  /\ jobs \subseteq Subgames
  /\ spec \in [Subgames -> JobSpecs] /\ finished \in [Subgames -> 0 .. 1]
  /\ mpiSem \in 0 .. NumNodes /\ copySem \in 0 .. NetworkCopies
  /\ remoteStats \in [Nodes -> StatsOf]
  /\ workQ \in Queues /\ sending \subseteq Indices /\ Cardinality(sending) <= 1
  /\ receiving \in {"runs", "told", "gone"}
  /\ \A n \in Nodes :
       /\ Len(req[n]) <= Buffer /\ Len(reply[n]) <= Buffer
       /\ Range(req[n]) \subseteq
            Jobs \cup [tag : Requests \cup {"iterstart"}, iter : 0 .. 1] \cup [tag : {"quit"}]
       /\ Range(reply[n]) \subseteq
            Jobs \cup [tag : {"load", "dump"}] \cup [tag : {"stats"}, stats : StatsOf]
       /\ nodeQ[n] \in Queues
  /\ weight \in [Nodes -> 0 .. 1] /\ nodeSpec \in [Subgames -> JobSpecs]
  /\ nodePc \in [Nodes -> Requests \cup {"receive", "add", "loaded", "dumped", "quit", "gone"}]
  /\ nodeCur \in [Nodes -> Subgames] /\ quits \in [Nodes -> 0 .. NumWorkers]
  /\ pc \in [Workers -> {"wait", "perform", "reply", "gone"}] /\ cur \in [Workers -> Indices]
  /\ same \in [Nodes -> BOOLEAN]

(* The reply that is on its way answers the job its SubgameSpec describes  *)
(* on the server (the assertions on jobType and player), and a node has    *)
(* worked with the weights of main's iteration: the message that starts    *)
(* the iteration is not overtaken by the jobs that another thread sends.   *)
RepliesMatch ==
  \A n \in Nodes : \A m \in Range(reply[n]) :
    m.tag = "job" => m.spec = spec[m.g] /\ m.spec.iter = iter /\ m.g \in jobs

(* A node loads, saves and adds up its subgames while none of them is      *)
(* queued or in the hands of a worker, for its loop takes no lock on them; *)
(* and at most NetworkCopies nodes use the network to load or save.        *)
QuietNodes ==
  /\ \A n \in Nodes : nodePc[n] \in Requests => ~AtWork(n)
  /\ Cardinality({n \in Nodes : nodePc[n] \in {"load", "dump"}
                                \/ \E m \in Range(req[n]) : m.tag \in {"load", "dump"}})
       <= NetworkCopies

(* When main has its replies, each node has loaded or saved what it keeps, *)
(* and its statistics are about this iteration and a node at rest.  When   *)
(* the receive thread ends, no reply is left for it.                       *)
NodesHaveDone ==
  /\ step \in {"load", "dump"} /\ StepDone => \A n \in Nodes : same[n]
  /\ step = "stats" /\ StepDone => \A n \in Nodes : remoteStats[n] = <<iter, TRUE>>
  /\ receiving = "gone" => \A n \in Nodes : reply[n] = <<>>

(* Queues, threads and messages together perform each job of a pass once.  *)
JobsIn(messages) == {m.g : m \in {x \in messages : x.tag = "job"}}

Pending ==
  (Range(workQ) \cup sending \cup (UNION {Range(nodeQ[n]) \cup JobsIn(Range(req[n])) : n \in Nodes})
   \cup {nodeCur[n] : n \in {x \in Nodes : nodePc[x] = "add"}}) \ {Quit}

Running ==
  {cur[w] : w \in {x \in Workers : pc[x] \in {"perform", "reply"}}}
  \cup UNION {JobsIn(Range(reply[n])) : n \in Nodes}

Service == INSTANCE JobService
             WITH Jobs <- Subgames, pending <- Pending, running <- Running,
                  finished <- {g \in Subgames : finished[g] > 0}

ServesJobs == Service!Spec

(* A pass ends, a request is answered by every node, and when main quits   *)
(* every thread of every process ends.                                     *)
RunEnds ==
  /\ \A s \in Steps \ {"quit"} : step = s ~> StepDone
  /\ step = "quit" ~> AllGone
=============================================================================
