# A verification project for cfr_plus

cfr_plus solves heads-up limit poker with CFR+: it walks a betting tree, keeps a
regret and an average-strategy value for every action of every information set,
and iterates until the average strategy is hard to exploit. The values do not fit
into one machine, so the tree is split after some round: the *trunk* above the
split is walked by one machine with plain arrays, every *subgame* below it is a
job for worker threads or worker nodes, its values compressed in memory or in
scratch files. What is hard here is not the arithmetic but everything around it:
lock-free queues and lists, two threads that walk the same tree, buffers that are
read and rewritten at the same time, and checkpoints of computations that run for
months.

This directory holds TLA+ models of these mechanisms, TLC configurations that
check them on small instances, and TLAPS proofs about the job queues, the scratch
pipeline, the free list of segments, the iteration on the trunk, the checkpoints, the
cluster, the compressed storage and the hands of the betting tree.

## The system

`main` (`cfr.c`) and its threads:

    main ----iterSem----> trunk thread --load queue--> loader --work queue--> workers
      ^                        (or directly to the work queue)     ^             |
      |                                              pool of arrays|             |dump queue
      +---------------- SubgameSpec.finished <------ dumper <------+-------------+

| Component | State | Operations | Hard part | Correct when | Module |
|---|---|---|---|---|---|
| Job queues (`struct Queue`) | `head`, `tail`, three semaphores, an array beside it | `waitToAddToQueue`, `finishAddToQueue`, `waitToRemoveFromQueue` and the caller's copy | interleaving of several producers and consumers at a full ring | each job is handed out once, intact; nobody waits for ever | `WorkQueue` |
| Free list of segments (`storage.c`) | `g_freeSegments`, `next` of every segment | `newSegmentedArraySegment`, `releaseSegments` | lock-free pop and push of many workers | a segment has one user; none is lost | `FreeSegments` |
| Scratch pipeline | four queues, pool of arrays, `arraysIndex`, `finished`, scratch files | loader, worker and dumper threads; copies to and from a checkpoint; shutdown | data handed from thread to thread; finite pool; order of report and release; files left by other processes, copies that fail | every job sees the subgame's latest data; passes end | `ScratchPipeline` |
| Trunk traversal | regrets of the trunk, `iterSem`, `runBR`, `quit`, `SubgameSpec` | `vanillaIteration`, `computeBR` against `trunkThreadMain` | the two agree on which subgames have a job only by computing the same | main waits for exactly the submitted jobs and gets its own results | `TrunkIteration` |
| Main loop and checkpoints | `iter`, weights, signal flags, dump directories | iterate, stop early, save, resume | signals, kills, resumed runs | names tell what is inside; the strategy is that of one long run | `Checkpoints` |
| Compressed storage (`storage.c`) | segment lists, read and write cursors, byte counts | init/finish of (de)compression, byte streams, discard, dump, load | a channel is consumed and rewritten at once; boundaries of segments | a reader gets the bytes written; no segment is lost | `CompressedStorage` |
| Regret arithmetic | 32-bit regrets, weights | `regretsToPolicy`, regret update | overflow | sums stay in range | not modelled |
| Traversal | pointers into the arrays of a round, position in the compressed streams, `boardIndex` | `vanilla_r`, `computeBR_r`, `generateWork_r`, `generateBR_r` over trunk and subgame | values have no index: a place is where the walk has come to | every walk, whatever it cuts, finds a node's values where every other left them | `Traversal` |
| Cluster (MPI) | messages, `g_mpiSem`, copy permits, `SubgameSpec`s of server and nodes | send, receive and node loops; start of an iteration, load, dump, statistics, quit | threads of several machines, some of which send to the same rank | replies match jobs and requests; nodes copy at rest; everything ends | `Cluster` |
| Game rules (`game.c`) | `State` of a hand | `raiseIsValid`, `isValidAction`, `doAction` | boundaries of raises and stacks | no valid actions break the rules of the game | `GameRules` |
| Betting tree | nodes and their two indices | `getBettingTree` | two numberings at once, over rounds and over blocks | the indices fill the strategy arrays without overlap or gap | `BettingTree` |
| Cards | suit groups, list of boards and hands of each round | `firstCardset`, `nextCardset`, `sortedCardsNumSuitMappings`, `getCanonicalCards`, `setUpBoards` | isomorphisms over several rounds | a canonical set with its weight stands for all sets of its class | `CardSets`, `Boards` |
| Compressor | range coder registers | encode, decode | carries in 32-bit arithmetic | decode inverts encode | not modelled |
| `recompress` | a finished dump | reorders it into blocks | order of boards | same values, new order | `Traversal` (the walk) |
| Arguments, utilities, random numbers | none of their own | parsing, `copyfile`, allocation | - | - | not modelled |

## The modules

`JobService` and `SegmentPool` are abstract: what a queue with its threads, and an
allocator, promise. The detailed modules are shown to implement them.

**WorkQueue** is the ring of `cfr.c` step by step: each `sem_wait` and `sem_post`, the
read of `head`, the compare-and-swap, the caller's store into and copy out of the
array. Producers submit the jobs of a pass, consumers take and report them, and
`NextPass` is main, which has waited for `finished` of all of them. `unread`,
`base`, `added` and `claimed` are history. *NoOverwrite*: a store never hits an item not
copied out. *OwnsClaim* (proved only): a copy finds a filled slot that no other consumer
copies. *ServesJobs*: the ring implements `JobService`. *PassesComplete*: passes end.
*PassInv* is the inductive invariant of the proofs.

**FreeSegments** has the loads of `newSegmentedArraySegment` (`g_freeSegments`,
`t->next`) apart from its compare-and-swap, and the relinking of a released list
apart from its swap. Each thread writes one list (`chain`) while it consumes
another (`old`). *OneUse*, *ListsLinked* (and lists end as they should), and *Linearizes*:
it is a `SegmentPool`, so no segment is lost either.

**ScratchPipeline** takes the four queues as the bounded FIFO queues that `WorkQueue`
shows them to be and models the threads around them. The data of a subgame is
four parts (two players' regrets and averages), each current or not; a job
changes some, the loader reads those the job needs, the dumper writes those it
changed. *PoolConserved*: every set of arrays is in the pool or with one subgame.
*JobsSeeLatest*: a performing worker finds the parts it reads, of its subgame, up to
date. *FilesCurrent*: between passes, all of it is current on disk. *ServesJobs*: the
threads together implement `JobService`. *PassesEnd*: passes end, and so do the threads
(a failed assertion would leave them; *NoAbort* says that alone).

A run may be saved and resumed. `Save` is `dumpValues`, which copies the scratch files of
all subgames and goes on after a copy that fails; `Resume` is another process, with an
empty scratch directory or the same one, in which the files are now of no use; its
`loadValues` has a job for every subgame, of which `g_networkCopySem` admits a few at a
time. A file is missing, latest, other or short. A missing file of the checkpoint ends
the resumed process (`exited`), a short one ends it when the loader reads it, with one
exception, which the properties make (`Cut`): `copyfile` does not truncate its target, so
a short file copied over a longer one left in the scratch directory reads as a whole.

**TrunkIteration** has two walkers on one tree in depth-first order. A node's
reach is the set of opponent hands with positive probability; an action passes
those on that the current regrets play, a deal those without the dealt cards.
At a subgame the trunk thread submits unless it cuts, main waits unless it cuts.
Regrets are "which actions have positive probability", chosen anew by any update.
A job's result is what it was computed from, its pass and its reach.
*GetsOwnResult*, *SubmitsInPass*, *UpdatesInStep* (main updates while the
trunk thread is in the same pass, where it reads the other player's regrets only),
*PassesEnd* (and both threads end).

**Checkpoints** is the loop of `main` with the iterations' weights as the strategy.
`Start` is a process that begins anew or resumes from a directory, `Kill` ends one
at any point; `asked` is the history "SIGUSR2 has been used". *ExactUntilAsked*: names
count iterations and the strategy in memory is that of one uninterrupted run;
*NameNeverOverstates*, *CheckpointsKept*. *SavedUnlessTaken*: a run that ends has its strategy on disk. A run
that exits because its directory exists has it there too, with two exceptions: the directory is a killed
run's, or SIGUSR2 has been used, in this run or an earlier one, and its save has a name one too low.

**CompressedStorage** is one storage with its channels at byte granularity: the
compressor behind a channel writes any sequence of bytes, the decompressor reads
them and may read ahead. `mode` says which of the init and finish functions
have been called. *ReadsBack*: a reader gets the bytes that were written, and a
storage with contents is never opened as an empty one. *SegmentsConserved*.

**Cluster** joins the server's four threads (main, trunk, send, receive) with the loop
and workers of each node. A message is a record with the tag of its `MPI_TAG_`;
`req` and `reply` are the channels between the server and a node. `Schedule` gives the
order of main's requests; `NodeReceive`, `NodeAdd`, `NodeCopies` and `NodeReplies` are the
parts of `mpiWorkerReceiveMessage` between which others can step. The strategy of a
node is represented by `same`, whether it agrees with the checkpoint directory, and the
data of a job by its type and the iteration whose weight it was computed with.
*RepliesMatch*, *QuietNodes*, *NodesHaveDone*, *ServesJobs*, *RunEnds*. MPI promises order
only to the sends of one thread; the model lets the sends of several threads of
a rank arrive in the order in which they happen, as an implementation with one
connection does. Nodes here keep their subgames in memory: with `scratch` each has
the threads of `ScratchPipeline` behind its queue. `MPI_TAG_LOAD`, which the nodes know
and no code sends, is left out.

**GameRules** has `game.c`'s betting as operators on records, **BettingTree** the
recursion of `getBettingTree_r` as a stack of visits. A visit has the
hand and the parameters of the call (`split`, `last`, and the tree and the chance node
whose counters it increases); what only nodes of one type have is in the field `u`; a choice's actions come in the
order of `ActionsFrom`. *RulesKept*: `maxSpent` is the largest bet,
nobody exceeds a stack, somebody can act until the hand is finished (the loop of
`nextPlayer` would not end), a showdown finds equal bets (an assertion), a raise
raises. *TablesFit*: `index` over a tree (`IndicesFit`) and `immIndex` over the block of a chance node
(`BlocksFit`) both number the actions of a player's nodes from 0 without a gap, `bettingTreeSize`
counts what is below, a choice has a child for each action (`ChildrenComplete`), rounds are dealt one by one
(`RoundsDealt`), and the trunk ends before the round of the subgames (`TrunkBeforeSubgames`).

**CardSets** has the operators of `card_tools.c` on sets of cards: the enumeration of deals,
the suit groups that record which suits are still alike, how many deals a canonical deal
stands for, and the canonical deal of any deal. **Boards** is `setUpStorage`'s list of
boards: `SetUpBoards` is one call of `setUpBoardsOnRound` that reaches the round whose turn it
is, with the children it appends and the range it leaves in the parent; `LiveBoards` are
those that a walk reaches.

**Traversal** walks over the tree of `BettingTree` with the boards of `Boards`. `storage` is the
trunk's or that of one subgame; `ptr` is where `roundRegrets` and `roundAvgStrategy` point, `read`
and `out` count the blocks taken from and given to a compressed channel, which `content` keeps
from one walk to the next. Walks are CFR passes for either player, those of the trunk thread
(`work`), best responses, and the one that `recompress` makes over what has been dumped.
A walk of CFR may cut: the boards of the last round that the opponent does not reach are skipped
(`RIVER_CUTOFFS`), so are the actions there that no hand of his plays. *TreeFits* is
`TablesFit` of the complete tree, which the walks rely on. *ChanceIsFair*: summing over canonical
boards with their weights, hands by their canonical hands, is the same as summing over all pairs of
hands and all deals, in every round of a storage. *PlacesFixed*: a chance node's block is always at
the same place of the trunk's arrays, the pointers are at the place of the current board whatever
has been cut, of any two blocks of a round one is behind the end of the other, and blocks do not exceed the
arrays (of a subgame, the buffers).
*StreamsInOrder*: the next block in a stream is the one of the chance node and board that is being
visited, and all have been read at the end. *ReorderPreserves*: `recompress` moves every entry once, to
a place of its own.

## The runs

| Run | Instance | Shows |
|---|---|---|
| `wq_workers` | 3 jobs, 2 producers, 2 consumers, ring of 3 | everything of the ring when a pass fits; the inductive invariant of the proofs |
| `wq_wrap` (fails) | 4 jobs, 1 producer, 2 consumers, ring of 3 | a slow consumer's slot is overwritten |
| `segs_one_taker` | 4 segments, 2 threads, one of which takes | the list is an allocator |
| `segs_two_takers` (fails) | 5 segments, 2 takers | ABA: a used segment becomes free |
| `scratch_pool` | 3 subgames, 2 arrays, 2 workers, queues of 2; 2 processes, 2 files whose copies may fail | the pipeline, checkpoints, resumed processes and the shutdown, safety and liveness |
| `scratch_next` (fails) | 2 subgames, a pass after a best response | the loader's assertion fails |
| `save_any` | 4 iterations, 3 runs, warmup 1, both signals and kills anywhere | what names and directories promise, whatever happens |
| `save_continue` (fails) | the same | the name of a `SIGUSR2` save is one too low |
| `storage_two` | 2 channels, 3 segments of 2 bytes, up to 3 bytes a channel | streams, discard, reload, exchange through the free list |
| `trunk_boards` | a tree of 8 nodes: a fold, two boards, a bet, 3 subgames; 2 hands, one of which each board leaves; queue of 1 | walks, cuts that depend on cards and regrets, semaphores; liveness |
| `cluster` | 3 subgames, 2 nodes with a worker each, queues and channels of 1, 1 copy at a time | the protocol of server and nodes; liveness |
| `tree_games` | ten games of one to four rounds: Kuhn, Leduc, stacks that end the betting, raises without limit, no limit; every split. Eight are walked, trunk and every subgame, with one to three suits and one or two cards a hand | rules, numbering of the tree, boards, and all walks |

The runs marked "fails" state what a comment, an assertion or the README says of
the program, and TLC finds a behaviour of the code that breaks it:

* `wq_wrap`: `waitToRemoveFromQueue` moves `head` before the caller copies. If another
  consumer finishes first, its post of `spaceLeft` admits a producer to the
  slot that the slow consumer has claimed. It needs two consumers and more jobs
  in a pass than slots; if a pass fits, or with one consumer, the proofs show that it cannot happen.
* `segs_two_takers`: the pop of the free list compares only the top. `g_freeSegments`
  is shared by all workers, and with scratch files the loader takes from it too. So `Takers` is really
  all of them, and `segs_one_taker` is a solver with one worker and no scratch files. The theorems of
  `FreeSegmentsProofs` are about all takers and say what condition the pop would have to ensure.
* `scratch_next`: after a best-response job the worker posts `finished` before it lets
  go of the arrays. `scratch_pool` has best-response passes only as the last. A save
  after the best response, and another iteration after it, runs into the same.
* `save_continue`: the save for `SIGUSR2` names the directory after `iter`, though
  iteration `iter` has been done. `save_any` shows the other two calls right
  (*ExactUntilAsked*). What follows: a run resumed from that directory that gets SIGUSR2 in its first
  iteration comes to the name it was resumed from, cannot make the directory, and exits
  (`storage.c:1134`) with the iteration unsaved; so does any run that comes to a name which such a save has
  given to other weights. Nobody need have been killed. *SavedUnlessTaken* excludes both.

Seen and given no run: `numSegments` of a storage is increased with every segment
taken and never decreased, so the reported memory grows though segments are recycled.
A process killed while it dumps leaves a directory; a resumed run that comes
to the same name cannot make it and exits without a save, the other exception of
*SavedUnlessTaken*. In a game with stacks and three or more rounds, a hand whose players
are all in jumps to the last round, and its one chance node deals only the last of the
rounds skipped; the part of *TablesFit* about rounds fails for such a game, so the
solver is for games without them (`NoSkips` of `BettingTreeProofs`). With unequal stacks a limit raise can lower
`maxSpent`; `getBettingTree_r` asserts equal bets at a showdown, and the games here have
equal stacks.

With `numSampledBoards`, the values of the sampled boards are divided by `boardFactor`, the
number of all boards, and `weightSum`, which `setUpBoardsOnRound` computes as if to correct
this, is used by nothing; *ChanceIsFair* is about games without samples. If three or more rounds
in one storage deal several boards, `setUpBoards` starts a round from every board of the rounds
before it, nested: a board of the last round is set up several times, and only the last copy is
used. The others take memory, and `recompress` leaves their entries unwritten; the walks are
right (`LiveBoards`, the game `Four`). Where `vanilla_r` cuts the boards of the last round it
clears `childVals` with the number of hands of the parent, more than the child has (`cfr.c:1546`);
values are not modelled. That a short copy of a checkpoint's file can go unnoticed was said
above.

*Bounds.* Rings of three slots with passes as long or longer wrap `head` and `tail` at
every offset, since the next pass starts where the last ended. Two arrays for
three subgames make the loader wait for a set that is in use. Three bytes in
segments of two end inside, at and behind a boundary. Three runs of four
iterations suffice for a run that is killed, one that collides with what it left,
and one that resumes the result. In `cluster` one node has two subgames, so its
second job waits in its loop while its worker's reply waits for the server, and one
permit makes the nodes copy in turn. `trunk_boards` leaves every regret update open,
so all combinations of cuts occur. In `tree_games`, `MaxNumActions` is 6 in place of 64, so that
raises without limit meet it. Three passes of CFR rewrite the streams of both players and read what
was rewritten; the first plays every action, the later ones any, and other walks come between.
Decks are of three to nine cards, with two or three suits that the first round makes alike or not,
so that classes of one, two, three and six deals occur. The rank of a board, by which `setUpBoards`
sorts, is any function (`RankCardset`), here the sum of ranks. In `scratch_pool` a CFR pass after the
first skips the subgames of `MayCut` or not; `Failing` has two files of different kinds. The last
of `MaxRuns` processes saves nothing, and a process that is not resumed begins with an empty
scratch directory, as the code assumes of itself. `MaxSegments`, `MaxHeld`, `MaxLength`, `Ahead`, `MaxRuns` and
`Buffer` are bounds of the models and have no counterpart in the code; `iter` in
`Cluster` is counted modulo 2, which is enough to tell an iteration from the last.

*Fairness.* The threads are POSIX threads with no priorities: each that can step is
scheduled (weak fairness, per thread; in `Cluster`, of every process). Producers compete
for the binary semaphore `addSerialise`; that it is given to each in the end is strong
fairness of that step, and the only such assumption. Consumers need none at the
compare-and-swap: it fails only if another consumer's succeeded, and a pass has finitely
many jobs. No fairness is assumed of signals, kills or main's choice of the next pass.
`MPI_Send` returns when there is room for the message again, which is weak fairness of
the receiver.

## The proofs

`WorkQueueProofs` is about any number of jobs, producers, consumers and slots, if the jobs of a pass
fit into the ring (`PassFits`), or if there is one consumer and the ring is of any size (`OneConsumer`: the queues of
the loader and the dumper). Without either `wq_wrap` is a counterexample.

*NoOverwrite* is not inductive: that a slot to be filled has been copied out follows from where in the
ring it is. `SoundInv` is what does not depend on places: only one producer is between the serialising
semaphore and the post (`OneFillerInv`), the counts of threads at their program points tie the semaphores to the
numbers of submitted and finished jobs (`CountInv`), every job is in one place (`JobsInv`), and unread slots are owned
(`OwnsClaim`). Every step keeps it if `RingFacts` say which slots are unread (`SoundStep`). These facts come, in two ways,
from invariants about places:

* `PlacesInv`, for a pass that fits: everything relative to `base`, the slot where the pass began. `head` and
  `tail` are `claimed` and `added` slots behind it (`IndicesInv`); a slot is unread if it is added and not claimed, or
  claimed by a consumer about to copy, or filled by the producer about to add it (`AddedUnread`, `UnreadPlaces`,
  `CopyPlaces`). `CountInv` and the size of the pass bound `claimed` and `added`.
* `TurnInv`, for one consumer: `tail` is as many slots after `head` as jobs are queued, these are the unread ones and
  the one being copied is just before `head` (`QueuedUnread`, `UnreadQueued`); what `spaceLeft` counts, is being added,
  is queued and is being copied adds up to `Size` (`CreditInv`), so the slot to be filled is none of them. With two
  consumers the last fails: the slots being copied need not be those next to `head`.

With `JobsInv` each step of the ring is a step or a stutter of `JobService`. Theorems: `PassInvariant`, `TurnInvariant`
(the invariants), `TypeCorrect`, `NoJobOverwritten`, `ClaimsAreOwned`, and `RingServesJobs` (refinement of `JobService`,
safety).

`MainLoopProofs` is about `Checkpoints` and `TrunkIteration`, the two parts of what `main` does. The first is
proved for any number of iterations, warmup iterations and runs, with
no assumption but that these are natural numbers. What a directory's name promises
depends on what main has done at each of its program points: `Done` is the number of
iterations that are surely in memory, one more than `iter` between an iteration and the
end of the loop's body, and in a run that is done early. `MainInv` says that memory and all
directories hold at least `Done` and at least the name's number (`AtLeastInv`), that
the directory being written is the incomplete one named `SaveName` with the weights in
memory (`CurrentInv`), and types; it is inductive whatever signals and kills occur.
Theorems `MainTypeCorrect`, `NamesNeverOverstate` and `KeepsCheckpoints` follow. `Strict` sharpens
"at least" to "exactly, and in order"; it is inductive relative to `MainInv` as long as
SIGUSR2 has not been used, also over killed and resumed runs: `ExactNames`. That a run
that ends finds its strategy on disk (`EndsSaved`, with the two exceptions) needs more: `Exact`, which
holds after SIGUSR2 too, says that a strategy of exactly as many iterations as main has done, or as its
directory's name says, is that of the uninterrupted run. So if the name is taken by a complete save and
neither strategy has more iterations than it says, they are the same.

`ScratchPipelineProofs` is about any number of subgames, sets of arrays, workers and processes,
queues of any length, any order of passes and any files whose copies fail. The assumptions are
those that `ScratchPipeline` states of its constants: sizes are positive, `None`, `Quit` and the
names of the threads are no subgames, arrays or workers, a process that resumes loads first
(`ScheduleAssumption`), and `Failing` names files. None of the properties is inductive, because
each thread relies on what the one before it in the pipeline has done:

* `Types` has, beside types, at which points a thread has a subgame, and which points are whose.
* `JobsInv`: every job is at one place, from main's list over queues and threads to
  `finished` (`PlacesInv`), and only where jobs of this pass come (`KindAt`, `PointsFit`).
  With it every step is one of `JobService`, a stutter, or a new process: `PipelineServesJobs`.
* `HoldersInv`: a subgame has arrays exactly while it is queued for a worker or the dumper, or a
  thread is at a point where it holds them (`HoldPoints`), and then it is held once.
* `PoolInv`: an index is in the pool once, or has one owner; a holder past `ReturnArrays` is none.
  Counting gives `PoolKept`.
* `CopiesInv`: `g_networkCopySem` and the subgames under way in `loadValues` make up
  `NetworkCopies`, so the semaphore's value is bounded; with it `TypeCorrect`.
* `DataInv`: what arrays and files hold. A subgame is loaded, unsaved, copied from the
  checkpoint, or none of these; its file parts are fine except those that the unsaved arrays have,
  and a checkpoint never has a stale file (`SavedFine`), which a later process relies on:
  `JobsFindLatest` and `FilesKept`.

`NoAssertFails` proves that no assertion fails if main ends after a best-response pass
(`ResponseIsLast`); `scratch_next` is the counterexample without that condition. It needs `EndsInv`: a
worker that has yet to return or clear a subgame's arrays has reported it, and the pass has not
been followed by another. (A file cut short by a failing save is the state `"short"`, or `"mixed"` where an older
was longer; the theorems make the same exception for it as the properties.)

`FreeSegmentsProofs` is about any finite set of segments and any number of threads that take and release them.
`TypeCorrect` holds whatever they do. The other properties are false of the code when two threads take
(`segs_two_takers`), and the theorems say exactly what goes wrong there and that nothing else can: they hold in
every behaviour in which no step brings a segment back to the free list while another thread is between its
read of that segment's `next` and its compare-and-swap (`NoReturn`). This is what
hazard pointers would add to the pop; the code has nothing of the kind. The segment may
still be taken and written under such a thread, or be covered by released lists and uncovered again. `OneTakerSuffices` is
that `NoReturn` always holds with one taker, however many threads release: releasing only puts
lists in front of the free list, and the segment that is to be popped stays in it (`InFree`).

The invariant `Inv(F)` names the sequence `F` that is the free list, and `Core` says that there is one:
`top` and `next` spell out `F`, which ends (`IsFree`); each thread's lists share no segment, among themselves, with
other threads or with `F` (`OwnLists`, `OwnOnly`, `Disjoint`); if a segment whose `next` has been
read for a pop is in `F`, what was read is still its `next` (`OwnSegment`), so a swap that
finds it on top takes the right one. This is the part that `NoReturn` keeps: the segment can leave `F`
before the swap, but a step would have to bring it back for the swap to succeed. A step of one thread writes links
only of segments it holds, so `OthersKept` settles the other threads once for all actions. `FreeListKnown` shows, by
induction over the recursive function `Reached`, that following the links from `top` meets exactly `F`; hence
`SegmentsUsedOnce`, `ListsKept`, and the refinement of `SegmentPool`, `TakesAndReleasesAreSteps`.

Of `TrunkIteration`, `MainLoopProofs` is about any tree, hands, queue length, regrets and order of passes. The
assumptions are those that `TrunkIteration` states: `Tree` is one tree in depth-first order that
begins with a decision or a subgame, a hand that is possible before a deal is so after one of
its outcomes (`HandsAssumption`; with `numSampledBoards` each board that was drawn may have a card of a hand, so
these theorems are for a trunk without sampled boards), and a player who acts can play on to a subgame whatever the
opponent does, by calling (`CallAssumption`). Main and the trunk thread share no lock, so each property
rests on both having computed the same. `Walk(policy, R, p, b)` says that `R` is what a walk of pass
`p` finds on its way to node `b`: two walks by the same regrets agree as far as both have come
(`WalksAgree`), and a walk does not read the regrets that its own player updates (`WalkKept`). The
inductive invariant `Inv` bounds how far the threads are apart:

* `WalksInv`: what each has found is a walk by the *current* regrets.
* `WaitedInv`: main is past a subgame that is not cut only if the trunk thread is in the same pass and
  past it too.
* `LagInv`: `iterSem` is the number of passes that the trunk thread is behind. If it is behind,
  the rest of its pass has no job, nor has a pass that main has been through meanwhile (`NoJobs`).
  That it is never three behind, and that main changes no regrets meanwhile, needs
  `CallAssumption`: where a player has a hand to act with, a subgame is reached
  (`SubgameReached`, by induction over the nodes), so one of two passes in a row has a job
  (`NoJobsOfBoth`), and main has waited for it before it updates (`Updating`).
* `JobsInv`: a job not yet waited for is one of this pass, for the hands with which the trunk
  thread came there.

`TypeCorrect`, `ResultsAreOwn`, `SubmitsWithMain` and `RegretsUpdatedInStep` follow.

`ClusterProofs` is about any number of subgames, nodes and workers, queues and channels of any length,
and any number of copies at a time. The assumption is `NumbersAssumption`: all of these are positive and `Quit` is
no subgame. Server and nodes share nothing but messages, so what a node may assume when it acts must follow
from what has been sent to it and not been answered. The inductive invariant `Inv` has these parts, none of
which is inductive alone:

* `JobsInv`: a job is at exactly one of ten places, from main's list over queues, messages and threads to
  `finished` (`PlacesInv`), once, and on the node that has its subgame. A step moves at most one job
  along that way, or starts a pass (`JobsStep`); with that, every step is one of `JobService` or a
  stutter: `ClusterServesJobs`.
* `SpecInv`, `MessagesInv`, `NodeSpecInv`: the `SubgameSpec` of a job is that of this pass wherever it is kept,
  on the server, in a message or on the node.
* `FitInv`: where a node is in what main does. In a request a node is not asked, asked, serving, has
  answered, or its answer has been received (`InRequest`), and beside these nothing can be under way. In a pass
  (`InPass`) `MPI_TAG_ITERSTART` may still be unread, because main does not wait for it; then it is ahead of every
  job and the node is at rest, since there is one order of messages to a node.
* `RepliesCount`, `PermitsCount`: the requests with nodes, those posted and those waited for add up to the
  requests sent, and in a copy each node that is at it has taken a permit (`Outstanding`). So main counts
  replies to the request it has made, and to no other.
* `QuitInv`: nobody is told to stop before the end.

That a step is over only when all nodes have answered, or all jobs are reported, comes by counting
(`StepEnds`). `RepliesAnswer`, `NodesRest`, `NodesAnswer` and `TypeCorrect` follow from `Inv`.

`CompressedStorageProofs` is about any number of channels and segments, segments of any size, contents of any
length, and any distance that a decompressor reads ahead. The assumption is `SizesAssumption`: these numbers
are positive. *ReadsBack* is not inductive: while a job consumes a channel and writes it anew, the bytes still to
be read stay what they were only because the segments that the writer takes are no reader's. The invariant
`Inv(L, R)` therefore names the sequence `L` of segments at every place (the free list, the contents of each
channel, and what a consuming reader has not read of it) and the sequence `R` that each reader has left; `Core`
says that there are such sequences:

* `Lists`: the links spell out `L`, no segment is at two places, and the places cover the segments made.
* `WritersInv`: a write cursor is behind the last byte of the last segment of its channel, and the segments hold what
  has been written, or what is stored when no job writes (`Writes`).
* `ReadersInv`: a cursor that has delivered `b` bytes is at the byte after them, and the segments it has left hold the
  rest of what is stored (`Reads`).
* `ConsumesInv`: what a consuming reader has left is what its place `Unread` has. The others read contents that
  nobody changes meanwhile.
* `FileInv`: the scratch file holds what is stored; what has been loaded of it is in the segments (`Loaded`).
* `ModesInv`: no bytes are counted exactly if nothing is stored, the decompressor is NULL exactly if there
  are no contents, and cursors hold no segments between jobs that they should not.

`ListKnown` shows, by induction over the recursive function in `List`, that following links gives the sequence
in `L`; `JoinedFacts` and `BytesFacts` do so for the loops over the channels. `ReleaseStep`, `GrowStep`, `PutStep` and
`Emptied` say what pushing, allocating, writing a byte and clearing do to the lists, once for all actions.
`TypeCorrect`, `ReadersGetWhatWasWritten` and `NoSegmentLost` follow from `Core`.

`BettingTreeProofs` is about any set of games that `GamesAssumption` allows: equal stacks, as the assertion of equal
bets at a showdown needs them, no blind above the stack, as `readGame` checks, nor both of them all of it, and raises
of limit games that are not zero. *RulesKept* is not inductive, since whose turn it is and when a round ends
depend on the actions so far. `TreeInv` says so of every hand left to visit (`HandInv`):

* `BetsInv`: `maxSpent` is somebody's bet and the largest one, within the stack; the smallest raise without limit is
  above it.
* `GoingInv`: of a round under way, that nobody has acted yet; or that the last action was a raise, so that the other
  player has bet less, can act, and has room for a call; or that the first to act has called.
* `EndedInv`: somebody has folded or the bets are equal. `LengthInv`: raises are bounded by `isValidAction`,
  so is what a round can hold.

and of the tree that the chance node, parent and tree of a visit have been made (`PlaceInv`), that a raise has
raised (`RaiseInv`), and that a chance node counts from what there was before (`NodeInv`). `Turn` says who acts;
`Folding`, `Calling` and `Raising` what `doAction` makes of a hand, `RoundOver` of a round; `ActionsListed`
that `ActionsFrom` lists the valid actions, each once. `WalksKeepTree` carries this over to the walks:
they change nothing of the tree, so `HandsKeepRules` is *RulesKept* of `Traversal`.

`TablesFilled` says the same of the parts of *TablesFit* about indices. They hold in every
state, but only relative to what is still open: `TablesInv` is inductive given `TreeInv`.

* `IndexInv`, `ImmInv`: the entries given so far fill what the sizes and the chance nodes' `imm` have counted.
* `FamilyInv`: a choice's children are made or left to visit, so many as it has entries.
* `OpenOrShut`: a chance node with its "close" in the stack is the end of what its tree has made since, all of it is below,
  and fills what the sizes have grown by since `before` (`OpenInv`); one that is closed has that up to some node
  (`ShutInv`).
* `StackInv`: what makes this inductive. Entries of the stack above a "close" go below that chance node, what is below
  it in the stack does not (`Over`); a visit's chance node is open, and of the round dealt last (`LastDealt`).

A range of numbers grows at its end (`FillsMore`) or gets no more (`FillsSame`); that the nodes between a
chance node and the end of its visit are those of the recursive `Below` is `BelowIs`, by well-founded induction.

The two parts of *TablesFit* about rounds are true only if no hand skips a round, so `RoundsInOrder` and
`WalksFindTables`, which is *TreeFits*, assume `NoSkips` of each game: it has at most two rounds (behind the first
there is only the last), or it is a limit game whose blinds and raises, all made, stay below the stacks (`Roomy`). Each game file beside the
code is of one of these kinds, since `readGame` gives a limit game stacks of `INT32_MAX`: the largest bet in
`holdem.limit.2p.reverse_blinds.game` is 240. So is each game of `MCTraversal`. `RoundsInv` needs to know of a hand what
may still be raised in its round (`RoundRoom`): then a call never leaves anybody without chips (`RoomOnward`), and an action goes
on by one round at most (`Stepwise`). Of a visit it says that its round is the one dealt last or the next, and
whether it belongs to the trunk (`VisitRounds`).

What a walk needs of the tree beside this is how the nodes refer to each other: `NodesInWalkOrder`. `LinksInv`, inductive
given the others, says it of nodes and of the visits still to come: the node after one that is no leaf is its first
child, and below a chance node or a subgame there is no other (`FirstChildren`); what is made later belongs to
the last node or to one it belongs to, so that a node's descendants are a range (`Nested`); tree and chance node
are those of the parent, or the parent itself (`Kin`); a chance node follows only a subgame, or a choice where a round ends
(`Placed`), and each subgame has a tree of its own (`OwnTrees`).

`TraversalProofs` is about the walks over such trees, any number of them, with any boards that sampling may
choose. `DeckAssumption` adds to `NoSkips` that, whatever has been dealt, there is a board for the next round; TLC evaluates it
for the games of `MCTraversal`. The proof of *WalkTypeOK* cannot stop at types. That a walk finds the node, the board or the pointer it
goes to depends on the recursion that the stack stands for, and that on the storage being complete:

* `StorageInv`: while boards are set up, every board of the rounds before the current one leads to boards of the next
  (`Leads`), and in the current round so does each that there has been a call for. That the calls of a round end
  when each board of the round before has been met is `CallsFacts`: a multiple of their number.
* `StackOK`: a chance node whose boards are tried is at one of those that follow the current board of the round
  before, and its pointers are where they were when it was entered and as many hands further as there are boards
  behind it (`At`). This is what *PlacesFixed* says of pointers relative to the block. It is inductive because an entry of the stack lies
  above the chance nodes it is reached through and of each round only the last is there (`Held`): so what a
  visit changes of the pointers and board indices belongs to rounds that no entry below it is at.
* `WalkPuts`: what blocks, places and moved entries are.

`Replaced` says once, for all steps, when the top of the stack may be replaced; `BoardsFollow` and `ChanceRounds`
that a chance node which is visited finds boards. `WalkInvariant` is all of this; `WalksTyped` is *WalkTypeOK*.

*StreamsInOrder* compares walks: a block is taken out by another walk than the one that put it in, and the two
cut different parts of the tree. `StreamsStayInOrder` proves it from an order on what walks come to that does not depend
on the walk:

* A path (`Paths`) is the chance nodes from the root of a storage down to a node, each with the board that follows the one of
  the round before; paths are ordered by node, then board, at the first chance node where they differ (`Sooner`).
* `Ahead` is the paths that an entry of the stack still leads to, `Pending` those of all entries. `InTurn`: what an
  entry leads to comes before what those below it lead to. Each step keeps this, removes from `Pending` at most
  the path that it is at (`Did`), and this one is the first of them (`StepOrder`). That a cut removes nothing is
  `NoneBehind`: it is made in the last round only, and there is no chance node below it.
* `Streams`: the paths to the chance nodes of a round that have been begun, in order, are as many as the
  blocks read; the last is that of the open chance node, and the blocks put out are those of all paths but the open one.
  So a stream that a finished walk has put out has the block of every chance node and board of its round, in order
  (`Complete`), and what a later walk has begun is a beginning of the same list (`ListBegins`).

*ReorderPreserves* follows from the same order (`EveryEntryMovesOnce`). What `recompress` has written is the entries
of the choices it has been at, with their boards: those on paths that are no longer pending (`MoveInv`). So
nothing is written twice if two paths to choices have no entry in common, and all is written at the end, when nothing
is pending, if each entry is on some path (`EntriesApart`, `EntriesFill`). This needs two facts that are not about walks:

* `RowsInv`: the boards that follow two boards of a round are different ones, so that a board is met on one way
  only. It holds of a round while its boards are being listed because children are appended at the end (`RowsApart`).
* `TreeTiled`: the choices of a tree, in a round and for a player, lie side by side in its arrays and fill them, from
  `TablesInv`.

Only model-checked are the liveness properties (*PassesComplete*, *PassesEnd*, *RunEnds*), which rest on
fairness, and of `Traversal` what is about sums: *ChanceIsFair* and *PlacesFixed*. *ChanceIsFair* rests on sums over
sets of hands and boards (`CardSets`, `Boards`), *PlacesFixed* on the sum of the sizes of all blocks before one, both
of which would have to be proved by induction over data; what `WalkInvariant` has of the pointers relative to a
block, and `StepOrder` of the order of the blocks, are the parts that do not need these sums.

## What is not modelled

Floating-point values, hand evaluation and its generated tables, printing and
parsing, statistics and time profiles. `Traversal` knows which of the opponent's hands are reached
only as "some" or "none". The arithmetic of regrets (`CfrUpdate`
would restate three assignments, and whether 32 bits suffice depends on the values of the
game and the number of iterations), and the compressor (the inverse of the encoder holds or fails
by its 32-bit carries and the adaptive tables, whose states are out of TLC's reach;
`CompressedStorage` takes it as a sequence of bytes that the decompressor reads back). Failing
file operations other than the copies of `ScratchPipeline`. In
`Checkpoints`, the individual files of a dump. In `Cluster`, the contents of the handshake
and nodes that use scratch files. In `GameRules`, cards, `valueOfState` (which the solver
does not call) and hands of more than two players. Memory is sequentially consistent
between the semaphore operations and compare-and-swaps that order it; the
`volatile` indices are read as x86 reads them.

## Plan

1. Done: `WorkQueue` with `JobService` and proofs, `FreeSegments` with `SegmentPool`,
   `ScratchPipeline` with checkpoints over several processes, `Checkpoints` with proofs,
   `CompressedStorage`, `TrunkIteration`, `Cluster`, `GameRules` and `BettingTree`, `CardSets`,
   `Boards` and `Traversal`.
2. Done: proofs about `WorkQueue`, `Checkpoints`, `ScratchPipeline`, `FreeSegments`,
   `TrunkIteration`, `Cluster`, `CompressedStorage`, the hands, indices, rounds and links of `BettingTree`, and of
   `Traversal` the recursion and the order of the walks and what `recompress` writes.
3. Proofs: where blocks begin (*PlacesFixed*), from `StepOrder` and the sum of the sizes of the paths before
   one.
