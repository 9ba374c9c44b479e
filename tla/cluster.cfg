SPECIFICATION FairSpec
CONSTANTS
  NumSubgames = 3
  NumNodes = 2
  NumWorkers = 1
  QueueSize = 1
  NetworkCopies = 1
  Buffer = 1
  Quit <- MCQuit
INVARIANTS TypeOK RepliesMatch QuietNodes NodesHaveDone
PROPERTIES ServesJobs RunEnds
