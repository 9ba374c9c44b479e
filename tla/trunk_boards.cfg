\* Two boards, each of which leaves one of two hands possible; three subgames.
SPECIFICATION FairSpec
CONSTANTS
  h1 = h1
  h2 = h2
  Hands = {h1, h2}
  Tree <- TwoBoards
  Dealt <- OneHandEach
  QueueSize = 1
INVARIANTS TypeOK GetsOwnResult SubmitsInPass
PROPERTIES UpdatesInStep PassesEnd
