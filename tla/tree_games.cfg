SPECIFICATION WalkSpec
CONSTANTS
  NumPlayers = 2
  MaxNumActions = 6
  MaxPasses = 3
  Games <- MCGames
  Walked <- MCWalked
  RankCardset <- Rank
INVARIANTS WalkTypeOK RulesKept TreeFits ChanceIsFair PlacesFixed StreamsInOrder ReorderPreserves
