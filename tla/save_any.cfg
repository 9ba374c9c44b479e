CONSTANTS
  NumIters = 4
  Warmup = 1
  MaxRuns = 3
SPECIFICATION MainSpec
INVARIANTS MainTypeOK ExactUntilAsked NameNeverOverstates SavedUnlessTaken
PROPERTIES CheckpointsKept
