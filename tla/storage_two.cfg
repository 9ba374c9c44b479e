CONSTANTS
  NumChannels = 2
  SegmentSize = 2
  MaxSegments = 3
  MaxLength = 3
  Ahead = 1
SPECIFICATION Spec
INVARIANTS TypeOK ReadsBack SegmentsConserved
VIEW Visible
