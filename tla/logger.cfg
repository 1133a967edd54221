SPECIFICATION Spec
CONSTANTS
  NumFrames = 3
  Word = 16
  Steps = {1}
  Kinds = {"good", "unwritable", "throwing", "unreadable"}
  MaxSequence = 6
CHECK_DEADLOCK FALSE
INVARIANT LoggedIncreasing
PROPERTIES GapsAreLaps CatchesUp StopEnds
