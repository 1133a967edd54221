SPECIFICATION Spec
CONSTANTS
  NumFrames = 2
  Word = 16
  Steps = {2}
  Kinds = {"good"}
  MaxSequence = 8
CHECK_DEADLOCK FALSE
PROPERTIES GapsAreLaps
