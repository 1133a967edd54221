SPECIFICATION Spec
CONSTANTS
  NumFrames = 3
  Word = 16
  Steps = {1}
  Kinds = {"good"}
  MaxSequence = 4
CHECK_DEADLOCK FALSE
PROPERTIES LogsTheNewest
