SPECIFICATION Spec
CONSTANTS
  NumFrames = 2
  Word = 8
  Steps = {1}
  Kinds = {"good", "unwritable", "unreadable"}
  MaxSequence = 4
CHECK_DEADLOCK FALSE
PROPERTIES LogsTheNewest
