SPECIFICATION QueueSpec
CONSTANTS
  frame = frame
  overlong = overlong
  p1 = p1
  p2 = p2
  Producers = {p1, p2}
  Payloads <- FrameOrOverlong
  TooLong <- OnlyOverlong
  MaxAdds = 3
  NoEntry = NoEntry
CHECK_DEADLOCK FALSE
INVARIANTS NoLostWakeup
PROPERTIES ImplementsStream DestructorReturns
