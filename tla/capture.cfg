SPECIFICATION Spec
CONSTANTS
  Nobody = Nobody
  Buffers = {b1, b2, b3}
  Subsample = 2
  MaxFrames = 4
CHECK_DEADLOCK FALSE
INVARIANTS CopiesItsOwn RunningMeansCapturing BuffersCirculate
PROPERTIES StopReturns
