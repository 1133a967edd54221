\* Two cameras and an event camera; one of each kind; a camera beside two IMUs.
SPECIFICATION Spec
CONSTANTS
  V4L2 = {"v4l2"}
  Pylon = {"pylon"}
  Event = {"prophesee"}
  Imu = {"accel", "gyro"}
  Configs <- SmallServices
  None = None
INVARIANTS UsesWhatExists BrokenStaysAlone NothingLeftOpen
PROPERTIES ServiceEnds
CHECK_DEADLOCK FALSE
