\* By hand: the descriptor that a V4L2 camera leaves open when its constructor throws.
SPECIFICATION Spec
CONSTANTS
  V4L2 = {"v4l2"}
  Pylon = {"pylon"}
  Event = {"prophesee"}
  Imu = {"accel", "gyro"}
  Configs <- SmallServices
  None = None
INVARIANTS EveryDeviceClosed
CHECK_DEADLOCK FALSE
