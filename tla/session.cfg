\* Every script; any camera or accelerometer may fail to start, the gyroscope does not.
SPECIFICATION Spec
CONSTANTS
  Scripts = {"record", "record_rgb_event", "record_multi_rgb", "record_imu",
             "record_event", "record_basler"}
  Configs = {{"RGB1", "RGB2", "Event1"}, {"RGB1", "Event1", "imu"}, {"RGB2"}, {"imu"}}
  MayFail = {"RGB1", "RGB2", "Event1", "accel", "raw"}
  MaxItems = 1
  MaxDirs = 2
  NumFrames = 1
INVARIANTS StopsWhatStarted CountsItsRows FilesOutliveThreads OwnDirectory
PROPERTY SessionEnds
CHECK_DEADLOCK FALSE
