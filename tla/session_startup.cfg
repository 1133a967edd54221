\* record.py when the gyroscope, the last device to start, fails.
SPECIFICATION Spec
CONSTANTS
  Scripts = {"record"}
  Configs = {{"RGB1", "Event1", "imu"}}
  MayFail = {"gyro"}
  MaxItems = 1
  MaxDirs = 1
  NumFrames = 1
INVARIANT StopsWhatStarted
CHECK_DEADLOCK FALSE
