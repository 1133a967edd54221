SPECIFICATION Spec
CONSTANTS
  o1 = o1
  o2 = o2
  client = client
  Names = {"camera", "imu", "events"}
  Config <- CameraAndEvents
  Expected <- WithoutEvents
  Clients = {client}
  Wants <- WantsTheSecond
  Objects = {o1, o2}
  None = None
SYMMETRY Symmetry
PROPERTIES ProbeSeesService
