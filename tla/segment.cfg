SPECIFICATION Spec
CONSTANTS
  o1 = o1
  o2 = o2
  client = client
  Names = {"camera", "imu", "events"}
  Config <- TwoRings
  Expected <- TwoRings
  Clients = {client}
  Wants <- WantsTheSecond
  Objects = {o1, o2}
  None = None
SYMMETRY Symmetry
INVARIANT TrustedAttach
PROPERTIES ProbeSeesService
