SPECIFICATION CollectorSpec
INVARIANTS FatalMeansDown ReadyIsReal
PROPERTIES LoggerStopsFirst ExitsAreToldApart LockIsReleased
