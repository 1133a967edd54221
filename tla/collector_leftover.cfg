SPECIFICATION CollectorSpec
PROPERTIES EarlyExitReported
