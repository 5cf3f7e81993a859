SPECIFICATION Spec
CONSTANTS MaxOut = 3  MaxIn = 3  ReadSize = 1  MaxBacklog = 1
PROPERTY FailureReachesBackend
CHECK_DEADLOCK FALSE
