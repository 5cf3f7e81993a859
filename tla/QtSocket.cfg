SPECIFICATION Spec
CONSTANTS MaxOut = 6  MaxIn = 5  ReadSize = 2  MaxBacklog = 2
INVARIANTS WritesInOrder MissedIsRemembered
PROPERTIES WaitingDataDelivered LossReachesBackend
CHECK_DEADLOCK FALSE
