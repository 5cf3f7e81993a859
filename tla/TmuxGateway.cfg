SPECIFICATION Spec
CONSTANTS MaxId = 1  MaxSent = 9  MaxNotes = 2
INVARIANTS  NoFaultUnprovoked
PROPERTIES ImplementsChannel 
CHECK_DEADLOCK FALSE
