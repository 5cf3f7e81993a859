SPECIFICATION SpecWithErrors
CONSTANTS MaxSent = 5  MaxBurst = 3  MaxLines = 2  MaxNotes = 2
INVARIANT BeginClosesNothing
CHECK_DEADLOCK FALSE
