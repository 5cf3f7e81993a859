SPECIFICATION Spec
CONSTANTS MaxSent = 5  MaxBurst = 3  MaxLines = 2  MaxNotes = 2
INVARIANTS AnswerMatchesCommand NotesNotSwallowed
PROPERTY EveryCommandAnswered
CHECK_DEADLOCK FALSE
