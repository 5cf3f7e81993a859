SPECIFICATION Spec
CONSTANT MaxBytes = 6
INVARIANTS LinesAreWhole ExitIsLast
CHECK_DEADLOCK FALSE
