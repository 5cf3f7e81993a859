SPECIFICATION Spec
CONSTANTS MaxDepth = 2  MaxParses = 3
PROPERTIES ReadsWhatTmuxWrites ReparseEndsWithTree
CHECK_DEADLOCK FALSE
