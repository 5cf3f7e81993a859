SPECIFICATION Spec
CONSTANTS
  Ctx = {c1, c2}
  None = None
  MaxQueued = 5
  MaxDialogs = 2
INVARIANTS NoneStranded QueueIsExact OneAtATime
CHECK_DEADLOCK FALSE
PROPERTY EveryCallbackRuns
