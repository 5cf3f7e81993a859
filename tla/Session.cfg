SPECIFICATION Spec
CONSTANTS
  Terms = {t1, t2}
  NULL = NULL
  MaxStack = 4
INVARIANTS   LossToldOnce LossIsMarked SettingsPointersLive
PROPERTY ClosedIsDeleted
CHECK_DEADLOCK FALSE
