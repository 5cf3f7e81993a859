SPECIFICATION Spec
CONSTANTS
  Terms = {t1, t2, t3, t4}
  Splits = {s1, s2, s3}
  NULL = NULL
  MaxListed = 2
  MaxTabs = 2
  MaxWaits = 2
SYMMETRY Symmetry
INVARIANTS DyingOwnsNothing TreeShape ListedIffOpen CacheMatchesTabs 
PROPERTY PanesKeepOrder
CHECK_DEADLOCK FALSE
