CONSTANTS
  Threads = {t1, t2}
  Capacity = 3
  BatchSize = 1
  CacheSize = 1
  CallsMax = 9
  Calls = {"alloc", "free", "alloc_batch", "free_batch", "flush"}
  Alone = {"alloc_batch"}
SPECIFICATION Spec
SYMMETRY MCSymmetry
CHECK_DEADLOCK FALSE
INVARIANTS TypeOK EachNodeOnce AbortIffLeak
PROPERTIES ImplementsObjectPool
