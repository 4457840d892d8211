\* Everything AML and the host may do: two threads, one mutex, one Serialized method
\* that may call itself.
SPECIFICATION Spec
CONSTANTS
  Threads = {t1, t2}
  Mutexes = {m1}
  Methods = {f}
  Serialized = {f}
  None = None
  MaxDepth = 2
  MaxStack = 2
  MaxRecursion = 1
  AtomicUnlock = FALSE
  AmlMay = {"releaseElsewhere", "endNested", "error", "argError", "limit"}
SYMMETRY Symmetry
INVARIANTS TypeOK LockCoversEntries SerializedExclusion
PROPERTIES Monitors
CHECK_DEADLOCK FALSE
