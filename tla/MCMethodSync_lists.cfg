\* AML that releases where and as often as it acquires before it leaves a method, on a
\* host that does not preempt inside Mutex::unlock, under fairness of the interpreters:
\* two threads, two mutexes, a Serialized method and one that is not; AML fails, and a
\* call from within a method is refused.
SPECIFICATION FairSpec
CONSTANTS
  Threads = {t1, t2}
  Mutexes = {m1, m2}
  Methods = {f, g}
  Serialized = {f}
  None = None
  MaxDepth = 1
  MaxStack = 2
  MaxRecursion = 2
  AtomicUnlock = TRUE
  AmlMay = {"error", "limit"}
INVARIANT LocksSound
PROPERTIES OnlyHolderUnlocks FreshAcquire TeardownEnds
CHECK_DEADLOCK FALSE
