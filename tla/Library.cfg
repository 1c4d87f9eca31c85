\* Expected: four objects, two resources.  IoctlHandler: number 5 has no
\* command; the results of the owner are both errors of the handler, success
\* and a positive number.  HashMap: maps of up to two buckets, up to three
\* nodes; it ends with its destructor.  List: four nodes and one iteration at
\* a time.  Semaphore: three threads for two units.  Completion: two waiters,
\* up to three workers.  SpinLock: threads on two CPUs, a handler on a third.
\* PerCPU: three threads on two CPUs.  Counters: three shares.  Page: two
\* threads with two pages each need three places.  SKB: a buffer of four
\* bytes, and reserve up to two behind it.
CONSTANTS
  Slots = {x1, x2, x3, x4}
  Resources = {r1, r2}
  nullptr = nullptr
  unset = unset
  none = none
  Commands <- Pack
  Cmds = {1, 2, 3, 4, 5}
  Arguments = {0, 1, 2}
  Results <- Answers
  ENOTTY = 25
  EFAULT = 14
  k1 = k1
  k2 = k2
  k3 = k3
  Keys = {k1, k2, k3}
  Values = {v1, v2}
  Hash <- Hashes
  BucketCounts = {0, 1, 2}
  Nodes = {n1, n2, n3}
  ListNodes = {n1, n2, n3, n4}
  head_ = head_
  poison = poison
  Threads = {t1, t2, t3}
  Count = 2
  Waiters = {t1, t2}
  Workers = {w1, w2, w3}
  owner = t1
  LockCpus = {c1, c2, c3}
  IrqCpus = {c3}
  Modulus = 3
  Cpus = {c1, c2}
  MaxUpdates = 2
  Shares = {s1, s2, s3}
  Mappers = {t1, t2}
  Pages = {p1, p2, p3}
  PageSlots = {s1, s2, s3}
  Depth = 2
  Bytes = {b1, b2}
  Size = 4
  Beyond = 2
SPECIFICATION MCSpec
CHECK_DEADLOCK FALSE
INVARIANTS
  LifetimesInv
  ResultIsTrue
  MapInv
  VisitsEachOnce
  NoLostWakeup
  CountsExact
  BuffersIntact
PROPERTIES
  GivenBackByOwner
  WritesOnlyResults
  PointersStayValid
  ImplementsSequence
  SumIsBetween
  WaitsEnd
