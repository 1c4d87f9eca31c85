\* WorkQueue: two callers, two workers and one block fewer than functors, so
\* that blocks are reused and allocations fail; it ends when every functor was
\* scheduled.  Timer: jiffies of 4 bits, started anywhere, so that every
\* wraparound occurs.
CONSTANTS
  Threads = {t1, t2}
  Workers = {w1, w2}
  Jobs = {j1, j2, j3}
  Blocks = {b1, b2}
  nullptr = nullptr
  Modulus = 16
  Delays = {0, 1, 3, 7}
  MaxLate = 3
SPECIFICATION MCSpec
CHECK_DEADLOCK FALSE
INVARIANTS
  OwnersInv
  NothingAfterDelete
PROPERTIES
  RunsOnce
  NeverEarly
  AsyncEnds
