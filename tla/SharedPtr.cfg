\* Two threads race on four handles and two blocks: a block gains a third
\* owner while the other block is freed and reused.
CONSTANTS
  Threads = {t1, t2}
  Ptrs = {p1, p2, p3, p4}
  Blocks = {b1, b2}
  nullptr = nullptr
  NoObject = NoObject
  NoPtr = NoPtr
SPECIFICATION Spec
INVARIANTS
  IInv
  NoUseAfterFree
  CountIsOwners
PROPERTIES
  EventuallyFreed
  ImplementsOwnership
