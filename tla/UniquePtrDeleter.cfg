\* DefaultDeleter against the promise that resources do not leak.
CONSTANTS
  Ptrs = {p1}
  Blocks = {b1}
  nullptr = nullptr
  NoObject = NoObject
SPECIFICATION Spec
INVARIANTS
  DestroyedWhenFreed
