\* Two buffers: the command line and the write of a program.
CONSTANTS
  Buffers = {b1, b2}
  Lengths = {0, 1}
  Writable = TRUE
  nullptr = nullptr
SPECIFICATION Spec
INVARIANTS
  ParamIsReadable
