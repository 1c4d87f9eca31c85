\* Two threads on one file.  Requests of no byte and of the whole buffer,
\* which is one more than fits beside the terminator; pread starts at 1, in
\* the middle of a full message and behind an empty one.
CONSTANTS
  Threads = {t1, t2}
  Files = {f1}
  Msgs = {a, b}
  Sizes = {0, 3}
  Offsets = {1}
  BUFFER_SIZE = 3
  NoThread = NoThread
  NoFile = NoFile
  NoMsg = NoMsg
SPECIFICATION Spec
INVARIANTS
  BufferInv
PROPERTIES
  EveryCallReturns
  ImplementsEchoBuffer
