\* Every system call may fail.
SPECIFICATION Spec
CHECK_DEADLOCK FALSE
CONSTANTS
  m1 = m1
  m2 = m2
  m3 = m3
  Messages <- MCMessages3
  Size <- MCSize
  Producers = {main}
  Controller = main
  Worker = Worker
  Nobody = Nobody
  Garbage = Garbage
  Zero = Zero
  Capacity = 2
  BufferSize = 4
  Alignment = 2
  InitialSize = 3
  Modes = {"MMAP", "DIRECT", "BUFFERED"}
  Faults = {"open", "ftruncate", "mmap", "thread", "short", "write"}
  MapsWriteOnly = TRUE
  MaxSessions <- TwiceUnmapped
INVARIANTS
  FileOpenWhileUsed
  DirectAligned
  LoggerInv
  LogIntegrity
