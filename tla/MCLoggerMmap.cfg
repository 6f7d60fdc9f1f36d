\* The default write mode on a system that follows POSIX.
SPECIFICATION Spec
CHECK_DEADLOCK FALSE
CONSTANTS
  m1 = m1
  m2 = m2
  m3 = m3
  Messages <- MCMessages3
  Size <- MCSize
  Producers = {main}
  Controller = main
  Worker = Worker
  Nobody = Nobody
  Garbage = Garbage
  Zero = Zero
  Capacity = 2
  BufferSize = 4
  Alignment = 2
  InitialSize = 3
  Modes = {"MMAP"}
  Faults = {}
  MapsWriteOnly = FALSE
  MaxSessions <- Once
INVARIANT ModeStarts
