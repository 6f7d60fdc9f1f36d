\* write() may write less than it was asked to.
SPECIFICATION Spec
CHECK_DEADLOCK FALSE
CONSTANTS
  m1 = m1
  m2 = m2
  m3 = m3
  Messages <- MCMessages3
  Size <- MCSize
  Producers = {main}
  Controller = main
  Worker = Worker
  Nobody = Nobody
  Garbage = Garbage
  Zero = Zero
  Capacity = 2
  BufferSize = 4
  Alignment = 2
  InitialSize = 3
  Modes = {"BUFFERED"}
  Faults = {"short"}
  MapsWriteOnly = TRUE
  MaxSessions <- Once
INVARIANT TotalIsFileSize
