\* stop() while a producer is in the middle of log().
SPECIFICATION Spec
CHECK_DEADLOCK FALSE
CONSTANTS
  m1 = m1
  m2 = m2
  m3 = m3
  Messages <- MCMessages3
  Size <- MCSize
  Producers = {p1, p2}
  Controller = main
  Worker = Worker
  Nobody = Nobody
  Garbage = Garbage
  Zero = Zero
  Capacity = 2
  BufferSize = 4
  Alignment = 2
  InitialSize = 3
  Modes = {"BUFFERED"}
  Faults = {}
  MapsWriteOnly = TRUE
  MaxSessions <- Once
INVARIANT StopFlushes
