\* All write modes, two producers that may stop in the middle of log(), one
\* session, no failing system calls; nobody has to call stop().
SPECIFICATION FairSpec
CHECK_DEADLOCK FALSE
CONSTANTS
  m1 = m1
  m2 = m2
  m3 = m3
  Messages <- MCMessages3
  Size <- MCSize
  Producers = {p1, p2}
  Controller = main
  Worker = Worker
  Nobody = Nobody
  Garbage = Garbage
  Zero = Zero
  Capacity = 2
  BufferSize = 4
  Alignment = 2
  InitialSize = 3
  Modes = {"MMAP", "DIRECT", "BUFFERED"}
  Faults = {}
  MapsWriteOnly = TRUE
  MaxSessions <- Once
INVARIANTS
  TypeOK
  RoomForMessage
  LogIntegrity
  TotalIsFileSize
PROPERTIES
  StopReturns
  EventuallyLogged
