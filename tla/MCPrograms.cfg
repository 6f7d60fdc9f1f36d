\* Up to six messages of 38 and 33 (or 46) bytes, a queue of two and a
\* buffer that is full after two of the benchmark's messages and after one of
\* the demo's, so that log() meets a full queue and write_message a full
\* buffer.  Opening the file, starting the thread and every write()
\* may fail.  The programs stop at their end.
SPECIFICATION FairSpec
CHECK_DEADLOCK FALSE
CONSTANTS
  Main = Main
  Worker = Worker
  Nobody = Nobody
  Garbage = Garbage
  Zero = Zero
  MaxMessages = 6
  Capacity = 2
  BufferSize = 80
  Faults = {"open", "thread", "write"}
  CPUs = {0, 1}
INVARIANTS
  Delivered
  ReportsAgree
  WholeMessages
PROPERTY ProgramEnds
