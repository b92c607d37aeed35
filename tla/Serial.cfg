SPECIFICATION FairSpec
CONSTANTS
  r1 = r1
  r2 = r2
  w1 = w1
  b1 = b1
  b2 = b2
  NULL = NULL
  Readers <- TwoReaders
  Writers <- OneWriter
  Keys <- ByteOne
  Line <- ByteTwo
  Sent <- ByteOne
  Polled <- ByteTwo
  BufSize = 3
  MaxPolls = 1
CHECK_DEADLOCK FALSE
INVARIANTS SerialTypeOK InterruptsArmed NobodySleepsOnWork
PROPERTIES InputInOrder OutputInOrder SleepersServed
