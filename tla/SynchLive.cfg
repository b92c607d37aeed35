SPECIFICATION FairSpec
CONSTANTS
  main = main
  idle = idle
  p1 = p1
  p2 = p2
  p3 = p3
  lock = lock
  ready = ready
  io = io
  Threads <- FourPages
  initial_thread = main
  IdlePage = idle
  NULL = NULL
  TIME_SLICE = 1
  Locks = {lock}
  Semas = {}
  Conds = {ready}
  CondLock <- MCCondLock
  tid_lock = tid_lock
  idle_started = idle_started
  InitialValue = 0
  MaxValue = 0
  MaxTid = 4
PROPERTIES BootCompletes FreeLockIsTaken SignalledWakes
