SPECIFICATION Spec
CONSTANTS
  main = main
  idle = idle
  p1 = p1
  p2 = p2
  p3 = p3
  lock = lock
  ready = ready
  io = io
  Threads <- FivePages
  initial_thread = main
  IdlePage = idle
  NULL = NULL
  TIME_SLICE = 1
  Locks = {lock}
  Semas = {io}
  Conds = {ready}
  CondLock <- MCCondLock
  tid_lock = tid_lock
  idle_started = idle_started
  InitialValue = 0
  MaxValue = 2
  MaxTid = 5
SYMMETRY Symmetry
CONSTRAINT Overlap
INVARIANTS SynchTypeOK LockExclusion WaitListsExact CondWaitersExact NoLostWakeup UniqueTids KernelAsserts
PROPERTIES FIFOWakeup UsesScheduler HolderHandover ImplementsMonitor
