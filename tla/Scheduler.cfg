SPECIFICATION FairSchedSpec
CONSTANTS
  main = main
  idle = idle
  p1 = p1
  p2 = p2
  p3 = p3
  Threads <- MCThreads
  initial_thread = main
  IdlePage = idle
  NULL = NULL
  TIME_SLICE = 2
INVARIANTS TypeOK ReadyListExact AlwaysSomeoneToRun AllListExact NewbornHidden
PROPERTIES NoOvertaking NoIdlingPastWork ReadyRuns
