SPECIFICATION FairSpec
CONSTANTS
  main = main
  p1 = p1
  p2 = p2
  Pages <- ThreePages
  NULL = NULL
  POISON = POISON
  Statuses = {0}
  MaxTid = 4
CHECK_DEADLOCK FALSE
INVARIANTS ProcessTypeOK LoadHandshake ExecKnows
PROPERTIES ExecReturns
