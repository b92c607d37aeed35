SPECIFICATION Spec
CONSTANTS
  p1 = p1
  p2 = p2
  u1 = u1
  u2 = u2
  u3 = u3
  NULL = NULL
  Procs <- TwoProcs
  Stack <- Pages2
  Code <- NoPage
  Mapped <- NoPage
  Frames <- Frames2
  Slots <- Slots3
  Buffers <- Buffers2
  MaxVersion = 1
CHECK_DEADLOCK FALSE
INVARIANTS PageIntegrity
