SPECIFICATION Spec
CONSTANTS
  p1 = p1
  p2 = p2
  u1 = u1
  u2 = u2
  u3 = u3
  NULL = NULL
  Procs <- OneProc
  Stack <- PageOne
  Code <- PageTwo
  Mapped <- PageThree
  Frames <- Frames2
  Slots <- Slots4
  Buffers <- Buffers1
  MaxVersion = 2
CHECK_DEADLOCK FALSE
INVARIANTS VMTypeOK PageIntegrity SlotsPrivate FramesPrivate
