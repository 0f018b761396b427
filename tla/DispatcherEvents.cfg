CONSTANTS
  s1 = s1  s2 = s2  p1 = p1  p2 = p2  d1 = d1  c1 = c1
  NThreads = 2
  Disp = 1
  SerialTasks = {s1, s2}
  ParallelTasks = {p1, p2}
  DelayedTasks = {}
  CycleTasks = {}
  Delay <- TaskDelay
  MaxElapsed = 2
  FrameReuse = FALSE
  None = None
SPECIFICATION Spec
CHECK_DEADLOCK FALSE
INVARIANTS TypeOK ExactlyOnePlace SerialFifoPerThread  NoSleepOnMergedTasks
