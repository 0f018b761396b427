CONSTANTS
  s1 = s1  s2 = s2  p1 = p1  p2 = p2  d1 = d1  c1 = c1
  NThreads = 1
  Disp = 1
  SerialTasks = {}
  ParallelTasks = {p1}
  DelayedTasks = {}
  CycleTasks = {c1}
  Delay <- TaskDelay
  MaxElapsed = 2
  FrameReuse = FALSE
  None = None
SPECIFICATION FairSpec
CHECK_DEADLOCK FALSE
PROPERTY ShutdownCompletes
