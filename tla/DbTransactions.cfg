CONSTANTS
  a = a  b = b  w = w  x = x
  Transactors = {a, b}
  Throwing = {a}
  Writers = {w, x}
  NWrites = 3
  QueryFails = TRUE
  Reconnects = TRUE
  NoThread = NoThread
CHECK_DEADLOCK FALSE
SPECIFICATION FairSpec
INVARIANTS Isolation CommittedIsDurable SeparateAreAtomic AcknowledgedIsKept
 
