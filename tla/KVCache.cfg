CONSTANTS
  k1 = k1  k2 = k2  k3 = k3  v1 = v1  v2 = v2  t1 = t1  t2 = t2
  Keys = {k1, k2, k3}
  Values = {v1, v2}
  Threads = {t1}
  MaxSize = 2
  DbFails = FALSE
  Deleted = Deleted
  Absent = Absent
SPECIFICATION Spec
INVARIANTS LruMatchesStore ViewIsLatest
PROPERTIES  SaveAllIsComplete
