SPECIFICATION Spec
CONSTANTS
  Threads = {t1, t2}
  Frames = {f1, f2}
  NumPages = 3
  Values = {v}
  Zero = z
  Unspecified = u
  MaxGuards = 2
  FlushModes = {"safe"}
  DiskFaults = {}
  None = None
SYMMETRY Symmetry
CHECK_DEADLOCK FALSE
INVARIANTS
  NoLatchCycle
