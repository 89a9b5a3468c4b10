SPECIFICATION FairSpec
CONSTANTS
  Threads = {t1, t2}
  Frames = {f1, f2}
  NumPages = 3
  Values = {v}
  Zero = v
  Unspecified = v
  MaxGuards = 1
  FlushModes = {"safe", "unsafe"}
  DiskFaults = {"throws", "lost"}
  None = None
INVARIANTS
  PageTableMatchesFrames
  FramesConserved
  EvictableIffUnpinned
PROPERTIES
  BpmLatchReleased
