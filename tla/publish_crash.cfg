\* Every fault and up to two process deaths, both containers, user and automatic splits.
SPECIFICATION Spec
CONSTANTS
  MaxSegments = 3
  Containers = {"mkv", "mp4"}
  AutoSplit = TRUE
  Faults = {"manifest", "load", "path", "remux", "move", "engine", "disk"}
  MaxCrashes = 2
INVARIANTS
  RunningPublishesWhole
  SegmentsProtected
  NamedSegmentsPublished
PROPERTIES
  LastCopyKept
