\* An MP4 session with automatic splits (violation).
SPECIFICATION Spec
CONSTANTS
  MaxSegments = 2
  Containers = {"mp4"}
  AutoSplit = TRUE
  Faults = {}
  MaxCrashes = 0
INVARIANTS
  CompletedMeansPublished
