\* One track opened after the picture, asynchronous encoder, splits by the user, by
\* duration and by size; no faults.
SPECIFICATION Spec
CONSTANTS
  Tracks = {t1}
  MaxVideo = 3
  MaxAudio = 2
  MaxRequests = 1
  FrameNs = 100
  EncoderDepth = 2
  VideoPremuxLimit = 1
  AudioPremuxLimit = 1
  QueueLimit = 2
  SizeSplitPackets = 2
  AutoSplitNs = 200
  VideoEpoch = 10
  SessionStart = 9
  MaxShiftNs = 500
  Faults = {}
  AudioEpochs <- EpochAfterVideo
INVARIANTS
  PacketsInOrder
  SegmentsSelfContained
  VideoComplete
  AudioAccounted
  ShiftIsMeasured
  SegmentsMatchBoundaries
PROPERTIES
  ClosedSegmentsStayClosed
