\* Fair threads, two tracks, every fault: the queue bound holds and the session
\* ends after a stop.
SPECIFICATION LiveSpec
CONSTANTS
  Tracks = {t1, t2}
  MaxVideo = 1
  MaxAudio = 1
  MaxRequests = 0
  FrameNs = 100
  EncoderDepth = 1
  VideoPremuxLimit = 1
  AudioPremuxLimit = 1
  QueueLimit = 1
  SizeSplitPackets = 0
  AutoSplitNs = 0
  VideoEpoch = 10
  SessionStart = 9
  MaxShiftNs = 500
  Faults = {"prepare", "encode", "capture", "header", "open", "write", "convert", "finalize", "source_lost"}
  AudioEpochs <- EpochBeforeVideo
INVARIANTS
  QueueBounded
PROPERTIES
  StopFinishes
