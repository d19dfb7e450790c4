\* Every environment fault, one track opened before the picture.
SPECIFICATION Spec
CONSTANTS
  Tracks = {t1}
  MaxVideo = 2
  MaxAudio = 2
  MaxRequests = 1
  FrameNs = 100
  EncoderDepth = 1
  VideoPremuxLimit = 1
  AudioPremuxLimit = 1
  QueueLimit = 2
  SizeSplitPackets = 0
  AutoSplitNs = 0
  VideoEpoch = 10
  SessionStart = 9
  MaxShiftNs = 500
  Faults = {"prepare", "encode", "capture", "header", "open", "write", "convert", "finalize", "source_lost"}
  AudioEpochs <- EpochBeforeVideo
INVARIANTS
  TypeOK
  NoSilentExit
  WrittenSegmentsReported
  VideoEpochBeforeMux
