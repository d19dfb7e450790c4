\* User, size and duration splits with an asynchronous encoder.
SPECIFICATION Spec
CONSTANTS
  MaxFrames = 6
  MaxPresses = 3
  EncoderDepth = 3
  SizeFrames = 2
  AutoFrames = 3
INVARIANTS
  TypeOK
  TriggerAttributed
  MaskComplete
  RequestsConsumedOnce
  BoundaryOnForcedFrame
  PendingReachesBoundary
