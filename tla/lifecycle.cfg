\* Two recordings, every fault, workers that hang.
SPECIFICATION Spec
CONSTANTS
  MaxRequests = 2
  MaxEvents = 2
  MaxSnapshots = 1
  MaxBytes = 1
  StallWindow = 2
  Faults = {"prepare", "validate", "sources", "loss", "worker", "hang", "wait"}
PROPERTY StopEnds
INVARIANTS
  StopHonoured
  StopScoped
  CallbacksEndWithRecord
  AbandonedKeepTheirState
  SuccessMeansJoined
  SnapshotsAnswered
