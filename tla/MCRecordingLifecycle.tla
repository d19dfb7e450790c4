------------------------ MODULE MCRecordingLifecycle ------------------------
(* The model-checked instances of RecordingLifecycle. *)
EXTENDS RecordingLifecycle
=============================================================================
