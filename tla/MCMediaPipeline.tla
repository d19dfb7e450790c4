-------------------------- MODULE MCMediaPipeline --------------------------
(* Constants of the model-checked instances of MediaPipeline. *)
EXTENDS MediaPipelineProps

\* What a packet measures: a track that opened one tick after the picture, and a
\* packet without a timestamp; one that opened before the picture.
EpochAfterVideo  == [t \in Tracks |-> {0, VideoEpoch + 1}]
EpochBeforeVideo == [t \in Tracks |-> {VideoEpoch - 1}]
NoEpoch          == [t \in Tracks |-> {0}]
=============================================================================
