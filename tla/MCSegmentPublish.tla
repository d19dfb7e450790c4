-------------------------- MODULE MCSegmentPublish --------------------------
(* The model-checked instances of SegmentPublish. *)
EXTENDS SegmentPublish
=============================================================================
