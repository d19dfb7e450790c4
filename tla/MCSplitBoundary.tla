-------------------------- MODULE MCSplitBoundary --------------------------
(* The model-checked instances of SplitBoundary. *)
EXTENDS SplitBoundary
=============================================================================
