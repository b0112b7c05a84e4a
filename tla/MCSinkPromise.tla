---------------------------- MODULE MCSinkPromise --------------------------
(* The instance of MCSink for the refinement. *)
EXTENDS MCSink, SinkPromise
============================================================================
