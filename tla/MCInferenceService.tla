------------------------- MODULE MCInferenceService -------------------------
(* Instances of InferenceService for TLC.  Jobs are not symmetric in them: *)
(* StuckFiles names some of them.                                          *)
EXTENDS InferenceService

=============================================================================
