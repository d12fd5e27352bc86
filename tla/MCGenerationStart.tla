------------------------- MODULE MCGenerationStart -------------------------
(* GenerationStart for TLC. *)
EXTENDS GenerationStart
=============================================================================
