-------------------------- MODULE MCHttpExecutor --------------------------
(* HttpExecutor for TLC. *)
EXTENDS HttpExecutor
=============================================================================
