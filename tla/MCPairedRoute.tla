--------------------------- MODULE MCPairedRoute ---------------------------
(* PairedRoute for TLC. *)
EXTENDS PairedRoute
=============================================================================
