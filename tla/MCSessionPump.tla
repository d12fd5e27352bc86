--------------------------- MODULE MCSessionPump ---------------------------
(* SessionPump for TLC. *)
EXTENDS SessionPump
=============================================================================
