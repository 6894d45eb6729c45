------------------------------ MODULE MCPausing ------------------------------
(* Small instances of Pausing for TLC. *)
EXTENDS Pausing
=============================================================================
