----------------------------- MODULE MCPStorage -----------------------------
(* Small instances of PStorage. *)
EXTENDS PStorage

=============================================================================
