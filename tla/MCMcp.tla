-------------------------------- MODULE MCMcp --------------------------------
(* Mcp for TLC.                                                             *)
EXTENDS Mcp
=============================================================================
