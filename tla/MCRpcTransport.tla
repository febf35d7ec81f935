--------------------------- MODULE MCRpcTransport ---------------------------
(* RpcTransport for TLC.  Its runs check liveness, so no symmetry is used.  *)
EXTENDS RpcTransport
=============================================================================
