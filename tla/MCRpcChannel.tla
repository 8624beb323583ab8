----------------------------- MODULE MCRpcChannel -----------------------------
(* Small instances of RpcChannel for TLC. *)
EXTENDS RpcChannel

CONSTANTS s1, s2
=============================================================================
