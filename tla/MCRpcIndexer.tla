--------------------------- MODULE MCRpcIndexer ----------------------------
(* RpcIndexer on pools of two and three endpoints. *)
EXTENDS RpcIndexer
=============================================================================
