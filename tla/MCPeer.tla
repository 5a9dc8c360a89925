------------------------------- MODULE MCPeer -------------------------------
(* Buffers of one message each: every one of them fills, and a message can  *)
(* be in each of the five places at once.                                   *)
EXTENDS Peer
=============================================================================
