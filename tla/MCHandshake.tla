----------------------------- MODULE MCHandshake -----------------------------
(* A sender and its successor; a receiver that vanishes, one that comes     *)
(* after it, and one that finds the room full.                              *)
EXTENDS Handshake

Starts == [x \in Sides |-> IF x = "S" THEN 2 ELSE 3]
=============================================================================
