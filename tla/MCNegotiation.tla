---------------------------- MODULE MCNegotiation ----------------------------
(* One candidate of either side, or one reload of the sender.               *)
EXTENDS Negotiation
=============================================================================
