---------------------------- MODULE MCSelfUpdate ----------------------------
(* Two processes and three updates: one after the other, or at one time.    *)
EXTENDS SelfUpdate

CONSTANTS p1, p2
=============================================================================
