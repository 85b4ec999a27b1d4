---------------------------- MODULE MCMultiBoxNet ----------------------------
(* MultiBoxNet with one box per role: MAIN sends a session and a half.     *)
EXTENDS MultiBoxNet

PacketBounds == [b \in Boxes |-> IF b = "MAIN" THEN 6 ELSE 3]
=============================================================================
