----------------------------- MODULE MCPeerTable -----------------------------
(* PeerTable on a small instance: the other boxes' addresses are alike.    *)
EXTENDS PeerTable, TLC

Symmetry == Permutations(Macs)
=============================================================================
