------------------------------ MODULE MCPeerList ------------------------------
(* A model-checking instance of PeerList. *)
EXTENDS PeerList, TLC

\* The peers are alike; the global chat and the null uuid are not.
Symmetry == Permutations(Peers)
===============================================================================
