---------------------------- MODULE MCPeerWorker ----------------------------
EXTENDS PeerWorker, TLC

\* Peers, and bufferevents, are interchangeable in the safety properties.
Symmetry == Permutations(Peers) \cup Permutations(Bevs)
=============================================================================
