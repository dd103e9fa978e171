----------------------------- MODULE MCPeerSync -----------------------------
EXTENDS PeerSync
=============================================================================
