---------------------------- MODULE MCPeerGroup ----------------------------
(* PeerGroup for TLC.                                                      *)
EXTENDS PeerGroup
=============================================================================
