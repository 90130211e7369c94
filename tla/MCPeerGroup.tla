---------------------------- MODULE MCPeerGroup ----------------------------
(* Two clients and two listening addresses. *)
EXTENDS PeerGroup
============================================================================
