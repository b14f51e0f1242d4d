--------------------------- MODULE MCPeerSessions ---------------------------
(***************************************************************************)
(* PeerSessions with two peers and two bootstrap addresses.                *)
(***************************************************************************)
EXTENDS PeerSessions, TLC

CONSTANTS n1, n2, a1, a2

Symmetry == Permutations(Node)

MCBootstrap == <<a1, a2>>
=============================================================================
