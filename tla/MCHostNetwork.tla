---------------------------- MODULE MCHostNetwork ----------------------------
(***************************************************************************)
(* HostNetwork with two transports and two nodes.  Transport t1 may come   *)
(* back as another node, and node n1 on another transport.                 *)
(***************************************************************************)
EXTENDS HostNetwork, TLC

CONSTANTS t1, t2, n1, n2

MCIdentities == {<<t1, n1>>, <<t1, n2>>, <<t2, n1>>}

\* A new chain, and one so long that the window goes past the largest height.
MCLocalHeights == {0, 3}

MCLimitOf == (t1 :> 1) @@ (t2 :> 3)
=============================================================================
