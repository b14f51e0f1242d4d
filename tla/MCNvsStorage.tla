---------------------------- MODULE MCNvsStorage -----------------------------
(* Three hashes that collide in a bucket of two slots, and one apart. *)
EXTENDS NvsStorage

MCBucketOf == <<1, 1, 1, 2>>
MCStateOf == <<11, 12, 13, 14>>
MCState == 11..14
=============================================================================
