---------------------------- MODULE SnapshotStore ----------------------------
(***************************************************************************)
(* What a node relies on its storage for, on either host: blocks and       *)
(* snapshots are added and never lost, a snapshot is replaced by one of    *)
(* the same block only, and the latest pointer moves between blocks that   *)
(* are there with their snapshots.  A crash at any moment is a stutter.    *)
(* The SQL storage of the host (NodeStorage) and the flash storage of the  *)
(* device (NvsStorage) implement it.                                       *)
(***************************************************************************)
EXTENDS Maps

CONSTANTS
    Hash,               \* block hashes
    None                \* no hash

VARIABLES
    blocks,             \* the hashes of the blocks a load finds
    snapshots,          \* the snapshots a load finds, by the block's hash
    latest              \* the block a restart begins with, or None

vars == <<blocks, snapshots, latest>>

Init ==
    /\ blocks = {}
    /\ snapshots = EmptyMap
    /\ latest = None

AddBlock(h) ==
    /\ blocks' = blocks \cup {h}
    /\ UNCHANGED <<snapshots, latest>>

AddSnapshot(h) ==
    /\ h \in blocks
    /\ DOMAIN snapshots' = DOMAIN snapshots \cup {h}
    /\ \A g \in DOMAIN snapshots \ {h} : snapshots'[g] = snapshots[g]
    /\ UNCHANGED <<blocks, latest>>

PointTo(h) ==
    /\ h \in blocks \cap DOMAIN snapshots
    /\ latest' = h
    /\ UNCHANGED <<blocks, snapshots>>

Next == \E h \in Hash : AddBlock(h) \/ AddSnapshot(h) \/ PointTo(h)

Spec == Init /\ [][Next]_vars
=============================================================================
