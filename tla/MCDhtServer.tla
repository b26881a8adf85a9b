---------------------------- MODULE MCDhtServer -----------------------------
(***************************************************************************)
(* A small server: every store is full after one or two entries.              *)
(***************************************************************************)
EXTENDS DhtServer, TLC

CONSTANTS c1, c2, x1, t1, t2, v1, v2, v3, p1, p2, a1

Symmetry == Permutations(Value) \cup Permutations(Peer) \cup Permutations(Target)
=============================================================================
