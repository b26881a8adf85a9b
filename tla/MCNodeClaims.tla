---------------------------- MODULE MCNodeClaims ----------------------------
(***************************************************************************)
(* The instance of MCNodeUpkeep, with the answers to its pings.            *)
(***************************************************************************)
EXTENDS MCNodeUpkeep, NodeClaims
=============================================================================
