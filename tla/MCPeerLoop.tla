----------------------------- MODULE MCPeerLoop -----------------------------
(***************************************************************************)
(* PeerLoop for TLC.  The topics of must_fix items are interchangeable:    *)
(* the loop compares sets of them by union and intersection only.  The     *)
(* engine's own topic is not one of them.                                  *)
(***************************************************************************)
EXTENDS PeerLoop, TLC

TopicSymmetry == Permutations(Topics)
=============================================================================
