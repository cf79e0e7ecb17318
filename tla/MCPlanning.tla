----------------------------- MODULE MCPlanning -----------------------------
(***************************************************************************)
(* Planning for TLC: what a reviewer may find, one finding at a time or    *)
(* with one beside it, and at most one structural issue.                   *)
(***************************************************************************)
EXTENDS Planning, TLC

MCReviews == {{}, {"hard"}, {"future"}, {"meta"}, {"high"}, {"hard", "meta"}, {"future", "high"}}
MCStructures == {{}, {"structure"}, {"futureStructure"}}

Names == Permutations(Contents) \cup Permutations(Preconditions) \cup Permutations(Ambiguities)
=============================================================================
