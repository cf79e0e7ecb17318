------------------------------ MODULE Delivery ------------------------------
(***************************************************************************)
(* What a collaboration run promises: the tree it delivers has passed      *)
(* every required check as it stands, and a check that builds on others is *)
(* only made on a tree that has passed those.                              *)
(***************************************************************************)
CONSTANTS
    Kinds,     \* the kinds of check
    Required,  \* those a delivered tree has passed
    Needs      \* Needs[k]: those that come before k on the same tree

VARIABLES
    passed,  \* the checks the tree, as it now is, has passed
    outcome  \* "open", "delivered" or "abandoned"

TypeOK == passed \subseteq Kinds /\ outcome \in {"open", "delivered", "abandoned"}

Init == passed = {} /\ outcome = "open"

Check(k) ==
    /\ outcome = "open" /\ Needs[k] \subseteq passed
    /\ passed' = passed \cup {k}
    /\ UNCHANGED outcome

\* The tree is written to, or a check that is repeated fails.
Lose ==
    /\ outcome = "open"
    /\ passed' \in SUBSET passed
    /\ UNCHANGED outcome

Deliver ==
    /\ outcome = "open" /\ Required \subseteq passed
    /\ outcome' = "delivered"
    /\ UNCHANGED passed

\* A run that gives up claims nothing of the tree it leaves.
Abandon ==
    /\ outcome = "open" /\ outcome' = "abandoned"
    /\ passed' \in SUBSET Kinds

Next == (\E k \in Kinds : Check(k)) \/ Lose \/ Deliver \/ Abandon

Spec == Init /\ [][Next]_<<passed, outcome>>
=============================================================================
