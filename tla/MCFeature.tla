----------------------------- MODULE MCFeature -----------------------------
(***************************************************************************)
(* Feature on three tasks and two sub-features.                            *)
(***************************************************************************)
EXTENDS Feature

CONSTANTS t1, t2, t3, s1, s2, s3

\* Each task needs the one before it; the planner has listed them backwards.
Backwards == [list |-> <<t3, t2, t1>>, deps |-> (t1 :> {} @@ t2 :> {t1} @@ t3 :> {t2})]
MCGraphs == {Backwards}

\* A split whose second part comes first, and one that nothing can order.
Reversed == [list |-> <<s1, s2>>, on |-> (s1 :> <<s2>> @@ s2 :> << >>), deep |-> FALSE]
Cyclic == [list |-> <<s1, s2>>, on |-> (s1 :> <<s2>> @@ s2 :> <<s1>>), deep |-> FALSE]
MCSplits == {Reversed, Cyclic}

-----------------------------------------------------------------------------
(* The sorts, on the graphs of the run and on all that can be listed for   *)
(* three tasks or sub-features.                                            *)

Lists(elements) == {list \in [1..3 -> elements] : IsInjective(list)}

AllGraphs == [list : Lists(Tasks), deps : [Tasks -> SUBSET Tasks]]

\* Some tasks, not all, depend on each other in a circle.
Circular(deps) ==
    \E circle \in SUBSET Tasks \ {{}} : \A t \in circle : deps[t] \cap circle # {}

AllSplits ==
    LET subs == {s1, s2, s3}
        Needs == {<< >>} \cup {<<s>> : s \in subs} \cup {<<s, t>> : s, t \in subs}
    IN  [list : Lists(subs), on : [subs -> Needs], deep : {FALSE}]

ASSUME RunIsInOrder ==
    /\ SortsAreTyped(Graphs, Splits, Hinted, Tasks)
    /\ TasksInOrder(Graphs, Hinted, Tasks)
    /\ OneOrder(Graphs, Hinted, Tasks)
    /\ \A split \in Splits : ~Refused(split) => PartsInOrder(split)

ASSUME AllGraphsAreInOrder ==
    \A graph \in AllGraphs : ~Circular(graph.deps) =>
        /\ TasksInOrder({graph}, {}, Tasks)
        /\ OneOrder({graph}, {}, Tasks)

ASSUME AllSplitsAreInOrder ==
    \A split \in AllSplits : ~Refused(split) => PartsInOrder(split)

ASSUME AllSortsAreTyped == SortsAreTyped(AllGraphs, AllSplits, {}, Tasks)
=============================================================================
