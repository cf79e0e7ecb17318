----------------------------- MODULE TaskGraph -----------------------------
(***************************************************************************)
(* The orders the program works through: the tasks of TASK_GRAPH.json and  *)
(* the sub-features of a split proposal.  A graph is a record of the       *)
(* planner's list of tasks and the tasks each one depends on; a split is   *)
(* the list of sub-features, what each depends on, and whether the depth   *)
(* limit of splits is reached.                                             *)
(***************************************************************************)
EXTENDS Naturals, SequencesExt

TasksOf(graph) == Range(graph.list)

\* Dependencies that name a task of the graph.
KnownDeps(graph, t) == graph.deps[t] \cap TasksOf(graph)

\* ordered_task_graph_tasks: a queue of the tasks that are ready, each of which
\* frees dependents in the order of the list; what a cycle holds back comes last.
OrderedTasks(graph) ==
    LET Deps(t) == KnownDeps(graph, t)
        Emit[ready \in Seq(TasksOf(graph)), out \in Seq(TasksOf(graph))] ==
            IF ready = << >> THEN out
            ELSE LET next == Append(out, Head(ready))
                     Freed(t) == Head(ready) \in Deps(t) /\ Deps(t) \subseteq Range(next)
                 IN  Emit[Tail(ready) \o SelectSeq(graph.list, Freed), next]
        IsReady(t) == Deps(t) = {}
        sorted == Emit[SelectSeq(graph.list, IsReady), << >>]
        IsHeld(t) == t \notin Range(sorted)
    IN  sorted \o SelectSeq(graph.list, IsHeld)

\* select_next_task takes the first of these: not complete, but all of what
\* they depend on is.  (What a task-run has left behind is not in the model: its
\* blocked task would come first, and its ticks would count as completed.)
ReadyTasks(graph, completed) ==
    LET Ready(t) == t \notin completed /\ graph.deps[t] \subseteq completed
    IN  SelectSeq(OrderedTasks(graph), Ready)

\* _prioritize_tasks_by_instincts: a stable sort by the patterns that match.
ByInstinct(list, hinted) ==
    LET Match(t) == t \in hinted
        Rest(t) == t \notin hinted
    IN  SelectSeq(list, Match) \o SelectSeq(list, Rest)

\* _planned_tasks: the rest of the graph, for the task cycle.
Backlog(graph, excluded, hinted) ==
    LET Open(t) == t \notin excluded
    IN  ByInstinct(SelectSeq(OrderedTasks(graph), Open), hinted)

\* _topological_sort: depth first through depends_on.  The order is the only
\* element of the result, which is empty when there is a cycle.
SubOrder(split) ==
    LET Known(s) == SelectSeq(split.on[s], LAMBDA d : d \in Range(split.list))
        Visit[s \in Range(split.list), stack \in SUBSET Range(split.list),
              out \in Seq(Range(split.list))] ==
            IF s \in Range(out) THEN <<out>>
            ELSE IF s \in stack THEN << >>
            ELSE LET deps == FoldLeft(LAMBDA acc, d :
                                 IF acc = << >> THEN acc
                                 ELSE Visit[d, stack \cup {s}, acc[1]],
                              <<out>>, Known(s))
                 IN  IF deps = << >> THEN << >> ELSE <<Append(deps[1], s)>>
    IN  FoldLeft(LAMBDA acc, s : IF acc = << >> THEN acc ELSE Visit[s, {}, acc[1]],
                 << << >> >>, split.list)

\* A split that _apply_split_proposal refuses: nothing is run and the proposal
\* stays as it is.
Refused(split) == split.list = << >> \/ split.deep \/ SubOrder(split) = << >>

-----------------------------------------------------------------------------
(* What the orders are for.                                                *)

\* Each task of the list comes after all it depends on, but for those in done.
ListedInOrder(list, deps, completed) ==
    \A i \in DOMAIN list : deps[list[i]] \subseteq completed \cup {list[j] : j \in 1..(i - 1)}

\* The sorts hand out no task before the ones it depends on.
TasksInOrder(graphs, hinted, tasks) ==
    \A graph \in graphs, completed \in SUBSET tasks :
        /\ ReadyTasks(graph, completed) # << >> =>
              graph.deps[Head(ReadyTasks(graph, completed))] \subseteq completed
        /\ ListedInOrder(Backlog(graph, completed, hinted), graph.deps, completed)

\* Once all in "completed" are complete, the task comes next until it is, too.
ComesNext(graphs, tasks, completed, t) ==
    \A graph \in graphs, more \in SUBSET tasks :
        completed \subseteq more /\ t \notin more /\ ReadyTasks(graph, more) # << >> =>
            Head(ReadyTasks(graph, more)) = t

\* All graphs are worked through in one order, which hints leave as it is.
OneOrder(graphs, hinted, tasks) ==
    \A graph \in graphs, completed \in SUBSET tasks :
        LET ready == ReadyTasks(graph, completed)
            backlog == Backlog(graph, completed, hinted)
            Before(i) == completed \cup {backlog[j] : j \in 1..(i - 1)}
        IN  /\ ready # << >> => /\ Head(ready) \notin completed
                                /\ ComesNext(graphs, tasks, completed, Head(ready))
            /\ \A i \in DOMAIN backlog :
                  /\ backlog[i] \notin Before(i)
                  /\ ComesNext(graphs, tasks, Before(i), backlog[i])

\* A sub-feature of the split comes after all of its parts that it depends on.
PartsInOrder(split) ==
    LET order == SubOrder(split)[1] IN
    \A i \in DOMAIN order : \A d \in Range(split.on[order[i]]) :
        d \in Range(split.list) => \E j \in 1..(i - 1) : order[j] = d

\* What the sorts return is made of what they are given.
SortsAreTyped(graphs, splits, hinted, tasks) ==
    /\ \A graph \in graphs, completed \in SUBSET tasks :
          /\ ReadyTasks(graph, completed) \in Seq(tasks)
          /\ Backlog(graph, completed, hinted) \in Seq(tasks)
    /\ \A split \in splits :
          ~Refused(split) => SubOrder(split)[1] \in Seq(UNION {Range(s.list) : s \in splits})
=============================================================================
