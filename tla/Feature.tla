------------------------------ MODULE Feature ------------------------------
(***************************************************************************)
(* The autopilot command on one feature, from one start to the next: it    *)
(* takes up the answer to an earlier question, makes or reuses a plan,     *)
(* picks the first task that is ready, runs the collaboration loop on it   *)
(* and then on the rest of the graph, and asks when it is stuck.  Every    *)
(* step that writes a file is a step here, and the command may die between *)
(* any two of them.  What a loop does is in PeerLoop and SinglePass; here  *)
(* it is one step with the outcomes those have.                            *)
(***************************************************************************)
EXTENDS Escalation, TaskGraph

CONSTANTS
    Graphs,      \* task graphs that a plan may have
    Hinted,      \* tasks that a learned instinct matches
    AutoDecide,  \* WORKFLOW_AUTO_DECIDE
    User         \* how the user may use the two commands

\* All but the hasty user answer an open question about a plan before the next
\* start; all but the silent one give --task or --prd with every start, unless
\* the last plan was approved.
Manners == {"careful", "hasty", "silent"}

ASSUME FeatureAssumption ==
    /\ \A tasks \in Graphs : /\ TasksOf(tasks) \subseteq Tasks
                             /\ \A t \in TasksOf(tasks) : tasks.deps[t] \subseteq Tasks
    /\ Hinted \subseteq Tasks /\ AutoDecide \in BOOLEAN
    /\ User \in Manners

VARIABLES
    at,            \* where the command stands
    draft,         \* the plan in memory
    verdict,       \* what the rounds of this start made of its plan
    conversation,  \* PLANNING_CONVERSATION.json
    taskGraph,     \* TASK_GRAPH.json
    mem,           \* state.completed_tasks in memory
    task,          \* the task whose loop runs
    primary,       \* it is the first one of this start
    queue,         \* the rest of the task cycle
    chain,         \* the split as it was read
    rest,          \* sub-features still to be run
    finished,      \* sub-features of this split that have ended well
    passed,        \* tasks whose loop has passed
    plans          \* plans made so far

Verdicts == {"approved", "approval", "deadlock", "other"}
NoDraft == [plan |-> NoPlan, tasks |-> NoTask]
Drafts == [plan : Plans, tasks : Graphs]
Subs == UNION {Range(s.list) : s \in Splits}

planFiles == <<conversation, taskGraph, plans>>
planned == <<draft, verdict>>
work == <<mem, task, primary, queue>>
splitRun == <<chain, rest, finished>>
command == <<planned, work, splitRun>>
vars == <<escalationVars, planFiles, command, passed, at>>

Steps == {"idle", "resume", "split", "finalize", "finalized", "bootstrap", "count", "ask", "converse",
          "gate", "graph", "select", "ready", "loop", "countTask", "askTask", "decide",
          "respond", "rewind", "cycle", "save"}

TypeOK ==
    /\ EscalationTypeOK
    /\ at \in Steps
    /\ {draft, conversation, taskGraph} \subseteq Drafts \cup {NoDraft}
    /\ verdict \in Verdicts \cup {"none"}
    /\ mem \subseteq Tasks /\ task \in Tasks \cup {NoTask} /\ primary \in BOOLEAN
    /\ queue \in Seq(Tasks)
    /\ chain \in Splits \cup {NoTask} /\ rest \in Seq(Subs) /\ finished \subseteq Subs
    /\ passed \subseteq Tasks /\ plans \in 0..MaxPlans

Init ==
    /\ EscalationInit
    /\ draft = NoDraft /\ verdict = "none"
    /\ mem = {} /\ task = NoTask /\ primary = FALSE /\ queue = << >>
    /\ chain = NoTask /\ rest = << >> /\ finished = {}
    /\ at = "idle" /\ passed = {}
    /\ conversation = NoDraft /\ taskGraph = NoDraft /\ plans = 0

\* The command ends: what it holds in memory is gone.
Exit ==
    /\ at' = "idle" /\ draft' = NoDraft /\ verdict' = "none"
    /\ mem' = {} /\ task' = NoTask /\ primary' = FALSE /\ queue' = << >>
    /\ chain' = NoTask /\ rest' = << >> /\ finished' = {}

-----------------------------------------------------------------------------
\* The question about a plan that has no answer yet.
Unanswered ==
    /\ request["planning"] # NoQuestion
    /\ ~(Pending("planning") /\ response["planning"].to = request["planning"])

\* The user starts the command.  (A start with another input than the graph's
\* ends with planning_graph_stale and changes nothing.)
Start ==
    /\ at = "idle" /\ at' = "resume"
    /\ User # "hasty" => deciding = "idle" /\ ~Unanswered
    /\ UNCHANGED <<escalationVars, planFiles, command, passed>>

\* apply_pending_resume begins with a proposal; a refused one ends this start,
\* and the next one finds it as it was.
TakeSplit ==
    /\ at = "resume" /\ PendingSplit
    /\ IF Refused(proposal)
       THEN Exit
       ELSE /\ chain' = proposal /\ rest' = SubOrder(proposal)[1]
            /\ at' = "split"
            /\ UNCHANGED <<planned, work, finished>>
    /\ UNCHANGED <<escalationVars, planFiles, passed>>

\* Mutant: the chain goes on after a sub-feature that did not end well.
GoesOn(ok) == Tail(rest)

\* What is left of the chain after a sub-feature.
Chain(ok) == IF ok THEN Tail(rest) ELSE << >>

\* One sub-feature is run to its end; the chain halts at the first that fails.
RunSubFeature ==
    /\ at = "split" /\ rest # << >>
    /\ \E ok \in BOOLEAN :
          /\ rest' = Chain(ok)
          /\ finished' = IF ok THEN finished \cup {Head(rest)} ELSE finished
    /\ UNCHANGED <<escalationVars, planFiles, passed, planned, work, chain, at>>

\* The parent is marked as superseded and the proposal as applied, also when
\* the chain was halted.
EndSplit ==
    /\ at = "split" /\ rest = << >>
    /\ proposal' = NoTask
    /\ Exit
    /\ UNCHANGED <<questions, legacy, response, sticky, done, decide, approved, owed,
                   planFiles, passed>>

\* The answer is written back as it was read, now applied.
MarkApplied(phase) == response' = [response EXCEPT ![phase] = NoAnswer]

\* _apply_decision_response: one answer per start, the planning one first.  A
\* skipped plan ends this start only; an answer of the executor has no effect.
TakeResponse ==
    /\ at = "resume" /\ ~PendingSplit
    /\ \E phase \in Phases :
          /\ Pending(phase) /\ (phase = "executor" => ~Pending("planning"))
          /\ LET answer == response[phase] IN
             IF answer.to.kind = "approval" /\ answer.action = "accept"
             THEN at' = "finalize" /\ UNCHANGED <<response, command>>
             ELSE /\ MarkApplied(phase)
                  /\ IF phase = "planning" /\ answer.action = "skip" THEN Exit
                     ELSE at' = "bootstrap" /\ UNCHANGED command
    /\ UNCHANGED <<questions, legacy, proposal, sticky, done, decide, approved, owed,
                   planFiles, passed>>

\* _finalize_approved_plan: the plan of the conversation that is on disk now.
Finalize ==
    /\ at = "finalize"
    /\ taskGraph' = IF conversation = NoDraft THEN taskGraph ELSE conversation
    /\ owed' = IF conversation = NoDraft THEN owed ELSE {}
    /\ at' = "finalized"
    /\ UNCHANGED <<questions, legacy, response, proposal, sticky, done, decide, approved,
                   conversation, plans, command, passed>>

EndFinalize ==
    /\ at = "finalized" /\ MarkApplied("planning") /\ at' = "bootstrap"
    /\ UNCHANGED <<questions, legacy, proposal, sticky, done, decide, approved, owed,
                   planFiles, command, passed>>

NothingPending ==
    /\ at = "resume" /\ ~PendingSplit /\ \A phase \in Phases : ~Pending(phase)
    /\ at' = "bootstrap"
    /\ UNCHANGED <<escalationVars, planFiles, command, passed>>

-----------------------------------------------------------------------------
\* The graph is there, no --replan is given: it is reused, without a planner.
ReuseGraph ==
    /\ at = "bootstrap" /\ taskGraph # NoDraft /\ at' = "select"
    /\ UNCHANGED <<escalationVars, planFiles, command, passed>>

\* No graph or a --replan, but no --task or --prd either: the conversation is
\* reused, whatever its verdict was, and the graph if there is one.
ReuseConversation ==
    /\ at = "bootstrap" /\ conversation # NoDraft
    /\ User = "silent" \/ conversation.plan \in approved
    /\ taskGraph' = IF taskGraph = NoDraft THEN conversation ELSE taskGraph
    /\ at' = "select"
    /\ UNCHANGED <<escalationVars, conversation, plans, command, passed>>

\* run_planning_conversation: a plan and a verdict, whose rounds are in
\* Planning, or none at all.
Plan ==
    /\ at = "bootstrap"
    /\ \/ /\ plans < MaxPlans /\ plans' = plans + 1
          /\ \E tasks \in Graphs : draft' = [plan |-> plans', tasks |-> tasks]
          /\ verdict' \in Verdicts
          /\ approved' = IF verdict' = "approved" THEN approved \cup {plans'} ELSE approved
          /\ at' = IF verdict' \in {"approval", "deadlock"} /\ MayEscalate("planning")
                   THEN "count" ELSE "converse"
          /\ UNCHANGED <<work, splitRun>>
       \/ Exit /\ UNCHANGED <<plans, approved>>
    /\ UNCHANGED <<questions, legacy, response, proposal, sticky, done, decide, owed,
                   conversation, taskGraph, passed>>

\* maybe_escalate, for a plan: the count is on disk before the question is.
CountPlan ==
    /\ at = "count" /\ BumpCount("planning") /\ at' = "ask"
    /\ UNCHANGED <<request, issued, legacy, response, proposal, sticky, done, decide,
                   approved, owed, planFiles, command, passed>>

AskAboutPlan ==
    /\ at = "ask" /\ Ask("planning", PlanQuestion(verdict, draft.plan))
    /\ at' = "converse"
    /\ UNCHANGED <<count, response, proposal, sticky, done, decide, approved, owed,
                   planFiles, command, passed>>

\* Mutant: only a plan whose question is open is refused.
NotAsked(v) == v \in {"approved", "other"}

\* _validate_fresh_planning_result: the verdict that lets a plan be worked on.
Executable(v) == v = "approved"

\* The conversation is written after the question about it.
Converse ==
    /\ at = "converse" /\ conversation' = draft /\ draft' = NoDraft
    /\ at' = IF Executable(verdict) THEN "graph" ELSE "gate"
    /\ UNCHANGED <<escalationVars, taskGraph, plans, verdict, work, splitRun, passed>>

\* try_auto_accept_planning_approval takes a clean plan in the user's place;
\* any other ends this start without a graph.
Gate ==
    /\ at = "gate"
    /\ \/ /\ verdict = "approval" /\ at' = "graph"
          /\ MarkApplied("planning")
          /\ request' = [request EXCEPT !["planning"] = NoQuestion]
          /\ approved' = approved \cup {conversation.plan}
          /\ UNCHANGED command
       \/ Exit /\ UNCHANGED <<response, request, approved>>
    /\ UNCHANGED <<count, issued, legacy, proposal, sticky, done, decide, owed,
                   planFiles, passed>>

WriteGraph ==
    /\ at = "graph" /\ taskGraph' = conversation /\ owed' = {} /\ at' = "select"
    /\ UNCHANGED <<questions, legacy, response, proposal, sticky, done, decide, approved,
                   conversation, plans, command, passed>>

-----------------------------------------------------------------------------
\* Mutant: a start begins with an empty state.
Cleared == {}

\* reset_state: the completed tasks stay.
Carried == done

\* select_task_or_raise, and the state is loaded; with nothing to do, or a
\* pause for the user to look at a new plan, the command ends.
Select ==
    /\ at = "select"
    /\ LET ready == ReadyTasks(taskGraph.tasks, done) IN
       \/ /\ ready # << >> /\ task' = Head(ready) /\ primary' = TRUE
          /\ mem' = Carried /\ at' = "ready"
          /\ verdict' = "none" /\ UNCHANGED <<draft, queue, splitRun>>
       \/ /\ ready = << >> \/ verdict # "none"
          /\ Exit
    /\ UNCHANGED <<escalationVars, planFiles, passed>>

\* Mutant: the redesign is given to the loop that comes first.
AnyTask(t) == sticky # NoTask

\* _inject_user_redesign_must_fix: the redesign is for this task and unused.
IsMeant(t) == sticky = t

\* A loop begins: the redesign that is meant for its task is used up.
Begin(t) ==
    /\ sticky' = IF IsMeant(t) THEN NoTask ELSE sticky
    /\ owed' = IF IsMeant(t) THEN owed \ {t} ELSE owed
    /\ at' = "loop"

\* The first task's loop begins, unless what it requires is not there.  (Then the
\* opt-in replan, which is off by default and not in the model, may replace the graph.)
BeginPrimary ==
    /\ at = "ready"
    /\ \/ Begin(task)
       \/ at' = "save" /\ UNCHANGED <<sticky, owed>>
    /\ UNCHANGED <<questions, legacy, response, proposal, done, decide, approved,
                   planFiles, command, passed>>

\* The loop of another task of the graph begins; after the last, the state is
\* saved.
BeginNext ==
    /\ at = "cycle"
    /\ IF queue = << >>
       THEN at' = "save" /\ UNCHANGED <<sticky, owed, task, primary, queue>>
       ELSE /\ task' = Head(queue) /\ queue' = Tail(queue) /\ primary' = FALSE
            /\ Begin(task')
    /\ UNCHANGED <<questions, legacy, response, proposal, done, decide, approved,
                   planFiles, passed, planned, mem, splitRun>>

\* The loop passes.  The first task is complete by the loop's word; a task of
\* the cycle, and the cycle itself, also need the approvals.  What is complete
\* is on disk only when the command ends.
LoopPasses ==
    /\ at = "loop" /\ passed' = passed \cup {task}
    /\ \E approvals \in BOOLEAN :
          /\ mem' = IF primary \/ approvals THEN mem \cup {task} ELSE mem
          /\ queue' = IF ~approvals THEN << >>
                      ELSE IF primary
                           THEN Backlog(taskGraph.tasks, done \cup {task}, Hinted)
                      ELSE queue
          /\ at' = IF approvals THEN "cycle" ELSE "save"
    /\ UNCHANGED <<escalationVars, planFiles, planned, task, primary, splitRun>>

\* Mutant: a task that is blocked does not halt the cycle.
LoopIsPassedOver ==
    /\ at = "loop" /\ at' = "cycle"
    /\ UNCHANGED <<escalationVars, planFiles, command, passed>>

\* The loop is blocked, or its question is one too many.
LoopIsBlocked ==
    /\ at = "loop" /\ at' = "save"
    /\ UNCHANGED <<escalationVars, planFiles, command, passed>>

\* Recovery is exhausted and the failure is one to ask about.
LoopEscalates ==
    /\ at = "loop" /\ MayEscalate("executor")
    /\ BumpCount("executor") /\ at' = "askTask"
    /\ UNCHANGED <<request, issued, legacy, response, proposal, sticky, done, decide,
                   approved, owed, planFiles, command, passed>>

AskAboutTask ==
    /\ at = "askTask"
    /\ \E kind \in {"refactor", "stuck"} : Ask("executor", TaskQuestion(kind, task))
    /\ at' = "decide"
    /\ UNCHANGED <<count, response, proposal, sticky, done, decide, approved, owed,
                   planFiles, command, passed>>

\* auto_decide_pending takes the planner's first option for the task that the
\* older request names; without one, or without options, the user decides.
AutoKeep ==
    /\ at = "decide"
    /\ \/ /\ AutoDecide /\ legacy # NoTask /\ Keep(legacy) /\ at' = "respond"
          /\ task' = legacy
       \/ /\ at' = "save" /\ UNCHANGED <<sticky, owed, task>>
    /\ UNCHANGED <<questions, legacy, response, proposal, done, decide, approved, planFiles,
                   passed, planned, mem, primary, queue, splitRun>>

AutoRespond ==
    /\ at = "respond" /\ Answer("executor", NoQuestion, "accept")
    /\ at' = "rewind"
    /\ UNCHANGED <<questions, legacy, proposal, sticky, done, decide, approved, owed,
                   planFiles, command, passed>>

AutoRewind ==
    /\ at = "rewind" /\ Rewind(task) /\ legacy' = NoTask /\ at' = "save"
    /\ UNCHANGED <<questions, response, proposal, sticky, decide, approved, owed,
                   planFiles, command, passed>>

\* The state is saved and the command ends.
Save ==
    /\ at = "save" /\ done' = mem /\ Exit
    /\ UNCHANGED <<questions, legacy, response, proposal, sticky, decide, approved, owed,
                   planFiles, passed>>

-----------------------------------------------------------------------------
\* The command is killed between two of its steps.
Crash ==
    /\ at # "idle"
    /\ torn' = (torn \/ at \in {"converse", "respond", "rewind"} \/ ~(mem \subseteq done))
    /\ Exit
    /\ UNCHANGED <<questions, legacy, response, proposal, sticky, done, asked, deciding,
                   approved, owed, planFiles, passed>>

Autopilot ==
    \/ TakeSplit \/ RunSubFeature \/ EndSplit \/ TakeResponse \/ Finalize \/ EndFinalize
    \/ NothingPending \/ ReuseGraph \/ ReuseConversation \/ Plan \/ CountPlan
    \/ AskAboutPlan \/ Converse \/ Gate \/ WriteGraph \/ Select \/ BeginPrimary \/ BeginNext
    \/ LoopPasses \/ LoopIsBlocked \/ LoopEscalates \/ AskAboutTask \/ AutoKeep
    \/ AutoRespond \/ AutoRewind \/ Save

\* Only the hasty user decides while the command runs.
UserDecides ==
    /\ Decide /\ (User = "hasty" \/ at = "idle")
    /\ UNCHANGED <<planFiles, command, passed, at>>

Next == Start \/ Autopilot \/ UserDecides \/ Crash

Spec == Init /\ [][Next]_vars
-----------------------------------------------------------------------------
\* Each phase asks at most twice, however often the command is started and
\* whenever it dies: maybe_escalate's limit per phase, which is never reset.
EscalationsAreCapped ==
    \A phase \in Phases : issued[phase] <= count[phase] /\ count[phase] <= MaxEscalationsPerPhase

\* The graph that is worked on is that of a plan the reviewer or the user has
\* approved, not of one that came later: for a user who answers before the next
\* start and gives the input, unless a start died before its conversation.
GraphIsApproved ==
    User = "careful" /\ ~torn /\ taskGraph # NoDraft => taskGraph.plan \in approved

\* A loop begins on a task only after the loops of all tasks it depends on have
\* passed: select_next_task, ordered_task_graph_tasks and the halted task cycle.
\* (Not so when a hint puts a task before one it depends on.)
DependenciesFirst ==
    [][at # "loop" /\ at' = "loop" => taskGraph.tasks.deps[task'] \subseteq passed]_vars

\* A redesign that was accepted for a task stands, unused, until the task's loop
\* has begun with it or another graph has taken the place of the task's.  (Not
\* so when graphs or hints disagree on which task is first: there is one place
\* for redesigns, and a second one takes it.  See OneOrder.)
RedesignIsNotLost ==
    User # "hasty" /\ ~torn => \A t \in owed : sticky = t

\* A task that is complete in the state file stays so, over restarts and kills,
\* until a decision about it opens it again: reset_state, the save at the end of
\* a start and _rewind_state_to_task.
CompletedStays ==
    [][done \ done' \subseteq {asked.task, task}]_vars

\* A sub-feature is run only when all it depends on have ended well in the same
\* chain: _topological_sort and the halt at the first failure.
SubFeaturesInOrder ==
    \A i \in DOMAIN rest : \A d \in Range(chain.on[rest[i]]) :
        d \in Range(chain.list) =>
            d \in finished \/ \E j \in 1..(i - 1) : rest[j] = d
=============================================================================
