----------------------------- MODULE Escalation -----------------------------
(***************************************************************************)
(* The questions of one feature and their answers, in the files of its     *)
(* planning folder: what a stuck planner or executor asks, what the user's *)
(* decide command makes of it in steps of its own, and the redesign that   *)
(* is kept for the executor.  The autopilot command that asks and that     *)
(* takes up the answers is in Feature.                                     *)
(***************************************************************************)
EXTENDS Naturals

CONSTANTS
    Tasks,       \* task ids of the feature
    Splits,      \* proposals to split the feature that a planner may make
    MaxPlans,    \* bound on the plans that are made
    NoTask       \* no task at all

ASSUME EscalationAssumption == MaxPlans \in Nat /\ NoTask \notin Tasks

Phases == {"planning", "executor"}
Plans == 1..MaxPlans
NoPlan == 0

MaxEscalationsPerPhase == 2

\* A question is about a plan (approval, deadlock) or a task (refactor, stuck).
PlanQuestions == [kind : {"approval", "deadlock"}, plan : Plans, task : {NoTask}]
TaskQuestions == [kind : {"refactor", "stuck"}, plan : {NoPlan}, task : Tasks]
NoQuestion == [kind |-> "none", plan |-> NoPlan, task |-> NoTask]
Questions(phase) == IF phase = "planning" THEN PlanQuestions ELSE TaskQuestions
PhaseOf(question) ==
    IF question.kind \in {"approval", "deadlock"} THEN "planning" ELSE "executor"
PlanQuestion(kind, n) == [kind |-> kind, plan |-> n, task |-> NoTask]
TaskQuestion(kind, t) == [kind |-> kind, plan |-> NoPlan, task |-> t]

Answers(phase) ==
    [to : IF phase = "planning" THEN PlanQuestions ELSE {NoQuestion},
     action : {"accept", "custom", "skip"}]

\* No answer, or one that is applied: nothing reads such a one again.  (Nor does
\* anything read which task an answer of the executor is about.)
NoAnswer == [to |-> NoQuestion, action |-> "none"]

VARIABLES
    count,      \* escalation_count of each phase
    request,    \* the question of each phase that waits for decide
    legacy,     \* the task of .executor_redesign_request.json
    response,   \* the answer of each phase
    proposal,   \* .planning_split_proposal.json, until it is applied
    sticky,     \* the task of .user_redesign_decision.json, until it is used
    done,       \* completed tasks in the state file
    asked,      \* the question on the user's screen
    deciding,   \* where the decide command stands
    issued,     \* questions asked so far in each phase
    approved,   \* plans that a reviewer or the user has approved
    owed,       \* tasks whose accepted redesign no loop has seen yet
    torn        \* a command died between a question and its plan, an answer and
                \* the removal of its question, or a redesign and the rewind

questions == <<count, request, issued>>
decide == <<asked, deciding, torn>>
escalationVars == <<count, request, legacy, response, proposal, sticky, done,
                    asked, deciding, issued, approved, owed, torn>>

EscalationTypeOK ==
    /\ count \in [Phases -> 0..MaxEscalationsPerPhase]
    /\ issued \in [Phases -> Nat]
    /\ \A phase \in Phases :
          /\ request[phase] \in Questions(phase) \cup {NoQuestion}
          /\ response[phase] \in Answers(phase) \cup {NoAnswer}
    /\ DOMAIN request = Phases /\ DOMAIN response = Phases
    /\ legacy \in Tasks \cup {NoTask}
    /\ proposal \in Splits \cup {NoTask} /\ sticky \in Tasks \cup {NoTask}
    /\ done \subseteq Tasks /\ approved \subseteq Plans /\ owed \subseteq Tasks
    /\ asked \in PlanQuestions \cup TaskQuestions \cup {NoQuestion}
    /\ deciding \in {"idle", "asking", "answered", "proposed", "kept", "rewound"}
    /\ torn \in BOOLEAN

EscalationInit ==
    /\ count = [phase \in Phases |-> 0] /\ issued = [phase \in Phases |-> 0]
    /\ request = [phase \in Phases |-> NoQuestion] /\ legacy = NoTask
    /\ response = [phase \in Phases |-> NoAnswer]
    /\ proposal = NoTask /\ sticky = NoTask
    /\ done = {} /\ approved = {} /\ owed = {}
    /\ asked = NoQuestion /\ deciding = "idle" /\ torn = FALSE

-----------------------------------------------------------------------------
\* Mutant: the limit is compared after the question has been counted.
CountedFirst(phase) == count[phase] <= MaxEscalationsPerPhase

\* maybe_escalate, its check of the limit.
MayEscalate(phase) == count[phase] < MaxEscalationsPerPhase

\* Mutant: the count stays in memory.
Forgotten(phase) == UNCHANGED count

\* _bump_count: before the question is written, so that no question is free.
BumpCount(phase) == count' = [count EXCEPT ![phase] = @ + 1]

\* maybe_escalate, its last step: the question replaces an older one, and a
\* refactor of the executor is also left where the older readers look for it.
Ask(phase, question) ==
    /\ request' = [request EXCEPT ![phase] = question]
    /\ issued' = [issued EXCEPT ![phase] = @ + 1]
    /\ legacy' = IF question.kind = "refactor" THEN question.task ELSE legacy

\* The executor's answer or the user's is on disk, not yet applied.
Answer(phase, question, action) ==
    response' = [response EXCEPT ![phase] = [to |-> question, action |-> action]]

\* The redesign of one task is kept for its next loop; there is one place for it.
Keep(t) == sticky' = t /\ owed' = owed \cup {t}

\* _rewind_state_to_task
Rewind(t) == done' = done \ {t}

Pending(phase) == response[phase] # NoAnswer
PendingSplit == proposal # NoTask

-----------------------------------------------------------------------------
\* find_pending_request, and the dialog opens: planning before executor.  A
\* refactor of the executor is asked from its older file.
ReadRequest ==
    /\ deciding = "idle"
    /\ LET first == IF request["planning"] # NoQuestion THEN "planning" ELSE "executor"
           question == request[first]
       IN  /\ asked' = IF question.kind \in {"none", "refactor"}
                       THEN TaskQuestion("refactor", legacy) ELSE question
           /\ question.kind \in {"none", "refactor"} => legacy # NoTask
    /\ deciding' = "asking"
    /\ UNCHANGED <<questions, legacy, response, proposal, sticky, done, approved, owed, torn>>

\* The user accepts an option, describes one, or skips: the answer is written.
\* An accepted plan is the one the question was about.
WriteAnswer ==
    /\ deciding = "asking" /\ asked.kind # "refactor"
    /\ LET phase == PhaseOf(asked)
       IN  \E action \in {"accept", "custom", "skip"} :
              /\ Answer(phase, IF phase = "planning" THEN asked ELSE NoQuestion, action)
              /\ approved' = IF action = "accept" /\ asked.kind = "approval"
                             THEN approved \cup {asked.plan} ELSE approved
    /\ deciding' = "answered"
    /\ UNCHANGED <<questions, legacy, proposal, sticky, done, asked, owed, torn>>

\* An accepted way out of a deadlock may be a split of the feature.
WriteProposal ==
    /\ deciding = "answered"
    /\ \/ /\ asked.kind = "deadlock" /\ response["planning"].action = "accept"
          /\ \E split \in Splits : proposal' = split
       \/ UNCHANGED proposal
    /\ deciding' = "proposed"
    /\ UNCHANGED <<questions, legacy, response, sticky, done, asked, approved, owed, torn>>

\* The request that stands now goes, whichever it is.
RemoveRequest ==
    /\ deciding = "proposed"
    /\ request' = [request EXCEPT ![PhaseOf(asked)] = NoQuestion]
    /\ asked' = NoQuestion /\ deciding' = "idle"
    /\ UNCHANGED <<count, issued, legacy, response, proposal, sticky, done, approved, owed, torn>>

\* The older path, for a refactor: the redesign is kept for the task.
KeepRedesign ==
    /\ deciding = "asking" /\ asked.kind = "refactor"
    /\ Keep(asked.task) /\ deciding' = "kept"
    /\ UNCHANGED <<questions, legacy, response, proposal, done, asked, approved, torn>>

\* Then the task counts as open again ...
RewindState ==
    /\ deciding = "kept" /\ Rewind(asked.task) /\ deciding' = "rewound"
    /\ UNCHANGED <<questions, legacy, response, proposal, sticky, asked, approved, owed, torn>>

\* ... and the older request goes; the one of the phase stays.
RemoveLegacy ==
    /\ deciding = "rewound" /\ legacy' = NoTask
    /\ asked' = NoQuestion /\ deciding' = "idle"
    /\ UNCHANGED <<questions, response, proposal, sticky, done, approved, owed, torn>>

\* A skipped refactor leaves a marker nothing reads and its request, as it is;
\* and a decide command may be closed at its dialog or die between two steps.
LeaveDialog ==
    /\ deciding # "idle"
    /\ asked' = NoQuestion /\ deciding' = "idle"
    /\ torn' = (torn \/ deciding \in {"answered", "proposed", "kept"})
    /\ UNCHANGED <<questions, legacy, response, proposal, sticky, done, approved, owed>>

Decide ==
    \/ ReadRequest \/ WriteAnswer \/ WriteProposal \/ RemoveRequest
    \/ KeepRedesign \/ RewindState \/ RemoveLegacy \/ LeaveDialog
=============================================================================
