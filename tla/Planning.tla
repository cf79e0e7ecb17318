------------------------------ MODULE Planning ------------------------------
(***************************************************************************)
(* run_planning_conversation: a planner and a plan reviewer take turns     *)
(* until a plan is accepted, a question has to be asked, or the rounds are *)
(* used up.  A round is a call of _run_round and the stages the loop       *)
(* judges it in, in their order; the stages after the loop follow.         *)
(*                                                                         *)
(* A plan is what revisions are compared by; a finding is its severity and *)
(* what it is about.  The texts, the planner's prompt and the structural   *)
(* checks are choices.                                                     *)
(***************************************************************************)
EXTENDS Naturals, FiniteSets

CONSTANTS
    Contents,       \* _plan_feedback_signature of a plan
    Reviews,        \* sets of findings that a reviewer may give
    Structures,     \* sets of structural issues that a plan may have
    Preconditions,  \* signatures of missing preconditions
    Ambiguities,    \* signatures of evidence that a plan leaves ambiguous
    Policies,       \* decision policies the conversation may run under
    MaxRounds,      \* config.max_rounds
    Budgets,        \* number of context budgets, the last the smallest
    DeadlockLimit,  \* config.deadlock_streak_limit
    None            \* no plan, nothing missing, nothing ambiguous

\* What a finding may be: blocking, about the task to be worked on first or
\* about later tasks only, or about the form of the review itself (meta); high,
\* which blocks in some policies; and demoted to info.  A plan has structural
\* issues of the first two kinds; the planner's failure and a missing
\* precondition are findings too.
Severe == {"hard", "future", "meta", "structure", "futureStructure", "failure", "precondition"}
Findings == Severe \cup {"high", "info"}
FutureScope == {"future", "futureStructure"}

ASSUME PlanningAssumption ==
    /\ MaxRounds \in Nat \ {0} /\ Budgets \in Nat \ {0} /\ DeadlockLimit \in Nat \ {0}
    /\ None \notin Contents \cup Preconditions \cup Ambiguities
    /\ Policies \subseteq {"strict-gate", "soft-gate", "auto-skip", "approval-required"}
    /\ \A F \in Reviews : F \subseteq {"hard", "future", "meta", "high"}
    /\ \A F \in Structures : F \subseteq {"structure", "futureStructure"}

MetaStreakLimit == 3
AmbiguousLimit == 2
AnyAmbiguousLimit == 3
StubbornLimit == 2

VARIABLES
    policy,      \* config.decision_policy
    at,          \* the stage the conversation is in
    round,       \* round_number
    current,     \* the round that is judged
    told,        \* previous_findings, that the planner is told
    seen,        \* the plan they were found in; "nothing" before the first
    lastPlan,    \* last_plan, with what its own round said of it
    lastReview,  \* last_review
    best,        \* best_clean_round
    metaStreak, missingStreak, missingBefore, sameOpen, anyOpen, openBefore,
    stubborn, repeated,     \* the loop's counters
    budget,      \* index of the context budget
    status, gate,           \* what the conversation ends with, and why
    question,    \* what the user is asked about it
    metaRounds   \* rounds that nothing but meta findings blocked

streaks == <<metaStreak, missingStreak, missingBefore, sameOpen, anyOpen, openBefore,
             stubborn, repeated>>
kept == <<lastPlan, lastReview, best>>
end == <<status, gate, question>>
vars == <<policy, at, round, current, told, seen, kept, streaks, budget, end, metaRounds>>

Rounds == 1..MaxRounds
Stages == {"plan", "absorb", "readiness", "evidence", "settle", "resolve", "select", "report", "done"}
Errors == {"none", "pressure", "environment", "other", "reviewer"}

NoRound == [plan |-> None, missing |-> None, open |-> None, found |-> {},
            review |-> "none", error |-> "none", scores |-> FALSE]
Outcomes == [plan : Contents \cup {None}, missing : Preconditions \cup {None},
             open : Ambiguities \cup {None}, found : SUBSET Findings,
             review : {"none", "reviewer", "readiness"}, error : Errors, scores : BOOLEAN]

NothingYet == [round |-> 0, review |-> "none", ready |-> FALSE, found |-> {}]
Versions == [round : 0..MaxRounds, review : {"none", "reviewer", "readiness"},
             ready : BOOLEAN, found : SUBSET Findings]

TypeOK ==
    /\ policy \in Policies /\ at \in Stages /\ round \in Rounds
    /\ current \in Outcomes /\ told \subseteq Findings
    /\ seen \in Contents \cup {None, "nothing"}
    /\ {lastPlan, lastReview, best} \subseteq Versions
    /\ metaStreak \in 0..MaxRounds
    /\ missingStreak \in 0..MaxRounds /\ missingBefore \in Preconditions \cup {None}
    /\ sameOpen \in 0..AmbiguousLimit /\ anyOpen \in 0..AnyAmbiguousLimit
    /\ openBefore \in Ambiguities \cup {None}
    /\ stubborn \in 0..StubbornLimit /\ repeated \in 0..DeadlockLimit
    /\ budget \in 1..Budgets
    /\ status \in {"error", "approved", "auto_skipped", "clean_round",
                   "escalation_required", "precondition_blocked"}
    /\ question \in {"none", "approval", "environment", "deadlock"}
    /\ metaRounds \subseteq Rounds

Init ==
    /\ policy \in Policies
    /\ at = "plan" /\ round = 1 /\ current = NoRound
    /\ told = {} /\ seen = "nothing"
    /\ lastPlan = NothingYet /\ lastReview = NothingYet /\ best = NothingYet
    /\ metaStreak = 0 /\ missingStreak = 0 /\ missingBefore = None
    /\ sameOpen = 0 /\ anyOpen = 0 /\ openBefore = None
    /\ stubborn = 0 /\ repeated = 0 /\ budget = 1
    /\ status = "error" /\ gate = "none" /\ question = "none" /\ metaRounds = {}

-----------------------------------------------------------------------------
\* _effective_blocking_severities: two policies let a high finding pass.
Lenient == policy \in {"soft-gate", "auto-skip"}
BlockingSeverities == IF Lenient THEN Severe ELSE Severe \cup {"high"}
Blockers(found) == found \cap BlockingSeverities

HasPlan == current.plan # None

\* The next round; after the last one the loop ends as it is.
Again ==
    IF round < MaxRounds THEN at' = "plan" /\ round' = round + 1
    ELSE at' = "resolve" /\ UNCHANGED round

Stop(outcome, reason) ==
    /\ status' = outcome /\ gate' = reason
    /\ at' = "resolve" /\ UNCHANGED <<round, question>>

\* _early_exit_for_input_infeasibility: no round is made, and nothing is asked.
Infeasible ==
    /\ at = "plan" /\ round = 1 /\ at' = "done"
    /\ status' = "escalation_required" /\ gate' = "task_input_infeasible_surface"
    /\ UNCHANGED <<policy, round, current, told, seen, kept, streaks, budget, question, metaRounds>>

\* _run_round: no plan; or a plan that lacks a precondition, which the reviewer
\* does not see; or one that the reviewer judges or fails on.
NoPlan(error) == [NoRound EXCEPT !.error = error, !.found = {"failure"}]
Unready(content, open, issues, missing) ==
    [NoRound EXCEPT !.plan = content, !.open = open, !.missing = missing,
                    !.review = "readiness", !.found = issues \cup {"precondition"}]
Reviewed(content, open, issues, review, scores) ==
    [NoRound EXCEPT !.plan = content, !.open = open, !.scores = scores,
                    !.review = "reviewer", !.found = issues \cup review]
Unreviewed(content, open, issues) ==
    [NoRound EXCEPT !.plan = content, !.open = open, !.error = "reviewer", !.found = issues]

\* A round.  (Scores matter where there are meta findings.)
RunRound ==
    /\ at = "plan" /\ at' = "absorb"
    /\ \/ \E error \in {"pressure", "environment", "other"} : current' = NoPlan(error)
       \/ \E content \in Contents, open \in Ambiguities \cup {None}, issues \in Structures :
             \/ \E missing \in Preconditions :
                   current' = Unready(content, open, issues, missing)
             \/ \E review \in Reviews, scores \in BOOLEAN :
                   /\ scores => "meta" \in review
                   /\ current' = Reviewed(content, open, issues, review, scores)
             \/ current' = Unreviewed(content, open, issues)
    /\ UNCHANGED <<policy, round, told, seen, kept, streaks, budget, end, metaRounds>>

\* Mutant: meta findings among others are demoted as well.
SomeMeta(found) == "meta" \in found

\* is_meta_blocker_finding, of all that blocks.
OnlyMeta(found) == Blockers(found) = {"meta"}

\* META_BLOCKER_STREAK_LIMIT rounds in a row, or the last round; and the scores
\* of planner and reviewer reach their floors.
MayDemote(streak) == current.scores /\ (streak >= MetaStreakLimit \/ round = MaxRounds)

Demote(found) == (found \ {"meta"}) \cup {"info"}

\* Mutant: the structural issues are not looked at.
CleanReview(found) ==
    /\ HasPlan /\ current.review # "none" /\ current.error = "none"
    /\ Blockers(found) \subseteq {"structure", "futureStructure"}

\* _round_is_selectable_clean
Clean(found) ==
    /\ HasPlan /\ current.review # "none" /\ current.error = "none"
    /\ found \cap {"structure", "futureStructure"} = {} /\ Blockers(found) = {}

\* _round_quality_key: the fewest high findings, then the fewest, then the later
\* round.
Better(found, old) ==
    LET Highs(F) == Cardinality(F \cap {"high"})
    IN  \/ old = NothingYet
        \/ Highs(found) < Highs(old.found)
        \/ Highs(found) = Highs(old.found) /\ Cardinality(found) <= Cardinality(old.found)

\* The round joins the others: its plan and its review, whichever it has,
\* replace the last ones; rounds that only meta findings block are counted and,
\* when it is time, the findings are demoted.
Absorb ==
    /\ at = "absorb" /\ at' = "readiness"
    /\ LET only == OnlyMeta(current.found)
           streak == IF only THEN metaStreak + 1 ELSE 0
           demote == only /\ MayDemote(streak)
           found == IF demote THEN Demote(current.found) ELSE current.found
           version == [round |-> round, review |-> current.review,
                       ready |-> current.missing = None, found |-> found]
       IN  /\ metaStreak' = IF demote THEN 0 ELSE streak
           /\ current' = [current EXCEPT !.found = found]
           /\ lastPlan' = IF HasPlan THEN version ELSE lastPlan
           /\ lastReview' = IF current.review = "none" THEN lastReview ELSE version
           /\ best' = IF Clean(found) /\ Better(found, best) THEN version ELSE best
           /\ sameOpen' = IF demote THEN 0 ELSE sameOpen
           /\ anyOpen' = IF demote THEN 0 ELSE anyOpen
           /\ openBefore' = IF demote THEN None ELSE openBefore
    /\ metaRounds' = IF Blockers(current.found) = {"meta"} THEN metaRounds \cup {round}
                     ELSE metaRounds
    /\ UNCHANGED <<policy, round, told, seen, missingStreak, missingBefore, stubborn,
                   repeated, budget, end>>

\* A plan that lacks a precondition: the planner may insert what is missing,
\* unless the same was missing in the round before or no round is left.  The
\* loop goes on from here, so the findings of this round are not kept.
Readiness ==
    /\ at = "readiness"
    /\ IF current.missing = None
       THEN /\ missingStreak' = 0 /\ missingBefore' = None
            /\ at' = "evidence" /\ UNCHANGED <<round, end>>
       ELSE /\ missingStreak' = IF current.missing = missingBefore THEN missingStreak + 1 ELSE 1
            /\ missingBefore' = current.missing
            /\ IF missingStreak' >= 2 \/ round = MaxRounds
               THEN Stop("precondition_blocked", "blocked_by_precondition")
               ELSE Again /\ UNCHANGED end
    /\ UNCHANGED <<policy, current, told, seen, kept, metaStreak, sameOpen, anyOpen,
                   openBefore, stubborn, repeated, budget, metaRounds>>

\* Evidence that stays ambiguous: the same twice in a row, or any three times.
Evidence ==
    /\ at = "evidence"
    /\ sameOpen' = IF current.open = None THEN 0
                   ELSE IF current.open = openBefore THEN sameOpen + 1 ELSE 1
    /\ openBefore' = current.open
    /\ anyOpen' = IF current.open = None THEN 0 ELSE anyOpen + 1
    /\ IF sameOpen' >= AmbiguousLimit \/ anyOpen' >= AnyAmbiguousLimit
       THEN Stop("escalation_required", "planning_evidence_blocked")
       ELSE at' = "settle" /\ UNCHANGED <<round, end>>
    /\ UNCHANGED <<policy, current, told, seen, kept, metaStreak, missingStreak,
                   missingBefore, stubborn, repeated, budget, metaRounds>>

-----------------------------------------------------------------------------
\* Another call with a smaller context may help.
Pressed == current.error = "pressure" /\ budget < Budgets /\ round < MaxRounds
EnvironmentFailed == current.error \in {"pressure", "environment"} /\ ~Pressed

ReviewerFailed == HasPlan /\ current.error = "reviewer" /\ Blockers(current.found) = {}

\* Mutants: a reviewer that failed found nothing; a high finding holds the plan up.
Unread == HasPlan /\ Blockers(current.found) = {}
NothingHigh == HasPlan /\ current.error = "none" /\ current.found \subseteq {"info"}

\* No finding blocks.  (A high one that soft-gate stops for is a blocking one here.)
Passed == HasPlan /\ current.error = "none" /\ Blockers(current.found) = {}

\* What a round without blocking findings ends the loop with.
Accepted ==
    CASE policy = "strict-gate" -> "approved"
      [] Lenient                -> "auto_skipped"
      [] OTHER                  -> "clean_round"

\* Neither planner nor reviewer moves: the same plan against the same findings,
\* or the same blocking findings against any plan.
StandStill ==
    LET unchanged == seen = current.plan /\ told = current.found
        again == /\ HasPlan /\ current.error = "none" /\ seen # "nothing"
                 /\ Blockers(current.found) # {} /\ Blockers(current.found) = Blockers(told)
    IN  /\ stubborn' = IF unchanged THEN stubborn + 1 ELSE 0
        /\ IF stubborn' >= StubbornLimit
           THEN Stop("escalation_required", "stubborn_round_limit") /\ UNCHANGED repeated
           ELSE /\ repeated' = IF again THEN repeated + 1 ELSE 0
                /\ IF repeated' >= DeadlockLimit
                   THEN Stop("escalation_required", "planner_reviewer_deadlock")
                   ELSE Again /\ UNCHANGED end

Settle ==
    /\ at = "settle"
    /\ told' = current.found /\ seen' = current.plan
    /\ \/ Pressed /\ budget' = budget + 1 /\ Again /\ UNCHANGED <<stubborn, repeated, end>>
       \/ /\ EnvironmentFailed /\ Stop("escalation_required", "planner_environment_error")
          /\ UNCHANGED <<stubborn, repeated, budget>>
       \/ /\ ReviewerFailed /\ Stop("escalation_required", "plan_reviewer_error")
          /\ UNCHANGED <<stubborn, repeated, budget>>
       \/ /\ Passed /\ Stop(Accepted, "none")
          /\ UNCHANGED <<stubborn, repeated, budget>>
       \/ /\ ~Pressed /\ ~EnvironmentFailed /\ ~ReviewerFailed /\ ~Passed
          /\ StandStill /\ UNCHANGED budget
    /\ UNCHANGED <<policy, current, kept, metaStreak, missingStreak, missingBefore,
                   sameOpen, anyOpen, openBefore, metaRounds>>

-----------------------------------------------------------------------------
\* _evaluate_active_scope_for_auto_skip: what blocks the task that comes first.
ActiveBlockers(found) == Blockers(found) \ FutureScope

\* The rounds are used up: the policy decides.
UsedUp ==
    IF \/ policy = "soft-gate" /\ Blockers(current.found) = {}
       \/ policy = "auto-skip" /\ ActiveBlockers(current.found) = {}
    THEN status' = "auto_skipped" /\ UNCHANGED gate
    ELSE IF Lenient
    THEN status' = "escalation_required" /\ gate' = "unresolved_findings"
    ELSE /\ UNCHANGED gate
         /\ status' = IF Blockers(current.found) = {} THEN status ELSE "escalation_required"

\* The end of the loop: a clean round becomes a question.
Resolve ==
    /\ at = "resolve" /\ at' = "select"
    /\ \/ /\ status = "clean_round"
          /\ status' = "escalation_required" /\ gate' = "approval_required"
       \/ status \notin {"clean_round", "error"} /\ UNCHANGED <<status, gate>>
       \/ status = "error" /\ UsedUp
    /\ UNCHANGED <<policy, round, current, told, seen, kept, streaks, budget, question,
                   metaRounds>>

\* _best_round_can_replace_escalation
MayReplace ==
    Lenient /\ gate \notin {"planner_environment_error", "plan_reviewer_error",
                            "stubborn_round_limit"}

\* The best clean round takes the place of an escalation.
Select ==
    /\ at = "select" /\ at' = "report"
    /\ IF /\ status \in {"escalation_required", "error"}
          /\ best # NothingYet /\ MayReplace
       THEN /\ lastPlan' = best /\ lastReview' = best
            /\ status' = "auto_skipped" /\ gate' = "selected_best_clean_round"
       ELSE UNCHANGED <<lastPlan, lastReview, status, gate>>
    /\ UNCHANGED <<policy, round, current, told, seen, best, streaks, budget, question,
                   metaRounds>>

\* kinds.classify, for what a conversation ends with.  Missing preconditions, open
\* evidence and a failed reviewer are none of the kinds that ask the user.
Question ==
    IF \/ status # "escalation_required"
       \/ gate \in {"planning_evidence_blocked", "plan_reviewer_error"}
    THEN "none"
    ELSE CASE gate = "planner_environment_error" -> "environment"
           [] gate = "approval_required" /\ Blockers(current.found) = {} -> "approval"
           [] OTHER -> "deadlock"

\* The conversation is over: what did not end well may become a question.
Report ==
    /\ at = "report" /\ at' = "done" /\ question' = Question
    /\ UNCHANGED <<policy, round, current, told, seen, kept, streaks, budget, status, gate,
                   metaRounds>>

Next ==
    \/ Infeasible \/ RunRound \/ Absorb \/ Readiness \/ Evidence \/ Settle \/ Resolve
    \/ Select \/ Report

Spec == Init /\ [][Next]_vars
-----------------------------------------------------------------------------
IsAccepted == status \in {"approved", "auto_skipped"}

\* What a plan may be accepted in spite of.
Excused == IF policy = "auto-skip" THEN FutureScope ELSE {}

\* A plan that is accepted, or that the user is asked to accept, lacks no
\* precondition, and its own round found nothing in it that blocks, but, where the
\* policy is auto-skip, for tasks that come later.
AcceptedPlanIsSound ==
    at = "done" /\ (IsAccepted \/ question = "approval") =>
        /\ lastPlan.round # 0 /\ lastPlan.ready
        /\ Blockers(lastPlan.found) \subseteq Excused

\* A plan that is accepted was reviewed, in its own round and not as an earlier
\* version; only under auto-skip, and with structural issues in later tasks, may
\* the reviewer have failed on it.
AcceptedPlanIsReviewed ==
    at = "done" /\ (IsAccepted \/ question = "approval") =>
        \/ lastPlan.review = "reviewer" /\ lastReview = lastPlan
        \/ policy = "auto-skip" /\ "futureStructure" \in lastPlan.found

\* Blocking findings about the form of the review are overruled only after three
\* rounds in a row that nothing else blocked, or in the last round.
DemotionIsEarned ==
    "info" \in lastReview.found =>
        LET r == lastReview.round
        IN  \/ r = MaxRounds
            \/ (r - MetaStreakLimit + 1)..r \subseteq metaRounds

\* The first round without a blocking finding ends the conversation: best_clean_round
\* is never one that a later round was tried after.
NoCleanRoundIsPassedOver ==
    best # NothingYet => best.round = round /\ at # "plan"
=============================================================================
