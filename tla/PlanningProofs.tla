--------------------------- MODULE PlanningProofs ---------------------------
(***************************************************************************)
(* What a planning conversation may end with, for every planner and        *)
(* reviewer, every policy and every bound.                                 *)
(***************************************************************************)
EXTENDS Planning, TLAPS

Judging == {"readiness", "evidence", "settle"}
Ending == {"select", "report"}

\* The outcome of the round that is judged.
OutcomeInv ==
    /\ current \in Outcomes /\ round \in Rounds /\ at \in Stages
    /\ at \in {"absorb", "resolve"} \cup Judging =>
        /\ current.plan = None =>
              "failure" \in current.found /\ current.error # "none" /\ current.missing = None
        /\ current.plan # None => current.error \in {"none", "reviewer"}
        /\ current.missing # None =>
              /\ "precondition" \in current.found /\ current.review = "readiness"
              /\ current.error = "none"
        /\ current.review = "none" <=> current.error # "none"
        /\ current.review = "readiness" => current.missing # None
        /\ current.error = "reviewer" =>
              current.found \subseteq {"structure", "futureStructure"}
    /\ at \in {"evidence", "settle"} => current.missing = None

\* A version of a plan that its own reviewer has let pass.
Good(v) ==
    /\ v.round \in Rounds /\ v.ready /\ v.review = "reviewer" /\ Blockers(v.found) = {}

\* The last plan and the last review are those of the round; the best clean round
\* is the one that is judged, or there is none.
VersionInv ==
    /\ lastPlan \in Versions /\ lastReview \in Versions /\ best \in Versions
    /\ at \in {"resolve"} \cup Judging =>
        LET version == [round |-> round, review |-> current.review,
                        ready |-> current.missing = None, found |-> current.found]
        IN  /\ current.plan # None => lastPlan = version
            /\ current.review # "none" => lastReview = version
            /\ best # NothingYet => best = version
    /\ at \in {"plan", "absorb"} => best = NothingYet
    /\ at \in Judging /\ best # NothingYet =>
          current.plan # None /\ current.error = "none" /\ Blockers(current.found) = {}
    /\ best # NothingYet => Good(best) /\ best.round = round

\* What may be accepted in the end.
Acceptable ==
    /\ lastPlan.round # 0 /\ lastPlan.ready /\ Blockers(lastPlan.found) \subseteq Excused
    /\ \/ lastPlan.review = "reviewer" /\ lastReview = lastPlan
       \/ policy = "auto-skip" /\ "futureStructure" \in lastPlan.found

\* How the conversation stands.
EndInv ==
    /\ at \in {"plan", "absorb"} \cup Judging =>
          status = "error" /\ gate = "none" /\ question = "none"
    /\ at = "resolve" => gate # "approval_required" /\ question = "none"
    /\ at = "resolve" /\ status \in {"approved", "auto_skipped", "clean_round"} =>
          Good(lastPlan) /\ lastReview = lastPlan
    /\ at = "resolve" /\ status = "error" =>
          current.missing = None /\ ~ReviewerFailed /\ ~Passed
    /\ at \in Ending => status # "clean_round" /\ question = "none"
    /\ at \in Ending /\ (IsAccepted \/ gate = "approval_required") => Acceptable
    /\ at = "done" /\ (IsAccepted \/ question = "approval") => Acceptable

PlanInv == OutcomeInv /\ VersionInv /\ EndInv
-----------------------------------------------------------------------------
LEMMA FailureBlocks ==
    ASSUME NEW F, F \cap {"failure", "precondition"} # {}
    PROVE  Blockers(F) # {}
  BY DEF Blockers, BlockingSeverities, Severe

LEMMA PlanInvInit == Init => PlanInv
  BY PlanningAssumption
  DEF Init, PlanInv, OutcomeInv, VersionInv, EndInv, Outcomes, Versions, NoRound, NothingYet,
      Rounds, Stages, Judging, Ending, Errors, Findings

LEMMA InfeasibleStep == ASSUME PlanInv, Infeasible PROVE PlanInv'
  BY DEF Infeasible, PlanInv, OutcomeInv, VersionInv, EndInv, kept, Judging, Ending, Stages,
         Good, Blockers, BlockingSeverities, Lenient, IsAccepted

LEMMA RunRoundStep == ASSUME PlanInv, RunRound PROVE PlanInv'
<1>1. OutcomeInv'
  <2>1. round' = round /\ round \in Rounds /\ at' = "absorb" /\ None \notin Contents \cup Preconditions
    BY PlanningAssumption DEF RunRound, PlanInv, OutcomeInv
  <2>2. ASSUME NEW error \in {"pressure", "environment", "other"}, current' = NoPlan(error)
        PROVE  OutcomeInv'
    BY <2>1, <2>2
    DEF OutcomeInv, Outcomes, NoRound, Judging, Stages, Errors, Findings, Severe, NoPlan
  <2>3. ASSUME NEW content \in Contents, NEW open \in Ambiguities \cup {None},
               NEW issues \in Structures, NEW missing \in Preconditions,
               current' = Unready(content, open, issues, missing)
        PROVE  OutcomeInv'
    <3>1. issues \cup {"precondition"} \in SUBSET Findings
      BY PlanningAssumption DEF Findings, Severe
    <3> QED
      BY <2>1, <2>3, <3>1
      DEF OutcomeInv, Outcomes, NoRound, Judging, Stages, Errors, Unready
  <2>4. ASSUME NEW content \in Contents, NEW open \in Ambiguities \cup {None},
               NEW issues \in Structures, NEW review \in Reviews, NEW scores \in BOOLEAN,
               current' = Reviewed(content, open, issues, review, scores)
        PROVE  OutcomeInv'
    <3>1. issues \cup review \in SUBSET Findings
      BY PlanningAssumption DEF Findings, Severe
    <3> QED
      BY <2>1, <2>4, <3>1
      DEF OutcomeInv, Outcomes, NoRound, Judging, Stages, Errors, Reviewed
  <2>5. ASSUME NEW content \in Contents, NEW open \in Ambiguities \cup {None},
               NEW issues \in Structures,
               current' = Unreviewed(content, open, issues)
        PROVE  OutcomeInv'
    <3>1. issues \in SUBSET Findings /\ issues \subseteq {"structure", "futureStructure"}
      BY PlanningAssumption DEF Findings, Severe
    <3> QED
      BY <2>1, <2>5, <3>1
      DEF OutcomeInv, Outcomes, NoRound, Judging, Stages, Errors, Unreviewed
  <2> QED
    BY <2>2, <2>3, <2>4, <2>5 DEF RunRound
<1>2. VersionInv'
  BY DEF RunRound, PlanInv, VersionInv, kept, Judging, Good, Blockers, BlockingSeverities,
         Lenient
<1>3. EndInv'
  BY DEF RunRound, PlanInv, EndInv, end, Judging, Ending
<1> QED
  BY <1>1, <1>2, <1>3 DEF PlanInv

\* What Absorb makes of the findings.
LEMMA Demotes ==
    ASSUME NEW F \in SUBSET Findings, Blockers(F) = {"meta"}
    PROVE  /\ Demote(F) \in SUBSET Findings
           /\ F \cap {"failure", "precondition"} = {}
           /\ "meta" \in F
  BY DEF Demote, Findings, Blockers, BlockingSeverities, Severe

LEMMA AbsorbStep == ASSUME PlanInv, Absorb PROVE PlanInv'
<1>1. PICK found \in SUBSET Findings :
         /\ current' = [current EXCEPT !.found = found]
         /\ \/ found = current.found
            \/ current.found \cap {"failure", "precondition"} = {} /\ "meta" \in current.found
         /\ lastPlan' = IF HasPlan THEN [round |-> round, review |-> current.review,
                                         ready |-> current.missing = None, found |-> found]
                        ELSE lastPlan
         /\ lastReview' = IF current.review = "none" THEN lastReview
                          ELSE [round |-> round, review |-> current.review,
                                ready |-> current.missing = None, found |-> found]
         /\ best' = IF Clean(found) /\ Better(found, best)
                    THEN [round |-> round, review |-> current.review,
                          ready |-> current.missing = None, found |-> found]
                    ELSE best
  <2>1. current.found \in SUBSET Findings
    BY DEF PlanInv, OutcomeInv, Outcomes
  <2> DEFINE only == OnlyMeta(current.found)
             streak == IF only THEN metaStreak + 1 ELSE 0
             found == IF only /\ MayDemote(streak) THEN Demote(current.found) ELSE current.found
  <2>2. /\ found \in SUBSET Findings
        /\ \/ found = current.found
           \/ current.found \cap {"failure", "precondition"} = {} /\ "meta" \in current.found
    BY <2>1, Demotes DEF OnlyMeta
  <2> HIDE DEF only, streak
  <2> QED
    BY <2>2 DEF Absorb, only, streak
<1>2. /\ current \in Outcomes /\ round \in Rounds /\ round # 0 /\ at = "absorb" /\ at' = "readiness"
      /\ best = NothingYet /\ UNCHANGED <<policy, round, end>>
      /\ lastPlan \in Versions /\ lastReview \in Versions
  BY PlanningAssumption DEF Absorb, PlanInv, OutcomeInv, VersionInv, Rounds
<1>3. OutcomeInv'
  BY <1>1, <1>2 DEF PlanInv, OutcomeInv, Outcomes, Judging, Stages, Rounds
<1>4. ASSUME Clean(found)
      PROVE  /\ HasPlan /\ current.error = "none" /\ Blockers(found) = {}
             /\ current.missing = None /\ current.review = "reviewer"
  <2>1. /\ HasPlan /\ current.error = "none" /\ current.review # "none" /\ Blockers(found) = {}
    BY <1>4 DEF Clean
  <2>2. found \cap {"failure", "precondition"} = {}
    BY <2>1, FailureBlocks
  <2>3. current.missing = None
    BY <1>1, <1>2, <2>2 DEF PlanInv, OutcomeInv
  <2> QED
    BY <1>2, <2>1, <2>3 DEF PlanInv, OutcomeInv, Outcomes
<1>5. VersionInv'
  <2>1. [round |-> round, review |-> current.review,
         ready |-> current.missing = None, found |-> found] \in Versions
    BY <1>2 DEF Outcomes, Versions, Rounds
  <2>2. /\ current'.plan = current.plan /\ current'.missing = current.missing
        /\ current'.review = current.review /\ current'.error = current.error
        /\ current'.found = found
    BY <1>1, <1>2 DEF Outcomes
  <2>3. Blockers(found)' = Blockers(found)
    BY <1>1, <1>2 DEF Blockers, BlockingSeverities, Lenient
  <2>4. NothingYet \in Versions /\ NothingYet' = NothingYet
    BY PlanningAssumption DEF NothingYet, Versions
  <2> QED
    BY <1>1, <1>2, <1>4, <2>1, <2>2, <2>3, <2>4
    DEF PlanInv, VersionInv, Judging, HasPlan, Good, Blockers, BlockingSeverities, Lenient
<1>6. EndInv'
  BY <1>2 DEF PlanInv, EndInv, end, Judging, Ending
<1> QED
  BY <1>3, <1>5, <1>6 DEF PlanInv

LEMMA ReadinessStep == ASSUME PlanInv, Readiness PROVE PlanInv'
<1>1. /\ UNCHANGED <<policy, current, kept>> /\ at = "readiness" /\ round \in Rounds
      /\ \/ current.missing = None /\ at' = "evidence" /\ UNCHANGED <<round, end>>
         \/ current.missing # None /\ at' = "plan" /\ round' \in Rounds /\ UNCHANGED end
         \/ /\ current.missing # None /\ at' = "resolve" /\ UNCHANGED <<round, question>>
            /\ status' = "precondition_blocked" /\ gate' = "blocked_by_precondition"
  BY PlanningAssumption DEF Readiness, Again, Stop, PlanInv, OutcomeInv, Rounds
<1>2. current.missing # None => best = NothingYet
  BY <1>1, FailureBlocks DEF PlanInv, OutcomeInv, VersionInv, Judging
<1>3. OutcomeInv'
  BY <1>1 DEF PlanInv, OutcomeInv, Judging, Stages
<1>4. VersionInv'
  BY <1>1, <1>2 DEF PlanInv, VersionInv, kept, Judging, Good, Blockers, BlockingSeverities, Lenient
<1>5. EndInv'
  BY <1>1 DEF PlanInv, EndInv, end, Judging, Ending
<1> QED
  BY <1>3, <1>4, <1>5 DEF PlanInv

LEMMA EvidenceStep == ASSUME PlanInv, Evidence PROVE PlanInv'
<1>1. /\ UNCHANGED <<policy, current, kept, round>> /\ at = "evidence"
      /\ \/ at' = "settle" /\ UNCHANGED end
         \/ /\ at' = "resolve" /\ UNCHANGED question
            /\ status' = "escalation_required" /\ gate' = "planning_evidence_blocked"
  BY DEF Evidence, Stop
<1>2. OutcomeInv'
  BY <1>1 DEF PlanInv, OutcomeInv, Judging, Stages
<1>3. VersionInv'
  BY <1>1 DEF PlanInv, VersionInv, kept, Judging, Good, Blockers, BlockingSeverities, Lenient
<1>4. EndInv'
  BY <1>1 DEF PlanInv, EndInv, end, Judging, Ending
<1> QED
  BY <1>2, <1>3, <1>4 DEF PlanInv

\* What a judged round ends in.
LEMMA SettleStep == ASSUME PlanInv, Settle PROVE PlanInv'
<1>1. UNCHANGED <<policy, current, kept>> /\ at = "settle" /\ round \in Rounds
  BY DEF Settle, PlanInv, OutcomeInv
<1>2. \/ ~Passed /\ ~ReviewerFailed /\ at' = "plan" /\ round' \in Rounds /\ UNCHANGED end
      \/ ~Passed /\ ~ReviewerFailed /\ at' = "resolve" /\ UNCHANGED <<round, end>>
      \/ /\ at' = "resolve" /\ UNCHANGED <<round, question>> /\ status' = "escalation_required"
         /\ gate' \in {"planner_environment_error", "plan_reviewer_error",
                       "stubborn_round_limit", "planner_reviewer_deadlock"}
      \/ /\ Passed /\ at' = "resolve" /\ UNCHANGED <<round, question>>
         /\ status' \in {"approved", "auto_skipped", "clean_round"} /\ gate' = "none"
  <2>1. Pressed => ~Passed /\ ~ReviewerFailed
    BY DEF Pressed, Passed, ReviewerFailed
  <2>2. Again => \/ at' = "plan" /\ round' \in Rounds
                 \/ at' = "resolve" /\ UNCHANGED round
    BY <1>1, PlanningAssumption DEF Again, Rounds
  <2>3. Accepted \in {"approved", "auto_skipped", "clean_round"}
    BY DEF Accepted
  <2>4. CASE StandStill /\ ~ReviewerFailed /\ ~Passed
    BY <2>2, <2>4 DEF StandStill, Stop
  <2> QED
    BY <2>1, <2>2, <2>3, <2>4 DEF Settle, Stop
<1>3. OutcomeInv'
  BY <1>1, <1>2 DEF PlanInv, OutcomeInv, Judging, Stages
<1>4. best # NothingYet => Passed
  BY <1>1 DEF PlanInv, VersionInv, Judging, Passed, HasPlan
<1>5. VersionInv'
  BY <1>1, <1>2, <1>4
  DEF PlanInv, VersionInv, kept, Judging, Good, Blockers, BlockingSeverities, Lenient
<1>6. Passed => Good(lastPlan) /\ lastReview = lastPlan
  <2> SUFFICES ASSUME Passed PROVE Good(lastPlan) /\ lastReview = lastPlan
    OBVIOUS
  <2>1. current.missing = None /\ current.review = "reviewer"
    BY <1>1 DEF PlanInv, OutcomeInv, Passed, Judging, Outcomes
  <2>2. lastPlan = [round |-> round, review |-> "reviewer", ready |-> TRUE,
                    found |-> current.found]
    BY <1>1, <2>1 DEF PlanInv, VersionInv, Judging, Passed, HasPlan
  <2>3. lastReview = lastPlan
    BY <1>1, <2>1, <2>2 DEF PlanInv, VersionInv, Judging, Passed, HasPlan
  <2> QED
    BY <1>1, <2>2, <2>3 DEF Good, Passed
<1>7. current.missing = None
  BY <1>1 DEF PlanInv, OutcomeInv
<1>8. EndInv'
  BY <1>1, <1>2, <1>6, <1>7
  DEF PlanInv, EndInv, end, kept, Judging, Ending, Good, Passed, ReviewerFailed, HasPlan,
      Blockers, BlockingSeverities, Lenient
<1> QED
  BY <1>3, <1>5, <1>8 DEF PlanInv

LEMMA GoodIsAcceptable ==
    ASSUME Good(lastPlan), lastReview = lastPlan
    PROVE  Acceptable
  BY PlanningAssumption DEF Good, Acceptable, Rounds

\* A round that auto-skip may go on with although it was neither clean nor failed.
LEMMA SkippedIsAcceptable ==
    ASSUME PlanInv, at = "resolve", status = "error", policy = "auto-skip",
           ActiveBlockers(current.found) = {}
    PROVE  Acceptable
<1>1. Blockers(current.found) \subseteq FutureScope
  BY DEF ActiveBlockers
<1>2. current.plan # None
  <2>1. "failure" \in current.found => "failure" \in Blockers(current.found)
    BY DEF Blockers, BlockingSeverities, Severe
  <2> QED
    BY <1>1, <2>1 DEF PlanInv, OutcomeInv, FutureScope
<1>3. lastPlan = [round |-> round, review |-> current.review, ready |-> TRUE,
                  found |-> current.found]
  BY <1>2 DEF PlanInv, VersionInv, EndInv
<1>4. round # 0
  BY PlanningAssumption DEF PlanInv, OutcomeInv, Rounds
<1>5. \/ current.review = "reviewer" /\ lastReview = lastPlan
      \/ "futureStructure" \in current.found
  <2>1. CASE current.error = "reviewer"
    <3>1. Blockers(current.found) # {}
      BY <1>2, <2>1 DEF PlanInv, EndInv, ReviewerFailed, HasPlan
    <3> QED
      BY <1>1, <3>1, <2>1 DEF PlanInv, OutcomeInv, Blockers, FutureScope
  <2>2. CASE current.error # "reviewer"
    <3>1. current.review = "reviewer"
      BY <1>2, <2>2 DEF PlanInv, OutcomeInv, EndInv, Outcomes
    <3> QED
      BY <1>3, <3>1 DEF PlanInv, VersionInv, EndInv
  <2> QED
    BY <2>1, <2>2
<1> QED
  BY <1>1, <1>3, <1>4, <1>5 DEF Acceptable, Excused

LEMMA ResolveStep == ASSUME PlanInv, Resolve PROVE PlanInv'
<1>1. /\ UNCHANGED <<policy, round, current, kept, question>> /\ at = "resolve" /\ at' = "select"
  BY DEF Resolve, end
<1>2. OutcomeInv'
  BY <1>1 DEF PlanInv, OutcomeInv, Judging, Stages
<1>3. VersionInv'
  BY <1>1 DEF PlanInv, VersionInv, kept, Judging, Good, Blockers, BlockingSeverities, Lenient
<1>4. /\ status' # "clean_round"
      /\ status \notin {"clean_round", "error"} => UNCHANGED <<status, gate>>
      /\ status = "error" => UsedUp
  BY DEF Resolve, UsedUp
<1>5. Acceptable' <=> Acceptable
  BY <1>1 DEF Acceptable, kept, Excused, Blockers, BlockingSeverities, Lenient
<1>6. ASSUME status \in {"approved", "auto_skipped", "clean_round"} PROVE EndInv'
  BY <1>1, <1>4, <1>5, <1>6, GoodIsAcceptable DEF PlanInv, EndInv, Judging, Ending
<1>7. ASSUME status \notin {"approved", "auto_skipped", "clean_round", "error"} PROVE EndInv'
  BY <1>1, <1>4, <1>7 DEF PlanInv, EndInv, Judging, Ending, IsAccepted
<1>8. ASSUME status = "error" PROVE EndInv'
  <2>1. Blockers(current.found) # {}
    <3>1. CASE current.plan = None
      BY <1>1, <3>1, FailureBlocks DEF PlanInv, OutcomeInv
    <3>2. CASE current.plan # None
      BY <1>1, <1>8, <3>2 DEF PlanInv, OutcomeInv, EndInv, Passed, ReviewerFailed, HasPlan
    <3> QED
      BY <3>1, <3>2
  <2>2. IsAccepted' => policy = "auto-skip" /\ ActiveBlockers(current.found) = {}
    BY <1>4, <1>8, <2>1 DEF UsedUp, IsAccepted
  <2>3. gate' # "approval_required"
    BY <1>1, <1>4, <1>8 DEF UsedUp, PlanInv, EndInv
  <2> QED
    BY <1>1, <1>4, <1>5, <1>8, <2>2, <2>3, SkippedIsAcceptable DEF PlanInv, EndInv, Judging, Ending
<1>9. EndInv'
  BY <1>6, <1>7, <1>8
<1> QED
  BY <1>2, <1>3, <1>9 DEF PlanInv

LEMMA SelectStep == ASSUME PlanInv, Select PROVE PlanInv'
<1>1. /\ UNCHANGED <<policy, round, current, best, question>> /\ at = "select" /\ at' = "report"
  BY DEF Select
<1>2. OutcomeInv'
  BY <1>1 DEF PlanInv, OutcomeInv, Judging, Stages
<1>3. CASE /\ best # NothingYet /\ lastPlan' = best /\ lastReview' = best
           /\ status' = "auto_skipped" /\ gate' = "selected_best_clean_round"
  <2>1. Good(best)' /\ Good(best) /\ best \in Versions
    BY <1>1, <1>3 DEF PlanInv, VersionInv, Good, Blockers, BlockingSeverities, Lenient
  <2>2. Acceptable'
    BY <1>1, <1>3, <2>1, PlanningAssumption
    DEF Good, Acceptable, Rounds, Excused, Blockers, BlockingSeverities, Lenient
  <2>3. VersionInv'
    BY <1>1, <1>3, <2>1 DEF PlanInv, VersionInv, Judging
  <2>4. EndInv'
    BY <1>1, <1>3, <2>2 DEF PlanInv, EndInv, Judging, Ending
  <2> QED
    BY <1>2, <2>3, <2>4 DEF PlanInv
<1>4. CASE UNCHANGED <<lastPlan, lastReview, status, gate>>
  <2>1. Acceptable' <=> Acceptable
    BY <1>1, <1>4 DEF Acceptable, Excused, Blockers, BlockingSeverities, Lenient
  <2>2. VersionInv'
    BY <1>1, <1>4 DEF PlanInv, VersionInv, Judging, Good, Blockers, BlockingSeverities, Lenient
  <2>3. EndInv'
    BY <1>1, <1>4, <2>1 DEF PlanInv, EndInv, Judging, Ending, IsAccepted
  <2> QED
    BY <1>2, <2>2, <2>3 DEF PlanInv
<1> QED
  BY <1>3, <1>4 DEF Select

LEMMA ReportStep == ASSUME PlanInv, Report PROVE PlanInv'
<1>1. /\ UNCHANGED <<policy, round, current, kept, status, gate>> /\ at = "report" /\ at' = "done"
      /\ question' = Question
  BY DEF Report
<1>2. OutcomeInv'
  BY <1>1 DEF PlanInv, OutcomeInv, Judging, Stages
<1>3. Acceptable' <=> Acceptable
  BY <1>1 DEF Acceptable, kept, Excused, Blockers, BlockingSeverities, Lenient
<1>4. Question = "approval" => gate = "approval_required"
  BY DEF Question
<1>5. VersionInv'
  BY <1>1 DEF PlanInv, VersionInv, kept, Judging, Good, Blockers, BlockingSeverities, Lenient
<1>6. EndInv'
  BY <1>1, <1>3, <1>4 DEF PlanInv, EndInv, Judging, Ending, IsAccepted
<1> QED
  BY <1>2, <1>5, <1>6 DEF PlanInv

\* What a conversation has found out about its plan, in every stage of it.
THEOREM ConversationHolds == Spec => []PlanInv
<1>1. PlanInv /\ UNCHANGED vars => PlanInv'
  BY DEF PlanInv, OutcomeInv, VersionInv, EndInv, Acceptable, vars, kept, end, Judging, Ending,
         Good, Excused, IsAccepted, Passed, ReviewerFailed, HasPlan, Blockers,
         BlockingSeverities, Lenient
<1>2. PlanInv /\ [Next]_vars => PlanInv'
  BY <1>1, InfeasibleStep, RunRoundStep, AbsorbStep, ReadinessStep, EvidenceStep, SettleStep,
     ResolveStep, SelectStep, ReportStep
  DEF Next
<1> QED
  BY <1>2, PlanInvInit, PTL DEF Spec

\* For any planner, reviewer, policy and bound (run_planning_conversation), a plan
\* that is accepted, or that the user is asked to accept, lacks no precondition and
\* its own round found nothing in it that blocks it.
THEOREM SoundPlansOnly == Spec => []AcceptedPlanIsSound
<1>1. PlanInv => AcceptedPlanIsSound
  BY DEF PlanInv, EndInv, Acceptable, AcceptedPlanIsSound
<1> QED
  BY <1>1, ConversationHolds, PTL

\* For any planner, reviewer, policy and bound, an accepted plan is the one that was
\* reviewed: neither a later version nor a plan the reviewer failed on, but for
\* auto-skip with structural issues in later tasks.
THEOREM ReviewedPlansOnly == Spec => []AcceptedPlanIsReviewed
<1>1. PlanInv => AcceptedPlanIsReviewed
  BY DEF PlanInv, EndInv, Acceptable, AcceptedPlanIsReviewed
<1> QED
  BY <1>1, ConversationHolds, PTL

\* A conversation never goes on after a round that nothing blocks (best_clean_round
\* never has a choice).
THEOREM FirstCleanRoundEnds == Spec => []NoCleanRoundIsPassedOver
<1>1. PlanInv => NoCleanRoundIsPassedOver
  BY DEF PlanInv, VersionInv, NoCleanRoundIsPassedOver
<1> QED
  BY <1>1, ConversationHolds, PTL

-----------------------------------------------------------------------------
\* The rounds that make up the streak are rounds that only meta findings blocked;
\* a finding is info only where a review was demoted.
StreakInv ==
    /\ metaStreak \in Nat
    /\ at \in {"plan", "absorb"} => (round - metaStreak)..(round - 1) \subseteq metaRounds
    /\ at \in Judging => (round - metaStreak + 1)..round \subseteq metaRounds
    /\ at = "absorb" => "info" \notin current.found
    /\ best # NothingYet => best = lastReview
    /\ DemotionIsEarned

LEMMA StreakInit == Init => StreakInv
  BY DEF Init, StreakInv, DemotionIsEarned, NothingYet, Judging

LEMMA FoundIsNotInfo == ASSUME PlanInv, RunRound PROVE "info" \notin current'.found
<1>1. \A issues \in Structures, review \in Reviews :
         "info" \notin issues /\ "info" \notin review
  BY PlanningAssumption
<1>2. \A error : NoPlan(error).found = {"failure"}
  BY DEF NoPlan, NoRound
<1>3. \A content, open, issues, missing :
         Unready(content, open, issues, missing).found = issues \cup {"precondition"}
  BY DEF Unready, NoRound
<1>4. \A content, open, issues, review, scores :
         Reviewed(content, open, issues, review, scores).found = issues \cup review
  BY DEF Reviewed, NoRound
<1>5. \A content, open, issues : Unreviewed(content, open, issues).found = issues
  BY DEF Unreviewed, NoRound
<1>6. \A issues \in Structures : "info" \notin issues
  BY PlanningAssumption
<1> QED
  BY <1>1, <1>2, <1>3, <1>4, <1>5, <1>6 DEF RunRound

LEMMA StreakAbsorb == ASSUME PlanInv, StreakInv, Absorb PROVE StreakInv'
<1> DEFINE only == OnlyMeta(current.found)
           streak == IF only THEN metaStreak + 1 ELSE 0
           demote == only /\ MayDemote(streak)
           found == IF demote THEN Demote(current.found) ELSE current.found
           version == [round |-> round, review |-> current.review,
                       ready |-> current.missing = None, found |-> found]
<1>1. /\ round \in Nat /\ metaStreak \in Nat /\ at = "absorb" /\ at' = "readiness" /\ round' = round
      /\ (round - metaStreak)..(round - 1) \subseteq metaRounds
      /\ "info" \notin current.found /\ best = NothingYet /\ lastReview \in Versions
  BY PlanningAssumption DEF Absorb, PlanInv, OutcomeInv, VersionInv, StreakInv, Rounds
<1>2. /\ metaStreak' = IF demote THEN 0 ELSE streak
      /\ metaRounds' = IF only THEN metaRounds \cup {round} ELSE metaRounds
      /\ lastReview' = IF current.review = "none" THEN lastReview ELSE version
  BY DEF Absorb, OnlyMeta
<1>3. metaStreak' \in Nat /\ (round - metaStreak' + 1)..round \subseteq metaRounds'
  BY <1>1, <1>2
<1>4. best' # NothingYet => best' = lastReview'
  BY <1>1, <1>2 DEF Absorb, Clean
<1>5. demote => round = MaxRounds \/ (round - MetaStreakLimit + 1)..round \subseteq metaRounds'
  BY <1>1, <1>2 DEF MayDemote, MetaStreakLimit
<1>6. "info" \in found => demote
  BY <1>1
<1>7. DemotionIsEarned'
  <2>1. CASE current.review = "none"
    <3>1. lastReview' = lastReview /\ metaRounds \subseteq metaRounds'
      BY <1>2, <2>1
    <3> QED
      BY <3>1 DEF StreakInv, DemotionIsEarned
  <2>2. CASE current.review # "none"
    <3>1. lastReview'.round = round /\ lastReview'.found = found
      BY <1>2, <2>2
    <3> QED
      BY <1>5, <1>6, <3>1 DEF DemotionIsEarned
  <2> QED
    BY <2>1, <2>2
<1> QED
  BY <1>1, <1>3, <1>4, <1>7 DEF StreakInv, Judging

\* For any planner, reviewer, policy and bound, blocking findings about the form of
\* the review are overruled only after three such rounds, or in the last round.
THEOREM DemotionsAreEarned == Spec => []DemotionIsEarned
<1>1. PlanInv /\ StreakInv /\ [Next]_vars => StreakInv'
  <2> SUFFICES ASSUME PlanInv, StreakInv, [Next]_vars PROVE StreakInv'
    OBVIOUS
  <2>1. CASE UNCHANGED vars
    BY <2>1 DEF vars, kept, streaks, StreakInv, DemotionIsEarned, Judging
  <2>2. CASE RunRound
    BY <2>2, FoundIsNotInfo DEF RunRound, kept, streaks, StreakInv, DemotionIsEarned, Judging
  <2>3. CASE Absorb
    BY <2>3, StreakAbsorb
  <2>4. ASSUME Readiness \/ Evidence \/ Settle PROVE StreakInv'
    <3>1. /\ UNCHANGED <<kept, metaStreak, metaRounds, current>> /\ round \in Nat
          /\ at \in Judging
          /\ \/ at' = "plan" /\ round' = round + 1
             \/ at' \in {"resolve", "evidence", "settle"} /\ round' = round
      BY <2>4, PlanningAssumption
      DEF Readiness, Evidence, Settle, StandStill, Again, Stop, PlanInv, OutcomeInv, Rounds, Judging
    <3> QED
      BY <3>1 DEF kept, StreakInv, DemotionIsEarned, Judging
  <2>5. CASE Infeasible \/ Resolve \/ Report
    BY <2>5 DEF Infeasible, Resolve, Report, kept, streaks, StreakInv, DemotionIsEarned, Judging
  <2>6. CASE Select
    BY <2>6 DEF Select, streaks, StreakInv, DemotionIsEarned, Judging
  <2> QED
    BY <2>1, <2>2, <2>3, <2>4, <2>5, <2>6 DEF Next
<1>2. StreakInv => DemotionIsEarned
  BY DEF StreakInv
<1> QED
  BY <1>1, <1>2, StreakInit, ConversationHolds, PTL DEF Spec
-----------------------------------------------------------------------------
\* The counters grow with the rounds, and below the limits the loop stops at.
CounterInv ==
    /\ metaStreak \in 0..round /\ missingStreak \in 0..round
    /\ at \in {"plan", "absorb"} => metaStreak < round
    /\ at \in {"plan", "absorb", "readiness"} => missingStreak < round
    /\ at \in {"plan", "absorb"} \cup Judging =>
          /\ sameOpen < AmbiguousLimit /\ anyOpen < AnyAmbiguousLimit
          /\ stubborn < StubbornLimit /\ repeated < DeadlockLimit

LEMMA TypesInit == Init => TypeOK /\ CounterInv
  BY PlanningAssumption
  DEF Init, TypeOK, CounterInv, Outcomes, Versions, NoRound, NothingYet, Rounds, Stages, Judging,
      Errors, Findings, AmbiguousLimit, AnyAmbiguousLimit, StubbornLimit

\* The parts of TypeOK that PlanInv has; the others are in Counted.
Counted ==
    /\ policy \in Policies /\ told \subseteq Findings
    /\ seen \in Contents \cup {None, "nothing"}
    /\ metaStreak \in 0..MaxRounds
    /\ missingStreak \in 0..MaxRounds /\ missingBefore \in Preconditions \cup {None}
    /\ sameOpen \in 0..AmbiguousLimit /\ anyOpen \in 0..AnyAmbiguousLimit
    /\ openBefore \in Ambiguities \cup {None}
    /\ stubborn \in 0..StubbornLimit /\ repeated \in 0..DeadlockLimit
    /\ budget \in 1..Budgets
    /\ status \in {"error", "approved", "auto_skipped", "clean_round",
                   "escalation_required", "precondition_blocked"}
    /\ question \in {"none", "approval", "environment", "deadlock"}
    /\ metaRounds \subseteq Rounds

LEMMA CountedIsTyped == PlanInv => (TypeOK <=> Counted)
  BY DEF PlanInv, OutcomeInv, VersionInv, TypeOK, Counted

LEMMA CountedStep ==
    ASSUME PlanInv, Counted, CounterInv, [Next]_vars PROVE Counted' /\ CounterInv'
<1> USE PlanningAssumption DEF Rounds
<1> round \in Rounds /\ current \in Outcomes
  BY DEF PlanInv, OutcomeInv
<1>1. CASE UNCHANGED vars
  BY <1>1 DEF vars, kept, streaks, end, Counted, CounterInv, Judging
<1>2. CASE Infeasible
  BY <1>2 DEF Infeasible, kept, streaks, Counted, CounterInv, Judging
<1>3. CASE Absorb
  BY <1>3 DEF Absorb, end, Counted, CounterInv, Judging, AmbiguousLimit, AnyAmbiguousLimit
<1>4. CASE Readiness
  BY <1>4 DEF Readiness, Again, Stop, Outcomes, end, kept, Counted, CounterInv, Judging
<1>5. CASE Evidence
  BY <1>5 DEF Evidence, Stop, Outcomes, end, kept, Counted, CounterInv, Judging, AmbiguousLimit,
     AnyAmbiguousLimit
<1>6. CASE Settle
  <2>1. /\ at = "settle" /\ told' = current.found /\ seen' = current.plan
        /\ UNCHANGED <<policy, metaStreak, missingStreak, missingBefore,
                       sameOpen, anyOpen, openBefore, metaRounds>>
        /\ question' = question
    BY <1>6 DEF Settle, StandStill, Again, Stop, end
  <2>2. status' \in {status, "escalation_required", "approved", "auto_skipped", "clean_round"}
    <3>1. Accepted \in {"approved", "auto_skipped", "clean_round"}
      BY DEF Accepted
    <3>2. StandStill => status' \in {status, "escalation_required"}
      BY DEF StandStill, Stop, end
    <3>3. \A outcome, cause : Stop(outcome, cause) => status' = outcome
      BY DEF Stop
    <3> QED
      BY <1>6, <3>1, <3>2, <3>3 DEF Settle, end
  <2>3. budget' = budget \/ (budget < Budgets /\ budget' = budget + 1)
    BY <1>6 DEF Settle, Pressed
  <2>4. \/ at' = "plan" /\ round' = round + 1
        \/ at' = "resolve" /\ round' = round
    BY <1>6 DEF Settle, StandStill, Again, Stop
  <2>5. /\ stubborn' \in 0..StubbornLimit /\ repeated' \in 0..DeadlockLimit
        /\ at' = "plan" => stubborn' < StubbornLimit /\ repeated' < DeadlockLimit
    <3>1. stubborn \in 0..1 /\ repeated \in 0..(DeadlockLimit - 1)
      BY <2>1 DEF Counted, CounterInv, Judging, StubbornLimit
    <3>2. CASE StandStill
      BY <3>1, <3>2 DEF StandStill, Again, Stop, StubbornLimit
    <3>3. CASE UNCHANGED <<stubborn, repeated>>
      BY <3>1, <3>3 DEF StubbornLimit
    <3> QED
      BY <1>6, <3>2, <3>3 DEF Settle
  <2>6. current.found \subseteq Findings /\ current.plan \in Contents \cup {None}
    BY DEF Outcomes
  <2> QED
    BY <2>1, <2>2, <2>3, <2>4, <2>5, <2>6 DEF Counted, CounterInv, Judging
<1>7. CASE Resolve \/ Select \/ Report
  BY <1>7 DEF Resolve, Select, Report, UsedUp, Question, end, kept, streaks,
     Counted, CounterInv, Judging
<1>8. CASE RunRound
  <2>1. /\ at = "plan" /\ at' = "absorb"
        /\ UNCHANGED <<policy, round, told, seen, kept, streaks, budget, end, metaRounds>>
    BY <1>8 DEF RunRound
  <2> QED
    BY <2>1 DEF streaks, end, Counted, CounterInv, Judging
<1> QED
  BY <1>1, <1>2, <1>3, <1>4, <1>5, <1>6, <1>7, <1>8 DEF Next

\* For any planner, reviewer, policy and bound, the loop's counters stay within the
\* limits it stops at, and its rounds within max_rounds.
THEOREM PlanningTypes == Spec => []TypeOK
<1>1. PlanInv /\ TypeOK /\ CounterInv /\ [Next]_vars /\ PlanInv' => TypeOK' /\ CounterInv'
  BY CountedStep, CountedIsTyped
  DEF PlanInv, OutcomeInv, VersionInv, TypeOK, Counted
<1> QED
  BY <1>1, TypesInit, ConversationHolds, PTL DEF Spec
=============================================================================
