---------------------------- MODULE Collaboration ----------------------------
(***************************************************************************)
(* The collaboration context of one task (CollaborationContext) as a       *)
(* record, the transition each helper of core/reviewer_boundary.py and     *)
(* core/collaboration_flow.py makes on it, and the resolution of the next  *)
(* action.  The module has no variables: the loops that own a context      *)
(* apply these operators to it.                                            *)
(***************************************************************************)
EXTENDS Integers, FiniteSets

CONSTANTS
    Topics,     \* what a reviewer's must_fix items can be about
    EngineTopic \* the topic of the must_fix items the engine writes itself

ASSUME TopicsAssumption == EngineTopic \notin Topics

AllTopics == Topics \cup {EngineTopic}

Roles == {"opus", "codex", "system"}

\* CollaborationAction, the legacy aliases (opus_review, codex_fix, ...)
\* folded into the canonical values: every table of the engine treats the
\* two alike.
Actions == {"design", "implement", "fix_round", "verify", "rules_gate",
            "peer_review", "self_review", "proceed_to_gate", "finish"}

FixActions      == {"fix_round"}
ExecutorActions == {"implement", "fix_round"}

Context == [role : Roles, decided : BOOLEAN, started : BOOLEAN,
            peerEnabled : BOOLEAN, verifyPassed : BOOLEAN,
            gatePassed : BOOLEAN, selfRequired : BOOLEAN,
            selfCompleted : BOOLEAN, selfApproved : BOOLEAN,
            approved : BOOLEAN, mustFix : SUBSET AllTopics, iteration : Nat]

(***************************************************************************)
(* A context as build_collaboration_context and _create_loop_runtime leave *)
(* it: verify, gate and self review are reset whatever a cached context    *)
(* held.                                                                   *)
(***************************************************************************)
NewContext(role, decided, peer, selfRequired, mustFix) ==
    [role |-> IF decided THEN "codex" ELSE role, decided |-> decided,
     started |-> FALSE, peerEnabled |-> peer, verifyPassed |-> FALSE,
     gatePassed |-> FALSE, selfRequired |-> selfRequired,
     selfCompleted |-> FALSE, selfApproved |-> FALSE, approved |-> FALSE,
     mustFix |-> mustFix, iteration |-> 0]

-----------------------------------------------------------------------------
(* What to do next.                                                        *)

\* Mutant: a required self review is not waited for.
ReadyWithoutSelfReview(c) ==
    c.gatePassed /\ c.mustFix = {} /\ (c.peerEnabled => c.approved)

ReadyToProceed(c) ==
    /\ c.gatePassed
    /\ c.mustFix = {}
    /\ c.peerEnabled => /\ c.approved
                        /\ c.selfRequired => c.selfApproved

DesignPending(c) == c.role = "opus" /\ ~c.decided /\ ~c.started

SelfReviewDue(c) ==
    c.peerEnabled /\ c.approved /\ c.selfRequired /\ ~c.selfCompleted

\* Mutants: open must_fix items are looked at after the checks; the rules
\* gate comes before verify.
NextActionChecksFirst(c) ==
    IF ReadyToProceed(c)                  THEN "proceed_to_gate"
    ELSE IF DesignPending(c)              THEN "design"
    ELSE IF c.started /\ ~c.verifyPassed  THEN "verify"
    ELSE IF c.started /\ ~c.gatePassed    THEN "rules_gate"
    ELSE IF c.role = "opus"               THEN "peer_review"
    ELSE IF c.mustFix # {}                THEN "fix_round"
    ELSE                                       "implement"
NextActionGateFirst(c) ==
    IF ReadyToProceed(c)                  THEN "proceed_to_gate"
    ELSE IF c.mustFix # {}                THEN "fix_round"
    ELSE IF DesignPending(c)              THEN "design"
    ELSE IF c.started /\ ~c.gatePassed    THEN "rules_gate"
    ELSE IF c.started /\ ~c.verifyPassed  THEN "verify"
    ELSE IF c.role = "opus"               THEN "peer_review"
    ELSE                                       "implement"

\* resolve_next_action: the first alternative that applies.
NextAction(c) ==
    IF ReadyToProceed(c)                  THEN "proceed_to_gate"
    ELSE IF c.mustFix # {}                THEN "fix_round"
    ELSE IF DesignPending(c)              THEN "design"
    ELSE IF c.started /\ ~c.verifyPassed  THEN "verify"
    ELSE IF c.started /\ ~c.gatePassed    THEN "rules_gate"
    ELSE IF c.role = "opus"               THEN "peer_review"
    ELSE IF SelfReviewDue(c)              THEN "self_review"
    ELSE                                       "implement"

-----------------------------------------------------------------------------
(* What each result does to the context.                                   *)

NoSelfReview(c) == [c EXCEPT !.selfCompleted = FALSE, !.selfApproved = FALSE]

\* apply_verify_result
RecordVerify(c, passed) ==
    [c EXCEPT !.verifyPassed = passed, !.gatePassed = FALSE,
              !.role = IF passed THEN "system" ELSE "codex"]

\* apply_rules_gate_result
RecordGate(c, passed) ==
    IF passed
    THEN [NoSelfReview(c) EXCEPT !.gatePassed = TRUE,
             !.role = IF c.peerEnabled THEN "opus" ELSE "system"]
    ELSE [c EXCEPT !.gatePassed = FALSE, !.role = "codex"]

(***************************************************************************)
(* A reviewer's verdict.  "blocking" is the kind of blocking_items it      *)
(* carries ("invariant": they hold a legacy invariant keyword), "global"   *)
(* its global_consistency_verdict, "attribution" whom it blames for a      *)
(* global FAIL.                                                            *)
(***************************************************************************)
Attributions == {"this_task", "sibling_tasks", "unknown", "missing"}

Review == [approved : BOOLEAN, mustFix : SUBSET Topics,
           blocking : {"none", "plain", "invariant"},
           global : {"PASS", "FAIL"}, attribution : Attributions]

\* _should_override_for_single_task; a full_feature review always overrides.
OverridesApproval(r, scope) ==
    /\ r.global = "FAIL"
    /\ \/ scope = "full_feature"
       \/ r.attribution = "this_task"
       \/ r.attribution = "missing" /\ r.blocking = "invariant"

\* record_opus_review with the normalisation it applies: must_fix and
\* blocking items revoke an approval.
RecordReview(c, r, scope) ==
    LET override == OverridesApproval(r, scope) IN
    [NoSelfReview(c) EXCEPT
        !.approved  = /\ r.approved
                      /\ r.mustFix = {}
                      /\ r.blocking = "none"
                      /\ ~override,
        !.mustFix   = r.mustFix \cup (IF override THEN {EngineTopic} ELSE {}),
        !.iteration = c.iteration + 1,
        !.role      = "codex"]

\* Mutant: a recovery is recorded like a review.
RequestRecoveryAsReview(c) ==
    [NoSelfReview(c) EXCEPT !.approved = FALSE, !.mustFix = {EngineTopic},
                            !.role = "codex", !.iteration = c.iteration + 1]

\* request_executor_recovery: no review round is charged.
RequestRecovery(c) ==
    [NoSelfReview(c) EXCEPT !.approved = FALSE, !.mustFix = {EngineTopic},
                            !.role = "codex"]

\* apply_self_review_result
RecordSelfReview(c, ok) ==
    IF ok
    THEN [c EXCEPT !.selfCompleted = TRUE, !.selfApproved = TRUE,
                   !.role = "system"]
    ELSE [c EXCEPT !.selfCompleted = TRUE, !.selfApproved = FALSE,
                   !.approved = FALSE, !.mustFix = {EngineTopic},
                   !.role = "codex"]

\* Mutant: the results of verify and gate survive a fix.
ExecutorDoneKeepingChecks(c, a) ==
    LET redo == [NoSelfReview(c) EXCEPT !.role = "opus"]
    IN IF a \in FixActions
       THEN [redo EXCEPT !.approved = FALSE, !.mustFix = {}]
       ELSE redo

\* apply_codex_success_transition: a fix (mark_codex_fix_applied) also
\* withdraws the approval and clears the must_fix items it answers.
ExecutorDone(c, a) ==
    LET redo == [NoSelfReview(c) EXCEPT !.role = "opus",
                    !.verifyPassed = FALSE, !.gatePassed = FALSE]
    IN IF a \in FixActions
       THEN [redo EXCEPT !.approved = FALSE, !.mustFix = {}]
       ELSE redo

\* _reopen_for_fix_round and _reopen_after_verify_block
ReopenAfterVerify(c) ==
    RecordVerify([c EXCEPT !.approved = FALSE, !.mustFix = {EngineTopic}],
                 FALSE)

\* _reopen_after_gate_block
ReopenAfterGate(c) ==
    RecordGate([c EXCEPT !.approved = FALSE, !.mustFix = {EngineTopic}], FALSE)

\* _run_opus_design_round
DesignDone(c) == [c EXCEPT !.decided = TRUE, !.role = "codex"]

\* review_round_limit_reached
ReviewLimitReached(c, a, limit) ==
    a = "peer_review" /\ ~c.approved /\ c.iteration >= limit

(***************************************************************************)
(* _must_fix_signatures_drifted: two non-empty sets of must_fix tokens     *)
(* whose Jaccard similarity is below one half.  The initial None counts as *)
(* no drift, exactly like the empty bag.                                   *)
(***************************************************************************)
Drifted(previous, current) ==
    /\ previous # {} /\ current # {}
    /\ 2 * Cardinality(previous \cap current)
           < Cardinality(previous \cup current)
=============================================================================
