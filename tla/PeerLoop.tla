------------------------------ MODULE PeerLoop ------------------------------
(***************************************************************************)
(* run_peer_review_loop: the collaboration loop of a task whose result a   *)
(* reviewer has to approve.  The next action is resolved from the context, *)
(* dispatched, and followed by the loop's own stop conditions: fix rounds  *)
(* that write nothing, a reviewer who keeps changing the subject, and the  *)
(* review round limit.                                                     *)
(***************************************************************************)
EXTENDS LoopRounds

CONSTANTS
    MaxRounds,          \* peer_review_policy.max_rounds
    FixRoundLimit,      \* _unproductive_fix_round_limit
    DriftLimit,         \* _reviewer_drift_limit
    VerificationOnly,   \* the task card asks for no file changes
    SelfReviewRequired  \* _self_review_required of the configured backend

ASSUME PeerLoopAssumption ==
    /\ {MaxRounds, FixRoundLimit, DriftLimit} \subseteq Nat \ {0}
    /\ {VerificationOnly, SelfReviewRequired} \subseteq BOOLEAN

VARIABLES
    idleFixes, \* consecutive_zero_write_fix_rounds
    drifts,    \* consecutive_drift_rounds
    lastBag    \* previous_must_fix_bag

loopVars == <<idleFixes, drifts, lastBag>>
vars     == <<roundVars, loopVars>>

\* The task router picks the role; a redesign the user has chosen puts a
\* must_fix item in place before the first round.
Init ==
    /\ RoundInit /\ phase = "preflight"
    /\ \E role \in {"opus", "codex"}, decided \in BOOLEAN,
          mustFix \in {{}, {EngineTopic}} :
          ctx = NewContext(role, decided, TRUE, SelfReviewRequired, mustFix)
    /\ idleFixes = 0 /\ drifts = 0 /\ lastBag = {}

-----------------------------------------------------------------------------
(* _preflight_peer_review: a reviewer that is not ready ends the run with  *)
(* the review it returned in the place of one.                             *)

PreflightReady ==
    /\ phase = "preflight"
    /\ GoTo("dispatch", FALSE)
    /\ UNCHANGED <<ctx, budgetVars, checkVars, recoveryVars, execVars,
                   evidenceVars, historyVars, loopVars>>

PreflightBlocks ==
    /\ phase = "preflight"
    /\ \E r \in Review : PeerVerdict(r)
    /\ Stop("OPUS_REVIEW_BLOCKED", "HARD_ERROR")
    /\ UNCHANGED <<budgetVars, recoveryVars, execVars, loopVars>>

-----------------------------------------------------------------------------
(* After a round.                                                          *)

AfterRound ==
    /\ phase = "settle" /\ ~OverBudget
    /\ UNCHANGED <<ctx, budgetVars, checkVars, recoveryVars, execVars,
                   evidenceVars, historyVars>>

\* A round whose record asks for a recovery, or writes, or belongs to a
\* verification-only task, restarts the count.
SettleFixRound ==
    /\ AfterRound /\ action \in FixActions
    /\ idleFixes' = IF \/ lastExec \in {"needs_recovery", "done_write"}
                       \/ VerificationOnly
                    THEN 0 ELSE idleFixes + 1
    /\ IF idleFixes' >= FixRoundLimit
       THEN Stop("EXECUTOR_FIX_ROUND_UNPRODUCTIVE", "STUCK")
       ELSE GoTo("dispatch", recoveryRequested)
    /\ UNCHANGED <<drifts, lastBag>>

SettlePeerReview ==
    /\ AfterRound /\ action = "peer_review"
    /\ drifts' = IF Drifted(lastBag, ctx.mustFix) THEN drifts + 1 ELSE 0
    /\ lastBag' = ctx.mustFix
    /\ IF drifts' >= DriftLimit
       THEN Stop("REVIEWER_DRIFT_DETECTED", "STUCK")
       ELSE IF ReviewLimitReached(ctx, action, MaxRounds)
            THEN Stop("COLLABORATION_ROUND_LIMIT", "STUCK")
            ELSE GoTo("dispatch", recoveryRequested)
    /\ UNCHANGED idleFixes

SettleOther ==
    /\ AfterRound /\ action \notin FixActions \cup {"peer_review"}
    /\ GoTo("dispatch", recoveryRequested)
    /\ UNCHANGED loopVars

-----------------------------------------------------------------------------
DispatchNext == Dispatch(NextAction(ctx))

RoundStep ==
    \/ DispatchNext
    \/ Prepare \/ Execute
    \/ DesignRound \/ VerifyRound \/ GateRound \/ ReviewRound \/ ProceedRound
    \/ TokenBudgetExceeded

Settle == SettleFixRound \/ SettlePeerReview \/ SettleOther

Finished == phase = "done" /\ UNCHANGED vars

Next ==
    \/ PreflightReady \/ PreflightBlocks
    \/ RoundStep /\ UNCHANGED loopVars
    \/ Settle
    \/ Finished

Spec == Init /\ [][Next]_vars

\* The loop is one thread that nothing suspends.
FairSpec == Spec /\ WF_vars(Next)

-----------------------------------------------------------------------------
TypeOK ==
    /\ RoundTypeOK /\ ctx.peerEnabled
    /\ idleFixes \in 0 .. FixRoundLimit /\ drifts \in 0 .. DriftLimit
    /\ lastBag \subseteq AllTopics

-----------------------------------------------------------------------------
(* Safety.                                                                 *)

RequiredChecks ==
    {"verify", "gate", "peer"} \cup (IF ctx.selfRequired THEN {"self"} ELSE {})

\* The tree handed to the gate has passed verify, rules gate, peer review
\* and a required self review since it was last written: no retry, recovery
\* or rollback leaves one of the context's flags standing for an older tree.
\* The evidence that goes with it (verify_check, gate_check) says so too.
DeliveredTreeIsChecked ==
    reason = "PROCEED_TO_GATE" =>
        /\ RequiredChecks \subseteq fresh
        /\ verifyCheck = "passed" /\ gateCheck = "passed"

\* A reviewer is only asked about a tree that has passed verify and gate,
\* and never twice about the same result of the executor.
ReviewerSeesCheckedTree ==
    phase = "round" /\ action = "peer_review" =>
        {"verify", "gate"} \subseteq fresh /\ ~judged

\* COLLABORATION_ROUND_LIMIT is the reviewer's: internal recoveries, verify
\* failures and gate blocks use up none of its rounds (the purpose of
\* request_executor_recovery).
RoundLimitIsEarned ==
    reason = "COLLABORATION_ROUND_LIMIT" => turns >= MaxRounds

\* An open objection is answered by the executor: the must_fix items of a
\* reviewer, a failed check or a recovery are never dropped or replaced by
\* a review before an executor round has succeeded, or a recovery or a run's
\* end has put the engine's own items in their place.
ObjectionsAreAnswered ==
    [][ctx.mustFix # {} /\ ctx'.mustFix # ctx.mustFix =>
          \/ phase = "execute" /\ lastExec' \in {"done_write", "done_idle"}
          \/ ctx'.mustFix = {EngineTopic}
          \/ phase = "preflight"]_vars

\* With rollback on, an executor that is called again after a blocked gate
\* starts from the checkpoint: the code the gate refused is gone.
GateRetryStartsClean ==
    RollbackOnFailure /\ phase \in {"prepare", "execute"} => leftover # "gate"

\* With rollback on, every verify and gate round has a checkpoint to go
\* back to, so that no run ends for the lack of one.
CheckpointIsThere ==
    /\ RollbackOnFailure /\ phase = "round"
           /\ action \in {"verify", "rules_gate"} => checkpoint
    /\ reason # "ROLLBACK_CHECKPOINT_MISSING"

\* Neither the recovery rounds that max_cycles lets through nor a token
\* budget that is checked between rounds lets a run deliver past its limits.
NothingDeliveredOverLimits ==
    reason = "PROCEED_TO_GATE" =>
        /\ cycle <= MaxCycles
        /\ TokenBudget > 0 => tokens <= TokenBudget

-----------------------------------------------------------------------------
(* What the loop promises, as the abstract specification Delivery.         *)

Outcome ==
    IF phase # "done" THEN "open"
    ELSE IF reason = "PROCEED_TO_GATE" THEN "delivered" ELSE "abandoned"

DeliveryNeeds ==
    {"verify", "gate", "peer"} \cup
        (IF SelfReviewRequired THEN {"self"} ELSE {})

\* The checks that come before a check on the same tree.
CheckNeeds ==
    [k \in Checks |-> CASE k = "verify" -> {}
                        [] k = "gate"   -> {"verify"}
                        [] k = "peer"   -> {"verify", "gate"}
                        [] k = "self"   -> {"verify", "gate", "peer"}]

Promise == INSTANCE Delivery WITH
    Kinds <- Checks, passed <- fresh, outcome <- Outcome,
    Required <- DeliveryNeeds, Needs <- CheckNeeds

\* Every run of the loop is a run of Delivery: checks are earned in order on
\* one tree, and a delivery needs them all.
ImplementsDelivery == Promise!Spec

-----------------------------------------------------------------------------
(* Liveness.                                                               *)

\* Whatever the executor, the checks and the reviewer answer, the run ends.
Termination == <>(phase = "done")
=============================================================================
