----------------------------- MODULE LoopRounds ------------------------------
(***************************************************************************)
(* One collaboration run: the state the engine and its _LoopRuntime hold   *)
(* and the handler of every round (design, implement, fix, verify, rules   *)
(* gate, peer review, self review, proceed, finish).  The handlers are     *)
(* shared by PeerLoop (run_peer_review_loop) and SinglePass                *)
(* (run_single_pass_loop), which decide what is dispatched and what is     *)
(* checked after a round.                                                  *)
(*                                                                         *)
(* A run is sequential.  "phase" says how far the current iteration of the *)
(* loop has come:                                                          *)
(*   dispatch -> prepare -> execute -> settle   for an executor round      *)
(*   dispatch -> round -> settle                for any other round        *)
(* and "done" once _finish_loop has returned.                              *)
(***************************************************************************)
EXTENDS Collaboration

CONSTANTS
    MaxCycles,          \* config.max_cycles
    MaxVerifyRetries,   \* config.max_verify_retries
    MaxSetupRetries,    \* config.verify_setup_recovery_max_attempts
    MaxRecoveries,      \* _executor_recovery_attempt_limit
    MaxTotalRecoveries, \* _executor_recovery_total_attempt_cap
    TokenBudget,        \* config.token_budget; 0 switches it off
    RollbackOnFailure,  \* config.rollback_on_failure
    Synthesizer,        \* WORKFLOW_AUTOPILOT_RECOVERY_SYNTHESIZER
    FidelityGate,       \* WORKFLOW_FIDELITY_GATE
    EvidenceMode,       \* what _validate_proceed_review_evidence enforces
    ReviewScope,        \* context.review_scope
    Isolated,           \* a round that fails leaves no write in the tree
    UnmatchedBlocks     \* a recoverable block may match no detector

ASSUME LoopAssumption ==
    /\ MaxCycles \in Nat /\ MaxVerifyRetries \in Nat /\ MaxSetupRetries \in Nat
    /\ MaxRecoveries \in Nat \ {0} /\ MaxTotalRecoveries \in Nat \ {0}
    /\ TokenBudget \in Nat
    /\ {RollbackOnFailure, Synthesizer, FidelityGate, Isolated,
        UnmatchedBlocks} \subseteq BOOLEAN
    /\ EvidenceMode \in {"skip", "fail_closed", "enforced", "require_real"}
    /\ ReviewScope \in {"single_task", "full_feature"}

VARIABLES
    ctx,               \* runtime.context
    action, phase,     \* the dispatched action; where the iteration stands
    reason, stop,      \* the reason of _finish_loop; state.stop_reason
    cycle, tokens,     \* state.cycle, state.tokens_used; both saturate
    recoveryRequested, \* last_stage_status = "executor_recovery_requested"
    verifyCheck,       \* runtime.verify_check
    gateCheck,         \* runtime.gate_check
    blockedRounds,     \* blocked round records that carry a verify_check
    checkpoint,        \* runtime.rollback_checkpoint is set
    stalled,           \* runtime.execution_result holds a recoverable code
    card,              \* runtime.pending_recovery_card is set
    attempts,          \* runtime.recovery_attempts
    sigAttempts,       \* runtime.recovery_attempts_for_signature
    noWriteTried,      \* recovery_decisions holds a no_write_stall decision
    setupTries,        \* state.verify_setup_recovery_attempted
    lastExec,          \* the record of the latest executor round
    selfReviewed,      \* runtime.codex_self_reviews is not empty
    peerReviewed,      \* runtime.peer_reviews is not empty
    \* History, read by properties only:
    fresh,             \* the checks the tree, as it now is, has passed
    judged,            \* the reviewer has seen the executor's latest result
    turns,             \* answers the reviewer has given
    leftover           \* failing code that no rollback has taken back

flowVars     == <<action, phase, reason, stop>>
budgetVars   == <<cycle, tokens>>
checkVars    == <<verifyCheck, gateCheck, blockedRounds, checkpoint>>
recoveryVars == <<card, attempts, sigAttempts, noWriteTried>>
execVars     == <<stalled, setupTries, lastExec>>
evidenceVars == <<selfReviewed, peerReviewed>>
historyVars  == <<fresh, judged, turns, leftover>>
roundVars    == <<ctx, flowVars, budgetVars, recoveryRequested, checkVars,
                  recoveryVars, execVars, evidenceVars, historyVars>>

Checks  == {"verify", "gate", "peer", "self"}
Phases  == {"preflight", "dispatch", "prepare", "execute", "round", "settle",
            "done"}
StopReasons == {"none", "MAX_CYCLES", "TOKEN_BUDGET", "HARD_ERROR", "STUCK"}

PassReasons == {"PROCEED_TO_GATE", "PIPELINE_FINISH"}

Reasons == PassReasons \cup
    {"none", "MAX_CYCLES_REACHED", "TOKEN_BUDGET_EXCEEDED",
     "PHASE_GUARD_BLOCKED", "PROTECTED_FILE_BLOCK",
     "EXECUTION_BACKEND_BLOCKED", "IMPLEMENTATION_ERROR",
     "RECOVERY_TOTAL_ATTEMPTS_EXHAUSTED", "RECOVERY_ATTEMPTS_EXHAUSTED",
     "AUTO_DECIDED_RETRY_PENDING", "ESCALATED_TO_DECIDE",
     "TASK_BLOCKED_BY_PRECONDITION", "EXECUTOR_RECOVERY_BLOCKED",
     "RECOVERY_SYNTHESIZER_TIMEOUT", "EXECUTOR_RECOVERY_REQUIRED",
     "DIFF_SCOPE_VIOLATION", "VERIFY_BLOCKED", "GATE_BLOCKED",
     "ROLLBACK_INCOMPLETE", "ROLLBACK_CHECKPOINT_MISSING",
     "OPUS_REVIEW_BLOCKED", "SELF_REVIEW_BLOCKED", "FIDELITY_GATE_BLOCKED",
     "EXECUTOR_FIX_ROUND_UNPRODUCTIVE", "REVIEWER_DRIFT_DETECTED",
     "COLLABORATION_ROUND_LIMIT"}

\* Before the first action; the loop that owns the run says in which phase.
RoundInit ==
    /\ action = "design" /\ reason = "none" /\ stop = "none"
    /\ cycle = 0 /\ tokens = 0 /\ recoveryRequested = FALSE
    /\ verifyCheck = "none" /\ gateCheck = "none"
    /\ blockedRounds = 0 /\ checkpoint = FALSE
    /\ stalled = FALSE /\ card = FALSE
    /\ attempts = 0 /\ sigAttempts = 0 /\ noWriteTried = FALSE
    /\ setupTries = 0 /\ lastExec = "none"
    /\ selfReviewed = FALSE /\ peerReviewed = FALSE
    /\ fresh = {} /\ judged = FALSE /\ turns = 0 /\ leftover = "none"

-----------------------------------------------------------------------------
(* Leaving a round.                                                        *)

\* _finish_loop, after state.mark_completed(s) unless s is "none".  Nothing
\* reads the stage status of a finished run.
Stop(r, s) ==
    /\ phase' = "done" /\ reason' = r
    /\ stop' = IF s = "none" THEN stop ELSE s
    /\ recoveryRequested' = FALSE
    /\ UNCHANGED action

\* The handler goes on to p; "requested" is whether the stage status it
\* leaves is executor_recovery_requested.
GoTo(p, requested) ==
    /\ phase' = p /\ recoveryRequested' = requested
    /\ UNCHANGED <<action, reason, stop>>

Saturate(n, bound) == IF n > bound THEN bound + 1 ELSE n

-----------------------------------------------------------------------------
(* Dispatching an action.                                                  *)

\* _cycle_cost
CycleCost(a) == IF a \in {"implement", "fix_round", "finish"} THEN 1 ELSE 0

\* _allow_executor_recovery_after_max_cycles
RecoveryPastMaxCycles(a) ==
    a \in FixActions /\ ctx.mustFix # {} /\ (card \/ stalled)

\* _dispatch_action up to the handler, _handle_max_cycles included.
Dispatch(a) ==
    /\ phase = "dispatch"
    /\ action' = a
    /\ cycle' = Saturate(cycle + CycleCost(a), MaxCycles)
    /\ IF cycle' > MaxCycles /\ ~RecoveryPastMaxCycles(a)
       THEN /\ phase' = "done" /\ reason' = "MAX_CYCLES_REACHED"
            /\ stop' = "MAX_CYCLES" /\ recoveryRequested' = FALSE
       ELSE /\ phase' = IF a \in ExecutorActions THEN "prepare" ELSE "round"
            /\ UNCHANGED <<reason, stop, recoveryRequested>>
    /\ UNCHANGED <<ctx, tokens, checkVars, recoveryVars, execVars,
                   evidenceVars, historyVars>>

-----------------------------------------------------------------------------
(* Executor rounds, before the executor is called: the phase guard and     *)
(* _maybe_prepare_executor_recovery.                                       *)

preparedVars == <<ctx, budgetVars, checkVars, execVars, evidenceVars,
                  historyVars>>

PhaseGuardBlocks ==
    /\ phase = "prepare"
    /\ Stop("PHASE_GUARD_BLOCKED", "none")
    /\ UNCHANGED <<preparedVars, recoveryVars>>

\* Only a fix round that has must_fix items is prepared.
NeedsRecovery == action \in FixActions /\ ctx.mustFix # {}

PrepareNothing ==
    /\ phase = "prepare" /\ ~NeedsRecovery
    /\ GoTo("execute", recoveryRequested)
    /\ UNCHANGED <<preparedVars, recoveryVars>>

\* A new failure signature starts its own attempt count.
SignatureAttempts(new) == IF new THEN 0 ELSE sigAttempts

\* RECOVERY_TOTAL_ATTEMPTS_EXHAUSTED
TotalRecoveriesExhausted ==
    /\ phase = "prepare" /\ NeedsRecovery
    /\ attempts >= MaxTotalRecoveries
    /\ \E new \in BOOLEAN : sigAttempts' = SignatureAttempts(new)
    /\ Stop("RECOVERY_TOTAL_ATTEMPTS_EXHAUSTED", "STUCK")
    /\ UNCHANGED <<preparedVars, card, attempts, noWriteTried>>

\* The attempts for this signature are used up: pause for a decision, or
\* stop when maybe_escalate refuses.
SignatureExhausted ==
    /\ phase = "prepare" /\ NeedsRecovery
    /\ attempts < MaxTotalRecoveries /\ sigAttempts >= MaxRecoveries
    /\ \/ Stop("AUTO_DECIDED_RETRY_PENDING", "none")
       \/ Stop("ESCALATED_TO_DECIDE", "none")
       \/ Stop("RECOVERY_ATTEMPTS_EXHAUSTED", "STUCK")
    /\ UNCHANGED <<preparedVars, recoveryVars>>

\* Mutant: only the attempts for a signature are limited.
MayRecoverUncapped(n) == phase = "prepare" /\ NeedsRecovery /\ n < MaxRecoveries

MayRecover(n) ==
    /\ phase = "prepare" /\ NeedsRecovery
    /\ attempts < MaxTotalRecoveries /\ n < MaxRecoveries

\* _should_yield_deterministic_recovery_to_synthesizer
YieldsToSynthesizer(match, n) ==
    Synthesizer /\ match = "no_write" /\ (noWriteTried \/ n > 0)

\* Mutant: a deterministic recovery only counts for its signature.
DeterministicRecoveryNotCounted ==
    \E new \in BOOLEAN, match \in {"no_write", "other", "precondition"} :
        LET n == SignatureAttempts(new) IN
        /\ MayRecover(n) /\ ~YieldsToSynthesizer(match, n)
        /\ UNCHANGED attempts /\ sigAttempts' = n + 1
        /\ noWriteTried' = (noWriteTried \/ match = "no_write")
        /\ \/ /\ match = "precondition" /\ UNCHANGED card
              /\ Stop("TASK_BLOCKED_BY_PRECONDITION", "STUCK")
           \/ match # "precondition" /\ card' = TRUE /\ GoTo("execute", FALSE)
        /\ UNCHANGED preparedVars

\* A detector matches; its card (or its missing precondition) counts as an
\* attempt of the signature and of the run.
DeterministicRecovery ==
    \E new \in BOOLEAN, match \in {"no_write", "other", "precondition"} :
        LET n == SignatureAttempts(new) IN
        /\ MayRecover(n) /\ ~YieldsToSynthesizer(match, n)
        /\ attempts' = attempts + 1 /\ sigAttempts' = n + 1
        /\ noWriteTried' = (noWriteTried \/ match = "no_write")
        /\ \/ /\ match = "precondition" /\ UNCHANGED card
              /\ Stop("TASK_BLOCKED_BY_PRECONDITION", "STUCK")
           \/ match # "precondition" /\ card' = TRUE /\ GoTo("execute", FALSE)
        /\ UNCHANGED preparedVars

\* No detector takes the failure (or it yields).  There is a detector for a
\* recoverable block, unless UnmatchedBlocks.
Unmatched(n) ==
    \/ UnmatchedBlocks \/ lastExec # "needs_recovery"
    \/ YieldsToSynthesizer("no_write", n)

\* _should_synthesize_executor_recovery
ShouldSynthesize ==
    /\ Synthesizer
    /\ stalled \/ (verifyCheck = "passed" /\ gateCheck = "failed")

\* The executor is called again without a new card: the synthesizer is off
\* or answers "unavailable".  No attempt is counted.
UnassistedRetry ==
    \E new \in BOOLEAN :
        LET n == SignatureAttempts(new) IN
        /\ MayRecover(n) /\ Unmatched(n)
        /\ sigAttempts' = n
        /\ GoTo("execute", recoveryRequested)
        /\ UNCHANGED <<preparedVars, card, attempts, noWriteTried>>

\* The synthesizer is asked.  A plan and a refusal count as an attempt; a
\* timeout is refunded, but ends the run.
SynthesizedRecovery ==
    \E new \in BOOLEAN, answer \in {"plan", "refusal", "timeout"} :
        LET n == SignatureAttempts(new)
            charge == IF answer = "timeout" THEN 0 ELSE 1 IN
        /\ MayRecover(n) /\ Unmatched(n) /\ ShouldSynthesize
        /\ attempts' = attempts + charge /\ sigAttempts' = n + charge
        /\ card' = (card \/ answer = "plan")
        /\ \/ answer = "plan" /\ GoTo("execute", recoveryRequested)
           \/ answer = "refusal" /\ Stop("EXECUTOR_RECOVERY_BLOCKED", "STUCK")
           \/ answer = "timeout"
              /\ Stop("RECOVERY_SYNTHESIZER_TIMEOUT", "STUCK")
        /\ UNCHANGED <<preparedVars, noWriteTried>>

Prepare ==
    \/ PhaseGuardBlocks \/ PrepareNothing
    \/ TotalRecoveriesExhausted \/ SignatureExhausted
    \/ DeterministicRecovery \/ UnassistedRetry \/ SynthesizedRecovery

-----------------------------------------------------------------------------
(* The executor's answer (_run_codex_round after the request is built).    *)

Started == [ctx EXCEPT !.started = TRUE]

\* Mutant: the checkpoint is only captured before the first implementation.
ExecutorCalledWithOldCheckpoint ==
    /\ phase = "execute"
    /\ checkpoint' = (checkpoint \/ (RollbackOnFailure /\ ~ctx.started))
    /\ UNCHANGED <<cycle, gateCheck, blockedRounds, attempts, sigAttempts,
                   noWriteTried, evidenceVars, turns>>

\* What every answer leaves alone.  The request was preceded by the capture
\* of a rollback checkpoint, when rollback is on.
ExecutorCalled ==
    /\ phase = "execute"
    /\ checkpoint' = (checkpoint \/ RollbackOnFailure)
    /\ UNCHANGED <<cycle, gateCheck, blockedRounds, attempts, sigAttempts,
                   noWriteTried, evidenceVars, turns>>

\* A failed executor may have written to the tree, unless it works on an
\* isolated copy.
PartialWrites ==
    /\ \E wrote \in BOOLEAN :
          (Isolated => ~wrote) /\ fresh' = IF wrote THEN {} ELSE fresh
    /\ UNCHANGED <<judged, leftover>>

\* _record_codex_success
RecordSuccess(wrote) ==
    /\ ctx' = ExecutorDone(Started, action)
    /\ stalled' = FALSE /\ card' = FALSE
    /\ lastExec' = IF wrote THEN "done_write" ELSE "done_idle"
    /\ judged' = FALSE /\ leftover' = "none"
    /\ GoTo("settle", FALSE)
    /\ UNCHANGED setupTries

\* Tokens are counted for a budget that is switched on.
ExecutorSucceeds ==
    /\ ExecutorCalled
    /\ \E wrote \in BOOLEAN :
          RecordSuccess(wrote) /\ fresh' = IF wrote THEN {} ELSE fresh
    /\ \E used \in {0, 1} :
          tokens' = IF TokenBudget = 0 THEN 0
                    ELSE Saturate(tokens + used, TokenBudget)
    /\ UNCHANGED verifyCheck

\* _maybe_accept_no_write_resume: the stalled executor had nothing left to
\* write, and the declared files pass the verify command.
NoWriteResumeAccepted ==
    /\ ExecutorCalled /\ ctx.mustFix = {}
    /\ verifyCheck' = "passed" /\ fresh' = fresh \cup {"verify"}
    /\ RecordSuccess(TRUE)
    /\ UNCHANGED tokens

\* A protected, forbidden or out of scope file was written.
PolicyBlocks ==
    /\ ExecutorCalled
    /\ ctx' = Started /\ fresh' = {}
    /\ \/ Stop("PROTECTED_FILE_BLOCK", "none")
       \/ Stop("PHASE_GUARD_BLOCKED", "none")
    /\ UNCHANGED <<tokens, verifyCheck, card, execVars, judged, leftover>>

\* A block with a recoverable code asks for a recovery; the code is read
\* again only if the backend also returned an execution result.
ExecutorStalls ==
    /\ ExecutorCalled /\ PartialWrites
    /\ ctx' = RequestRecovery(Started)
    /\ stalled' \in BOOLEAN
    /\ lastExec' = "needs_recovery"
    /\ GoTo("settle", TRUE)
    /\ UNCHANGED <<tokens, verifyCheck, card, setupTries>>

BackendBlocks ==
    /\ ExecutorCalled /\ PartialWrites
    /\ ctx' = Started /\ stalled' = FALSE
    /\ Stop("EXECUTION_BACKEND_BLOCKED", "HARD_ERROR")
    /\ UNCHANGED <<tokens, verifyCheck, card, setupTries, lastExec>>

\* _handle_codex_error: an error that looks like a setup error is retried
\* until the attempts are used up.
SetupErrorRecovered ==
    /\ ExecutorCalled /\ PartialWrites
    /\ setupTries < MaxSetupRetries /\ setupTries' = setupTries + 1
    /\ ctx' = RequestRecovery(Started)
    /\ lastExec' = "error"
    /\ GoTo("settle", FALSE)
    /\ UNCHANGED <<tokens, verifyCheck, card, stalled>>

ImplementationFails ==
    /\ ExecutorCalled /\ PartialWrites
    /\ \/ UNCHANGED setupTries
       \/ setupTries >= MaxSetupRetries /\ setupTries' = MaxSetupRetries + 1
    /\ ctx' = Started /\ lastExec' = "error"
    /\ Stop("IMPLEMENTATION_ERROR", "none")
    /\ UNCHANGED <<tokens, verifyCheck, card, stalled>>

Execute ==
    \/ ExecutorSucceeds \/ NoWriteResumeAccepted \/ PolicyBlocks
    \/ ExecutorStalls \/ BackendBlocks
    \/ SetupErrorRecovered \/ ImplementationFails

-----------------------------------------------------------------------------
(* The other rounds.                                                       *)

\* What every round that is not the executor's leaves alone.
InRound(a) ==
    /\ phase = "round" /\ action = a
    /\ UNCHANGED <<budgetVars, recoveryVars, execVars>>

DesignRound ==
    /\ InRound("design")
    /\ ctx' = DesignDone(ctx)
    /\ GoTo("settle", FALSE)
    /\ UNCHANGED <<checkVars, evidenceVars, historyVars>>

-----------------------------------------------------------------------------
(* Verify.                                                                 *)

VerifyScopeViolation ==
    /\ InRound("verify")
    /\ Stop("DIFF_SCOPE_VIOLATION", "HARD_ERROR")
    /\ UNCHANGED <<ctx, checkVars, evidenceVars, historyVars>>

VerifyPasses ==
    /\ InRound("verify")
    /\ verifyCheck' = "passed" /\ fresh' = fresh \cup {"verify"}
    /\ ctx' = RecordVerify(ctx, TRUE)
    /\ GoTo("settle", FALSE)
    /\ UNCHANGED <<gateCheck, blockedRounds, checkpoint, evidenceVars,
                   judged, turns, leftover>>

VerifyFails ==
    /\ InRound("verify")
    /\ verifyCheck' = "failed"
    /\ blockedRounds' = Saturate(blockedRounds + 1, MaxVerifyRetries)
    /\ UNCHANGED <<gateCheck, evidenceVars, judged, turns>>

\* _verify_retry_budget_remaining: every blocked record that carries a
\* verify_check counts, those of the gate included.
RetryBudgetLeft == blockedRounds < MaxVerifyRetries

MayRollBack == ctx.peerEnabled /\ RollbackOnFailure

\* The tree goes back to the checkpoint and the executor starts over.
VerifyRetryFromCheckpoint ==
    /\ VerifyFails /\ RetryBudgetLeft /\ MayRollBack /\ checkpoint
    /\ checkpoint' = FALSE /\ fresh' = {} /\ leftover' = "none"
    /\ ctx' = ReopenAfterVerify(ctx)
    /\ GoTo("settle", FALSE)

\* The failing code stays in the tree: rollback is off, the loop has no
\* reviewer, there is no checkpoint, or the rollback was not clean.
VerifyRetryInPlace ==
    /\ VerifyFails /\ RetryBudgetLeft
    /\ IF MayRollBack /\ checkpoint
       THEN checkpoint' = FALSE /\ fresh' = {}
       ELSE UNCHANGED checkpoint /\ fresh' = fresh \ {"verify"}
    /\ leftover' = "verify"
    /\ ctx' = ReopenAfterVerify(ctx)
    /\ GoTo("settle", FALSE)

VerifyGivesUp ==
    /\ VerifyFails /\ ~RetryBudgetLeft
    /\ fresh' = fresh \ {"verify"} /\ leftover' = "verify"
    /\ Stop("VERIFY_BLOCKED", "HARD_ERROR")
    /\ UNCHANGED <<ctx, checkpoint>>

-----------------------------------------------------------------------------
(* Rules gate.                                                             *)

GatePasses ==
    /\ InRound("rules_gate")
    /\ gateCheck' = "passed" /\ fresh' = fresh \cup {"gate"}
    /\ ctx' = RecordGate(ctx, TRUE)
    /\ GoTo("settle", FALSE)
    /\ UNCHANGED <<verifyCheck, blockedRounds, checkpoint, evidenceVars,
                   judged, turns, leftover>>

GateBlocks ==
    /\ InRound("rules_gate")
    /\ gateCheck' = "failed"
    /\ blockedRounds' = Saturate(blockedRounds + 1, MaxVerifyRetries)
    /\ UNCHANGED <<verifyCheck, evidenceVars, judged, turns>>

GateRetryFromCheckpoint ==
    /\ GateBlocks /\ ctx.peerEnabled /\ checkpoint
    /\ checkpoint' = FALSE /\ fresh' = {} /\ leftover' = "none"
    /\ ctx' = ReopenAfterGate(ctx)
    /\ GoTo("settle", FALSE)

\* Rollback is on, but the tree is not back at a checkpoint.
GateRollbackFails ==
    /\ GateBlocks /\ MayRollBack
    /\ checkpoint' = FALSE /\ fresh' = {} /\ leftover' = "gate"
    /\ ctx' = ReopenAfterGate(ctx)
    /\ Stop(IF checkpoint THEN "ROLLBACK_INCOMPLETE"
            ELSE "ROLLBACK_CHECKPOINT_MISSING", "HARD_ERROR")

\* Mutant: a rollback that fails does not stop the run.
GateRetryInPlaceAnyway ==
    /\ GateBlocks /\ ctx.peerEnabled
    /\ checkpoint' = FALSE /\ fresh' = {} /\ leftover' = "gate"
    /\ ctx' = ReopenAfterGate(ctx)
    /\ GoTo("settle", FALSE)

GateRetryInPlace ==
    /\ GateBlocks /\ ctx.peerEnabled /\ ~checkpoint /\ ~RollbackOnFailure
    /\ fresh' = fresh \ {"gate"} /\ leftover' = "gate"
    /\ ctx' = ReopenAfterGate(ctx)
    /\ GoTo("settle", FALSE)
    /\ UNCHANGED checkpoint

\* Mutant: without a reviewer a blocked gate is only recorded.
GateGoesOn ==
    /\ GateBlocks /\ ~ctx.peerEnabled
    /\ fresh' = fresh \ {"gate"} /\ leftover' = "gate"
    /\ GoTo("settle", FALSE)
    /\ UNCHANGED <<ctx, checkpoint>>

\* Without a reviewer a blocked gate ends the run.
GateGivesUp ==
    /\ GateBlocks /\ ~ctx.peerEnabled
    /\ fresh' = fresh \ {"gate"} /\ leftover' = "gate"
    /\ Stop("GATE_BLOCKED", "HARD_ERROR")
    /\ UNCHANGED <<ctx, checkpoint>>

-----------------------------------------------------------------------------
(* Reviews.                                                                *)

\* A verdict approves this tree if it leaves the context approved.
PeerVerdict(r) ==
    /\ ctx' = RecordReview(ctx, r, ReviewScope)
    /\ peerReviewed' = TRUE /\ judged' = TRUE /\ turns' = turns + 1
    /\ fresh' = IF ctx'.approved THEN fresh \cup {"peer"}
                ELSE fresh \ {"peer"}
    /\ UNCHANGED <<checkVars, selfReviewed, leftover>>

\* The reviewer answers; or the answer carries a blocking error.
PeerReviewRound ==
    \E r \in Review :
        /\ InRound("peer_review") /\ PeerVerdict(r)
        /\ \/ GoTo("settle", FALSE)
           \/ Stop("OPUS_REVIEW_BLOCKED", "HARD_ERROR")

SelfReviewRound ==
    \E ok \in BOOLEAN :
        /\ InRound("self_review")
        /\ selfReviewed' = TRUE
        /\ ctx' = RecordSelfReview(ctx, ok)
        /\ fresh' = IF ok THEN fresh \cup {"self"} ELSE fresh
        /\ GoTo("settle", FALSE)
        /\ UNCHANGED <<checkVars, peerReviewed, judged, turns, leftover>>

SelfReviewBlocks ==
    /\ InRound("self_review")
    /\ Stop("SELF_REVIEW_BLOCKED", "HARD_ERROR")
    /\ UNCHANGED <<ctx, checkVars, evidenceVars, historyVars>>

-----------------------------------------------------------------------------
(* Proceeding.                                                             *)

\* Mutant: open must_fix items are no issue.
EvidenceFailsOnReviewsOnly(selfSelectable) ==
    CASE EvidenceMode = "skip"        -> FALSE
      [] EvidenceMode = "fail_closed" -> TRUE
      [] OTHER ->
           \/ ctx.peerEnabled /\ selfSelectable /\ ~selfReviewed
           \/ /\ ~peerReviewed
              /\ ctx.peerEnabled \/ EvidenceMode = "require_real"

(***************************************************************************)
(* _validate_proceed_review_evidence finds an issue.  Whether a self       *)
(* review is asked for depends on the backend that executed the task,      *)
(* which need not be the one that made self reviews part of the flow.      *)
(***************************************************************************)
EvidenceFails(selfSelectable) ==
    CASE EvidenceMode = "skip"        -> FALSE
      [] EvidenceMode = "fail_closed" -> TRUE
      [] OTHER ->
           \/ ctx.mustFix # {}
           \/ ctx.peerEnabled /\ selfSelectable /\ ~selfReviewed
           \/ /\ ~peerReviewed
              /\ ctx.peerEnabled \/ EvidenceMode = "require_real"

FidelityGateBlocks ==
    /\ InRound("proceed_to_gate") /\ FidelityGate
    /\ ctx' = [ctx EXCEPT !.approved = FALSE, !.mustFix = {EngineTopic}]
    /\ Stop("FIDELITY_GATE_BLOCKED", "HARD_ERROR")
    /\ UNCHANGED <<checkVars, evidenceVars, historyVars>>

EvidenceBlocks ==
    /\ InRound("proceed_to_gate")
    /\ \E selfSelectable \in BOOLEAN : EvidenceFails(selfSelectable)
    /\ Stop("OPUS_REVIEW_BLOCKED", "HARD_ERROR")
    /\ UNCHANGED <<ctx, checkVars, evidenceVars, historyVars>>

Proceeds ==
    /\ InRound("proceed_to_gate")
    /\ \E selfSelectable \in BOOLEAN : ~EvidenceFails(selfSelectable)
    /\ Stop("PROCEED_TO_GATE", "none")
    /\ UNCHANGED <<ctx, checkVars, evidenceVars, historyVars>>

FinishRound ==
    /\ InRound("finish")
    /\ Stop("PIPELINE_FINISH", "none")
    /\ UNCHANGED <<ctx, checkVars, evidenceVars, historyVars>>

VerifyRound ==
    \/ VerifyScopeViolation \/ VerifyPasses \/ VerifyRetryFromCheckpoint
    \/ VerifyRetryInPlace \/ VerifyGivesUp

GateRound ==
    \/ GatePasses \/ GateRetryFromCheckpoint \/ GateRollbackFails
    \/ GateRetryInPlace \/ GateGivesUp

ReviewRound == PeerReviewRound \/ SelfReviewRound \/ SelfReviewBlocks

ProceedRound == FidelityGateBlocks \/ EvidenceBlocks \/ Proceeds

-----------------------------------------------------------------------------
(* _enforce_token_budget_after_round                                       *)

\* Mutant: fix rounds are not budget checkpoints.
OverBudgetAfterImplement ==
    action = "implement" /\ TokenBudget > 0 /\ tokens > TokenBudget

OverBudget ==
    /\ action \in ExecutorActions \cup {"peer_review", "self_review"}
    /\ TokenBudget > 0 /\ tokens > TokenBudget

TokenBudgetExceeded ==
    /\ phase = "settle" /\ OverBudget
    /\ Stop("TOKEN_BUDGET_EXCEEDED", "TOKEN_BUDGET")
    /\ UNCHANGED <<ctx, budgetVars, checkVars, recoveryVars, execVars,
                   evidenceVars, historyVars>>

-----------------------------------------------------------------------------
(* The types of a run's state, group by group.                             *)

FlowTypeOK ==
    /\ action \in Actions /\ phase \in Phases
    /\ reason \in Reasons /\ stop \in StopReasons
    /\ recoveryRequested \in BOOLEAN

BudgetTypeOK ==
    cycle \in 0 .. MaxCycles + 1 /\ tokens \in 0 .. TokenBudget + 1

CheckTypeOK ==
    /\ verifyCheck \in {"none", "passed", "failed"}
    /\ gateCheck \in {"none", "passed", "failed"}
    /\ blockedRounds \in 0 .. MaxVerifyRetries + 1 /\ checkpoint \in BOOLEAN

RecoveryTypeOK ==
    /\ card \in BOOLEAN /\ noWriteTried \in BOOLEAN
    /\ attempts \in 0 .. MaxTotalRecoveries
    /\ sigAttempts \in 0 .. MaxRecoveries

ExecTypeOK ==
    /\ stalled \in BOOLEAN /\ setupTries \in 0 .. MaxSetupRetries + 1
    /\ lastExec \in {"none", "done_write", "done_idle", "needs_recovery",
                     "error"}

EvidenceTypeOK == selfReviewed \in BOOLEAN /\ peerReviewed \in BOOLEAN

HistoryTypeOK ==
    /\ fresh \subseteq Checks /\ judged \in BOOLEAN /\ turns \in Nat
    /\ leftover \in {"none", "verify", "gate"}

RoundTypeOK ==
    /\ ctx \in Context /\ FlowTypeOK /\ BudgetTypeOK /\ CheckTypeOK
    /\ RecoveryTypeOK /\ ExecTypeOK /\ EvidenceTypeOK /\ HistoryTypeOK
=============================================================================
