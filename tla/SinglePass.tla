----------------------------- MODULE SinglePass -----------------------------
(***************************************************************************)
(* run_single_pass_loop: a task without a reviewer.  A fixed script of     *)
(* actions is dispatched one after the other; the implement action may be  *)
(* followed by fix rounds while the executor asks for a recovery.  The     *)
(* next action is never resolved from the context here.                    *)
(***************************************************************************)
EXTENDS LoopRounds, Sequences

VARIABLES
    script, \* the actions of this run
    step,   \* how many of them have been dispatched
    tries   \* recovery rounds dispatched after implement

passVars == <<script, step, tries>>
vars     == <<roundVars, passVars>>

\* _single_pass_actions without the legacy aliases that no run reaches, and
\* the actions_override of the skip_review pipeline.
Scripts ==
    {<<"design", "implement", "verify", "rules_gate", "proceed_to_gate">>,
     <<"design", "implement", "finish">>}

\* _single_pass_runtime
Init ==
    /\ RoundInit /\ phase = "dispatch"
    /\ \E decided, selfRequired \in BOOLEAN, mustFix \in {{}, {EngineTopic}} :
          ctx = NewContext("codex", decided, FALSE, selfRequired, mustFix)
    /\ script \in Scripts /\ step = 0 /\ tries = 0

-----------------------------------------------------------------------------
Implementing == step > 0 /\ script[step] = "implement"

\* _single_pass_executor_recovery_pending
RecoveryPending == recoveryRequested /\ ctx.mustFix # {}

DispatchScript ==
    /\ ~(Implementing /\ RecoveryPending)
    /\ step' = step + 1
    /\ Dispatch(script[step'])
    /\ UNCHANGED <<script, tries>>

\* Mutant: the recovery rounds are not counted.
DispatchRecoveryForever ==
    /\ Implementing /\ RecoveryPending /\ tries < MaxRecoveries
    /\ Dispatch("fix_round")
    /\ UNCHANGED <<script, step, tries>>

\* _maybe_run_single_pass_executor_recovery; its attempt limit is that of
\* the executor recovery.
DispatchRecovery ==
    /\ Implementing /\ RecoveryPending /\ tries < MaxRecoveries
    /\ tries' = tries + 1
    /\ Dispatch("fix_round")
    /\ UNCHANGED <<script, step>>

RecoveryRequired ==
    /\ phase = "dispatch"
    /\ Implementing /\ RecoveryPending /\ tries >= MaxRecoveries
    /\ Stop("EXECUTOR_RECOVERY_REQUIRED", "STUCK")
    /\ UNCHANGED <<ctx, budgetVars, checkVars, recoveryVars, execVars,
                   evidenceVars, historyVars, passVars>>

Settle ==
    /\ phase = "settle" /\ ~OverBudget
    /\ GoTo("dispatch", recoveryRequested)
    /\ UNCHANGED <<ctx, budgetVars, checkVars, recoveryVars, execVars,
                   evidenceVars, historyVars, passVars>>

RoundStep ==
    \/ Prepare \/ Execute
    \/ DesignRound \/ VerifyRound \/ GateRound \/ ProceedRound \/ FinishRound
    \/ TokenBudgetExceeded

Finished == phase = "done" /\ UNCHANGED vars

Next ==
    \/ DispatchScript \/ DispatchRecovery \/ RecoveryRequired
    \/ RoundStep /\ UNCHANGED passVars
    \/ Settle
    \/ Finished

Spec == Init /\ [][Next]_vars

\* The loop is one thread that nothing suspends.
FairSpec == Spec /\ WF_vars(Next)

-----------------------------------------------------------------------------
\* A tree handed to the gate has passed the rules gate as it stands.
DeliveredTreeIsGated ==
    reason = "PROCEED_TO_GATE" => "gate" \in fresh /\ gateCheck = "passed"

\* A tree handed to the gate has passed verify as it stands.
DeliveredTreeIsVerified == reason = "PROCEED_TO_GATE" => "verify" \in fresh

\* Only work that the executor has finished is handed on: no run passes
\* after an executor error or a stall.
DeliveredWorkIsFinished ==
    reason = "PROCEED_TO_GATE" => lastExec \in {"done_write", "done_idle"}

\* With review evidence enforced, an item that is still open stops the run
\* at the last step: what is delivered is verified and finished.
EnforcedEvidenceProtects ==
    EvidenceMode \in {"enforced", "require_real"} =>
        DeliveredTreeIsVerified /\ DeliveredWorkIsFinished

\* Whatever the executor and the checks answer, the run ends, also when a
\* block matches no detector: the script has an end and the recovery rounds
\* have a limit of their own.
Termination == <>(phase = "done")
=============================================================================
