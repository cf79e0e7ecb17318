--------------------------- MODULE PeerLoopProofs ---------------------------
(***************************************************************************)
(* The safety properties of PeerLoop for every value of its constants, and *)
(* that its runs are bounded where each recovery is counted.               *)
(***************************************************************************)
EXTENDS PeerLoop, CollaborationProofs, TLAPS

-----------------------------------------------------------------------------
(* The inductive invariant.                                                *)

\* A dispatched action is the one the context asks for, until its round is
\* over; only a finished run has a reason.
ControlInv ==
    /\ phase # "done" => /\ reason = "none"
                         /\ idleFixes < FixRoundLimit /\ drifts < DriftLimit
    /\ phase \in {"prepare", "execute", "round"} => action = NextAction(ctx)
    /\ phase \in {"prepare", "execute"} => action \in ExecutorActions

\* How the fields of the context hang together.
ContextInv ==
    /\ ctx.selfRequired = SelfReviewRequired
    /\ ctx.iteration = turns
    /\ ctx.gatePassed => ctx.verifyPassed
    /\ ctx.approved /\ ctx.selfCompleted => ctx.selfApproved

\* While no must_fix item is open, each flag of the context speaks of the
\* tree as it is.  A failed executor may have written to the tree and leave
\* the flags standing, but then an item is open, and the fix that clears it
\* withdraws the flags.
FlagsInv ==
    phase # "done" /\ ctx.mustFix = {} =>
        /\ ctx.verifyPassed => "verify" \in fresh /\ verifyCheck = "passed"
        /\ ctx.gatePassed   => "gate" \in fresh /\ gateCheck = "passed"
        /\ ctx.approved     => "peer" \in fresh
        /\ ctx.selfApproved => "self" \in fresh

\* The reviewer approves, and has the turn again, only for a result of the
\* executor that it has not judged.
TurnInv ==
    phase # "done" =>
        /\ ctx.approved => ctx.started
        /\ ctx.role = "opus" => ~judged /\ (ctx.started \/ ~ctx.decided)
        /\ judged => ctx.gatePassed \/ ctx.mustFix # {}

\* A rollback uses up the checkpoint, but opens an item for the executor.
CheckpointInv ==
    RollbackOnFailure /\ phase # "done" /\ ctx.started /\ ctx.mustFix = {} =>
        checkpoint

LeftoverInv == RollbackOnFailure /\ leftover = "gate" => phase = "done"

\* Only an executor round may run past max_cycles, and only the settling of
\* an executor round may find the token budget exceeded.
LimitsInv ==
    /\ phase = "round" => cycle <= MaxCycles
    /\ tokens > TokenBudget =>
          \/ phase = "done" /\ reason # "PROCEED_TO_GATE"
          \/ phase = "settle" /\ action \in ExecutorActions
          \/ TokenBudget = 0

\* The reasons a run has to answer for, and what it answers.
AnsweredReasons == {"PROCEED_TO_GATE", "COLLABORATION_ROUND_LIMIT",
                    "ROLLBACK_CHECKPOINT_MISSING"}

OutcomeInv ==
    /\ DeliveredTreeIsChecked /\ NothingDeliveredOverLimits
    /\ RoundLimitIsEarned /\ reason # "ROLLBACK_CHECKPOINT_MISSING"

Inv ==
    /\ TypeOK /\ ControlInv /\ ContextInv /\ FlagsInv /\ TurnInv
    /\ CheckpointInv /\ LeftoverInv /\ LimitsInv /\ OutcomeInv

-----------------------------------------------------------------------------
(* The constants, one by one.                                              *)

\* The limits are numbers, and those of the loop leave room for a round.
LEMMA ConstantTypes ==
    /\ MaxCycles \in Nat /\ MaxVerifyRetries \in Nat /\ MaxSetupRetries \in Nat
    /\ MaxRecoveries \in Nat /\ MaxRecoveries > 0
    /\ MaxTotalRecoveries \in Nat /\ MaxTotalRecoveries > 0
    /\ TokenBudget \in Nat
    /\ MaxRounds \in Nat
    /\ FixRoundLimit \in Nat /\ FixRoundLimit > 0
    /\ DriftLimit \in Nat /\ DriftLimit > 0
    /\ RollbackOnFailure \in BOOLEAN /\ SelfReviewRequired \in BOOLEAN
<1>1. {FixRoundLimit, DriftLimit, MaxRounds} \subseteq Nat \ {0}
  BY PeerLoopAssumption
<1>2. \A n \in Nat \ {0} : n \in Nat /\ n > 0
  OBVIOUS
<1>3. RollbackOnFailure \in BOOLEAN /\ SelfReviewRequired \in BOOLEAN
  BY LoopAssumption, PeerLoopAssumption
<1> QED
  BY <1>1, <1>2, <1>3, LoopAssumption

-----------------------------------------------------------------------------
(* The initial states.                                                     *)

\* A run starts with nothing checked, nothing counted and no flag standing.
LEMMA InitInv == Init => Inv
<1> SUFFICES ASSUME Init PROVE Inv
  OBVIOUS
<1>1. PICK role \in {"opus", "codex"}, decided \in BOOLEAN,
           mustFix \in {{}, {EngineTopic}} :
          ctx = NewContext(role, decided, TRUE, SelfReviewRequired, mustFix)
  BY DEF Init
<1>2. ctx \in Context
  BY <1>1, PeerLoopAssumption, NewContextType DEF Roles, AllTopics
<1>3. /\ ctx.peerEnabled /\ ctx.selfRequired = SelfReviewRequired
      /\ ctx.iteration = 0 /\ ~ctx.verifyPassed /\ ~ctx.gatePassed
      /\ ~ctx.approved /\ ~ctx.selfApproved /\ ~ctx.started
      /\ ctx.decided => ctx.role # "opus"
  BY <1>1 DEF NewContext
<1>4. TypeOK
  <2>1. /\ RoundInit /\ phase = "preflight"
        /\ idleFixes = 0 /\ drifts = 0 /\ lastBag = {}
    BY DEF Init
  <2>2. FlowTypeOK /\ EvidenceTypeOK /\ HistoryTypeOK
    BY <2>1 DEF RoundInit, FlowTypeOK, EvidenceTypeOK, HistoryTypeOK, Actions,
                Phases, Reasons, PassReasons, StopReasons, Checks
  <2>3. ExecTypeOK /\ BudgetTypeOK /\ CheckTypeOK /\ RecoveryTypeOK
    <3>1. /\ 0 \in 0 .. MaxCycles + 1 /\ 0 \in 0 .. TokenBudget + 1
          /\ 0 \in 0 .. MaxVerifyRetries + 1 /\ 0 \in 0 .. MaxSetupRetries + 1
          /\ 0 \in 0 .. MaxTotalRecoveries /\ 0 \in 0 .. MaxRecoveries
      BY ConstantTypes
    <3> QED
      BY <2>1, <3>1
      DEF RoundInit, ExecTypeOK, BudgetTypeOK, CheckTypeOK, RecoveryTypeOK
  <2>4. /\ idleFixes \in 0 .. FixRoundLimit /\ drifts \in 0 .. DriftLimit
        /\ lastBag \subseteq AllTopics
    BY <2>1, ConstantTypes
  <2> QED
    BY <1>2, <1>3, <2>2, <2>3, <2>4 DEF TypeOK, RoundTypeOK
<1>5. ControlInv /\ ContextInv /\ FlagsInv
  BY <1>3, ConstantTypes
  DEF Init, RoundInit, ControlInv, ContextInv, FlagsInv
<1>6. TurnInv /\ CheckpointInv /\ LeftoverInv
  BY <1>3 DEF Init, RoundInit, TurnInv, CheckpointInv, LeftoverInv
<1>7. LimitsInv
  BY ConstantTypes DEF Init, RoundInit, LimitsInv
<1>8. OutcomeInv
  BY DEF Init, RoundInit, OutcomeInv, DeliveredTreeIsChecked,
         NothingDeliveredOverLimits, RoundLimitIsEarned
<1> QED
  BY <1>4, <1>5, <1>6, <1>7, <1>8 DEF Inv

-----------------------------------------------------------------------------
(* Two ways to finish the proof of a step.                                 *)

\* A run that ends for another reason leaves no flag to answer for.
LEMMA StoppedInv ==
    ASSUME TypeOK', ContextInv', phase' = "done", reason' \notin AnsweredReasons
    PROVE  Inv'
BY DEF Inv, ControlInv, FlagsInv, TurnInv, CheckpointInv, LeftoverInv,
       LimitsInv, OutcomeInv, DeliveredTreeIsChecked,
       NothingDeliveredOverLimits, RoundLimitIsEarned, AnsweredReasons

\* A run that goes on has no reason yet.
LEMMA OngoingInv ==
    ASSUME TypeOK', ControlInv', ContextInv', FlagsInv', TurnInv',
           CheckpointInv', LeftoverInv', LimitsInv', phase' # "done"
    PROVE  Inv'
BY DEF Inv, ControlInv, OutcomeInv, DeliveredTreeIsChecked,
       NothingDeliveredOverLimits, RoundLimitIsEarned

\* The context and the reviewer's answers are as they were.
LEMMA SameContextInv ==
    ASSUME ContextInv, ctx' = ctx, turns' = turns
    PROVE  ContextInv'
BY DEF ContextInv

-----------------------------------------------------------------------------
(* Executor rounds, before the executor is called.                         *)

\* Preparing an executor round only counts recoveries or ends the run.
LEMMA PrepareFrame ==
    ASSUME Inv, Prepare, UNCHANGED loopVars
    PROVE  /\ phase = "prepare" /\ phase' \in {"execute", "done"}
           /\ phase' = "execute" => reason' = reason
           /\ reason' \notin AnsweredReasons
           /\ FlowTypeOK'
           /\ UNCHANGED <<ctx, action, budgetVars, checkVars, execVars,
                          evidenceVars, historyVars, loopVars>>
BY DEF Inv, TypeOK, RoundTypeOK, FlowTypeOK, ControlInv, Prepare,
       PhaseGuardBlocks, PrepareNothing, TotalRecoveriesExhausted,
       SignatureExhausted, DeterministicRecovery, UnassistedRetry,
       SynthesizedRecovery, MayRecover, Stop, GoTo, Reasons, PassReasons,
       StopReasons, Phases, AnsweredReasons, preparedVars, budgetVars

\* No count of recoveries passes its limit.
LEMMA PrepareRecoveryType ==
    ASSUME RecoveryTypeOK, Prepare
    PROVE  RecoveryTypeOK'
<1>1. \A n \in 0 .. MaxRecoveries :
          n < MaxRecoveries => n + 1 \in 0 .. MaxRecoveries
  BY ConstantTypes
<1>2. attempts < MaxTotalRecoveries => attempts + 1 \in 0 .. MaxTotalRecoveries
  BY ConstantTypes DEF RecoveryTypeOK
<1>3. \A n \in 0 .. MaxRecoveries : n + 0 = n
  BY ConstantTypes
<1>4. attempts + 0 = attempts
  BY ConstantTypes DEF RecoveryTypeOK
<1>5. 0 \in 0 .. MaxRecoveries
  BY ConstantTypes
<1>6. \A new \in BOOLEAN : SignatureAttempts(new) \in 0 .. MaxRecoveries
  BY <1>5 DEF SignatureAttempts, RecoveryTypeOK
<1>7. CASE DeterministicRecovery
  BY <1>1, <1>2, <1>6, <1>7
  DEF DeterministicRecovery, MayRecover, RecoveryTypeOK
<1>8. CASE SynthesizedRecovery
  BY <1>1, <1>2, <1>3, <1>4, <1>6, <1>8
  DEF SynthesizedRecovery, MayRecover, RecoveryTypeOK
<1>9. CASE \/ PhaseGuardBlocks \/ PrepareNothing \/ TotalRecoveriesExhausted
           \/ SignatureExhausted \/ UnassistedRetry
  BY <1>6, <1>9
  DEF PhaseGuardBlocks, PrepareNothing, TotalRecoveriesExhausted,
      SignatureExhausted, UnassistedRetry, RecoveryTypeOK, recoveryVars
<1> QED
  BY <1>7, <1>8, <1>9 DEF Prepare

\* An executor round that is prepared keeps the invariant.
LEMMA PrepareInv ==
    ASSUME Inv, Prepare, UNCHANGED loopVars
    PROVE  Inv'
<1> USE PrepareFrame DEF budgetVars, checkVars, execVars, evidenceVars,
                         historyVars, loopVars
<1>1. TypeOK'
  BY PrepareRecoveryType
  DEF Inv, TypeOK, RoundTypeOK, BudgetTypeOK, CheckTypeOK, ExecTypeOK,
      EvidenceTypeOK, HistoryTypeOK
<1>2. ContextInv'
  BY SameContextInv DEF Inv
<1>3. CASE phase' = "done"
  BY <1>1, <1>2, <1>3, StoppedInv
<1>4. CASE phase' = "execute"
  BY <1>1, <1>2, <1>4, OngoingInv
  DEF Inv, ControlInv, FlagsInv, TurnInv, CheckpointInv, LeftoverInv,
      LimitsInv
<1> QED
  BY <1>3, <1>4

-----------------------------------------------------------------------------
(* Dispatching and settling.                                               *)

\* A counter that saturates stays in its range.
LEMMA SaturateType ==
    ASSUME NEW b \in Nat, NEW n \in 0 .. b + 1, NEW k \in {0, 1}
    PROVE  Saturate(n + k, b) \in 0 .. b + 1
BY DEF Saturate

\* Dispatching an action keeps the invariant: it is the one the context
\* asks for, and only a fix round may go past max_cycles.
LEMMA DispatchInv ==
    ASSUME Inv, DispatchNext, UNCHANGED loopVars
    PROVE  Inv'
<1> DEFINE a == NextAction(ctx)
<1>1. /\ phase = "dispatch" /\ action' = a
      /\ cycle' = Saturate(cycle + CycleCost(a), MaxCycles)
      /\ UNCHANGED <<ctx, tokens, checkVars, recoveryVars, execVars,
                     evidenceVars, historyVars, loopVars>>
  BY DEF DispatchNext, Dispatch
<1>2. \/ /\ phase' = "done" /\ reason' = "MAX_CYCLES_REACHED"
         /\ stop' = "MAX_CYCLES" /\ recoveryRequested' = FALSE
      \/ /\ a \in ExecutorActions \/ ~(cycle' > MaxCycles)
         /\ phase' = IF a \in ExecutorActions THEN "prepare" ELSE "round"
         /\ UNCHANGED <<reason, stop, recoveryRequested>>
  BY DEF DispatchNext, Dispatch, RecoveryPastMaxCycles, FixActions,
         ExecutorActions
<1>3. a \in Actions \ {"finish"}
  BY NextActionType
<1>4. cycle' \in 0 .. MaxCycles + 1
  <2>1. CycleCost(a) \in {0, 1}
    BY DEF CycleCost
  <2> QED
    BY <1>1, <2>1, SaturateType, ConstantTypes
    DEF Inv, TypeOK, RoundTypeOK, BudgetTypeOK
<1> HIDE DEF a
<1> USE DEF checkVars, recoveryVars, execVars, evidenceVars, historyVars,
            loopVars
<1>5. TypeOK'
  <2>1. FlowTypeOK'
    BY <1>1, <1>2, <1>3
    DEF Inv, TypeOK, RoundTypeOK, FlowTypeOK, Phases, Reasons, StopReasons
  <2> QED
    BY <1>1, <1>4, <2>1
    DEF Inv, TypeOK, RoundTypeOK, BudgetTypeOK, CheckTypeOK, RecoveryTypeOK,
        ExecTypeOK, EvidenceTypeOK, HistoryTypeOK
<1>6. ContextInv'
  BY <1>1, SameContextInv DEF Inv
<1>7. CASE phase' = "done"
  BY <1>2, <1>5, <1>6, <1>7, StoppedInv DEF AnsweredReasons
<1>8. CASE phase' # "done"
  <2>1. ControlInv'
    BY <1>1, <1>2, <1>8 DEF a, Inv, ControlInv
  <2>2. FlagsInv' /\ TurnInv' /\ CheckpointInv' /\ LeftoverInv'
    BY <1>1, <1>8
    DEF Inv, FlagsInv, TurnInv, CheckpointInv, LeftoverInv
  <2>3. LimitsInv'
    <3>1. phase' = "round" => cycle' <= MaxCycles
      BY <1>2, <1>4, <1>8, ConstantTypes
    <3> QED
      BY <1>1, <3>1 DEF Inv, LimitsInv
  <2> QED
    BY <1>5, <1>6, <1>8, <2>1, <2>2, <2>3, OngoingInv
<1> QED
  BY <1>7, <1>8

\* A round that settles keeps the invariant: its counters stop the run
\* before they pass their limits, and the review limit counts answers.
LEMMA SettleInv ==
    ASSUME Inv, Settle
    PROVE  Inv'
<1> USE DEF budgetVars, checkVars, recoveryVars, execVars, evidenceVars,
            historyVars, loopVars
<1>1. /\ phase = "settle" /\ ~OverBudget
      /\ UNCHANGED <<ctx, action, budgetVars, checkVars, recoveryVars,
                     execVars, evidenceVars, historyVars>>
  BY DEF Settle, SettleFixRound, SettlePeerReview, SettleOther, AfterRound,
         Stop, GoTo
<1>2. /\ idleFixes \in Nat /\ idleFixes < FixRoundLimit
      /\ drifts \in Nat /\ drifts < DriftLimit
  BY <1>1, ConstantTypes DEF Inv, ControlInv, TypeOK
<1>3. /\ idleFixes' \in 0 .. FixRoundLimit /\ drifts' \in 0 .. DriftLimit
      /\ phase' # "done" => idleFixes' < FixRoundLimit /\ drifts' < DriftLimit
  <2>1. /\ 0 \in 0 .. FixRoundLimit /\ 0 < FixRoundLimit
        /\ idleFixes + 1 \in 0 .. FixRoundLimit
        /\ idleFixes \in 0 .. FixRoundLimit
        /\ ~(idleFixes + 1 >= FixRoundLimit) => idleFixes + 1 < FixRoundLimit
    BY <1>2, ConstantTypes
  <2>2. /\ 0 \in 0 .. DriftLimit /\ 0 < DriftLimit
        /\ drifts + 1 \in 0 .. DriftLimit
        /\ drifts \in 0 .. DriftLimit
        /\ ~(drifts + 1 >= DriftLimit) => drifts + 1 < DriftLimit
    BY <1>2, ConstantTypes
  <2>3. CASE SettleFixRound
    BY <1>2, <2>1, <2>2, <2>3 DEF SettleFixRound, Stop, GoTo
  <2>4. CASE SettlePeerReview
    BY <1>2, <2>1, <2>2, <2>4 DEF SettlePeerReview, Stop, GoTo
  <2>5. CASE SettleOther
    BY <1>2, <2>1, <2>2, <2>5 DEF SettleOther
  <2> QED
    BY <2>3, <2>4, <2>5 DEF Settle
<1>4. /\ phase' \in {"done", "dispatch"} /\ recoveryRequested' \in BOOLEAN
      /\ phase' = "dispatch" => reason' = reason
      /\ reason' \in Reasons /\ stop' \in StopReasons
      /\ reason' \in AnsweredReasons /\ phase' = "done" =>
            /\ reason' = "COLLABORATION_ROUND_LIMIT"
            /\ ReviewLimitReached(ctx, action, MaxRounds)
  <2>1. /\ reason = "none" /\ stop \in StopReasons /\ phase \notin {"done"}
        /\ recoveryRequested \in BOOLEAN
    BY <1>1 DEF Inv, ControlInv, TypeOK, RoundTypeOK, FlowTypeOK
  <2>2. CASE SettleFixRound
    BY <2>1, <2>2 DEF SettleFixRound, Stop, GoTo, Reasons, StopReasons,
                      AnsweredReasons
  <2>3. CASE SettlePeerReview
    BY <2>1, <2>3 DEF SettlePeerReview, Stop, GoTo, Reasons, StopReasons,
                      AnsweredReasons
  <2>4. CASE SettleOther
    BY <2>1, <2>4 DEF SettleOther, GoTo, Reasons
  <2> QED
    BY <2>2, <2>3, <2>4 DEF Settle
<1>5. lastBag' \subseteq AllTopics
  BY DEF Inv, TypeOK, RoundTypeOK, Context, Settle, SettleFixRound,
         SettlePeerReview, SettleOther
<1>6. TypeOK'
  BY <1>1, <1>3, <1>4, <1>5
  DEF Inv, TypeOK, RoundTypeOK, FlowTypeOK, BudgetTypeOK, CheckTypeOK,
      RecoveryTypeOK, ExecTypeOK, EvidenceTypeOK, HistoryTypeOK, Phases
<1>7. ContextInv'
  BY <1>1, SameContextInv DEF Inv
<1>8. CASE phase' = "done" /\ reason' \notin AnsweredReasons
  BY <1>6, <1>7, <1>8, StoppedInv
<1>9. CASE phase' = "done" /\ reason' \in AnsweredReasons
  <2>1. RoundLimitIsEarned'
    BY <1>1, <1>4, <1>9
    DEF Inv, ContextInv, ReviewLimitReached, RoundLimitIsEarned
  <2> QED
    BY <1>4, <1>6, <1>7, <1>9, <2>1
    DEF Inv, ControlInv, FlagsInv, TurnInv, CheckpointInv, LeftoverInv,
        LimitsInv, OutcomeInv, DeliveredTreeIsChecked,
        NothingDeliveredOverLimits
<1>10. CASE phase' = "dispatch"
  <2>1. ControlInv' /\ FlagsInv' /\ TurnInv' /\ CheckpointInv' /\ LeftoverInv'
    BY <1>1, <1>3, <1>4, <1>10
    DEF Inv, ControlInv, FlagsInv, TurnInv, CheckpointInv, LeftoverInv
  <2>2. LimitsInv'
    BY <1>1, <1>10, ConstantTypes
    DEF Inv, TypeOK, RoundTypeOK, BudgetTypeOK, LimitsInv, OverBudget
  <2> QED
    BY <1>6, <1>7, <1>10, <2>1, <2>2, OngoingInv
<1> QED
  BY <1>4, <1>8, <1>9, <1>10

\* A run that is stopped by its token budget has delivered nothing.
LEMMA TokenBudgetInv ==
    ASSUME Inv, TokenBudgetExceeded, UNCHANGED loopVars
    PROVE  Inv'
<1> USE DEF budgetVars, checkVars, recoveryVars, execVars, evidenceVars,
            historyVars, loopVars
<1>1. /\ phase' = "done" /\ reason' = "TOKEN_BUDGET_EXCEEDED"
      /\ stop' = "TOKEN_BUDGET" /\ recoveryRequested' = FALSE
      /\ UNCHANGED <<ctx, action, budgetVars, checkVars, recoveryVars,
                     execVars, evidenceVars, historyVars, loopVars>>
  BY DEF TokenBudgetExceeded, Stop
<1>2. TypeOK'
  <2>1. FlowTypeOK'
    BY <1>1 DEF Inv, TypeOK, RoundTypeOK, FlowTypeOK, Phases, Reasons,
                StopReasons
  <2> QED
    BY <1>1, <2>1
    DEF Inv, TypeOK, RoundTypeOK, BudgetTypeOK, CheckTypeOK, RecoveryTypeOK,
        ExecTypeOK, EvidenceTypeOK, HistoryTypeOK
<1>3. ContextInv'
  BY <1>1, SameContextInv DEF Inv
<1> QED
  BY <1>1, <1>2, <1>3, StoppedInv DEF AnsweredReasons

-----------------------------------------------------------------------------
(* The executor's answer.                                                  *)

\* Calling the executor changes one field of the context.
LEMMA StartedFields ==
    ASSUME ctx \in Context
    PROVE  /\ Started \in Context /\ Started.started
           /\ Started.peerEnabled = ctx.peerEnabled
           /\ Started.selfRequired = ctx.selfRequired
           /\ Started.verifyPassed = ctx.verifyPassed
           /\ Started.gatePassed = ctx.gatePassed
           /\ Started.selfCompleted = ctx.selfCompleted
           /\ Started.selfApproved = ctx.selfApproved
           /\ Started.approved = ctx.approved
           /\ Started.mustFix = ctx.mustFix
           /\ Started.iteration = ctx.iteration
BY DEF Started, Context

\* What every answer does.
LEMMA ExecuteFrame ==
    ASSUME Inv, Execute
    PROVE  /\ phase = "execute" /\ phase' \in {"settle", "done"}
           /\ action \in ExecutorActions /\ action = NextAction(ctx)
           /\ checkpoint' = (checkpoint \/ RollbackOnFailure)
           /\ reason = "none"
           /\ IF phase' = "settle" THEN reason' = reason
                                   ELSE reason' \notin AnsweredReasons
           /\ leftover' = leftover \/ leftover' = "none"
           /\ FlowTypeOK'
           /\ UNCHANGED <<action, cycle, gateCheck, blockedRounds, attempts,
                          sigAttempts, noWriteTried, evidenceVars, turns>>
<1>1. /\ phase = "execute" /\ reason = "none"
      /\ action \in ExecutorActions /\ action = NextAction(ctx)
      /\ action \in Actions /\ stop \in StopReasons
  BY DEF Inv, TypeOK, RoundTypeOK, FlowTypeOK, ControlInv, Execute,
         ExecutorSucceeds, NoWriteResumeAccepted, PolicyBlocks,
         ExecutorStalls, BackendBlocks, SetupErrorRecovered,
         ImplementationFails, ExecutorCalled
<1> USE <1>1 DEF ExecutorCalled, PartialWrites, FlowTypeOK, Phases, Reasons,
                 StopReasons, AnsweredReasons, execVars
<1>2. CASE ExecutorSucceeds
  BY <1>2 DEF ExecutorSucceeds, RecordSuccess, GoTo
<1>3. CASE NoWriteResumeAccepted
  BY <1>3 DEF NoWriteResumeAccepted, RecordSuccess, GoTo
<1>4. CASE PolicyBlocks
  BY <1>4 DEF PolicyBlocks, Stop
<1>5. CASE ExecutorStalls
  BY <1>5 DEF ExecutorStalls, GoTo
<1>6. CASE BackendBlocks
  BY <1>6 DEF BackendBlocks, Stop
<1>7. CASE SetupErrorRecovered
  BY <1>7 DEF SetupErrorRecovered, GoTo
<1>8. CASE ImplementationFails
  BY <1>8 DEF ImplementationFails, Stop
<1> QED
  BY <1>2, <1>3, <1>4, <1>5, <1>6, <1>7, <1>8 DEF Execute

\* The three ways an answer leaves the context.
LEMMA ExecuteContext ==
    ASSUME Execute
    PROVE  \/ /\ ctx' = ExecutorDone(Started, action)
              /\ phase' = "settle" /\ judged' = FALSE
              /\ leftover' = "none"
           \/ /\ ctx' = RequestRecovery(Started)
              /\ phase' = "settle" /\ judged' = judged
           \/ ctx' = Started /\ phase' = "done"
BY DEF Execute, ExecutorSucceeds, NoWriteResumeAccepted, RecordSuccess,
       PolicyBlocks, ExecutorStalls, BackendBlocks, SetupErrorRecovered,
       ImplementationFails, PartialWrites, Stop, GoTo

\* The counters and results of an executor round keep their types.
LEMMA ExecuteType ==
    ASSUME Inv, Execute
    PROVE  /\ BudgetTypeOK' /\ CheckTypeOK' /\ RecoveryTypeOK' /\ ExecTypeOK'
           /\ EvidenceTypeOK' /\ HistoryTypeOK'
<1> USE DEF evidenceVars
<1>1. tokens' \in 0 .. TokenBudget + 1
  <2>1. /\ tokens \in 0 .. TokenBudget + 1
        /\ 0 \in 0 .. TokenBudget + 1
        /\ \A used \in {0, 1} :
              Saturate(tokens + used, TokenBudget) \in 0 .. TokenBudget + 1
    <3>1. tokens \in 0 .. TokenBudget + 1
      BY DEF Inv, TypeOK, RoundTypeOK, BudgetTypeOK
    <3>2. 0 \in 0 .. TokenBudget + 1
      BY ConstantTypes
    <3>3. TokenBudget \in Nat
      BY ConstantTypes
    <3> QED
      BY <3>1, <3>2, <3>3, SaturateType
  <2> QED
    BY <2>1 DEF Execute, ExecutorSucceeds, NoWriteResumeAccepted,
                RecordSuccess, PolicyBlocks, ExecutorStalls, BackendBlocks,
                SetupErrorRecovered, ImplementationFails
<1>2. /\ verifyCheck' \in {verifyCheck, "passed"}
      /\ card' \in {card, FALSE}
      /\ fresh' \in {fresh, fresh \cup {"verify"}, {}}
      /\ judged' \in {judged, FALSE}
  BY DEF Execute, ExecutorSucceeds, NoWriteResumeAccepted, RecordSuccess,
         PolicyBlocks, ExecutorStalls, BackendBlocks, SetupErrorRecovered,
         ImplementationFails, PartialWrites, execVars
<1>3. BudgetTypeOK'
  BY <1>1, ExecuteFrame DEF Inv, TypeOK, RoundTypeOK, BudgetTypeOK
<1>4. CheckTypeOK'
  BY <1>2, ExecuteFrame, ConstantTypes
  DEF Inv, TypeOK, RoundTypeOK, CheckTypeOK
<1>5. RecoveryTypeOK'
  BY <1>2, ExecuteFrame DEF Inv, TypeOK, RoundTypeOK, RecoveryTypeOK
<1>6. ExecTypeOK'
  <2>1. setupTries' \in 0 .. MaxSetupRetries + 1
    <3>1. /\ setupTries \in 0 .. MaxSetupRetries + 1
          /\ MaxSetupRetries + 1 \in 0 .. MaxSetupRetries + 1
          /\ setupTries < MaxSetupRetries =>
                setupTries + 1 \in 0 .. MaxSetupRetries + 1
      BY ConstantTypes DEF Inv, TypeOK, RoundTypeOK, ExecTypeOK
    <3> QED
      BY <3>1
      DEF Execute, ExecutorSucceeds, NoWriteResumeAccepted, RecordSuccess,
          PolicyBlocks, ExecutorStalls, BackendBlocks, SetupErrorRecovered,
          ImplementationFails, execVars
  <2>2. /\ stalled' \in BOOLEAN
        /\ lastExec' \in {lastExec, "done_write", "done_idle",
                          "needs_recovery", "error"}
    BY DEF Inv, TypeOK, RoundTypeOK, ExecTypeOK, Execute, ExecutorSucceeds,
           NoWriteResumeAccepted, RecordSuccess, PolicyBlocks, ExecutorStalls,
           BackendBlocks, SetupErrorRecovered, ImplementationFails, execVars
  <2> QED
    BY <2>1, <2>2 DEF Inv, TypeOK, RoundTypeOK, ExecTypeOK
<1>7. EvidenceTypeOK' /\ HistoryTypeOK'
  BY <1>2, ExecuteFrame
  DEF Inv, TypeOK, RoundTypeOK, EvidenceTypeOK, HistoryTypeOK, Checks
<1> QED
  BY <1>3, <1>4, <1>5, <1>6, <1>7

\* An executor round keeps the invariant: a success withdraws every flag
\* that might speak of an older tree, and a failure that is recovered opens
\* an item.
LEMMA ExecuteInv ==
    ASSUME Inv, Execute, UNCHANGED loopVars
    PROVE  Inv'
<1> USE DEF loopVars
<1>1. /\ ctx \in Context /\ ctx.peerEnabled
      /\ action = NextAction(ctx) /\ action \in ExecutorActions
      /\ phase = "execute"
  BY ExecuteFrame DEF Inv, TypeOK, RoundTypeOK
<1>2. /\ ctx' \in Context /\ ctx'.peerEnabled
      /\ ctx'.selfRequired = ctx.selfRequired
      /\ ctx'.iteration = ctx.iteration
      /\ ctx'.gatePassed => ctx'.verifyPassed
      /\ ctx'.approved /\ ctx'.selfCompleted => ctx'.selfApproved
  <2>1. /\ ctx.gatePassed => ctx.verifyPassed
        /\ ctx.approved /\ ctx.selfCompleted => ctx.selfApproved
    BY DEF Inv, ContextInv
  <2>2. CASE ctx' = ExecutorDone(Started, action)
    BY <1>1, <2>2, StartedFields, ExecutorType, ExecutorDoneFields
    DEF SameTask
  <2>3. CASE ctx' = RequestRecovery(Started)
    BY <1>1, <2>1, <2>3, StartedFields, ExecutorType, RequestRecoveryFields
    DEF SameTask
  <2>4. CASE ctx' = Started
    BY <1>1, <2>1, <2>4, StartedFields
  <2> QED
    BY <2>2, <2>3, <2>4, ExecuteContext
<1>3. TypeOK'
  BY <1>2, ExecuteFrame, ExecuteType DEF Inv, TypeOK, RoundTypeOK
<1>4. ContextInv'
  BY <1>2, ExecuteFrame DEF Inv, ContextInv
<1>5. CASE phase' = "done"
  BY <1>3, <1>4, <1>5, ExecuteFrame, StoppedInv
<1>6. CASE phase' = "settle"
  <2>1. ControlInv'
    BY <1>1, <1>6, ExecuteFrame DEF Inv, ControlInv
  <2>2. LeftoverInv'
    BY <1>1, ExecuteFrame DEF Inv, LeftoverInv
  <2>3. CheckpointInv'
    BY ExecuteFrame DEF CheckpointInv
  <2>4. LimitsInv'
    BY <1>1, <1>6, ExecuteFrame DEF LimitsInv
  <2>5. CASE ctx' = ExecutorDone(Started, action) /\ judged' = FALSE
    <3>1. /\ ~ctx'.verifyPassed /\ ~ctx'.gatePassed /\ ~ctx'.selfApproved
          /\ ctx'.started
      BY <1>1, <2>5, StartedFields, ExecutorDoneFields DEF SameTask
    <3>2. ~ctx'.approved
      <4>1. CASE action \in FixActions
        BY <1>1, <2>5, <4>1, StartedFields, ExecutorDoneFields
      <4>2. CASE action \notin FixActions
        <5>1. ~ctx.approved
          BY <1>1, <4>2, NothingApprovedIsImplemented
          DEF Inv, ContextInv, TurnInv, ExecutorActions, FixActions
        <5> QED
          BY <1>1, <2>5, <4>2, <5>1, StartedFields, ExecutorDoneFields
      <4> QED
        BY <4>1, <4>2
    <3>3. FlagsInv' /\ TurnInv'
      BY <2>5, <3>1, <3>2 DEF FlagsInv, TurnInv
    <3> QED
      BY <1>3, <1>4, <1>6, <2>1, <2>2, <2>3, <2>4, <3>3, OngoingInv
  <2>6. CASE ctx' = RequestRecovery(Started)
    <3>1. /\ ctx'.mustFix = {EngineTopic} /\ ctx'.role # "opus"
          /\ ~ctx'.approved
      BY <1>1, <2>6, StartedFields, RequestRecoveryFields
    <3>2. FlagsInv' /\ TurnInv'
      BY <3>1 DEF FlagsInv, TurnInv
    <3> QED
      BY <1>3, <1>4, <1>6, <2>1, <2>2, <2>3, <2>4, <3>2, OngoingInv
  <2> QED
    BY <1>6, <2>5, <2>6, ExecuteContext
<1> QED
  BY <1>5, <1>6, ExecuteFrame

-----------------------------------------------------------------------------
(* The other rounds: what they share.                                      *)

\* What is known as a round starts.
LEMMA RoundStart ==
    ASSUME Inv, NEW a, InRound(a)
    PROVE  /\ phase = "round" /\ action = a /\ NextAction(ctx) = a
           /\ reason = "none" /\ stop \in StopReasons
           /\ ctx \in Context /\ ctx.peerEnabled
           /\ a # "fix_round" => ctx.mustFix = {}
           /\ UNCHANGED <<budgetVars, recoveryVars, execVars>>
<1>1. /\ phase = "round" /\ action = a /\ NextAction(ctx) = a
      /\ reason = "none" /\ stop \in StopReasons
      /\ ctx \in Context /\ ctx.peerEnabled
      /\ UNCHANGED <<budgetVars, recoveryVars, execVars>>
  BY DEF InRound, Inv, ControlInv, TypeOK, RoundTypeOK, FlowTypeOK
<1> QED
  BY <1>1, FixFirst

\* A round keeps the types of what it does not touch.
LEMMA RoundType ==
    ASSUME Inv, UNCHANGED <<budgetVars, recoveryVars, execVars, loopVars>>,
           ctx' \in Context, ctx'.peerEnabled,
           FlowTypeOK', CheckTypeOK', EvidenceTypeOK', HistoryTypeOK'
    PROVE  TypeOK'
BY DEF Inv, TypeOK, RoundTypeOK, BudgetTypeOK, RecoveryTypeOK, ExecTypeOK,
       budgetVars, recoveryVars, execVars, loopVars

\* A round that goes on leaves the control and the limits in order.
LEMMA RoundGoesOn ==
    ASSUME Inv, phase = "round", UNCHANGED <<budgetVars, loopVars>>,
           NEW requested \in BOOLEAN, GoTo("settle", requested)
    PROVE  /\ ControlInv' /\ LimitsInv' /\ FlowTypeOK'
           /\ phase' = "settle" /\ phase' # "done"
<1>1. ControlInv' /\ LimitsInv'
  BY DEF Inv, ControlInv, LimitsInv, GoTo, budgetVars, loopVars
<1>2. FlowTypeOK'
  BY DEF Inv, TypeOK, RoundTypeOK, FlowTypeOK, GoTo, Phases
<1> QED
  BY <1>1, <1>2 DEF GoTo

\* A round that ends the run names a reason.
LEMMA RoundStops ==
    ASSUME Inv, NEW r \in Reasons, NEW s \in StopReasons, Stop(r, s)
    PROVE  FlowTypeOK' /\ phase' = "done" /\ reason' = r
BY DEF Inv, TypeOK, RoundTypeOK, FlowTypeOK, Stop, Phases

\* A round that only ends the run keeps the invariant.
LEMMA RoundOnlyStops ==
    ASSUME Inv, UNCHANGED <<budgetVars, recoveryVars, execVars, loopVars>>,
           UNCHANGED <<checkVars, evidenceVars, turns>>,
           ctx' \in Context, ctx'.peerEnabled, ContextInv', HistoryTypeOK',
           NEW r \in Reasons, NEW s \in StopReasons, Stop(r, s),
           r \notin AnsweredReasons
    PROVE  Inv'
<1>1. FlowTypeOK' /\ phase' = "done" /\ reason' = r
  BY RoundStops
<1>2. CheckTypeOK' /\ EvidenceTypeOK'
  BY DEF Inv, TypeOK, RoundTypeOK, CheckTypeOK, EvidenceTypeOK, checkVars,
         evidenceVars
<1>3. TypeOK'
  BY <1>1, <1>2, RoundType
<1> QED
  BY <1>1, <1>3, StoppedInv

\* A round that ends the run and leaves all else alone.
LEMMA RoundGivesUp ==
    ASSUME Inv, UNCHANGED <<budgetVars, recoveryVars, execVars, loopVars>>,
           UNCHANGED <<ctx, checkVars, evidenceVars, historyVars>>,
           NEW r \in Reasons, NEW s \in StopReasons, Stop(r, s),
           r \notin AnsweredReasons
    PROVE  Inv'
<1>1. ctx' \in Context /\ ctx'.peerEnabled /\ HistoryTypeOK'
  BY DEF Inv, TypeOK, RoundTypeOK, HistoryTypeOK, historyVars
<1>2. ContextInv'
  BY SameContextInv DEF Inv, historyVars
<1> QED
  BY <1>1, <1>2, RoundOnlyStops DEF historyVars

-----------------------------------------------------------------------------
(* Design and verify.                                                      *)

\* A design round decides and changes nothing else.
LEMMA DesignInv ==
    ASSUME Inv, DesignRound, UNCHANGED loopVars
    PROVE  Inv'
<1> USE DEF checkVars, evidenceVars, historyVars
<1>1. InRound("design") /\ ctx' = DesignDone(ctx) /\ GoTo("settle", FALSE)
  BY DEF DesignRound
<1>2. /\ phase = "round" /\ ctx \in Context /\ ctx.peerEnabled
      /\ UNCHANGED <<budgetVars, recoveryVars, execVars>>
  BY <1>1, RoundStart
<1>3. UNCHANGED <<checkVars, evidenceVars, historyVars>>
  BY DEF DesignRound
<1>4. ControlInv' /\ LimitsInv' /\ FlowTypeOK' /\ phase' # "done"
  BY <1>1, <1>2, RoundGoesOn
<1>5. ctx' \in Context /\ ctx'.peerEnabled
  BY <1>1, <1>2, ExecutorType, DesignDoneFields DEF SameTask
<1>6. TypeOK'
  BY <1>2, <1>3, <1>4, <1>5, RoundType
  DEF Inv, TypeOK, RoundTypeOK, CheckTypeOK, EvidenceTypeOK, HistoryTypeOK
<1>7. ContextInv'
  BY <1>1, <1>2, <1>3, DesignDoneFields DEF Inv, ContextInv, SameTask
<1>8. FlagsInv' /\ TurnInv' /\ CheckpointInv' /\ LeftoverInv'
  BY <1>1, <1>2, <1>3, DesignDoneFields
  DEF Inv, FlagsInv, TurnInv, CheckpointInv, LeftoverInv, SameTask
<1> QED
  BY <1>4, <1>6, <1>7, <1>8, OngoingInv

\* A verify round keeps the invariant: a pass is earned on this tree, a
\* failure opens an item.
LEMMA VerifyInv ==
    ASSUME Inv, VerifyRound, UNCHANGED loopVars
    PROVE  Inv'
<1>1. InRound("verify")
  BY DEF VerifyRound, VerifyScopeViolation, VerifyPasses,
         VerifyRetryFromCheckpoint, VerifyRetryInPlace, VerifyGivesUp,
         VerifyFails
<1>2. /\ phase = "round" /\ ctx \in Context /\ ctx.peerEnabled
      /\ ctx.mustFix = {} /\ NextAction(ctx) = "verify"
      /\ UNCHANGED <<budgetVars, recoveryVars, execVars>>
  BY <1>1, RoundStart
<1>3. CASE VerifyScopeViolation
  BY <1>2, <1>3, RoundGivesUp
  DEF VerifyScopeViolation, Reasons, StopReasons, AnsweredReasons
<1>4. CASE VerifyPasses
  <2> USE DEF evidenceVars
  <2>1. /\ ctx' = RecordVerify(ctx, TRUE) /\ GoTo("settle", FALSE)
        /\ verifyCheck' = "passed" /\ fresh' = fresh \cup {"verify"}
        /\ UNCHANGED <<gateCheck, blockedRounds, checkpoint, evidenceVars,
                       judged, turns, leftover>>
    BY <1>4 DEF VerifyPasses
  <2>2. ControlInv' /\ LimitsInv' /\ FlowTypeOK' /\ phase' # "done"
    BY <1>2, <2>1, RoundGoesOn
  <2>3. ctx' \in Context /\ ctx'.peerEnabled
    BY <1>2, <2>1, RecordType, RecordVerifyFields DEF SameTask
  <2>4. CheckTypeOK' /\ EvidenceTypeOK' /\ HistoryTypeOK'
    BY <2>1 DEF Inv, TypeOK, RoundTypeOK, CheckTypeOK, EvidenceTypeOK,
                HistoryTypeOK, Checks
  <2>5. TypeOK'
    BY <1>2, <2>2, <2>3, <2>4, RoundType
  <2>6. ContextInv'
    BY <1>2, <2>1, RecordVerifyFields DEF Inv, ContextInv, SameTask
  <2>7. FlagsInv'
    BY <1>2, <2>1, RecordVerifyFields DEF Inv, FlagsInv
  <2>8. ctx.started /\ ~ctx.gatePassed
    BY <1>2, VerifyAfterStart DEF Inv, ContextInv
  <2>9. TurnInv' /\ CheckpointInv' /\ LeftoverInv'
    BY <1>2, <2>1, <2>8, RecordVerifyFields
    DEF Inv, TurnInv, CheckpointInv, LeftoverInv, SameTask
  <2> QED
    BY <2>2, <2>5, <2>6, <2>7, <2>9, OngoingInv
<1>5. ASSUME VerifyFails
      PROVE  /\ verifyCheck' = "failed"
             /\ blockedRounds' \in 0 .. MaxVerifyRetries + 1
             /\ EvidenceTypeOK'
             /\ UNCHANGED <<gateCheck, evidenceVars, judged, turns>>
  <2>1. blockedRounds' \in 0 .. MaxVerifyRetries + 1
    BY <1>5, SaturateType, ConstantTypes
    DEF VerifyFails, Inv, TypeOK, RoundTypeOK, CheckTypeOK
  <2> QED
    BY <1>5, <2>1 DEF VerifyFails, Inv, TypeOK, RoundTypeOK, EvidenceTypeOK,
                      evidenceVars
<1>6. CASE VerifyRetryFromCheckpoint \/ VerifyRetryInPlace
  <2>1. /\ VerifyFails /\ ctx' = ReopenAfterVerify(ctx)
        /\ GoTo("settle", FALSE)
        /\ leftover' \in {"none", "verify"} /\ checkpoint' \in {FALSE, checkpoint}
        /\ fresh' \in {{}, fresh \ {"verify"}}
    BY <1>6 DEF VerifyRetryFromCheckpoint, VerifyRetryInPlace
  <2>2. ControlInv' /\ LimitsInv' /\ FlowTypeOK' /\ phase' # "done"
    BY <1>2, <2>1, RoundGoesOn
  <2>3. /\ ctx' \in Context /\ SameTask(ctx, ctx')
        /\ ~ctx'.gatePassed /\ ~ctx'.approved
        /\ ctx'.iteration = ctx.iteration /\ ctx'.role # "opus"
        /\ ctx'.mustFix = {EngineTopic}
    BY <1>2, <2>1, ExecutorType, ReopenFields
  <2>4. CheckTypeOK' /\ EvidenceTypeOK'
    BY <1>5, <2>1 DEF Inv, TypeOK, RoundTypeOK, CheckTypeOK
  <2>5. HistoryTypeOK'
    BY <1>5, <2>1 DEF Inv, TypeOK, RoundTypeOK, HistoryTypeOK
  <2>6. TypeOK'
    BY <1>2, <2>2, <2>3, <2>4, <2>5, RoundType DEF SameTask
  <2>7. ContextInv'
    BY <1>5, <2>1, <2>3 DEF Inv, ContextInv, SameTask
  <2>8. FlagsInv' /\ TurnInv' /\ CheckpointInv'
    BY <2>3 DEF FlagsInv, TurnInv, CheckpointInv
  <2>9. LeftoverInv'
    BY <2>1 DEF LeftoverInv
  <2> QED
    BY <2>2, <2>6, <2>7, <2>8, <2>9, OngoingInv
<1>7. CASE VerifyGivesUp
  <2>1. /\ VerifyFails /\ Stop("VERIFY_BLOCKED", "HARD_ERROR")
        /\ fresh' = fresh \ {"verify"} /\ leftover' = "verify"
        /\ UNCHANGED <<ctx, checkpoint>>
    BY <1>7 DEF VerifyGivesUp
  <2>2. CheckTypeOK' /\ EvidenceTypeOK'
    BY <1>5, <2>1 DEF Inv, TypeOK, RoundTypeOK, CheckTypeOK
  <2>3. HistoryTypeOK'
    BY <1>5, <2>1 DEF Inv, TypeOK, RoundTypeOK, HistoryTypeOK
  <2>4. /\ FlowTypeOK' /\ phase' = "done"
        /\ reason' \notin AnsweredReasons
    BY <2>1, RoundStops DEF Reasons, StopReasons, AnsweredReasons
  <2>5. TypeOK'
    BY <1>2, <2>1, <2>2, <2>3, <2>4, RoundType
  <2>6. ContextInv'
    BY <1>5, <2>1, SameContextInv DEF Inv
  <2> QED
    BY <2>4, <2>5, <2>6, StoppedInv
<1> QED
  BY <1>3, <1>4, <1>6, <1>7 DEF VerifyRound

-----------------------------------------------------------------------------
(* Rules gate.                                                             *)

\* A gate round keeps the invariant: a pass hands the turn to the reviewer
\* for a result it has not judged; a refused tree is only left in place when
\* rollback is off.
LEMMA GateInv ==
    ASSUME Inv, GateRound, UNCHANGED loopVars
    PROVE  Inv'
<1>1. InRound("rules_gate")
  BY DEF GateRound, GatePasses, GateRetryFromCheckpoint, GateRollbackFails,
         GateRetryInPlace, GateGivesUp, GateBlocks
<1>2. /\ phase = "round" /\ ctx \in Context /\ ctx.peerEnabled
      /\ ctx.mustFix = {} /\ NextAction(ctx) = "rules_gate"
      /\ UNCHANGED <<budgetVars, recoveryVars, execVars>>
  BY <1>1, RoundStart
<1>3. ctx.started /\ ctx.verifyPassed /\ ~ctx.gatePassed
  BY <1>2, GateAfterVerify
<1>4. RollbackOnFailure => checkpoint
  BY <1>2, <1>3 DEF Inv, CheckpointInv
<1>5. CASE GatePasses
  <2> USE DEF evidenceVars
  <2>1. /\ ctx' = RecordGate(ctx, TRUE) /\ GoTo("settle", FALSE)
        /\ gateCheck' = "passed" /\ fresh' = fresh \cup {"gate"}
        /\ UNCHANGED <<verifyCheck, blockedRounds, checkpoint, evidenceVars,
                       judged, turns, leftover>>
    BY <1>5 DEF GatePasses
  <2>2. ControlInv' /\ LimitsInv' /\ FlowTypeOK' /\ phase' # "done"
    BY <1>2, <2>1, RoundGoesOn
  <2>3. ctx' \in Context /\ ctx'.peerEnabled
    BY <1>2, <2>1, RecordType, RecordGateFields DEF SameTask
  <2>4. CheckTypeOK' /\ EvidenceTypeOK' /\ HistoryTypeOK'
    BY <2>1 DEF Inv, TypeOK, RoundTypeOK, CheckTypeOK, EvidenceTypeOK,
                HistoryTypeOK, Checks
  <2>5. TypeOK'
    BY <1>2, <2>2, <2>3, <2>4, RoundType
  <2>6. ContextInv'
    BY <1>2, <1>3, <2>1, RecordGateFields DEF Inv, ContextInv, SameTask
  <2>7. FlagsInv'
    BY <1>2, <2>1, RecordGateFields DEF Inv, FlagsInv
  <2>8. TurnInv'
    <3>1. ~judged
      BY <1>2, <1>3 DEF Inv, TurnInv
    <3> QED
      BY <1>2, <1>3, <2>1, <3>1, RecordGateFields
      DEF Inv, TurnInv, SameTask
  <2>9. CheckpointInv' /\ LeftoverInv'
    BY <1>2, <1>4, <2>1 DEF Inv, CheckpointInv, LeftoverInv
  <2> QED
    BY <2>2, <2>5, <2>6, <2>7, <2>8, <2>9, OngoingInv
<1>6. ASSUME GateBlocks
      PROVE  /\ gateCheck' = "failed"
             /\ blockedRounds' \in 0 .. MaxVerifyRetries + 1
             /\ EvidenceTypeOK'
             /\ UNCHANGED <<verifyCheck, evidenceVars, judged, turns>>
  <2>1. blockedRounds' \in 0 .. MaxVerifyRetries + 1
    BY <1>6, SaturateType, ConstantTypes
    DEF GateBlocks, Inv, TypeOK, RoundTypeOK, CheckTypeOK
  <2> QED
    BY <1>6, <2>1 DEF GateBlocks, Inv, TypeOK, RoundTypeOK, EvidenceTypeOK,
                      evidenceVars
<1>7. ASSUME ctx' = ReopenAfterGate(ctx), turns' = turns
      PROVE  /\ ctx' \in Context /\ ctx'.peerEnabled
             /\ ctx'.mustFix = {EngineTopic} /\ ~ctx'.approved
             /\ ctx'.role # "opus" /\ ContextInv'
  BY <1>2, <1>7, ExecutorType, ReopenFields DEF Inv, ContextInv, SameTask
<1>8. CASE GateRetryFromCheckpoint \/ GateRetryInPlace
  <2>1. /\ GateBlocks /\ ctx' = ReopenAfterGate(ctx) /\ GoTo("settle", FALSE)
        /\ leftover' = "gate" => ~RollbackOnFailure
        /\ leftover' \in {"none", "gate"}
        /\ checkpoint' \in {FALSE, checkpoint}
        /\ fresh' \in {{}, fresh \ {"gate"}}
    <3>1. CASE GateRetryFromCheckpoint
      BY <3>1 DEF GateRetryFromCheckpoint
    <3>2. CASE GateRetryInPlace
      BY <3>2 DEF GateRetryInPlace
    <3> QED
      BY <1>8, <3>1, <3>2
  <2>2. ControlInv' /\ LimitsInv' /\ FlowTypeOK' /\ phase' # "done"
    BY <1>2, <2>1, RoundGoesOn
  <2>3. CheckTypeOK' /\ EvidenceTypeOK'
    BY <1>6, <2>1 DEF Inv, TypeOK, RoundTypeOK, CheckTypeOK
  <2>4. HistoryTypeOK'
    BY <1>6, <2>1 DEF Inv, TypeOK, RoundTypeOK, HistoryTypeOK
  <2>5. TypeOK'
    BY <1>2, <1>6, <1>7, <2>1, <2>2, <2>3, <2>4, RoundType
  <2>6. FlagsInv' /\ TurnInv' /\ CheckpointInv' /\ ContextInv'
    BY <1>6, <1>7, <2>1 DEF FlagsInv, TurnInv, CheckpointInv
  <2>7. LeftoverInv'
    BY <2>1 DEF LeftoverInv
  <2> QED
    BY <2>2, <2>5, <2>6, <2>7, OngoingInv
<1>9. CASE GateRollbackFails
  <2>1. /\ GateBlocks /\ ctx' = ReopenAfterGate(ctx)
        /\ Stop("ROLLBACK_INCOMPLETE", "HARD_ERROR")
        /\ checkpoint' = FALSE /\ fresh' = {} /\ leftover' = "gate"
    BY <1>4, <1>9 DEF GateRollbackFails, MayRollBack
  <2>2. /\ FlowTypeOK' /\ phase' = "done"
        /\ reason' \notin AnsweredReasons
    BY <2>1, RoundStops DEF Reasons, StopReasons, AnsweredReasons
  <2>3. CheckTypeOK' /\ EvidenceTypeOK'
    BY <1>6, <2>1 DEF Inv, TypeOK, RoundTypeOK, CheckTypeOK
  <2>4. HistoryTypeOK'
    BY <1>6, <2>1 DEF Inv, TypeOK, RoundTypeOK, HistoryTypeOK
  <2>5. TypeOK' /\ ContextInv'
    BY <1>2, <1>6, <1>7, <2>1, <2>2, <2>3, <2>4, RoundType
  <2> QED
    BY <2>2, <2>5, StoppedInv
<1>10. ~GateGivesUp
  BY <1>2 DEF GateGivesUp
<1> QED
  BY <1>5, <1>8, <1>9, <1>10 DEF GateRound

-----------------------------------------------------------------------------
(* Reviews.                                                                *)

\* A verdict counts as one of the reviewer's answers and, when it approves,
\* as a check that this tree has passed.
LEMMA VerdictFields ==
    ASSUME Inv, NEW r \in Review, PeerVerdict(r)
    PROVE  /\ ctx' \in Context /\ SameTask(ctx, ctx')
           /\ ctx'.verifyPassed = ctx.verifyPassed
           /\ ctx'.gatePassed = ctx.gatePassed
           /\ ctx'.role # "opus" /\ ~ctx'.selfApproved
           /\ ctx'.approved => "peer" \in fresh'
           /\ {"verify", "gate"} \cap fresh' = {"verify", "gate"} \cap fresh
           /\ ContextInv'
           /\ CheckTypeOK' /\ EvidenceTypeOK' /\ HistoryTypeOK'
           /\ UNCHANGED <<checkVars, leftover>>
<1>1. ctx \in Context
  BY DEF Inv, TypeOK, RoundTypeOK
<1>2. /\ ctx' = RecordReview(ctx, r, ReviewScope)
      /\ peerReviewed' = TRUE /\ judged' = TRUE /\ turns' = turns + 1
      /\ fresh' = IF ctx'.approved THEN fresh \cup {"peer"}
                                   ELSE fresh \ {"peer"}
      /\ UNCHANGED <<checkVars, selfReviewed, leftover>>
  BY DEF PeerVerdict
<1>3. /\ ctx' \in Context /\ SameTask(ctx, ctx')
      /\ ctx'.verifyPassed = ctx.verifyPassed
      /\ ctx'.gatePassed = ctx.gatePassed /\ ctx'.role # "opus"
      /\ ctx'.iteration = ctx.iteration + 1
      /\ ~ctx'.selfCompleted /\ ~ctx'.selfApproved
  BY <1>1, <1>2, RecordReviewType, RecordReviewFields
<1>4. ContextInv'
  BY <1>2, <1>3 DEF Inv, ContextInv, SameTask
<1>5. CheckTypeOK' /\ EvidenceTypeOK'
  BY <1>2 DEF Inv, TypeOK, RoundTypeOK, CheckTypeOK, EvidenceTypeOK, checkVars
<1>6. HistoryTypeOK'
  <2>1. turns' \in Nat
    BY <1>2 DEF Inv, TypeOK, RoundTypeOK, HistoryTypeOK
  <2>2. fresh' \subseteq Checks
    BY <1>2 DEF Inv, TypeOK, RoundTypeOK, HistoryTypeOK, Checks
  <2> QED
    BY <1>2, <2>1, <2>2 DEF Inv, TypeOK, RoundTypeOK, HistoryTypeOK
<1> QED
  BY <1>2, <1>3, <1>4, <1>5, <1>6

\* The reviewer is asked about a tree that has passed verify and gate, and
\* leaves it so.
LEMMA PeerReviewInv ==
    ASSUME Inv, PeerReviewRound, UNCHANGED loopVars
    PROVE  Inv'
<1>1. PICK r \in Review :
          /\ InRound("peer_review") /\ PeerVerdict(r)
          /\ \/ GoTo("settle", FALSE)
             \/ Stop("OPUS_REVIEW_BLOCKED", "HARD_ERROR")
  BY DEF PeerReviewRound
<1>2. /\ phase = "round" /\ ctx \in Context /\ ctx.peerEnabled
      /\ ctx.mustFix = {} /\ NextAction(ctx) = "peer_review"
      /\ UNCHANGED <<budgetVars, recoveryVars, execVars>>
  BY <1>1, RoundStart
<1>3. ctx.started /\ ctx.verifyPassed /\ ctx.gatePassed
  BY <1>2, ReviewAfterChecks DEF Inv, TurnInv
<1>4. ctx'.peerEnabled
  BY <1>1, <1>2, VerdictFields DEF SameTask
<1>5. CASE GoTo("settle", FALSE)
  <2>1. ControlInv' /\ LimitsInv' /\ FlowTypeOK' /\ phase' # "done"
    BY <1>2, <1>5, RoundGoesOn
  <2>2. TypeOK' /\ ContextInv'
    BY <1>1, <1>2, <1>4, <2>1, RoundType, VerdictFields
  <2>3. FlagsInv'
    BY <1>1, <1>2, <1>3, VerdictFields DEF Inv, FlagsInv, checkVars
  <2>4. TurnInv' /\ CheckpointInv' /\ LeftoverInv'
    BY <1>1, <1>2, <1>3, VerdictFields
    DEF Inv, TurnInv, CheckpointInv, LeftoverInv, SameTask, checkVars
  <2> QED
    BY <2>1, <2>2, <2>3, <2>4, OngoingInv
<1>6. CASE Stop("OPUS_REVIEW_BLOCKED", "HARD_ERROR")
  <2>1. /\ FlowTypeOK' /\ phase' = "done"
        /\ reason' \notin AnsweredReasons
    BY <1>6, RoundStops DEF Reasons, StopReasons, AnsweredReasons
  <2>2. TypeOK' /\ ContextInv'
    BY <1>1, <1>2, <1>4, <2>1, RoundType, VerdictFields
  <2> QED
    BY <2>1, <2>2, StoppedInv
<1> QED
  BY <1>1, <1>5, <1>6

\* A self review that approves is a check this tree has passed.
LEMMA SelfReviewInv ==
    ASSUME Inv, SelfReviewRound, UNCHANGED loopVars
    PROVE  Inv'
<1>1. PICK ok \in BOOLEAN :
          /\ InRound("self_review") /\ selfReviewed' = TRUE
          /\ ctx' = RecordSelfReview(ctx, ok)
          /\ fresh' = IF ok THEN fresh \cup {"self"} ELSE fresh
          /\ GoTo("settle", FALSE)
          /\ UNCHANGED <<checkVars, peerReviewed, judged, turns, leftover>>
  BY DEF SelfReviewRound
<1>2. /\ phase = "round" /\ ctx \in Context /\ ctx.peerEnabled
      /\ ctx.mustFix = {} /\ NextAction(ctx) = "self_review"
      /\ UNCHANGED <<budgetVars, recoveryVars, execVars>>
  BY <1>1, RoundStart
<1>3. ctx.started /\ ctx.verifyPassed /\ ctx.gatePassed
  BY <1>2, SelfReviewAfterApproval DEF Inv, TurnInv
<1>4. ControlInv' /\ LimitsInv' /\ FlowTypeOK' /\ phase' # "done"
  BY <1>1, <1>2, RoundGoesOn
<1>5. ctx' \in Context /\ ctx'.peerEnabled
  BY <1>1, <1>2, RecordType, RecordSelfReviewFields DEF SameTask
<1>6. TypeOK'
  <2>1. CheckTypeOK' /\ EvidenceTypeOK'
    BY <1>1 DEF Inv, TypeOK, RoundTypeOK, CheckTypeOK, EvidenceTypeOK,
                checkVars
  <2>2. HistoryTypeOK'
    BY <1>1 DEF Inv, TypeOK, RoundTypeOK, HistoryTypeOK, Checks
  <2> QED
    BY <1>2, <1>4, <1>5, <2>1, <2>2, RoundType
<1>7. ContextInv'
  BY <1>1, <1>2, RecordSelfReviewFields DEF Inv, ContextInv, SameTask
<1>8. FlagsInv'
  BY <1>1, <1>2, RecordSelfReviewFields DEF Inv, FlagsInv, checkVars
<1>9. TurnInv' /\ CheckpointInv' /\ LeftoverInv'
  BY <1>1, <1>2, <1>3, RecordSelfReviewFields
  DEF Inv, TurnInv, CheckpointInv, LeftoverInv, SameTask, checkVars
<1> QED
  BY <1>4, <1>6, <1>7, <1>8, <1>9, OngoingInv

\* A self review that cannot be made ends the run.
LEMMA SelfReviewBlocksInv ==
    ASSUME Inv, SelfReviewBlocks, UNCHANGED loopVars
    PROVE  Inv'
<1>1. /\ InRound("self_review") /\ Stop("SELF_REVIEW_BLOCKED", "HARD_ERROR")
      /\ UNCHANGED <<ctx, checkVars, evidenceVars, historyVars>>
  BY DEF SelfReviewBlocks
<1>2. UNCHANGED <<budgetVars, recoveryVars, execVars>>
  BY <1>1, RoundStart
<1>3. /\ "SELF_REVIEW_BLOCKED" \in Reasons /\ "HARD_ERROR" \in StopReasons
      /\ "SELF_REVIEW_BLOCKED" \notin AnsweredReasons
  BY DEF Reasons, StopReasons, AnsweredReasons
<1> QED
  BY <1>1, <1>2, <1>3, RoundGivesUp

-----------------------------------------------------------------------------
(* Proceeding, and the reviewer's preflight.                               *)

\* A delivery is made on all the flags, and the flags speak of this tree.
LEMMA ProceedInv ==
    ASSUME Inv, ProceedRound, UNCHANGED loopVars
    PROVE  Inv'
<1>1. InRound("proceed_to_gate")
  BY DEF ProceedRound, FidelityGateBlocks, EvidenceBlocks, Proceeds
<1>2. /\ phase = "round" /\ ctx \in Context /\ ctx.peerEnabled
      /\ NextAction(ctx) = "proceed_to_gate"
      /\ UNCHANGED <<budgetVars, recoveryVars, execVars>>
  BY <1>1, RoundStart
<1>3. CASE FidelityGateBlocks
  <2>1. /\ ctx' = [ctx EXCEPT !.approved = FALSE, !.mustFix = {EngineTopic}]
        /\ Stop("FIDELITY_GATE_BLOCKED", "HARD_ERROR")
        /\ UNCHANGED <<checkVars, evidenceVars, historyVars>>
    BY <1>3 DEF FidelityGateBlocks
  <2>2. ctx' \in Context /\ ctx'.peerEnabled
    BY <1>2, <2>1 DEF Context, AllTopics
  <2>3. ContextInv'
    BY <1>2, <2>1 DEF Inv, ContextInv, Context, historyVars
  <2>4. HistoryTypeOK'
    BY <2>1 DEF Inv, TypeOK, RoundTypeOK, HistoryTypeOK, historyVars
  <2>5. /\ "FIDELITY_GATE_BLOCKED" \in Reasons \ AnsweredReasons
        /\ "HARD_ERROR" \in StopReasons
    BY DEF Reasons, StopReasons, AnsweredReasons
  <2> QED
    BY <1>2, <2>1, <2>2, <2>3, <2>4, <2>5, RoundOnlyStops DEF historyVars
<1>4. CASE EvidenceBlocks
  <2>1. /\ Stop("OPUS_REVIEW_BLOCKED", "HARD_ERROR")
        /\ UNCHANGED <<ctx, checkVars, evidenceVars, historyVars>>
    BY <1>4 DEF EvidenceBlocks
  <2>2. /\ "OPUS_REVIEW_BLOCKED" \in Reasons \ AnsweredReasons
        /\ "HARD_ERROR" \in StopReasons
    BY DEF Reasons, StopReasons, AnsweredReasons
  <2> QED
    BY <1>2, <2>1, <2>2, RoundGivesUp
<1>5. CASE Proceeds
  <2> USE DEF checkVars, historyVars
  <2>1. /\ Stop("PROCEED_TO_GATE", "none")
        /\ UNCHANGED <<ctx, checkVars, evidenceVars, historyVars>>
    BY <1>5 DEF Proceeds
  <2>2. FlowTypeOK' /\ phase' = "done" /\ reason' = "PROCEED_TO_GATE"
    BY <2>1, RoundStops DEF Reasons, PassReasons, StopReasons
  <2>3. CheckTypeOK' /\ EvidenceTypeOK' /\ HistoryTypeOK'
    BY <2>1 DEF Inv, TypeOK, RoundTypeOK, CheckTypeOK, EvidenceTypeOK,
                HistoryTypeOK, evidenceVars
  <2>4. TypeOK' /\ ContextInv'
    BY <1>2, <2>1, <2>2, <2>3, RoundType, SameContextInv DEF Inv
  <2>5. DeliveredTreeIsChecked'
    <3>1. /\ ctx.gatePassed /\ ctx.mustFix = {} /\ ctx.approved
          /\ ctx.selfRequired => ctx.selfApproved
      BY <1>2, ProceedAfterAll
    <3>2. /\ {"verify", "gate", "peer"} \subseteq fresh
          /\ ctx.selfRequired => "self" \in fresh
          /\ verifyCheck = "passed" /\ gateCheck = "passed"
      BY <1>2, <3>1 DEF Inv, FlagsInv, ContextInv
    <3> QED
      BY <2>1, <3>2 DEF DeliveredTreeIsChecked, RequiredChecks
  <2>6. tokens > TokenBudget => TokenBudget = 0
    BY <1>2 DEF Inv, LimitsInv
  <2>7. NothingDeliveredOverLimits'
    <3>1. /\ cycle' = cycle /\ tokens' = tokens /\ cycle <= MaxCycles
      BY <1>2 DEF Inv, LimitsInv, budgetVars
    <3>2. tokens \in Nat /\ TokenBudget \in Nat
      BY ConstantTypes DEF Inv, TypeOK, RoundTypeOK, BudgetTypeOK
    <3> QED
      BY <2>6, <3>1, <3>2 DEF NothingDeliveredOverLimits
  <2>8. LimitsInv'
    BY <1>2, <2>2, <2>6 DEF LimitsInv, budgetVars
  <2> QED
    BY <2>2, <2>4, <2>5, <2>7, <2>8
    DEF Inv, ControlInv, FlagsInv, TurnInv, CheckpointInv, LeftoverInv,
        OutcomeInv, RoundLimitIsEarned
<1> QED
  BY <1>3, <1>4, <1>5 DEF ProceedRound

\* A preflight lets the loop start or ends the run.
LEMMA PreflightInv ==
    ASSUME Inv, PreflightReady \/ PreflightBlocks
    PROVE  Inv'
<1>1. CASE PreflightReady
  <2> USE DEF budgetVars, checkVars, recoveryVars, execVars, evidenceVars,
              historyVars, loopVars
  <2>1. /\ phase = "preflight" /\ phase' = "dispatch" /\ reason' = reason
        /\ stop' = stop /\ recoveryRequested' = FALSE
        /\ UNCHANGED <<ctx, action, budgetVars, checkVars, recoveryVars,
                       execVars, evidenceVars, historyVars, loopVars>>
    BY <1>1 DEF PreflightReady, GoTo
  <2>2. FlowTypeOK'
    BY <2>1 DEF Inv, TypeOK, RoundTypeOK, FlowTypeOK, Phases
  <2>3. TypeOK'
    BY <2>1, <2>2
    DEF Inv, TypeOK, RoundTypeOK, BudgetTypeOK, CheckTypeOK, RecoveryTypeOK,
        ExecTypeOK, EvidenceTypeOK, HistoryTypeOK
  <2>4. /\ ControlInv' /\ ContextInv' /\ FlagsInv' /\ TurnInv'
        /\ CheckpointInv' /\ LeftoverInv' /\ LimitsInv'
    BY <2>1
    DEF Inv, ControlInv, ContextInv, FlagsInv, TurnInv, CheckpointInv,
        LeftoverInv, LimitsInv
  <2> QED
    BY <2>1, <2>3, <2>4, OngoingInv
<1>2. CASE PreflightBlocks
  <2>1. PICK r \in Review : PeerVerdict(r)
    BY <1>2 DEF PreflightBlocks
  <2>2. /\ Stop("OPUS_REVIEW_BLOCKED", "HARD_ERROR")
        /\ UNCHANGED <<budgetVars, recoveryVars, execVars, loopVars>>
    BY <1>2 DEF PreflightBlocks
  <2>3. /\ FlowTypeOK' /\ phase' = "done"
        /\ reason' \notin AnsweredReasons
    BY <2>2, RoundStops DEF Reasons, StopReasons, AnsweredReasons
  <2>4. ctx'.peerEnabled
    BY <2>1, VerdictFields DEF SameTask, Inv, TypeOK
  <2>5. TypeOK' /\ ContextInv'
    BY <2>1, <2>2, <2>3, <2>4, RoundType, VerdictFields
  <2> QED
    BY <2>3, <2>5, StoppedInv
<1> QED
  BY <1>1, <1>2

-----------------------------------------------------------------------------
(* The invariant holds.                                                    *)

\* A stuttering step, also the one a finished run makes, changes nothing.
LEMMA StutterInv ==
    ASSUME Inv, UNCHANGED vars
    PROVE  Inv'
<1> USE DEF vars, roundVars, flowVars, budgetVars, checkVars, recoveryVars,
            execVars, evidenceVars, historyVars, loopVars
<1>1. TypeOK'
  BY DEF Inv, TypeOK, RoundTypeOK, FlowTypeOK, BudgetTypeOK, CheckTypeOK,
         RecoveryTypeOK, ExecTypeOK, EvidenceTypeOK, HistoryTypeOK
<1>2. /\ ControlInv' /\ ContextInv' /\ FlagsInv' /\ TurnInv'
      /\ CheckpointInv' /\ LeftoverInv' /\ LimitsInv'
  BY DEF Inv, ControlInv, ContextInv, FlagsInv, TurnInv, CheckpointInv,
         LeftoverInv, LimitsInv
<1>3. OutcomeInv'
  BY DEF Inv, OutcomeInv, DeliveredTreeIsChecked, RequiredChecks,
         NothingDeliveredOverLimits, RoundLimitIsEarned
<1> QED
  BY <1>1, <1>2, <1>3 DEF Inv

\* Every step keeps the invariant.
LEMMA NextInv == Inv /\ [Next]_vars => Inv'
<1> SUFFICES ASSUME Inv, [Next]_vars PROVE Inv'
  OBVIOUS
<1>1. CASE PreflightReady \/ PreflightBlocks
  BY <1>1, PreflightInv
<1>2. CASE RoundStep /\ UNCHANGED loopVars
  <2>1. CASE DispatchNext
    BY <1>2, <2>1, DispatchInv
  <2>2. CASE Prepare
    BY <1>2, <2>2, PrepareInv
  <2>3. CASE Execute
    BY <1>2, <2>3, ExecuteInv
  <2>4. CASE DesignRound
    BY <1>2, <2>4, DesignInv
  <2>5. CASE VerifyRound
    BY <1>2, <2>5, VerifyInv
  <2>6. CASE GateRound
    BY <1>2, <2>6, GateInv
  <2>7. CASE ReviewRound
    BY <1>2, <2>7, PeerReviewInv, SelfReviewInv, SelfReviewBlocksInv
    DEF ReviewRound
  <2>8. CASE ProceedRound
    BY <1>2, <2>8, ProceedInv
  <2>9. CASE TokenBudgetExceeded
    BY <1>2, <2>9, TokenBudgetInv
  <2> QED
    BY <1>2, <2>1, <2>2, <2>3, <2>4, <2>5, <2>6, <2>7, <2>8, <2>9
    DEF RoundStep
<1>3. CASE Settle
  BY <1>3, SettleInv
<1>4. CASE UNCHANGED vars
  BY <1>4, StutterInv
<1> QED
  BY <1>1, <1>2, <1>3, <1>4 DEF Next, Finished

\* The inductive invariant holds in every state of every run.
THEOREM Invariance == Spec => []Inv
BY InitInv, NextInv, PTL DEF Spec

-----------------------------------------------------------------------------
(* The properties the runs check.                                          *)

\* Every variable keeps its type, and every counter its bound.
THEOREM TypeCorrectness == Spec => []TypeOK
<1>1. Inv => TypeOK
  BY DEF Inv
<1> QED
  BY <1>1, Invariance, PTL

\* The tree handed to the gate has passed every required check as it stands.
THEOREM DeliveryIsChecked == Spec => []DeliveredTreeIsChecked
<1>1. Inv => DeliveredTreeIsChecked
  BY DEF Inv, OutcomeInv
<1> QED
  BY <1>1, Invariance, PTL

\* Nor is it handed on past max_cycles or past the token budget.
THEOREM DeliveryIsWithinLimits == Spec => []NothingDeliveredOverLimits
<1>1. Inv => NothingDeliveredOverLimits
  BY DEF Inv, OutcomeInv
<1> QED
  BY <1>1, Invariance, PTL

\* The reviewer is only asked about a result of the executor that it has not
\* judged, in a tree that has passed verify and gate.
THEOREM ReviewIsOfCheckedTree == Spec => []ReviewerSeesCheckedTree
<1>1. Inv => ReviewerSeesCheckedTree
  <2> SUFFICES ASSUME Inv, phase = "round", action = "peer_review"
               PROVE  {"verify", "gate"} \subseteq fresh /\ ~judged
    BY DEF ReviewerSeesCheckedTree
  <2>1. ctx \in Context /\ NextAction(ctx) = "peer_review" /\ ctx.mustFix = {}
    BY FixFirst DEF Inv, ControlInv, TypeOK, RoundTypeOK
  <2>2. /\ ctx.role = "opus" /\ ctx.started
        /\ ctx.verifyPassed /\ ctx.gatePassed
    BY <2>1, ReviewAfterChecks DEF Inv, TurnInv
  <2> QED
    BY <2>1, <2>2 DEF Inv, FlagsInv, TurnInv
<1> QED
  BY <1>1, Invariance, PTL

\* Only the reviewer's own answers use up its rounds.
THEOREM RoundLimitEarned == Spec => []RoundLimitIsEarned
<1>1. Inv => RoundLimitIsEarned
  BY DEF Inv, OutcomeInv
<1> QED
  BY <1>1, Invariance, PTL

\* With rollback on, no verify or gate round lacks a checkpoint.
THEOREM CheckpointAlwaysThere == Spec => []CheckpointIsThere
<1>1. Inv => CheckpointIsThere
  <2> SUFFICES ASSUME Inv PROVE CheckpointIsThere
    OBVIOUS
  <2>1. ASSUME RollbackOnFailure, phase = "round",
               action \in {"verify", "rules_gate"}
        PROVE  checkpoint
    <3>1. ctx \in Context /\ NextAction(ctx) = action /\ ctx.mustFix = {}
      BY <2>1, FixFirst DEF Inv, ControlInv, TypeOK, RoundTypeOK
    <3>2. ctx.started
      BY <2>1, <3>1, GateAfterVerify, VerifyAfterStart
    <3> QED
      BY <2>1, <3>1, <3>2 DEF Inv, CheckpointInv
  <2> QED
    BY <2>1 DEF CheckpointIsThere, Inv, OutcomeInv
<1> QED
  BY <1>1, Invariance, PTL

\* With rollback on, what the gate refused is gone when the executor is
\* called again.
THEOREM GateRetryClean == Spec => []GateRetryStartsClean
<1>1. Inv => GateRetryStartsClean
  BY DEF Inv, LeftoverInv, GateRetryStartsClean
<1> QED
  BY <1>1, Invariance, PTL

-----------------------------------------------------------------------------
(* Objections.                                                             *)

\* A step only takes back open must_fix items for an executor's success, or
\* to put the engine's own in their place.
LEMMA ObjectionStep ==
    ASSUME Inv, [Next]_vars, ctx.mustFix # {}, ctx'.mustFix # ctx.mustFix
    PROVE  \/ phase = "execute" /\ lastExec' \in {"done_write", "done_idle"}
           \/ ctx'.mustFix = {EngineTopic}
           \/ phase = "preflight"
<1>1. ctx \in Context /\ ctx' # ctx
  BY DEF Inv, TypeOK, RoundTypeOK
<1>2. CASE Execute
  <2>1. Started \in Context /\ Started.mustFix = ctx.mustFix
    BY <1>1, StartedFields
  <2>2. CASE ExecutorSucceeds \/ NoWriteResumeAccepted
    BY <2>2 DEF ExecutorSucceeds, NoWriteResumeAccepted, RecordSuccess,
                ExecutorCalled
  <2>3. CASE ExecutorStalls \/ SetupErrorRecovered
    BY <2>1, <2>3, RequestRecoveryFields
    DEF ExecutorStalls, SetupErrorRecovered
  <2>4. CASE PolicyBlocks \/ BackendBlocks \/ ImplementationFails
    BY <1>1, <2>1, <2>4 DEF PolicyBlocks, BackendBlocks, ImplementationFails
  <2> QED
    BY <1>2, <2>2, <2>3, <2>4 DEF Execute
<1>3. CASE \/ DesignRound \/ VerifyRound \/ GateRound \/ ReviewRound
           \/ ProceedRound
  <2>1. PICK a \in {"design", "verify", "rules_gate", "peer_review",
                    "self_review", "proceed_to_gate"} : InRound(a)
    BY <1>3
    DEF DesignRound, VerifyRound, VerifyScopeViolation, VerifyPasses,
        VerifyRetryFromCheckpoint, VerifyRetryInPlace, VerifyGivesUp,
        VerifyFails, GateRound, GatePasses, GateRetryFromCheckpoint,
        GateRollbackFails, GateRetryInPlace, GateGivesUp, GateBlocks,
        ReviewRound, PeerReviewRound, SelfReviewRound, SelfReviewBlocks,
        ProceedRound, FidelityGateBlocks, EvidenceBlocks, Proceeds
  <2>2. ctx.mustFix = {}
    BY <2>1, RoundStart
  <2> QED
    BY <2>2
<1>4. CASE PreflightBlocks
  BY <1>4 DEF PreflightBlocks
<1>5. CASE Prepare /\ UNCHANGED loopVars
  BY <1>1, <1>5, PrepareFrame
<1>6. CASE \/ PreflightReady \/ DispatchNext \/ TokenBudgetExceeded \/ Settle
           \/ UNCHANGED vars
  BY <1>1, <1>6
  DEF PreflightReady, DispatchNext, Dispatch, TokenBudgetExceeded, Settle,
      SettleFixRound, SettlePeerReview, SettleOther, AfterRound, vars,
      roundVars
<1> QED
  BY <1>2, <1>3, <1>4, <1>5, <1>6 DEF Next, RoundStep, Finished

\* No objection is dropped before the executor has answered it.
THEOREM ObjectionsAnswered == Spec => ObjectionsAreAnswered
<1>1. Inv /\ [Next]_vars =>
        [ctx.mustFix # {} /\ ctx'.mustFix # ctx.mustFix =>
            \/ phase = "execute" /\ lastExec' \in {"done_write", "done_idle"}
            \/ ctx'.mustFix = {EngineTopic}
            \/ phase = "preflight"]_vars
  BY ObjectionStep
<1> QED
  BY <1>1, Invariance, PTL DEF Spec, ObjectionsAreAnswered

-----------------------------------------------------------------------------
(* The loop implements Delivery.                                           *)

\* While the run goes on, the tree loses checks, or gains one that its
\* predecessors have been made for.
LEMMA FreshStep ==
    ASSUME Inv, Next, phase' # "done"
    PROVE  \/ fresh' \subseteq fresh
           \/ \E k \in Checks : CheckNeeds[k] \subseteq fresh
                                /\ fresh' = fresh \cup {k}
<1>1. /\ CheckNeeds["verify"] = {} /\ CheckNeeds["gate"] = {"verify"}
      /\ CheckNeeds["peer"] = {"verify", "gate"}
      /\ CheckNeeds["self"] = {"verify", "gate", "peer"}
  BY DEF CheckNeeds, Checks
<1>2. CASE Execute
  BY <1>1, <1>2
  DEF Execute, ExecutorSucceeds, NoWriteResumeAccepted, PolicyBlocks,
      ExecutorStalls, BackendBlocks, SetupErrorRecovered,
      ImplementationFails, PartialWrites, Checks
<1>3. CASE VerifyRound
  BY <1>1, <1>3
  DEF VerifyRound, VerifyScopeViolation, VerifyPasses,
      VerifyRetryFromCheckpoint, VerifyRetryInPlace, VerifyGivesUp, Checks,
      historyVars
<1>4. CASE GateRound
  <2>1. InRound("rules_gate")
    BY <1>4 DEF GateRound, GatePasses, GateRetryFromCheckpoint,
                GateRollbackFails, GateRetryInPlace, GateGivesUp, GateBlocks
  <2>2. "verify" \in fresh
    BY <2>1, RoundStart, GateAfterVerify DEF Inv, FlagsInv
  <2> QED
    BY <1>1, <1>4, <2>2
    DEF GateRound, GatePasses, GateRetryFromCheckpoint, GateRollbackFails,
        GateRetryInPlace, GateGivesUp, Checks
<1>5. CASE PeerReviewRound
  <2>1. PICK r \in Review : InRound("peer_review") /\ PeerVerdict(r)
    BY <1>5 DEF PeerReviewRound
  <2>2. {"verify", "gate"} \subseteq fresh
    BY <2>1, RoundStart, ReviewAfterChecks DEF Inv, FlagsInv, TurnInv
  <2> QED
    BY <1>1, <2>1, <2>2 DEF PeerVerdict, Checks
<1>6. CASE SelfReviewRound
  <2>1. InRound("self_review")
    BY <1>6 DEF SelfReviewRound
  <2>2. {"verify", "gate", "peer"} \subseteq fresh
    BY <2>1, RoundStart, SelfReviewAfterApproval DEF Inv, FlagsInv, TurnInv
  <2> QED
    BY <1>1, <1>6, <2>2 DEF SelfReviewRound, Checks
<1>7. CASE PreflightBlocks
  BY <1>7 DEF PreflightBlocks, Stop
<1>8. CASE Prepare /\ UNCHANGED loopVars
  BY <1>8, PrepareFrame DEF historyVars
<1>9. CASE \/ PreflightReady \/ DispatchNext \/ DesignRound
           \/ SelfReviewBlocks \/ ProceedRound \/ TokenBudgetExceeded
           \/ Settle \/ Finished
  BY <1>9
  DEF PreflightReady, DispatchNext, Dispatch, DesignRound, SelfReviewBlocks,
      ProceedRound, FidelityGateBlocks, EvidenceBlocks, Proceeds,
      TokenBudgetExceeded, Settle, SettleFixRound, SettlePeerReview,
      SettleOther, AfterRound, Finished, vars, roundVars, historyVars
<1> QED
  BY <1>2, <1>3, <1>4, <1>5, <1>6, <1>7, <1>8, <1>9
  DEF Next, RoundStep, ReviewRound

\* A finished run stays as it is.
LEMMA DoneIsFinal ==
    ASSUME Inv, Next, phase = "done"
    PROVE  UNCHANGED vars
<1>1. ~PreflightReady /\ ~PreflightBlocks
  BY DEF PreflightReady, PreflightBlocks
<1>2. ~DispatchNext /\ ~TokenBudgetExceeded /\ ~Settle
  BY DEF DispatchNext, Dispatch, TokenBudgetExceeded, Settle, SettleFixRound,
         SettlePeerReview, SettleOther, AfterRound
<1>3. ~Execute
  BY ExecuteFrame
<1>4. ~(Prepare /\ UNCHANGED loopVars)
  BY PrepareFrame
<1>5. /\ ~DesignRound /\ ~VerifyRound /\ ~GateRound /\ ~ReviewRound
      /\ ~ProceedRound
  BY DEF InRound, DesignRound, VerifyRound, VerifyScopeViolation,
         VerifyPasses, VerifyRetryFromCheckpoint, VerifyRetryInPlace,
         VerifyGivesUp, VerifyFails, GateRound, GatePasses,
         GateRetryFromCheckpoint, GateRollbackFails, GateRetryInPlace,
         GateGivesUp, GateBlocks, ReviewRound, PeerReviewRound,
         SelfReviewRound, SelfReviewBlocks, ProceedRound,
         FidelityGateBlocks, EvidenceBlocks, Proceeds
<1> QED
  BY <1>1, <1>2, <1>3, <1>4, <1>5 DEF Next, RoundStep, Finished

\* Only proceeding delivers, and it does so on what the tree has passed.
LEMMA DeliveryStep ==
    ASSUME Inv, Next, phase # "done", phase' = "done",
           reason' = "PROCEED_TO_GATE"
    PROVE  DeliveryNeeds \subseteq fresh /\ fresh' = fresh
<1>1. Inv'
  BY NextInv
<1>2. CASE Proceeds /\ UNCHANGED loopVars
  <2>1. fresh' = fresh
    BY <1>2 DEF Proceeds, historyVars
  <2>2. RequiredChecks' \subseteq fresh'
    BY <1>1 DEF Inv, OutcomeInv, DeliveredTreeIsChecked
  <2>3. ctx'.selfRequired = SelfReviewRequired
    BY <1>1 DEF Inv, ContextInv
  <2> QED
    BY <2>1, <2>2, <2>3 DEF RequiredChecks, DeliveryNeeds
<1>3. CASE Prepare /\ UNCHANGED loopVars
  BY <1>3, PrepareFrame DEF AnsweredReasons
<1>4. CASE Execute
  BY <1>4, ExecuteFrame DEF AnsweredReasons
<1>5. CASE \/ DispatchNext \/ PreflightReady \/ PreflightBlocks \/ Settle
           \/ TokenBudgetExceeded \/ Finished
  BY <1>5 DEF Inv, ControlInv, DispatchNext, Dispatch, PreflightReady,
              PreflightBlocks, Settle, SettleFixRound, SettlePeerReview,
              SettleOther, TokenBudgetExceeded, Finished, vars, roundVars,
              flowVars, Stop, GoTo
<1>6. CASE \/ DesignRound \/ VerifyRound \/ GateRound \/ ReviewRound
           \/ FidelityGateBlocks \/ EvidenceBlocks
  BY <1>6
  DEF Inv, ControlInv, DesignRound, VerifyRound, VerifyScopeViolation,
      VerifyPasses, VerifyRetryFromCheckpoint, VerifyRetryInPlace,
      VerifyGivesUp, GateRound, GatePasses, GateRetryFromCheckpoint,
      GateRollbackFails, GateRetryInPlace, GateGivesUp, ReviewRound,
      PeerReviewRound, SelfReviewRound, SelfReviewBlocks,
      FidelityGateBlocks, EvidenceBlocks, Stop, GoTo
<1> QED
  BY <1>2, <1>3, <1>4, <1>5, <1>6 DEF Next, RoundStep, ProceedRound

\* Every step of the loop is a step of Delivery, or leaves it where it is.
LEMMA DeliveryRefinement ==
    ASSUME Inv, [Next]_vars
    PROVE  [Promise!Next]_<<fresh, Outcome>>
<1>1. CASE UNCHANGED vars
  BY <1>1 DEF vars, roundVars, flowVars, historyVars, Outcome
<1>2. CASE Next /\ phase = "done"
  BY <1>2, DoneIsFinal DEF vars, roundVars, flowVars, historyVars, Outcome
<1>3. CASE Next /\ phase # "done" /\ phase' # "done"
  <2>1. Outcome = "open" /\ Outcome' = "open"
    BY <1>3 DEF Outcome
  <2>2. CASE fresh' \subseteq fresh
    BY <2>1, <2>2 DEF Promise!Next, Promise!Lose
  <2>3. CASE \E k \in Checks : CheckNeeds[k] \subseteq fresh
                               /\ fresh' = fresh \cup {k}
    BY <2>1, <2>3 DEF Promise!Next, Promise!Check
  <2> QED
    BY <1>3, <2>2, <2>3, FreshStep
<1>4. CASE Next /\ phase # "done" /\ phase' = "done"
  <2>1. Outcome = "open" /\ Outcome' \in {"delivered", "abandoned"}
    BY <1>4 DEF Outcome
  <2>2. CASE reason' = "PROCEED_TO_GATE"
    BY <1>4, <2>1, <2>2, DeliveryStep
    DEF Promise!Next, Promise!Deliver, Outcome
  <2>3. CASE reason' # "PROCEED_TO_GATE"
    <3>1. fresh' \subseteq Checks
      BY <1>4, NextInv DEF Inv, TypeOK, RoundTypeOK, HistoryTypeOK
    <3> QED
      BY <1>4, <2>1, <2>3, <3>1 DEF Promise!Next, Promise!Abandon, Outcome
  <2> QED
    BY <2>2, <2>3
<1> QED
  BY <1>1, <1>2, <1>3, <1>4

\* The loop implements Delivery: the checks are earned in order on one tree,
\* and a delivery needs them all.
THEOREM Refinement == Spec => ImplementsDelivery
<1>1. Init => Promise!Init
  BY DEF Init, RoundInit, Promise!Init, Outcome
<1>2. Inv /\ [Next]_vars => [Promise!Next]_<<fresh, Outcome>>
  BY DeliveryRefinement
<1> QED
  BY <1>1, <1>2, Invariance, PTL DEF Spec, ImplementsDelivery, Promise!Spec

-----------------------------------------------------------------------------
(* The end of a run.                                                       *)

\* A recovery is pending between two executor rounds only if the last one
\* failed: only such a round may be followed by one past max_cycles.
FailedInv ==
    phase \notin {"prepare", "execute", "done"} /\ (card \/ stalled) =>
        lastExec \in {"needs_recovery", "error"}

\* What an executor round is paid with: a cycle, a recovery, a setup retry.
Chances ==
    (MaxCycles + 1 - cycle) + (MaxTotalRecoveries - attempts)
        + (MaxSetupRetries + 1 - setupTries)

\* What is paid for, in thirds of a chance.  An executor round has two until it
\* answers; an error leaves it both, a block to recover leaves one.
Credit ==
    IF phase = "execute" THEN 2
    ELSE IF phase = "prepare"
    THEN IF action \in FixActions /\ lastExec = "needs_recovery" THEN 1 ELSE 2
    ELSE IF lastExec = "error" THEN 2
    ELSE IF lastExec = "needs_recovery" THEN 1 ELSE 0

Worth == 3 * Chances + Credit

Bit(b, n) == IF b THEN n ELSE 0

\* How many rounds of other kinds the context may ask for before the next
\* executor round: design, verify, gate, peer review, self review, each
\* worth more than all that it can make due again.
Due(c) ==
    IF c.mustFix # {} THEN 0
    ELSE Bit(~c.decided /\ ~c.started, 16) + Bit(~c.verifyPassed, 8)
             + Bit(~c.gatePassed, 4) + Bit(c.role = "opus", 2)
             + Bit(~c.selfCompleted, 1)

Stage ==
    IF phase \in {"preflight", "settle"} THEN 3
    ELSE IF phase = "dispatch" THEN 2
    ELSE IF phase = "execute" THEN 0 ELSE 1

\* What is left of a run.
Left ==
    IF phase = "done" THEN 0
    ELSE 1 + 4 * (32 * Worth + Due(ctx)) + Stage

\* One part falls, and only parts of less worth rise.
Nearer ==
    \/ Chances' < Chances
    \/ Chances' = Chances /\ Credit' < Credit
    \/ /\ Chances' = Chances /\ Credit' = Credit
       /\ \/ Due(ctx') < Due(ctx)
          \/ Due(ctx') = Due(ctx) /\ Stage' < Stage

\* No sum of what is due reaches the worth of an executor round.
LEMMA DueType ==
    ASSUME NEW c
    PROVE  Due(c) \in 0 .. 31
<1>1. /\ Bit(~c.decided /\ ~c.started, 16) \in {0, 16}
      /\ Bit(~c.verifyPassed, 8) \in {0, 8} /\ Bit(~c.gatePassed, 4) \in {0, 4}
      /\ Bit(c.role = "opus", 2) \in {0, 2} /\ Bit(~c.selfCompleted, 1) \in {0, 1}
  BY DEF Bit
<1>2. \A m \in {0, 16}, n \in {0, 8}, o \in {0, 4}, p \in {0, 2}, q \in {0, 1} :
          m + n + o + p + q \in 0 .. 31
  BY SMT
<1> QED
  BY <1>1, <1>2 DEF Due

\* An open item is all that is due.
LEMMA NothingDue ==
    ASSUME NEW c, c.mustFix # {}
    PROVE  Due(c) = 0
BY DEF Due

\* Chances are numbers.
LEMMA ChancesType ==
    ASSUME NEW c \in 0 .. MaxCycles + 1, NEW a \in 0 .. MaxTotalRecoveries,
           NEW s \in 0 .. MaxSetupRetries + 1
    PROVE  (MaxCycles + 1 - c) + (MaxTotalRecoveries - a)
               + (MaxSetupRetries + 1 - s) \in Nat
BY ConstantTypes

\* So are the parts of what is left, before a step and after it.
LEMMA LeftTypes ==
    ASSUME TypeOK, TypeOK'
    PROVE  /\ Chances \in Nat /\ Credit \in 0 .. 2 /\ Stage \in 0 .. 3
           /\ Chances' \in Nat /\ Credit' \in 0 .. 2 /\ Stage' \in 0 .. 3
<1>1. /\ cycle \in 0 .. MaxCycles + 1 /\ attempts \in 0 .. MaxTotalRecoveries
      /\ setupTries \in 0 .. MaxSetupRetries + 1
  BY DEF TypeOK, RoundTypeOK, BudgetTypeOK, RecoveryTypeOK, ExecTypeOK
<1>2. /\ cycle' \in 0 .. MaxCycles + 1
      /\ attempts' \in 0 .. MaxTotalRecoveries
      /\ setupTries' \in 0 .. MaxSetupRetries + 1
  BY DEF TypeOK, RoundTypeOK, BudgetTypeOK, RecoveryTypeOK, ExecTypeOK
<1>3. Chances \in Nat /\ Chances' \in Nat
  BY <1>1, <1>2, ChancesType DEF Chances
<1> QED
  BY <1>3 DEF Credit, Stage

\* A sum falls with its first part, or else with the next.
LEMMA WorthSum ==
    ASSUME NEW n \in Nat, NEW m \in Nat, NEW k \in 0 .. 2, NEW l \in 0 .. 2,
           \/ m < n
           \/ m = n /\ l < k
    PROVE  3 * m + l < 3 * n + k
OBVIOUS

\* The same for three parts.
LEMMA LeftSum ==
    ASSUME NEW x \in Nat, NEW y \in Nat, NEW d \in 0 .. 31, NEW e \in 0 .. 31,
           NEW s \in 0 .. 3, NEW t \in 0 .. 3,
           y < x \/ (y = x /\ (e < d \/ (e = d /\ t < s)))
    PROVE  /\ 1 + 4 * (32 * y + e) + t \in Nat
           /\ 1 + 4 * (32 * y + e) + t < 1 + 4 * (32 * x + d) + s
OBVIOUS

\* The worth of what is paid for is a number.
LEMMA WorthType ==
    ASSUME NEW n \in Nat, NEW k \in 0 .. 2
    PROVE  3 * n + k \in Nat
OBVIOUS

\* A step that brings the end nearer lowers the number.
LEMMA LeftFalls ==
    ASSUME TypeOK, TypeOK', phase # "done", phase' # "done",
           Nearer
    PROVE  Left' \in Nat /\ Left' < Left
<1>1. /\ Chances \in Nat /\ Credit \in 0 .. 2 /\ Stage \in 0 .. 3
      /\ Chances' \in Nat /\ Credit' \in 0 .. 2 /\ Stage' \in 0 .. 3
  BY LeftTypes
<1>2. Due(ctx) \in 0 .. 31 /\ Due(ctx') \in 0 .. 31
  BY DueType
<1>3. Worth \in Nat /\ Worth' \in Nat
  BY <1>1, WorthType DEF Worth
<1>4. \/ Worth' < Worth
      \/ Worth' = Worth /\ (\/ Due(ctx') < Due(ctx)
                            \/ Due(ctx') = Due(ctx) /\ Stage' < Stage)
  <2>1. CASE /\ Chances' = Chances /\ Credit' = Credit
             /\ \/ Due(ctx') < Due(ctx)
                \/ Due(ctx') = Due(ctx) /\ Stage' < Stage
    BY <2>1 DEF Worth
  <2>2. CASE \/ Chances' < Chances
             \/ Chances' = Chances /\ Credit' < Credit
    <3>1. 3 * Chances' + Credit' < 3 * Chances + Credit
      BY <1>1, <2>2, WorthSum
    <3> QED
      BY <3>1 DEF Worth
  <2> QED
    BY <2>1, <2>2 DEF Nearer
<1>5. /\ 1 + 4 * (32 * Worth' + Due(ctx')) + Stage' \in Nat
      /\ 1 + 4 * (32 * Worth' + Due(ctx')) + Stage'
             < 1 + 4 * (32 * Worth + Due(ctx)) + Stage
  BY <1>1, <1>2, <1>3, <1>4, LeftSum
<1>6. /\ Left = 1 + 4 * (32 * Worth + Due(ctx)) + Stage
      /\ Left' = 1 + 4 * (32 * Worth' + Due(ctx')) + Stage'
  BY DEF Left
<1> QED
  BY <1>5, <1>6

\* One chance less, the others as they were.
LEMMA ChanceTaken ==
    ASSUME TypeOK,
           \/ cycle' = cycle + 1 /\ UNCHANGED <<attempts, setupTries>>
           \/ attempts' = attempts + 1 /\ UNCHANGED <<cycle, setupTries>>
           \/ setupTries' = setupTries + 1 /\ UNCHANGED <<cycle, attempts>>
    PROVE  Chances' < Chances
<1>1. \A c \in 0 .. MaxCycles + 1, a \in 0 .. MaxTotalRecoveries,
         s \in 0 .. MaxSetupRetries + 1 :
          LET n == (MaxCycles + 1 - c) + (MaxTotalRecoveries - a)
                       + (MaxSetupRetries + 1 - s) IN
          /\ (MaxCycles + 1 - (c + 1)) + (MaxTotalRecoveries - a)
                 + (MaxSetupRetries + 1 - s) < n
          /\ (MaxCycles + 1 - c) + (MaxTotalRecoveries - (a + 1))
                 + (MaxSetupRetries + 1 - s) < n
          /\ (MaxCycles + 1 - c) + (MaxTotalRecoveries - a)
                 + (MaxSetupRetries + 1 - (s + 1)) < n
  BY ConstantTypes
<1>2. /\ cycle \in 0 .. MaxCycles + 1 /\ attempts \in 0 .. MaxTotalRecoveries
      /\ setupTries \in 0 .. MaxSetupRetries + 1
  BY DEF TypeOK, RoundTypeOK, BudgetTypeOK, RecoveryTypeOK, ExecTypeOK
<1> QED
  BY <1>1, <1>2 DEF Chances

\* A dispatched executor round is paid with a cycle, or follows a failure.
LEMMA DispatchNearer ==
    ASSUME Inv, FailedInv, DispatchNext, phase' # "done"
    PROVE  Nearer
<1> DEFINE a == NextAction(ctx)
<1>1. /\ phase = "dispatch" /\ action' = a
      /\ cycle' = Saturate(cycle + CycleCost(a), MaxCycles)
      /\ UNCHANGED <<ctx, card, stalled, attempts, setupTries, lastExec>>
  BY DEF DispatchNext, Dispatch, recoveryVars, execVars
<1>2. /\ phase' = IF a \in ExecutorActions THEN "prepare" ELSE "round"
      /\ \/ ~(cycle' > MaxCycles)
         \/ a \in FixActions /\ (card \/ stalled)
  BY DEF DispatchNext, Dispatch, RecoveryPastMaxCycles
<1>3. a \in Actions \ {"finish"}
  BY NextActionType
<1>4. cycle \in 0 .. MaxCycles + 1 /\ MaxCycles \in Nat
  BY ConstantTypes DEF Inv, TypeOK, RoundTypeOK, BudgetTypeOK
<1> HIDE DEF a
<1>5. CASE a \notin ExecutorActions
  <2>1. cycle' = cycle
    <3>1. CycleCost(a) = 0
      BY <1>3, <1>5 DEF CycleCost, ExecutorActions, Actions
    <3>2. \A c \in 0 .. MaxCycles + 1 : Saturate(c + 0, MaxCycles) = c
      BY <1>4 DEF Saturate
    <3> QED
      BY <1>1, <1>4, <3>1, <3>2
  <2>2. Chances' = Chances
    BY <1>1, <2>1 DEF Chances
  <2>3. phase' = "round"
    BY <1>2, <1>5
  <2>4. Credit' = Credit /\ Stage' < Stage
    BY <1>1, <2>3 DEF Credit, Stage
  <2> QED
    BY <1>1, <2>2, <2>4 DEF Nearer
<1>6. CASE a \in ExecutorActions /\ cycle <= MaxCycles
  <2>1. cycle' = cycle + 1
    <3>1. CycleCost(a) = 1
      BY <1>6 DEF CycleCost, ExecutorActions
    <3>2. \A c \in 0 .. MaxCycles : Saturate(c + 1, MaxCycles) = c + 1
      BY <1>4 DEF Saturate
    <3>3. cycle \in 0 .. MaxCycles
      BY <1>4, <1>6
    <3> QED
      BY <1>1, <3>1, <3>2, <3>3
  <2> QED
    BY <1>1, <2>1, ChanceTaken DEF Nearer, Inv
<1>7. CASE a \in ExecutorActions /\ ~(cycle <= MaxCycles)
  <2>1. cycle' = cycle /\ cycle > MaxCycles
    <3>1. CycleCost(a) = 1
      BY <1>7 DEF CycleCost, ExecutorActions
    <3>2. Saturate(MaxCycles + 1 + 1, MaxCycles) = MaxCycles + 1
      BY <1>4 DEF Saturate
    <3>3. cycle = MaxCycles + 1 /\ cycle > MaxCycles
      BY <1>4, <1>7
    <3> QED
      BY <1>1, <3>1, <3>2, <3>3
  <2>2. a \in FixActions /\ (card \/ stalled)
    BY <1>2, <2>1
  <2>3. lastExec \in {"needs_recovery", "error"}
    BY <1>1, <2>2 DEF FailedInv
  <2>4. phase' = "prepare"
    BY <1>2, <1>7
  <2>5. Chances' = Chances
    BY <1>1, <2>1 DEF Chances
  <2>6. Credit' = Credit /\ Stage' < Stage
    BY <1>1, <2>2, <2>3, <2>4 DEF Credit, Stage
  <2> QED
    BY <1>1, <2>5, <2>6 DEF Nearer
<1> QED
  BY <1>5, <1>6, <1>7

\* Without a synthesizer, an executor round after a block is paid with an
\* attempt.
LEMMA PrepareNearer ==
    ASSUME ~UnmatchedBlocks, ~Synthesizer, Inv, Prepare, UNCHANGED loopVars,
           phase' # "done"
    PROVE  Nearer
<1>1. /\ phase = "prepare" /\ phase' = "execute"
      /\ UNCHANGED <<ctx, action, cycle, setupTries, lastExec>>
  BY PrepareFrame DEF budgetVars, execVars
<1>2. \/ attempts' = attempts + 1
      \/ attempts' = attempts /\ ~(action \in FixActions /\ lastExec = "needs_recovery")
  <2>1. action = NextAction(ctx) /\ ctx \in Context
    BY <1>1 DEF Inv, ControlInv, TypeOK, RoundTypeOK
  <2>2. action \in FixActions => ctx.mustFix # {}
    BY <2>1 DEF NextAction, FixActions
  <2>3. CASE PrepareNothing
    BY <2>2, <2>3 DEF PrepareNothing, NeedsRecovery, recoveryVars
  <2>4. CASE DeterministicRecovery
    BY <2>4 DEF DeterministicRecovery
  <2>5. CASE UnassistedRetry
    BY <2>5 DEF UnassistedRetry, Unmatched, YieldsToSynthesizer
  <2>6. ~SynthesizedRecovery
    BY DEF SynthesizedRecovery, ShouldSynthesize
  <2> QED
    BY <1>1, <2>3, <2>4, <2>5, <2>6
    DEF Prepare, PhaseGuardBlocks, TotalRecoveriesExhausted,
        SignatureExhausted, Stop
<1>3. CASE attempts' = attempts + 1
  BY <1>1, <1>3, ChanceTaken DEF Nearer, Inv
<1>4. CASE /\ attempts' = attempts
           /\ ~(action \in FixActions /\ lastExec = "needs_recovery")
  <2>1. Chances' = Chances
    BY <1>1, <1>4 DEF Chances
  <2>2. Credit' = Credit /\ Stage' < Stage
    BY <1>1, <1>4 DEF Credit, Stage
  <2> QED
    BY <1>1, <2>1, <2>2 DEF Nearer
<1> QED
  BY <1>2, <1>3, <1>4

\* An executor's answer uses up what its round was paid with, or a setup
\* retry.
LEMMA ExecuteNearer ==
    ASSUME Inv, Execute, phase' # "done"
    PROVE  Nearer
<1>1. /\ phase = "execute" /\ phase' = "settle"
      /\ UNCHANGED <<cycle, attempts>>
  BY ExecuteFrame
<1>2. \/ setupTries' = setupTries + 1
      \/ setupTries' = setupTries /\ lastExec' # "error"
  BY <1>1 DEF Execute, ExecutorSucceeds, NoWriteResumeAccepted, RecordSuccess,
     PolicyBlocks, ExecutorStalls, BackendBlocks, SetupErrorRecovered,
     ImplementationFails, Stop
<1>3. CASE setupTries' = setupTries + 1
  BY <1>1, <1>3, ChanceTaken DEF Nearer, Inv
<1>4. CASE setupTries' = setupTries /\ lastExec' # "error"
  <2>1. Chances' = Chances
    BY <1>1, <1>4 DEF Chances
  <2>2. Credit' < Credit
    BY <1>1, <1>4 DEF Credit
  <2> QED
    BY <2>1, <2>2 DEF Nearer
<1> QED
  BY <1>2, <1>3, <1>4

-----------------------------------------------------------------------------
(* What each kind of round does to what is due.                            *)

\* A design is made once, and hands the turn over.
LEMMA DesignDue ==
    ASSUME NEW c \in Context, c.mustFix = {}, NextAction(c) = "design"
    PROVE  Due(DesignDone(c)) < Due(c)
<1>1. c.role = "opus" /\ ~c.decided /\ ~c.started
  BY DEF NextAction, DesignPending
<1>2. DesignDone(c).mustFix = {} /\ DesignDone(c).decided
  BY DEF DesignDone, Context
<1>3. /\ DesignDone(c).verifyPassed = c.verifyPassed
      /\ DesignDone(c).gatePassed = c.gatePassed
      /\ DesignDone(c).selfCompleted = c.selfCompleted
      /\ DesignDone(c).role # "opus"
  BY DesignDoneFields
<1> QED
  BY <1>1, <1>2, <1>3 DEF Due, Bit

\* A verify that passes makes at most the gate due again.
LEMMA VerifyDue ==
    ASSUME NEW c \in Context, c.mustFix = {}, NextAction(c) = "verify",
           NEW d \in {RecordVerify(c, TRUE), ReopenAfterVerify(c)}
    PROVE  Due(d) < Due(c)
<1>1. ~c.verifyPassed /\ c.started
  BY VerifyAfterStart
<1>2. CASE d = ReopenAfterVerify(c)
  <2>1. d.mustFix = {EngineTopic}
    BY <1>2, ReopenFields
  <2> QED
    BY <1>1, <2>1, NothingDue DEF Due, Bit
<1>3. CASE d = RecordVerify(c, TRUE)
  <2>1. /\ d.verifyPassed /\ d.started = c.started /\ d.role # "opus"
        /\ d.mustFix = c.mustFix /\ d.selfCompleted = c.selfCompleted
    BY <1>3, RecordVerifyFields DEF SameTask
  <2> QED
    BY <1>1, <2>1 DEF Due, Bit
<1> QED
  BY <1>2, <1>3

\* A gate that passes makes both reviews due.
LEMMA GateDue ==
    ASSUME NEW c \in Context, c.mustFix = {}, NextAction(c) = "rules_gate",
           NEW d \in {RecordGate(c, TRUE), ReopenAfterGate(c)}
    PROVE  Due(d) < Due(c)
<1>1. ~c.gatePassed /\ c.verifyPassed /\ c.started
  BY GateAfterVerify
<1>2. CASE d = ReopenAfterGate(c)
  <2>1. d.mustFix = {EngineTopic}
    BY <1>2, ReopenFields
  <2> QED
    BY <1>1, <2>1, NothingDue DEF Due, Bit
<1>3. CASE d = RecordGate(c, TRUE)
  <2>1. /\ d.gatePassed /\ d.verifyPassed /\ d.started /\ d.mustFix = {}
    BY <1>1, <1>3, RecordGateFields DEF SameTask
  <2> QED
    BY <1>1, <2>1 DEF Due, Bit
<1> QED
  BY <1>2, <1>3

\* A verdict makes at most a self review due.
LEMMA ReviewDue ==
    ASSUME NEW c \in Context, c.mustFix = {}, NextAction(c) = "peer_review",
           NEW r \in Review, NEW scope
    PROVE  Due(RecordReview(c, r, scope)) < Due(c)
<1> DEFINE d == RecordReview(c, r, scope)
<1>1. c.role = "opus"
  BY DEF NextAction
<1>2. /\ d.started = c.started /\ d.decided = c.decided
      /\ d.verifyPassed = c.verifyPassed /\ d.gatePassed = c.gatePassed
      /\ d.role # "opus"
  <2>1. d.decided = c.decided
    BY DEF RecordReview, NoSelfReview, Context
  <2> QED
    BY <2>1, RecordReviewFields DEF SameTask
<1> HIDE DEF d
<1>3. CASE d.mustFix # {}
  <2>1. Due(d) = 0
    BY <1>3, NothingDue
  <2>2. Due(c) > 0
    BY <1>1 DEF Due, Bit
  <2> QED
    BY <2>1, <2>2 DEF d
<1>4. CASE d.mustFix = {}
  <2>1. Due(d) < Due(c)
    BY <1>1, <1>2, <1>4 DEF Due, Bit
  <2> QED
    BY <2>1 DEF d
<1> QED
  BY <1>3, <1>4

\* A self review makes nothing due, or leaves an item open.
LEMMA SelfReviewOver ==
    ASSUME NEW c \in Context, c.mustFix = {}, NextAction(c) = "self_review",
           NEW ok \in BOOLEAN
    PROVE  Due(RecordSelfReview(c, ok)) < Due(c)
<1> DEFINE d == RecordSelfReview(c, ok)
<1>1. ~c.selfCompleted
  BY DEF NextAction, SelfReviewDue
<1>2. /\ d.started = c.started /\ d.decided = c.decided
      /\ d.verifyPassed = c.verifyPassed /\ d.gatePassed = c.gatePassed
      /\ d.role # "opus" /\ d.selfCompleted
      /\ d.mustFix = {} \/ d.mustFix = {EngineTopic}
  <2>1. d.decided = c.decided /\ d.selfCompleted
    BY DEF RecordSelfReview, Context
  <2> QED
    BY <2>1, RecordSelfReviewFields DEF SameTask
<1> HIDE DEF d
<1>3. CASE d.mustFix # {}
  <2>1. Due(d) = 0
    BY <1>3, NothingDue
  <2>2. Due(c) > 0
    BY <1>1 DEF Due, Bit
  <2> QED
    BY <2>1, <2>2 DEF d
<1>4. CASE d.mustFix = {}
  <2>1. Due(d) < Due(c)
    BY <1>1, <1>2, <1>4 DEF Due, Bit
  <2> QED
    BY <2>1 DEF d
<1> QED
  BY <1>3, <1>4

\* A check, a design or a review is due no longer, or leaves an item open.
LEMMA RoundNearer ==
    ASSUME Inv, DesignRound \/ VerifyRound \/ GateRound \/ ReviewRound,
           phase' # "done"
    PROVE  Nearer
<1>1. PICK a \in {"design", "verify", "rules_gate", "peer_review",
                  "self_review"} : InRound(a)
  BY DEF DesignRound, VerifyRound, VerifyScopeViolation, VerifyPasses,
         VerifyFails, VerifyRetryFromCheckpoint, VerifyRetryInPlace,
         VerifyGivesUp, GateRound, GatePasses, GateBlocks,
         GateRetryFromCheckpoint, GateRollbackFails, GateRetryInPlace,
         GateGivesUp, ReviewRound, PeerReviewRound, SelfReviewRound,
         SelfReviewBlocks
<1>2. /\ phase = "round" /\ action = NextAction(ctx) /\ ctx \in Context
      /\ ctx.mustFix = {} /\ UNCHANGED <<budgetVars, recoveryVars, execVars>>
  BY <1>1, RoundStart
<1>3. phase' = "settle"
  BY DEF DesignRound, VerifyRound, VerifyScopeViolation, VerifyPasses,
         VerifyRetryFromCheckpoint, VerifyRetryInPlace,
         VerifyGivesUp, GateRound, GatePasses,
         GateRetryFromCheckpoint, GateRollbackFails, GateRetryInPlace,
         GateGivesUp, ReviewRound, PeerReviewRound, SelfReviewRound,
         SelfReviewBlocks, Stop, GoTo
<1>4. Chances' = Chances /\ Credit' = Credit
  BY <1>2, <1>3 DEF Chances, Credit, budgetVars, recoveryVars, execVars
<1>5. Due(ctx') < Due(ctx)
  <2>1. CASE DesignRound
    <3>1. ctx' = DesignDone(ctx) /\ NextAction(ctx) = "design"
      BY <1>2, <2>1 DEF DesignRound, InRound
    <3> QED
      BY <1>2, <3>1, DesignDue
  <2>2. CASE VerifyRound
    <3>1. /\ ctx' \in {RecordVerify(ctx, TRUE), ReopenAfterVerify(ctx)}
          /\ NextAction(ctx) = "verify"
      BY <1>2, <1>3, <2>2
      DEF VerifyRound, VerifyScopeViolation, VerifyPasses, VerifyFails,
          VerifyRetryFromCheckpoint, VerifyRetryInPlace, VerifyGivesUp,
          InRound, Stop
    <3> QED
      BY <1>2, <3>1, VerifyDue
  <2>3. CASE GateRound
    <3>1. /\ ctx' \in {RecordGate(ctx, TRUE), ReopenAfterGate(ctx)}
          /\ NextAction(ctx) = "rules_gate"
      BY <1>2, <1>3, <2>3
      DEF GateRound, GatePasses, GateBlocks, GateRetryFromCheckpoint,
          GateRollbackFails, GateRetryInPlace, GateGivesUp, InRound, Stop
    <3> QED
      BY <1>2, <3>1, GateDue
  <2>4. CASE PeerReviewRound
    <3>1. PICK r \in Review : InRound("peer_review") /\ PeerVerdict(r)
      BY <2>4 DEF PeerReviewRound
    <3>2. /\ ctx' = RecordReview(ctx, r, ReviewScope)
          /\ NextAction(ctx) = "peer_review"
      BY <1>2, <3>1 DEF InRound, PeerVerdict
    <3> QED
      BY <1>2, <3>2, ReviewDue
  <2>5. CASE SelfReviewRound
    <3>1. PICK ok \in BOOLEAN : /\ InRound("self_review")
                                /\ ctx' = RecordSelfReview(ctx, ok)
      BY <2>5 DEF SelfReviewRound
    <3>2. NextAction(ctx) = "self_review"
      BY <1>2, <3>1 DEF InRound
    <3> QED
      BY <1>2, <3>1, <3>2, SelfReviewOver
  <2>6. ~SelfReviewBlocks
    BY <1>3 DEF SelfReviewBlocks, Stop
  <2> QED
    BY <2>1, <2>2, <2>3, <2>4, <2>5, <2>6 DEF ReviewRound
<1> QED
  BY <1>4, <1>5 DEF Nearer

\* A pending recovery is withdrawn by a success, and by nothing else.
LEMMA FailedStep ==
    ASSUME Inv, FailedInv, [Next]_vars
    PROVE  FailedInv'
<1>1. CASE Execute
  <2>1. CASE phase' = "done"
    BY <2>1 DEF FailedInv
  <2>2. CASE phase' # "done"
    <3>1. \/ lastExec' \in {"needs_recovery", "error"}
          \/ ~card' /\ ~stalled'
      BY <1>1, <2>2
      DEF Execute, ExecutorSucceeds, NoWriteResumeAccepted, RecordSuccess,
          PolicyBlocks, ExecutorStalls, BackendBlocks, SetupErrorRecovered,
          ImplementationFails, Stop
    <3> QED
      BY <3>1 DEF FailedInv
  <2> QED
    BY <2>1, <2>2
<1>2. CASE Prepare
  BY <1>2 DEF FailedInv, Prepare, PhaseGuardBlocks, PrepareNothing,
     TotalRecoveriesExhausted, SignatureExhausted, DeterministicRecovery,
     UnassistedRetry, SynthesizedRecovery, Stop, GoTo
<1>3. CASE \/ phase' = "done"
           \/ /\ phase \notin {"prepare", "execute", "done"}
              /\ UNCHANGED <<card, stalled, lastExec>>
  BY <1>3 DEF FailedInv
<1>4. CASE DispatchNext
  BY <1>3, <1>4 DEF DispatchNext, Dispatch, recoveryVars, execVars
<1>5. CASE DesignRound \/ VerifyRound \/ GateRound \/ ReviewRound \/ ProceedRound
  <2>1. phase = "round" /\ UNCHANGED <<card, stalled, lastExec>>
    BY <1>5 DEF DesignRound, VerifyRound, VerifyScopeViolation, VerifyPasses,
       VerifyFails, VerifyRetryFromCheckpoint, VerifyRetryInPlace,
       VerifyGivesUp, GateRound, GatePasses, GateBlocks,
       GateRetryFromCheckpoint, GateRollbackFails, GateRetryInPlace,
       GateGivesUp, ReviewRound, PeerReviewRound, SelfReviewRound,
       SelfReviewBlocks, ProceedRound, FidelityGateBlocks, EvidenceBlocks,
       Proceeds, InRound, recoveryVars, execVars
  <2> QED
    BY <1>3, <2>1
<1>6. CASE Settle \/ TokenBudgetExceeded \/ PreflightReady \/ PreflightBlocks
  <2>1. /\ phase \in {"settle", "preflight"}
        /\ UNCHANGED <<card, stalled, lastExec>>
    BY <1>6 DEF Settle, SettleFixRound, SettlePeerReview, SettleOther,
       AfterRound, TokenBudgetExceeded, PreflightReady, PreflightBlocks,
       recoveryVars, execVars
  <2> QED
    BY <1>3, <2>1
<1>7. CASE UNCHANGED vars
  BY <1>7 DEF FailedInv, vars, roundVars, flowVars, recoveryVars, execVars
<1> QED
  BY <1>1, <1>2, <1>4, <1>5, <1>6, <1>7 DEF Next, RoundStep, Finished

\* Every step of a run that goes on brings its end nearer.
LEMMA StepNearer ==
    ASSUME ~UnmatchedBlocks, ~Synthesizer, Inv, FailedInv, Next,
           phase # "done", phase' # "done"
    PROVE  Nearer
<1>1. CASE RoundStep /\ UNCHANGED loopVars
  <2>1. ~ProceedRound /\ ~TokenBudgetExceeded
    BY DEF ProceedRound, FidelityGateBlocks, EvidenceBlocks, Proceeds,
           TokenBudgetExceeded, Stop
  <2> QED
    BY <1>1, <2>1, DispatchNearer, PrepareNearer, ExecuteNearer, RoundNearer
    DEF RoundStep
<1>2. CASE Settle \/ PreflightReady
  <2>1. /\ phase \in {"settle", "preflight"} /\ phase' = "dispatch"
        /\ UNCHANGED <<ctx, cycle, attempts, setupTries, lastExec>>
    BY <1>2 DEF Settle, SettleFixRound, SettlePeerReview, SettleOther,
       AfterRound, PreflightReady, Stop, GoTo, budgetVars, recoveryVars,
       execVars
  <2>2. Chances' = Chances
    BY <2>1 DEF Chances
  <2>3. Credit' = Credit /\ Stage' < Stage
    BY <2>1 DEF Credit, Stage
  <2> QED
    BY <2>1, <2>2, <2>3 DEF Nearer
<1>3. ~PreflightBlocks /\ ~Finished
  BY DEF PreflightBlocks, Finished, Stop
<1> QED
  BY <1>1, <1>2, <1>3 DEF Next

\* In numbers.
LEMMA StepFalls ==
    ASSUME ~UnmatchedBlocks, ~Synthesizer, Inv, Inv', FailedInv, Next,
           phase # "done"
    PROVE  Left' \in Nat /\ Left' < Left
<1>1. CASE phase' = "done"
  <2>1. Left' = 0
    BY <1>1 DEF Left
  <2>2. Worth \in Nat /\ Stage \in 0 .. 3 /\ Due(ctx) \in 0 .. 31
    BY LeftTypes, WorthType, DueType DEF Inv, Worth
  <2>3. \A x \in Nat, d \in 0 .. 31, s \in 0 .. 3 :
            0 < 1 + 4 * (32 * x + d) + s
    OBVIOUS
  <2> QED
    BY <2>1, <2>2, <2>3 DEF Left
<1>2. CASE phase' # "done"
  BY <1>2, StepNearer, LeftFalls DEF Inv
<1> QED
  BY <1>1, <1>2

\* Where every recoverable block matches a detector and no synthesizer is
\* asked, every step of a run brings its end nearer, whatever the executor,
\* the checks and the reviewer answer: the rounds that max_cycles lets
\* through are paid with recovery attempts or setup retries.
THEOREM RunsAreBounded ==
    ASSUME ~UnmatchedBlocks, ~Synthesizer
    PROVE  Spec => [][phase # "done" => Left' \in Nat /\ Left' < Left]_vars
<1>1. Init => Inv /\ FailedInv
  BY InitInv DEF Init, RoundInit, FailedInv
<1>2. Inv /\ FailedInv /\ [Next]_vars => Inv' /\ FailedInv'
  BY NextInv, FailedStep
<1>3. Inv /\ Inv' /\ FailedInv /\ [Next]_vars =>
          [phase # "done" => Left' \in Nat /\ Left' < Left]_vars
  BY StepFalls
<1> QED
  BY <1>1, <1>2, <1>3, PTL DEF Spec
=============================================================================
