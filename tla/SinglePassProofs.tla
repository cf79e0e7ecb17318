-------------------------- MODULE SinglePassProofs --------------------------
(***************************************************************************)
(* The loop without a reviewer, for every value of its constants: what is  *)
(* handed to the gate has passed the rules gate, and with review evidence  *)
(* enforced it is verified and finished.                                   *)
(*                                                                         *)
(* Nothing resolves the next action here, so the argument is about the     *)
(* place in the script: which checks lie behind, and what an item that is  *)
(* still open says of them.                                                *)
(***************************************************************************)
EXTENDS SinglePass, CollaborationProofs

\* The last action of the script that has been dispatched.
Current == IF step = 0 THEN "start" ELSE script[step]

Finals == {"proceed_to_gate", "finish"}

ScriptInv ==
    /\ script \in Scripts /\ step \in 0 .. Len(script)
    /\ ctx \in Context /\ ~ctx.peerEnabled

\* Between two actions neither the first nor the last of the script is left to
\* repeat; a recovery belongs to the implement action.
PlaceInv ==
    /\ phase \in {"dispatch", "prepare", "execute", "round", "settle", "done"}
    /\ phase \in {"dispatch", "settle"} => Current \notin Finals
    /\ phase = "settle" => Current # "start"
    /\ phase \in {"prepare", "execute"} => Current = "implement"
    /\ phase = "round" => action = Current /\ Current \notin {"start", "implement"}

\* The round of action a is over, or the run has come further.
Behind(a) ==
    LET next == CASE a = "implement" -> {"verify", "rules_gate", "proceed_to_gate"}
                  [] a = "verify" -> {"rules_gate", "proceed_to_gate"}
                  [] a = "rules_gate" -> {"proceed_to_gate"}
    IN  \/ phase \in {"dispatch", "settle"} /\ Current \in next \cup {a}
        \/ phase = "round" /\ Current \in next

Done == {"done_write", "done_idle"}

\* The gate only lets a run go on that has passed it; an executor that is not
\* done and a verify that fails go on, but leave an item open.
BehindInv ==
    /\ Behind("rules_gate") => "gate" \in fresh /\ gateCheck = "passed"
    /\ Behind("implement") /\ ctx.mustFix = {} => lastExec \in Done
    /\ Behind("verify") /\ ctx.mustFix = {} => "verify" \in fresh

DeliveredInv ==
    /\ phase # "done" => reason # "PROCEED_TO_GATE"
    /\ reason = "PROCEED_TO_GATE" =>
          /\ "gate" \in fresh /\ gateCheck = "passed"
          /\ EvidenceMode \in {"enforced", "require_real"} =>
                "verify" \in fresh /\ lastExec \in Done

PassInv == ScriptInv /\ PlaceInv /\ BehindInv /\ DeliveredInv

-----------------------------------------------------------------------------
\* What follows what in a script.
LEMMA ScriptOrder ==
    ASSUME script \in Scripts, step \in 0 .. Len(script), Current \notin Finals
    PROVE  /\ step + 1 \in 0 .. Len(script) /\ step + 1 # 0
           /\ Current = "start" => script[step + 1] = "design"
           /\ Current = "design" => script[step + 1] = "implement"
           /\ Current = "implement" => script[step + 1] \in {"verify", "finish"}
           /\ Current = "verify" => script[step + 1] = "rules_gate"
           /\ Current = "rules_gate" => script[step + 1] = "proceed_to_gate"
           /\ Current \in {"start", "design", "implement", "verify", "rules_gate"}
  <1>1. CASE script = <<"design", "implement", "verify", "rules_gate", "proceed_to_gate">>
    <2>1. Len(script) = 5 /\ step \in {0, 1, 2, 3, 4, 5}
      BY <1>1, SMT
    <2>2. step # 5
      BY <1>1, SMT DEF Current, Finals
    <2> QED  BY <1>1, <2>1, <2>2, SMT DEF Current
  <1>2. CASE script = <<"design", "implement", "finish">>
    <2>1. Len(script) = 3 /\ step \in {0, 1, 2, 3}
      BY <1>2, SMT
    <2>2. step # 3
      BY <1>2, SMT DEF Current, Finals
    <2> QED  BY <1>2, <2>1, <2>2, SMT DEF Current
  <1> QED  BY <1>1, <1>2 DEF Scripts

-----------------------------------------------------------------------------
(* The initial states.                                                     *)

\* A run starts before its script, with nothing handed on.
LEMMA InitPass == Init => PassInv
<1> SUFFICES ASSUME Init PROVE PassInv
  OBVIOUS
<1>1. PICK decided \in BOOLEAN, selfRequired \in BOOLEAN,
           mustFix \in {{}, {EngineTopic}} :
          ctx = NewContext("codex", decided, FALSE, selfRequired, mustFix)
  BY DEF Init
<1>2. ctx \in Context /\ ~ctx.peerEnabled
  <2>1. ctx \in Context
    BY <1>1, NewContextType DEF Roles, AllTopics
  <2>2. ~ctx.peerEnabled
    BY <1>1 DEF NewContext
  <2> QED  BY <2>1, <2>2
<1>3. script \in Scripts /\ step = 0 /\ 0 \in 0 .. Len(script)
  <2>1. script \in Scripts /\ step = 0
    BY DEF Init
  <2>2. Len(script) \in {3, 5}
    BY <2>1, SMT DEF Scripts
  <2> QED  BY <2>1, <2>2
<1>4. Current = "start" /\ phase = "dispatch" /\ reason = "none"
  BY <1>3 DEF Current, Init, RoundInit
<1>5. BehindInv
  BY <1>4 DEF BehindInv, Behind
<1> QED
  BY <1>2, <1>3, <1>4, <1>5
  DEF PassInv, ScriptInv, PlaceInv, DeliveredInv, Finals

-----------------------------------------------------------------------------
(* Two ways to finish the proof of a step.                                 *)

\* A run that ends for another reason has nothing to answer for.
LEMMA StoppedPass ==
    ASSUME ScriptInv', phase' = "done", reason' # "PROCEED_TO_GATE"
    PROVE  PassInv'
BY DEF PassInv, PlaceInv, BehindInv, Behind, DeliveredInv

\* A run that goes on has delivered nothing yet.
LEMMA OngoingPass ==
    ASSUME DeliveredInv, phase # "done", reason' = reason,
           ScriptInv', PlaceInv', BehindInv', phase' # "done"
    PROVE  PassInv'
BY DEF PassInv, DeliveredInv

\* A round does not move the run along its script.
LEMMA SamePlace ==
    ASSUME ScriptInv, UNCHANGED passVars, ctx' \in Context, ~ctx'.peerEnabled
    PROVE  Current' = Current /\ ScriptInv'
BY DEF ScriptInv, Current, passVars

-----------------------------------------------------------------------------
(* Dispatching.                                                            *)

\* The next action of the script is dispatched: its predecessors lie behind.
LEMMA DispatchScriptPass ==
    ASSUME PassInv, DispatchScript
    PROVE  PassInv'
<1> DEFINE a == script[step + 1]
<1>1. /\ phase = "dispatch" /\ step' = step + 1 /\ script' = script
      /\ action' = a /\ ctx' = ctx /\ fresh' = fresh
      /\ gateCheck' = gateCheck /\ lastExec' = lastExec
      /\ \/ phase' = "done" /\ reason' = "MAX_CYCLES_REACHED"
         \/ /\ phase' = IF a \in ExecutorActions THEN "prepare" ELSE "round"
            /\ reason' = reason
  BY DEF DispatchScript, Dispatch, checkVars, execVars, historyVars
<1>2. script \in Scripts /\ step \in 0 .. Len(script) /\ Current \notin Finals
  BY <1>1 DEF PassInv, ScriptInv, PlaceInv
<1>3. /\ step + 1 \in 0 .. Len(script) /\ step + 1 # 0
      /\ Current = "start" => a = "design"
      /\ Current = "design" => a = "implement"
      /\ Current = "implement" => a \in {"verify", "finish"}
      /\ Current = "verify" => a = "rules_gate"
      /\ Current = "rules_gate" => a = "proceed_to_gate"
      /\ Current \in {"start", "design", "implement", "verify", "rules_gate"}
  BY <1>2, ScriptOrder
<1> HIDE DEF a
<1>4. Current' = a
  BY <1>1, <1>3 DEF Current, a
<1>5. ScriptInv'
  BY <1>1, <1>3 DEF PassInv, ScriptInv
<1>6. CASE phase' = "done"
  BY <1>1, <1>5, <1>6, StoppedPass
<1>7. CASE phase' # "done"
  <2>1. phase' = IF a \in ExecutorActions THEN "prepare" ELSE "round"
    BY <1>1, <1>7
  <2>2. PlaceInv'
    BY <1>1, <1>3, <1>4, <2>1 DEF PlaceInv, ExecutorActions
  <2>3. BehindInv'
    BY <1>1, <1>3, <1>4, <2>1 DEF PassInv, BehindInv, Behind, ExecutorActions
  <2>4. reason' = reason /\ phase # "done" /\ DeliveredInv
    BY <1>1, <1>7 DEF PassInv
  <2> QED  BY <1>5, <1>7, <2>2, <2>3, <2>4, OngoingPass
<1> QED
  BY <1>6, <1>7

\* A recovery repeats the implement action of the script.
LEMMA DispatchRecoveryPass ==
    ASSUME PassInv, DispatchRecovery
    PROVE  PassInv'
<1>1. /\ phase = "dispatch" /\ UNCHANGED <<script, step>>
      /\ step # 0 /\ script[step] = "implement" /\ ctx' = ctx
      /\ \/ phase' = "done" /\ reason' = "MAX_CYCLES_REACHED"
         \/ phase' = "prepare" /\ reason' = reason
  <2>1. step # 0
    BY DEF DispatchRecovery, Implementing, PassInv, ScriptInv
  <2> QED
    BY <2>1 DEF DispatchRecovery, Implementing, Dispatch, ExecutorActions
<1>2. ScriptInv' /\ Current' = "implement"
  BY <1>1 DEF PassInv, ScriptInv, Current
<1>3. CASE phase' = "done"
  BY <1>1, <1>2, <1>3, StoppedPass
<1>4. CASE phase' # "done"
  BY <1>1, <1>2, <1>4, OngoingPass DEF PassInv, PlaceInv, BehindInv, Behind
<1> QED
  BY <1>3, <1>4

-----------------------------------------------------------------------------
(* Executor rounds.                                                        *)

\* Preparing an executor round changes neither the context nor the place.
LEMMA PreparePass ==
    ASSUME PassInv, Prepare, UNCHANGED passVars
    PROVE  PassInv'
<1>1. /\ phase = "prepare" /\ ctx' = ctx
      /\ \/ phase' = "execute" /\ reason' = reason
         \/ phase' = "done" /\ reason' # "PROCEED_TO_GATE"
  BY DEF Prepare, PhaseGuardBlocks, PrepareNothing, TotalRecoveriesExhausted,
         SignatureExhausted, DeterministicRecovery, UnassistedRetry,
         SynthesizedRecovery, MayRecover, Stop, GoTo, preparedVars
<1>2. ScriptInv' /\ Current' = Current /\ Current = "implement"
  BY <1>1, SamePlace DEF PassInv, ScriptInv, PlaceInv
<1>3. CASE phase' = "done"
  BY <1>1, <1>2, <1>3, StoppedPass
<1>4. CASE phase' = "execute"
  BY <1>1, <1>2, <1>4, OngoingPass DEF PassInv, PlaceInv, BehindInv, Behind
<1> QED
  BY <1>1, <1>3, <1>4

\* The executor is done, or its work is an open item, or the run ends.
LEMMA ExecuteFrame ==
    ASSUME PassInv, Execute
    PROVE  /\ phase = "execute" /\ ctx' \in Context /\ ~ctx'.peerEnabled
           /\ \/ phase' = "done" /\ reason' # "PROCEED_TO_GATE"
              \/ /\ phase' = "settle" /\ reason' = reason
                 /\ ctx'.mustFix = {} => lastExec' \in Done
<1>1. ctx \in Context /\ ~ctx.peerEnabled
  BY DEF PassInv, ScriptInv
<1>2. Started \in Context /\ ~Started.peerEnabled
  BY <1>1, ExecutorType DEF Started, Context
<1>3. ASSUME NEW wrote \in BOOLEAN, ExecutorCalled, RecordSuccess(wrote)
      PROVE  /\ ctx' \in Context /\ ~ctx'.peerEnabled
             /\ phase' = "settle" /\ reason' = reason /\ lastExec' \in Done
  <2>1. ctx' = ExecutorDone(Started, action) /\ lastExec' \in Done
        /\ phase' = "settle" /\ reason' = reason
    BY <1>3 DEF RecordSuccess, GoTo, Done
  <2>2. ctx' \in Context
    BY <1>2, <2>1, ExecutorType
  <2>3. SameTask(Started, ctx')
    BY <1>2, <2>1, ExecutorDoneFields
  <2> QED  BY <1>2, <2>1, <2>2, <2>3 DEF SameTask
<1>4. /\ RequestRecovery(Started) \in Context
      /\ ~RequestRecovery(Started).peerEnabled
      /\ RequestRecovery(Started).mustFix # {}
  <2>1. RequestRecovery(Started) \in Context
    BY <1>2, ExecutorType
  <2>2. /\ SameTask(Started, RequestRecovery(Started))
        /\ RequestRecovery(Started).mustFix = {EngineTopic}
    BY <1>2, RequestRecoveryFields
  <2> QED  BY <1>2, <2>1, <2>2 DEF SameTask
<1>5. CASE ExecutorSucceeds \/ NoWriteResumeAccepted
  BY <1>3, <1>5 DEF ExecutorSucceeds, NoWriteResumeAccepted, ExecutorCalled
<1>6. CASE ExecutorStalls \/ SetupErrorRecovered
  BY <1>4, <1>6 DEF ExecutorStalls, SetupErrorRecovered, ExecutorCalled, GoTo
<1>7. CASE PolicyBlocks \/ BackendBlocks \/ ImplementationFails
  BY <1>2, <1>7 DEF PolicyBlocks, BackendBlocks, ImplementationFails,
                    ExecutorCalled, Stop
<1> QED
  BY <1>5, <1>6, <1>7 DEF Execute

\* An executor round keeps the invariant.
LEMMA ExecutePass ==
    ASSUME PassInv, Execute, UNCHANGED passVars
    PROVE  PassInv'
<1>1. ScriptInv' /\ Current' = Current /\ Current = "implement"
  BY ExecuteFrame, SamePlace DEF PassInv, PlaceInv
<1>2. CASE phase' = "done"
  BY <1>1, <1>2, ExecuteFrame, StoppedPass
<1>3. CASE phase' = "settle"
  <2>1. PlaceInv'
    BY <1>1, <1>3 DEF PlaceInv, Finals
  <2>2. BehindInv'
    BY <1>1, <1>3, ExecuteFrame DEF BehindInv, Behind
  <2> QED  BY <1>1, <1>3, <2>1, <2>2, ExecuteFrame, OngoingPass DEF PassInv
<1> QED
  BY <1>2, <1>3, ExecuteFrame

-----------------------------------------------------------------------------
(* The other rounds.                                                       *)

\* A design leaves the executor and the checks alone.
LEMMA DesignPass ==
    ASSUME PassInv, DesignRound, UNCHANGED passVars
    PROVE  PassInv'
<1>1. /\ phase = "round" /\ action = "design" /\ ctx' = DesignDone(ctx)
      /\ phase' = "settle" /\ reason' = reason
  BY DEF DesignRound, InRound, GoTo
<1>2. ctx' \in Context /\ ~ctx'.peerEnabled
  BY <1>1, ExecutorType, DesignDoneFields DEF PassInv, ScriptInv, SameTask
<1>3. ScriptInv' /\ Current' = Current /\ Current = "design"
  BY <1>1, <1>2, SamePlace DEF PassInv, PlaceInv
<1>4. PlaceInv' /\ BehindInv'
  BY <1>1, <1>3 DEF PlaceInv, BehindInv, Behind, Finals
<1> QED
  BY <1>1, <1>3, <1>4, OngoingPass DEF PassInv

\* A verify passes, leaves an open item, or ends the run; without a reviewer
\* no rollback takes place.
LEMMA VerifyFrame ==
    ASSUME PassInv, VerifyRound
    PROVE  /\ phase = "round" /\ action = "verify" /\ lastExec' = lastExec
           /\ ctx' \in Context /\ ~ctx'.peerEnabled
           /\ \/ phase' = "done" /\ reason' # "PROCEED_TO_GATE"
              \/ /\ phase' = "settle" /\ reason' = reason
                 /\ \/ ctx'.mustFix = ctx.mustFix /\ "verify" \in fresh'
                    \/ ctx'.mustFix # {}
<1>1. ctx \in Context /\ ~ctx.peerEnabled
  BY DEF PassInv, ScriptInv
<1>2. /\ RecordVerify(ctx, TRUE) \in Context
      /\ ~RecordVerify(ctx, TRUE).peerEnabled
      /\ RecordVerify(ctx, TRUE).mustFix = ctx.mustFix
  BY <1>1, RecordType, RecordVerifyFields DEF SameTask
<1>3. /\ ReopenAfterVerify(ctx) \in Context
      /\ ~ReopenAfterVerify(ctx).peerEnabled
      /\ ReopenAfterVerify(ctx).mustFix # {}
  <2>1. ReopenAfterVerify(ctx) \in Context
    BY <1>1, ExecutorType
  <2>2. /\ SameTask(ctx, ReopenAfterVerify(ctx))
        /\ ReopenAfterVerify(ctx).mustFix = {EngineTopic}
    BY <1>1, ReopenFields
  <2> QED  BY <1>1, <2>1, <2>2 DEF SameTask
<1>4. CASE VerifyPasses
  BY <1>2, <1>4 DEF VerifyPasses, InRound, GoTo, execVars
<1>5. CASE VerifyRetryFromCheckpoint \/ VerifyRetryInPlace
  BY <1>3, <1>5 DEF VerifyRetryFromCheckpoint, VerifyRetryInPlace, VerifyFails,
                    InRound, GoTo, execVars
<1>6. CASE VerifyScopeViolation \/ VerifyGivesUp
  BY <1>1, <1>6 DEF VerifyScopeViolation, VerifyGivesUp, VerifyFails, InRound,
                    Stop, execVars
<1> QED
  BY <1>4, <1>5, <1>6 DEF VerifyRound

\* A verify round keeps the invariant.
LEMMA VerifyPass ==
    ASSUME PassInv, VerifyRound, UNCHANGED passVars
    PROVE  PassInv'
<1>1. ScriptInv' /\ Current' = Current /\ Current = "verify"
  BY VerifyFrame, SamePlace DEF PassInv, PlaceInv
<1>2. CASE phase' = "done"
  BY <1>1, <1>2, VerifyFrame, StoppedPass
<1>3. CASE phase' = "settle"
  <2>1. PlaceInv'
    BY <1>1, <1>3 DEF PlaceInv, Finals
  <2>2. ctx.mustFix = {} => lastExec \in Done
    BY <1>1, VerifyFrame DEF PassInv, BehindInv, Behind
  <2>3. BehindInv'
    BY <1>1, <1>3, <2>2, VerifyFrame DEF BehindInv, Behind
  <2> QED  BY <1>1, <1>3, <2>1, <2>3, VerifyFrame, OngoingPass DEF PassInv
<1> QED
  BY <1>2, <1>3, VerifyFrame

\* Without a reviewer only a gate that passes lets the run go on.
LEMMA GatePass ==
    ASSUME PassInv, GateRound, UNCHANGED passVars
    PROVE  PassInv'
<1>1. ctx \in Context /\ ~ctx.peerEnabled
  BY DEF PassInv, ScriptInv
<1>2. GatePasses \/ GateGivesUp
  BY <1>1 DEF GateRound, GateRetryFromCheckpoint, GateRollbackFails,
              GateRetryInPlace, MayRollBack
<1>3. CASE GateGivesUp
  <2>1. phase' = "done" /\ reason' # "PROCEED_TO_GATE" /\ ctx' = ctx
    BY <1>3 DEF GateGivesUp, Stop
  <2>2. ScriptInv'
    BY <1>1, <2>1, SamePlace DEF PassInv
  <2> QED  BY <2>1, <2>2, StoppedPass
<1>4. CASE GatePasses
  <2>1. /\ phase = "round" /\ action = "rules_gate"
        /\ ctx' = RecordGate(ctx, TRUE)
        /\ phase' = "settle" /\ reason' = reason /\ lastExec' = lastExec
        /\ gateCheck' = "passed" /\ fresh' = fresh \cup {"gate"}
    BY <1>4 DEF GatePasses, InRound, GoTo, execVars
  <2>2. ctx' \in Context /\ ~ctx'.peerEnabled /\ ctx'.mustFix = ctx.mustFix
    BY <1>1, <2>1, RecordType, RecordGateFields DEF SameTask
  <2>3. ScriptInv' /\ Current' = Current /\ Current = "rules_gate"
    BY <2>1, <2>2, SamePlace DEF PassInv, PlaceInv
  <2>4. ctx.mustFix = {} => lastExec \in Done /\ "verify" \in fresh
    BY <2>1, <2>3 DEF PassInv, BehindInv, Behind
  <2>5. PlaceInv'
    BY <2>1, <2>3 DEF PlaceInv, Finals
  <2>6. BehindInv'
    BY <2>1, <2>2, <2>3, <2>4 DEF BehindInv, Behind
  <2> QED  BY <2>1, <2>3, <2>5, <2>6, OngoingPass DEF PassInv
<1> QED
  BY <1>2, <1>3, <1>4

\* What is handed to the gate lies behind all the script's checks, and with
\* the evidence enforced no item is open.
LEMMA ProceedPass ==
    ASSUME PassInv, ProceedRound \/ FinishRound, UNCHANGED passVars
    PROVE  PassInv'
<1>1. phase' = "done" /\ ctx' \in Context /\ ~ctx'.peerEnabled
  <2>1. ctx \in Context /\ ~ctx.peerEnabled
    BY DEF PassInv, ScriptInv
  <2>2. /\ [ctx EXCEPT !.approved = FALSE, !.mustFix = {EngineTopic}] \in Context
        /\ ~[ctx EXCEPT !.approved = FALSE, !.mustFix = {EngineTopic}].peerEnabled
    BY <2>1 DEF Context, AllTopics
  <2> QED
    BY <2>1, <2>2 DEF ProceedRound, FinishRound, FidelityGateBlocks,
                      EvidenceBlocks, Proceeds, Stop
<1>2. ScriptInv' /\ Current' = Current
  BY <1>1, SamePlace DEF PassInv
<1>3. CASE reason' # "PROCEED_TO_GATE"
  BY <1>1, <1>2, <1>3, StoppedPass
<1>4. CASE reason' = "PROCEED_TO_GATE"
  <2>1. Proceeds
    BY <1>4 DEF ProceedRound, FinishRound, FidelityGateBlocks, EvidenceBlocks,
                Stop
  <2>2. /\ phase = "round" /\ action = "proceed_to_gate"
        /\ UNCHANGED <<fresh, gateCheck, lastExec>>
        /\ EvidenceMode \in {"enforced", "require_real"} => ctx.mustFix = {}
    BY <2>1 DEF Proceeds, InRound, EvidenceFails, checkVars, execVars,
                historyVars
  <2>3. Current = "proceed_to_gate"
    BY <2>2 DEF PassInv, PlaceInv
  <2>4. DeliveredInv'
    BY <1>1, <1>4, <2>2, <2>3 DEF PassInv, BehindInv, Behind, DeliveredInv
  <2>5. PlaceInv' /\ BehindInv'
    BY <1>1 DEF PlaceInv, BehindInv, Behind
  <2> QED  BY <1>2, <2>4, <2>5 DEF PassInv
<1> QED
  BY <1>3, <1>4

-----------------------------------------------------------------------------
(* Settling, and every step.                                               *)

\* A settled round is still the one last dispatched.
LEMMA SettlePass ==
    ASSUME PassInv,
           \/ Settle \/ RecoveryRequired
           \/ TokenBudgetExceeded /\ UNCHANGED passVars
    PROVE  PassInv'
<1>1. /\ UNCHANGED <<ctx, fresh, gateCheck, lastExec, passVars>>
      /\ \/ phase' = "done" /\ reason' # "PROCEED_TO_GATE"
         \/ phase = "settle" /\ phase' = "dispatch" /\ reason' = reason
  BY DEF Settle, RecoveryRequired, TokenBudgetExceeded, Stop, GoTo, checkVars,
         execVars, historyVars
<1>2. ScriptInv' /\ Current' = Current
  BY <1>1, SamePlace DEF PassInv, ScriptInv
<1>3. CASE phase' = "done"
  BY <1>1, <1>2, <1>3, StoppedPass
<1>4. CASE phase' = "dispatch"
  <2>1. PlaceInv' /\ BehindInv'
    BY <1>1, <1>2, <1>4 DEF PassInv, PlaceInv, BehindInv, Behind
  <2> QED  BY <1>1, <1>2, <1>4, <2>1, OngoingPass DEF PassInv
<1> QED
  BY <1>1, <1>3, <1>4

\* Every step keeps the invariant.
LEMMA NextPass ==
    ASSUME PassInv, [Next]_vars
    PROVE  PassInv'
<1>1. CASE UNCHANGED vars
  <2>1. UNCHANGED <<ctx, phase, action, reason, fresh, gateCheck, lastExec,
                    script, step>>
    BY <1>1 DEF vars, roundVars, flowVars, checkVars, execVars, historyVars,
                passVars
  <2>2. Current' = Current
    BY <2>1 DEF Current
  <2>3. ScriptInv' /\ PlaceInv' /\ BehindInv' /\ DeliveredInv'
    BY <2>1, <2>2 DEF PassInv, ScriptInv, PlaceInv, BehindInv, Behind,
                      DeliveredInv
  <2> QED  BY <2>3 DEF PassInv
<1>2. CASE RoundStep /\ UNCHANGED passVars
  BY <1>2, PreparePass, ExecutePass, DesignPass, VerifyPass, GatePass,
     ProceedPass, SettlePass DEF RoundStep
<1>3. CASE DispatchScript \/ DispatchRecovery \/ RecoveryRequired \/ Settle
  BY <1>3, DispatchScriptPass, DispatchRecoveryPass, SettlePass
<1> QED
  BY <1>1, <1>2, <1>3 DEF Next, Finished

-----------------------------------------------------------------------------
(* The theorems.                                                           *)

\* The invariant of a run without a reviewer.
THEOREM PassInvariance == Spec => []PassInv
<1>1. Init => PassInv
  BY InitPass
<1>2. PassInv /\ [Next]_vars => PassInv'
  BY NextPass
<1> QED
  BY <1>1, <1>2, PTL DEF Spec

\* What _run_proceed_round hands on without a reviewer has passed the rules
\* gate as it stands, whatever the executor, verify and the gate answered.
THEOREM DeliveredIsGated == Spec => []DeliveredTreeIsGated
<1>1. PassInv => DeliveredTreeIsGated
  BY DEF PassInv, DeliveredInv, DeliveredTreeIsGated
<1> QED
  BY <1>1, PassInvariance, PTL

\* With review evidence enforced, what is handed on is also verified as it
\* stands, and the executor has finished it: the two failures that a fixed
\* script walks past leave an item open, which stops the run at its end.
THEOREM EvidenceProtects == Spec => []EnforcedEvidenceProtects
<1>1. PassInv => EnforcedEvidenceProtects
  BY DEF PassInv, DeliveredInv, EnforcedEvidenceProtects,
         DeliveredTreeIsVerified, DeliveredWorkIsFinished, Done
<1> QED
  BY <1>1, PassInvariance, PTL

-----------------------------------------------------------------------------
(* The end of a run.                                                       *)

\* How far an iteration is from its end.
Rank ==
    CASE phase = "prepare" -> 4
      [] phase \in {"execute", "round"} -> 3
      [] phase = "settle" -> 2
      [] phase = "dispatch" -> 1
      [] phase = "done" -> 0

\* What is left of a run: actions of the script, recoveries, and the iteration.
Left == 5 * ((Len(script) - step) + (MaxRecoveries - tries)) + Rank

TriesInv == PassInv /\ tries \in 0 .. MaxRecoveries

LEMMA TriesStep == TriesInv /\ [Next]_vars => TriesInv'
<1> SUFFICES ASSUME TriesInv, [Next]_vars PROVE TriesInv'
  OBVIOUS
<1>1. PassInv'
  BY NextPass DEF TriesInv
<1>2. MaxRecoveries \in Nat
  BY LoopAssumption
<1>3. CASE DispatchRecovery
  <2>1. tries < MaxRecoveries /\ tries' = tries + 1
    BY <1>3 DEF DispatchRecovery
  <2> QED  BY <1>1, <1>2, <2>1, SMT DEF TriesInv
<1>4. CASE ~DispatchRecovery
  <2>1. tries' = tries
    BY <1>4 DEF Next, DispatchScript, RecoveryRequired, Settle, Finished,
                vars, passVars
  <2> QED  BY <1>1, <2>1 DEF TriesInv
<1> QED
  BY <1>3, <1>4

\* A step of a round brings its end nearer and leaves the rest as it is.
LEMMA RoundStepCounts ==
    ASSUME PassInv, RoundStep
    PROVE  \/ phase = "prepare" /\ phase' \in {"execute", "done"}
           \/ phase \in {"execute", "round"} /\ phase' \in {"settle", "done"}
           \/ phase = "settle" /\ phase' = "done"
<1>1. CASE Prepare
  BY <1>1 DEF Prepare, PhaseGuardBlocks, PrepareNothing,
     TotalRecoveriesExhausted, SignatureExhausted, DeterministicRecovery,
     UnassistedRetry, SynthesizedRecovery, MayRecover, Stop, GoTo
<1>2. CASE Execute
  BY <1>2, ExecuteFrame
<1>3. CASE DesignRound \/ VerifyRound
  BY <1>3 DEF DesignRound, VerifyRound, VerifyScopeViolation, VerifyPasses,
     VerifyFails, VerifyRetryFromCheckpoint, VerifyRetryInPlace, VerifyGivesUp,
     InRound, Stop, GoTo
<1>4. CASE GateRound
  BY <1>4 DEF GateRound, GatePasses, GateBlocks, GateRetryFromCheckpoint,
     GateRollbackFails, GateRetryInPlace, GateGivesUp, InRound, Stop, GoTo
<1>5. CASE ProceedRound \/ FinishRound \/ TokenBudgetExceeded
  BY <1>5 DEF ProceedRound, FidelityGateBlocks, EvidenceBlocks, Proceeds,
     FinishRound, TokenBudgetExceeded, InRound, Stop
<1> QED
  BY <1>1, <1>2, <1>3, <1>4, <1>5 DEF RoundStep

LEMMA StepCounts ==
    ASSUME TriesInv, TriesInv', Next, phase # "done"
    PROVE  Left' \in Nat /\ Left' < Left
<1>1. /\ step \in 0 .. Len(script) /\ Len(script) \in Nat
      /\ tries \in 0 .. MaxRecoveries /\ MaxRecoveries \in Nat
      /\ Rank \in 0 .. 4 /\ Rank' \in 0 .. 4
  <2>1. step \in 0 .. Len(script) /\ Len(script) \in {3, 5}
    BY SMT DEF TriesInv, PassInv, ScriptInv, Scripts
  <2>2. Rank \in 0 .. 4 /\ Rank' \in 0 .. 4
    BY DEF TriesInv, PassInv, PlaceInv, Rank
  <2> QED
    BY <2>1, <2>2, LoopAssumption DEF TriesInv
<1>2. Left' \in Nat
  <2>1. step' \in 0 .. Len(script') /\ Len(script') \in {3, 5}
    BY SMT DEF TriesInv, PassInv, ScriptInv, Scripts
  <2>2. tries' \in 0 .. MaxRecoveries
    BY DEF TriesInv
  <2> QED
    BY <1>1, <2>1, <2>2, SMT DEF Left
<1>3. CASE UNCHANGED passVars /\ Rank' < Rank
  <2>1. UNCHANGED <<script, step, tries>>
    BY <1>3 DEF passVars
  <2> QED
    BY <1>1, <1>3, <2>1, SMT DEF Left
<1>4. CASE RoundStep /\ UNCHANGED passVars
  <2>1. Rank' < Rank
    BY <1>4, RoundStepCounts DEF TriesInv, Rank
  <2> QED
    BY <1>3, <1>4, <2>1
<1>5. CASE RecoveryRequired \/ Settle
  <2>1. Rank' < Rank /\ UNCHANGED passVars
    BY <1>5 DEF RecoveryRequired, Settle, Stop, GoTo, Rank
  <2> QED
    BY <1>3, <2>1
<1>6. CASE DispatchScript
  <2>1. Rank = 1 /\ step' = step + 1 /\ UNCHANGED <<script, tries>>
    BY <1>6 DEF DispatchScript, Dispatch, Rank
  <2> QED
    BY <1>1, <1>2, <2>1, SMT DEF Left
<1>7. CASE DispatchRecovery
  <2>1. Rank = 1 /\ tries' = tries + 1 /\ UNCHANGED <<script, step>>
    BY <1>7 DEF DispatchRecovery, Dispatch, Rank
  <2> QED
    BY <1>1, <1>2, <2>1, SMT DEF Left
<1> QED
  BY <1>4, <1>5, <1>6, <1>7, <1>2 DEF Next, Finished

\* Every step of a run brings its end nearer, whatever the executor and the
\* checks answer, so none is longer than five steps for each action of the
\* script and each recovery: _maybe_run_single_pass_executor_recovery counts.
THEOREM RunsAreBounded ==
    Spec => [][phase # "done" => Left' \in Nat /\ Left' < Left]_vars
<1>1. Init => TriesInv
  <2>1. Init => PassInv
    BY InitPass
  <2>2. 0 \in 0 .. MaxRecoveries
    BY LoopAssumption
  <2> QED  BY <2>1, <2>2 DEF Init, TriesInv
<1>2. TriesInv /\ TriesInv' /\ [Next]_vars =>
          [phase # "done" => Left' \in Nat /\ Left' < Left]_vars
  BY StepCounts
<1> QED
  BY <1>1, <1>2, TriesStep, PTL DEF Spec
=============================================================================
