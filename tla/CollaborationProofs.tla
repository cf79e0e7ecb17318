------------------------ MODULE CollaborationProofs ------------------------
(***************************************************************************)
(* What the operators on a context keep, and what a resolved action tells  *)
(* about the context it was resolved from.                                 *)
(***************************************************************************)
EXTENDS Collaboration, TLAPS

-----------------------------------------------------------------------------
(* Every operator returns a context.                                       *)

\* A context that is built anew is a context with no check passed.
LEMMA NewContextType ==
    ASSUME NEW role \in Roles, NEW decided \in BOOLEAN, NEW peer \in BOOLEAN,
           NEW selfRequired \in BOOLEAN, NEW mustFix \in SUBSET AllTopics
    PROVE  NewContext(role, decided, peer, selfRequired, mustFix) \in Context
BY DEF NewContext, Context, Roles

\* The results of the checks and of a self review keep the type.
LEMMA RecordType ==
    ASSUME NEW c \in Context, NEW ok \in BOOLEAN
    PROVE  /\ RecordVerify(c, ok) \in Context
           /\ RecordGate(c, ok) \in Context
           /\ RecordSelfReview(c, ok) \in Context
BY DEF RecordVerify, RecordGate, RecordSelfReview, NoSelfReview, Context,
       Roles, AllTopics

\* A reviewer's verdict keeps the type.
LEMMA RecordReviewType ==
    ASSUME NEW c \in Context, NEW r \in Review, NEW scope
    PROVE  RecordReview(c, r, scope) \in Context
<1> DEFINE items == r.mustFix \cup (IF OverridesApproval(r, scope)
                                    THEN {EngineTopic} ELSE {})
           ok    == /\ r.approved
                    /\ r.mustFix = {}
                    /\ r.blocking = "none"
                    /\ ~OverridesApproval(r, scope)
<1>1. items \in SUBSET AllTopics
  BY DEF Review, AllTopics
<1>2. ok \in BOOLEAN
  OBVIOUS
<1>3. ASSUME NEW d \in Context, NEW b \in BOOLEAN,
             NEW m \in SUBSET AllTopics, NEW n \in Nat
      PROVE  [d EXCEPT !.approved = b, !.mustFix = m,
                       !.iteration = n, !.role = "codex"] \in Context
  BY DEF Context, Roles
<1>4. NoSelfReview(c) \in Context
  BY DEF NoSelfReview, Context
<1>5. c.iteration + 1 \in Nat
  <2>1. c.iteration \in Nat
    BY DEF Context
  <2> QED
    BY <2>1
<1>6. RecordReview(c, r, scope) =
          [NoSelfReview(c) EXCEPT !.approved = ok, !.mustFix = items,
              !.iteration = c.iteration + 1, !.role = "codex"]
  BY DEF RecordReview
<1>7. [NoSelfReview(c) EXCEPT !.approved = ok, !.mustFix = items,
              !.iteration = c.iteration + 1, !.role = "codex"]
          \in Context
  BY <1>1, <1>2, <1>3, <1>4, <1>5
<1> QED
  BY <1>6, <1>7

\* An executor's answer, a request to recover and a reopening keep the type.
LEMMA ExecutorType ==
    ASSUME NEW c \in Context, NEW a
    PROVE  /\ [c EXCEPT !.started = TRUE] \in Context
           /\ ExecutorDone(c, a) \in Context
           /\ RequestRecovery(c) \in Context
           /\ ReopenAfterVerify(c) \in Context
           /\ ReopenAfterGate(c) \in Context
           /\ DesignDone(c) \in Context
BY DEF ExecutorDone, RequestRecovery, ReopenAfterVerify, ReopenAfterGate,
       DesignDone, RecordVerify, RecordGate, NoSelfReview, Context, Roles,
       AllTopics

-----------------------------------------------------------------------------
(* What each operator does to the fields the properties speak of.          *)

\* Two contexts of the same task: what no operator changes.
SameTask(c, d) ==
    /\ d.peerEnabled = c.peerEnabled /\ d.selfRequired = c.selfRequired
    /\ d.started = c.started

\* A verify result withdraws the gate's.
LEMMA RecordVerifyFields ==
    ASSUME NEW c \in Context, NEW ok \in BOOLEAN
    PROVE  LET d == RecordVerify(c, ok) IN
           /\ SameTask(c, d)
           /\ d.verifyPassed = ok /\ ~d.gatePassed /\ d.role # "opus"
           /\ d.iteration = c.iteration /\ d.mustFix = c.mustFix
           /\ d.approved = c.approved
           /\ d.selfCompleted = c.selfCompleted
           /\ d.selfApproved = c.selfApproved
BY DEF RecordVerify, SameTask, Context

\* A gate that passes withdraws the self review and hands the turn over.
LEMMA RecordGateFields ==
    ASSUME NEW c \in Context
    PROVE  LET d == RecordGate(c, TRUE) IN
           /\ SameTask(c, d)
           /\ d.verifyPassed = c.verifyPassed /\ d.gatePassed
           /\ d.decided = c.decided
           /\ d.iteration = c.iteration /\ d.mustFix = c.mustFix
           /\ d.approved = c.approved
           /\ ~d.selfCompleted /\ ~d.selfApproved
BY DEF RecordGate, NoSelfReview, SameTask, Context

\* A reviewer's verdict withdraws the self review and counts as a round.
LEMMA RecordReviewFields ==
    ASSUME NEW c \in Context, NEW r \in Review, NEW scope
    PROVE  LET d == RecordReview(c, r, scope) IN
           /\ SameTask(c, d)
           /\ d.verifyPassed = c.verifyPassed /\ d.gatePassed = c.gatePassed
           /\ d.role # "opus"
           /\ d.iteration = c.iteration + 1
           /\ ~d.selfCompleted /\ ~d.selfApproved
BY DEF RecordReview, NoSelfReview, SameTask, Context

\* A self review that objects withdraws the approval.
LEMMA RecordSelfReviewFields ==
    ASSUME NEW c \in Context, NEW ok \in BOOLEAN
    PROVE  LET d == RecordSelfReview(c, ok) IN
           /\ SameTask(c, d)
           /\ d.verifyPassed = c.verifyPassed /\ d.gatePassed = c.gatePassed
           /\ d.iteration = c.iteration /\ d.role # "opus"
           /\ d.selfApproved = ok
           /\ ok => d.approved = c.approved /\ d.mustFix = c.mustFix
           /\ ~ok => ~d.approved /\ d.mustFix = {EngineTopic}
BY DEF RecordSelfReview, SameTask, Context

\* What the executor's success, a fix above all, withdraws.
LEMMA ExecutorDoneFields ==
    ASSUME NEW c \in Context, NEW a
    PROVE  LET d == ExecutorDone(c, a) IN
           /\ SameTask(c, d)
           /\ ~d.verifyPassed /\ ~d.gatePassed
           /\ ~d.selfCompleted /\ ~d.selfApproved
           /\ d.iteration = c.iteration
           /\ a \in FixActions => ~d.approved /\ d.mustFix = {}
           /\ a \notin FixActions => /\ d.approved = c.approved
                                     /\ d.mustFix = c.mustFix
BY DEF ExecutorDone, NoSelfReview, SameTask, Context

\* A request to recover opens an item and withdraws the approval, and only
\* that: the flags of the checks stand.
LEMMA RequestRecoveryFields ==
    ASSUME NEW c \in Context
    PROVE  LET d == RequestRecovery(c) IN
           /\ SameTask(c, d)
           /\ d.verifyPassed = c.verifyPassed /\ d.gatePassed = c.gatePassed
           /\ ~d.selfCompleted /\ ~d.selfApproved /\ ~d.approved
           /\ d.iteration = c.iteration /\ d.role # "opus"
           /\ d.mustFix = {EngineTopic}
BY DEF RequestRecovery, NoSelfReview, SameTask, Context

\* A reopened task has an item, no approval and no gate.
LEMMA ReopenFields ==
    ASSUME NEW c \in Context, NEW d,
           d \in {ReopenAfterVerify(c), ReopenAfterGate(c)}
    PROVE  /\ SameTask(c, d)
           /\ ~d.gatePassed /\ ~d.approved
           /\ d.iteration = c.iteration /\ d.role # "opus"
           /\ d.mustFix = {EngineTopic}
BY DEF ReopenAfterVerify, ReopenAfterGate, RecordVerify, RecordGate,
       SameTask, Context

\* A design only decides.
LEMMA DesignDoneFields ==
    ASSUME NEW c \in Context
    PROVE  LET d == DesignDone(c) IN
           /\ SameTask(c, d)
           /\ d.verifyPassed = c.verifyPassed /\ d.gatePassed = c.gatePassed
           /\ d.selfCompleted = c.selfCompleted
           /\ d.selfApproved = c.selfApproved /\ d.approved = c.approved
           /\ d.iteration = c.iteration /\ d.role # "opus"
           /\ d.mustFix = c.mustFix
BY DEF DesignDone, SameTask, Context

-----------------------------------------------------------------------------
(* What a resolved action tells about the context.                         *)

\* Every alternative is an action; "finish" is none of them.
LEMMA NextActionType ==
    ASSUME NEW c
    PROVE  NextAction(c) \in Actions \ {"finish"}
BY DEF NextAction, Actions

\* Only a fix answers open must_fix items.
LEMMA FixFirst ==
    ASSUME NEW c \in Context, NextAction(c) # "fix_round"
    PROVE  c.mustFix = {}
BY DEF NextAction, ReadyToProceed

\* The rules gate follows a verify that passed.
LEMMA GateAfterVerify ==
    ASSUME NEW c \in Context, NextAction(c) = "rules_gate"
    PROVE  c.started /\ c.verifyPassed /\ ~c.gatePassed
BY DEF NextAction

\* A verify is due once the executor has worked.
LEMMA VerifyAfterStart ==
    ASSUME NEW c \in Context, NextAction(c) = "verify"
    PROVE  c.started /\ ~c.verifyPassed
BY DEF NextAction

\* The reviewer is asked once both have passed.
LEMMA ReviewAfterChecks ==
    ASSUME NEW c \in Context, NextAction(c) = "peer_review",
           c.role = "opus" => c.started \/ ~c.decided
    PROVE  /\ c.role = "opus" /\ c.started
           /\ c.verifyPassed /\ c.gatePassed
BY DEF NextAction, DesignPending

\* A self review follows an approval.
LEMMA SelfReviewAfterApproval ==
    ASSUME NEW c \in Context, NextAction(c) = "self_review",
           c.approved => c.started
    PROVE  /\ c.approved /\ c.started /\ ~c.selfCompleted
           /\ c.verifyPassed /\ c.gatePassed
BY DEF NextAction, SelfReviewDue

\* The executor implements nothing that is approved.
LEMMA NothingApprovedIsImplemented ==
    ASSUME NEW c \in Context, NextAction(c) = "implement", c.peerEnabled,
           c.approved => c.started,
           c.approved /\ c.selfCompleted => c.selfApproved
    PROVE  ~c.approved
BY DEF NextAction, ReadyToProceed, SelfReviewDue

\* Proceeding takes all that is required.
LEMMA ProceedAfterAll ==
    ASSUME NEW c \in Context, NextAction(c) = "proceed_to_gate",
           c.peerEnabled
    PROVE  /\ c.gatePassed /\ c.mustFix = {} /\ c.approved
           /\ c.selfRequired => c.selfApproved
BY DEF NextAction, ReadyToProceed, DesignPending
=============================================================================
