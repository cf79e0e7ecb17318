--------------------------- MODULE FeatureProofs ---------------------------
(***************************************************************************)
(* What holds of Feature for every value of its constants: the cap on the  *)
(* questions, that completed tasks stay, and that a careful user works on  *)
(* approved plans only.  Where the sorts hand out what they are for (which *)
(* TLC evaluates in MCFeature), also the types, the order of tasks and of  *)
(* sub-features, and that no redesign is lost.                             *)
(***************************************************************************)
EXTENDS Feature, TLAPS

-----------------------------------------------------------------------------
(* The cap on the questions.                                               *)

\* A question that is counted and not yet asked is within the limit.
CountInv ==
    /\ count \in [Phases -> 0..MaxEscalationsPerPhase]
    /\ issued \in [Phases -> Nat]
    /\ \A phase \in Phases : issued[phase] <= count[phase]
    /\ at = "count" => count["planning"] < MaxEscalationsPerPhase
    /\ at = "ask" => issued["planning"] < count["planning"]
    /\ at = "askTask" => issued["executor"] < count["executor"]

LEMMA CountInit == Init => CountInv
BY DEF Init, EscalationInit, CountInv, Phases, MaxEscalationsPerPhase

\* Steps that neither count nor ask, and stand at none of the three places.
LEMMA CountKept ==
    ASSUME CountInv, UNCHANGED <<count, issued>>, at' \notin {"count", "ask", "askTask"}
    PROVE  CountInv'
BY DEF CountInv

LEMMA CountStep == CountInv /\ [Next]_vars => CountInv'
<1> SUFFICES ASSUME CountInv, [Next]_vars PROVE CountInv'
  OBVIOUS
<1> USE DEF questions
<1>1. CASE Start
  BY <1>1, CountKept DEF Start, escalationVars
<1>2. CASE TakeSplit
  BY <1>2, CountKept DEF TakeSplit, escalationVars, Exit
<1>3. CASE RunSubFeature
  BY <1>3, CountKept DEF RunSubFeature, escalationVars
<1>4. CASE EndSplit
  BY <1>4, CountKept DEF EndSplit, Exit
<1>5. CASE TakeResponse
  BY <1>5, CountKept DEF TakeResponse, Exit
<1>6. CASE Finalize \/ EndFinalize \/ NothingPending \/ ReuseGraph \/ ReuseConversation
  BY <1>6, CountKept DEF Finalize, EndFinalize, NothingPending, ReuseGraph,
     ReuseConversation, escalationVars
<1>7. CASE Plan
  <2>1. UNCHANGED <<count, issued>> /\ at' \notin {"ask", "askTask"}
    BY <1>7 DEF Plan, Exit
  <2>2. at' = "count" => count["planning"] < MaxEscalationsPerPhase
    BY <1>7 DEF Plan, Exit, MayEscalate
  <2>. QED
    BY <2>1, <2>2 DEF CountInv
<1>8. CASE CountPlan
  BY <1>8 DEF CountPlan, BumpCount, CountInv, Phases, MaxEscalationsPerPhase
<1>9. CASE AskAboutPlan
  BY <1>9 DEF AskAboutPlan, Ask, CountInv, Phases, MaxEscalationsPerPhase
<1>10. CASE Converse
  BY <1>10, CountKept DEF Converse, escalationVars
<1>11. CASE Gate
  BY <1>11, CountKept DEF Gate, Exit, command
<1>12. CASE WriteGraph
  BY <1>12, CountKept DEF WriteGraph
<1>13. CASE Select
  <2>1. at' \in {"ready", "idle"} /\ UNCHANGED <<count, issued>>
    BY <1>13 DEF Select, Exit, escalationVars
  <2>. QED
    BY <2>1, CountKept
<1>14. CASE BeginPrimary
  BY <1>14, CountKept DEF BeginPrimary, Begin
<1>15. CASE BeginNext
  BY <1>15, CountKept DEF BeginNext, Begin
<1>16. CASE LoopPasses
  <2>1. at' \in {"cycle", "save"} /\ UNCHANGED <<count, issued>>
    BY <1>16 DEF LoopPasses, escalationVars
  <2>. QED
    BY <2>1, CountKept
<1>17. CASE LoopIsBlocked
  BY <1>17, CountKept DEF LoopIsBlocked, escalationVars
<1>18. CASE LoopEscalates
  BY <1>18 DEF LoopEscalates, MayEscalate, BumpCount, CountInv, Phases, MaxEscalationsPerPhase
<1>19. CASE AskAboutTask
  <2>1. issued' = [issued EXCEPT !["executor"] = @ + 1] /\ UNCHANGED count /\ at' = "decide"
    BY <1>19 DEF AskAboutTask, Ask
  <2>. QED
    BY <1>19, <2>1 DEF AskAboutTask, CountInv, Phases, MaxEscalationsPerPhase
<1>20. CASE AutoKeep \/ AutoRespond \/ AutoRewind \/ Save
  BY <1>20, CountKept DEF AutoKeep, AutoRespond, AutoRewind, Save, Exit
<1>21. CASE Crash
  BY <1>21, CountKept DEF Crash, Exit
<1>22. CASE UserDecides \/ UNCHANGED vars
  <2>1. UNCHANGED <<count, issued, at>>
    BY <1>22 DEF UserDecides, Decide, ReadRequest, WriteAnswer, WriteProposal, RemoveRequest,
       KeepRedesign, RewindState, RemoveLegacy, LeaveDialog, vars, escalationVars
  <2>. QED
    BY <2>1 DEF CountInv
<1>. QED
  BY <1>1, <1>2, <1>3, <1>4, <1>5, <1>6, <1>7, <1>8, <1>9, <1>10, <1>11, <1>12, <1>13, <1>14,
     <1>15, <1>16, <1>17, <1>18, <1>19, <1>20, <1>21, <1>22 DEF Next, Autopilot

\* A phase never asks more than its limit allows, whenever the command dies and
\* whatever the user does: maybe_escalate and _bump_count.
THEOREM QuestionsAreCapped == Spec => []EscalationsAreCapped
<1>1. CountInv => EscalationsAreCapped
  BY DEF CountInv, EscalationsAreCapped, Phases, MaxEscalationsPerPhase
<1>. QED
  BY <1>1, CountInit, CountStep, PTL DEF Spec
-----------------------------------------------------------------------------
(* Completed tasks stay.                                                   *)

\* Where a start holds the completed tasks in memory.
Working == {"ready", "loop", "askTask", "decide", "respond", "rewind", "cycle", "save"}

\* What is complete on disk is so in memory; only decisions take from the disk.
KeptInv == at \in Working => done \subseteq mem

LEMMA KeptStep == KeptInv /\ [Next]_vars => KeptInv'
<1> SUFFICES ASSUME KeptInv, [Next]_vars PROVE KeptInv'
  OBVIOUS
<1> USE DEF KeptInv, Working
<1>1. CASE Start
  BY <1>1 DEF Start
<1>2. CASE TakeSplit \/ RunSubFeature \/ EndSplit \/ TakeResponse
  BY <1>2 DEF TakeSplit, RunSubFeature, EndSplit, TakeResponse, Exit
<1>3. CASE Finalize \/ EndFinalize \/ NothingPending \/ ReuseGraph \/ ReuseConversation
  BY <1>3 DEF Finalize, EndFinalize, NothingPending, ReuseGraph, ReuseConversation
<1>4. CASE Plan \/ CountPlan \/ AskAboutPlan \/ Converse \/ Gate \/ WriteGraph
  BY <1>4 DEF Plan, CountPlan, AskAboutPlan, Converse, Gate, WriteGraph, Exit
<1>5. CASE Select
  BY <1>5 DEF Select, Exit, Carried, escalationVars
<1>6. CASE BeginPrimary
  BY <1>6 DEF BeginPrimary, command, work
<1>7. CASE BeginNext
  BY <1>7 DEF BeginNext
<1>8. CASE LoopPasses
  BY <1>8 DEF LoopPasses, escalationVars
<1>9. CASE LoopIsBlocked \/ LoopEscalates \/ AskAboutTask
  BY <1>9 DEF LoopIsBlocked, LoopEscalates, AskAboutTask, command, work, escalationVars
<1>10. CASE AutoKeep \/ AutoRespond
  BY <1>10 DEF AutoKeep, AutoRespond, command, work
<1>11. CASE AutoRewind
  BY <1>11 DEF AutoRewind, Rewind, command, work
<1>12. CASE Save \/ Crash
  BY <1>12 DEF Save, Crash, Exit
<1>13. CASE UserDecides
  <2>1. done' \subseteq done
    BY <1>13 DEF UserDecides, Decide, ReadRequest, WriteAnswer, WriteProposal, RemoveRequest,
       KeepRedesign, RewindState, Rewind, RemoveLegacy, LeaveDialog
  <2>. QED
    BY <1>13, <2>1 DEF UserDecides, command, work
<1>14. CASE UNCHANGED vars
  BY <1>14 DEF vars, command, work, escalationVars
<1>. QED
  BY <1>1, <1>2, <1>3, <1>4, <1>5, <1>6, <1>7, <1>8, <1>9, <1>10, <1>11, <1>12, <1>13, <1>14
     DEF Next, Autopilot

\* A start or a decide command takes only the task of its decision from the
\* completed ones: reset_state, the save at the end and _rewind_state_to_task.
THEOREM CompletedTasksStay == Spec => CompletedStays
<1>1. Init => KeptInv
  BY DEF Init, EscalationInit, KeptInv, Working
<1>2. KeptInv /\ [Next]_vars => [done \ done' \subseteq {asked.task, task}]_vars
  <2> SUFFICES ASSUME KeptInv, Next PROVE done \ done' \subseteq {asked.task, task}
    OBVIOUS
  <2>1. CASE Save
    BY <2>1 DEF Save, KeptInv, Working
  <2>2. CASE AutoRewind
    BY <2>2 DEF AutoRewind, Rewind
  <2>3. CASE UserDecides
    BY <2>3 DEF UserDecides, Decide, ReadRequest, WriteAnswer, WriteProposal, RemoveRequest,
       KeepRedesign, RewindState, Rewind, RemoveLegacy, LeaveDialog
  <2>4. CASE Start \/ Crash \/ TakeSplit \/ RunSubFeature \/ EndSplit \/ TakeResponse
             \/ Finalize \/ EndFinalize \/ NothingPending \/ ReuseGraph \/ ReuseConversation
    BY <2>4 DEF Start, Crash, TakeSplit, RunSubFeature, EndSplit, TakeResponse, Finalize,
       EndFinalize, NothingPending, ReuseGraph, ReuseConversation, escalationVars
  <2>5. CASE Plan \/ CountPlan \/ AskAboutPlan \/ Converse \/ Gate \/ WriteGraph \/ Select
    BY <2>5 DEF Plan, CountPlan, AskAboutPlan, Converse, Gate, WriteGraph, Select, escalationVars
  <2>6. CASE BeginPrimary \/ BeginNext \/ LoopPasses \/ LoopIsBlocked \/ LoopEscalates
             \/ AskAboutTask \/ AutoKeep \/ AutoRespond
    BY <2>6 DEF BeginPrimary, BeginNext, LoopPasses, LoopIsBlocked, LoopEscalates,
       AskAboutTask, AutoKeep, AutoRespond, escalationVars
  <2>. QED
    BY <2>1, <2>2, <2>3, <2>4, <2>5, <2>6 DEF Next, Autopilot
<1>. QED
  BY <1>1, <1>2, KeptStep, PTL DEF Spec, CompletedStays

-----------------------------------------------------------------------------
(* A careful user works on approved plans.                                 *)

\* The kinds of what stands in the files, which tell its phase.
KindInv ==
    /\ DOMAIN request = Phases /\ DOMAIN response = Phases
    /\ request["planning"].kind \in {"none", "approval", "deadlock"}
    /\ request["planning"].kind = "none" => request["planning"] = NoQuestion
    /\ request["executor"].kind \in {"none", "refactor", "stuck"}
    /\ response["executor"].to = NoQuestion
    /\ at \in {"count", "ask"} => verdict \in {"approval", "deadlock"}

\* Where a start stands before it has made or taken a plan.
Resuming == {"resume", "split", "finalize", "finalized"}
Making == {"bootstrap", "count", "ask"}

Accepted(answer) == answer.to.kind = "approval" /\ answer.action = "accept"

\* A question about a plan stands only from its plan to the answer, and an
\* accepted answer is about the plan of the conversation.
CarefulInv ==
    User = "careful" =>
        /\ deciding # "idle" => at = "idle"
        /\ ~torn =>
            /\ taskGraph # NoDraft => taskGraph.plan \in approved
            /\ at \in Resuming \cup Making => request["planning"] = NoQuestion
            /\ at \notin {"idle"} \cup Resuming => ~Pending("planning")
            /\ Pending("planning") /\ request["planning"] # NoQuestion =>
                  /\ deciding \in {"answered", "proposed"} /\ PhaseOf(asked) = "planning"
            /\ request["planning"].kind = "approval" =>
                  request["planning"].plan = (IF at = "converse" THEN draft ELSE conversation).plan
            /\ Accepted(response["planning"]) =>
                  /\ response["planning"].to.plan \in approved
                  /\ conversation.plan = response["planning"].to.plan
            /\ at = "finalize" => Accepted(response["planning"])
            /\ at = "converse" /\ verdict = "approved" => draft.plan \in approved
            /\ at = "graph" => conversation.plan \in approved
            /\ deciding = "asking" /\ PhaseOf(asked) = "planning" => asked = request["planning"]
LEMMA KindStep == KindInv /\ [Next]_vars => KindInv'
<1> SUFFICES ASSUME KindInv, [Next]_vars PROVE KindInv'
  OBVIOUS
<1> USE DEF KindInv
<1>1. CASE UNCHANGED <<request, response, at, verdict>>
  BY <1>1
<1>2. CASE Start \/ Finalize \/ NothingPending \/ ReuseGraph \/ ReuseConversation
  BY <1>2 DEF Start, Finalize, NothingPending, ReuseGraph, ReuseConversation, escalationVars,
     questions
<1>3. CASE TakeSplit \/ RunSubFeature \/ EndSplit
  BY <1>3 DEF TakeSplit, RunSubFeature, EndSplit, Exit, escalationVars, questions
<1>4. CASE TakeResponse \/ EndFinalize
  BY <1>4 DEF TakeResponse, EndFinalize, MarkApplied, NoAnswer, Exit, Phases, questions
<1>5. CASE Plan \/ CountPlan
  BY <1>5 DEF Plan, CountPlan, Exit, questions, command, planned
<1>6. CASE AskAboutPlan
  BY <1>6 DEF AskAboutPlan, Ask, PlanQuestion, Phases
<1>7. CASE Converse \/ WriteGraph
  BY <1>7 DEF Converse, WriteGraph, escalationVars, questions
<1>8. CASE Gate
  BY <1>8 DEF Gate, MarkApplied, Exit, Phases, NoQuestion, NoAnswer, questions
<1>9. CASE Select \/ BeginPrimary \/ BeginNext \/ LoopPasses
  BY <1>9 DEF Select, BeginPrimary, BeginNext, LoopPasses, Begin, Exit, escalationVars, questions
<1>10. CASE LoopIsBlocked \/ LoopEscalates
  BY <1>10 DEF LoopIsBlocked, LoopEscalates, escalationVars, questions
<1>11. CASE AskAboutTask
  BY <1>11 DEF AskAboutTask, Ask, TaskQuestion, Phases
<1>12. CASE AutoKeep \/ AutoRespond \/ AutoRewind \/ Save \/ Crash
  BY <1>12 DEF AutoKeep, AutoRespond, Answer, AutoRewind, Save, Crash, Exit, Phases, questions
<1>13. CASE UserDecides
  <2>1. UNCHANGED <<at, verdict>>
    BY <1>13 DEF UserDecides, command, planned
  <2>2. CASE WriteAnswer
    BY <2>1, <2>2 DEF WriteAnswer, Answer, Phases, PhaseOf, questions
  <2>3. CASE RemoveRequest
    BY <2>1, <2>3 DEF RemoveRequest, PhaseOf, Phases, NoQuestion
  <2>4. CASE UNCHANGED <<request, response>>
    BY <2>1, <2>4
  <2>. QED
    BY <1>13, <2>2, <2>3, <2>4 DEF UserDecides, Decide, ReadRequest, WriteProposal,
       KeepRedesign, RewindState, RemoveLegacy, LeaveDialog, questions
<1>14. CASE UNCHANGED vars
  BY <1>1, <1>14 DEF vars, escalationVars, command, planned
<1>. QED
  BY <1>2, <1>3, <1>4, <1>5, <1>6, <1>7, <1>8, <1>9, <1>10, <1>11, <1>12, <1>13, <1>14
     DEF Next, Autopilot

\* Steps that touch no file of a question, an answer or a plan.
LEMMA CarefulKept ==
    ASSUME CarefulInv, UNCHANGED <<request, response, asked, deciding, approved, conversation,
                                   taskGraph, torn>>,
           deciding # "idle" => at' = "idle",
           at' \notin {"converse", "graph", "finalize"},
           at' \in Resuming \cup Making => request["planning"] = NoQuestion,
           at' \notin {"idle"} \cup Resuming => ~Pending("planning"),
           at # "converse"
    PROVE  CarefulInv'
BY DEF CarefulInv, Pending, Accepted, Resuming, PhaseOf
\* The user's own steps.
LEMMA CarefulDecides ==
    ASSUME KindInv, CarefulInv, UserDecides, User = "careful"
    PROVE  CarefulInv'
<1>1. /\ at = "idle" /\ at' = "idle" /\ Decide
      /\ UNCHANGED <<conversation, taskGraph>>
  BY DEF UserDecides, planFiles, CarefulInv
<1>2. torn => torn'
  BY <1>1 DEF Decide, ReadRequest, WriteAnswer, WriteProposal, RemoveRequest,
     KeepRedesign, RewindState, RemoveLegacy, LeaveDialog
<1> SUFFICES ASSUME ~torn, ~torn' PROVE CarefulInv'
  BY <1>1, <1>2 DEF CarefulInv
<1> USE <1>1
<1>3. CASE ReadRequest
  <2>1. CASE request["planning"] # NoQuestion
    <3>1. request["planning"].kind \in {"approval", "deadlock"}
      BY <2>1 DEF KindInv
    <3>2. asked' = request["planning"] /\ PhaseOf(asked') = "planning"
      BY <1>3, <2>1, <3>1 DEF ReadRequest, PhaseOf
    <3>. QED
      BY <1>3, <3>2 DEF ReadRequest, CarefulInv, Pending, Accepted, Resuming, questions, PhaseOf
  <2>2. CASE request["planning"] = NoQuestion
    <3>1. asked'.kind \in {"refactor", "stuck"}
      BY <1>3, <2>2 DEF ReadRequest, KindInv, TaskQuestion
    <3>2. PhaseOf(asked') # "planning"
      BY <3>1 DEF PhaseOf
    <3>. QED
      BY <1>3, <2>2, <3>2 DEF ReadRequest, CarefulInv, Pending, Accepted, Resuming, questions, PhaseOf
  <2>. QED
    BY <2>1, <2>2
<1>4. CASE WriteAnswer
  <2>1. /\ UNCHANGED <<request, asked>> /\ deciding' = "answered" /\ deciding = "asking"
        /\ approved \subseteq approved'
    BY <1>4 DEF WriteAnswer, questions
  <2>2. CASE PhaseOf(asked) = "planning"
    <3>1. PICK action \in {"accept", "custom", "skip"} :
             /\ response' = [response EXCEPT !["planning"] = [to |-> asked, action |-> action]]
             /\ action = "accept" /\ asked.kind = "approval" => asked.plan \in approved'
      BY <1>4, <2>2 DEF WriteAnswer, Answer
    <3>2. response'["planning"] = [to |-> asked, action |-> action]
      BY <3>1 DEF KindInv, Phases
    <3>3. asked = request["planning"]
      BY <2>1, <2>2 DEF CarefulInv
    <3>4. asked.kind = "approval" => asked.plan = conversation.plan
      BY <3>3 DEF CarefulInv
    <3>5. /\ response'["planning"].to = asked
          /\ Accepted(response["planning"])' => action = "accept" /\ asked.kind = "approval"
      BY <3>2 DEF Accepted
    <3>6. Accepted(response["planning"])' =>
             /\ response'["planning"].to.plan \in approved'
             /\ conversation'.plan = response'["planning"].to.plan
      BY <3>1, <3>4, <3>5
    <3>. QED
      BY <2>1, <2>2, <3>6 DEF CarefulInv, Pending, Resuming, PhaseOf
  <2>3. CASE PhaseOf(asked) # "planning"
    <3>1. response'["planning"] = response["planning"]
      BY <1>4, <2>3 DEF WriteAnswer, Answer, PhaseOf, KindInv, Phases
    <3>. QED
      BY <2>1, <2>3, <3>1 DEF CarefulInv, Pending, Accepted, Resuming, PhaseOf
  <2>. QED
    BY <2>2, <2>3
<1>5. CASE WriteProposal
  BY <1>5 DEF WriteProposal, CarefulInv, Pending, Accepted, Resuming, questions, PhaseOf
<1>6. CASE RemoveRequest
  <2>1. UNCHANGED <<response, approved>> /\ deciding' = "idle"
    BY <1>6 DEF RemoveRequest
  <2>2. /\ request'["planning"] = request["planning"] \/ request'["planning"] = NoQuestion
        /\ PhaseOf(asked) = "planning" => request'["planning"] = NoQuestion
    BY <1>6 DEF RemoveRequest, KindInv, PhaseOf, Phases
  <2>3. NoQuestion.kind = "none"
    BY DEF NoQuestion
  <2>. QED
    BY <2>1, <2>2, <2>3 DEF CarefulInv, Pending, Accepted, Resuming, PhaseOf
<1>7. CASE KeepRedesign \/ RewindState \/ RemoveLegacy \/ LeaveDialog
  <2>1. /\ UNCHANGED <<request, response, approved>>
        /\ deciding' \notin {"asking", "answered", "proposed"}
        /\ deciding \notin {"answered", "proposed"}
    BY <1>7 DEF KeepRedesign, RewindState, RemoveLegacy, LeaveDialog, questions
  <2>. QED
    BY <2>1 DEF CarefulInv, Pending, Accepted, Resuming, PhaseOf
<1>. QED
  BY <1>3, <1>4, <1>5, <1>6, <1>7 DEF Decide
LEMMA CarefulStep == KindInv /\ CarefulInv /\ [Next]_vars => CarefulInv'
<1> SUFFICES ASSUME KindInv, CarefulInv, [Next]_vars, User = "careful" PROVE CarefulInv'
  BY DEF CarefulInv
<1> USE DEF Pending, Accepted, Resuming, Making, questions, decide, planFiles
<1>1. CASE UNCHANGED vars
  BY <1>1 DEF vars, escalationVars, command, planned, CarefulInv, PhaseOf
<1>2. CASE Start
  <2>1. /\ deciding = "idle" /\ at' = "resume" /\ at = "idle"
        /\ UNCHANGED <<escalationVars, planFiles, command>>
        /\ ~Unanswered
    BY <1>2 DEF Start
  <2>2. ~torn => request["planning"] = NoQuestion
    BY <2>1 DEF Unanswered, CarefulInv
  <2>. QED
    BY <2>1, <2>2 DEF CarefulInv, escalationVars, command, planned
<1>3. CASE TakeSplit \/ RunSubFeature \/ EndSplit \/ NothingPending
  <2>1. /\ at \in Resuming /\ at # "finalize" /\ at' \in {"idle", "split", "bootstrap"}
        /\ UNCHANGED <<request, response, asked, deciding, approved, conversation, taskGraph, torn>>
        /\ at' = "bootstrap" => ~Pending("planning")
    BY <1>3 DEF TakeSplit, RunSubFeature, EndSplit, NothingPending, Exit, escalationVars, Phases
  <2>2. deciding = "idle" /\ (~torn => request["planning"] = NoQuestion)
    BY <2>1 DEF CarefulInv
  <2>. QED
    BY <2>1, <2>2 DEF CarefulInv
<1>4. CASE TakeResponse
  <2>1. /\ at = "resume" /\ at' \in {"idle", "finalize", "bootstrap"}
        /\ UNCHANGED <<request, asked, deciding, approved, conversation, taskGraph, torn>>
    BY <1>4 DEF TakeResponse, Exit
  <2>2. \/ /\ at' = "finalize" /\ response' = response
           /\ Accepted(response["planning"]) \/ Accepted(response["executor"])
        \/ at' # "finalize" /\ response'["planning"] = NoAnswer
        \/ at' # "finalize" /\ response'["planning"] = response["planning"] /\ ~Pending("planning")
    BY <1>4 DEF TakeResponse, MarkApplied, Exit, KindInv, Phases
  <2>3. ~Accepted(response["executor"]) /\ ~Accepted(NoAnswer)
    BY DEF KindInv, NoQuestion, NoAnswer
  <2>. QED
    BY <2>1, <2>2, <2>3 DEF CarefulInv
<1>5. CASE Finalize
  BY <1>5 DEF Finalize, CarefulInv
<1>6. CASE EndFinalize
  <2>1. response'["planning"] = NoAnswer
    BY <1>6 DEF EndFinalize, MarkApplied, KindInv, Phases
  <2>. QED
    BY <1>6, <2>1 DEF EndFinalize, CarefulInv, NoAnswer, NoQuestion
<1>7. CASE ReuseGraph \/ ReuseConversation
  BY <1>7 DEF ReuseGraph, ReuseConversation, CarefulInv, escalationVars
<1>8. CASE Plan
  <2>1. /\ at = "bootstrap" /\ at' \in {"idle", "count", "converse"}
        /\ approved \subseteq approved'
        /\ UNCHANGED <<request, response, asked, deciding, conversation, taskGraph, torn>>
    BY <1>8 DEF Plan, Exit
  <2>2. at' = "converse" /\ verdict' = "approved" => draft'.plan \in approved'
    BY <1>8 DEF Plan, Exit
  <2>3. ~torn => request["planning"] = NoQuestion /\ response["planning"] = NoAnswer
    BY <2>1 DEF CarefulInv
  <2>. QED
    BY <2>1, <2>2, <2>3 DEF CarefulInv, NoQuestion, NoAnswer
<1>9. CASE CountPlan
  BY <1>9 DEF CountPlan, CarefulInv
<1>10. CASE AskAboutPlan
  <2>1. request'["planning"] = PlanQuestion(verdict, draft.plan)
    BY <1>10 DEF AskAboutPlan, Ask, KindInv, Phases
  <2>2. verdict \in {"approval", "deadlock"}
    BY <1>10 DEF AskAboutPlan, KindInv
  <2>. QED
    BY <1>10, <2>1, <2>2 DEF AskAboutPlan, CarefulInv, PlanQuestion, command, planned
<1>11. CASE Converse
  <2>1. ~torn => ~Accepted(response["planning"])
    BY <1>11 DEF Converse, CarefulInv, NoAnswer
  <2>2. /\ at = "converse" /\ at' \in {"graph", "gate"} /\ conversation' = draft
        /\ at' = "graph" => verdict = "approved"
        /\ UNCHANGED <<request, response, asked, deciding, approved, taskGraph, torn>>
    BY <1>11 DEF Converse, Executable, escalationVars
  <2>. QED
    BY <2>1, <2>2 DEF CarefulInv
<1>12. CASE Gate
  <2>1. CASE at' = "graph"
    <3>1. /\ request'["planning"] = NoQuestion /\ response'["planning"] = NoAnswer
          /\ conversation.plan \in approved' /\ approved \subseteq approved'
      BY <1>12, <2>1 DEF Gate, MarkApplied, Exit, KindInv, Phases
    <3>. QED
      BY <1>12, <2>1, <3>1 DEF Gate, CarefulInv, NoAnswer, NoQuestion
  <2>2. CASE at' # "graph"
    BY <1>12, <2>2 DEF Gate, CarefulInv, Exit
  <2>. QED
    BY <2>1, <2>2
<1>13. CASE WriteGraph
  BY <1>13 DEF WriteGraph, CarefulInv
<1>14. CASE Select \/ BeginPrimary \/ BeginNext \/ LoopPasses \/ LoopIsBlocked \/ LoopEscalates
            \/ AutoKeep \/ AutoRewind \/ Save
  <2>1. /\ at \notin Resuming \cup Making \cup {"idle", "converse", "graph"}
        /\ at' \notin Resuming \cup Making \cup {"converse", "graph"}
        /\ UNCHANGED <<request, response, asked, deciding, approved, conversation, taskGraph, torn>>
    BY <1>14 DEF Select, BeginPrimary, BeginNext, LoopPasses, LoopIsBlocked, LoopEscalates,
       AutoKeep, AutoRewind, Save, Begin, Exit, escalationVars
  <2>2. deciding = "idle"
    BY <2>1 DEF CarefulInv
  <2>. QED
    BY <2>1, <2>2 DEF CarefulInv
<1>15. CASE AskAboutTask
  <2>1. request'["planning"] = request["planning"]
    BY <1>15 DEF AskAboutTask, Ask, KindInv, Phases
  <2>. QED
    BY <1>15, <2>1 DEF AskAboutTask, CarefulInv
<1>16. CASE AutoRespond
  <2>1. response'["planning"] = response["planning"]
    BY <1>16 DEF AutoRespond, Answer, KindInv, Phases
  <2>. QED
    BY <1>16, <2>1 DEF AutoRespond, CarefulInv
<1>17. CASE Crash
  BY <1>17 DEF Crash, CarefulInv, Exit
<1>18. CASE UserDecides
  BY <1>18, CarefulDecides
<1>. QED
  BY <1>1, <1>2, <1>3, <1>4, <1>5, <1>6, <1>7, <1>8, <1>9, <1>10, <1>11, <1>12, <1>13, <1>14,
     <1>15, <1>16, <1>17, <1>18 DEF Next, Autopilot

\* A user who answers every question about a plan before the next start, and
\* gives the input again unless the plan was approved, works on no other plan
\* than an approved one, unless a command dies between two writes that belong
\* together: _finalize_approved_plan and the reuse of graph and conversation.
THEOREM ApprovedPlansOnly == Spec => []GraphIsApproved
<1>1. Init => KindInv /\ CarefulInv
  BY DEF Init, EscalationInit, KindInv, CarefulInv, Phases, NoQuestion, NoAnswer, Pending,
     Accepted, Resuming, Making, PhaseOf
<1>2. CarefulInv => GraphIsApproved
  BY DEF CarefulInv, GraphIsApproved
<1>. QED
  BY <1>1, <1>2, KindStep, CarefulStep, PTL DEF Spec

-----------------------------------------------------------------------------
(* Types.                                                                  *)

Typed == SortsAreTyped(Graphs, Splits, Hinted, Tasks)

\* What is there when a start has come as far as to use it.
PlaceInv ==
    /\ at \in {"count", "ask", "converse"} => draft \in Drafts
    /\ at \in {"gate", "graph"} => conversation \in Drafts
    /\ at \in {"select"} \cup Working => taskGraph \in Drafts
    /\ at \in Working => task \in Tasks
    /\ at = "split" => chain \in Splits

TypedInv == CountInv /\ KindInv /\ TypeOK /\ PlaceInv

\* The types of the files of a question and its answer.
FilesTyped ==
    \A phase \in Phases :
        /\ request[phase] \in Questions(phase) \cup {NoQuestion}
        /\ response[phase] \in Answers(phase) \cup {NoAnswer}

LEMMA DraftFields ==
    ASSUME NEW d \in Drafts PROVE d.plan \in Plans /\ d.tasks \in Graphs
BY DEF Drafts

\* A question of a kind that is asked about a plan, or about a task.
LEMMA QuestionTypes ==
    /\ \A kind \in {"approval", "deadlock"}, n \in Plans :
          PlanQuestion(kind, n) \in Questions("planning")
    /\ \A kind \in {"refactor", "stuck"}, t \in Tasks :
          TaskQuestion(kind, t) \in Questions("executor")
BY DEF PlanQuestion, TaskQuestion, Questions, PlanQuestions, TaskQuestions

\* What is on the user's screen tells its phase, and whose it is.
LEMMA AskedType ==
    ASSUME asked \in PlanQuestions \cup TaskQuestions \cup {NoQuestion}
    PROVE  /\ PhaseOf(asked) \in Phases
           /\ PhaseOf(asked) = "planning" => asked \in PlanQuestions
           /\ asked.kind = "approval" => asked.plan \in Plans
           /\ asked.kind = "refactor" => asked.task \in Tasks
BY DEF PhaseOf, Phases, PlanQuestions, TaskQuestions, NoQuestion

LEMMA MarkAppliedTyped ==
    ASSUME FilesTyped, KindInv, NEW phase \in Phases, MarkApplied(phase), request' = request
    PROVE  FilesTyped'
<1>1. \A q \in Phases : response'[q] = IF q = phase THEN NoAnswer ELSE response[q]
  BY DEF MarkApplied, KindInv
<1>. QED
  BY <1>1 DEF FilesTyped

LEMMA AskTyped ==
    ASSUME FilesTyped, KindInv, NEW phase \in Phases, NEW question \in Questions(phase),
           Ask(phase, question), response' = response
    PROVE  FilesTyped'
<1>1. \A q \in Phases : request'[q] = IF q = phase THEN question ELSE request[q]
  BY DEF Ask, KindInv
<1>. QED
  BY <1>1 DEF FilesTyped

LEMMA AnswerTyped ==
    ASSUME FilesTyped, KindInv, NEW phase \in Phases,
           NEW to \in IF phase = "planning" THEN PlanQuestions ELSE {NoQuestion},
           NEW action \in {"accept", "custom", "skip"}, Answer(phase, to, action),
           request' = request
    PROVE  FilesTyped'
<1>1. [to |-> to, action |-> action] \in Answers(phase)
  BY DEF Answers
<1>2. \A q \in Phases : response'[q] = IF q = phase THEN [to |-> to, action |-> action]
                                       ELSE response[q]
  BY DEF Answer, KindInv
<1>. QED
  BY <1>1, <1>2 DEF FilesTyped

\* The ways in which a part of the state keeps its type.
CommandTyped ==
    /\ at \in Steps
    /\ {draft, conversation, taskGraph} \subseteq Drafts \cup {NoDraft}
    /\ verdict \in Verdicts \cup {"none"}
    /\ mem \subseteq Tasks /\ task \in Tasks \cup {NoTask} /\ primary \in BOOLEAN
    /\ queue \in Seq(Tasks)
    /\ chain \in Splits \cup {NoTask} /\ rest \in Seq(Subs) /\ finished \subseteq Subs
    /\ passed \subseteq Tasks /\ plans \in 0..MaxPlans

RestTyped ==
    /\ legacy \in Tasks \cup {NoTask}
    /\ proposal \in Splits \cup {NoTask} /\ sticky \in Tasks \cup {NoTask}
    /\ done \subseteq Tasks /\ approved \subseteq Plans /\ owed \subseteq Tasks
    /\ asked \in PlanQuestions \cup TaskQuestions \cup {NoQuestion}
    /\ deciding \in {"idle", "asking", "answered", "proposed", "kept", "rewound"}
    /\ torn \in BOOLEAN

LEMMA TypeParts ==
    CountInv /\ KindInv => (TypeOK <=> FilesTyped /\ CommandTyped /\ RestTyped)
BY DEF CountInv, KindInv, TypeOK, EscalationTypeOK, FilesTyped, CommandTyped, RestTyped

\* A command that ends holds nothing.
LEMMA ExitTyped ==
    ASSUME Exit PROVE
        /\ at' \in Steps /\ draft' = NoDraft /\ verdict' \in Verdicts \cup {"none"}
        /\ mem' \subseteq Tasks /\ task' \in Tasks \cup {NoTask} /\ primary' \in BOOLEAN
        /\ queue' \in Seq(Tasks)
        /\ chain' \in Splits \cup {NoTask} /\ rest' \in Seq(Subs) /\ finished' \subseteq Subs
        /\ PlaceInv'
<1>1. /\ << >> \in Seq(Tasks) /\ << >> \in Seq(Subs)
      /\ {} \subseteq Tasks /\ {} \subseteq Subs /\ FALSE \in BOOLEAN
  OBVIOUS
<1>2. PlaceInv'
  BY DEF Exit, PlaceInv, Working
<1>. QED
  BY <1>1, <1>2 DEF Exit, Steps

\* The steps of a start that take up what is pending.
LEMMA ResumeTyped ==
    ASSUME Typed, TypedInv, FilesTyped, CommandTyped, RestTyped,
           \/ Start \/ TakeSplit \/ RunSubFeature \/ EndSplit \/ TakeResponse
           \/ Finalize \/ EndFinalize \/ NothingPending
    PROVE  FilesTyped' /\ CommandTyped' /\ RestTyped' /\ PlaceInv'
<1> USE DEF questions, decide, planFiles, command, planned, work, splitRun
<1>1. CASE Start \/ NothingPending
  BY <1>1 DEF Start, NothingPending, escalationVars, FilesTyped, CommandTyped, RestTyped,
     PlaceInv, Working, Steps
<1>2. CASE TakeSplit
  <2>1. UNCHANGED <<escalationVars, planFiles, passed>>
    BY <1>2 DEF TakeSplit
  <2>2. FilesTyped' /\ RestTyped'
    BY <2>1 DEF escalationVars, FilesTyped, RestTyped
  <2>3. CASE Refused(proposal)
    <3>1. Exit
      BY <1>2, <2>3 DEF TakeSplit
    <3>. QED
      BY <2>1, <2>2, <3>1, ExitTyped DEF CommandTyped
  <2>4. CASE ~Refused(proposal)
    <3>1. /\ chain' = proposal /\ rest' = SubOrder(proposal)[1] /\ at' = "split"
          /\ UNCHANGED <<planned, work, finished>>
      BY <1>2, <2>4 DEF TakeSplit
    <3>2. proposal \in Splits
      BY <1>2 DEF TakeSplit, PendingSplit, RestTyped
    <3>3. rest' \in Seq(Subs)
      BY <2>4, <3>1, <3>2 DEF Typed, SortsAreTyped, Subs
    <3>. QED
      BY <2>1, <2>2, <3>1, <3>2, <3>3 DEF CommandTyped, PlaceInv, Working, Steps
  <2>. QED
    BY <2>2, <2>3, <2>4
<1>3. CASE RunSubFeature
  <2>1. /\ UNCHANGED <<escalationVars, planFiles, passed, planned, work, chain, at>>
        /\ at = "split" /\ rest # << >>
        /\ rest' = Tail(rest) \/ rest' = << >>
        /\ finished' \subseteq finished \cup {Head(rest)}
    BY <1>3 DEF RunSubFeature, Chain
  <2>2. Head(rest) \in Subs /\ Tail(rest) \in Seq(Subs) /\ << >> \in Seq(Subs)
    BY <2>1 DEF CommandTyped
  <2>3. FilesTyped' /\ RestTyped'
    BY <2>1 DEF escalationVars, FilesTyped, RestTyped
  <2>4. rest' \in Seq(Subs) /\ finished' \subseteq Subs
    BY <2>1, <2>2 DEF CommandTyped
  <2>5. CommandTyped'
    BY <2>1, <2>4 DEF CommandTyped
  <2>6. PlaceInv'
    BY <2>1 DEF TypedInv, PlaceInv, Working
  <2>. QED
    BY <2>3, <2>5, <2>6
<1>4. CASE EndSplit
  BY <1>4, ExitTyped DEF EndSplit, FilesTyped, CommandTyped, RestTyped
<1>5. CASE TakeResponse
  <2>1. PICK phase \in Phases :
           \/ UNCHANGED <<response, command>> /\ at' = "finalize"
           \/ /\ MarkApplied(phase)
              /\ Exit \/ (at' = "bootstrap" /\ UNCHANGED command)
    BY <1>5 DEF TakeResponse
  <2>2. /\ UNCHANGED <<questions, legacy, proposal, sticky, done, decide, approved, owed,
                       planFiles, passed>>
    BY <1>5 DEF TakeResponse
  <2>3. FilesTyped'
    BY <2>1, <2>2, MarkAppliedTyped DEF FilesTyped, TypedInv
  <2>4. CommandTyped' /\ PlaceInv'
    BY <2>1, <2>2, ExitTyped DEF CommandTyped, PlaceInv, Working, Steps
  <2>5. RestTyped'
    BY <2>2 DEF RestTyped
  <2>. QED
    BY <2>3, <2>4, <2>5
<1>6. CASE Finalize
  BY <1>6 DEF Finalize, FilesTyped, CommandTyped, RestTyped, PlaceInv, Working, Steps
<1>7. CASE EndFinalize
  <2>1. FilesTyped'
    BY <1>7, MarkAppliedTyped DEF EndFinalize, TypedInv, Phases
  <2>. QED
    BY <1>7, <2>1 DEF EndFinalize, CommandTyped, RestTyped, PlaceInv, Working, Steps
<1>. QED
  BY <1>1, <1>2, <1>3, <1>4, <1>5, <1>6, <1>7

\* The steps that make or reuse a plan.
LEMMA PlanTyped ==
    ASSUME Typed, TypedInv, FilesTyped, CommandTyped, RestTyped,
           \/ ReuseGraph \/ ReuseConversation \/ Plan \/ CountPlan \/ AskAboutPlan
           \/ Converse \/ Gate \/ WriteGraph
    PROVE  FilesTyped' /\ CommandTyped' /\ RestTyped' /\ PlaceInv'
<1> USE DEF questions, decide, planFiles, command, planned, work, splitRun
<1>0. MaxPlans \in Nat
  BY EscalationAssumption
<1>1. CASE ReuseGraph \/ ReuseConversation
  BY <1>1 DEF ReuseGraph, ReuseConversation, escalationVars, FilesTyped, CommandTyped,
     RestTyped, PlaceInv, Working, Steps
<1>2. CASE Plan
  <2>1. UNCHANGED <<questions, legacy, response, proposal, sticky, done, decide, owed,
                    conversation, taskGraph, passed>>
    BY <1>2 DEF Plan
  <2>2. FilesTyped'
    BY <2>1 DEF FilesTyped
  <2>3. CASE Exit /\ UNCHANGED <<plans, approved>>
    BY <2>1, <2>2, <2>3, ExitTyped DEF CommandTyped, RestTyped
  <2>4. CASE ~(Exit /\ UNCHANGED <<plans, approved>>)
    <3>1. PICK tasks \in Graphs :
             /\ plans < MaxPlans /\ plans' = plans + 1
             /\ draft' = [plan |-> plans', tasks |-> tasks]
             /\ verdict' \in Verdicts
             /\ approved' \subseteq approved \cup {plans'}
             /\ at' \in {"count", "converse"}
             /\ UNCHANGED <<work, splitRun>>
      BY <1>2, <2>4 DEF Plan
    <3>2. plans' \in 0..MaxPlans /\ plans' \in Plans
      BY <1>0, <3>1 DEF CommandTyped, Plans
    <3>3. draft' \in Drafts
      BY <3>1, <3>2 DEF Drafts
    <3>4. CommandTyped'
      BY <2>1, <3>1, <3>2, <3>3 DEF CommandTyped, Steps
    <3>5. RestTyped'
      BY <2>1, <3>1, <3>2 DEF RestTyped
    <3>6. PlaceInv'
      BY <3>1, <3>3 DEF PlaceInv, Working
    <3>. QED
      BY <2>2, <3>4, <3>5, <3>6
  <2>. QED
    BY <2>3, <2>4
<1>3. CASE CountPlan
  BY <1>3 DEF CountPlan, FilesTyped, CommandTyped, RestTyped, TypedInv, PlaceInv, Working, Steps
<1>4. CASE AskAboutPlan
  <2>1. draft.plan \in Plans /\ verdict \in {"approval", "deadlock"}
    BY <1>4, DraftFields DEF AskAboutPlan, TypedInv, PlaceInv, KindInv
  <2>2. PlanQuestion(verdict, draft.plan) \in Questions("planning")
    BY <2>1, QuestionTypes
  <2>3. FilesTyped'
    BY <1>4, <2>2, AskTyped DEF AskAboutPlan, TypedInv, Phases
  <2>4. legacy' = legacy
    BY <1>4, <2>1 DEF AskAboutPlan, Ask, PlanQuestion
  <2>. QED
    BY <1>4, <2>3, <2>4
    DEF AskAboutPlan, CommandTyped, RestTyped, TypedInv, PlaceInv, Working, Steps
<1>5. CASE Converse
  BY <1>5 DEF Converse, escalationVars, FilesTyped, CommandTyped, RestTyped, TypedInv, PlaceInv,
     Working, Steps
<1>6. CASE Gate
  <2>1. UNCHANGED <<count, issued, legacy, proposal, sticky, done, decide, owed,
                    planFiles, passed>>
    BY <1>6 DEF Gate
  <2>2. conversation.plan \in Plans /\ conversation \in Drafts
    BY <1>6, DraftFields DEF Gate, TypedInv, PlaceInv
  <2>3. CASE at' = "graph"
    <3>1. /\ request' = [request EXCEPT !["planning"] = NoQuestion]
          /\ response' = [response EXCEPT !["planning"] = NoAnswer]
          /\ approved' = approved \cup {conversation.plan} /\ UNCHANGED command
      BY <1>6, <2>3 DEF Gate, Exit, MarkApplied
    <3>2. FilesTyped'
      BY <3>1 DEF FilesTyped, TypedInv, KindInv, Phases
    <3>. QED
      BY <2>1, <2>2, <2>3, <3>1, <3>2 DEF CommandTyped, RestTyped, PlaceInv, Working, Steps
  <2>4. CASE at' # "graph"
    <3>1. Exit /\ UNCHANGED <<response, request, approved>>
      BY <1>6, <2>4 DEF Gate
    <3>. QED
      BY <2>1, <3>1, ExitTyped DEF FilesTyped, CommandTyped, RestTyped
  <2>. QED
    BY <2>3, <2>4
<1>7. CASE WriteGraph
  BY <1>7 DEF WriteGraph, FilesTyped, CommandTyped, RestTyped, TypedInv, PlaceInv, Working, Steps
<1>. QED
  BY <1>1, <1>2, <1>3, <1>4, <1>5, <1>6, <1>7

\* The steps that work on the tasks.
LEMMA WorkTyped ==
    ASSUME Typed, TypedInv, FilesTyped, CommandTyped, RestTyped,
           \/ Select \/ BeginPrimary \/ BeginNext \/ LoopPasses \/ LoopIsBlocked
           \/ LoopEscalates \/ AskAboutTask \/ AutoKeep \/ AutoRespond \/ AutoRewind
           \/ Save \/ Crash
    PROVE  FilesTyped' /\ CommandTyped' /\ RestTyped' /\ PlaceInv'
<1> USE DEF questions, decide, planFiles, command, planned, work, splitRun
<1>1. CASE Select
  <2>1. UNCHANGED <<escalationVars, planFiles, passed>>
    BY <1>1 DEF Select
  <2>2. FilesTyped' /\ RestTyped'
    BY <2>1 DEF escalationVars, FilesTyped, RestTyped
  <2>3. taskGraph \in Drafts /\ taskGraph.tasks \in Graphs /\ done \in SUBSET Tasks
    BY <1>1, DraftFields DEF Select, TypedInv, PlaceInv, RestTyped
  <2>4. ReadyTasks(taskGraph.tasks, done) \in Seq(Tasks)
    BY <2>3 DEF Typed, SortsAreTyped
  <2>5. CASE Exit
    BY <2>1, <2>2, <2>5, ExitTyped DEF CommandTyped
  <2>6. CASE ~Exit
    <3>1. /\ ReadyTasks(taskGraph.tasks, done) # << >>
          /\ task' = Head(ReadyTasks(taskGraph.tasks, done)) /\ primary' = TRUE
          /\ mem' = done /\ at' = "ready"
          /\ verdict' = "none" /\ UNCHANGED <<draft, queue, splitRun>>
      BY <1>1, <2>6 DEF Select, Carried
    <3>2. task' \in Tasks
      BY <2>4, <3>1
    <3>. QED
      BY <2>1, <2>2, <2>3, <3>1, <3>2 DEF CommandTyped, PlaceInv, Working, Steps
  <2>. QED
    BY <2>5, <2>6
<1>2. CASE BeginPrimary
  <2>1. sticky' \in {sticky, NoTask} /\ owed' \subseteq owed /\ at' \in {"loop", "save"}
    BY <1>2 DEF BeginPrimary, Begin
  <2>. QED
    BY <1>2, <2>1 DEF BeginPrimary, FilesTyped, CommandTyped, RestTyped, TypedInv, PlaceInv,
       Working, Steps
<1>3. CASE BeginNext
  <2>1. /\ sticky' \in {sticky, NoTask} /\ owed' \subseteq owed /\ at' \in {"loop", "save"}
        /\ task' \in Tasks /\ queue' \in Seq(Tasks) /\ primary' \in BOOLEAN
    <3>1. CASE queue = << >>
      BY <1>3, <3>1 DEF BeginNext, TypedInv, PlaceInv, Working, CommandTyped
    <3>2. CASE queue # << >>
      <4>1. Head(queue) \in Tasks /\ Tail(queue) \in Seq(Tasks)
        BY <3>2 DEF CommandTyped
      <4>. QED
        BY <1>3, <3>2, <4>1 DEF BeginNext, Begin
    <3>. QED
      BY <3>1, <3>2
  <2>. QED
    BY <1>3, <2>1 DEF BeginNext, FilesTyped, CommandTyped, RestTyped, TypedInv, PlaceInv,
       Working, Steps
<1>4. CASE LoopPasses
  <2>1. /\ task \in Tasks /\ taskGraph \in Drafts /\ taskGraph.tasks \in Graphs
        /\ done \cup {task} \in SUBSET Tasks
    BY <1>4, DraftFields DEF LoopPasses, TypedInv, PlaceInv, Working, RestTyped
  <2>2. Backlog(taskGraph.tasks, done \cup {task}, Hinted) \in Seq(Tasks)
    BY <2>1 DEF Typed, SortsAreTyped
  <2>3. /\ mem' \subseteq mem \cup {task} /\ passed' = passed \cup {task}
        /\ queue' \in Seq(Tasks) /\ at' \in {"cycle", "save"}
        /\ UNCHANGED <<escalationVars, planFiles, planned, task, primary, splitRun>>
    BY <1>4, <2>2 DEF LoopPasses, CommandTyped
  <2>. QED
    BY <2>1, <2>3 DEF escalationVars, FilesTyped, CommandTyped, RestTyped, PlaceInv, Working, Steps
<1>5. CASE LoopIsBlocked \/ LoopEscalates
  BY <1>5 DEF LoopIsBlocked, LoopEscalates, escalationVars, FilesTyped, CommandTyped, RestTyped,
     TypedInv, PlaceInv, Working, Steps
<1>6. CASE AskAboutTask
  <2>1. task \in Tasks
    BY <1>6 DEF AskAboutTask, TypedInv, PlaceInv, Working
  <2>2. PICK kind \in {"refactor", "stuck"} : Ask("executor", TaskQuestion(kind, task))
    BY <1>6 DEF AskAboutTask
  <2>3. TaskQuestion(kind, task) \in Questions("executor")
    BY <2>1, QuestionTypes
  <2>4. FilesTyped'
    BY <1>6, <2>2, <2>3, AskTyped DEF AskAboutTask, TypedInv, Phases
  <2>5. legacy' \in {legacy, task}
    BY <2>2 DEF Ask, TaskQuestion
  <2>. QED
    BY <1>6, <2>1, <2>4, <2>5
    DEF AskAboutTask, CommandTyped, RestTyped, TypedInv, PlaceInv, Working, Steps
<1>7. CASE AutoKeep
  <2>1. /\ at' \in {"respond", "save"} /\ task' \in Tasks
        /\ sticky' \in Tasks \cup {NoTask} /\ owed' \subseteq Tasks
    BY <1>7 DEF AutoKeep, Keep, RestTyped, TypedInv, PlaceInv, Working
  <2>. QED
    BY <1>7, <2>1 DEF AutoKeep, FilesTyped, CommandTyped, RestTyped, TypedInv, PlaceInv,
       Working, Steps
<1>8. CASE AutoRespond
  <2>1. FilesTyped'
    BY <1>8, AnswerTyped DEF AutoRespond, TypedInv, Phases
  <2>. QED
    BY <1>8, <2>1
    DEF AutoRespond, CommandTyped, RestTyped, TypedInv, PlaceInv, Working, Steps
<1>9. CASE AutoRewind
  BY <1>9 DEF AutoRewind, Rewind, FilesTyped, CommandTyped, RestTyped, TypedInv, PlaceInv,
     Working, Steps
<1>10. CASE Save
  BY <1>10, ExitTyped DEF Save, FilesTyped, CommandTyped, RestTyped
<1>11. CASE Crash
  <2>1. torn' \in BOOLEAN
    BY <1>11 DEF Crash, RestTyped
  <2>. QED
    BY <1>11, <2>1, ExitTyped DEF Crash, FilesTyped, CommandTyped, RestTyped
<1>. QED
  BY <1>1, <1>2, <1>3, <1>4, <1>5, <1>6, <1>7, <1>8, <1>9, <1>10, <1>11

\* The user's own steps.
LEMMA DecideTyped ==
    ASSUME TypedInv, FilesTyped, CommandTyped, RestTyped, UserDecides
    PROVE  FilesTyped' /\ CommandTyped' /\ RestTyped' /\ PlaceInv'
<1> USE DEF questions
<1>1. CommandTyped' /\ PlaceInv'
  BY DEF UserDecides, planFiles, command, planned, work, splitRun, CommandTyped, TypedInv, PlaceInv
<1>2. /\ PhaseOf(asked) \in Phases
      /\ PhaseOf(asked) = "planning" => asked \in PlanQuestions
      /\ asked.kind = "approval" => asked.plan \in Plans
      /\ asked.kind = "refactor" => asked.task \in Tasks
  BY AskedType DEF RestTyped
<1>3. CASE ReadRequest
  <2>1. asked' \in PlanQuestions \cup TaskQuestions \cup {NoQuestion}
    <3>1. \A phase \in Phases : request[phase] \in PlanQuestions \cup TaskQuestions \cup {NoQuestion}
      BY DEF FilesTyped, Questions
    <3>2. legacy # NoTask => TaskQuestion("refactor", legacy) \in TaskQuestions
      BY QuestionTypes DEF RestTyped, Questions
    <3>. QED
      BY <1>3, <3>1, <3>2 DEF ReadRequest, Phases
  <2>. QED
    BY <1>1, <1>3, <2>1 DEF ReadRequest, FilesTyped, RestTyped
<1>4. CASE WriteAnswer
  <2>1. PICK action \in {"accept", "custom", "skip"} :
           /\ Answer(PhaseOf(asked), IF PhaseOf(asked) = "planning" THEN asked ELSE NoQuestion, action)
           /\ approved' \subseteq approved \cup (IF asked.kind = "approval" THEN {asked.plan} ELSE {})
    BY <1>4 DEF WriteAnswer
  <2>2. FilesTyped'
    BY <1>2, <1>4, <2>1, AnswerTyped DEF WriteAnswer, TypedInv
  <2>. QED
    BY <1>1, <1>2, <1>4, <2>1, <2>2 DEF WriteAnswer, RestTyped
<1>5. CASE RemoveRequest
  <2>1. \A q \in Phases : request'[q] = IF q = PhaseOf(asked) THEN NoQuestion ELSE request[q]
    BY <1>5 DEF RemoveRequest, TypedInv, KindInv
  <2>. QED
    BY <1>1, <1>5, <2>1 DEF RemoveRequest, FilesTyped, RestTyped
<1>6. CASE WriteProposal \/ KeepRedesign \/ RewindState \/ RemoveLegacy \/ LeaveDialog
  BY <1>1, <1>2, <1>6 DEF WriteProposal, KeepRedesign, Keep, RewindState, Rewind, RemoveLegacy,
     LeaveDialog, FilesTyped, RestTyped
<1>. QED
  BY <1>3, <1>4, <1>5, <1>6 DEF UserDecides, Decide

LEMMA TypedStep == Typed /\ TypedInv /\ [Next]_vars => TypedInv'
<1> SUFFICES ASSUME Typed, TypedInv, [Next]_vars PROVE TypedInv'
  OBVIOUS
<1>1. CountInv' /\ KindInv'
  BY CountStep, KindStep DEF TypedInv
<1>2. FilesTyped /\ CommandTyped /\ RestTyped
  BY TypeParts DEF TypedInv
<1>3. FilesTyped' /\ CommandTyped' /\ RestTyped' /\ PlaceInv'
  <2>1. CASE UNCHANGED vars
    BY <1>2, <2>1 DEF vars, escalationVars, planFiles, command, planned, work, splitRun,
       FilesTyped, CommandTyped, RestTyped, TypedInv, PlaceInv
  <2>2. CASE Next
    BY <1>2, <2>2, ResumeTyped, PlanTyped, WorkTyped, DecideTyped DEF Next, Autopilot
  <2>. QED
    BY <2>1, <2>2
<1>4. TypeOK'
  BY <1>1, <1>3 DEF CountInv, KindInv, TypeOK, EscalationTypeOK, FilesTyped, CommandTyped, RestTyped
<1>. QED
  BY <1>1, <1>3, <1>4 DEF TypedInv

LEMMA TypedInit == Init => TypedInv
<1> SUFFICES ASSUME Init PROVE TypedInv
  OBVIOUS
<1>1. CountInv
  BY CountInit
<1>2. KindInv
  BY DEF Init, EscalationInit, KindInv, Phases, NoQuestion, NoAnswer
<1>3. PlaceInv
  BY DEF Init, PlaceInv, Working
<1>4. EscalationTypeOK
  BY <1>1 DEF Init, EscalationInit, EscalationTypeOK, CountInv, Phases
<1>5. TypeOK
  <2>1. 0 \in 0..MaxPlans /\ << >> \in Seq(Tasks) /\ << >> \in Seq(Subs)
    BY EscalationAssumption
  <2>. QED
    BY <1>4, <2>1 DEF Init, TypeOK, Steps
<1>. QED
  BY <1>1, <1>2, <1>3, <1>5 DEF TypedInv

LEMMA TypedInvariance == ASSUME Typed PROVE Spec => []TypedInv
BY TypedInit, TypedStep, PTL DEF Spec

\* Types, where the sorts return what they are given: what they compute is a
\* recursion over a list, which TLC evaluates (MCFeature).
THEOREM FeatureTypes ==
    ASSUME SortsAreTyped(Graphs, Splits, Hinted, Tasks) PROVE Spec => []TypeOK
<1>1. TypedInv => TypeOK
  BY DEF TypedInv
<1>. QED
  BY <1>1, TypedInvariance, PTL DEF Typed
-----------------------------------------------------------------------------
(* The order of the tasks.                                                 *)

LEMMA EmptyInOrder == \A deps, completed : ListedInOrder(<< >>, deps, completed)
BY DEF ListedInOrder

LEMMA MoreInOrder ==
    ASSUME NEW list, NEW deps, NEW few, NEW many, few \subseteq many,
           ListedInOrder(list, deps, few)
    PROVE  ListedInOrder(list, deps, many)
BY DEF ListedInOrder

\* The head of what is in order may come next, and leaves the rest in order.
LEMMA TailInOrder ==
    ASSUME NEW list \in Seq(Tasks), list # << >>, NEW deps, NEW completed,
           ListedInOrder(list, deps, completed)
    PROVE  /\ deps[Head(list)] \subseteq completed
           /\ ListedInOrder(Tail(list), deps, completed \cup {Head(list)})
<1>1. Head(list) = list[1] /\ 1 \in DOMAIN list
  OBVIOUS
<1>2. deps[Head(list)] \subseteq completed
  BY <1>1 DEF ListedInOrder
<1>3. ASSUME NEW i \in DOMAIN Tail(list)
      PROVE  deps[Tail(list)[i]] \subseteq
                 (completed \cup {Head(list)}) \cup {Tail(list)[j] : j \in 1..(i - 1)}
  <2>1. i \in Nat /\ i >= 1 /\ i + 1 \in DOMAIN list /\ Tail(list)[i] = list[i + 1]
    BY <1>3
  <2>2. deps[list[i + 1]] \subseteq completed \cup {list[j] : j \in 1..i}
    BY <2>1 DEF ListedInOrder
  <2>3. ASSUME NEW j \in 1..i
        PROVE  list[j] = Head(list) \/ \E k \in 1..(i - 1) : Tail(list)[k] = list[j]
    <3>1. CASE j = 1
      BY <1>1, <3>1
    <3>2. CASE j # 1
      <4>1. j - 1 \in 1..(i - 1)
        BY <2>1, <2>3, <3>2
      <4>2. Tail(list)[j - 1] = list[j]
        BY <1>3, <2>1, <2>3, <3>2
      <4>. QED
        BY <4>1, <4>2
    <3>. QED
      BY <3>1, <3>2
  <2>4. {list[j] : j \in 1..i} \subseteq {Head(list)} \cup {Tail(list)[k] : k \in 1..(i - 1)}
    BY <2>3
  <2>5. deps[Tail(list)[i]] = deps[list[i + 1]]
    BY <2>1
  <2>. QED
    BY <2>2, <2>4, <2>5
<1>. QED
  BY <1>2, <1>3 DEF ListedInOrder

InOrder == TasksInOrder(Graphs, Hinted, Tasks)

needs == taskGraph.tasks.deps

\* What is complete has passed, and the rest of the cycle may follow on that.
OrderInv ==
    /\ done \subseteq passed
    /\ at \in Working => mem \subseteq passed
    /\ at = "ready" => primary /\ needs[task] \subseteq passed
    /\ at = "loop" /\ ~primary => ListedInOrder(queue, needs, passed \cup {task})
    /\ at = "cycle" => ListedInOrder(queue, needs, passed)

\* Steps that neither work on a task nor come to one.
LEMMA OrderKept ==
    ASSUME OrderInv, UNCHANGED passed, done' \subseteq done \cup (IF at \in Working THEN mem ELSE {}),
           \/ at' \notin Working
           \/ at' \in Working \ {"ready", "loop", "cycle"} /\ mem' \subseteq mem /\ at \in Working
    PROVE  OrderInv'
BY DEF OrderInv, Working

LEMMA OrderStep == Typed /\ InOrder /\ TypedInv /\ OrderInv /\ [Next]_vars => OrderInv'
<1> SUFFICES ASSUME Typed, InOrder, TypedInv, OrderInv, [Next]_vars PROVE OrderInv'
  OBVIOUS
<1> USE DEF planFiles, command, planned, work, splitRun
<1>1. CASE Start \/ TakeSplit \/ RunSubFeature \/ EndSplit \/ TakeResponse \/ Finalize
           \/ EndFinalize \/ NothingPending
  <2>1. UNCHANGED <<passed, done>> /\ at' \notin Working
    BY <1>1 DEF Start, TakeSplit, RunSubFeature, EndSplit, TakeResponse, Finalize, EndFinalize,
       NothingPending, Exit, escalationVars, Working
  <2>. QED
    BY <2>1, OrderKept
<1>2. CASE ReuseGraph \/ ReuseConversation \/ Plan \/ CountPlan \/ AskAboutPlan \/ Converse
           \/ Gate \/ WriteGraph
  <2>1. UNCHANGED <<passed, done>> /\ at' \notin Working
    BY <1>2 DEF ReuseGraph, ReuseConversation, Plan, CountPlan, AskAboutPlan, Converse, Gate,
       WriteGraph, Exit, escalationVars, Working
  <2>. QED
    BY <2>1, OrderKept
<1>3. CASE Select
  <2>1. UNCHANGED <<passed, done, taskGraph>>
    BY <1>3 DEF Select, escalationVars
  <2>2. CASE Exit
    BY <2>1, <2>2, OrderKept DEF Exit, Working
  <2>3. CASE ~Exit
    <3>1. /\ ReadyTasks(taskGraph.tasks, done) # << >>
          /\ task' = Head(ReadyTasks(taskGraph.tasks, done)) /\ primary' = TRUE
          /\ mem' = done /\ at' = "ready"
      BY <1>3, <2>3 DEF Select, Carried
    <3>2. taskGraph.tasks \in Graphs /\ done \in SUBSET Tasks
      BY <1>3, DraftFields DEF Select, TypedInv, PlaceInv, TypeOK, EscalationTypeOK
    <3>3. taskGraph.tasks.deps[task'] \subseteq done
      BY <3>1, <3>2 DEF InOrder, TasksInOrder
    <3>. QED
      BY <2>1, <3>1, <3>3 DEF OrderInv, needs
  <2>. QED
    BY <2>2, <2>3
<1>4. CASE BeginPrimary
  BY <1>4 DEF BeginPrimary, Begin, OrderInv, Working
<1>5. CASE BeginNext
  <2>1. UNCHANGED <<passed, done, mem, taskGraph>>
    BY <1>5 DEF BeginNext
  <2>2. CASE queue = << >>
    BY <1>5, <2>1, <2>2, OrderKept DEF BeginNext, Working
  <2>3. CASE queue # << >>
    <3>1. /\ task' = Head(queue) /\ queue' = Tail(queue) /\ at' = "loop" /\ at = "cycle"
      BY <1>5, <2>3 DEF BeginNext, Begin
    <3>2. ListedInOrder(queue', needs, passed \cup {task'})
      BY <2>3, <3>1, TailInOrder DEF OrderInv, TypedInv, TypeOK
    <3>. QED
      BY <2>1, <3>1, <3>2 DEF OrderInv, needs, Working
  <2>. QED
    BY <2>2, <2>3
<1>6. CASE LoopPasses
  <2>1. /\ UNCHANGED <<done, taskGraph, task>> /\ passed' = passed \cup {task}
        /\ mem' \subseteq mem \cup {task} /\ at = "loop"
    BY <1>6 DEF LoopPasses, escalationVars
  <2>2. CASE at' = "save"
    BY <2>1, <2>2 DEF OrderInv, Working
  <2>3. CASE at' # "save"
    <3>1. /\ at' = "cycle"
          /\ queue' = IF primary THEN Backlog(taskGraph.tasks, done \cup {task}, Hinted) ELSE queue
      BY <1>6, <2>3 DEF LoopPasses
    <3>2. CASE primary
      <4>1. taskGraph.tasks \in Graphs /\ done \cup {task} \in SUBSET Tasks
        BY <2>1, DraftFields DEF TypedInv, PlaceInv, TypeOK, EscalationTypeOK, Working
      <4>2. ListedInOrder(queue', needs, done \cup {task})
        BY <3>1, <3>2, <4>1 DEF InOrder, TasksInOrder, needs
      <4>3. ListedInOrder(queue', needs, passed')
        BY <2>1, <4>2, MoreInOrder DEF OrderInv
      <4>. QED
        BY <2>1, <3>1, <4>3 DEF OrderInv, Working, needs
    <3>3. CASE ~primary
      BY <2>1, <3>1, <3>3 DEF OrderInv, Working, needs
    <3>. QED
      BY <3>2, <3>3
  <2>. QED
    BY <2>2, <2>3
<1>7. CASE LoopIsBlocked \/ LoopEscalates \/ AskAboutTask \/ AutoKeep \/ AutoRespond
           \/ AutoRewind \/ Save \/ Crash
  <2>1. /\ UNCHANGED passed /\ done' \subseteq done \cup (IF at \in Working THEN mem ELSE {})
        /\ \/ at' \notin Working
           \/ at' \in Working \ {"ready", "loop", "cycle"} /\ mem' \subseteq mem /\ at \in Working
    BY <1>7 DEF LoopIsBlocked, LoopEscalates, AskAboutTask, AutoKeep, AutoRespond, AutoRewind,
       Rewind, Save, Crash, Exit, escalationVars, Working
  <2>. QED
    BY <2>1, OrderKept
<1>8. CASE UserDecides
  <2>1. done' \subseteq done
    BY <1>8 DEF UserDecides, Decide, ReadRequest, WriteAnswer, WriteProposal, RemoveRequest,
       KeepRedesign, RewindState, Rewind, RemoveLegacy, LeaveDialog
  <2>. QED
    BY <1>8, <2>1 DEF UserDecides, OrderInv, needs
<1>9. CASE UNCHANGED vars
  BY <1>9 DEF vars, escalationVars, OrderInv, needs
<1>. QED
  BY <1>1, <1>2, <1>3, <1>4, <1>5, <1>6, <1>7, <1>8, <1>9 DEF Next, Autopilot

\* No loop begins on a task before the loops of all it depends on have passed,
\* over any number of starts, kills and rewinds, where the sorts put no task
\* before one it depends on: select_next_task, ordered_task_graph_tasks and the
\* task cycle that halts at the first loop that does not pass.
THEOREM LoopsInOrder ==
    ASSUME SortsAreTyped(Graphs, Splits, Hinted, Tasks), TasksInOrder(Graphs, Hinted, Tasks)
    PROVE  Spec => DependenciesFirst
<1>1. Init => OrderInv
  BY DEF Init, EscalationInit, OrderInv, Working
<1>2. TypedInv /\ OrderInv /\ [Next]_vars =>
          [at # "loop" /\ at' = "loop" => taskGraph.tasks.deps[task'] \subseteq passed]_vars
  <2> SUFFICES ASSUME TypedInv, OrderInv, Next, at # "loop", at' = "loop"
               PROVE  taskGraph.tasks.deps[task'] \subseteq passed
    OBVIOUS
  <2>1. BeginPrimary \/ BeginNext
    <3>1. ~UserDecides /\ ~Start /\ ~Crash
      BY DEF UserDecides, Start, Crash, Exit
    <3>2. ~(TakeSplit \/ RunSubFeature \/ EndSplit \/ TakeResponse \/ Finalize \/ EndFinalize
            \/ NothingPending \/ ReuseGraph \/ ReuseConversation)
      BY DEF TakeSplit, RunSubFeature, EndSplit, TakeResponse, Finalize, EndFinalize,
         NothingPending, ReuseGraph, ReuseConversation, Exit
    <3>3. ~(Plan \/ CountPlan \/ AskAboutPlan \/ Converse \/ Gate \/ WriteGraph \/ Select)
      BY DEF Plan, CountPlan, AskAboutPlan, Converse, Gate, WriteGraph, Select, Exit
    <3>4. ~(LoopPasses \/ LoopIsBlocked \/ LoopEscalates \/ AskAboutTask \/ AutoKeep
            \/ AutoRespond \/ AutoRewind \/ Save)
      BY DEF LoopPasses, LoopIsBlocked, LoopEscalates, AskAboutTask, AutoKeep, AutoRespond,
         AutoRewind, Save, Exit
    <3>. QED
      BY <3>1, <3>2, <3>3, <3>4 DEF Next, Autopilot
  <2>2. CASE BeginPrimary
    BY <2>2 DEF BeginPrimary, command, work, OrderInv, needs
  <2>3. CASE BeginNext
    <3>1. queue # << >> /\ task' = Head(queue) /\ at = "cycle"
      BY <2>3 DEF BeginNext
    <3>. QED
      BY <3>1, TailInOrder DEF OrderInv, TypedInv, TypeOK, needs
  <2>. QED
    BY <2>1, <2>2, <2>3
<1>. QED
  BY <1>1, <1>2, OrderStep, TypedInvariance, PTL DEF Spec, DependenciesFirst, Typed, InOrder

-----------------------------------------------------------------------------
(* The order of the sub-features.                                          *)

LEMMA SubFeaturesStep ==
    ASSUME Typed, \A split \in Splits : ~Refused(split) => PartsInOrder(split),
           TypedInv, SubFeaturesInOrder, [Next]_vars
    PROVE  SubFeaturesInOrder'
<1> USE DEF planFiles, command, planned, work, splitRun
<1>1. CASE Exit
  BY <1>1 DEF Exit, SubFeaturesInOrder
<1>2. CASE UNCHANGED splitRun
  BY <1>2 DEF SubFeaturesInOrder
<1>3. CASE TakeSplit /\ ~Refused(proposal)
  <2>1. chain' = proposal /\ rest' = SubOrder(proposal)[1]
    BY <1>3 DEF TakeSplit
  <2>2. proposal \in Splits
    BY <1>3 DEF TakeSplit, PendingSplit, TypedInv, TypeOK, EscalationTypeOK
  <2>3. PartsInOrder(proposal)
    BY <1>3, <2>2
  <2>. QED
    BY <2>1, <2>3 DEF PartsInOrder, SubFeaturesInOrder
<1>4. CASE RunSubFeature
  <2>1. chain' = chain /\ rest # << >> /\ rest \in Seq(Subs)
    BY <1>4 DEF RunSubFeature, TypedInv, TypeOK
  <2>2. PICK ok \in BOOLEAN : /\ rest' = (IF ok THEN Tail(rest) ELSE << >>)
                              /\ finished' = IF ok THEN finished \cup {Head(rest)} ELSE finished
    BY <1>4 DEF RunSubFeature, Chain
  <2>3. CASE ~ok
    BY <2>2, <2>3 DEF SubFeaturesInOrder
  <2>4. CASE ok
    <3> SUFFICES ASSUME NEW i \in DOMAIN rest', NEW d \in Range(chain'.on[rest'[i]]),
                        d \in Range(chain'.list), d \notin finished'
                 PROVE  \E j \in 1..(i - 1) : rest'[j] = d
      BY DEF SubFeaturesInOrder
    <3>1. /\ i \in Nat /\ i >= 1 /\ i + 1 \in DOMAIN rest /\ rest'[i] = rest[i + 1]
          /\ rest[1] = Head(rest)
      BY <2>1, <2>2, <2>4
    <3>2. PICK j \in 1..i : rest[j] = d
      BY <2>1, <2>2, <2>4, <3>1 DEF SubFeaturesInOrder
    <3>3. j # 1
      BY <2>2, <2>4, <3>1, <3>2
    <3>4. j - 1 \in 1..(i - 1)
      BY <3>1, <3>2, <3>3
    <3>5. rest'[j - 1] = d
      BY <2>1, <2>2, <2>4, <3>1, <3>2, <3>3
    <3>. QED
      BY <3>4, <3>5
  <2>. QED
    BY <2>3, <2>4
<1>5. Exit \/ UNCHANGED splitRun \/ (TakeSplit /\ ~Refused(proposal)) \/ RunSubFeature
  BY DEF Next, Autopilot, Start, Crash, UserDecides, vars, TakeSplit, EndSplit, TakeResponse,
     Finalize, EndFinalize, NothingPending, ReuseGraph, ReuseConversation, Plan, CountPlan,
     AskAboutPlan, Converse, Gate, WriteGraph, Select, BeginPrimary, BeginNext, LoopPasses,
     LoopIsBlocked, LoopEscalates, AskAboutTask, AutoKeep, AutoRespond, AutoRewind, Save
<1>. QED
  BY <1>1, <1>2, <1>3, <1>4, <1>5

\* A sub-feature is run only when all of the split it depends on have ended
\* well in the same chain, where the sort of a split it does not refuse puts
\* none before one it depends on: _topological_sort and the halt at the first
\* failure, over any number of starts, kills and proposals.
THEOREM PartsAreRunInOrder ==
    ASSUME SortsAreTyped(Graphs, Splits, Hinted, Tasks),
           \A split \in Splits : ~Refused(split) => PartsInOrder(split)
    PROVE  Spec => []SubFeaturesInOrder
<1>1. Init => SubFeaturesInOrder
  BY DEF Init, SubFeaturesInOrder
<1>. QED
  BY <1>1, SubFeaturesStep, TypedInvariance, PTL DEF Spec, Typed
-----------------------------------------------------------------------------
(* The redesigns.                                                          *)

InOneOrder == OneOrder(Graphs, Hinted, Tasks)

\* The task is open, and the next one that is ready until it is complete.
Follows(completed, t) == t \notin completed /\ ComesNext(Graphs, Tasks, completed, t)

\* Each task of the list follows those before it.
InTurn(list, completed) ==
    \A i \in DOMAIN list : Follows(completed \cup {list[j] : j \in 1..(i - 1)}, list[i])

\* What counts as complete: on disk, or in the command that will save it.
Held == IF at \in Working THEN mem ELSE done

Asks == count["executor"]

\* The user's dialog, which is closed while the command runs.
DialogInv ==
    /\ deciding # "idle" => at = "idle"
    /\ deciding = "idle" => asked.kind = "none"
    /\ deciding \in {"kept", "rewound"} => asked.kind = "refactor"
    /\ asked.kind = "refactor" => asked.task = legacy

\* There is one redesign at a time, and none when a task may be asked about.
OneInv ==
    /\ owed \subseteq {sticky}
    /\ legacy # NoTask => owed \subseteq {legacy}
    /\ at = "askTask" => owed = {}
    /\ at \in {"loop", "cycle"} /\ Asks < MaxEscalationsPerPhase => owed = {}
    /\ at = "ready" /\ Asks < MaxEscalationsPerPhase => owed \subseteq {task}

\* While a question may still come, a task whose redesign is owed, or that a
\* question is open about, comes next.
FirstInv ==
    /\ Asks < MaxEscalationsPerPhase /\ deciding # "kept" => \A t \in owed : Follows(Held, t)
    /\ Asks < MaxEscalationsPerPhase /\ legacy # NoTask => Follows(Held \ {legacy}, legacy)
    /\ Asks = 0 => legacy = NoTask
    /\ at = "askTask" /\ Asks < MaxEscalationsPerPhase => legacy = NoTask
    /\ at = "decide" /\ Asks < MaxEscalationsPerPhase => legacy \in {task, NoTask}

\* The task that is worked on comes next, and so do those of the cycle.
TurnInv ==
    /\ at \in {"ready", "loop", "askTask", "decide"} => Follows(mem, task)
    /\ at = "ready" => primary
    /\ at = "ready" \/ (at = "loop" /\ primary) => mem = done
    /\ at = "loop" /\ ~primary => InTurn(queue, mem \cup {task})
    /\ at = "cycle" => InTurn(queue, mem)

RedesignInv ==
    User # "hasty" /\ ~torn => DialogInv /\ OneInv /\ FirstInv /\ TurnInv

LEMMA MoreFollows ==
    ASSUME NEW few, NEW many, NEW t, Follows(few, t), few \subseteq many, t \notin many
    PROVE  Follows(many, t)
BY DEF Follows, ComesNext

LEMMA NoneInTurn == \A completed : InTurn(<< >>, completed)
BY DEF InTurn

\* The head of what is in turn follows, and leaves the rest in turn.
LEMMA TailInTurn ==
    ASSUME NEW list \in Seq(Tasks), list # << >>, NEW completed, InTurn(list, completed)
    PROVE  /\ Follows(completed, Head(list))
           /\ InTurn(Tail(list), completed \cup {Head(list)})
<1>1. Head(list) = list[1] /\ 1 \in DOMAIN list
  OBVIOUS
<1>2. Follows(completed, Head(list))
  <2>1. completed \cup {list[j] : j \in 1..(1 - 1)} = completed
    OBVIOUS
  <2>. QED
    BY <1>1, <2>1 DEF InTurn
<1>3. ASSUME NEW i \in DOMAIN Tail(list)
      PROVE  Follows((completed \cup {Head(list)}) \cup {Tail(list)[j] : j \in 1..(i - 1)},
                     Tail(list)[i])
  <2>1. i \in Nat /\ i >= 1 /\ i + 1 \in DOMAIN list /\ Tail(list)[i] = list[i + 1]
    BY <1>3
  <2>2. Follows(completed \cup {list[j] : j \in 1..i}, list[i + 1])
    BY <2>1 DEF InTurn
  <2>3. \A j \in 1..(i - 1) : j + 1 \in 1..i /\ Tail(list)[j] = list[j + 1]
    BY <1>3, <2>1
  <2>4. \A j \in 1..i : j # 1 => j - 1 \in 1..(i - 1) /\ Tail(list)[j - 1] = list[j]
    BY <1>3, <2>1
  <2>5. 1 \in 1..i
    BY <2>1
  <2>6. {list[j] : j \in 1..i} = {Head(list)} \cup {Tail(list)[j] : j \in 1..(i - 1)}
    <3>1. \A j \in 1..i : list[j] \in {Head(list)} \cup {Tail(list)[k] : k \in 1..(i - 1)}
      BY <1>1, <2>4
    <3>2. \A k \in 1..(i - 1) : Tail(list)[k] \in {list[j] : j \in 1..i}
      BY <2>3
    <3>3. Head(list) \in {list[j] : j \in 1..i}
      BY <1>1, <2>5
    <3>. QED
      BY <3>1, <3>2, <3>3
  <2>7. completed \cup {list[j] : j \in 1..i}
            = (completed \cup {Head(list)}) \cup {Tail(list)[j] : j \in 1..(i - 1)}
    BY <2>6
  <2>. QED
    BY <2>1, <2>2, <2>7
<1>. QED
  BY <1>2, <1>3 DEF InTurn

LEMMA BacklogInTurn ==
    ASSUME InOneOrder, NEW graph \in Graphs, NEW completed \in SUBSET Tasks
    PROVE  InTurn(Backlog(graph, completed, Hinted), completed)
<1> DEFINE backlog == Backlog(graph, completed, Hinted)
<1>1. \A i \in DOMAIN backlog :
          /\ backlog[i] \notin completed \cup {backlog[j] : j \in 1..(i - 1)}
          /\ ComesNext(Graphs, Tasks, completed \cup {backlog[j] : j \in 1..(i - 1)}, backlog[i])
  BY DEF InOneOrder, OneOrder
<1>. QED
  BY <1>1 DEF InTurn, Follows

\* Steps outside the work on tasks that leave the redesigns and their questions.
LEMMA RedesignKept ==
    ASSUME DialogInv, OneInv, FirstInv, at \notin Working, at' \notin Working,
           UNCHANGED <<deciding, asked, sticky, legacy, done, Asks>>, owed' \subseteq owed,
           deciding # "idle" => at' = "idle"
    PROVE  DialogInv' /\ OneInv' /\ FirstInv' /\ TurnInv'
BY DEF DialogInv, OneInv, FirstInv, TurnInv, Held, Working

\* The user's own steps, none of which is taken while the command runs.
LEMMA RedesignDecides ==
    ASSUME TypedInv, DialogInv, OneInv, FirstInv, UserDecides, User # "hasty", ~torn'
    PROVE  DialogInv' /\ OneInv' /\ FirstInv' /\ TurnInv'
<1>1. at = "idle" /\ at' = "idle" /\ Decide
  BY DEF UserDecides
<1>2. TurnInv' /\ Held = done /\ Held' = done'
  BY <1>1 DEF TurnInv, Held, Working
<1>3. legacy \in Tasks \cup {NoTask} /\ NoTask \notin Tasks
      /\ asked \in PlanQuestions \cup TaskQuestions \cup {NoQuestion}
  BY EscalationAssumption DEF TypedInv, TypeOK, EscalationTypeOK
<1>4. asked.kind = "refactor" => asked.task \in Tasks
  BY <1>3, AskedType
<1>5. CASE ReadRequest
  <2>1. UNCHANGED <<legacy, sticky, done, owed, Asks>> /\ deciding' = "asking"
    BY <1>5 DEF ReadRequest, questions, Asks
  <2>2. asked'.kind = "refactor" => asked'.task = legacy
    BY <1>5 DEF ReadRequest, TaskQuestion
  <2>. QED
    BY <1>1, <1>2, <1>5, <2>1, <2>2 DEF ReadRequest, DialogInv, OneInv, FirstInv
<1>6. CASE WriteAnswer \/ WriteProposal
  BY <1>1, <1>2, <1>6
  DEF WriteAnswer, WriteProposal, questions, Asks, DialogInv, OneInv, FirstInv
<1>7. CASE RemoveRequest \/ LeaveDialog
  <2>1. UNCHANGED <<legacy, sticky, done, owed, Asks>> /\ deciding' = "idle" /\ asked' = NoQuestion
        /\ deciding # "kept"
    BY <1>7 DEF RemoveRequest, LeaveDialog, questions, Asks
  <2>. QED
    BY <1>1, <1>2, <2>1 DEF DialogInv, OneInv, FirstInv, NoQuestion
<1>8. CASE KeepRedesign
  <2>1. /\ UNCHANGED <<legacy, done, asked, Asks>> /\ deciding' = "kept"
        /\ asked.kind = "refactor" /\ asked.task = legacy /\ legacy # NoTask
        /\ sticky' = legacy /\ owed' = owed \cup {legacy}
    BY <1>3, <1>4, <1>8 DEF KeepRedesign, Keep, questions, Asks, DialogInv
  <2>. QED
    BY <1>1, <1>2, <2>1 DEF DialogInv, OneInv, FirstInv
<1>9. CASE RewindState
  <2>1. /\ UNCHANGED <<legacy, asked, sticky, owed, Asks>> /\ deciding' = "rewound"
        /\ deciding = "kept" /\ asked.task = legacy /\ legacy # NoTask /\ done' = done \ {legacy}
    BY <1>3, <1>4, <1>9 DEF RewindState, Rewind, questions, Asks, DialogInv
  <2>2. owed \subseteq {legacy} /\ done' \ {legacy} = done \ {legacy}
    BY <2>1 DEF OneInv
  <2>3. Asks < MaxEscalationsPerPhase => Follows(done', legacy)
    BY <1>2, <2>1 DEF FirstInv
  <2>. QED
    BY <1>1, <1>2, <2>1, <2>2, <2>3 DEF DialogInv, OneInv, FirstInv
<1>10. CASE RemoveLegacy
  <2>1. /\ UNCHANGED <<sticky, done, owed, Asks>> /\ legacy' = NoTask /\ deciding = "rewound"
        /\ deciding' = "idle" /\ asked' = NoQuestion
    BY <1>10 DEF RemoveLegacy, questions, Asks
  <2>. QED
    BY <1>1, <1>2, <2>1 DEF DialogInv, OneInv, FirstInv, NoQuestion
<1>. QED
  BY <1>1, <1>5, <1>6, <1>7, <1>8, <1>9, <1>10 DEF Decide

\* The steps that work on the tasks.
LEMMA RedesignWork ==
    ASSUME InOneOrder, TypedInv, KeptInv, DialogInv, OneInv, FirstInv, TurnInv,
           \/ Select \/ BeginPrimary \/ BeginNext \/ LoopPasses \/ LoopIsBlocked
           \/ LoopEscalates \/ AskAboutTask \/ AutoKeep \/ AutoRespond \/ AutoRewind \/ Save
    PROVE  DialogInv' /\ OneInv' /\ FirstInv' /\ TurnInv'
<1> USE DEF planFiles, command, planned, work, splitRun, questions, decide
<1>1. at # "idle" /\ UNCHANGED <<deciding, asked>>
  BY DEF Select, BeginPrimary, BeginNext, LoopPasses, LoopIsBlocked, LoopEscalates,
     AskAboutTask, AutoKeep, AutoRespond, AutoRewind, Save, escalationVars
<1>2. DialogInv' /\ deciding = "idle"
  BY <1>1 DEF DialogInv
<1>3. /\ legacy \in Tasks \cup {NoTask} /\ NoTask \notin Tasks /\ done \in SUBSET Tasks
      /\ queue \in Seq(Tasks) /\ Asks \in 0..MaxEscalationsPerPhase
      /\ at \in {"select"} \cup Working => taskGraph.tasks \in Graphs
      /\ at \in Working => task \in Tasks
  BY EscalationAssumption, DraftFields
  DEF TypedInv, TypeOK, EscalationTypeOK, PlaceInv, Phases, Asks
<1>4. CASE Select
  <2>1. UNCHANGED <<legacy, sticky, done, owed, Asks>> /\ at = "select"
    BY <1>4 DEF Select, escalationVars, Asks
  <2>2. CASE Exit
    BY <1>2, <2>1, <2>2 DEF Exit, OneInv, FirstInv, TurnInv, Held, Working
  <2>3. CASE ~Exit
    <3>1. /\ ReadyTasks(taskGraph.tasks, done) # << >>
          /\ task' = Head(ReadyTasks(taskGraph.tasks, done)) /\ primary' = TRUE
          /\ mem' = done /\ at' = "ready"
      BY <1>4, <2>3 DEF Select, Carried
    <3>2. Follows(done, task')
      BY <1>3, <2>1, <3>1 DEF InOneOrder, OneOrder, Follows
    <3>3. \A t \in Tasks : Follows(done, t) => t = task'
      BY <1>3, <2>1, <3>1 DEF Follows, ComesNext
    <3>4. Asks < MaxEscalationsPerPhase => owed \subseteq {task'}
      BY <1>2, <1>3, <2>1, <3>3 DEF FirstInv, Held, Working, TypedInv, TypeOK, EscalationTypeOK
    <3>. QED
      BY <1>2, <2>1, <3>1, <3>2, <3>4 DEF OneInv, FirstInv, TurnInv, Held, Working
  <2>. QED
    BY <2>2, <2>3
<1>5. CASE BeginPrimary
  <2>1. UNCHANGED <<legacy, done, mem, task, primary, queue, Asks>> /\ at = "ready"
    BY <1>5 DEF BeginPrimary, Asks
  <2>2. CASE at' = "save"
    <3>1. UNCHANGED <<sticky, owed>>
      BY <1>5, <2>2 DEF BeginPrimary, Begin
    <3>. QED
      BY <1>2, <2>1, <2>2, <3>1 DEF OneInv, FirstInv, TurnInv, Held, Working
  <2>3. CASE at' # "save"
    <3>1. /\ at' = "loop" /\ sticky' = (IF sticky = task THEN NoTask ELSE sticky)
          /\ owed' = IF sticky = task THEN owed \ {task} ELSE owed
      BY <1>5, <2>3 DEF BeginPrimary, Begin, IsMeant
    <3>2. owed' \subseteq {sticky'} /\ owed' \subseteq owed
      BY <3>1 DEF OneInv
    <3>3. Asks < MaxEscalationsPerPhase => owed' = {}
      BY <2>1, <3>1 DEF OneInv
    <3>. QED
      BY <1>2, <2>1, <3>1, <3>2, <3>3 DEF OneInv, FirstInv, TurnInv, Held, Working
  <2>. QED
    BY <2>2, <2>3
<1>6. CASE BeginNext
  <2>1. UNCHANGED <<legacy, done, mem, Asks>> /\ at = "cycle"
    BY <1>6 DEF BeginNext, Asks
  <2>2. CASE queue = << >>
    <3>1. UNCHANGED <<sticky, owed>> /\ at' = "save"
      BY <1>6, <2>2 DEF BeginNext
    <3>. QED
      BY <1>2, <2>1, <3>1 DEF OneInv, FirstInv, TurnInv, Held, Working
  <2>3. CASE queue # << >>
    <3>1. /\ task' = Head(queue) /\ queue' = Tail(queue) /\ primary' = FALSE /\ at' = "loop"
          /\ sticky' = (IF sticky = task' THEN NoTask ELSE sticky)
          /\ owed' = IF sticky = task' THEN owed \ {task'} ELSE owed
      BY <1>6, <2>3 DEF BeginNext, Begin, IsMeant
    <3>2. owed' \subseteq {sticky'} /\ owed' \subseteq owed
      BY <3>1 DEF OneInv
    <3>3. Follows(mem, task') /\ InTurn(queue', mem \cup {task'})
      BY <1>3, <2>1, <2>3, <3>1, TailInTurn DEF TurnInv
    <3>. QED
      BY <1>2, <2>1, <3>1, <3>2, <3>3 DEF OneInv, FirstInv, TurnInv, Held, Working
  <2>. QED
    BY <2>2, <2>3
<1>7. CASE LoopPasses
  <2>1. /\ UNCHANGED <<legacy, sticky, owed, done, task, primary, Asks>> /\ at = "loop"
        /\ at' \in {"cycle", "save"} /\ mem \subseteq mem' /\ mem' \subseteq mem \cup {task}
    BY <1>7 DEF LoopPasses, escalationVars, Asks
  <2>2. Asks < MaxEscalationsPerPhase => owed = {}
    BY <2>1 DEF OneInv
  <2>3. Asks < MaxEscalationsPerPhase /\ legacy # NoTask => Follows(mem' \ {legacy}, legacy)
    <3>1. Asks < MaxEscalationsPerPhase /\ legacy # NoTask => Follows(mem \ {legacy}, legacy)
      BY <2>1 DEF FirstInv, Held, Working
    <3>. QED
      BY <2>1, <3>1, MoreFollows
  <2>4. CASE at' = "save"
    BY <1>2, <2>1, <2>2, <2>3, <2>4 DEF OneInv, FirstInv, TurnInv, Held, Working
  <2>5. CASE at' = "cycle"
    <3>1. /\ mem' = mem \cup {task} \/ (mem' = mem /\ queue' = << >>)
          /\ queue' = << >>
             \/ queue' = IF primary THEN Backlog(taskGraph.tasks, done \cup {task}, Hinted)
                         ELSE queue
      BY <1>7 DEF LoopPasses
    <3>2. InTurn(queue', mem')
      <4>1. CASE queue' = << >>
        BY <4>1, NoneInTurn
      <4>2. CASE queue' # << >> /\ primary
        <5>1. mem' = done \cup {task}
          BY <2>1, <3>1, <4>2 DEF TurnInv
        <5>2. queue' = Backlog(taskGraph.tasks, done \cup {task}, Hinted)
          BY <3>1, <4>2
        <5>3. taskGraph.tasks \in Graphs /\ done \cup {task} \in SUBSET Tasks
          BY <1>3, <2>1 DEF Working
        <5>4. InTurn(queue', done \cup {task})
          BY <5>2, <5>3, BacklogInTurn
        <5>. QED
          BY <5>1, <5>4
      <4>3. CASE queue' # << >> /\ ~primary
        BY <2>1, <3>1, <4>3 DEF TurnInv
      <4>. QED
        BY <4>1, <4>2, <4>3
    <3>. QED
      BY <1>2, <2>1, <2>2, <2>3, <2>5, <3>2 DEF OneInv, FirstInv, TurnInv, Held, Working
  <2>. QED
    BY <2>1, <2>4, <2>5
<1>8. CASE LoopIsBlocked
  BY <1>2, <1>8
  DEF LoopIsBlocked, escalationVars, Asks, OneInv, FirstInv, TurnInv, Held, Working
<1>9. CASE LoopEscalates
  <2>1. /\ UNCHANGED <<legacy, sticky, owed, done, mem, task>> /\ at = "loop" /\ at' = "askTask"
        /\ Asks < MaxEscalationsPerPhase /\ Asks' = Asks + 1
    BY <1>9 DEF LoopEscalates, MayEscalate, BumpCount, Asks, TypedInv, CountInv, Phases
  <2>2. owed = {}
    BY <2>1 DEF OneInv
  <2>3. Asks' < MaxEscalationsPerPhase => Asks = 0
    BY <1>3, <2>1 DEF MaxEscalationsPerPhase
  <2>4. Asks' < MaxEscalationsPerPhase => legacy = NoTask
    BY <2>3 DEF FirstInv
  <2>5. Asks' # 0
    BY <1>3, <2>1
  <2>. QED
    BY <1>2, <2>1, <2>2, <2>4, <2>5 DEF OneInv, FirstInv, TurnInv, Held, Working
<1>10. CASE AskAboutTask
  <2>1. /\ UNCHANGED <<sticky, owed, done, mem, task, Asks>> /\ at = "askTask" /\ at' = "decide"
        /\ legacy' \in {legacy, task}
    BY <1>10 DEF AskAboutTask, Ask, TaskQuestion, Asks
  <2>2. owed = {} /\ Follows(mem, task)
    BY <2>1 DEF OneInv, TurnInv
  <2>3. Asks < MaxEscalationsPerPhase => legacy' \in {NoTask, task}
    BY <2>1 DEF FirstInv
  <2>4. mem \ {task} = mem
    BY <2>2 DEF Follows
  <2>5. Asks < MaxEscalationsPerPhase /\ legacy' # NoTask => Follows(mem \ {legacy'}, legacy')
    BY <2>2, <2>3, <2>4
  <2>6. Asks # 0
    BY <2>1 DEF TypedInv, CountInv, Asks, Phases
  <2>. QED
    BY <1>2, <2>1, <2>2, <2>3, <2>5, <2>6 DEF OneInv, FirstInv, TurnInv, Held, Working
<1>11. CASE AutoKeep
  <2>1. UNCHANGED <<legacy, done, mem, Asks>> /\ at = "decide"
    BY <1>11 DEF AutoKeep, Asks
  <2>2. CASE at' = "save"
    <3>1. UNCHANGED <<sticky, owed>>
      BY <1>11, <2>2 DEF AutoKeep
    <3>. QED
      BY <1>2, <2>1, <2>2, <3>1 DEF OneInv, FirstInv, TurnInv, Held, Working
  <2>3. CASE at' # "save"
    <3>1. /\ at' = "respond" /\ legacy # NoTask /\ sticky' = legacy
          /\ owed' = owed \cup {legacy}
      BY <1>11, <2>3 DEF AutoKeep, Keep
    <3>2. owed' = {legacy}
      BY <3>1 DEF OneInv
    <3>3. Asks < MaxEscalationsPerPhase => Follows(mem, legacy)
      BY <2>1, <3>1 DEF FirstInv, TurnInv
    <3>. QED
      BY <1>2, <2>1, <3>1, <3>2, <3>3 DEF OneInv, FirstInv, TurnInv, Held, Working
  <2>. QED
    BY <2>2, <2>3
<1>12. CASE AutoRespond
  BY <1>2, <1>12 DEF AutoRespond, Asks, OneInv, FirstInv, TurnInv, Held, Working
<1>13. CASE AutoRewind
  BY <1>2, <1>13 DEF AutoRewind, Asks, OneInv, FirstInv, TurnInv, Held, Working
<1>14. CASE Save
  <2>1. /\ UNCHANGED <<legacy, sticky, owed, Asks>> /\ at = "save" /\ at' = "idle" /\ done' = mem
    BY <1>14 DEF Save, Exit, Asks
  <2>. QED
    BY <1>2, <2>1 DEF OneInv, FirstInv, TurnInv, Held, Working
<1>. QED
  BY <1>4, <1>5, <1>6, <1>7, <1>8, <1>9, <1>10, <1>11, <1>12, <1>13, <1>14

LEMMA RedesignStep ==
    InOneOrder /\ TypedInv /\ KeptInv /\ RedesignInv /\ [Next]_vars => RedesignInv'
<1>1. torn => torn' \/ UNCHANGED vars \/ ~[Next]_vars
  BY DEF Next, Autopilot, Start, TakeSplit, RunSubFeature, EndSplit, TakeResponse, Finalize,
     EndFinalize, NothingPending, ReuseGraph, ReuseConversation, Plan, CountPlan, AskAboutPlan,
     Converse, Gate, WriteGraph, Select, BeginPrimary, BeginNext, LoopPasses, LoopIsBlocked,
     LoopEscalates, AskAboutTask, AutoKeep, AutoRespond, AutoRewind, Save, Crash, UserDecides,
     Decide, ReadRequest, WriteAnswer, WriteProposal, RemoveRequest, KeepRedesign, RewindState,
     RemoveLegacy, LeaveDialog, decide, escalationVars
<1>2. CASE UNCHANGED vars
  BY <1>2 DEF vars, escalationVars, command, work, RedesignInv, DialogInv, OneInv, FirstInv,
     TurnInv, Held, Asks
<1> SUFFICES ASSUME InOneOrder, TypedInv, KeptInv, Next, User # "hasty", ~torn', ~torn,
                    DialogInv, OneInv, FirstInv, TurnInv
             PROVE  DialogInv' /\ OneInv' /\ FirstInv' /\ TurnInv'
  BY <1>1, <1>2 DEF RedesignInv
<1> USE DEF questions, decide
<1>3. CASE Start \/ TakeSplit \/ RunSubFeature \/ EndSplit \/ TakeResponse \/ Finalize
           \/ EndFinalize \/ NothingPending
  <2>1. /\ UNCHANGED <<deciding, asked, sticky, legacy, done, Asks>> /\ owed' \subseteq owed
        /\ at \notin Working /\ at' \notin Working /\ (at = "idle" => deciding = "idle")
    BY <1>3 DEF Start, TakeSplit, RunSubFeature, EndSplit, TakeResponse, Finalize, EndFinalize,
       NothingPending, Exit, escalationVars, Working, Asks
  <2>. QED
    BY <2>1, RedesignKept DEF DialogInv
<1>4. CASE ReuseGraph \/ ReuseConversation \/ Converse \/ Gate \/ WriteGraph
  <2>1. /\ UNCHANGED <<deciding, asked, sticky, legacy, done, Asks>> /\ owed' \subseteq owed
        /\ at \notin Working \cup {"idle"} /\ at' \notin Working
    BY <1>4 DEF ReuseGraph, ReuseConversation, Converse, Gate, WriteGraph, Exit,
       escalationVars, Working, Asks
  <2>. QED
    BY <2>1, RedesignKept DEF DialogInv
<1>5. CASE Plan \/ CountPlan \/ AskAboutPlan
  <2>1. Asks' = Asks
    BY <1>5 DEF Plan, CountPlan, BumpCount, AskAboutPlan, Asks, TypedInv, CountInv, Phases
  <2>2. legacy' = legacy
    BY <1>5 DEF Plan, CountPlan, AskAboutPlan, Ask, PlanQuestion, TypedInv, KindInv
  <2>3. /\ UNCHANGED <<deciding, asked, sticky, done>> /\ owed' \subseteq owed
        /\ at \notin Working \cup {"idle"} /\ at' \notin Working
    BY <1>5 DEF Plan, CountPlan, AskAboutPlan, Exit, Working
  <2>. QED
    BY <2>1, <2>2, <2>3, RedesignKept DEF DialogInv
<1>6. CASE Select \/ BeginPrimary \/ BeginNext \/ LoopPasses \/ LoopIsBlocked \/ LoopEscalates
           \/ AskAboutTask \/ AutoKeep \/ AutoRespond \/ AutoRewind \/ Save
  BY <1>6, RedesignWork
<1>7. CASE Crash
  <2>1. /\ UNCHANGED <<deciding, asked, sticky, legacy, done, owed, Asks>> /\ deciding = "idle"
        /\ at' = "idle" /\ mem \subseteq done /\ at # "idle"
    BY <1>7 DEF Crash, Exit, DialogInv, Asks
  <2>2. Held = done
    BY <2>1 DEF Held, KeptInv
  <2>3. Held' = done
    BY <2>1 DEF Held, Working
  <2>. QED
    BY <2>1, <2>2, <2>3 DEF DialogInv, OneInv, FirstInv, TurnInv
<1>8. CASE UserDecides
  BY <1>8, RedesignDecides
<1>. QED
  BY <1>3, <1>4, <1>5, <1>6, <1>7, <1>8 DEF Next, Autopilot

\* A redesign that was accepted for a task stands until its loop has begun with
\* it or the graph is replaced, over any number of starts and kills that tear
\* nothing apart, where all graphs are worked through in one order: there is one
\* place for it, which a second redesign would take (.user_redesign_decision.json,
\* _rewind_state_to_task and _inject_user_redesign_must_fix).
THEOREM RedesignsAreKept ==
    ASSUME SortsAreTyped(Graphs, Splits, Hinted, Tasks), OneOrder(Graphs, Hinted, Tasks)
    PROVE  Spec => []RedesignIsNotLost
<1>1. Init => KeptInv /\ RedesignInv
  BY DEF Init, EscalationInit, KeptInv, Working, RedesignInv, DialogInv, OneInv, FirstInv,
     TurnInv, Asks, Phases, NoQuestion
<1>2. RedesignInv => RedesignIsNotLost
  BY DEF RedesignInv, OneInv, RedesignIsNotLost
<1>. QED
  BY <1>1, <1>2, KeptStep, RedesignStep, TypedInvariance, PTL DEF Spec, Typed, InOneOrder
=============================================================================
