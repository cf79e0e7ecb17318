------------------------------- MODULE ToolUse -------------------------------
(***************************************************************************)
(* The openai_tool_use executor: attempts at one task, one after another,  *)
(* on a project that a user edits meanwhile.  An attempt works in a        *)
(* scratch copy through tool calls, is kept going or cut short by its      *)
(* stall ladder, verifies the copy and commits it file by file; what goes  *)
(* wrong in a commit is restored.  A recovery may start from the scratch   *)
(* copy of an earlier attempt: the copy is chosen when the attempt is      *)
(* requested, and made when the attempt has the lock of the project.       *)
(*                                                                         *)
(* A file is known by the changes it holds: every edit of the user's and   *)
(* every write of the executor is numbered in the order they are made, and *)
(* the last of them is its modification time.                              *)
(***************************************************************************)
EXTENDS Naturals, FiniteSets, FiniteSetsExt

CONSTANTS
    Files,             \* allowed_files: files_to_change of the task card
    NewFiles,          \* those that are new: missing at first
    MaxIterations,     \* max_tool_iterations
    MaxNoProgress,     \* max_no_progress_iterations
    MaxNoWrite,        \* max_no_write_iterations
    MaxNoWritePressed, \* max_no_write_iterations_under_budget_pressure
    MaxNoWriteReading, \* max_no_write_iterations_with_observation
    Grace,             \* max_no_write_observation_grace_iterations
    NudgeAt,           \* write_progress_nudge_iteration
    PlanReads,         \* max_patch_plan_required_read_iterations
    MaxWafRetries,     \* max_waf_retries
    MaxVerifyRetries,  \* max_verify_retries
    MaxAttempts,       \* bound on the attempts
    MaxChanges,        \* bound on all edits and writes
    MaxEdits,          \* bound on the user's edits
    MaxFaults,         \* bound on the file operations that fail
    NoFile, NoBase     \* no backup of a file, no scratch copy to start from

ASSUME ToolUseAssumption ==
    /\ IsFiniteSet(Files) /\ NewFiles \subseteq Files
    /\ {MaxIterations, MaxNoWrite, MaxNoWritePressed, MaxNoWriteReading,
        NudgeAt, PlanReads} \subseteq Nat \ {0}
    /\ {MaxNoProgress, Grace, MaxWafRetries, MaxVerifyRetries, MaxAttempts,
        MaxChanges, MaxEdits, MaxFaults} \subseteq Nat

Content == [there : BOOLEAN, has : SUBSET (1..MaxChanges)]

ASSUME NoContent == NoFile \notin Content /\ NoBase \notin [Files -> Content]

VARIABLES
    project,    \* the files of the project
    scratch,    \* the workspace of this attempt, or of the last one
    before,     \* before_hashes
    backup,     \* what the commit has saved of the files it came to
    todo,       \* the touched files the commit has not come to
    earlier,    \* the last scratch copy an earlier attempt wrote to and left
    base,       \* base_workspace_path: the scratch copy the request names
    phase,      \* where the attempt stands
    status,     \* of the attempt or of the last one
    why,        \* the kind of error it was blocked for
    how,        \* who has called _finish
    recovering, \* the task card is a recovery card
    loop,       \* the counters of _run_tool_loop and its stall detector
    changed,    \* changed_paths
    deleted,    \* deleted_paths
    wrote,      \* the tool log has a write of this attempt
    attempts,   \* attempts so far
    faults,     \* file operations that have failed
    now,        \* edits and writes so far
    edits,      \* those of them that are the user's
    owed,       \* changes that nobody may lose, file by file
    spoiled     \* a backup or a restore of this attempt has failed

disk == <<project, before, backup, todo>>
work == <<how, loop, changed, deleted, wrote>>
request == <<recovering, base>>
outcome == <<phase, status, why>>
ghosts == <<now, edits, owed>>
vars == <<disk, scratch, earlier, outcome, request, work, attempts, faults, ghosts, spoiled>>

Loop == [full : BOOLEAN,                   \* execution_protocol(): full_file_v1
         iter : 0..MaxIterations,          \* iteration
         progress : 0..MaxIterations,      \* last_progress_iteration
         write : 0..MaxIterations,         \* last_write_iteration
         seen : 0..MaxIterations,          \* last_observation_iteration
         waf : 0..MaxWafRetries,           \* waf_retry_count
         pressed : BOOLEAN,                \* budget_pressure
         planned : BOOLEAN,                \* patch_plan_required
         reads : 0..PlanReads,             \* patch_plan_required_read_iterations
         actionOnly : BOOLEAN,             \* action_only_mode
         fragmented : BOOLEAN,             \* a path was read in too many windows
         fails : 0..MaxVerifyRetries,      \* verify_failures
         observed : BOOLEAN,               \* iteration_observation_progress
         acted : BOOLEAN]                  \* _has_patch_action of this response

NewLoop == [full |-> FALSE, iter |-> 0, progress |-> 0, write |-> 0, seen |-> 0, waf |-> 0, pressed |-> FALSE,
            planned |-> FALSE, reads |-> 0, actionOnly |-> FALSE, fragmented |-> FALSE,
            fails |-> 0, observed |-> FALSE, acted |-> FALSE]

TypeOK ==
    /\ project \in [Files -> Content] /\ scratch \in [Files -> Content]
    /\ before \in [Files -> Content]
    /\ backup \in [Files -> Content \cup {NoFile}] /\ todo \subseteq Files
    /\ {earlier, base} \subseteq [Files -> Content] \cup {NoBase}
    /\ phase \in {"idle", "chosen", "copied", "ready", "asking", "calling", "verifying",
                  "committing", "restoring"}
    /\ status \in {"none", "running", "PASS", "BLOCKED", "busy", "raised", "killed"}
    /\ why \in {"none", "interrupted", "noWrite", "refused", "stalled", "verify",
                "conflict", "fault", "other"}
    /\ how \in {"none", "call", "stall", "interruption", "plan"}
    /\ loop \in Loop
    /\ changed \subseteq Files /\ deleted \subseteq Files
    /\ attempts \in 0..MaxAttempts /\ faults \in 0..MaxFaults /\ now \in 0..MaxChanges
    /\ edits \subseteq 1..now /\ owed \in [Files -> SUBSET (1..now)]
    /\ {recovering, wrote, spoiled} \subseteq BOOLEAN

Init ==
    /\ project = [f \in Files |-> [there |-> f \notin NewFiles, has |-> {}]]
    /\ scratch = project /\ before = project
    /\ backup = [f \in Files |-> NoFile] /\ todo = {}
    /\ earlier = NoBase /\ base = NoBase
    /\ phase = "idle" /\ status = "none" /\ why = "none" /\ how = "none"
    /\ recovering = FALSE /\ loop = NewLoop
    /\ changed = {} /\ deleted = {} /\ wrote = FALSE
    /\ attempts = 0 /\ faults = 0
    /\ now = 0 /\ edits = {} /\ owed = [f \in Files |-> {}]
    /\ spoiled = FALSE

-----------------------------------------------------------------------------
ModifiedAt(content) == Max(content.has \cup {0})

\* The same hash: all missing files have the one of no file.
Same(a, b) == a = b \/ (~a.there /\ ~b.there)

\* Mutant: any scratch copy with a write in it will do.
NeverNewer(w) == FALSE

\* _project_root_has_newer_recovery_scope
NewerInProject(w) ==
    \E f \in Files : /\ project[f].there /\ project[f] # w[f]
                     /\ ~w[f].there \/ ModifiedAt(project[f]) > ModifiedAt(w[f])

\* _executor_recovery_source_root: the last scratch copy with a write that is
\* still there, else the one the last result names.
LastScratch ==
    IF earlier # NoBase THEN earlier
    ELSE IF status = "BLOCKED" THEN scratch ELSE NoBase

Base(recovery) ==
    IF recovery /\ LastScratch # NoBase /\ ~NewerInProject(LastScratch)
      THEN LastScratch ELSE NoBase

\* _build_implementation_request: the card of a recovery names what to start from,
\* and may ask for action_only_on_start.
Choose ==
    /\ phase = "idle" /\ attempts < MaxAttempts
    /\ attempts' = attempts + 1
    /\ \E recovery, actionOnly, full \in BOOLEAN :
          /\ recovery => attempts > 0
          /\ actionOnly => recovery
          /\ recovering' = recovery
          /\ base' = Base(recovery)
          /\ loop' = [NewLoop EXCEPT !.actionOnly = actionOnly, !.full = full]
    /\ phase' = "chosen" /\ status' = "running" /\ why' = "none"
    /\ spoiled' = FALSE
    /\ UNCHANGED <<disk, scratch, earlier, how, changed, deleted, wrote, faults, ghosts>>

\* A new runtime, under _project_execution_lock: _copy_project_snapshot.  Whether
\* the project is newer by now is not asked again.
Copy ==
    /\ phase = "chosen" /\ phase' = "copied"
    /\ scratch' = IF base = NoBase THEN project ELSE base
    /\ base' = NoBase
    /\ UNCHANGED <<disk, earlier, status, why, recovering, work, attempts, faults, ghosts,
                   spoiled>>

\* before_hashes, taken of the project after the copy.
Hash ==
    /\ phase = "copied" /\ phase' = "ready"
    /\ before' = project
    /\ UNCHANGED <<project, backup, todo, scratch, earlier, status, why, request, work,
                   attempts, faults, ghosts, spoiled>>

-----------------------------------------------------------------------------
\* The runtime is gone.  A scratch copy stays unless its attempt has passed; the
\* tool log finds the last one that was written to.
Gone ==
    /\ phase' = "idle" /\ loop' = NewLoop /\ how' = "none"
    /\ changed' = {} /\ deleted' = {} /\ wrote' = FALSE

Leave == earlier' = IF wrote THEN scratch ELSE earlier

\* blocked_payload
Block(kind) == Gone /\ Leave /\ status' = "BLOCKED" /\ why' = kind

\* Still under way.
Stay == UNCHANGED <<earlier, status, why, changed, deleted, wrote>>

\* _changed_files_from_hashes
Differs == \E f \in Files : ~Same(scratch[f], before[f])

\* _finish, but for its caller's tool: nothing to verify is an error.
Finish(caller) ==
    IF Differs
      THEN phase' = "verifying" /\ how' = caller /\ UNCHANGED loop /\ Stay
      ELSE Block("verify")

\* auto_finish_after_interruption
Interrupted ==
    IF changed \cup deleted = {} THEN Block("interrupted") ELSE Finish("interruption")

Aside == UNCHANGED <<disk, scratch, request, attempts, faults, ghosts, spoiled>>

\* EXECUTION_RUN_LOCK_BUSY: the wait for the project's lock is over without it, and
\* the result names no scratch copy.
LockBusy ==
    /\ phase = "chosen"
    /\ Gone /\ status' = "busy" /\ base' = NoBase
    /\ UNCHANGED <<disk, scratch, earlier, why, recovering, attempts, faults, ghosts, spoiled>>

\* _maybe_accept_preexisting_task_state: verify passes on the project itself.
AcceptExisting ==
    /\ phase = "ready"
    /\ recovering \/ NewFiles # {}
    /\ \A f \in Files : project[f].there
    /\ Gone /\ status' = "PASS"
    /\ UNCHANGED <<earlier, why>>
    /\ Aside

-----------------------------------------------------------------------------
\* _no_write_threshold
NoWriteLimit == IF loop.pressed THEN Min({MaxNoWrite, MaxNoWritePressed}) ELSE MaxNoWrite

\* _recent_observation_progress, before the first write and off budget.
StillReading == ~loop.pressed /\ loop.write = 0 /\ loop.seen > 0
                /\ loop.iter - loop.seen <= Grace

\* enforce_no_write_progress
NoWriteStall ==
    loop.iter - loop.write >
        (IF StillReading THEN Max({MaxNoWrite, MaxNoWriteReading}) ELSE NoWriteLimit)

\* _patch_plan_required_iteration
PlanAt == Max({1, Min({NudgeAt + 2, Max({1, NoWriteLimit - 1})})})

\* _enforce_tool_loop_iteration_budget, the wall clock apart.
OutOfBudget ==
    \/ loop.iter = MaxIterations
    \/ loop.iter + 1 - loop.progress > MaxNoProgress

RunOut ==
    /\ phase \in {"ready", "asking"} /\ OutOfBudget
    /\ Interrupted
    /\ Aside

\* The next iteration, up to the response.  The wall clock or the transport may
\* interrupt it, a firewall's refusal costs it, the hard token budget stalls it,
\* and other errors end the attempt.
Ask ==
    /\ phase \in {"ready", "asking"} /\ ~OutOfBudget
    /\ \/ /\ \E pressed \in {loop.pressed, TRUE} :
                loop' = [loop EXCEPT !.iter = @ + 1, !.pressed = pressed]
          /\ phase' = "calling" /\ UNCHANGED how /\ Stay
       \/ /\ loop.waf < MaxWafRetries
          /\ loop' = [loop EXCEPT !.iter = @ + 1, !.waf = @ + 1]
          /\ phase' = "asking" /\ UNCHANGED how /\ Stay
       \/ Interrupted
       \/ Block("stalled")
       \/ Block("other")
    /\ Aside

-----------------------------------------------------------------------------
\* The tool calls of a response.
Calling == phase = "calling"

Call(l) == loop' = l /\ UNCHANGED <<outcome, earlier, how>>

\* What counts as progress: after a write it no longer matters what was seen.
Progressed == [loop EXCEPT !.write = loop.iter, !.progress = loop.iter, !.seen = 0,
                           !.acted = TRUE]

Acted == [loop EXCEPT !.acted = TRUE]

\* An edit made while this attempt works, which the executor writes beside
\* without having seen it.
Unseen(f) == (project[f].has \ before[f].has) \ scratch[f].has

\* Only a file that joins the changed ones is progress.
Change(f, there) ==
    /\ now < MaxChanges /\ now' = now + 1
    /\ scratch' = [scratch EXCEPT ![f] = [there |-> there, has |-> @.has \cup {now + 1}]]
    /\ owed' = [owed EXCEPT ![f] = @ \ Unseen(f)]
    /\ Call(IF f \in changed THEN Acted ELSE Progressed)
    /\ changed' = changed \cup {f} /\ wrote' = TRUE
    /\ UNCHANGED <<disk, request, attempts, faults, edits, spoiled>>

\* write_new_file and str_replace
Write(f) ==
    /\ Calling
    /\ Change(f, TRUE)
    /\ deleted' = deleted \ {f}

\* delete_file, in the full-file protocol.
Delete(f) ==
    /\ Calling /\ loop.full /\ scratch[f].there
    /\ Change(f, FALSE)
    /\ deleted' = deleted \cup {f}

\* A file that is not there is marked as deleted all the same.
DeleteMissing(f) ==
    /\ Calling /\ loop.full /\ ~scratch[f].there
    /\ Call(Acted)
    /\ deleted' = deleted \cup {f} /\ wrote' = TRUE
    /\ UNCHANGED changed /\ Aside

\* A patch that does not apply; one that changes nothing is in the log as well.
WriteNothing ==
    /\ Calling
    /\ Call(Acted)
    /\ wrote' \in {wrote, TRUE}
    /\ UNCHANGED <<changed, deleted>> /\ Aside

\* A read or a search that shows something new; in action-only mode a hash or
\* the patch plan, in the protocol that has them.  Reading in small pieces
\* leaves its trace.
Observe ==
    /\ Calling
    /\ loop.actionOnly => ~loop.full
    /\ \E pieces \in {FALSE, ~loop.actionOnly} :
          Call([loop EXCEPT !.observed = TRUE, !.progress = loop.iter,
                            !.seen = IF loop.write = 0 THEN loop.iter ELSE 0,
                            !.fragmented = @ \/ pieces])
    /\ UNCHANGED <<changed, deleted, wrote>> /\ Aside

\* A call that ends the attempt: a tool that action-only mode has dropped, the
\* same read, search or call too often, too many patches that fail, a task
\* declared infeasible, or an error.
CallFails ==
    /\ Calling
    /\ \/ loop.actionOnly /\ Block("refused")
       \/ Block("stalled")
       \/ Block("other")
    /\ Aside

\* finish_execution
CallFinish ==
    /\ Calling
    /\ IF Differs
         THEN phase' = "verifying" /\ how' = "call" /\ loop' = Acted /\ Stay
         ELSE Call(Progressed) /\ UNCHANGED <<changed, deleted, wrote>>
    /\ Aside

-----------------------------------------------------------------------------
\* The response is over, its marks with it.
GoOn(l) ==
    /\ phase' = "asking" /\ loop' = [l EXCEPT !.observed = FALSE, !.acted = FALSE]
    /\ UNCHANGED how /\ Stay

\* The attempt goes on without its reading tools, once.
LastChance(l) ==
    IF loop.actionOnly THEN Block("noWrite") ELSE GoOn([l EXCEPT !.actionOnly = TRUE])

\* A stall found after the calls: the attempt is finished with what it has, if
\* it has anything.
Stall(l) == IF changed # {} THEN Finish("stall") ELSE LastChance(l)

NoChange == changed \cup deleted = {}

\* _enforce_patch_plan_required_progress
Reads == IF loop.planned /\ NoChange /\ ~loop.acted /\ ~loop.observed
           THEN loop.reads + 1 ELSE 0

\* _should_require_patch_plan
WithPlan(l) == IF NoChange /\ ~l.planned /\ l.iter >= PlanAt
                 THEN [l EXCEPT !.planned = TRUE, !.reads = 0] ELSE l

\* The end of the response: the patch-plan discipline, the discipline of reads
\* and the wait for a write, in this order.
EndResponse ==
    /\ Calling
    /\ IF Reads > PlanReads
         THEN LastChance([loop EXCEPT !.reads = 0])
         ELSE LET next == WithPlan([loop EXCEPT !.reads = Reads])
              IN  IF loop.fragmented \/ NoWriteStall THEN Stall(next) ELSE GoOn(next)
    /\ Aside

\* _maybe_auto_apply_recovery_patch_plan: the items that apply are written at
\* once.
AutoApply ==
    /\ phase = "ready" /\ recovering /\ ~loop.full
    /\ \/ Block("other") /\ UNCHANGED <<scratch, ghosts>>
       \/ \E written \in SUBSET Files \ {{}} :
             /\ now < MaxChanges /\ now' = now + 1
             /\ scratch' = [f \in Files |->
                              IF f \in written
                                THEN [there |-> TRUE, has |-> scratch[f].has \cup {now + 1}]
                                ELSE scratch[f]]
             /\ owed' = [f \in Files |-> IF f \in written THEN owed[f] \ Unseen(f) ELSE owed[f]]
             /\ changed' = written /\ wrote' = TRUE
             /\ phase' = "verifying" /\ how' = "plan"
             /\ UNCHANGED <<earlier, status, why, loop, deleted, edits>>
    /\ UNCHANGED <<disk, request, attempts, faults, spoiled>>

-----------------------------------------------------------------------------
\* Mutant: only what the tools of this attempt have changed is committed.
OwnChanges == changed \cup deleted

\* The files _commit touches.
Touched == changed \cup deleted \cup {f \in Files : ~Same(scratch[f], before[f])}

\* Mutant: every failure is handed back.
AlwaysMore == TRUE

MoreRetries == loop.fails < MaxVerifyRetries

\* _run_verify in the scratch copy, in _finish: a failure is handed back to the
\* tool that asked for it, within its retries, and is an error to all others.  The
\* counters of the loop are over with the commit.
Verify ==
    /\ phase = "verifying"
    /\ \/ /\ phase' = "committing" /\ todo' = Touched
          /\ loop' = NewLoop /\ UNCHANGED how /\ Stay
       \/ /\ how = "call" /\ MoreRetries
          /\ phase' = "calling" /\ how' = "none"
          /\ loop' = [Progressed EXCEPT !.fails = @ + 1]
          /\ UNCHANGED todo /\ Stay
       \/ /\ how = "call" => ~MoreRetries
          /\ Block("verify") /\ UNCHANGED todo
    /\ UNCHANGED <<project, before, backup, scratch, request, attempts, faults, ghosts, spoiled>>

InCommit == UNCHANGED <<before, scratch, request, attempts, now, edits>>
Goes == UNCHANGED <<earlier, status, work>>

\* _commit of one file, if the project's is the one that was hashed: back it up
\* and put the scratch copy in its place.
Commit(f) ==
    /\ phase = "committing" /\ f \in todo
    /\ Same(project[f], before[f])
    /\ backup' = [backup EXCEPT ![f] = project[f]]
    /\ project' = [project EXCEPT ![f] = scratch[f]]
    /\ todo' = todo \ {f}
    /\ owed' = [owed EXCEPT ![f] = IF project[f].there THEN @ ELSE {}]
    /\ UNCHANGED <<phase, why, faults, spoiled>>
    /\ Goes /\ InCommit

\* PROJECT_CHANGED_DURING_EXECUTION
Conflict(f) ==
    /\ phase = "committing" /\ f \in todo
    /\ ~Same(project[f], before[f])
    /\ phase' = "restoring" /\ why' = "conflict" /\ todo' = {}
    /\ UNCHANGED <<project, backup, faults, owed, spoiled>>
    /\ Goes /\ InCommit

Fault == faults < MaxFaults /\ faults' = faults + 1

\* A copy or a replacement fails, before or after the backup, or halfway
\* through it: the backup that is left then holds less than the file.
CommitFails(f) ==
    /\ phase = "committing" /\ f \in todo
    /\ Same(project[f], before[f])
    /\ Fault
    /\ \/ UNCHANGED <<backup, owed, spoiled>>
       \/ backup' = [backup EXCEPT ![f] = project[f]] /\ UNCHANGED <<owed, spoiled>>
       \/ /\ project[f].there /\ spoiled' = TRUE
          /\ backup' = [backup EXCEPT ![f] = [project[f] EXCEPT !.has = {}]]
          /\ owed' = [owed EXCEPT ![f] = {}]
    /\ phase' = "restoring" /\ why' = "fault" /\ todo' = {}
    /\ UNCHANGED project
    /\ Goes /\ InCommit

Saved == {f \in Files : backup[f] # NoFile}
NothingSaved == [f \in Files |-> NoFile]

\* What is thrown while an interruption is handled leaves the executor.
FailAs(kind) ==
    /\ Gone /\ Leave
    /\ status' = IF kind = "fault" /\ how = "interruption" THEN "raised" ELSE "BLOCKED"
    /\ why' = kind /\ backup' = NothingSaved

\* All files are in place, and _finish looks for what has changed in the project.
Placed == phase = "committing" /\ todo = {}
Remains == \E f \in Files : ~Same(project[f], before[f])

\* The result is PASS and the scratch copy goes.
Committed ==
    /\ Placed /\ Remains
    /\ Gone /\ status' = "PASS" /\ backup' = NothingSaved
    /\ owed' = [f \in Files |-> owed[f] \cup (project[f].has \ edits)]
    /\ UNCHANGED <<project, todo, earlier, why, faults, spoiled>>
    /\ InCommit

\* The result or the log cannot be written: blocked, with all of it in place.
Unreported ==
    /\ Placed /\ Remains
    /\ Fault /\ FailAs("fault") /\ spoiled' = TRUE
    /\ UNCHANGED <<project, todo, owed>>
    /\ InCommit

\* CHANGED_FILES_MISSING: the user has taken all of it back by now.
NothingLeft ==
    /\ Placed /\ ~Remains
    /\ FailAs("other")
    /\ UNCHANGED <<project, todo, faults, owed, spoiled>>
    /\ InCommit

\* Mutant: a file that was missing stays where the commit has put it.
KeepNew(f) == IF backup[f].there THEN backup[f] ELSE project[f]

\* A backup goes back; a file that was missing is removed.
Undone(f) == IF backup[f].there \/ project[f].there THEN backup[f] ELSE project[f]

Restore(f) ==
    /\ phase = "restoring" /\ f \in Saved
    /\ project' = [project EXCEPT ![f] = Undone(f)]
    /\ backup' = [backup EXCEPT ![f] = NoFile]
    /\ UNCHANGED <<phase, why, todo, faults, owed, spoiled>>
    /\ Goes /\ InCommit

Restored ==
    /\ phase = "restoring" /\ Saved = {}
    /\ FailAs(why)
    /\ UNCHANGED <<project, todo, faults, owed, spoiled>>
    /\ InCommit

\* A restore that fails leaves the rest as it is.
RestoreFails ==
    /\ phase = "restoring" /\ Saved # {}
    /\ Fault /\ FailAs("fault") /\ spoiled' = TRUE
    /\ UNCHANGED <<project, todo, owed>>
    /\ InCommit

-----------------------------------------------------------------------------
\* Nothing watches over a file after a scratch copy was chosen to start from, until
\* the hash is taken, nor once the commit has come to it.
Unwatched(f) == base # NoBase \/ phase = "copied" \/ f \in Saved

\* A user edits, deletes or creates a file of the project; so does, while this
\* attempt waits for the lock, another run that has it.  What a deleted file held is
\* no longer owed.
UserEdits(f) ==
    /\ now < MaxChanges /\ Cardinality(edits) < MaxEdits
    /\ now' = now + 1 /\ edits' = edits \cup {now + 1}
    /\ \E there \in {TRUE, ~project[f].there} :
          LET both == project[f].there /\ there
              kept == IF project[f].there THEN project[f].has ELSE {}
          IN  /\ project' = [project EXCEPT ![f] = [there |-> there, has |-> kept \cup {now + 1}]]
              /\ owed' = [owed EXCEPT ![f] =
                    (IF both THEN @ ELSE {})
                      \cup (IF ~there \/ Unwatched(f) THEN {} ELSE {now + 1})]
    /\ UNCHANGED <<before, backup, todo, scratch, earlier, outcome, request, work,
                   attempts, faults, spoiled>>

\* The process is killed: nothing is undone.
Killed ==
    /\ phase # "idle"
    /\ Gone /\ Leave /\ status' = "killed" /\ why' = "none"
    /\ backup' = NothingSaved /\ todo' = {} /\ base' = NoBase
    /\ UNCHANGED <<project, before, scratch, recovering, attempts, faults, ghosts, spoiled>>

Next ==
    \/ Choose \/ Copy \/ LockBusy \/ Hash \/ AcceptExisting \/ AutoApply
    \/ RunOut \/ Ask
    \/ \E f \in Files : Write(f) \/ Delete(f) \/ DeleteMissing(f)
    \/ WriteNothing \/ Observe \/ CallFails \/ CallFinish \/ EndResponse
    \/ Verify
    \/ \E f \in Files : Commit(f) \/ Conflict(f) \/ CommitFails(f) \/ Restore(f)
    \/ Committed \/ NothingLeft \/ Unreported \/ Restored \/ RestoreFails
    \/ \E f \in Files : UserEdits(f)
    \/ Killed

Spec == Init /\ [][Next]_vars

-----------------------------------------------------------------------------
\* No attempt loses what is owed: whatever an attempt that passed has committed,
\* and an edit of the user's, unless it was made while nothing watched over the
\* file or before the executor wrote to its own copy of the same file.  (What is
\* written between the choice of a scratch copy and the hash is lost to a commit
\* without a conflict, and the wait for the lock lies in between.)  The commit's
\* check of the hash, its restore and the choice of the scratch copy keep it
\* together.  A file that is missing is not protected.
OwedIsKept ==
    [][\A f \in Files : project[f].there =>
          project[f].has \cap owed[f] \subseteq project'[f].has]_vars

\* An attempt that is blocked leaves none of its writes in the project, if its
\* backups and restores have not failed.
BlockedLeavesProject ==
    status = "BLOCKED" /\ ~spoiled =>
        \A f \in Files :
            LET since == project[f].has \ before[f].has
            IN  IF since \cap edits = {} THEN Same(project[f], before[f])
                ELSE project[f].there => since \subseteq edits

\* An attempt that passes leaves in the project what verify has seen in the
\* scratch copy, the work of earlier attempts it started from included, in every
\* file that the user has not edited since.
PassIsWhole ==
    [][phase = "committing" /\ status' = "PASS" =>
          \A f \in Files : (project'[f].has \cap edits) \ before[f].has = {} =>
                              Same(project'[f], scratch[f])]_vars
=============================================================================
