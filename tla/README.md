# A verification project for kodawari

kodawari drives a coding agent through a task: design, implement, verify (the
task's test command), a rules gate (static checks), a review by a second model,
a self review, and the hand-off to a release gate.  It retries what fails, asks
for recoveries when the executor stalls, rolls the tree back, pauses for a
decision, and gives up within limits.  These modules model that machinery as
state machines, check it with TLC on small instances, and prove its main safety
properties with TLAPS for every value of the parameters.

Paths below are relative to `src/kodawari/` of the repository unless they start
with `docs/`, `tests/` or `README`.

## 1. Inventory

| Part | Code | State it keeps | Operations | Model |
|---|---|---|---|---|
| Collaboration context | `autopilot/core/collaboration_{types,flow,core}.py`, `core/reviewer_boundary.py` | role, design decided, implementation started, flags of verify / gate / review / self review, must_fix items, review iteration | one transition per result; `next_action` | `Collaboration` |
| Reviewed loop | `engine/loop_runner.py` (`run_peer_review_loop`), `engine/engine_session_mixin.py` | cycle, tokens, round records, streaks of idle fixes and of reviewer drift | dispatch, budgets, settle, finish | `LoopRounds`, `PeerLoop` |
| Single-pass loop | `engine/loop_runner.py` (`run_single_pass_loop`) | position in the script, recovery tries | dispatch, recover, finish | `LoopRounds`, `SinglePass` |
| Executor rounds | `engine/engine_implementation_mixin.py` | execution result, setup-recovery count, changed files | phase guard, call, success, block, stall, error | `LoopRounds` |
| Executor recovery | `engine/engine_recovery_mixin.py`, `recovery/` | attempts (total, per failure signature), pending card, decisions | detect, synthesize, count, escalate | `LoopRounds` |
| Verify and gate rounds | `engine/gate_round.py` | verify check, gate check, checkpoint | pass, retry from checkpoint, retry in place, give up; evidence before a hand-off | `LoopRounds` |
| Review rounds | `engine/engine_review_mixin.py`, `review/` | peer reviews, self reviews, summary | preflight, review, block | `LoopRounds` |
| Rollback checkpoint | `execution/rollback.py` | snapshots, dirty files at capture | capture, rollback | `Rollback`; its use in `LoopRounds` |
| Artifact locks | `infra/io_atomic.py`, `execution/execution_artifacts.py` | the lock file with its owner's pid | acquire, take over a stale lock, release | `FileLock` |
| State file | `core/state.py`, `cli/runtime/autopilot_runtime_flow.py`, `cli/gate/gate_state_sync.py`, `decide_cmd.py`, `task_run_state_sync.py` | the state with its revision and its task claim | load, quarantine, claim, pause, save, mark, edit in place | `StateStore` |
| Task selection | `cli/contract/next_task_selector.py`, `task_activation.py`, `cli/runtime/work_all_runtime.py` | task graph, finished tasks | select, finish, block | `TaskGraph`, `Feature`; the claim of a task in `StateStore` |
| Escalation and decide | `escalation/`, `cli/runtime/decide_cmd.py` | request, response and recovery-card files, escalation count | escalate, decide, resume | `Escalation`, `Feature` |
| Release approval and delivery chain | `cli/delivery/` | approvals, stage results | approve, collect, release | not modelled (section 6) |
| Planning conversation | `planning/planning_orchestrator.py`, `plan_reviewer.py` | plan, review round, repairs | plan, review, repair, accept | `Planning`; what becomes of a plan in `Feature` |
| Parallel execution | `execution/parallel_coordinator.py`, `worktree_manager.py`, `merge_semantics.py` | none: plans and allocations are written | batch, allocate, classify conflicts | not modelled (section 6) |
| Tool-use executor | `execution/tool_use_*.py`, `execution_openai_tool_use.py`, the choice of a base in `engine/engine_recovery_mixin.py` | scratch copy, hashes, backups, the counters of the stall ladder, verify retries | copy, tool calls, stall, verify, commit, restore, auto-finish | `ToolUse` |
| Rules gate, verify analysis, instincts, adapters, command line, web console, spec generator | `gate/`, `verify/`, `instincts/`, `review/*`, `cli/`, `spec_generator/` | | | not modelled: pure functions of text and files, prompts, HTTP and subprocess plumbing, rendering |

How they interact: the `autopilot` command takes up the answer to an earlier
question, makes or reuses a plan (the planning conversation), picks a task and
runs a loop on it.  The loop calls the executor, the verify command, the gate and
the reviewers one after the other, in one thread.  The executor may be the
tool-use one, which works on a copy of the project and commits it file by file.
A loop or a plan that is stuck writes a question, which a separate `decide`
command answers; the answer is taken up by the next start.

What makes the engine hard is not concurrency but history: flags, counters, a
checkpoint and a pending recovery card survive from round to round, and each of a
dozen failure paths must leave all of them right for whatever comes next; the same
holds of questions, answers, kept redesigns and completed tasks from one start of
the command to the next.  Concurrency enters in three places: the lock files and the
state file, which several processes share; the files of one feature, which
`autopilot` and `decide` write in several steps each, and either may be killed
between any two; and the working tree, which a user may edit while a round or an
attempt is under way.  All three are modelled.

What makes each part correct:

- loops: what is delivered has passed every required check as it stands; a
  reviewer's objections reach the executor; limits end runs, and only for the
  reason they name; every run ends;
- rollback: a retry starts from where it says it does, and nothing else is lost;
- locks: one holder at a time, and neither a crash nor a release that fails
  blocks the others for good;
- state file: no save is lost, and a task is worked on by one runner while its
  claim lasts;
- task selection: dependencies before dependents, completed tasks stay so;
- escalation: questions are capped over restarts, an accepted redesign reaches its
  task, and only an approved plan is worked on;
- planning: an accepted plan was reviewed as it stands and nothing blocks it, and
  findings are overruled only when that is earned;
- tool use: an attempt that fails leaves the project as it was, one that passes
  leaves all of what was verified, and no edit of the user's is overwritten.

The list of hazards, line by line, with the property that covers each, is in
`PROJECT.json`.

## 2. Modules

```
Collaboration --- LoopRounds --+-- PeerLoop --- MCPeerLoop
      |                        |       \
      |                        |        +-- PeerLoopProofs
 CollaborationProofs           +-- SinglePass --- SinglePassProofs
                                       Delivery  (abstract; PeerLoop implements it)

 FileLock --- StateStore --- MCStateStore        Rollback --- RollbackProofs
                   |
            StateStoreProofs                     ToolUse --- ToolUseProofs

 TaskGraph --+-- Feature --+-- MCFeature         Planning --+-- MCPlanning
 Escalation -+             +-- FeatureProofs                +-- PlanningProofs
```

The lines are EXTENDS; the proofs about the two loops also extend
`CollaborationProofs`.  `Feature` takes a loop as one step with the outcomes
`PeerLoop` and `SinglePass` have, and a planning conversation as one step with the
ends `Planning` has; `LoopRounds` takes an executor's call as one step with the
outcomes `ToolUse` has, and a rollback as one with those of `Rollback`.

**Collaboration** has no variables.  `CollaborationContext` is the record
`Context`; each helper of `reviewer_boundary` and `collaboration_flow` is an
operator on it (`RecordVerify`, `RecordGate`, `RecordReview`, `RequestRecovery`,
`RecordSelfReview`, `ExecutorDone`, `ReopenAfterVerify`, `ReopenAfterGate`,
`DesignDone`), and `NextAction` is `resolve_next_action` with the four helpers it
calls, in their order.  A must_fix item is a topic: `Topics` for what a reviewer
asks, `EngineTopic` for the items the engine writes itself.  The legacy action
names (`opus_review`, `codex_fix`, ...) are folded into the canonical ones; every
table of the engine treats the two alike.

**LoopRounds** has the state of one run (the engine's `state` and its
`_LoopRuntime`) and one action per way a round can go.  `phase` is the program
counter of the loop's body; it is split where the code makes a decision that
another handler could have preceded, not at every line.  The correspondence:

| Variable | Code |
|---|---|
| `ctx` | `runtime.context` |
| `action`, `phase` | the dispatched `CollaborationAction`; where the iteration stands |
| `reason`, `stop` | the reason given to `_finish_loop`; `state.stop_reason` as `mark_completed` sets it |
| `cycle`, `tokens` | `state.cycle`, `state.tokens_used`, saturating just above their limits |
| `recoveryRequested` | `state.last_stage_status == "executor_recovery_requested"` |
| `verifyCheck`, `gateCheck` | `runtime.verify_check`, `runtime.gate_check` |
| `blockedRounds` | blocked round records that carry a `verify_check` |
| `checkpoint` | `runtime.rollback_checkpoint is not None` |
| `stalled` | `runtime.execution_result` holds a recoverable error code |
| `card`, `attempts`, `sigAttempts`, `noWriteTried` | pending recovery card; attempts of the run and of the current failure signature; a `no_write_stall` decision was made |
| `setupTries` | `state.verify_setup_recovery_attempted` |
| `lastExec` | the stage status and write events of the latest executor round record |
| `selfReviewed`, `peerReviewed` | `runtime.codex_self_reviews`, `runtime.peer_reviews` are not empty |
| `fresh`, `judged`, `turns`, `leftover` | history, read by properties only: the checks the tree as it now is has passed; whether the reviewer has seen the latest result; reviewer answers; failing code that no rollback took back |

`fresh` is what ties the flags to the tree.  It is emptied when the tree is
written and filled when a check passes, without looking at `ctx`; the properties
then compare the two.

Bounds in the model: `cycle` and `tokens` saturate one above their limits and
`blockedRounds` one above `MaxVerifyRetries`; nothing compares them to a larger
value.  Everything else is bounded by the code itself or, like the review
iteration, bounded because the code's limits end the run.

**PeerLoop** adds the preflight of the reviewer, the dispatch of `NextAction`
and the loop's own stop conditions (`SettleFixRound`, `SettlePeerReview`).
**SinglePass** dispatches a script and the recovery rounds after implement.
**MCPeerLoop** adds the symmetry of topics for TLC.  **Delivery** is what a run
promises, with two variables: the checks the tree has passed, and the outcome.
Checks are earned in order on one tree, and only a tree with all of them is
delivered.  `PeerLoop!ImplementsDelivery` maps `fresh` and the run's end to it.

**FileLock** is `acquire_file_lock` and `release_file_lock`.  `lock` is the lock
file: who created it, and whether its pid is in it, is not yet, or never got
there and is older than the stale limit.  `pc` is where each process stands, and
`seen` the lock a process has read and is still judging.  Reading, judging and
unlinking are three steps, and the unlink takes whatever file bears the name by
then.  The constants are what differs between callers and platforms:
`StaleTakeover` (the execution lock passes `stale_after_seconds`, saves do not),
`Hosts` (a Windows host refuses to unlink an open file, a POSIX one does not; `host`
is the one the processes run on) and `PromptWrites` (the pid is written without an
error, well within the limit).  `End` ends a process anywhere.

**StateStore** extends it with the state file and the commands that share it.

| Variable | Code |
|---|---|
| `file` | `.autopilot_state.json`: a state, no file, or `Torn` (not JSON) |
| `at` | where each command stands; the four saves have a stage each |
| `mem` | its `AutopilotState`, with `_loaded_revision` as `rev` |
| `safe` | the revision check of `save` has passed, the file is not yet replaced |
| `expired` | runners whose `claim_expires_at` has passed |
| `handles` | editors whose open handle is the file in place: `os.replace` and a quarantine detach it |

A state is its revision, its claim, and the updates it takes account of: those
of the state its writer had loaded and the writer's own.  A runner that starts a
new session clears fields on purpose; it has seen what it clears.  `Locking` are
the steps of `FileLock` inside `save`, which is why the proofs about the lock
carry over.  Commands are of four kinds: runners that claim their task, bare
runners (no planning snapshot), gate commands, and editors (`decide`, `task-run`)
that read, truncate and write in place without a lock.  Each command runs once;
several commands of a kind stand for its repetition.  **MCStateStore** adds the
symmetry of the runners.

Not in these two: the reuse of a pid by another process, the gap between the
`stat` and the read of a lock and between the read of a torn state file and its
move into quarantine, and two locks at once (no code takes two).

What is abstracted in the loops: prompts, requests, messages, file names and file contents;
the scores and summaries of reviews; which detector takes which failure (a
choice, with `UnmatchedBlocks` saying whether a recoverable block may match
none); whether the decision of `maybe_escalate` is to pause; the hooks,
artifacts and reports a round writes.  `_apply_loop_config_override` and
environment switches are constants.

**Rollback** has what `LoopRounds` leaves out: the files.

| Variable | Code |
|---|---|
| `disk`, `base` | the working tree; the tree when the checkpoint was taken (read by properties) |
| `preDirty` | the engine's own scan before a round (`engine_implementation_mixin.py`) |
| `dirtyThen`, `saved` | `RollbackCheckpoint.pre_dirty_files`, `.snapshots` |
| `reported`, `changed` | `runtime.last_changed_files`, `state.changed_files` |
| `result`, `hidden` | whether the last rollback was called clean; executor's files no list can speak for (read by properties) |

A round writes some files, reports some (not always those), and may fail; `git
status` may fail, and lists a folder without tracked files as one line; restoring
a file may fail or leave it torn.  The user edits between any two steps.
`MaxFaults` counts the steps that meet a fault.  The project is the root of its
repository; an executor that commits by itself and the exclusion of the planning
folder are left out.

**TaskGraph** has the pure orders of tasks and sub-features: the topological
sort, the ready tasks, the stable sort by instincts; and, as reference definitions, what
each of them is for: `TasksInOrder`, `PartsInOrder`, `OneOrder`, `SortsAreTyped`.  TLC
compares the two in **MCFeature** (see section 3), and the proofs take the reference
definitions as hypotheses.  **Escalation** has the files of
a feature's questions and the steps of `decide`; **Feature** adds the `autopilot`
command.

| Variable | Code |
|---|---|
| `count`, `request`, `response` | the escalation count, the request and the response file of each phase |
| `legacy`, `proposal`, `sticky` | `.executor_redesign_request.json`, `.planning_split_proposal.json`, `.user_redesign_decision.json` |
| `done`, `mem` | `completed_tasks` in the state file and in the command's memory |
| `conversation`, `taskGraph` | `PLANNING_CONVERSATION.json`, `TASK_GRAPH.json` |
| `at`, `deciding` | where the two commands stand; either may be killed anywhere (`Crash`, `LeaveDialog`) |
| `task`, `queue`, `chain`, `rest` | the task worked on, the rest of the task cycle, the sub-features |
| `issued`, `approved`, `owed`, `passed`, `torn` | history, read by properties only |

Every write of a file is a step of its own.  The user is `careful` (answers an
open question about a plan before the next start, and gives the input with each),
`hasty` (does not wait) or `silent` (gives no input).  `torn` remembers that a
command died between two writes that belong together.  Abstracted: the tail of a
chain that releases a passed task, manifests that select tasks, the executability
report, the exit for a changed input, the abort action.  The question about a
broken environment counts as one about a deadlock.  Two ways past the usual selection
are left out.  `task-run` leaves a result and ticks in `TASKS.md` behind:
`select_next_task` counts what they name as completed, and returns the result's blocked
task first, with no look at its dependencies (`next_task_selector.py:101-104`, `:238-282`).
With `WORKFLOW_AUTOPILOT_AUTO_REPLAN_ON_PRECONDITION`, off by default, a start that lacks
a precondition makes one new plan in place and goes on with the task it had selected
(`autopilot_runtime_flow.py:655-670`, `:752-838`).  `DependenciesFirst` and
`GraphIsApproved` say nothing of either.

**Planning** is `run_planning_conversation`: a round and then the stages it is
judged in, in their order, as the program counter `at`.  A finding is its severity
and whether it concerns the first task, later ones, or the form of the review.
`current` is the round that is judged, `told` and `seen` are `previous_findings` and
the plan they belong to, `lastPlan`, `lastReview` and `best` the versions the
conversation keeps, and the counters bear the loop's names.  Structural checks,
repairs, evidence packs and prompts are choices; a failed planner names no task;
an exception ends a start without a plan, which `Feature` has.

**ToolUse** is a series of attempts of the tool-use executor on a project that
the user edits.  A file is a set of numbered changes, so that a state says whose
writes a file holds and in what order they were made.  An attempt begins in three steps,
which are apart in the code: `Choose` builds the request and fixes the scratch copy that a
recovery starts from (`engine_implementation_mixin.py:148`), `Copy` makes the copy once the
lock of the project is held (`execution_artifacts.py:397`, `tool_use_runtime.py:217`), or
`LockBusy` ends the attempt after a wait of 30 to 300 seconds, and `Hash` takes the hashes
(`:220`).

| Variable | Code |
|---|---|
| `project`, `scratch`, `earlier` | the project; the scratch copy of this attempt; the last one an earlier attempt wrote to |
| `base`, `recovering` | the scratch copy the request names (`base_workspace_path`), until it is copied; the card is a recovery card |
| `before`, `backup`, `todo` | `before_hashes`, the backups of a commit, the files it has not come to |
| `phase`, `status`, `why`, `how` | where an attempt stands, how it ended and who ended it |
| `loop` | the counters of `_run_tool_loop` and of its stall detector |
| `changed`, `deleted`, `wrote` | `changed_paths`, `deleted_paths`, a write in the tool log |
| `now`, `edits`, `owed`, `spoiled` | history, read by properties only |

Tasks have files to change and a verify command; verification-only tasks, commits
without a verify command, reports, logs and read scopes are left out.  The order in
which files are committed is free.  The check of a file's hash, its backup and its
replacement are one step, so the moment between them is not modelled.  `owed` says of
each file which changes nobody may lose: the user's edits and what was committed by an
attempt that passed.  It leaves out what nothing in the code watches over, and the
property speaks of the rest: an edit, or another run's commit, between the choice of a
scratch copy and the hashes, with the wait for the lock in it (see section 4); an edit
between the copy of the project and the hashes (`tool_use_runtime.py:217-220`); an edit of a
file already committed, undone when the commit is restored (`:1243-1252`); an edit
older than a write of the executor's to its own copy of the file, which survives the
conflict but not a later recovery, as only modification times are compared
(`engine_recovery_mixin.py:706`); deleted files, which a base brings back (`:704`);
and what a torn backup restores.

## 3. Runs

| Run | Shows |
|---|---|
| `PeerLoop` | type correctness with the caps on recoveries, `DeliveredTreeIsChecked`, `ReviewerSeesCheckedTree`, `RoundLimitIsEarned`, `ObjectionsAreAnswered`, and that the loop implements `Delivery`; no rollback, self review required, synthesizer on |
| `PeerRollback` | `GateRetryStartsClean`, `CheckpointIsThere`, `NothingDeliveredOverLimits`, and that every run ends when each recoverable block matches a detector; rollback, fidelity gate, full-feature reviews, a token budget, synthesizer off |
| `SinglePass` | `DeliveredTreeIsGated`, every run ends, also with blocks that match no detector; with review evidence enforced, what is handed on is verified and finished (`EnforcedEvidenceProtects`) |
| `ExecutionLock` | the execution lock, with takeovers, on both kinds of host: `ProtectedExclusion` (where open files cannot be unlinked), `ReleasedLockGoes` and `DeadOwnersLockGoes` (where they can) |
| `StoreShared` | a bare runner, a gate and an editor: one save at a time (`MutualExclusion`; the state file's lock has no stale limit), `NoUpdateLost`, `TornOnlyWhileWritten` |
| `StoreClaims` | three runners: `ClaimIsExclusive`, `ResultLostOnlyByExpiry` |
| `Rollback` | `WritesAreListed`, `CleanTreeIsRestored`, `OthersWorkIsKept`; two rounds, an edit, a fault |
| `Feature` | types, `EscalationsAreCapped`, `GraphIsApproved`, `RedesignIsNotLost`, `SubFeaturesInOrder`, `DependenciesFirst`, `CompletedStays`; a careful user, kills anywhere |
| `Planning` | `AcceptedPlanIsSound`, `AcceptedPlanIsReviewed`, `DemotionIsEarned`, `NoCleanRoundIsPassedOver`; all four policies |
| `ToolUse` | types, `BlockedLeavesProject`, `OwedIsKept`, `PassIsWhole`; two attempts, an edit, a fault |
| `PeerLivelock` | finding 1 below |
| `SinglePassUnverified` | finding 2 |

Bounds and why they are enough.

*Loops.*  `PeerLoop` has two topics besides the engine's, so that reviews overlap,
drift and repeat (a drift needs two disjoint sets); the runs that check liveness have
one, as symmetry is not used with it.  `MaxCycles = 3` leaves room for an
implementation and two fix rounds, so that a limit can bite before, during and after a
recovery; `MaxRounds = 2` lets a reviewer object once and be asked again;
`MaxRecoveries = 2` and `MaxTotalRecoveries = 3` make the per-signature and the
total limit bite separately; `MaxVerifyRetries = 2` allows a retry that itself
fails; the token budget lets one round overrun it.

*Locks and state file.*  Stealing a lock takes three processes (an owner that leaves,
one that judged its lock, one that takes the next), so the lock run has three (12,411
states).
`StoreShared` has two commands that save, in every order, and an editor; `StoreClaims`
has three runners with two saves each, so that a claim can be taken over twice.  All
four kinds at once are out of TLC's time; the theorems have any number of each.

*Rollback.*  Two targets and a file that is none, a new file alone in its folder;
two rounds, so that a rollback can meet what an earlier round left; one edit and one
step with a fault, at any point (970,552 states).

*Feature.*  A graph of three tasks in a row, listed backwards, and two splits, of which
one cannot be ordered.  Two plans: one that is asked about and one that replaces it.
The hinted task depends on nothing (see section 4).  4.7 million states; the hasty user
has more than 13 million and is not a listed run.  The sorts are compared with their
reference definitions for every list of three tasks whose dependencies are not circular,
for every split of three parts with at most two dependencies each, and for the graph,
hints and splits of the run (`AllGraphsAreInOrder`, `AllSplitsAreInOrder`,
`AllSortsAreTyped`, `RunIsInOrder`, which TLC evaluates before the run).

*Planning.*  Four rounds are the fewest in which three rounds of form-only findings
can be followed by something else; two plans, two missing preconditions and two open
questions tell "the same again" from "another" (6.2 million states).

*ToolUse.*  Two files, one of them new, are needed for a commit that fails half way;
two attempts for one that starts from the other's copy; every limit of the stall ladder
is at its least value at which the rungs still differ (2.9 million states).  Larger
instances were tried once and showed nothing else: three attempts (9.5 million states);
three changes and two edits, and three changes and three attempts, with a single response
per attempt (2.9 and 5.5 million).

Fairness.  `WF_vars(Next)` only, in `PeerRollback`, `SinglePass` and `PeerLivelock`: the
loop is one thread that nothing suspends, and every call it makes is bounded by a
timeout of its own (executor, verify command, reviewer, synthesizer).  No fairness is
assumed of the outcomes: an executor may stall for ever, a reviewer may object for ever.
`DeadOwnersLockGoes` is checked under `LiveLockSpec`, weak fairness of each
process's steps inside `path_lock`: a wait ends by its deadline, and what is done
under the lock by the time limits of its own calls.  Nothing makes a process want
the lock, and it may be killed at any time (`End` is not fair, and excuses it).
The safety properties need no fairness.

Deadlock.  A run that has finished stutters explicitly (`Finished`; `AllEnded` for
processes; `Stop` of `Rollback`), so no reachable state leaves a handler without a way
to go on.  `Feature`, `Planning` and `ToolUse` switch the check off: a conversation is
done, and the other two stop at the bounds on plans and attempts.

The type invariants of `StateStore`, `Rollback` and `Planning` are proved instead of run.

## 4. Findings

1. **The reviewed loop need not end** (`PeerLivelock`).  `README.md` says a task
   is re-checked "until it's approved or hits `max_cycles`".  The cycle limit is
   waived for fix rounds while the last execution result holds a recoverable
   code (`engine/engine_session_mixin.py:564-596`).  Codes such as
   `MAX_TOOL_ITERATIONS` match no detector; with the synthesizer off nothing
   counts such a round: no recovery attempt, no idle fix, no tokens.
2. **A failed verify is delivered** (`SinglePassUnverified`).  With retry budget
   left a failed verify "continues to the fix round"
   (`engine/gate_round.py:354-363`), but the single-pass loop has none: it goes
   on to the rules gate and proceeds with stop reason PASS.  Enforced review
   evidence catches it at the last step (`EnforcedEvidenceProtects`).

What follows is in the models, and in no listed run.

Locks and the state file:

- *A live lock is removed.*  A process that found a lock stale unlinks the name a moment
  later (`infra/io_atomic.py:56-58`).  If the owner has ended, after releasing, and a
  third process has taken the lock since, its lock is removed where open files can be
  unlinked: two executions then run on one project.  `MutualExclusion` fails with
  `StaleTakeover` on a POSIX host; `ProtectedExclusion` is what is left of it.
- *A released lock stays.*  Where open files cannot be unlinked, the release fails while
  a waiting process reads the lock, the error is swallowed (`infra/io_atomic.py:71-74`),
  and the lock names a live process: the next run waits out its limit and is blocked.
  `LockHasHolder` fails with `StaleTakeover` on a Windows host; `ReleasedLockGoes` is what
  is left of it.  A reader that holds a dead process's lock open keeps it there as well, so
  `DeadOwnersLockGoes` speaks of POSIX hosts.
- *An edit is overwritten without a conflict.*  `decide` and `task-run` change the state
  file and leave its revision as it is, so the check of the next save sees nothing
  (`decide_cmd.py:750,783`, `task_run_state_sync.py:145`).

Rounds:

- with rollback on, a failed verify whose rollback was partial is retried in place,
  where two comments say that it terminates (`engine/gate_round.py:336,351`);
- a setup error in the single-pass loop requests a retry that the loop does not look for
  (`engine/engine_implementation_mixin.py:786`, `engine/loop_runner.py:190`).

Planning (`planning/planning_orchestrator.py`):

- a round that lacks a precondition goes on without keeping its findings (`:956`), so
  the planner is not told what was missing, where
  `docs/operations/autopilot_invocation_runbook.zh-CN.md` and the head of
  `tests/test_precondition_replan_loop.py` say that it is.  No property is about it: of the
  other rounds it would restate one assignment (`told` in `Settle`);
- when evidence stays ambiguous and a clean round is at hand, `soft-gate` and
  `auto-skip` accept it, where the docstring at `:210-238` has the streak escalate;
- `auto-skip` may accept a plan whose reviewer failed, if only structural issues of
  later tasks block it; `AcceptedPlanIsReviewed` says so;
- `best_clean_round` is never one of several (`NoCleanRoundIsPassedOver`), the status
  `error` is unreachable, and the check of `soft-gate` inside the loop is dead;
- an infeasible input, open evidence, a failed reviewer and a missing precondition end
  without a question to the user (`:846`).

Features and escalation:

- a hint moves its task to the front of the cycle, also before one it depends on
  (`autopilot_workflow_runtime.py:275`; `docs/PIPELINE_DEEP_DIVE.md:229` has dependencies
  first): `DependenciesFirst` fails with a hint on a dependent task;
- a feature has one place for an accepted redesign (`decide_cmd.py:341`).  When a hint
  or a replanned graph puts another task first, that task may be asked about next, and its
  redesign takes the place of one that no loop has seen yet: `RedesignIsNotLost` fails.
  It is proved where all graphs are worked through in one order (`RedesignsAreKept`);
- an answer accepts the plan that is on disk when it is taken up, which is not the one
  that was asked about if the user started again, or a start died, in between
  (`escalation/resume.py:333-336`); a start without input reuses a plan that nobody has
  approved (`model_bootstrap.py:569`).  `GraphIsApproved` speaks of the careful user;
- an accepted or custom answer to the executor's question other than a refactoring is
  marked as applied, and nothing of it reaches the loop (`escalation/resume.py:332,350-353`,
  against its docstring, line 16);
- a skipped executor task is neither dropped nor passed over (`resume.py:15,327`); the
  parent that a split replaced is planned again (`resume.py:269`); a proposal that is cyclic
  or too deep ends every later start (`resume.py:140`);
- the older path of a refactoring leaves the phase's request in place
  (`decide_cmd.py:364`), auto-decide may answer a stale request (`decide_cmd.py:1155`),
  a redesign is lost when the command is killed inside the loop it was for
  (`engine_session_mixin.py:300`), and completed ids outlive the plan they belong to
  (`autopilot_runtime_flow.py:308`).

Tool use (`execution/`):

- a recovery's scratch copy is compared with the project when the attempt is requested
  (`engine_implementation_mixin.py:148`, `engine_recovery_mixin.py:691`); then come the
  capture for a rollback and the wait for the project lock (`execution_artifacts.py:397,462`),
  and the copy rechecks only that the path exists (`tool_use_runtime.py:512-531`).  What the
  user edits, or another run commits, in between is in the hashes but not in the copy, and is
  overwritten without a conflict: `OwedIsKept` fails if `Unwatched` leaves out
  `base # NoBase`;
- a second write to a file that has changed already does not count as write progress
  (`execution_openai_tool_use.py:533`; the comment at `tool_use_runtime.py:545-549` says
  otherwise);
- a stall raised inside a call and the hard budget get no last round without reading
  tools, and drop the changes made so far untested; with the default limits the
  no-progress stop comes before the no-write one.  Only a stall found after the calls gets
  that round (`LastChance`);
- the raised limit of no-write iterations after an observation has no effect: a maximum is
  taken with a larger number (`tool_use_stall.py:165-184`);
- the base for a recovery is the latest write in the tool log, which may be another task's
  (`engine_recovery_mixin.py:744`); what an attempt inherits from a base is committed with
  its own changes when it passes, but is not enough for an auto-finish;
- `.execution_infeasibility.json` is never removed (`tool_use_result.py:297-306`);
- a result that cannot be written after the commit ends the attempt as blocked with
  everything in place.

## 5. Proofs

`CollaborationProofs` has the lemmas on the context: the type of each
transition, which fields it leaves alone, and what `NextAction` implies about
its argument (`ProceedAfterAll`, `ReviewAfterChecks`, `GateAfterVerify`, ...).
`PeerLoopProofs` proves, for every value of the constants that satisfies the
assumptions of the modules:

| Theorem | Statement |
|---|---|
| `Invariance` | `Spec => []Inv` |
| `TypeCorrectness` | `Spec => []TypeOK` |
| `DeliveryIsChecked`, `DeliveryIsWithinLimits`, `ReviewIsOfCheckedTree`, `RoundLimitEarned`, `CheckpointAlwaysThere`, `GateRetryClean` | the invariants of the runs |
| `ObjectionsAnswered` | the action property |
| `Refinement` | `Spec => ImplementsDelivery` |
| `RunsAreBounded` | without `UnmatchedBlocks` and `Synthesizer`: each step lowers `Left`, a natural number |

None of the invariants is inductive alone.  `Inv` is the conjunction of

- `ControlInv`: which actions go with which phase, and what the resolution of
  the action says about `ctx` while the round it chose is under way;
- `ContextInv`: each flag of the context is backed by `fresh`, the heart of the
  matter: `ctx.verifyPassed` implies `"verify" \in fresh`, and so on, and what has
  been earned was earned in order;
- `FlagsInv`: `verify_check` and `gate_check` agree with the flags;
- `TurnInv`: the review iteration never exceeds the reviewer's answers;
- `CheckpointInv`: with rollback on, a started task that still has to be verified
  or gated has a checkpoint (a blocked gate or verify uses it up and reopens a
  fix round, whose capture sets a new one);
- `LeftoverInv`: code the gate refused is only left behind where the run ends;
- `LimitsInv`: past `max_cycles` only fix rounds run, until the run ends, and a
  budget that is overrun is noticed before anything else is dispatched;
- `OutcomeInv`: what each reason of a finished run says about its state.

The step lemmas follow `Next`: one per group of actions, one step per action,
one sub-step per conjunct the action can disturb.  `Refinement` takes the same
invariant and maps each action to `Check`, `Lose`, `Deliver`, `Abandon` or a
stutter of `Delivery`.

`RunsAreBounded` is the argument for termination, for any limits; that a run does take its
next step is the fairness of `PeerRollback`.  `Left` orders four things.  `Chances` are the
cycles, recovery attempts and setup retries that are left.  `Credit` is what the current
executor round is paid with: a round costs a cycle, or, past `max_cycles`, follows a
failure (`FailedInv`), and then either a detector counts an attempt or the failure was
a setup error that has counted a retry.  `Due` weighs the rounds the context may ask for
before the executor works again, and `Stage` is the place in the iteration.  The two
hypotheses are what finding 1 of section 4 violates: a block that no detector matches
takes no chance.

`SinglePassProofs` holds for any limits and outcomes:

| Theorem | Statement |
|---|---|
| `PassInvariance` | `Spec => []PassInv` |
| `DeliveredIsGated`, `EvidenceProtects` | the invariants of the run |
| `RunsAreBounded` | each step lowers `Left`, a natural number, also with blocks that match no detector |

Nothing resolves the next action in this loop, so `PassInv` is about the place in the
script: `ScriptInv` and `PlaceInv` say which action of which script is under way,
`BehindInv` what the checks that lie behind have left (the gate lets only a tree pass
that it accepted; an executor that is not done, or a verify that failed, leaves an open
item), and `DeliveredInv` what is handed on.  `Left` counts the rest of the script and
of the recoveries.

`StateStoreProofs` holds for every set of processes and commands, the lock included:

| Theorem | Assumes | Statement |
|---|---|---|
| `LockInvariance` | | `LockSpec => []LockInv` |
| `Exclusion` | | `LockSpec => []ProtectedExclusion`: one holder where there are no takeovers or open files stay (`Protected`) |
| `NoLockLeftBehind` | | `LockSpec => []ReleasedLockGoes`: no lock without a holder where there are no takeovers or open files can go (`Removable`) |
| `StoreInvariance`, `StoreTypes` | | `Spec => []StoreInv`, `[]TypeOK` |
| `StoreUsesLock`, `StoreExclusion` | no takeovers, for the second | `Spec => LockSpec`, `[]MutualExclusion` |
| `UpdatesKept` | `CheckedOnly`: no takeovers and no editors | `Spec => NoUpdateLost` |
| `ClaimsExclude`, `ResultsKept` | `ClaimingOnly`: besides, only runners that claim | the invariants of `StoreClaims` |
| `TornByItsEditor` | one editor | `Spec => []TornOnlyWhileWritten` |

The assumptions and antecedents are not for the prover's sake: the three disagreements about locks and
the state file in section 4 are what happens without them.  With takeovers, the two lock
properties need opposite platforms, so neither platform has both.

- `LockInv`: where the lock is protected, whoever is inside owns the file in
  place; nobody reads a lock where there are no takeovers.
- `KnownInv`: what a command has in memory is never newer than the file, and the
  same revision means that it takes account of everything in the file.
- `SafeInv`: a comparison that has passed is still true until the lock is given
  up.  It rests on `MutualExclusion`.
- `ClaimsOf`: a runner about to claim has seen no active claim in the state it
  loaded; one whose claim is active has loaded the newest state, and the claim in
  it is its own.  A step can end a claim but never revive one (`ActiveBefore`), so
  whoever replaces the file either owns the claim in it or knows it has run out
  (`ReplaceClaims`).
- `TornInv`: the editor never enters the lock; its open handle is that of an unreadable
  file, and where the file is torn the editor is in the middle of its write, with that
  handle or dead.  `WriterInv`: nobody but an editor writes in place.  The theorem is about
  one editor, as the run is.

`RollbackProofs` holds for any files, rounds, edits and faults:

| Theorem | Statement |
|---|---|
| `TypeCorrect` | `Spec => []TypeOK` |
| `CheckpointHolds` | `Spec => []CheckpointInv`: the snapshots and dirty files tell the tree as it was when the round began |
| `CleanRollback`, `RollbackIsBounded`, `ListIsKept` | the three properties of the run |

`FeatureProofs` holds for any tasks, graphs, splits and bound on plans.  What the recursive
sorts of `TaskGraph` return is a hypothesis of the theorems that need it, as a recursive
definition cannot be proved about: `SortsAreTyped` (tasks in, tasks out), `TasksInOrder`
(the sort of a graph in use puts dependencies first), `PartsInOrder` (the same of a split
that is not refused).  `MCFeature` has TLC evaluate them on the graphs and splits of its
run, and beyond those on every graph of its tasks that has no cycle and every split of
three sub-features.

| Theorem | Statement and argument |
|---|---|
| `FeatureTypes` | `TypeOK`, from `SortsAreTyped` |
| `LoopsInOrder` | `DependenciesFirst`, from `TasksInOrder`, by `OrderInv`: what is complete has passed, and the rest of the cycle may follow on that |
| `PartsAreRunInOrder` | `SubFeaturesInOrder`, from `PartsInOrder` |
| `RedesignsAreKept` | `RedesignIsNotLost`, from `OneOrder` (graphs and hints agree on which task comes next), by `RedesignInv` |
| `QuestionsAreCapped` | `EscalationsAreCapped`, by `CountInv`: between the count and the question the count is ahead |
| `CompletedTasksStay` | `CompletedStays`: while a start works, its memory holds what the state file has (`KeptInv`) |
| `ApprovedPlansOnly` | `GraphIsApproved`, by `KindInv` and `CarefulInv`: for a careful user an answer, the question it is to and the conversation on disk are of one plan |

`RedesignInv` says why no redesign takes the place of another: a question about a second
task can only be asked once the first is complete.  `DialogInv` is about the user's dialog,
which is closed while a command runs; `OneInv` says that one redesign at a time is owed, and
none when a task may be asked about; `FirstInv` that the task it is owed to comes next; and
`TurnInv` that what a command works on comes next too.

`PlanningProofs` holds for any planner, reviewer, policy and limit:

| Theorem | Statement and argument |
|---|---|
| `ConversationHolds` | `PlanInv`: what is known of a round in each stage, that the versions kept are those of this round, and what each status implies |
| `SoundPlansOnly`, `ReviewedPlansOnly`, `FirstCleanRoundEnds` | from `PlanInv` |
| `DemotionsAreEarned` | by `StreakInv`: the streak counts rounds in a row up to this one |
| `PlanningTypes` | `TypeOK`, by `CounterInv`: the counters grow with the rounds and the loop stops at their limits |

`ToolUseProofs` holds for any files, limits, attempts, edits and faults:

| Theorem | Statement |
|---|---|
| `AttemptsHold` | `IInv` and `ChosenInv`; `IInv` is `NumbersInv`, `PhaseInv`, `SavedInv`, `PlacedInv` |
| `BlockedIsUndone` | `BlockedLeavesProject` |
| `PassedIsWhole` | `PassIsWhole` |
| `TypeCorrect` | `TypeOK` |
| `OwedHolds` | `OwedTogether`: for each file `BaseInv`, `CopyInv`, `BackupInv`; and `BaseKeeps` |
| `NothingOwedIsLost` | `OwedIsKept`: no step takes from a file what a passed attempt has committed, or what the user has edited while something watched over it |

The argument is about *clean* files, which nobody but the user has changed since their
hashes were taken.  `SavedInv`: all files are clean until the commit, and during it each
is clean or has a backup with the content of the hash, so a restore makes it clean again.
`PlacedInv`: a file the commit is past holds what the scratch copy holds, unless the user
has edited it.

What is owed needs an invariant of each file and of everything that may be put in its
place.  `BaseInv`: the scratch copy a recovery starts from is `Ahead` of the project, which
means that it holds what has to be kept of the file, or that the file has something newer
than all of it, and then a recovery starts from the project (`NewerInProject`).
`ChosenInv` and `BaseKeeps` carry that over the wait for the lock: a scratch copy once chosen
is the last one written to, and holds what has to be kept of the project until it is copied,
since what is written meanwhile is not owed.
`CopyInv`: the copy that is committed holds what has to be kept of the file whose hash was
taken.  `BackupInv`: a backup holds what is owed, and is ahead of the copies like the file
it was taken of.

Only model-checked:

- `Termination` and `DeadOwnersLockGoes`, as liveness is outside the prover.  Of the first,
  `RunsAreBounded` is the part that needs no fairness;
- what the recursive sorts return (induction over data): the hypotheses of `FeatureProofs`.

Everything else that the passing runs check is stated by a theorem, in places under a
hypothesis the tables name.

## 6. Not modelled, and what is left

Parts left out, and why:

- *Release approval and delivery chain*: each stage reads the artifacts of the earlier
  ones and combines their verdicts in one pass.  An approval carries no fingerprint that
  could go stale, nothing is retried and no file is shared with another process.
- *Parallel execution*: batches, branch names and worktree paths are written for somebody
  else to use; the program starts nothing in parallel and merges nothing itself.
- *Instinct learning*: a store that the loop feeds and never waits for; failures are
  swallowed.  Its hints are `Hinted` in `Feature`.
- *Rules gate engine, safety policies, verify analysis*: functions of files and of test
  output; the loop sees a verdict.
- *Review adapters, model gateways*: subprocesses and HTTP calls around a prompt.
- *Command line, reports, web console, spec generator, schemas, scripts*: argument parsing,
  rendering and text generation.

What could still be added to the models:

- the other users of the lock: the escalation counter, the JSONL logs, the global store;
- the work-all watchdog, subtask state and task manifests;
- executors other than the tool-use one, which the loops see by their outcomes only;
- what a `task-run` leaves behind for the next selection, and the opt-in replan of a start;
- in `StateStore`, the reuse of a pid, and the gaps between the `stat` and the read of a
  lock and between the read of a torn state file and its move into quarantine.
