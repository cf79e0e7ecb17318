----------------------------- MODULE StateStore -----------------------------
(***************************************************************************)
(* The state file .autopilot_state.json and the commands that share it.    *)
(* A runner (kodawari autopilot) loads it, claims its task in it, works,   *)
(* and saves the result; the gate command loads, marks and saves it; both  *)
(* save under the file lock and compare revisions.  Editors (decide and    *)
(* the end of task-run) rewrite the file without either.                   *)
(*                                                                         *)
(* What a state contains is the set of updates it takes account of: those  *)
(* of the state its writer loaded, and the writer's own.                   *)
(***************************************************************************)
EXTENDS FileLock, Naturals, FiniteSets

CONSTANTS
    Runners,     \* autopilot commands with a planning snapshot: they claim
    BareRunners, \* autopilot commands without one
    Gates,       \* gate commands
    Editors,     \* decide and task-run commands
    NoFile,      \* there is no state file
    Torn,        \* it is truncated or mixed: not JSON
    NoClaim      \* nobody has claimed the task

\* The saves of the state file.
Saves   == {"claiming", "pausing", "finishing", "gating"}
Updates == Procs \X (Saves \cup {"editing"})
State   == [rev : Nat, claim : Procs \cup {NoClaim}, has : SUBSET Updates]

ASSUME StoreAssumption ==
    /\ Procs = Runners \cup BareRunners \cup Gates \cup Editors
    /\ Runners \cap (BareRunners \cup Gates \cup Editors) = {}
    /\ BareRunners \cap (Gates \cup Editors) = {}
    /\ Gates \cap Editors = {}
    /\ NoFile \notin State /\ Torn \notin State /\ NoFile # Torn
    /\ NoClaim \notin Procs

VARIABLES
    file,    \* the state file
    at,      \* where each command stands
    mem,     \* the state each command has in memory; rev is its _loaded_revision
    safe,    \* the save has compared the revisions and is to replace the file
    expired, \* the runners whose claim's time has run out
    handles  \* the editors whose open handle is that of the file in place

storeVars == <<file, at, mem, safe, expired, handles>>
vars      == <<lockVars, storeVars>>

Stages == {"start", "loaded", "ready", "running", "editing", "writing",
           "refused", "lost", "failed", "done"} \cup Saves

TypeOK ==
    /\ LockTypeOK
    /\ file \in State \cup {NoFile, Torn}
    /\ at \in [Procs -> Stages]
    /\ mem \in [Procs -> State]
    /\ safe \in [Procs -> BOOLEAN]
    /\ expired \subseteq Runners
    /\ handles \subseteq Editors

\* A new AutopilotState, and a state file that has no revision yet.
FreshState == [rev |-> 0, claim |-> NoClaim, has |-> {}]

Init ==
    /\ LockInit
    /\ file \in {NoFile, FreshState}
    /\ at = [p \in Procs |-> "start"]
    /\ mem = [p \in Procs |-> FreshState]
    /\ safe = [p \in Procs |-> FALSE]
    /\ expired = {} /\ handles = {}

-----------------------------------------------------------------------------
\* A command takes its next step outside the lock.
From(p, stage) == at[p] = stage /\ pc[p] = "out"

Advance(p, stage) == at' = [at EXCEPT ![p] = stage]

Keep(p, state) == mem' = [mem EXCEPT ![p] = state]

\* AutopilotState.load: what is not JSON is moved away (quarantined).
Quarantine ==
    IF file = Torn THEN file' = NoFile /\ handles' = {}
                   ELSE UNCHANGED <<file, handles>>

\* load_or_init_state: without a readable file a run starts from a new state.
Load(p) ==
    /\ p \in Runners \cup BareRunners /\ From(p, "start")
    /\ Advance(p, "loaded")
    /\ Keep(p, IF file \in {NoFile, Torn} THEN FreshState ELSE file)
    /\ Quarantine
    /\ UNCHANGED <<lockVars, safe, expired>>

\* _claim_is_active: its time has not run out and its process lives.
Active(claim) == claim # NoClaim /\ claim \notin expired /\ pc[claim] # "dead"

\* Mutant: the claims of others are not looked at.
MayClaimAnyway(p) == TRUE

MayClaim(p) == ~Active(mem[p].claim)

\* _claim_planning_task; save enters the lock.
Claim(p) ==
    /\ p \in Runners /\ From(p, "loaded") /\ MayClaim(p)
    /\ Keep(p, [mem[p] EXCEPT !.claim = p])
    /\ Advance(p, "claiming") /\ Enter(p)
    /\ UNCHANGED <<file, safe, expired, handles>>

\* task_claimed_by_other
Refuse(p) ==
    /\ p \in Runners /\ From(p, "loaded") /\ ~MayClaim(p)
    /\ Advance(p, "refused")
    /\ UNCHANGED <<lockVars, file, mem, safe, expired, handles>>

\* Without a planning snapshot there is nothing to claim.
SkipClaim(p) ==
    /\ p \in BareRunners /\ From(p, "loaded")
    /\ Advance(p, "ready")
    /\ UNCHANGED <<lockVars, file, mem, safe, expired, handles>>

\* maybe_pause_for_planning_decision: the claim is dropped.
Pause(p) ==
    /\ From(p, "ready")
    /\ Keep(p, [mem[p] EXCEPT !.claim = NoClaim])
    /\ Advance(p, "pausing") /\ Enter(p)
    /\ UNCHANGED <<file, safe, expired, handles>>

Run(p) ==
    /\ From(p, "ready")
    /\ Advance(p, "running")
    /\ UNCHANGED <<lockVars, file, mem, safe, expired, handles>>

\* execute_autopilot_runtime is over: mark_completed drops the claim, but some
\* loops end without it.  The result is saved.
Finish(p) ==
    /\ From(p, "running")
    /\ \E claim \in {mem[p].claim, NoClaim} : Keep(p, [mem[p] EXCEPT !.claim = claim])
    /\ Advance(p, "finishing") /\ Enter(p)
    /\ UNCHANGED <<file, safe, expired, handles>>

\* _sync_autopilot_state: mark_completed, whoever has claimed the task.
MarkGate(p) ==
    /\ p \in Gates /\ From(p, "start") /\ file \notin {NoFile, Torn}
    /\ Keep(p, [file EXCEPT !.claim = NoClaim])
    /\ Advance(p, "gating") /\ Enter(p)
    /\ UNCHANGED <<file, safe, expired, handles>>

\* No file, one that cannot be read, or a gate neither passed nor blocked.
SkipGate(p) ==
    /\ p \in Gates /\ From(p, "start")
    /\ Advance(p, "done")
    /\ Quarantine
    /\ UNCHANGED <<lockVars, mem, safe, expired>>

\* The time of p's claim runs out: it is set when the claim is made.
Expire(p) ==
    /\ p \in Runners \ expired
    /\ at[p] \notin {"start", "loaded", "refused"}
    /\ expired' = expired \cup {p}
    /\ UNCHANGED <<lockVars, file, at, mem, safe, handles>>

-----------------------------------------------------------------------------
\* AutopilotState.save, inside the lock.
AfterSave(p) == IF at[p] = "claiming" THEN "ready" ELSE "done"

\* RevisionConflictError or CorruptArtifactError: a claim is refused, a pause
\* goes on without it, the result of a run or a gate is lost.
AfterConflict(p) ==
    CASE at[p] = "claiming" -> "refused"
      [] at[p] = "pausing"  -> "done"
      [] OTHER              -> "lost"

\* Any other error of save: a claim is refused just so, a run or gate fails.
AfterError(p) ==
    CASE at[p] = "claiming" -> "refused"
      [] at[p] = "pausing"  -> "done"
      [] OTHER              -> "failed"

\* Only what this command has loaded may be replaced; no file is no conflict.
CurrentRevision(state) == IF state = NoFile THEN 0 ELSE state.rev

\* Mutant: the revision is off by one.
UnchangedOrNext(p) ==
    file # NoFile => file # Torn /\ file.rev <= mem[p].rev + 1

\* The revision on disk is the one this command has loaded.
Unchanged(p) ==
    file # NoFile => file # Torn /\ file.rev = mem[p].rev

InSave(p) == at[p] \in Saves /\ pc[p] = "held"

Compare(p) ==
    /\ InSave(p) /\ ~safe[p] /\ Unchanged(p)
    /\ safe' = [safe EXCEPT ![p] = TRUE]
    /\ Keep(p, [mem[p] EXCEPT !.rev = CurrentRevision(file)])
    /\ UNCHANGED <<lockVars, file, at, expired, handles>>

Conflict(p) ==
    /\ InSave(p) /\ ~safe[p] /\ ~Unchanged(p)
    /\ Advance(p, AfterConflict(p)) /\ Close(p)
    /\ UNCHANGED <<file, mem, safe, expired, handles>>

Saved(p) == [mem[p] EXCEPT !.rev = @ + 1, !.has = @ \cup {<<p, at[p]>>}]

\* Mutant: the command does not remember the revision it has saved.
ReplaceForgetting(p) ==
    /\ InSave(p) /\ safe[p]
    /\ file' = Saved(p)
    /\ safe' = [safe EXCEPT ![p] = FALSE]
    /\ handles' = {}
    /\ Advance(p, AfterSave(p)) /\ Close(p)
    /\ UNCHANGED <<mem, expired>>

\* os.replace of a complete temporary file, and the lock is given up.
Replace(p) ==
    /\ InSave(p) /\ safe[p]
    /\ file' = Saved(p) /\ Keep(p, Saved(p))
    /\ safe' = [safe EXCEPT ![p] = FALSE]
    /\ handles' = {}
    /\ Advance(p, AfterSave(p)) /\ Close(p)
    /\ UNCHANGED expired

\* The temporary file cannot be written or moved.
FailToReplace(p) ==
    /\ InSave(p) /\ safe[p]
    /\ safe' = [safe EXCEPT ![p] = FALSE]
    /\ Advance(p, AfterError(p)) /\ Close(p)
    /\ UNCHANGED <<file, mem, expired, handles>>

\* The wait for the lock times out.
LockedOut(p) ==
    /\ GiveUp(p)
    /\ Advance(p, AfterError(p))
    /\ UNCHANGED <<file, mem, safe, expired, handles>>

Locking(p) == (Acquire(p) \/ Unlink(p)) /\ UNCHANGED storeVars

-----------------------------------------------------------------------------
\* _rewind_state_to_task, _clear_escalated_state (they drop the claim) and
\* sync_task_run_terminal_state (it keeps it): read, change, write.
Read(p) ==
    /\ p \in Editors /\ From(p, "start")
    /\ IF file \in {NoFile, Torn}
         THEN Advance(p, "done") /\ UNCHANGED mem
         ELSE /\ Advance(p, "editing")
              /\ \E claim \in {file.claim, NoClaim} :
                    Keep(p, [file EXCEPT !.claim = claim,
                                         !.has = @ \cup {<<p, "editing">>}])
    /\ UNCHANGED <<lockVars, file, safe, expired, handles>>

\* write_text opens, and thereby truncates, the file in place ...
Truncate(p) ==
    /\ p \in Editors /\ From(p, "editing")
    /\ file' = Torn
    /\ handles' = handles \cup {p}
    /\ Advance(p, "writing")
    /\ UNCHANGED <<lockVars, mem, safe, expired>>

\* Mutant: the write is buffered and never reaches the file.
WriteNothing(p) ==
    /\ From(p, "writing")
    /\ handles' = handles \ {p}
    /\ Advance(p, "done")
    /\ UNCHANGED <<lockVars, file, mem, safe, expired>>

\* ... and writes what it holds, unless the file was replaced or moved since.
\* Two writers at a time may leave a mixture.
Write(p) ==
    /\ From(p, "writing")
    /\ IF p \in handles
         THEN \/ file' = mem[p]
              \/ (file # Torn \/ handles # {p}) /\ file' = Torn
         ELSE UNCHANGED file
    /\ handles' = handles \ {p}
    /\ Advance(p, "done")
    /\ UNCHANGED <<lockVars, mem, safe, expired>>

-----------------------------------------------------------------------------
\* A command exits or is killed; an editor's handle is closed.
Ended(p) ==
    /\ End(p)
    /\ handles' = handles \ {p}
    /\ UNCHANGED <<file, at, mem, safe, expired>>

RunnerStep(p) == Load(p) \/ Claim(p) \/ Refuse(p) \/ SkipClaim(p)
                 \/ Pause(p) \/ Run(p) \/ Finish(p) \/ Expire(p)
GateStep(p)   == MarkGate(p) \/ SkipGate(p)
SaveStep(p)   == Locking(p) \/ Compare(p) \/ Conflict(p) \/ Replace(p)
                 \/ FailToReplace(p) \/ LockedOut(p)
EditorStep(p) == Read(p) \/ Truncate(p) \/ Write(p)

Next ==
    \/ \E p \in Procs :
          RunnerStep(p) \/ GateStep(p) \/ SaveStep(p) \/ EditorStep(p) \/ Ended(p)
    \/ Age /\ UNCHANGED storeVars
    \/ AllEnded /\ UNCHANGED storeVars

Spec == Init /\ [][Next]_vars

-----------------------------------------------------------------------------
EditorsWrote == \E p \in Editors : at[p] \in {"writing", "done"}

\* Until an editor writes no update is lost: whatever replaces the state file
\* takes account of all that was saved before (save's revision check).
NoUpdateLost ==
    [][~EditorsWrote' /\ file # NoFile
          => file' \notin {NoFile, Torn} /\ file.has \subseteq file'.has]_vars

Working(p) == at[p] \in {"ready", "running"} /\ pc[p] # "dead"

\* Among runners that claim, two work on the same task only after the claim of
\* one has run out: a claim is neither overlooked nor overwritten.
ClaimIsExclusive ==
    \A p, q \in Runners : Working(p) /\ Working(q) /\ p # q
                          => p \in expired \/ q \in expired

\* Among runners that claim, the result of a run is refused for a conflict only
\* if it outlived its claim.
ResultLostOnlyByExpiry ==
    \A p \in Runners : at[p] = "lost" => p \in expired

\* With one editor, the file is unreadable only while that editor writes, or
\* because it died there.
TornOnlyWhileWritten ==
    file = Torn => \E p \in Editors : at[p] = "writing"
=============================================================================
