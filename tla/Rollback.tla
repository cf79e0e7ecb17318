------------------------------ MODULE Rollback ------------------------------
(***************************************************************************)
(* The working tree of a run with rollback on: what an implement round     *)
(* writes and reports, what git status shows of it, the checkpoint taken   *)
(* before the round, and the rollback of a round that verify or the gate   *)
(* has blocked.  A user may edit the same tree meanwhile.                  *)
(***************************************************************************)
EXTENDS Naturals, FiniteSets

CONSTANTS
    Files,         \* files below the project root
    Targets,       \* files_to_change and core_files of the task card
    NewFiles,      \* files that are not in the commit
    FolderFiles,   \* new files in a folder that has no other files
    Folder,        \* that folder, as git status lists it
    MaxRounds,     \* bound on the implement rounds
    MaxEdits,      \* bound on the user's edits
    MaxFaults      \* bound on the steps in which git or a file fails

ASSUME RollbackAssumption ==
    /\ IsFiniteSet(Files) /\ Targets \subseteq Files /\ NewFiles \subseteq Files
    /\ FolderFiles \subseteq NewFiles /\ Folder \notin Files
    /\ MaxRounds \in Nat /\ MaxEdits \in Nat /\ MaxFaults \in Nat

Paths == Files \cup {Folder}

\* The content of a file: none, the committed one, what a round or the user
\* wrote, or what is left of a write that failed.
Absent == <<"absent", 0>>
Head == <<"commit", 0>>
Users == <<"user", 0>>
Torn == <<"torn", 0>>
ByRound(n) == <<"executor", n>>
Written == {ByRound(n) : n \in 1..MaxRounds}
Content == {Absent, Head, Users, Torn} \cup Written

VARIABLES
    disk,        \* the working tree
    phase,       \* where the round stands
    round,       \* implement rounds so far
    preDirty,    \* the engine's dirty files before the round
    dirtyThen,   \* checkpoint.pre_dirty_files
    saved,       \* checkpoint.snapshots
    reported,    \* runtime.last_changed_files
    changed,     \* state.changed_files
    result,      \* of the last rollback: none, clean or unclean
    edits,       \* the user's edits so far
    faults,      \* steps so far in which git or a file failed
    base,        \* the tree when the checkpoint was taken
    hidden       \* files the executor wrote for which no list can speak

tree == <<disk, base>>
lists == <<preDirty, dirtyThen, saved, reported, changed, hidden>>
vars == <<disk, phase, round, preDirty, dirtyThen, saved, reported, changed,
          result, edits, faults, base, hidden>>

TypeOK ==
    /\ disk \in [Files -> Content] /\ base \in [Files -> Content]
    /\ phase \in {"ready", "implementing", "implemented", "ended"}
    /\ round \in 0..MaxRounds /\ edits \in 0..MaxEdits /\ faults \in 0..MaxFaults
    /\ preDirty \subseteq Paths /\ dirtyThen \subseteq Paths
    /\ DOMAIN saved \subseteq Paths
    /\ \A f \in DOMAIN saved : saved[f] \in Content
    /\ reported \subseteq Paths /\ changed \subseteq Paths
    /\ hidden \subseteq Files
    /\ result \in {"none", "clean", "unclean"}

Committed(f) == IF f \in NewFiles THEN Absent ELSE Head

\* What the tree may hold before the run: a user's work is kept, not refused.
Init ==
    /\ \E mine \in SUBSET Files :
          /\ Cardinality(mine) <= MaxEdits /\ edits = Cardinality(mine)
          /\ disk = [f \in Files |-> IF f \in mine THEN Users ELSE Committed(f)]
    /\ phase = "ready" /\ round = 0
    /\ preDirty = {} /\ dirtyThen = {} /\ saved = << >>
    /\ reported = {} /\ changed = {}
    /\ result = "none" /\ faults = 0
    /\ base = disk /\ hidden = {}

-----------------------------------------------------------------------------
\* The path in the line of git status --porcelain that tells of a file.
Line(f) == IF f \in FolderFiles THEN Folder ELSE f

\* Files that differ from the commit; a folder without tracked files is one line.
Dirty(t) == {Line(f) : f \in {g \in Files : t[g] # Committed(g)}}

\* The bound on faults: at most MaxFaults steps meet one or more of them.
MeetsFault(fault) ==
    /\ fault => faults < MaxFaults
    /\ faults' = IF fault THEN faults + 1 ELSE faults

\* A scan that fails or times out shows nothing.
Scan(ok) == IF ok THEN Dirty(disk) ELSE {}

\* _rollback_target_files
TargetFiles == Targets \cup reported

\* RollbackCheckpoint.capture: a file that cannot be read has no snapshot, and
\* what is not a file is taken for a file that does not exist.
Snapshots(readable) ==
    [p \in (TargetFiles \cap (readable \cup {Folder})) |->
        IF p = Folder THEN Absent ELSE disk[p]]

\* An implement round, first or fix, begins: snapshot_dirty_files and capture.
Implement ==
    /\ phase \in {"ready", "implemented"} /\ round < MaxRounds
    /\ phase' = "implementing" /\ round' = round + 1
    /\ \E okBefore, okCapture \in BOOLEAN, readable \in SUBSET Files :
          /\ MeetsFault(~okBefore \/ ~okCapture \/ readable # Files)
          /\ preDirty' = Scan(okBefore)
          /\ dirtyThen' = Scan(okCapture)
          /\ saved' = Snapshots(readable)
    /\ base' = disk /\ result' = "none"
    /\ UNCHANGED <<disk, reported, changed, edits, hidden>>

\* The executor writes or deletes a file of the tree.
ExecutorWrites ==
    /\ phase = "implementing"
    /\ \E f \in Files, content \in {ByRound(round), Absent} :
          disk[f] # content /\ disk' = [disk EXCEPT ![f] = content]
    /\ UNCHANGED <<phase, round, result, edits, faults, base, lists>>

\* Somebody else edits a file of the same tree; what was edited before the
\* first round is in Init.
UserEdits ==
    /\ phase # "ended" /\ round > 0 /\ edits < MaxEdits
    /\ edits' = edits + 1
    /\ \E f \in Files : disk[f] # Users /\ disk' = [disk EXCEPT ![f] = Users]
    /\ UNCHANGED <<phase, round, result, faults, base, lists>>

\* Mutant: the engine takes the executor's word for what has changed.
AsReported(report, ok) == report

\* The executor's report and the files that are dirty since the round began.
ChangedFiles(report, ok) == report \cup (Scan(ok) \ preDirty)

Wrote(f) == disk[f] = ByRound(round)

\* _record_codex_success.  What the executor says need not be what it wrote.
ImplementDone ==
    /\ phase = "implementing" /\ phase' = "implemented"
    /\ \E report \in SUBSET Files, ok \in BOOLEAN :
          /\ MeetsFault(~ok)
          /\ changed' = changed \cup ChangedFiles(report, ok)
          /\ reported' = reported \cup ChangedFiles(report, ok)
          /\ hidden' = hidden \cup {f \in Files : /\ Wrote(f) /\ f \notin report
                                                  /\ ok => Line(f) \in preDirty
                                                  /\ f \notin changed}
    /\ preDirty' = {}
    /\ UNCHANGED <<tree, round, dirtyThen, saved, result, edits>>

\* A blocked or failed round is tried again or ends the run: what it wrote
\* stays and is recorded nowhere.
ImplementFails ==
    /\ phase = "implementing" /\ phase' = "ready"
    /\ hidden' = hidden \cup {f \in Files \ changed : Wrote(f)}
    /\ preDirty' = {}
    /\ UNCHANGED <<tree, round, result, edits, faults, dirtyThen, saved, reported, changed>>

-----------------------------------------------------------------------------
\* RollbackCheckpoint.rollback: what it looks at.
Found(ok) == reported \cup (Scan(ok) \ dirtyThen)

\* There is no unlink of a folder.
CannotRestore(failing, ok) ==
    /\ failing \subseteq Found(ok) \cap DOMAIN saved
    /\ \A f \in FolderFiles :
          disk[f] # Absent /\ Folder \in Found(ok) \cap DOMAIN saved => Folder \in failing

Restored(failing, ok) == (Found(ok) \cap DOMAIN saved \cap Files) \ failing

Skipped(failing, ok) == (Found(ok) \ DOMAIN saved) \cup failing

\* A write that fails halfway leaves neither content.
MayBeTorn(failing) == {f \in failing \cap Files : saved[f] # Absent}

\* Mutant: a file without a snapshot is checked out from the commit.
CheckOut(failing, torn, ok) ==
    disk' = [f \in Files |-> IF f \in Restored(failing, ok) THEN saved[f]
                             ELSE IF f \in Found(ok) \ DOMAIN saved THEN Committed(f)
                             ELSE disk[f]]

Restore(failing, torn, ok) ==
    disk' = [f \in Files |-> IF f \in Restored(failing, ok) THEN saved[f]
                             ELSE IF f \in torn THEN Torn ELSE disk[f]]

\* Mutant: skipped files do not count.
NothingMoreFound(failing, ok) == ok /\ Found(ok) = reported

\* _rollback_is_clean: nothing skipped, nothing found beyond the report, and
\* git could be asked.
IsClean(failing, ok) == ok /\ Skipped(failing, ok) = {} /\ Found(ok) = reported

\* _maybe_rollback
RollBack(failing, torn, ok) ==
    /\ Restore(failing, torn, ok)
    /\ changed' = changed \ {f \in Restored(failing, ok) :
                                saved[f] # Absent \/ disk[f] # Absent}
    /\ hidden' = hidden \cup {f \in Restored(failing, ok) : saved[f] \in Written}
    /\ reported' = {} /\ saved' = << >> /\ dirtyThen' = {}
    /\ result' = IF IsClean(failing, ok) THEN "clean" ELSE "unclean"
    /\ UNCHANGED <<base, round, preDirty, edits>>

\* _finish_verify_block: the round is tried again, in the tree the rollback has
\* left even if it was not clean.
VerifyBlocks ==
    /\ phase = "implemented"
    /\ \E failing \in SUBSET Paths, ok \in BOOLEAN :
          /\ CannotRestore(failing, ok)
          /\ MeetsFault(~ok \/ failing \cap Files # {})
          /\ \E torn \in SUBSET MayBeTorn(failing) : RollBack(failing, torn, ok)
    /\ phase' = "ready"

\* _handle_gate_block: a rollback that is not clean ends the run.
GateBlocks ==
    /\ phase = "implemented"
    /\ \E failing \in SUBSET Paths, ok \in BOOLEAN :
          /\ CannotRestore(failing, ok)
          /\ MeetsFault(~ok \/ failing \cap Files # {})
          /\ \E torn \in SUBSET MayBeTorn(failing) : RollBack(failing, torn, ok)
    /\ phase' = IF result' = "clean" THEN "ready" ELSE "ended"

\* Verify and gate pass, or the retries are spent and nothing is rolled back:
\* the run ends with the tree as it is.
Stop == phase # "implementing" /\ UNCHANGED vars

Next ==
    \/ Implement \/ ExecutorWrites \/ UserEdits
    \/ ImplementDone \/ ImplementFails
    \/ VerifyBlocks \/ GateBlocks \/ Stop

Spec == Init /\ [][Next]_vars

-----------------------------------------------------------------------------
RollsBack == result = "none" /\ result' # "none"

\* What a rollback that is called clean has restored: every file is as it was
\* when the checkpoint was taken, but for one the executor did not report in a
\* path that was dirty by then.
CleanTreeIsRestored ==
    [][RollsBack /\ result' = "clean" =>
          \A f \in Files : \/ disk'[f] = base[f]
                           \/ f \notin reported /\ Line(f) \in Dirty(base)]_vars

\* A rollback overwrites what it has a snapshot of and nothing else, whoever
\* wrote it: it goes back to the snapshot, or is torn and then not called clean.
OthersWorkIsKept ==
    [][RollsBack =>
          \A f \in Files : disk'[f] # disk[f] =>
              /\ f \in DOMAIN saved
              /\ disk'[f] = base[f] \/ result' = "unclean"]_vars

\* A file that holds what the executor wrote is on the list of changed files,
\* alone or by its folder, unless it falls into one of three gaps: its round
\* failed, it was not reported and no scan tells it from before, or a later
\* round was rolled back to it.
WritesAreListed ==
    phase # "implementing" =>
        \A f \in Files : disk[f] \in Written => {f, Line(f)} \cap changed # {} \/ f \in hidden
=============================================================================
