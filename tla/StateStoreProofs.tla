-------------------------- MODULE StateStoreProofs --------------------------
(***************************************************************************)
(* The lock file and the state file it guards, for every set of processes. *)
(*                                                                         *)
(* The two guarantees of the lock ask for different things of the platform *)
(* and the caller: exclusion fails where a live lock can be unlinked, and  *)
(* a released lock stays behind where a reader keeps it from being         *)
(* unlinked.  Without editors no update of the state file is lost, and     *)
(* claims exclude each other until they run out.  With one editor, only it *)
(* leaves the file unreadable.                                             *)
(***************************************************************************)
EXTENDS StateStore, TLAPS

\* Without a stale limit nobody reads or removes a lock but its owner.
NoTakeover ==
    ~StaleTakeover =>
        \A p \in Procs : /\ pc[p] \notin {"reading", "removing"}
                         /\ pc[p] = "closing" => OwnFile(p)

\* Where it is protected, the file of whoever is inside is still in place.
FileOfHolder ==
    Protected => \A p \in Procs : Inside(p) => OwnFile(p)

LockInv ==
    /\ LockTypeOK /\ FileOfHolder /\ NoTakeover
    /\ ReleasedLockGoes

\* The body of a lock file can be set without touching its owner.
LEMMA LockFileUpdate ==
    ASSUME NEW l \in LockFile, NEW body \in Bodies
    PROVE  /\ [l EXCEPT !.body = body] \in LockFile
           /\ [l EXCEPT !.body = body].owner = l.owner
           /\ [l EXCEPT !.body = body] # NoLock
  BY LockAssumption DEF LockFile

LEMMA NewLockFile ==
    ASSUME NEW p \in Procs
    PROVE  /\ [owner |-> p, body |-> "empty"] \in LockFile
           /\ [owner |-> p, body |-> "empty"].owner = p
           /\ [owner |-> p, body |-> "empty"] # NoLock
  BY LockAssumption DEF LockFile, Bodies

LEMMA LockInitInv == LockInit => LockInv
  BY DEF LockInit, LockInv, LockTypeOK, Points, FileOfHolder, Inside,
         NoTakeover, LockHasHolder, ReleasedLockGoes

\* The host stays the same, and so does what it allows.
LEMMA SameHost == ASSUME [LockNext]_lockVars
                  PROVE  host' = host /\ Protected' = Protected /\ Removable' = Removable
<1>1. host' = host
  BY DEF LockNext, LockStep, Acquire, Enter, Retry, GiveUp, Close, Create, WriteMetadata, LookAt,
         Judge, Remove, Unlink, End, Age, AllEnded, Goto, lockVars
<1> QED
  BY <1>1 DEF Protected, Removable

LEMMA LockTyped ==
    ASSUME LockTypeOK, [LockNext]_lockVars
    PROVE  LockTypeOK'
<1> USE DEF LockTypeOK, Goto, Points
<1>1. ASSUME NEW p \in Procs, Enter(p) \/ Retry(p) \/ GiveUp(p) \/ Close(p)
      PROVE  LockTypeOK'
  BY <1>1 DEF Enter, Retry, GiveUp, Close
<1>2. ASSUME NEW p \in Procs, Create(p)
      PROVE  LockTypeOK'
  BY <1>2, NewLockFile DEF Create
<1>3. ASSUME NEW p \in Procs, WriteMetadata(p)
      PROVE  LockTypeOK'
  BY <1>3, LockFileUpdate DEF WriteMetadata, OwnFile, Bodies
<1>4. ASSUME NEW p \in Procs, LookAt(p) \/ Judge(p) \/ Remove(p) \/ Unlink(p) \/ End(p)
      PROVE  LockTypeOK'
  BY <1>4 DEF LookAt, Judge, Remove, Unlink, End
<1>5. CASE Age
  BY <1>5, LockFileUpdate DEF Age, Bodies
<1>6. CASE AllEnded \/ UNCHANGED lockVars
  BY <1>6 DEF AllEnded, lockVars
<1> QED
  BY <1>1, <1>2, <1>3, <1>4, <1>5, <1>6 DEF LockNext, LockStep, Acquire

\* Every action keeps the file of a process inside in place.
LEMMA HolderStep ==
    ASSUME LockInv, [LockNext]_lockVars, Protected
    PROVE  \A p \in Procs : Inside(p)' => OwnFile(p)'
<1> USE DEF LockInv, LockTypeOK, Goto, Inside, OwnFile
<1>0. \A q \in Procs : Inside(q) => OwnFile(q)
  BY DEF FileOfHolder
<1>1. ASSUME NEW p \in Procs, Enter(p) \/ Retry(p) \/ GiveUp(p) \/ Close(p) \/ End(p)
                              \/ LookAt(p) \/ Judge(p)
      PROVE  \A q \in Procs : Inside(q)' => OwnFile(q)'
  BY <1>0, <1>1 DEF Enter, Retry, GiveUp, Close, End, LookAt, Judge
<1>2. ASSUME NEW p \in Procs, Create(p)
      PROVE  \A q \in Procs : Inside(q)' => OwnFile(q)'
  BY <1>0, <1>2, NewLockFile DEF Create
<1>3. ASSUME NEW p \in Procs, WriteMetadata(p)
      PROVE  \A q \in Procs : Inside(q)' => OwnFile(q)'
  BY <1>0, <1>3, LockFileUpdate DEF WriteMetadata, Bodies
<1>4. ASSUME NEW p \in Procs, Remove(p)
      PROVE  \A q \in Procs : Inside(q)' => OwnFile(q)'
  BY <1>0, <1>4 DEF Remove, Unlinkable, OpenPoints, NoTakeover, Protected
<1>5. ASSUME NEW p \in Procs, Unlink(p)
      PROVE  \A q \in Procs : Inside(q)' => OwnFile(q)'
  BY <1>0, <1>5 DEF Unlink, Unlinkable, OpenPoints, NoTakeover, Protected
<1>6. CASE Age
  BY <1>0, <1>6, LockFileUpdate DEF Age, Bodies
<1>7. CASE AllEnded \/ UNCHANGED lockVars
  BY <1>0, <1>7 DEF AllEnded, lockVars
<1> QED
  BY <1>1, <1>2, <1>3, <1>4, <1>5, <1>6, <1>7 DEF LockNext, LockStep, Acquire

LEMMA NoTakeoverStep ==
    ASSUME LockInv, [LockNext]_lockVars
    PROVE  NoTakeover'
<1> SUFFICES ASSUME ~StaleTakeover PROVE NoTakeover'
  BY DEF NoTakeover
<1> USE DEF LockInv, LockTypeOK, Goto, OwnFile, NoTakeover
<1>0. /\ \A q \in Procs : Inside(q) => OwnFile(q)
      /\ \A q \in Procs : Inside(q)' => OwnFile(q)'
  BY HolderStep DEF FileOfHolder, Protected
<1>1. ASSUME NEW p \in Procs, Enter(p) \/ Retry(p) \/ GiveUp(p) \/ Close(p) \/ End(p)
                              \/ LookAt(p) \/ Judge(p) \/ Remove(p)
      PROVE  NoTakeover'
  BY <1>0, <1>1 DEF Enter, Retry, GiveUp, Close, End, LookAt, Judge, Remove, Inside
<1>2. ASSUME NEW p \in Procs, Create(p)
      PROVE  NoTakeover'
  BY <1>2, NewLockFile DEF Create
<1>3. ASSUME NEW p \in Procs, WriteMetadata(p)
      PROVE  NoTakeover'
  BY <1>3, LockFileUpdate DEF WriteMetadata, Bodies
<1>4. ASSUME NEW p \in Procs, Unlink(p)
      PROVE  NoTakeover'
  BY <1>4 DEF Unlink
<1>5. CASE Age
  BY <1>5, LockFileUpdate DEF Age, Bodies
<1>6. CASE AllEnded \/ UNCHANGED lockVars
  BY <1>6 DEF AllEnded, lockVars
<1> QED
  BY <1>1, <1>2, <1>3, <1>4, <1>5, <1>6 DEF LockNext, LockStep, Acquire

\* The owner of a lock leaves it only by unlinking it.
LEMMA HasHolderStep ==
    ASSUME LockInv, [LockNext]_lockVars, Removable
    PROVE  LockHasHolder'
<1> USE DEF LockInv, LockTypeOK, Goto, LockHasHolder, ReleasedLockGoes
<1>0. lock # NoLock => lock.owner \in Procs
  BY DEF LockFile
<1>1. ASSUME NEW p \in Procs, Enter(p) \/ Retry(p) \/ GiveUp(p) \/ Close(p) \/ End(p)
                              \/ LookAt(p) \/ Judge(p) \/ Remove(p)
      PROVE  LockHasHolder'
  BY <1>0, <1>1 DEF Enter, Retry, GiveUp, Close, End, LookAt, Judge, Remove
<1>2. ASSUME NEW p \in Procs, Create(p)
      PROVE  LockHasHolder'
  BY <1>2, NewLockFile DEF Create
<1>3. ASSUME NEW p \in Procs, WriteMetadata(p)
      PROVE  LockHasHolder'
  BY <1>0, <1>3, LockFileUpdate DEF WriteMetadata, Bodies, OwnFile
<1>4. ASSUME NEW p \in Procs, Unlink(p)
      PROVE  LockHasHolder'
  <2>1. lock = NoLock \/ Unlinkable
    BY <1>4 DEF Unlink, Unlinkable, Removable, NoTakeover, FileOfHolder,
                Protected, OpenPoints, OwnFile, Inside
  <2> QED
    BY <1>4, <2>1 DEF Unlink
<1>5. CASE Age
  BY <1>0, <1>5, LockFileUpdate DEF Age, Bodies
<1>6. CASE AllEnded \/ UNCHANGED lockVars
  BY <1>6 DEF AllEnded, lockVars
<1> QED
  BY <1>1, <1>2, <1>3, <1>4, <1>5, <1>6 DEF LockNext, LockStep, Acquire

LEMMA LockStepInv == LockInv /\ [LockNext]_lockVars => LockInv'
  BY LockTyped, HolderStep, NoTakeoverStep, HasHolderStep, SameHost
  DEF LockInv, FileOfHolder, ReleasedLockGoes

\* The inductive invariant of the lock.
THEOREM LockInvariance == LockSpec => []LockInv
  BY LockInitInv, LockStepInv, PTL DEF LockSpec

LEMMA HolderIsOne == LockInv /\ Protected => MutualExclusion
  BY DEF LockInv, FileOfHolder, Inside, OwnFile, MutualExclusion

\* Two processes never hold the lock at once if locks are not taken over, or
\* if the file of a process inside cannot be unlinked.
THEOREM Exclusion == LockSpec => []ProtectedExclusion
<1>1. LockInv => ProtectedExclusion
  BY HolderIsOne DEF ProtectedExclusion
<1> QED
  BY <1>1, LockInvariance, PTL

\* Where no reader can keep a lock in place, a lock file always has a holder,
\* or one that died.
THEOREM NoLockLeftBehind == LockSpec => []ReleasedLockGoes
<1>1. LockInv => ReleasedLockGoes
  BY DEF LockInv
<1> QED
  BY <1>1, LockInvariance, PTL

-----------------------------------------------------------------------------
\* Only commands that save with a revision check, under a lock that nobody takes
\* over: none of them gives it a stale limit.
CheckedOnly == Editors = {} /\ ~StaleTakeover

\* Only runners, and all of them claim.
ClaimingOnly == CheckedOnly /\ BareRunners = {} /\ Gates = {}

-----------------------------------------------------------------------------
(* The inductive invariant.                                                *)

\* The file is a state or does not exist.
FileInv ==
    /\ file # Torn /\ handles = {}
    /\ \A p \in Procs : at[p] \notin {"editing", "writing"}

\* What a command has in memory is not newer than the file, and the same
\* revision is the same state: it takes account of all that is in the file.
KnownInv ==
    \A p \in Procs :
        /\ file = NoFile => mem[p].rev = 0
        /\ file # NoFile => /\ mem[p].rev <= file.rev
                            /\ mem[p].rev = file.rev => file.has \subseteq mem[p].has

\* A comparison holds until the lock is given up.
SafeInv ==
    \A p \in Procs : safe[p] =>
        /\ at[p] \in Saves /\ pc[p] \in {"held", "dead"}
        /\ pc[p] = "held" /\ file # NoFile => mem[p].rev = file.rev

StoreInv == TypeOK /\ LockInv /\ (CheckedOnly => FileInv /\ KnownInv /\ SafeInv)

\* The stages in which a runner has claimed its task.
HasClaim == {"ready", "running", "pausing", "finishing"}

Same(p) == file # NoFile /\ mem[p].rev = file.rev

\* A runner about to claim has seen no active claim in the state it loaded, and
\* one whose claim is active has the file to itself.
ClaimsOf(p) ==
    /\ at[p] # "gating"
    /\ at[p] = "loaded" /\ Same(p) => mem[p].claim = file.claim
    /\ at[p] = "claiming" => mem[p].claim = p
    /\ at[p] = "claiming" /\ Same(p) => ~Active(file.claim)
    /\ at[p] \in HasClaim => /\ file # NoFile
                             /\ Same(p) => file.claim = p
                             /\ Active(p) => Same(p)
    /\ at[p] = "lost" => p \in expired

ClaimInv == ClaimingOnly => \A p \in Procs : ClaimsOf(p)

-----------------------------------------------------------------------------
(* States and the lock.                                                    *)

LEMMA StateFields ==
    ASSUME NEW s \in State
    PROVE  s.rev \in Nat /\ s.claim \in Procs \cup {NoClaim} /\ s.has \subseteq Updates
  BY DEF State

LEMMA StateClaim ==
    ASSUME NEW s \in State, NEW claim \in Procs \cup {NoClaim}
    PROVE  /\ [s EXCEPT !.claim = claim] \in State
           /\ [s EXCEPT !.claim = claim].rev = s.rev
           /\ [s EXCEPT !.claim = claim].claim = claim
           /\ [s EXCEPT !.claim = claim].has = s.has
  BY DEF State

LEMMA StateRev ==
    ASSUME NEW s \in State, NEW rev \in Nat
    PROVE  /\ [s EXCEPT !.rev = rev] \in State
           /\ [s EXCEPT !.rev = rev].rev = rev
           /\ [s EXCEPT !.rev = rev].claim = s.claim
           /\ [s EXCEPT !.rev = rev].has = s.has
  BY DEF State

LEMMA StateEdited ==
    ASSUME NEW s \in State, NEW u \in Updates, NEW claim \in Procs \cup {NoClaim}
    PROVE  [s EXCEPT !.claim = claim, !.has = @ \cup {u}] \in State
<1>1. s.has \cup {u} \in SUBSET Updates
  BY StateFields
<1> HIDE DEF Updates
<1> QED
  BY <1>1 DEF State

LEMMA StateSaved ==
    ASSUME NEW p \in Procs, mem[p] \in State, <<p, at[p]>> \in Updates
    PROVE  /\ Saved(p) \in State
           /\ Saved(p).rev = mem[p].rev + 1
           /\ Saved(p).claim = mem[p].claim
           /\ Saved(p).has = mem[p].has \cup {<<p, at[p]>>}
<1>1. /\ mem[p].has \cup {<<p, at[p]>>} \in SUBSET Updates
      /\ mem[p].rev + 1 \in Nat
  BY StateFields
<1> HIDE DEF Updates
<1> QED
  BY <1>1 DEF State, Saved

LEMMA StateIsThere ==
    ASSUME NEW s \in State PROVE s # NoFile /\ s # Torn
  BY StoreAssumption

LEMMA FreshIsState == FreshState \in State
  BY DEF FreshState, State

\* A step of a command is a step of the lock, or leaves it alone.
LEMMA UsesLock ==
    ASSUME [Next]_vars PROVE [LockNext]_lockVars
  BY DEF Next, vars, RunnerStep, GateStep, SaveStep, EditorStep, Ended, Load,
         Claim, Refuse, SkipClaim, Pause, Run, Finish, Expire, MarkGate, SkipGate,
         Locking, Compare, Conflict, Replace, FailToReplace, LockedOut, Read,
         Truncate, Write, LockNext, LockStep
-----------------------------------------------------------------------------
(* Types.                                                                  *)

LEMMA StoreTyped ==
    ASSUME TypeOK, [Next]_vars
    PROVE  TypeOK'
<1> USE DEF TypeOK
<1> HIDE DEF State, Updates
<1>0. LockTypeOK'
  BY UsesLock, LockTyped
<1>1. ASSUME NEW p \in Procs, Load(p)
      PROVE  TypeOK'
  BY <1>0, <1>1, FreshIsState
  DEF Load, Advance, Keep, Quarantine, Stages
<1>2. ASSUME NEW p \in Procs, Claim(p) \/ Pause(p) \/ Finish(p)
      PROVE  TypeOK'
  <2>1. /\ mem[p] \in State /\ mem[p].claim \in Procs \cup {NoClaim}
        /\ p \in Procs \cup {NoClaim} /\ NoClaim \in Procs \cup {NoClaim}
    BY StateFields
  <2>2. \A c \in Procs \cup {NoClaim} : [mem[p] EXCEPT !.claim = c] \in State
    BY <2>1, StateClaim
  <2>3. PICK c \in Procs \cup {NoClaim} : mem' = [mem EXCEPT ![p] = [mem[p] EXCEPT !.claim = c]]
    BY <1>2, <2>1 DEF Claim, Pause, Finish, Keep
  <2>4. mem' \in [Procs -> State]
    BY <2>2, <2>3
  <2> QED
    BY <1>0, <1>2, <2>4
    DEF Claim, Pause, Finish, Advance, Stages, Saves
<1>3. ASSUME NEW p \in Procs, MarkGate(p)
      PROVE  TypeOK'
  <2>1. file \in State
    BY <1>3 DEF MarkGate
  <2>2. [file EXCEPT !.claim = NoClaim] \in State
    BY <2>1, StateClaim
  <2> QED
    BY <1>0, <1>3, <2>2 DEF MarkGate, Advance, Keep, Stages, Saves
<1>4. ASSUME NEW p \in Procs, Refuse(p) \/ SkipClaim(p) \/ Run(p) \/ SkipGate(p) \/ Expire(p)
      PROVE  TypeOK'
  BY <1>0, <1>4
  DEF Refuse, SkipClaim, Run, SkipGate, Expire, Advance, Quarantine, Stages
<1>5. ASSUME NEW p \in Procs, Compare(p)
      PROVE  TypeOK'
  <2>1. file = NoFile \/ file \in State
    BY <1>5 DEF Compare, Unchanged
  <2>2. CurrentRevision(file) \in Nat
    BY <2>1, StateFields DEF CurrentRevision
  <2>3. [mem[p] EXCEPT !.rev = CurrentRevision(file)] \in State
    BY <2>2, StateRev
  <2> QED
    BY <1>0, <1>5, <2>3 DEF Compare, Keep
<1>6. ASSUME NEW p \in Procs, Replace(p)
      PROVE  TypeOK'
  <2>1. <<p, at[p]>> \in Updates
    BY <1>6 DEF Replace, InSave, Updates
  <2>2. Saved(p) \in State
    BY <2>1, StateSaved
  <2> QED
    BY <1>0, <1>6, <2>2 DEF Replace, Keep, Advance, AfterSave, Stages
<1>7. ASSUME NEW p \in Procs, Conflict(p) \/ FailToReplace(p) \/ LockedOut(p) \/ Locking(p) \/ Ended(p)
      PROVE  TypeOK'
  BY <1>0, <1>7
  DEF Conflict, FailToReplace, LockedOut, Locking, Ended, Advance,
      AfterConflict, AfterError, Stages, storeVars
<1>8. ASSUME NEW p \in Procs, Read(p)
      PROVE  TypeOK'
  <2>1. <<p, "editing">> \in Updates
    BY DEF Updates
  <2>2. ASSUME file \in State, NEW c \in {file.claim, NoClaim}
        PROVE  [file EXCEPT !.claim = c, !.has = @ \cup {<<p, "editing">>}] \in State
    <3>1. c \in Procs \cup {NoClaim}
      BY <2>2, StateFields
    <3> QED
      BY <2>1, <2>2, <3>1, StateEdited
  <2> QED
    BY <1>0, <1>8, <2>2 DEF Read, Advance, Keep, Stages
<1>9. ASSUME NEW p \in Procs, Truncate(p) \/ Write(p)
      PROVE  TypeOK'
  BY <1>0, <1>9 DEF Truncate, Write, Advance, Stages
<1>10. CASE ((Age \/ AllEnded) /\ UNCHANGED storeVars) \/ UNCHANGED vars
  BY <1>0, <1>10 DEF storeVars, vars
<1> QED
  BY <1>1, <1>2, <1>3, <1>4, <1>5, <1>6, <1>7, <1>8, <1>9, <1>10
  DEF Next, RunnerStep, GateStep, SaveStep, EditorStep

-----------------------------------------------------------------------------
(* No update is lost.                                                      *)

\* What a command has in memory before it saves is what it loaded, but for the
\* claim.
LEMMA MemoryStep ==
    ASSUME TypeOK, NEW p \in Procs, Claim(p) \/ Pause(p) \/ Finish(p)
    PROVE  /\ mem'[p].rev = mem[p].rev /\ mem'[p].has = mem[p].has
           /\ Claim(p) => mem'[p].claim = p
           /\ \A q \in Procs \ {p} : mem'[q] = mem[q]
<1> HIDE DEF State
<1>1. /\ mem[p] \in State /\ mem[p].claim \in Procs \cup {NoClaim}
      /\ p \in Procs \cup {NoClaim} /\ NoClaim \in Procs \cup {NoClaim}
  BY StateFields DEF TypeOK
<1>2. PICK c \in Procs \cup {NoClaim} :
          /\ mem' = [mem EXCEPT ![p] = [mem[p] EXCEPT !.claim = c]]
          /\ Claim(p) => c = p
  <2>1. CASE Claim(p)
    BY <2>1, <1>1 DEF Claim, Keep
  <2>2. CASE Pause(p) /\ ~Claim(p)
    BY <2>2, <1>1 DEF Pause, Keep
  <2>3. CASE Finish(p) /\ ~Claim(p)
    BY <2>3, <1>1 DEF Finish, Keep
  <2> QED
    BY <2>1, <2>2, <2>3
<1> DEFINE s == [mem[p] EXCEPT !.claim = c]
<1>3. s \in State /\ s.rev = mem[p].rev /\ s.has = mem[p].has /\ s.claim = c
  BY <1>1, StateClaim
<1>4. mem'[p] = s /\ \A q \in Procs \ {p} : mem'[q] = mem[q]
  BY <1>2 DEF TypeOK
<1> HIDE DEF s
<1> QED
  BY <1>2, <1>3, <1>4

\* Without editors nothing tears the file, and it never goes away.
LEMMA FileStep ==
    ASSUME TypeOK, FileInv, CheckedOnly, [Next]_vars
    PROVE  FileInv'
<1> USE DEF TypeOK, FileInv, Advance
<1> HIDE DEF State, Updates
<1>1. ASSUME NEW p \in Procs, Load(p) \/ Refuse(p) \/ SkipClaim(p) \/ Run(p)
                               \/ SkipGate(p) \/ Expire(p)
      PROVE  FileInv'
  BY <1>1 DEF Load, Refuse, SkipClaim, Run, SkipGate, Expire, Quarantine
<1>2. ASSUME NEW p \in Procs, Claim(p) \/ Pause(p) \/ Finish(p) \/ MarkGate(p)
      PROVE  FileInv'
  BY <1>2 DEF Claim, Pause, Finish, MarkGate
<1>3. ASSUME NEW p \in Procs, Compare(p) \/ Conflict(p) \/ FailToReplace(p)
                               \/ LockedOut(p) \/ Locking(p) \/ Ended(p)
      PROVE  FileInv'
  BY <1>3 DEF Compare, Conflict, FailToReplace, LockedOut, Locking, Ended,
              AfterConflict, AfterError, storeVars
<1>4. ASSUME NEW p \in Procs, Replace(p)
      PROVE  FileInv'
  <2>1. Saved(p) \in State
    BY <1>4, StateSaved DEF Replace, InSave, Updates
  <2> QED
    BY <1>4, <2>1, StateIsThere DEF Replace, AfterSave
<1>5. ASSUME NEW p \in Procs
      PROVE  ~Read(p) /\ ~Truncate(p) /\ ~Write(p)
  BY DEF CheckedOnly, Read, Truncate, Write, From
<1>6. CASE ((Age \/ AllEnded) /\ UNCHANGED storeVars) \/ UNCHANGED vars
  BY <1>6 DEF storeVars, vars
<1> QED
  BY <1>1, <1>2, <1>3, <1>4, <1>5, <1>6
  DEF Next, RunnerStep, GateStep, SaveStep, EditorStep

\* Only a save that has compared the revisions replaces the file.
LEMMA FileKept ==
    ASSUME FileInv, CheckedOnly, [Next]_vars
    PROVE  file' = file \/ \E p \in Procs : Replace(p)
  BY DEF FileInv, CheckedOnly, Next, RunnerStep, GateStep, SaveStep, EditorStep,
         Ended, Load, Quarantine, Claim, Refuse, SkipClaim, Pause, Run, Finish,
         Expire, MarkGate, SkipGate, Locking, Compare, Conflict, FailToReplace,
         LockedOut, Read, Truncate, Write, From, storeVars, vars

LEMMA ReplaceStep ==
    ASSUME TypeOK, KnownInv, SafeInv, NEW p \in Procs, Replace(p)
    PROVE  /\ file' \in State /\ mem' = [mem EXCEPT ![p] = file']
           /\ file'.rev = mem[p].rev + 1 /\ file'.claim = mem[p].claim
           /\ mem[p].has \subseteq file'.has
           /\ file = NoFile => mem[p].rev = 0
           /\ file # NoFile => /\ mem[p].rev = file.rev
                               /\ file.has \subseteq mem[p].has
<1> HIDE DEF State, Updates
<1>1. <<p, at[p]>> \in Updates /\ mem[p] \in State
  BY DEF TypeOK, Replace, InSave, Updates
<1>2. safe[p] /\ pc[p] = "held" /\ file' = Saved(p) /\ mem' = [mem EXCEPT ![p] = Saved(p)]
  BY DEF Replace, InSave, Keep
<1> QED
  BY <1>1, <1>2, StateSaved DEF KnownInv, SafeInv

\* What one command remembers is as old as the file, or older.
KnownBy(p) ==
    /\ file = NoFile => mem[p].rev = 0
    /\ file # NoFile => /\ mem[p].rev <= file.rev
                        /\ mem[p].rev = file.rev => file.has \subseteq mem[p].has

\* A step of one command that keeps the file is judged by its own memory.
LEMMA KnownByOthers ==
    ASSUME KnownInv, file' = file, NEW p \in Procs, KnownBy(p)',
           \A q \in Procs \ {p} : mem'[q] = mem[q]
    PROVE  KnownInv'
<1> SUFFICES ASSUME NEW q \in Procs PROVE KnownBy(q)'
  BY DEF KnownInv, KnownBy
<1>1. CASE q = p
  BY <1>1
<1>2. CASE q # p
  BY <1>2 DEF KnownInv, KnownBy
<1> QED
  BY <1>1, <1>2

LEMMA KnownStep ==
    ASSUME StoreInv, CheckedOnly, [Next]_vars
    PROVE  KnownInv'
<1> HIDE DEF State, Updates
<1>a. TypeOK /\ FileInv /\ KnownInv /\ SafeInv
  BY DEF StoreInv
<1>0. /\ file = NoFile \/ file \in State
      /\ \A q \in Procs : mem[q] \in State /\ mem[q].rev \in Nat
      /\ file # NoFile => file.rev \in Nat
      /\ mem \in [Procs -> State]
  BY <1>a, StateFields DEF TypeOK, FileInv
<1>1. ASSUME NEW p \in Procs, Load(p)
      PROVE  KnownInv'
  <2>1. mem' = [mem EXCEPT ![p] = IF file = NoFile THEN FreshState ELSE file] /\ file' = file
    BY <1>1, <1>a DEF Load, Keep, FileInv, Quarantine
  <2>2. FreshState.rev = 0
    BY DEF FreshState
  <2>3. /\ \A q \in Procs \ {p} : mem'[q] = mem[q]
        /\ mem'[p] = IF file = NoFile THEN FreshState ELSE file
    BY <1>0, <2>1
  <2>4. KnownBy(p)'
    BY <1>0, <2>1, <2>2, <2>3 DEF KnownBy
  <2> QED
    BY <1>a, <2>1, <2>3, <2>4, KnownByOthers
<1>2. ASSUME NEW p \in Procs, Claim(p) \/ Pause(p) \/ Finish(p)
      PROVE  KnownInv'
  <2>1. /\ mem'[p].rev = mem[p].rev /\ mem'[p].has = mem[p].has
        /\ \A q \in Procs \ {p} : mem'[q] = mem[q]
    BY <1>2, <1>a, MemoryStep
  <2>2. file' = file
    BY <1>2 DEF Claim, Pause, Finish
  <2>3. KnownBy(p)'
    BY <1>a, <2>1, <2>2 DEF KnownInv, KnownBy
  <2> QED
    BY <1>a, <2>1, <2>2, <2>3, KnownByOthers
<1>3. ASSUME NEW p \in Procs, MarkGate(p)
      PROVE  KnownInv'
  <2>1. file \in State /\ file # NoFile /\ file' = file
    BY <1>3, <1>0 DEF MarkGate
  <2>2. mem' = [mem EXCEPT ![p] = [file EXCEPT !.claim = NoClaim]]
    BY <1>3 DEF MarkGate, Keep
  <2>3. /\ mem'[p] = [file EXCEPT !.claim = NoClaim]
        /\ \A q \in Procs \ {p} : mem'[q] = mem[q]
    BY <1>0, <2>2
  <2>4. mem'[p].rev = file.rev /\ mem'[p].has = file.has
    BY <2>1, <2>3, StateClaim
  <2>5. KnownBy(p)'
    BY <1>0, <2>1, <2>4 DEF KnownBy
  <2> QED
    BY <1>a, <2>1, <2>3, <2>5, KnownByOthers
<1>4. ASSUME NEW p \in Procs, Compare(p)
      PROVE  KnownInv'
  <2>1. CurrentRevision(file) \in Nat /\ CurrentRevision(file) = mem[p].rev
    BY <1>0, <1>4, <1>a DEF Compare, Unchanged, CurrentRevision, KnownInv
  <2>2. /\ mem' = [mem EXCEPT ![p] = [mem[p] EXCEPT !.rev = CurrentRevision(file)]]
        /\ file' = file
    BY <1>4 DEF Compare, Keep
  <2>3. /\ mem'[p] = [mem[p] EXCEPT !.rev = CurrentRevision(file)]
        /\ \A q \in Procs \ {p} : mem'[q] = mem[q]
    BY <1>0, <2>2
  <2>4. mem[p] \in State
    BY <1>0
  <2>5. mem'[p].rev = mem[p].rev /\ mem'[p].has = mem[p].has
    BY <2>1, <2>3, <2>4, StateRev
  <2>6. KnownBy(p)'
    BY <1>a, <2>2, <2>5 DEF KnownInv, KnownBy
  <2> QED
    BY <1>a, <2>2, <2>3, <2>6, KnownByOthers
<1>5. ASSUME NEW p \in Procs, Replace(p)
      PROVE  KnownInv'
  <2>1. /\ file' \in State /\ mem' = [mem EXCEPT ![p] = file']
        /\ file'.rev = mem[p].rev + 1
        /\ file = NoFile => mem[p].rev = 0
        /\ file # NoFile => mem[p].rev = file.rev
    BY <1>5, <1>a, ReplaceStep
  <2>2. \A q \in Procs : mem[q].rev <= mem[p].rev
    BY <1>0, <1>a, <2>1 DEF KnownInv
  <2>3. file' # NoFile
    BY <2>1, StateIsThere
  <2>4. /\ mem'[p] = file'
        /\ \A q \in Procs \ {p} : mem'[q] = mem[q]
    BY <1>0, <2>1
  <2>5. file'.rev \in Nat
    BY <1>0, <2>1
  <2> SUFFICES ASSUME NEW q \in Procs PROVE KnownBy(q)'
    BY DEF KnownInv, KnownBy
  <2>6. CASE q = p
    BY <2>3, <2>4, <2>5, <2>6 DEF KnownBy
  <2>7. CASE q # p
    <3>1. mem'[q].rev < file'.rev
      BY <1>0, <2>1, <2>2, <2>4, <2>7
    <3> QED
      BY <1>0, <2>3, <2>4, <2>5, <2>7, <3>1 DEF KnownBy
  <2> QED
    BY <2>6, <2>7
<1>6. CASE UNCHANGED <<file, mem>>
  BY <1>6, <1>a DEF KnownInv
<1>7. \/ UNCHANGED <<file, mem>>
      \/ \E p \in Procs : Load(p) \/ Claim(p) \/ Pause(p) \/ Finish(p) \/ MarkGate(p)
                          \/ Compare(p) \/ Replace(p)
  BY <1>a DEF FileInv, CheckedOnly, Next, RunnerStep, GateStep, SaveStep, EditorStep,
         Ended, Refuse, SkipClaim, Run, Quarantine,
         Expire, SkipGate, Locking, Conflict, FailToReplace,
         LockedOut, Read, Truncate, Write, From, storeVars, vars
<1> QED
  BY <1>1, <1>2, <1>3, <1>4, <1>5, <1>6, <1>7

\* A command takes its own steps in the lock only.
LEMMA LockStepIsLocal ==
    ASSUME TypeOK, NEW p \in Procs,
           Enter(p) \/ Acquire(p) \/ GiveUp(p) \/ Close(p) \/ Unlink(p) \/ End(p)
    PROVE  \A q \in Procs \ {p} : pc'[q] = pc[q]
  BY DEF TypeOK, LockTypeOK, Goto, Acquire, Enter, Create, WriteMetadata, LookAt,
         Judge, Remove, Retry, GiveUp, Close, Unlink, End

\* Exclusion keeps a comparison valid until the file is replaced.
LEMMA SafeStep ==
    ASSUME StoreInv, CheckedOnly, [Next]_vars
    PROVE  SafeInv'
<1> USE DEF StoreInv, TypeOK, SafeInv
<1> HIDE DEF State, Updates, Saves
<1>0. /\ pc \in [Procs -> Points]
      /\ \A p, q \in Procs : pc[p] = "held" /\ pc[q] = "held" => p = q
  BY HolderIsOne DEF LockTypeOK, CheckedOnly, MutualExclusion, Protected
<1>1. ASSUME NEW p \in Procs, Load(p) \/ Refuse(p) \/ SkipClaim(p) \/ Run(p)
                               \/ SkipGate(p) \/ Expire(p)
      PROVE  SafeInv'
  BY <1>0, <1>1
  DEF Load, Refuse, SkipClaim, Run, SkipGate, Expire, From, Advance, Keep,
      Quarantine, FileInv, lockVars
<1>2. ASSUME NEW p \in Procs, Claim(p) \/ Pause(p) \/ Finish(p) \/ MarkGate(p)
      PROVE  SafeInv'
  <2>1. /\ pc[p] = "out" /\ Enter(p) /\ UNCHANGED <<file, safe>>
        /\ \A q \in Procs \ {p} : at'[q] = at[q] /\ mem'[q] = mem[q]
    BY <1>2 DEF Claim, Pause, Finish, MarkGate, From, Advance, Keep
  <2>2. \A q \in Procs \ {p} : pc'[q] = pc[q]
    BY <2>1, LockStepIsLocal
  <2>3. ~safe[p]
    BY <2>1
  <2> QED
    BY <2>1, <2>2, <2>3
<1>3. ASSUME NEW p \in Procs, Compare(p)
      PROVE  SafeInv'
  <2>1. /\ at[p] \in Saves /\ pc[p] = "held" /\ UNCHANGED <<file, at, pc>>
        /\ safe' = [safe EXCEPT ![p] = TRUE]
        /\ mem' = [mem EXCEPT ![p] = [mem[p] EXCEPT !.rev = CurrentRevision(file)]]
    BY <1>3 DEF Compare, InSave, Keep, lockVars
  <2>2. ASSUME file # NoFile
        PROVE  mem'[p].rev = file.rev
    <3>1. file.rev \in Nat /\ CurrentRevision(file) = file.rev
      BY <2>2, StateFields DEF FileInv, CurrentRevision
    <3> QED
      BY <2>1, <3>1, StateRev
  <2> QED
    BY <2>1, <2>2
<1>4. ASSUME NEW p \in Procs, Conflict(p) \/ FailToReplace(p) \/ LockedOut(p)
      PROVE  SafeInv'
  <2>1. /\ Close(p) \/ GiveUp(p)
        /\ UNCHANGED <<file, mem>>
        /\ \A q \in Procs \ {p} : at'[q] = at[q] /\ safe'[q] = safe[q]
    BY <1>4 DEF Conflict, FailToReplace, LockedOut, Advance, GiveUp
  <2>2. \A q \in Procs \ {p} : pc'[q] = pc[q]
    BY <2>1, LockStepIsLocal
  <2>3. ~safe'[p]
    <3>1. CASE Conflict(p)
      BY <3>1 DEF Conflict
    <3>2. CASE FailToReplace(p)
      BY <3>2 DEF FailToReplace
    <3>3. CASE LockedOut(p)
      BY <3>3 DEF LockedOut, GiveUp
    <3> QED
      BY <1>4, <3>1, <3>2, <3>3
  <2> QED
    BY <2>1, <2>2, <2>3
<1>5. ASSUME NEW p \in Procs, Replace(p)
      PROVE  SafeInv'
  <2>1. /\ pc[p] = "held" /\ Close(p) /\ ~safe'[p]
        /\ \A q \in Procs \ {p} : at'[q] = at[q] /\ safe'[q] = safe[q] /\ mem'[q] = mem[q]
    BY <1>5 DEF Replace, InSave, Advance, Keep
  <2>2. \A q \in Procs \ {p} : pc'[q] = pc[q] /\ pc[q] # "held"
    BY <1>0, <2>1, LockStepIsLocal
  <2> QED
    BY <2>1, <2>2
<1>6. ASSUME NEW p \in Procs, Locking(p) \/ Ended(p)
      PROVE  SafeInv'
  <2>1. /\ Acquire(p) \/ Unlink(p) \/ End(p)
        /\ UNCHANGED <<file, at, mem, safe>>
    BY <1>6 DEF Locking, Ended, storeVars
  <2>2. \A q \in Procs \ {p} : pc'[q] = pc[q]
    BY <2>1, LockStepIsLocal
  <2>3. safe[p] => pc'[p] = "dead"
    BY <1>0, <2>1 DEF Acquire, Create, WriteMetadata, LookAt, Judge, Remove,
                      Retry, Unlink, End, Goto
  <2> QED
    BY <2>1, <2>2, <2>3
<1>7. ASSUME NEW p \in Procs
      PROVE  ~Read(p) /\ ~Truncate(p) /\ ~Write(p)
  BY DEF CheckedOnly, FileInv, Read, Truncate, Write, From
<1>8. CASE ((Age \/ AllEnded) /\ UNCHANGED storeVars) \/ UNCHANGED vars
  BY <1>8 DEF Age, AllEnded, lockVars, storeVars, vars
<1> QED
  BY <1>1, <1>2, <1>3, <1>4, <1>5, <1>6, <1>7, <1>8
  DEF Next, RunnerStep, GateStep, SaveStep, EditorStep

LEMMA StoreStepInv == StoreInv /\ [Next]_vars => StoreInv'
<1> SUFFICES ASSUME StoreInv, [Next]_vars PROVE StoreInv'
  OBVIOUS
<1>1. TypeOK' /\ LockInv'
  BY StoreTyped, UsesLock, LockStepInv DEF StoreInv
<1>2. CheckedOnly => FileInv' /\ KnownInv' /\ SafeInv'
  BY FileStep, KnownStep, SafeStep DEF StoreInv
<1> QED
  BY <1>1, <1>2 DEF StoreInv, CheckedOnly

LEMMA StoreInitInv == Init => StoreInv
<1> SUFFICES ASSUME Init PROVE StoreInv
  OBVIOUS
<1>1. LockInv /\ LockTypeOK
  BY LockInitInv DEF Init, LockInv
<1>2. TypeOK
  BY <1>1, FreshIsState DEF Init, TypeOK, Stages
<1>3. file # Torn /\ FreshState.rev = 0
  <2>1. FreshState # Torn /\ NoFile # Torn
    BY FreshIsState, StateIsThere, StoreAssumption
  <2>2. FreshState.rev = 0
    BY DEF FreshState
  <2> QED
    BY <2>1, <2>2 DEF Init
<1>4. FileInv /\ KnownInv /\ SafeInv
  <2>1. FileInv /\ SafeInv
    BY <1>3 DEF Init, FileInv, SafeInv
  <2>2. \A p \in Procs : mem[p] = FreshState
    BY DEF Init
  <2>3. file = NoFile \/ file = FreshState
    BY DEF Init
  <2>4. KnownInv
    <3>1. CASE file = NoFile
      BY <1>3, <2>2, <3>1 DEF KnownInv
    <3>2. CASE file = FreshState
      <4>1. file.rev \in Nat /\ file # NoFile
        BY <3>2, FreshIsState, StateIsThere, StateFields
      <4>2. \A p \in Procs : mem[p].rev <= file.rev
        <5>1. file.rev <= file.rev
          BY <4>1
        <5> QED
          BY <2>2, <3>2, <5>1, Zenon
      <4>3. \A p \in Procs : file.has \subseteq mem[p].has
        BY <2>2, <3>2
      <4> QED
        BY <4>1, <4>2, <4>3 DEF KnownInv
    <3> QED
      BY <2>3, <3>1, <3>2
  <2> QED
    BY <2>1, <2>4
<1> QED
  BY <1>1, <1>2, <1>4 DEF StoreInv

\* The inductive invariant of the state file.
THEOREM StoreInvariance == Spec => []StoreInv
  BY StoreInitInv, StoreStepInv, PTL DEF Spec

\* The commands use the lock as its specification says.
THEOREM StoreUsesLock == Spec => LockSpec
<1>1. Init => LockInit
  BY DEF Init
<1> QED
  BY <1>1, UsesLock, PTL DEF Spec, LockSpec

\* One save of the state file at a time, whatever the commands do: its lock is
\* never taken over.
THEOREM StoreExclusion == ASSUME ~StaleTakeover PROVE Spec => []MutualExclusion
<1>1. ProtectedExclusion => MutualExclusion
  BY DEF ProtectedExclusion, Protected
<1> QED
  BY <1>1, StoreUsesLock, Exclusion, PTL

\* Types, whatever the commands, the platform and the lock's limits.
THEOREM StoreTypes == Spec => []TypeOK
<1>1. StoreInv => TypeOK
  BY DEF StoreInv
<1> QED
  BY <1>1, StoreInvariance, PTL

\* Without editors and under a lock that nobody takes over, whatever replaces the
\* state file takes account of all that was saved before.
THEOREM UpdatesKept == ASSUME CheckedOnly PROVE Spec => NoUpdateLost
<1>1. ASSUME StoreInv, StoreInv', [Next]_vars
      PROVE  [~EditorsWrote' /\ file # NoFile
                 => file' \notin {NoFile, Torn} /\ file.has \subseteq file'.has]_vars
  <2>1. TypeOK /\ FileInv /\ FileInv' /\ KnownInv /\ SafeInv
    BY <1>1 DEF StoreInv
  <2>2. CASE file' = file
    BY <2>1, <2>2 DEF FileInv
  <2>3. ASSUME NEW p \in Procs, Replace(p), file # NoFile
        PROVE  file' \notin {NoFile, Torn} /\ file.has \subseteq file'.has
    BY <2>1, <2>3, ReplaceStep, StateIsThere
  <2> QED
    BY <1>1, <2>1, <2>2, <2>3, FileKept
<1> QED
  BY <1>1, StoreInvariance, PTL DEF Spec, NoUpdateLost

-----------------------------------------------------------------------------
(* Claims exclude each other.                                              *)

\* Everyone is a runner that claims.
LEMMA OnlyRunners ==
    ASSUME ClaimingOnly, NEW p \in Procs
    PROVE  p \in Runners /\ p # NoClaim /\ ~SkipClaim(p) /\ ~MarkGate(p) /\ ~SkipGate(p)
  BY StoreAssumption DEF ClaimingOnly, CheckedOnly, SkipClaim, MarkGate, SkipGate

LEMMA ExpiredStays ==
    ASSUME [Next]_vars PROVE expired \subseteq expired'
  BY DEF Next, RunnerStep, GateStep, SaveStep, EditorStep, Ended, Load, Claim,
         Refuse, SkipClaim, Pause, Run, Finish, Expire, MarkGate, SkipGate,
         Locking, Compare, Conflict, Replace, FailToReplace, LockedOut, Read,
         Truncate, Write, storeVars, vars

\* A claim that has run out stays so.
LEMMA ActiveBefore ==
    ASSUME TypeOK, [Next]_vars, NEW p \in Procs, Active(p)'
    PROVE  Active(p)
<1>1. pc[p] = "dead" => pc'[p] = "dead"
  BY UsesLock
  DEF TypeOK, LockTypeOK, LockNext, LockStep, Acquire, Enter, Create, WriteMetadata,
      LookAt, Judge, Remove, Retry, GiveUp, Close, Unlink, End, Age, AllEnded,
      Goto, lockVars
<1> QED
  BY <1>1, ExpiredStays DEF Active

\* So does the claim in a file that stays.
LEMMA FileClaimBefore ==
    ASSUME StoreInv, CheckedOnly, [Next]_vars, file' = file, file # NoFile,
           Active(file.claim)'
    PROVE  Active(file.claim)
<1>1. file.claim \in Procs \cup {NoClaim}
  BY StateFields DEF StoreInv, TypeOK, FileInv
<1>2. CASE file.claim = NoClaim
  BY <1>2 DEF Active
<1>3. CASE file.claim \in Procs
  BY <1>3, ActiveBefore DEF StoreInv
<1> QED
  BY <1>1, <1>2, <1>3

\* A step that leaves the file alone, and the stage and claim of a command.
LEMMA ClaimsOfOthers ==
    ASSUME StoreInv, CheckedOnly, [Next]_vars, file' = file, NEW q \in Procs, ClaimsOf(q),
           at'[q] = at[q], mem'[q].rev = mem[q].rev, mem'[q].claim = mem[q].claim
    PROVE  ClaimsOf(q)'
<1>1. Active(q)' => Active(q)
  BY ActiveBefore DEF StoreInv
<1>2. Same(q)' <=> Same(q)
  BY DEF Same
<1>3. Same(q) /\ Active(file.claim)' => Active(file.claim)
  BY FileClaimBefore DEF Same
<1> QED
  BY <1>1, <1>2, <1>3, ExpiredStays DEF ClaimsOf

\* The commands that take no part in a replacement are not up to date, and
\* their claims have run out.
LEMMA ReplaceClaims ==
    ASSUME StoreInv, ClaimingOnly, ClaimInv, [Next]_vars, NEW p \in Procs, Replace(p),
           NEW q \in Procs
    PROVE  ClaimsOf(q)'
<1> USE DEF StoreInv
<1> HIDE DEF State, Updates
<1>0. /\ CheckedOnly /\ \A r \in Procs : ClaimsOf(r)
      /\ TypeOK /\ FileInv /\ KnownInv /\ SafeInv
  BY DEF ClaimInv, ClaimingOnly
<1>1. /\ file' \in State /\ mem' = [mem EXCEPT ![p] = file']
      /\ file'.rev = mem[p].rev + 1 /\ file'.claim = mem[p].claim
      /\ file = NoFile => mem[p].rev = 0
      /\ file # NoFile => mem[p].rev = file.rev
      /\ at[p] \in Saves /\ at' = [at EXCEPT ![p] = AfterSave(p)]
  BY <1>0, ReplaceStep DEF Replace, InSave, Advance
<1>2. file' # NoFile
  BY <1>1, StateIsThere
<1>3. CASE q = p
  <2>1. mem'[p] = file' /\ at'[p] = IF at[p] = "claiming" THEN "ready" ELSE "done"
    BY <1>0, <1>1 DEF TypeOK, AfterSave
  <2>2. at[p] = "claiming" => file'.claim = p
    BY <1>0, <1>1 DEF ClaimsOf
  <2>3. Same(p)'
    BY <1>2, <2>1 DEF Same
  <2> QED
    BY <1>2, <1>3, <2>1, <2>2, <2>3 DEF ClaimsOf, HasClaim
<1>4. CASE q # p
  <2>1. mem'[q] = mem[q] /\ at'[q] = at[q]
    BY <1>0, <1>1, <1>4 DEF TypeOK
  <2>2. mem[q].rev \in Nat /\ mem[p].rev \in Nat
    BY <1>0, StateFields DEF TypeOK
  <2>3. mem[q].rev <= mem[p].rev
    BY <1>0, <1>1, <2>2 DEF KnownInv
  <2>4. ~Same(q)'
    BY <1>1, <2>1, <2>2, <2>3 DEF Same
  <2>5. ASSUME at[q] \in HasClaim, Active(q)'
        PROVE  FALSE
    <3>1. Active(q)
      BY <1>0, <2>5, ActiveBefore
    <3>2. Same(q) /\ file.claim = q
      <4>1. ClaimsOf(q)
        BY <1>0
      <4> QED
        BY <2>5, <3>1, <4>1 DEF ClaimsOf
    <3>3. Same(p)
      BY <1>1, <3>2 DEF Same
    <3>4. CASE at[p] = "claiming"
      <4>1. ClaimsOf(p)
        BY <1>0
      <4> QED
        BY <3>1, <3>2, <3>3, <3>4, <4>1 DEF ClaimsOf
    <3>5. CASE at[p] \in {"pausing", "finishing"}
      BY <1>0, <1>4, <3>2, <3>3, <3>5 DEF ClaimsOf, HasClaim
    <3> QED
      BY <1>0, <1>1, <3>4, <3>5 DEF Saves, ClaimsOf
  <2> QED
    BY <1>0, <1>2, <2>1, <2>4, <2>5, ExpiredStays DEF ClaimsOf
<1> QED
  BY <1>3, <1>4

\* The steps of a runner between saves.
LEMMA RunnerClaims ==
    ASSUME StoreInv, ClaimingOnly, ClaimInv, [Next]_vars, NEW p \in Procs,
           RunnerStep(p)
    PROVE  ClaimsOf(p)'
<1> USE DEF StoreInv, TypeOK
<1> HIDE DEF State, Updates
<1>0. CheckedOnly /\ ClaimsOf(p) /\ FileInv
  BY DEF ClaimInv, ClaimingOnly
<1>1. CASE Load(p)
  <2>1. /\ mem'[p] = IF file = NoFile THEN FreshState ELSE file
        /\ at'[p] = "loaded" /\ file' = file
    BY <1>0, <1>1 DEF Load, Keep, Advance, Quarantine, FileInv
  <2> QED
    BY <2>1 DEF ClaimsOf, Same, HasClaim
<1>2. CASE Claim(p)
  <2>1. /\ at[p] = "loaded" /\ ~Active(mem[p].claim)
        /\ at'[p] = "claiming" /\ file' = file
    BY <1>2 DEF Claim, From, MayClaim, Advance
  <2>2. mem'[p].rev = mem[p].rev /\ mem'[p].claim = p
    BY <1>2, MemoryStep
  <2>3. Same(p)' => Same(p)
    BY <2>1, <2>2 DEF Same
  <2>4. Same(p) => ~Active(file.claim)
    BY <1>0, <2>1 DEF ClaimsOf
  <2>5. Same(p) => ~Active(file.claim)'
    BY <1>0, <2>1, <2>4, FileClaimBefore DEF Same
  <2> QED
    BY <2>1, <2>2, <2>3, <2>5 DEF ClaimsOf, HasClaim
<1>3. CASE Pause(p) \/ Finish(p) \/ Run(p)
  <2>1. /\ at[p] \in HasClaim /\ at'[p] \in {"pausing", "finishing", "running"}
        /\ file' = file
    BY <1>3 DEF Pause, Finish, Run, From, Advance, HasClaim
  <2>2. mem'[p].rev = mem[p].rev
    <3>1. CASE Pause(p) \/ Finish(p)
      BY <3>1, MemoryStep
    <3>2. CASE Run(p)
      BY <3>2 DEF Run
    <3> QED
      BY <1>3, <3>1, <3>2
  <2>3. Same(p)' <=> Same(p)
    BY <2>1, <2>2 DEF Same
  <2>4. Active(p)' => Active(p)
    BY ActiveBefore
  <2> QED
    BY <1>0, <2>1, <2>3, <2>4 DEF ClaimsOf
<1>4. CASE Refuse(p)
  BY <1>4 DEF Refuse, Advance, ClaimsOf, HasClaim
<1>5. CASE Expire(p)
  BY <1>0, <1>5, ClaimsOfOthers DEF Expire
<1> QED
  BY <1>1, <1>2, <1>3, <1>4, <1>5, OnlyRunners DEF RunnerStep

\* The steps of a save that leave the file alone.
LEMMA SaveClaims ==
    ASSUME StoreInv, ClaimingOnly, ClaimInv, [Next]_vars, NEW p \in Procs,
           Locking(p) \/ Compare(p) \/ Conflict(p) \/ FailToReplace(p)
           \/ LockedOut(p) \/ Ended(p)
    PROVE  ClaimsOf(p)'
<1> USE DEF StoreInv, TypeOK
<1> HIDE DEF State, Updates, Saves
<1>0. CheckedOnly /\ ClaimsOf(p) /\ FileInv /\ KnownInv
  BY DEF ClaimInv, ClaimingOnly
<1>1. CASE Locking(p) \/ Ended(p)
  BY <1>0, <1>1, ClaimsOfOthers DEF Locking, Ended, storeVars
<1>2. CASE Compare(p)
  <2>1. /\ file = NoFile \/ file \in State
        /\ mem[p] \in State
    BY <1>0 DEF FileInv
  <2>2. CurrentRevision(file) \in Nat /\ CurrentRevision(file) = mem[p].rev
    BY <1>0, <1>2, <2>1, StateFields DEF Compare, Unchanged, CurrentRevision, KnownInv
  <2>3. mem'[p] = [mem[p] EXCEPT !.rev = CurrentRevision(file)]
    BY <1>2 DEF Compare, Keep
  <2>4. mem'[p].rev = mem[p].rev /\ mem'[p].claim = mem[p].claim
    BY <2>1, <2>2, <2>3, StateRev
  <2> QED
    BY <1>0, <1>2, <2>4, ClaimsOfOthers DEF Compare
<1>3. CASE Conflict(p)
  <2>1. /\ at[p] \in Saves /\ pc[p] = "held" /\ ~Same(p) /\ file # NoFile
        /\ at'[p] = AfterConflict(p)
    BY <1>0, <1>3 DEF Conflict, InSave, Unchanged, FileInv, Same, Advance
  <2>2. CASE at[p] \in {"claiming", "pausing"}
    BY <2>1, <2>2 DEF ClaimsOf, HasClaim, AfterConflict
  <2>3. CASE at[p] = "finishing"
    <3>1. ~Active(p)
      BY <1>0, <2>1, <2>3 DEF ClaimsOf, HasClaim
    <3>2. p \in expired
      BY <2>1, <3>1, OnlyRunners DEF Active
    <3> QED
      BY <2>1, <2>3, <3>2, ExpiredStays DEF ClaimsOf, HasClaim, AfterConflict
  <2> QED
    BY <1>0, <2>1, <2>2, <2>3 DEF Saves, ClaimsOf
<1>4. CASE FailToReplace(p) \/ LockedOut(p)
  <2>1. at'[p] \in {"refused", "done", "failed"}
    BY <1>4 DEF FailToReplace, LockedOut, Advance, AfterError
  <2> QED
    BY <2>1 DEF ClaimsOf, HasClaim
<1> QED
  BY <1>1, <1>2, <1>3, <1>4

LEMMA ClaimStep == StoreInv /\ ClaimInv /\ [Next]_vars => ClaimInv'
<1> SUFFICES ASSUME StoreInv, ClaimInv, [Next]_vars, ClaimingOnly, NEW q \in Procs
             PROVE  ClaimsOf(q)'
  BY DEF ClaimInv, ClaimingOnly, CheckedOnly
<1> HIDE DEF State, Updates
<1>0. CheckedOnly /\ TypeOK /\ FileInv /\ ClaimsOf(q)
  BY DEF ClaimInv, ClaimingOnly, StoreInv
<1>1. ASSUME NEW p \in Procs, Replace(p)
      PROVE  ClaimsOf(q)'
  BY <1>1, ReplaceClaims
<1>2. CASE file' = file
  <2>1. ASSUME NEW p \in Procs, RunnerStep(p) \/ SaveStep(p) \/ Ended(p), ~Replace(p)
        PROVE  ClaimsOf(q)'
    <3>1. CASE q = p
      BY <2>1, <3>1, RunnerClaims, SaveClaims DEF SaveStep
    <3>2. CASE q # p
      <4>1. at'[q] = at[q] /\ mem'[q] = mem[q]
        BY <1>0, <2>1, <3>2
        DEF TypeOK, RunnerStep, SaveStep, Load, Claim, Refuse, SkipClaim, Pause, Run,
            Finish, Expire, Locking, Compare, Conflict, FailToReplace, LockedOut,
            Ended, Advance, Keep, storeVars
      <4> QED
        BY <1>0, <1>2, <4>1, ClaimsOfOthers
    <3> QED
      BY <3>1, <3>2
  <2>2. ASSUME NEW p \in Procs
        PROVE  ~GateStep(p) /\ ~EditorStep(p)
    BY <1>0, OnlyRunners
    DEF GateStep, EditorStep, CheckedOnly, FileInv, Read, Truncate, Write, From
  <2>3. CASE ((Age \/ AllEnded) /\ UNCHANGED storeVars) \/ UNCHANGED vars
    <3>1. at' = at /\ mem' = mem
      BY <2>3 DEF storeVars, vars
    <3> QED
      BY <1>0, <1>2, <3>1, ClaimsOfOthers
  <2> QED
    BY <1>1, <2>1, <2>2, <2>3 DEF Next
<1> QED
  BY <1>0, <1>1, <1>2, FileKept

LEMMA ClaimInitInv == Init => ClaimInv
  BY DEF Init, ClaimInv, ClaimsOf, HasClaim

LEMMA ClaimInvariance == Spec => []ClaimInv
  BY StoreInvariance, ClaimInitInv, ClaimStep, PTL DEF Spec

\* Among runners that claim, two work on the same task only after a claim ran
\* out: both active claims would be the one in the file.
THEOREM ClaimsExclude == ASSUME ClaimingOnly PROVE Spec => []ClaimIsExclusive
<1>1. ClaimInv => ClaimIsExclusive
  <2> SUFFICES ASSUME ClaimInv, NEW p \in Runners, NEW q \in Runners, Working(p), Working(q),
                      p \notin expired, q \notin expired
               PROVE  p = q
    BY DEF ClaimIsExclusive
  <2>1. p \in Procs /\ q \in Procs /\ p # NoClaim /\ q # NoClaim
    BY StoreAssumption
  <2>2. Active(p) /\ Active(q) /\ at[p] \in HasClaim /\ at[q] \in HasClaim
    BY <2>1 DEF Working, Active, HasClaim
  <2>3. ClaimsOf(p) /\ ClaimsOf(q)
    BY <2>1 DEF ClaimInv
  <2>4. file.claim = p /\ file.claim = q
    BY <2>2, <2>3 DEF ClaimsOf
  <2> QED
    BY <2>4
<1> QED
  BY <1>1, ClaimInvariance, PTL

\* Among runners that claim, no result is refused before the claim ran out.
THEOREM ResultsKept == ASSUME ClaimingOnly PROVE Spec => []ResultLostOnlyByExpiry
<1>1. ClaimInv => ResultLostOnlyByExpiry
  BY StoreAssumption DEF ClaimInv, ClaimsOf, ResultLostOnlyByExpiry
<1> QED
  BY <1>1, ClaimInvariance, PTL

-----------------------------------------------------------------------------
(* An unreadable file.                                                     *)

\* An editor never enters the lock.  Its open handle is that of an unreadable
\* file, which stays so for as long as the editor neither writes nor goes on.
TornInv(e) ==
    /\ at[e] \in {"start", "editing", "writing", "done"}
    /\ pc[e] \in {"out", "dead"}
    /\ e \in handles => file = Torn
    /\ file = Torn => at[e] = "writing" /\ (e \in handles \/ pc[e] = "dead")

\* What an editor holds in memory is a state, not an unreadable file.
LEMMA MemoryIsReadable ==
    ASSUME TypeOK, NEW p \in Procs PROVE mem[p] # Torn
<1>1. mem[p] \in State
  BY DEF TypeOK
<1> QED
  BY <1>1, StateIsThere

\* The steps of the other commands leave the only editor where it is, and make
\* an unreadable file readable or move it away, if they touch it at all.
LEMMA OthersKeepTorn ==
    ASSUME TypeOK, NEW e \in Editors, Editors = {e}, TornInv(e),
           NEW p \in Procs \ {e},
           \/ RunnerStep(p) \/ GateStep(p) \/ SaveStep(p) \/ Ended(p)
    PROVE  TornInv(e)'
<1> HIDE DEF State, Updates
<1>1. e \in Procs /\ p \in Procs /\ p # e
  BY StoreAssumption
<1>2. at'[e] = at[e]
  BY <1>1
  DEF TypeOK, RunnerStep, GateStep, SaveStep, Ended, Load, Claim, Refuse, SkipClaim,
      Pause, Run, Finish, Expire, MarkGate, SkipGate, Locking, Compare, Conflict,
      Replace, FailToReplace, LockedOut, Advance, storeVars
<1>3. pc'[e] = pc[e]
  <2>1. \/ Enter(p) \/ Acquire(p) \/ GiveUp(p) \/ Close(p) \/ Unlink(p) \/ End(p)
        \/ UNCHANGED lockVars
    BY DEF RunnerStep, GateStep, SaveStep, Ended, Load, Claim, Refuse, SkipClaim,
           Pause, Run, Finish, Expire, MarkGate, SkipGate, Locking, Compare, Conflict,
           Replace, FailToReplace, LockedOut
  <2> QED
    BY <1>1, <2>1, LockStepIsLocal DEF lockVars
<1>4. \/ file' # Torn /\ handles' = {}
      \/ UNCHANGED file /\ handles' \cap {e} = handles \cap {e}
  <2>1. CASE Replace(p)
    <3>1. <<p, at[p]>> \in Updates
      BY <2>1, <1>1 DEF Replace, InSave, Updates
    <3>2. mem[p] \in State
      BY <1>1 DEF TypeOK
    <3> QED
      BY <2>1, <1>1, <3>1, <3>2, StateSaved, StateIsThere DEF Replace
  <2>2. CASE Load(p) \/ SkipGate(p)
    BY <2>2, StoreAssumption DEF Load, SkipGate, Quarantine
  <2>3. CASE ~Replace(p) /\ ~Load(p) /\ ~SkipGate(p)
    BY <2>3, <1>1
    DEF RunnerStep, GateStep, SaveStep, Ended, Claim, Refuse, SkipClaim, Pause, Run,
        Finish, Expire, MarkGate, Locking, Compare, Conflict, FailToReplace, LockedOut,
        storeVars
  <2> QED
    BY <2>1, <2>2, <2>3
<1> QED
  BY <1>2, <1>3, <1>4 DEF TornInv

\* The only editor tears the file when it opens it and mends it when it writes.
LEMMA EditorKeepsTorn ==
    ASSUME TypeOK, NEW e \in Editors, Editors = {e}, TornInv(e),
           \/ RunnerStep(e) \/ GateStep(e) \/ SaveStep(e) \/ EditorStep(e) \/ Ended(e)
    PROVE  TornInv(e)'
<1> HIDE DEF State, Updates
<1>1. e \in Procs /\ e \notin Runners \cup BareRunners \cup Gates
  BY StoreAssumption
<1>2. ~RunnerStep(e) /\ ~GateStep(e) /\ ~SaveStep(e)
  BY <1>1 DEF TornInv, RunnerStep, GateStep, SaveStep, Load, Claim, Refuse, SkipClaim,
     Pause, Run, Finish, Expire, MarkGate, SkipGate, From, Locking, Acquire, Create,
     WriteMetadata, LookAt, Judge, Remove, Retry, Unlink, GiveUp, Compare, Conflict,
     Replace, FailToReplace, LockedOut, InSave
<1>3. CASE Read(e)
  <2>1. at'[e] \in {"done", "editing"} /\ UNCHANGED <<pc, file, handles>> /\ at[e] = "start"
    BY <1>1, <1>3 DEF TypeOK, Read, Advance, From, lockVars
  <2> QED
    BY <2>1 DEF TornInv
<1>4. CASE Truncate(e)
  <2>1. at'[e] = "writing" /\ file' = Torn /\ e \in handles' /\ UNCHANGED pc
    BY <1>1, <1>4 DEF TypeOK, Truncate, Advance, lockVars
  <2> QED
    BY <2>1 DEF TornInv
<1>5. CASE Write(e)
  <2>1. at[e] = "writing" /\ at'[e] = "done" /\ pc[e] = "out" /\ UNCHANGED pc
        /\ e \notin handles'
    BY <1>1, <1>5 DEF TypeOK, Write, From, Advance, lockVars
  <2>2. handles \subseteq {e}
    BY DEF TypeOK
  <2>3. CASE e \in handles
    <3>1. file = Torn /\ handles = {e}
      BY <2>2, <2>3 DEF TornInv
    <3>2. file' = mem[e]
      BY <1>5, <3>1 DEF Write
    <3> QED
      BY <1>1, <2>1, <3>2, MemoryIsReadable DEF TornInv
  <2>4. CASE e \notin handles
    BY <1>5, <2>1, <2>4 DEF Write, TornInv
  <2> QED
    BY <2>3, <2>4
<1>6. CASE Ended(e)
  BY <1>1, <1>6 DEF TypeOK, LockTypeOK, Ended, End, Goto, TornInv
<1> QED
  BY <1>2, <1>3, <1>4, <1>5, <1>6 DEF EditorStep

\* Only an editor takes an editor's steps.
LEMMA OthersDoNotEdit ==
    ASSUME TypeOK, NEW e \in Editors, Editors = {e}, NEW p \in Procs \ {e},
           at[p] = "writing" => p \in Editors
    PROVE  ~EditorStep(p)
BY DEF EditorStep, Read, Truncate, Write, From

\* Only editors write in place.
WriterInv == \A p \in Procs : at[p] = "writing" => p \in Editors

LEMMA WriterStep ==
    ASSUME TypeOK, WriterInv, [Next]_vars PROVE WriterInv'
<1> USE DEF TypeOK, WriterInv, Advance
<1> HIDE DEF State, Updates
<1>1. ASSUME NEW p \in Procs, RunnerStep(p) \/ GateStep(p)
      PROVE  WriterInv'
  BY <1>1 DEF RunnerStep, GateStep, Load, Claim, Refuse, SkipClaim, Pause, Run, Finish,
              Expire, MarkGate, SkipGate
<1>2. ASSUME NEW p \in Procs, SaveStep(p) \/ Ended(p)
      PROVE  WriterInv'
  BY <1>2 DEF SaveStep, Ended, Locking, Compare, Conflict, Replace, FailToReplace,
              LockedOut, AfterConflict, AfterError, AfterSave, storeVars
<1>3. ASSUME NEW p \in Procs, EditorStep(p)
      PROVE  WriterInv'
  BY <1>3 DEF EditorStep, Read, Truncate, Write
<1>4. CASE ((Age \/ AllEnded) /\ UNCHANGED storeVars) \/ UNCHANGED vars
  BY <1>4 DEF storeVars, vars
<1> QED
  BY <1>1, <1>2, <1>3, <1>4 DEF Next

LEMMA TornStep ==
    ASSUME TypeOK, WriterInv, NEW e \in Editors, Editors = {e}, TornInv(e), [Next]_vars
    PROVE  TornInv(e)'
<1>1. ASSUME NEW p \in Procs,
             \/ RunnerStep(p) \/ GateStep(p) \/ SaveStep(p) \/ EditorStep(p) \/ Ended(p)
      PROVE  TornInv(e)'
  <2>1. CASE p = e
    BY <1>1, <2>1, EditorKeepsTorn
  <2>2. CASE p # e
    <3>1. ~EditorStep(p)
      BY <2>2, OthersDoNotEdit DEF WriterInv
    <3> QED
      BY <1>1, <2>2, <3>1, OthersKeepTorn
  <2> QED
    BY <2>1, <2>2
<1>2. CASE ((Age \/ AllEnded) /\ UNCHANGED storeVars) \/ UNCHANGED vars
  <2>1. UNCHANGED <<pc, at, file, handles>>
    BY <1>2 DEF Age, AllEnded, lockVars, storeVars, vars
  <2> QED
    BY <2>1 DEF TornInv
<1> QED
  BY <1>1, <1>2 DEF Next

\* Where there is one editor, decide or the end of task-run, whoever finds the
\* state file unreadable has caught that editor between opening the file and
\* writing it, or after it died there: no other command tears the file, however
\* its save, the lock and the quarantine of load are interleaved with the edit.
THEOREM TornByItsEditor ==
    ASSUME NEW e \in Editors, Editors = {e}
    PROVE  Spec => []TornOnlyWhileWritten
<1>1. Init => TornInv(e) /\ WriterInv
  <2>1. e \in Procs /\ FreshState # Torn /\ NoFile # Torn
    BY FreshIsState, StateIsThere, StoreAssumption
  <2> QED
    BY <2>1 DEF Init, LockInit, TornInv, WriterInv
<1>2. TypeOK /\ TornInv(e) /\ WriterInv /\ [Next]_vars => TornInv(e)' /\ WriterInv'
  BY TornStep, WriterStep
<1>3. TornInv(e) => TornOnlyWhileWritten
  BY DEF TornInv, TornOnlyWhileWritten
<1> QED
  BY <1>1, <1>2, <1>3, StoreTypes, PTL DEF Spec
=============================================================================
