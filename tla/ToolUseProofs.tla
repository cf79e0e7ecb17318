---------------------------- MODULE ToolUseProofs ----------------------------
(***************************************************************************)
(* Proofs about the tool-use executor, for any files, limits and bounds,   *)
(* and however often operations fail and the process is killed: a blocked  *)
(* attempt leaves the project alone, a passed one leaves in it what was    *)
(* verified, no attempt loses what is owed to the user or was passed       *)
(* before, and the counters keep their limits.                             *)
(***************************************************************************)
EXTENDS ToolUse, WellFoundedInduction, TLAPS

Stamp(n) == [there : BOOLEAN, has : SUBSET (1..n)]

\* The phases in which a copy is worked on and nothing is committed.
Works == {"ready", "asking", "calling", "verifying"}

\* No content is newer than the clock.
NumbersInv ==
    /\ now \in 0..MaxChanges /\ edits \subseteq 1..now
    /\ project \in [Files -> Stamp(now)] /\ scratch \in [Files -> Stamp(now)]
    /\ before \in [Files -> Stamp(now)]
    /\ backup \in [Files -> Stamp(now) \cup {NoFile}]
    /\ earlier \in [Files -> Stamp(now)] \cup {NoBase}

PhaseInv ==
    /\ phase \in Works \cup {"idle", "chosen", "copied", "committing", "restoring"}
    /\ phase # "idle" => status = "running"
    /\ phase \notin {"committing", "restoring"} => backup = NothingSaved
    /\ phase \notin {"idle", "restoring"} => ~spoiled
    /\ phase = "restoring" => why \in {"conflict", "fault"}

Since(f) == project[f].has \ before[f].has

\* Since the hash was taken, nobody but the user has changed this file.
Clean(f) == IF Since(f) \cap edits = {} THEN Same(project[f], before[f])
            ELSE project[f].there => Since(f) \subseteq edits

\* What the commit has come to can be put back, the rest is untouched.
SavedInv ==
    /\ phase \in Works \/ (phase = "idle" /\ status = "BLOCKED" /\ ~spoiled) =>
          \A f \in Files : Clean(f)
    /\ phase \in {"committing", "restoring"} /\ ~spoiled =>
          \A f \in Files : IF backup[f] = NoFile THEN Clean(f)
                           ELSE Same(backup[f], before[f])

\* A committed file is the one of the scratch copy until the user edits it.
PlacedInv ==
    phase = "committing" =>
        \A f \in Files \ todo :
            Since(f) \cap edits = {} => Same(project[f], scratch[f])

IInv == NumbersInv /\ PhaseInv /\ SavedInv /\ PlacedInv

\* A scratch copy is chosen to start from only while the attempt waits for the
\* lock, and it is the last one that was written to, if there is one.
ChosenInv ==
    /\ base \in [Files -> Stamp(now)] \cup {NoBase}
    /\ base # NoBase => phase = "chosen"
    /\ base # NoBase /\ earlier # NoBase => base = earlier

-----------------------------------------------------------------------------
LEMMA StampGrows == ASSUME NEW m \in Nat, NEW n \in Nat, m <= n
                    PROVE  Stamp(m) \subseteq Stamp(n)
  BY SMT DEF Stamp

\* The mark for no backup is no content.
LEMMA NoFileIsNone == ASSUME NEW n \in 0..MaxChanges PROVE NoFile \notin Stamp(n)
  <1>1. Stamp(n) \subseteq Content
    BY ToolUseAssumption, SMT DEF Stamp, Content
  <1> QED  BY <1>1, NoContent

\* A file of the same hash is clean.
LEMMA SameIsClean == ASSUME NEW f \in Files, NumbersInv, Same(project[f], before[f])
                     PROVE  Clean(f)
  BY SMT DEF Same, Clean, Since, NumbersInv, Stamp

-----------------------------------------------------------------------------
\* A step within an attempt that leaves the project alone, or ends it.
WorkAction ==
    /\ phase \in Works
    /\ UNCHANGED <<project, before, backup, edits, spoiled>>
    /\ now' \in 0..MaxChanges /\ now <= now'
    /\ scratch' \in [Files -> Stamp(now')]
    /\ earlier' \in {earlier, scratch}
    /\ (phase' \in Works /\ status' = status) \/ phase' = "idle"

LEMMA WorkIsSafe == IInv /\ WorkAction => IInv'
  <1> SUFFICES ASSUME IInv, WorkAction PROVE IInv'
    OBVIOUS
  <1>1. now \in Nat /\ now' \in Nat
    BY ToolUseAssumption, SMT DEF IInv, NumbersInv, WorkAction
  <1>2. Stamp(now) \subseteq Stamp(now')
    BY <1>1, StampGrows DEF WorkAction
  <1>3. NumbersInv'
    <2>1. edits' \subseteq 1..now'
      BY <1>1, SMT DEF IInv, NumbersInv, WorkAction
    <2>2. project' \in [Files -> Stamp(now')] /\ before' \in [Files -> Stamp(now')]
      BY <1>2, SMT DEF IInv, NumbersInv, WorkAction
    <2>3. backup' \in [Files -> Stamp(now') \cup {NoFile}]
      BY <1>2, SMT DEF IInv, NumbersInv, WorkAction
    <2>4. earlier' \in [Files -> Stamp(now')] \cup {NoBase}
      BY <1>2, SMT DEF IInv, NumbersInv, WorkAction
    <2> QED  BY <2>1, <2>2, <2>3, <2>4 DEF WorkAction, NumbersInv
  <1>4. PhaseInv'
    BY DEF IInv, PhaseInv, WorkAction, Works, NothingSaved
  <1>5. \A f \in Files : Clean(f) /\ Clean(f)'
    BY DEF IInv, SavedInv, WorkAction, Clean, Since
  <1>6. SavedInv' /\ PlacedInv'
    BY <1>5 DEF SavedInv, PlacedInv, WorkAction, Works
  <1> QED  BY <1>3, <1>4, <1>6 DEF IInv

-----------------------------------------------------------------------------
\* The steps that leave the copy alone too.
LEMMA AsideIsWork ==
    ASSUME IInv, phase \in Works, Aside, earlier' \in {earlier, scratch},
           (phase' \in Works /\ status' = status) \/ phase' = "idle"
    PROVE  WorkAction
  <1>1. now \in 0..MaxChanges /\ now <= now /\ scratch \in [Files -> Stamp(now)]
    BY ToolUseAssumption, SMT DEF IInv, NumbersInv
  <1> QED  BY <1>1 DEF WorkAction, Aside, disk, ghosts

\* Finish and Block, and what is made of them.
LEMMA Finishing == ASSUME NEW caller, Finish(caller)
                   PROVE  /\ earlier' \in {earlier, scratch}
                          /\ (phase' \in Works /\ status' = status) \/ phase' = "idle"
  BY DEF Finish, Block, Gone, Leave, Stay, Works

LEMMA Blocking == ASSUME NEW kind, Block(kind)
                  PROVE  earlier' \in {earlier, scratch} /\ phase' = "idle"
  BY DEF Block, Gone, Leave

LEMMA Interrupting == ASSUME Interrupted
                      PROVE  /\ earlier' \in {earlier, scratch}
                             /\ (phase' \in Works /\ status' = status) \/ phase' = "idle"
  BY Finishing, Blocking DEF Interrupted

LEMMA EndsWell ==
    ASSUME EndResponse
    PROVE  /\ earlier' \in {earlier, scratch}
           /\ (phase' \in Works /\ status' = status) \/ phase' = "idle"
  <1>1. ASSUME NEW l, GoOn(l)
        PROVE  earlier' = earlier /\ phase' \in Works /\ status' = status
    BY <1>1 DEF GoOn, Stay, Works
  <1>2. ASSUME NEW l, LastChance(l)
        PROVE  /\ earlier' \in {earlier, scratch}
               /\ (phase' \in Works /\ status' = status) \/ phase' = "idle"
    BY <1>1, <1>2, Blocking DEF LastChance
  <1>3. ASSUME NEW l, Stall(l)
        PROVE  /\ earlier' \in {earlier, scratch}
               /\ (phase' \in Works /\ status' = status) \/ phase' = "idle"
    BY <1>2, <1>3, Finishing DEF Stall
  <1> QED  BY <1>1, <1>2, <1>3 DEF EndResponse

\* The calls and responses that change no file.
LEMMA LoopIsWork ==
    ASSUME IInv,
           RunOut \/ Ask \/ (\E f \in Files : DeleteMissing(f)) \/ WriteNothing \/ Observe
             \/ CallFails \/ CallFinish \/ EndResponse \/ AcceptExisting
    PROVE  WorkAction
  <1>0. Calling => phase \in Works
    BY DEF Calling, Works
  <1>1. ASSUME NEW l, Call(l)
        PROVE  earlier' = earlier /\ phase' = phase /\ status' = status
    BY <1>1 DEF Call, outcome
  <1>2. CASE RunOut
    BY <1>2, Interrupting, AsideIsWork DEF RunOut, Works
  <1>3. CASE Ask
    <2>1. phase \in Works /\ Aside
      BY <1>3 DEF Ask, Works
    <2>2. /\ earlier' \in {earlier, scratch}
          /\ (phase' \in Works /\ status' = status) \/ phase' = "idle"
      BY <1>3, Interrupting, Blocking DEF Ask, Stay, Works
    <2> QED  BY <2>1, <2>2, AsideIsWork
  <1>4. CASE \E f \in Files : DeleteMissing(f)
    BY <1>0, <1>1, <1>4, AsideIsWork DEF DeleteMissing
  <1>5. CASE WriteNothing
    BY <1>0, <1>1, <1>5, AsideIsWork DEF WriteNothing
  <1>6. CASE Observe
    BY <1>0, <1>1, <1>6, AsideIsWork DEF Observe
  <1>7. CASE CallFails
    BY <1>0, <1>7, Blocking, AsideIsWork DEF CallFails
  <1>8. CASE CallFinish
    <2>1. phase \in Works /\ Aside
      BY <1>0, <1>8 DEF CallFinish
    <2>2. earlier' = earlier /\ phase' \in Works /\ status' = status
      BY <1>0, <1>1, <1>8 DEF CallFinish, Stay, Works
    <2> QED  BY <2>1, <2>2, AsideIsWork
  <1>9. CASE EndResponse
    BY <1>0, <1>9, EndsWell, AsideIsWork DEF EndResponse
  <1>10. CASE AcceptExisting
    BY <1>10, AsideIsWork DEF AcceptExisting, Gone, Works
  <1> QED  BY <1>2, <1>3, <1>4, <1>5, <1>6, <1>7, <1>8, <1>9, <1>10

\* Writing adds the newest number to a file of the copy.
LEMMA Numbered ==
    ASSUME NumbersInv, now < MaxChanges
    PROVE  /\ now + 1 \in 0..MaxChanges /\ now <= now + 1
           /\ \A c \in Stamp(now) : c \in Stamp(now + 1)
           /\ \A c \in Stamp(now), there \in BOOLEAN :
                 [there |-> there, has |-> c.has \cup {now + 1}] \in Stamp(now + 1)
           /\ \A there \in BOOLEAN :
                 [there |-> there, has |-> {} \cup {now + 1}] \in Stamp(now + 1)
  <1>1. now \in Nat /\ now + 1 \in 0..MaxChanges
    BY ToolUseAssumption, SMT DEF NumbersInv
  <1>2. Stamp(now) \subseteq Stamp(now + 1)
    BY <1>1, StampGrows, SMT
  <1>3. ASSUME NEW c \in Stamp(now), NEW there \in BOOLEAN
        PROVE  [there |-> there, has |-> c.has \cup {now + 1}] \in Stamp(now + 1)
    BY <1>1, SMT DEF Stamp
  <1>4. ASSUME NEW there \in BOOLEAN
        PROVE  [there |-> there, has |-> {} \cup {now + 1}] \in Stamp(now + 1)
    BY <1>1, SMT DEF Stamp
  <1> QED  BY <1>1, <1>2, <1>3, <1>4, SMT

LEMMA ChangeIsWork ==
    ASSUME IInv, NEW f \in Files, NEW there \in BOOLEAN, Calling, Change(f, there)
    PROVE  WorkAction
  <1>1. now < MaxChanges /\ now' = now + 1
    BY DEF Change
  <1>2. scratch' = [scratch EXCEPT ![f] = [there |-> there, has |-> scratch[f].has \cup {now + 1}]]
    BY DEF Change
  <1>3. /\ now' \in 0..MaxChanges /\ now <= now'
        /\ \A c \in Stamp(now) : c \in Stamp(now')
        /\ \A c \in Stamp(now) : [there |-> there, has |-> c.has \cup {now + 1}] \in Stamp(now')
    BY <1>1, Numbered DEF IInv
  <1>4. scratch' \in [Files -> Stamp(now')]
    BY <1>2, <1>3 DEF IInv, NumbersInv
  <1> QED  BY <1>3, <1>4 DEF WorkAction, Change, Calling, Call, outcome, disk, Works

LEMMA AutoApplyIsWork == ASSUME IInv, AutoApply PROVE WorkAction
  <1>1. CASE Block("other") /\ UNCHANGED <<scratch, ghosts>>
    <2>1. Aside /\ phase \in Works
      BY <1>1 DEF AutoApply, Aside, disk, ghosts, Works
    <2> QED  BY <1>1, <2>1, Blocking, AsideIsWork
  <1>2. ASSUME NEW written \in SUBSET Files,
               now < MaxChanges, now' = now + 1,
               scratch' = [f \in Files |->
                             IF f \in written
                               THEN [there |-> TRUE, has |-> scratch[f].has \cup {now + 1}]
                               ELSE scratch[f]],
               phase' = "verifying", UNCHANGED <<earlier, status, edits>>
        PROVE  WorkAction
    <2>1. /\ now' \in 0..MaxChanges /\ now <= now'
          /\ \A c \in Stamp(now) : c \in Stamp(now')
          /\ \A c \in Stamp(now) : [there |-> TRUE, has |-> c.has \cup {now + 1}] \in Stamp(now')
      BY <1>2, Numbered DEF IInv
    <2>2. scratch' \in [Files -> Stamp(now')]
      BY <1>2, <2>1 DEF IInv, NumbersInv
    <2> QED  BY <1>2, <2>1, <2>2 DEF WorkAction, AutoApply, disk, Works
  <1> QED  BY <1>1, <1>2 DEF AutoApply

LEMMA AttemptIsSafe ==
    ASSUME IInv,
           RunOut \/ Ask \/ WriteNothing \/ Observe \/ CallFails \/ CallFinish \/ EndResponse
             \/ AcceptExisting \/ AutoApply
             \/ (\E f \in Files : Write(f) \/ Delete(f) \/ DeleteMissing(f))
    PROVE  IInv'
  <1>1. ASSUME NEW f \in Files, Write(f) \/ Delete(f) PROVE WorkAction
    BY <1>1, ChangeIsWork DEF Write, Delete
  <1>2. CASE AutoApply
    BY <1>2, AutoApplyIsWork, WorkIsSafe
  <1>3. CASE \E f \in Files : Write(f) \/ Delete(f)
    BY <1>1, <1>3, WorkIsSafe
  <1> QED  BY <1>2, <1>3, LoopIsWork, WorkIsSafe

-----------------------------------------------------------------------------
\* Steps that bring no new numbers.
LEMMA NumbersKept ==
    ASSUME NumbersInv, UNCHANGED <<now, edits, scratch>>,
           earlier' \in {earlier, scratch}, before' \in {before, project},
           project' \in [Files -> Stamp(now)],
           backup' \in [Files -> Stamp(now) \cup {NoFile}]
    PROVE  NumbersInv'
  BY DEF NumbersInv

LEMMA NothingSavedType == NothingSaved \in [Files -> Stamp(now) \cup {NoFile}]
  BY DEF NothingSaved

LEMMA ChooseIsSafe == ASSUME IInv, Choose PROVE IInv'
  <1>1. NumbersInv'
    BY DEF Choose, IInv, NumbersInv, disk, ghosts
  <1>2. phase' = "chosen" /\ status' = "running" /\ ~spoiled' /\ backup' = backup
    BY DEF Choose, disk
  <1>3. phase = "idle"
    BY DEF Choose
  <1> QED  BY <1>1, <1>2, <1>3 DEF IInv, PhaseInv, SavedInv, PlacedInv, Works

LEMMA CopyIsSafe == ASSUME IInv, ChosenInv, Copy PROVE IInv'
  <1>1. scratch' \in [Files -> Stamp(now)]
    BY DEF Copy, ChosenInv, IInv, NumbersInv
  <1>2. NumbersInv'
    BY <1>1 DEF Copy, IInv, NumbersInv, disk, ghosts
  <1>3. phase = "chosen" /\ phase' = "copied" /\ UNCHANGED <<status, spoiled, backup>>
    BY DEF Copy, disk
  <1> QED  BY <1>2, <1>3 DEF IInv, PhaseInv, SavedInv, PlacedInv, Works, NothingSaved

LEMMA HashIsSafe == ASSUME IInv, Hash PROVE IInv'
  <1>1. NumbersInv'
    BY NumbersKept DEF Hash, IInv, NumbersInv, ghosts
  <1>2. PhaseInv'
    BY DEF Hash, IInv, PhaseInv, Works, NothingSaved
  <1>3. \A f \in Files : Clean(f)'
    BY <1>1, SMT DEF Hash, Clean, Since, Same
  <1> QED  BY <1>1, <1>2, <1>3 DEF Hash, IInv, SavedInv, PlacedInv, Works

\* Files of the same hash, as far as they go.
LEMMA SameTransitive ==
    ASSUME NEW a, NEW b, NEW c, a.there \in BOOLEAN, b.there \in BOOLEAN, c.there \in BOOLEAN,
           Same(a, b), Same(c, b)
    PROVE  Same(a, c)
  BY DEF Same

LEMMA VerifyIsSafe == ASSUME IInv, Verify PROVE IInv'
  <1>1. CASE phase' = "committing" /\ todo' = Touched /\ UNCHANGED <<earlier, status, why>>
    <2>1. NumbersInv'
      BY <1>1, NumbersKept DEF Verify, IInv, NumbersInv, ghosts
    <2>2. PhaseInv'
      BY <1>1 DEF Verify, IInv, PhaseInv, Works
    <2>3. \A f \in Files : Clean(f) /\ Clean(f)' /\ backup[f] = NoFile /\ backup'[f] = NoFile
      BY <1>1 DEF Verify, IInv, PhaseInv, SavedInv, Works, NothingSaved, Clean, Since, ghosts
    <2>4. SavedInv'
      BY <1>1, <2>3 DEF SavedInv, Works
    <2>5. ASSUME NEW f \in Files \ Touched, Since(f) \cap edits = {}
          PROVE  Same(project[f], scratch[f])
      <3>1. Same(scratch[f], before[f])
        BY <2>5 DEF Touched
      <3>2. Same(project[f], before[f])
        BY <2>3, <2>5 DEF Clean
      <3>3. project[f].there \in BOOLEAN /\ scratch[f].there \in BOOLEAN
            /\ before[f].there \in BOOLEAN
        BY DEF IInv, NumbersInv, Stamp
      <3> QED  BY <3>1, <3>2, <3>3, SameTransitive
    <2>6. PlacedInv'
      BY <1>1, <2>5 DEF Verify, PlacedInv, Since, ghosts
    <2> QED  BY <2>1, <2>2, <2>4, <2>6 DEF IInv
  <1>2. ASSUME UNCHANGED todo,
               \/ phase' = "calling" /\ UNCHANGED <<earlier, status>>
               \/ Block("verify")
        PROVE  IInv'
    <2>1. Aside /\ phase \in Works
      BY <1>2 DEF Verify, Aside, disk, Works
    <2>2. WorkAction
      BY <1>2, <2>1, Blocking, AsideIsWork DEF Works
    <2> QED  BY <2>2, WorkIsSafe
  <1> QED  BY <1>1, <1>2 DEF Verify, Stay

-----------------------------------------------------------------------------
\* What a step of the commit leaves alone.
LEMMA InCommitKeeps ==
    ASSUME InCommit, Goes \/ Leave
    PROVE  UNCHANGED <<now, edits, scratch, before>> /\ earlier' \in {earlier, scratch}
  BY DEF InCommit, Goes, Leave

LEMMA CommitIsSafe == ASSUME IInv, NEW f \in Files, Commit(f) PROVE IInv'
  <1>0. UNCHANGED <<now, edits, scratch, before, phase, why, spoiled>> /\ earlier' = earlier
        /\ status' = status /\ phase = "committing"
    BY InCommitKeeps DEF Commit, Goes, InCommit
  <1>1. project[f] \in Stamp(now) /\ scratch[f] \in Stamp(now)
    BY DEF IInv, NumbersInv
  <1>2. project[f] # NoFile
    BY <1>1, NoFileIsNone DEF IInv, NumbersInv
  <1>3. NumbersInv'
    BY <1>0, <1>1, NumbersKept DEF Commit, IInv, NumbersInv
  <1>4. PhaseInv'
    BY <1>0 DEF IInv, PhaseInv, Works
  <1>5. \A g \in Files : IF backup'[g] = NoFile THEN Clean(g)'
                         ELSE Same(backup'[g], before'[g])
    <2>1. ASSUME NEW g \in Files, g # f
          PROVE  backup'[g] = backup[g] /\ project'[g] = project[g]
      BY <2>1 DEF Commit, IInv, NumbersInv
    <2>2. backup'[f] = project[f] /\ Same(project[f], before[f])
      BY DEF Commit, IInv, NumbersInv
    <2>3. ~spoiled
      BY <1>0 DEF IInv, PhaseInv
    <2> QED  BY <1>0, <1>2, <2>1, <2>2, <2>3 DEF IInv, SavedInv, Clean, Since
  <1>6. ASSUME NEW g \in Files \ todo', Since(g)' \cap edits' = {}
        PROVE  Same(project'[g], scratch'[g])
    <2>1. CASE g = f
      BY <1>0, <2>1 DEF Commit, IInv, NumbersInv, Same
    <2>2. CASE g # f
      <3>1. project'[g] = project[g] /\ g \in Files \ todo
        BY <2>2 DEF Commit, IInv, NumbersInv
      <3> QED  BY <1>0, <1>6, <3>1 DEF IInv, PlacedInv, Since
    <2> QED  BY <2>1, <2>2
  <1> QED  BY <1>0, <1>3, <1>4, <1>5, <1>6 DEF IInv, SavedInv, PlacedInv, Works

LEMMA ConflictIsSafe == ASSUME IInv, NEW f \in Files, Conflict(f) PROVE IInv'
  <1>0. UNCHANGED <<now, edits, scratch, before, project, backup, spoiled>>
        /\ earlier' = earlier /\ status' = status /\ phase = "committing"
        /\ phase' = "restoring" /\ why' = "conflict"
    BY InCommitKeeps DEF Conflict, Goes, InCommit
  <1>1. NumbersInv'
    BY <1>0, NumbersKept DEF IInv, NumbersInv
  <1>2. PhaseInv' /\ PlacedInv'
    BY <1>0 DEF IInv, PhaseInv, PlacedInv, Works
  <1>3. SavedInv'
    BY <1>0 DEF IInv, SavedInv, Clean, Since, Works
  <1> QED  BY <1>1, <1>2, <1>3 DEF IInv

LEMMA CommitFailsIsSafe == ASSUME IInv, NEW f \in Files, CommitFails(f) PROVE IInv'
  <1>0. UNCHANGED <<now, edits, scratch, before, project>>
        /\ earlier' = earlier /\ status' = status /\ phase = "committing"
        /\ phase' = "restoring" /\ why' = "fault"
    BY InCommitKeeps DEF CommitFails, Goes, InCommit
  <1>1. project[f] \in Stamp(now) /\ [project[f] EXCEPT !.has = {}] \in Stamp(now)
    BY DEF IInv, NumbersInv, Stamp
  <1>2. project[f] # NoFile
    BY <1>1, NoFileIsNone DEF IInv, NumbersInv
  <1>3. backup' \in [Files -> Stamp(now) \cup {NoFile}]
    BY <1>1 DEF CommitFails, IInv, NumbersInv
  <1>4. NumbersInv'
    BY <1>0, <1>3, NumbersKept DEF IInv, NumbersInv
  <1>5. PhaseInv' /\ PlacedInv'
    BY <1>0 DEF IInv, PhaseInv, PlacedInv, Works
  <1>6. ASSUME ~spoiled', NEW g \in Files
        PROVE  IF backup'[g] = NoFile THEN Clean(g)' ELSE Same(backup'[g], before'[g])
    <2>1. ~spoiled
      BY <1>0 DEF IInv, PhaseInv
    <2>2. IF backup[g] = NoFile THEN Clean(g) ELSE Same(backup[g], before[g])
      BY <1>0, <2>1 DEF IInv, SavedInv
    <2>3. CASE backup'[g] = backup[g]
      BY <1>0, <2>2, <2>3 DEF Clean, Since
    <2>4. CASE backup'[g] # backup[g]
      <3>1. backup' = [backup EXCEPT ![f] = project[f]]
        BY <1>6, <2>4 DEF CommitFails
      <3>2. g = f /\ backup'[g] = project[f]
        BY <2>4, <3>1 DEF IInv, NumbersInv
      <3> QED  BY <1>0, <1>2, <3>2 DEF CommitFails
    <2> QED  BY <2>3, <2>4
  <1> QED  BY <1>0, <1>4, <1>5, <1>6 DEF IInv, SavedInv, Works

\* The steps that end an attempt with nothing saved any more: what it says of the
\* project matters only if it is blocked and nothing has failed on the way.
LEMMA EndingIsSafe ==
    ASSUME IInv, UNCHANGED <<now, edits, scratch, before, project>>,
           earlier' \in {earlier, scratch}, phase' = "idle", backup' = NothingSaved,
           status' = "BLOCKED" /\ ~spoiled' => \A f \in Files : Clean(f)
    PROVE  IInv'
  <1>1. NumbersInv'
    BY NumbersKept, NothingSavedType DEF IInv, NumbersInv
  <1>2. PhaseInv' /\ PlacedInv'
    BY DEF PhaseInv, PlacedInv, Works
  <1>3. SavedInv'
    BY DEF SavedInv, Works, Clean, Since
  <1> QED  BY <1>1, <1>2, <1>3 DEF IInv

LEMMA LockBusyIsSafe == ASSUME IInv, LockBusy PROVE IInv'
  <1>1. backup' = NothingSaved
    BY DEF LockBusy, disk, IInv, PhaseInv
  <1> QED  BY <1>1, EndingIsSafe DEF LockBusy, Gone, disk, ghosts

LEMMA CommittedIsSafe == ASSUME IInv, Committed PROVE IInv'
  BY EndingIsSafe DEF Committed, Gone, InCommit

LEMMA UnreportedIsSafe == ASSUME IInv, Unreported PROVE IInv'
  BY EndingIsSafe, InCommitKeeps DEF Unreported, FailAs, Gone, InCommit

LEMMA NothingLeftIsSafe == ASSUME IInv, NothingLeft PROVE IInv'
  <1>1. \A f \in Files : Clean(f)
    BY SameIsClean DEF NothingLeft, Remains, IInv
  <1> QED  BY <1>1, EndingIsSafe, InCommitKeeps DEF NothingLeft, FailAs, Gone, InCommit

LEMMA RestoreFailsIsSafe == ASSUME IInv, RestoreFails PROVE IInv'
  <1>1. UNCHANGED <<now, edits, scratch, before>> /\ earlier' \in {earlier, scratch}
    BY InCommitKeeps DEF RestoreFails, FailAs
  <1>2. CASE UNCHANGED project
    BY <1>1, <1>2, EndingIsSafe DEF RestoreFails, FailAs, Gone
  <1> QED  BY <1>2 DEF RestoreFails

LEMMA RestoredIsSafe == ASSUME IInv, Restored PROVE IInv'
  <1>1. ~spoiled => \A f \in Files : Clean(f)
    BY DEF Restored, Saved, IInv, SavedInv
  <1> QED  BY <1>1, EndingIsSafe, InCommitKeeps DEF Restored, FailAs, Gone, InCommit

LEMMA RestoreIsSafe == ASSUME IInv, NEW f \in Files, Restore(f) PROVE IInv'
  <1>0. UNCHANGED <<now, edits, scratch, before, phase, why, spoiled>> /\ earlier' = earlier
        /\ status' = status /\ phase = "restoring"
    BY InCommitKeeps DEF Restore, Goes, InCommit
  <1>1. backup[f] # NoFile /\ backup[f] \in Stamp(now) /\ project[f] \in Stamp(now)
    BY DEF Restore, Saved, IInv, NumbersInv
  <1>2. Undone(f) \in Stamp(now) /\ project' = [project EXCEPT ![f] = Undone(f)]
    BY <1>1 DEF Restore, Undone
  <1>3. NumbersInv'
    BY <1>0, <1>2, NumbersKept DEF Restore, IInv, NumbersInv
  <1>4. PhaseInv' /\ PlacedInv'
    BY <1>0 DEF IInv, PhaseInv, PlacedInv, Works
  <1>5. ASSUME ~spoiled', NEW g \in Files
        PROVE  IF backup'[g] = NoFile THEN Clean(g)' ELSE Same(backup'[g], before'[g])
    <2>1. CASE g = f
      <3>1. Same(backup[f], before[f])
        BY <1>0, <1>1, <1>5 DEF IInv, SavedInv
      <3>2. Same(Undone(f), before[f])
        BY <3>1, <1>1 DEF Undone, Same
      <3>3. project'[f] = Undone(f) /\ backup'[f] = NoFile
        BY <1>2 DEF Restore, IInv, NumbersInv
      <3>4. Same(project'[f], before'[f])
        BY <1>0, <3>2, <3>3
      <3>5. (NumbersInv /\ Same(project[f], before[f]) => Clean(f))'
        BY <1>3, SMT DEF Same, Clean, Since, NumbersInv, Stamp
      <3> QED  BY <1>3, <2>1, <3>3, <3>4, <3>5
    <2>2. CASE g # f
      <3>1. project'[g] = project[g] /\ backup'[g] = backup[g]
        BY <1>2, <2>2 DEF Restore, IInv, NumbersInv
      <3> QED  BY <1>0, <1>5, <3>1 DEF IInv, SavedInv, Clean, Since
    <2> QED  BY <2>1, <2>2
  <1> QED  BY <1>0, <1>3, <1>4, <1>5 DEF IInv, SavedInv, Works

LEMMA KilledIsSafe == ASSUME IInv, Killed PROVE IInv'
  BY EndingIsSafe DEF Killed, Gone, Leave, ghosts

-----------------------------------------------------------------------------
\* A file the user edits has the newest number among those since the hash.
LEMMA EditedIsClean ==
    ASSUME IInv, NEW f \in Files, UserEdits(f), NumbersInv'
    PROVE  /\ Since(f)' \cap edits' # {}
           /\ Clean(f) => Clean(f)'
           /\ \A g \in Files \ {f} : /\ project'[g] = project[g]
                                     /\ Since(g)' \cap edits' = Since(g) \cap edits
                                     /\ Clean(g) => Clean(g)'
  <1>0. now \in Nat /\ edits \subseteq 1..now /\ edits' = edits \cup {now + 1}
        /\ before' = before
    BY ToolUseAssumption, SMT DEF UserEdits, IInv, NumbersInv
  <1> DEFINE kept == IF project[f].there THEN project[f].has ELSE {}
  <1>1. PICK there \in BOOLEAN :
          project' = [project EXCEPT ![f] = [there |-> there, has |-> kept \cup {now + 1}]]
    BY DEF UserEdits, IInv, NumbersInv, Stamp
  <1>2. project'[f].has = kept \cup {now + 1}
    BY <1>1 DEF IInv, NumbersInv
  <1>3. before[f].has \subseteq 1..now /\ project[f].has \subseteq 1..now
    BY DEF IInv, NumbersInv, Stamp
  <1>4. now + 1 \notin 1..now
    BY <1>0, SMT
  <1>5. now + 1 \in Since(f)' /\ now + 1 \in edits'
    BY <1>0, <1>2, <1>3, <1>4 DEF Since
  <1>6. ASSUME Clean(f) PROVE Clean(f)'
    <2>1. CASE project[f].there
      <3>1. Since(f) \subseteq edits
        BY <1>6, <2>1 DEF Clean, Same, Since
      <3>2. Since(f)' \subseteq Since(f) \cup {now + 1}
        BY <1>0, <1>2, <2>1 DEF Since
      <3> QED  BY <1>0, <1>5, <3>1, <3>2 DEF Clean
    <2>2. CASE ~project[f].there
      <3>1. Since(f)' \subseteq {now + 1}
        BY <1>0, <1>2, <2>2 DEF Since
      <3> QED  BY <1>0, <1>5, <3>1 DEF Clean
    <2> QED  BY <2>1, <2>2
  <1>7. ASSUME NEW g \in Files \ {f}
        PROVE  /\ project'[g] = project[g]
               /\ Since(g)' \cap edits' = Since(g) \cap edits
               /\ Clean(g) => Clean(g)'
    <2>1. project'[g] = project[g]
      BY <1>1, <1>7 DEF IInv, NumbersInv
    <2>2. project[g].has \subseteq 1..now
      BY <1>7 DEF IInv, NumbersInv, Stamp
    <2>3. Since(g)' = Since(g) /\ now + 1 \notin Since(g)
      BY <1>0, <1>4, <2>1, <2>2 DEF Since
    <2>4. Since(g)' \cap edits' = Since(g) \cap edits
      BY <1>0, <2>3
    <2> QED  BY <1>0, <2>1, <2>3, <2>4 DEF Clean
  <1> QED  BY <1>5, <1>6, <1>7

LEMMA UserEditsIsSafe == ASSUME IInv, NEW f \in Files, UserEdits(f) PROVE IInv'
  <1>0. /\ now < MaxChanges /\ now' = now + 1 /\ edits' = edits \cup {now + 1}
        /\ UNCHANGED <<before, backup, todo, scratch, earlier, phase, status, why, spoiled>>
    BY DEF UserEdits, outcome
  <1>1. NumbersInv'
    <2>1. PICK there \in BOOLEAN :
            project' = [project EXCEPT ![f] =
                          [there |-> there,
                           has |-> (IF project[f].there THEN project[f].has ELSE {})
                                     \cup {now + 1}]]
      BY DEF UserEdits, IInv, NumbersInv, Stamp
    <2>2. /\ now' \in 0..MaxChanges /\ now \in Nat
          /\ \A c \in Stamp(now) : c \in Stamp(now')
          /\ \A c \in Stamp(now) : [there |-> there, has |-> c.has \cup {now + 1}] \in Stamp(now')
          /\ [there |-> there, has |-> {} \cup {now + 1}] \in Stamp(now')
      BY <1>0, Numbered, ToolUseAssumption, SMT DEF IInv, NumbersInv
    <2>3. [there |-> there, has |-> (IF project[f].there THEN project[f].has ELSE {})
                                      \cup {now + 1}] \in Stamp(now')
      BY <2>2 DEF IInv, NumbersInv
    <2>4. project' \in [Files -> Stamp(now')]
      BY <2>1, <2>2, <2>3 DEF IInv, NumbersInv
    <2>5. edits' \subseteq 1..now'
      BY <1>0, <2>2, SMT DEF IInv, NumbersInv
    <2>6. /\ scratch' \in [Files -> Stamp(now')] /\ before' \in [Files -> Stamp(now')]
          /\ backup' \in [Files -> Stamp(now') \cup {NoFile}]
          /\ earlier' \in [Files -> Stamp(now')] \cup {NoBase}
      BY <1>0, <2>2 DEF IInv, NumbersInv
    <2> QED  BY <2>2, <2>4, <2>5, <2>6 DEF NumbersInv
  <1>2. PhaseInv'
    BY <1>0 DEF IInv, PhaseInv, Works, NothingSaved
  <1>3. \A g \in Files : Clean(g) => Clean(g)'
    BY <1>1, EditedIsClean
  <1>4. SavedInv'
    BY <1>0, <1>3 DEF IInv, SavedInv
  <1>5. PlacedInv'
    BY <1>0, <1>1, EditedIsClean DEF IInv, PlacedInv
  <1> QED  BY <1>1, <1>2, <1>4, <1>5 DEF IInv

-----------------------------------------------------------------------------
LEMMA InitIsSafe == Init => IInv
  <1> SUFFICES ASSUME Init PROVE IInv
    OBVIOUS
  <1>1. NumbersInv
    BY ToolUseAssumption, SMT DEF Init, NumbersInv, Stamp
  <1> QED  BY <1>1 DEF Init, IInv, PhaseInv, SavedInv, PlacedInv, Works, NothingSaved

LEMMA StepIsSafe == IInv /\ ChosenInv /\ [Next]_vars => IInv'
  <1> SUFFICES ASSUME IInv, ChosenInv, [Next]_vars PROVE IInv'
    OBVIOUS
  <1>1. CASE Choose \/ Copy \/ LockBusy
    BY <1>1, ChooseIsSafe, CopyIsSafe, LockBusyIsSafe
  <1>2. CASE Hash BY <1>2, HashIsSafe
  <1>3. CASE \/ RunOut \/ Ask \/ WriteNothing \/ Observe \/ CallFails \/ CallFinish
             \/ EndResponse \/ AcceptExisting \/ AutoApply
             \/ (\E f \in Files : Write(f) \/ Delete(f) \/ DeleteMissing(f))
    BY <1>3, AttemptIsSafe
  <1>4. CASE Verify BY <1>4, VerifyIsSafe
  <1>5. ASSUME NEW f \in Files, Commit(f) \/ Conflict(f) \/ CommitFails(f) \/ Restore(f)
        PROVE  IInv'
    BY <1>5, CommitIsSafe, ConflictIsSafe, CommitFailsIsSafe, RestoreIsSafe
  <1>6. CASE Committed \/ NothingLeft \/ Unreported \/ Restored \/ RestoreFails
    BY <1>6, CommittedIsSafe, NothingLeftIsSafe, UnreportedIsSafe, RestoredIsSafe,
       RestoreFailsIsSafe
  <1>7. ASSUME NEW f \in Files, UserEdits(f) PROVE IInv'
    BY <1>7, UserEditsIsSafe
  <1>8. CASE Killed BY <1>8, KilledIsSafe
  <1>9. CASE UNCHANGED vars
    BY <1>9 DEF vars, disk, work, outcome, ghosts, IInv, NumbersInv, PhaseInv, SavedInv,
                PlacedInv, Clean, Since, Saved, NothingSaved
  <1> QED  BY <1>1, <1>2, <1>3, <1>4, <1>5, <1>6, <1>7, <1>8, <1>9 DEF Next

\* While an attempt waits for the lock it is only edited beside, killed, sent away
\* or let in.
LEMMA WhileItWaits ==
    ASSUME Next, phase = "chosen"
    PROVE  Copy \/ LockBusy \/ Killed \/ \E f \in Files : UserEdits(f)
  <1>1. ~(Choose \/ Hash \/ AcceptExisting \/ AutoApply \/ RunOut \/ Ask \/ Verify)
    BY DEF Choose, Hash, AcceptExisting, AutoApply, RunOut, Ask, Verify
  <1>2. ASSUME NEW f \in Files PROVE ~(Write(f) \/ Delete(f) \/ DeleteMissing(f))
    BY DEF Write, Delete, DeleteMissing, Calling
  <1>3. ~(WriteNothing \/ Observe \/ CallFails \/ CallFinish \/ EndResponse)
    BY DEF WriteNothing, Observe, CallFails, CallFinish, EndResponse, Calling
  <1>4. ASSUME NEW f \in Files
        PROVE  ~(Commit(f) \/ Conflict(f) \/ CommitFails(f) \/ Restore(f))
    BY DEF Commit, Conflict, CommitFails, Restore
  <1>5. ~(Committed \/ NothingLeft \/ Unreported \/ Restored \/ RestoreFails)
    BY DEF Committed, NothingLeft, Unreported, Placed, Restored, RestoreFails
  <1> QED  BY <1>1, <1>2, <1>3, <1>4, <1>5 DEF Next

\* The scratch copy to start from is chosen by nothing else.
LEMMA OnlyChosen == ASSUME [Next]_vars, ~Choose PROVE base' \in {base, NoBase}
  <1>1. CASE Copy \/ LockBusy \/ Hash \/ AcceptExisting \/ AutoApply \/ RunOut \/ Ask \/ Verify
    BY <1>1 DEF Copy, LockBusy, Hash, AcceptExisting, AutoApply, RunOut, Ask, Verify, Aside,
                request
  <1>2. ASSUME NEW f \in Files, Write(f) \/ Delete(f) \/ DeleteMissing(f) PROVE base' = base
    BY <1>2 DEF Write, Delete, DeleteMissing, Change, Aside, request
  <1>3. CASE WriteNothing \/ Observe \/ CallFails \/ CallFinish \/ EndResponse
    BY <1>3 DEF WriteNothing, Observe, CallFails, CallFinish, EndResponse, Aside, request
  <1>4. ASSUME NEW f \in Files, Commit(f) \/ Conflict(f) \/ CommitFails(f) \/ Restore(f)
        PROVE  base' = base
    BY <1>4 DEF Commit, Conflict, CommitFails, Restore, InCommit, request
  <1>5. CASE Committed \/ NothingLeft \/ Unreported \/ Restored \/ RestoreFails
    BY <1>5 DEF Committed, NothingLeft, Unreported, Restored, RestoreFails, InCommit, request
  <1>6. CASE Killed \/ (\E f \in Files : UserEdits(f)) \/ UNCHANGED vars
    BY <1>6 DEF Killed, UserEdits, vars, request
  <1> QED  BY <1>1, <1>2, <1>3, <1>4, <1>5, <1>6 DEF Next

LEMMA ChosenStep == IInv /\ ChosenInv /\ [Next]_vars => ChosenInv'
  <1> SUFFICES ASSUME IInv, ChosenInv, [Next]_vars PROVE ChosenInv'
    OBVIOUS
  <1>1. CASE Choose
    <2>1. PICK recovery \in BOOLEAN : base' = Base(recovery)
      BY <1>1 DEF Choose
    <2>2. base' \in {LastScratch, NoBase} /\ UNCHANGED <<now, earlier>> /\ phase' = "chosen"
      BY <1>1, <2>1 DEF Base, Choose, ghosts
    <2>3. LastScratch \in [Files -> Stamp(now)] \cup {NoBase}
      BY DEF IInv, NumbersInv, LastScratch
    <2>4. earlier # NoBase => LastScratch = earlier
      BY DEF LastScratch
    <2> QED  BY <2>2, <2>3, <2>4 DEF ChosenInv
  <1>2. CASE ~Choose /\ base' = NoBase
    BY <1>2 DEF ChosenInv
  <1>3. CASE ~Choose /\ base' = base /\ base # NoBase /\ Next
    <2>1. PICK f \in Files : UserEdits(f)
      BY <1>3, WhileItWaits DEF ChosenInv, Copy, LockBusy, Killed
    <2>2. now < MaxChanges /\ now' = now + 1 /\ UNCHANGED <<earlier, phase>>
      BY <2>1 DEF UserEdits, outcome
    <2>3. \A c \in Stamp(now) : c \in Stamp(now')
      BY <2>2, Numbered DEF IInv
    <2> QED  BY <1>3, <2>2, <2>3 DEF ChosenInv
  <1>4. CASE UNCHANGED vars
    BY <1>4 DEF ChosenInv, vars, outcome, request, ghosts
  <1> QED  BY <1>1, <1>2, <1>3, <1>4, OnlyChosen

\* The inductive invariant holds in every attempt: the numbers, the phases, what
\* can be put back, what is in its place, and what a recovery will start from.
THEOREM AttemptsHold == Spec => [](IInv /\ ChosenInv)
  <1>1. Init => ChosenInv
    BY DEF Init, ChosenInv
  <1> QED  BY <1>1, InitIsSafe, StepIsSafe, ChosenStep, PTL DEF Spec

\* A blocked attempt leaves none of its writes in the project: what it committed
\* before a conflict or a failure goes back.
THEOREM BlockedIsUndone == Spec => []BlockedLeavesProject
  <1>1. IInv => BlockedLeavesProject
    BY DEF IInv, PhaseInv, SavedInv, BlockedLeavesProject, Clean, Since
  <1> QED  BY <1>1, AttemptsHold, PTL

\* An attempt that passes leaves what was verified, but for what the user edits.
THEOREM PassedIsWhole == Spec => PassIsWhole
  <1>1. IInv /\ [Next]_vars =>
          [phase = "committing" /\ status' = "PASS" =>
             \A f \in Files : (project'[f].has \cap edits) \ before[f].has = {} =>
                                 Same(project'[f], scratch[f])]_vars
    <2> SUFFICES ASSUME IInv, Next, phase = "committing", status' = "PASS", NEW f \in Files,
                        (project'[f].has \cap edits) \ before[f].has = {}
                 PROVE  Same(project'[f], scratch[f])
      OBVIOUS
    <2>1. status = "running"
      BY DEF IInv, PhaseInv
    <2>2. ASSUME NEW kind, Block(kind) PROVE FALSE
      BY <2>2 DEF Block
    <2>3. Committed
      <3>1. ASSUME NEW g \in Files PROVE ~(Commit(g) \/ Conflict(g) \/ CommitFails(g) \/ Restore(g))
        BY <2>1 DEF Commit, Conflict, CommitFails, Restore, Goes
      <3>2. ASSUME NEW g \in Files PROVE ~UserEdits(g)
        BY <2>1 DEF UserEdits, outcome
      <3>3. ~(NothingLeft \/ Unreported \/ Restored \/ RestoreFails \/ Killed)
        BY DEF NothingLeft, Unreported, Restored, RestoreFails, FailAs, Killed
      <3>4. ~(\/ Choose \/ Copy \/ LockBusy \/ Hash \/ AcceptExisting \/ AutoApply \/ RunOut
              \/ Ask \/ Verify)
        BY DEF Choose, Copy, LockBusy, Hash, AcceptExisting, AutoApply, RunOut, Ask, Verify
      <3>5. ~Calling
        BY DEF Calling
      <3>6. ASSUME NEW g \in Files PROVE ~(Write(g) \/ Delete(g) \/ DeleteMissing(g))
        BY <3>5 DEF Write, Delete, DeleteMissing
      <3>7. ~(WriteNothing \/ Observe \/ CallFails \/ CallFinish \/ EndResponse)
        BY <3>5 DEF WriteNothing, Observe, CallFails, CallFinish, EndResponse
      <3> QED  BY <3>1, <3>2, <3>3, <3>4, <3>6, <3>7 DEF Next
    <2>4. todo = {} /\ project' = project
      BY <2>3 DEF Committed, Placed
    <2> QED  BY <2>4 DEF IInv, PlacedInv, Since
  <1> QED  BY <1>1, AttemptsHold, PTL DEF Spec, PassIsWhole

-----------------------------------------------------------------------------
\* What an attempt has to keep of a file: what is owed, and all that is not the
\* user's.
Keeps(f) == owed[f] \cup ((1..now) \ edits)

\* Content a has something newer than all of b, so that no recovery starts from
\* b, or b holds what has to be kept of a.
Newer(a, b) == \E c \in a.has : \A d \in b.has : d < c
Ahead(kept, a, b) == Newer(a, b) \/ kept \cap a.has \subseteq b.has

\* Both are ahead of the scratch copy that a recovery may start from.
BaseInv(f) ==
    /\ project[f].there => Ahead(Keeps(f), project[f], scratch[f])
    /\ earlier # NoBase /\ project[f].there => Ahead(Keeps(f), project[f], earlier[f])
    /\ earlier # NoBase /\ scratch[f].there => Ahead(Keeps(f), scratch[f], earlier[f])

\* The scratch copy holds what has to be kept of the file it will replace; a
\* file that was missing when it was hashed has only what was written since.
CopyInv(f) ==
    /\ phase = "copied" /\ project[f].there =>
          Keeps(f) \cap project[f].has \subseteq scratch[f].has
    /\ phase \in Works \cup {"committing"} /\ before[f].there =>
          Keeps(f) \cap before[f].has \subseteq scratch[f].has
    /\ phase \in Works /\ project[f].there /\ ~before[f].there =>
          project[f].has \cap before[f].has = {}

\* A backup that goes back brings back what is owed.
BackupInv(f) ==
    backup[f] # NoFile =>
        /\ owed[f] \subseteq backup[f].has
        /\ backup[f].there => Ahead(Keeps(f), backup[f], scratch[f])
        /\ earlier # NoBase /\ backup[f].there => Ahead(Keeps(f), backup[f], earlier[f])

OwedInv(f) == owed[f] \subseteq project[f].has /\ BaseInv(f) /\ CopyInv(f) /\ BackupInv(f)

OwedTogether ==
    /\ owed \in [Files -> SUBSET (1..now)]
    /\ \A f \in Files : OwedInv(f)

\* A scratch copy that was chosen holds what has to be kept of the project, whatever
\* is written to the project before it is copied.
BaseKeeps ==
    base # NoBase =>
        \A f \in Files : project[f].there => Keeps(f) \cap project[f].has \subseteq base[f].has

-----------------------------------------------------------------------------
\* A set of naturals has a least element, a bounded one a greatest: the library
\* knows it of the order as a set of pairs.
LEMMA HasMinimum ==
    ASSUME NEW T, T \subseteq Nat, T # {}
    PROVE  \E x \in T : \A y \in T : x <= y
  <1>1. OpToRel(<, Nat) = {p \in Nat \X Nat : p[1] < p[2]}
    BY Zenon DEF OpToRel
  <1>2. PICK R : R = {p \in Nat \X Nat : p[1] < p[2]} /\ IsWellFoundedOn(R, Nat)
    BY <1>1, NatLessThanWellFounded, Zenon
  <1>3. PICK x \in T : \A y \in T : <<y, x>> \notin R
    BY <1>2, WFMin, Zenon
  <1>4. ASSUME NEW y \in T, y < x PROVE FALSE
    <2>1. <<y, x>> \in Nat \X Nat /\ <<y, x>>[1] = y /\ <<y, x>>[2] = x
      OBVIOUS
    <2>2. <<y, x>> \in R
      BY <1>2, <1>4, <2>1, Zenon
    <2> QED  BY <1>3, <2>2, Zenon
  <1> QED  BY <1>4, SMT

LEMMA HasMaximum ==
    ASSUME NEW n \in Nat, NEW S, S \subseteq 0..n, S # {}
    PROVE  \E x \in S : \A y \in S : x >= y
  <1> DEFINE T == {n - x : x \in S}
  <1>1. \A x \in S : n - x \in Nat
    BY SMT
  <1>2. T \subseteq Nat /\ T # {}
    BY <1>1, Zenon
  <1> HIDE DEF T
  <1>3. PICK t \in T : \A u \in T : t <= u
    BY <1>2, HasMinimum
  <1> USE DEF T
  <1>4. PICK x \in S : t = n - x
    BY Zenon
  <1>5. \A y \in S : n - y \in T
    BY Zenon
  <1> HIDE DEF T
  <1>6. \A y \in S : n - x <= n - y
    BY <1>3, <1>4, <1>5, Zenon
  <1> QED  BY <1>6, SMT

LEMMA MaxIsGreatest ==
    ASSUME NEW n \in Nat, NEW S, S \subseteq 0..n, S # {}
    PROVE  Max(S) \in S /\ \A y \in S : Max(S) >= y
  BY HasMaximum DEF Max

\* The newest change decides which of two files is the newer.
LEMMA NewerIsModified ==
    ASSUME NEW n \in Nat, NEW a \in Stamp(n), NEW b \in Stamp(n), Newer(a, b)
    PROVE  ModifiedAt(a) > ModifiedAt(b)
  <1> DEFINE A == a.has \cup {0}
             B == b.has \cup {0}
  <1>1. A \subseteq 0..n /\ B \subseteq 0..n /\ a.has \subseteq 1..n
    BY SMT DEF Stamp
  <1>2. PICK c \in a.has : \A d \in b.has : d < c
    BY DEF Newer
  <1>3. \A d \in B : d < c
    BY <1>1, <1>2, SMT
  <1>4. Max(A) >= c /\ Max(B) < c
    <2>1. c \in A /\ A # {} /\ B # {}
      BY <1>2
    <2> HIDE DEF A, B
    <2> QED  BY <1>1, <1>3, <2>1, MaxIsGreatest
  <1>5. Max(A) \in Nat /\ Max(B) \in Nat /\ c \in Nat
    <2>1. A # {} /\ B # {}
      OBVIOUS
    <2>2. c \in Nat
      BY <1>1, <1>2, SMT
    <2>3. 0..n \subseteq Nat
      BY SMT
    <2> HIDE DEF A, B
    <2> QED  BY <1>1, <2>1, <2>2, <2>3, MaxIsGreatest
  <1>6. ModifiedAt(a) = Max(A) /\ ModifiedAt(b) = Max(B)
    BY DEF ModifiedAt
  <1> HIDE DEF A, B
  <1> QED  BY <1>4, <1>5, <1>6, SMT

\* Content that is ahead of itself, and stays ahead while nothing more of it has
\* to be kept.
LEMMA AheadOfItself == ASSUME NEW k, NEW a PROVE Ahead(k, a, a)
  BY DEF Ahead

LEMMA AheadStays ==
    ASSUME NEW k, NEW l, NEW a, NEW b, Ahead(k, a, b), l \cap a.has \subseteq k
    PROVE  Ahead(l, a, b)
  BY DEF Ahead

\* A file with the newest number is ahead of all others.
LEMMA NewestIsAhead ==
    ASSUME NEW n \in Nat, NEW k, NEW a, NEW b \in Stamp(n), n + 1 \in a.has
    PROVE  Ahead(k, a, b)
  <1>1. \A d \in b.has : d < n + 1
    BY SMT DEF Stamp
  <1> QED  BY <1>1 DEF Ahead, Newer

-----------------------------------------------------------------------------
\* Nothing more of what a file had so far has to be kept.
NoMore(f) == (Keeps(f))' \cap (1..now) \subseteq Keeps(f)

LEMMA NothingMore ==
    ASSUME NumbersInv, NEW f \in Files, now' \in {now, now + 1}, edits \subseteq edits',
           owed'[f] \cap (1..now) \subseteq Keeps(f)
    PROVE  NoMore(f)
  <1>1. now \in Nat
    BY ToolUseAssumption, SMT DEF NumbersInv
  <1>2. (1..now') \cap (1..now) \subseteq 1..now
    OBVIOUS
  <1> QED  BY <1>2 DEF NoMore, Keeps

\* What a file had so far is numbered so far.
LEMMA HadSoFar ==
    ASSUME NumbersInv, NEW f \in Files
    PROVE  /\ project[f] \in Stamp(now) /\ project[f].has \subseteq 1..now
           /\ scratch[f] \in Stamp(now) /\ scratch[f].has \subseteq 1..now
           /\ before[f] \in Stamp(now) /\ before[f].has \subseteq 1..now
           /\ backup[f] # NoFile =>
                 backup[f] \in Stamp(now) /\ backup[f].has \subseteq 1..now
           /\ earlier # NoBase =>
                 earlier[f] \in Stamp(now) /\ earlier[f].has \subseteq 1..now
  BY DEF NumbersInv, Stamp

\* Copies that stay as they are stay ahead of each other.
LEMMA StaysAhead ==
    ASSUME NEW f \in Files, NoMore(f), NEW a, NEW b, a.has \subseteq 1..now,
           Ahead(Keeps(f), a, b)
    PROVE  Ahead((Keeps(f))', a, b)
  <1>1. (Keeps(f))' \cap a.has \subseteq Keeps(f)
    BY DEF NoMore
  <1> HIDE DEF Keeps
  <1> QED  BY <1>1, AheadStays

\* A file that a step leaves alone, or whose backup it drops, and the attempt
\* that goes on or ends.
Quiet(f) ==
    /\ UNCHANGED <<project[f], scratch[f], before[f]>>
    /\ backup'[f] = NoFile \/ (backup'[f] = backup[f] /\ earlier' = earlier)
    /\ earlier' \in {earlier, scratch}
    /\ owed'[f] \subseteq project[f].has \cap Keeps(f)
    /\ backup'[f] # NoFile => owed'[f] \subseteq owed[f]
    /\ phase' = "copied" => phase = "copied"
    /\ phase' \in Works => phase \in Works
    /\ phase' = "committing" => phase \in Works \cup {"committing"}

LEMMA QuietIsKept ==
    ASSUME NumbersInv, NEW f \in Files, OwedInv(f), NoMore(f), Quiet(f)
    PROVE  OwedInv(f)'
  <1>1. owed'[f] \subseteq project'[f].has
    BY DEF Quiet
  <1> DEFINE kept == (Keeps(f))'
  <1>2. kept \cap (1..now) \subseteq Keeps(f)
    BY DEF NoMore
  <1>3. \A a, b : a.has \subseteq 1..now /\ Ahead(Keeps(f), a, b) => Ahead(kept, a, b)
    BY StaysAhead
  <1> HIDE DEF kept
  <1>4. BaseInv(f)'
    <2>1. project[f].there => Ahead(kept, project[f], scratch[f])
      BY <1>3, HadSoFar DEF OwedInv, BaseInv
    <2>2. CASE earlier' = earlier
      <3>1. earlier # NoBase => /\ project[f].there => Ahead(kept, project[f], earlier[f])
                                /\ scratch[f].there => Ahead(kept, scratch[f], earlier[f])
        BY <1>3, HadSoFar DEF OwedInv, BaseInv
      <3> QED  BY <2>1, <2>2, <3>1 DEF BaseInv, Quiet, kept
    <2>3. CASE earlier' = scratch
      BY <2>1, <2>3, AheadOfItself DEF BaseInv, Quiet, kept
    <2> QED  BY <2>2, <2>3 DEF Quiet
  <1>5. CopyInv(f)'
    <2>1. phase' = "copied" /\ project[f].there => kept \cap project[f].has \subseteq scratch[f].has
      BY <1>2, HadSoFar DEF OwedInv, CopyInv, Quiet
    <2>2. phase' \in Works \cup {"committing"} /\ before[f].there =>
             kept \cap before[f].has \subseteq scratch[f].has
      BY <1>2, HadSoFar DEF OwedInv, CopyInv, Quiet
    <2>3. phase' \in Works /\ project[f].there /\ ~before[f].there =>
             project[f].has \cap before[f].has = {}
      BY DEF OwedInv, CopyInv, Quiet
    <2> QED  BY <2>1, <2>2, <2>3 DEF CopyInv, Quiet, kept
  <1>6. BackupInv(f)'
    <2>1. CASE backup'[f] # NoFile
      <3>1. backup'[f] = backup[f] /\ earlier' = earlier /\ owed'[f] \subseteq owed[f]
        BY <2>1 DEF Quiet
      <3>2. /\ owed[f] \subseteq backup[f].has
            /\ backup[f].there => Ahead(kept, backup[f], scratch[f])
            /\ earlier # NoBase /\ backup[f].there => Ahead(kept, backup[f], earlier[f])
        BY <1>3, <2>1, <3>1, HadSoFar DEF OwedInv, BackupInv
      <3> QED  BY <3>1, <3>2 DEF BackupInv, Quiet, kept
    <2>2. CASE backup'[f] = NoFile
      BY <2>2 DEF BackupInv
    <2> QED  BY <2>1, <2>2
  <1> QED  BY <1>1, <1>4, <1>5, <1>6 DEF OwedInv

\* All files are left alone.
AllQuiet == /\ UNCHANGED <<now, edits>>
            /\ owed' \in [Files -> SUBSET (1..now)]
            /\ \A f \in Files : Quiet(f)

LEMMA AllQuietIsKept == ASSUME NumbersInv, OwedTogether, AllQuiet PROVE OwedTogether'
  <1>1. ASSUME NEW f \in Files PROVE OwedInv(f)'
    <2>1. NoMore(f)
      BY NothingMore DEF AllQuiet, Quiet
    <2> QED  BY <2>1, QuietIsKept DEF OwedTogether, AllQuiet
  <1> QED  BY <1>1 DEF OwedTogether, AllQuiet

\* The steps of an attempt that change no file, and those that end it.
LEMMA AsideIsQuiet ==
    ASSUME IInv, OwedTogether, UNCHANGED <<project, scratch, before, ghosts>>,
           backup' = NothingSaved \/ (backup' = backup /\ earlier' = earlier),
           earlier' \in {earlier, scratch},
           \/ phase' \in {"idle", "chosen", "restoring"}
           \/ phase \in Works /\ phase' \in Works \cup {"committing"}
    PROVE  AllQuiet
  <1>1. \A f \in Files : backup'[f] = NoFile \/ (backup'[f] = backup[f] /\ earlier' = earlier)
    BY DEF NothingSaved
  <1>2. \A f \in Files : owed[f] \subseteq project[f].has \cap Keeps(f)
    BY DEF OwedTogether, OwedInv, Keeps
  <1> QED  BY <1>1, <1>2 DEF AllQuiet, Quiet, OwedTogether, ghosts, Works

LEMMA LoopKeepsOwed ==
    ASSUME IInv, OwedTogether,
           RunOut \/ Ask \/ (\E f \in Files : DeleteMissing(f)) \/ WriteNothing \/ Observe
             \/ CallFails \/ CallFinish \/ EndResponse \/ AcceptExisting
    PROVE  OwedTogether'
  <1>1. WorkAction
    BY LoopIsWork
  <1>2. Aside
    BY DEF RunOut, Ask, DeleteMissing, WriteNothing, Observe, CallFails, CallFinish, EndResponse,
           AcceptExisting
  <1>3. backup' = NothingSaved
    BY <1>1 DEF IInv, PhaseInv, WorkAction, Works
  <1>4. AllQuiet
    BY <1>1, <1>2, <1>3, AsideIsQuiet DEF WorkAction, Aside, disk
  <1> QED  BY <1>4, AllQuietIsKept DEF IInv

LEMMA VerifyKeepsOwed == ASSUME IInv, OwedTogether, Verify PROVE OwedTogether'
  <1>1. phase \in Works /\ backup' = NothingSaved
    BY DEF Verify, IInv, PhaseInv, Works
  <1>2. earlier' \in {earlier, scratch} /\ phase' \in Works \cup {"committing", "idle"}
    BY Blocking DEF Verify, Stay, Works
  <1>3. AllQuiet
    BY <1>1, <1>2, AsideIsQuiet DEF Verify, Works
  <1> QED  BY <1>3, AllQuietIsKept DEF IInv

\* The steps that leave the commit or end it.
LEMMA ConflictKeepsOwed == ASSUME IInv, OwedTogether, NEW f \in Files, Conflict(f)
                           PROVE  OwedTogether'
  <1>1. AllQuiet
    BY AsideIsQuiet DEF Conflict, InCommit, Goes, ghosts
  <1> QED  BY <1>1, AllQuietIsKept DEF IInv

LEMMA FailureKeepsOwed ==
    ASSUME IInv, OwedTogether, NothingLeft \/ Unreported \/ Restored \/ RestoreFails \/ Killed
    PROVE  OwedTogether'
  <1>1. earlier' \in {earlier, scratch} /\ phase' = "idle" /\ backup' = NothingSaved
    BY DEF NothingLeft, Unreported, Restored, RestoreFails, Killed, FailAs, Gone, Leave
  <1>2. UNCHANGED <<project, scratch, before, ghosts>>
    BY DEF NothingLeft, Unreported, Restored, RestoreFails, Killed, InCommit, ghosts
  <1>3. AllQuiet
    BY <1>1, <1>2, AsideIsQuiet
  <1> QED  BY <1>3, AllQuietIsKept DEF IInv

LEMMA CommittedKeepsOwed == ASSUME IInv, OwedTogether, Committed PROVE OwedTogether'
  <1>1. UNCHANGED <<now, edits, project, scratch, before>> /\ earlier' = earlier
        /\ phase' = "idle" /\ backup' = NothingSaved
    BY DEF Committed, Gone, InCommit
  <1>2. owed' = [f \in Files |-> owed[f] \cup (project[f].has \ edits)]
    BY DEF Committed
  <1>3. ASSUME NEW f \in Files
        PROVE  owed'[f] \subseteq project[f].has \cap Keeps(f) /\ project[f].has \subseteq 1..now
    <2>1. owed[f] \subseteq project[f].has /\ project[f].has \subseteq 1..now
      BY HadSoFar DEF IInv, OwedTogether, OwedInv
    <2> QED  BY <1>2, <2>1 DEF Keeps
  <1>4. owed' \in [Files -> SUBSET (1..now)]
    BY <1>2, <1>3
  <1>5. ASSUME NEW f \in Files PROVE Quiet(f)
    BY <1>1, <1>3 DEF Quiet, NothingSaved, Works
  <1>6. AllQuiet
    BY <1>1, <1>4, <1>5 DEF AllQuiet
  <1> QED  BY <1>6, AllQuietIsKept DEF IInv

-----------------------------------------------------------------------------
\* The choice leaves all files alone, and so does an attempt that is sent away.
LEMMA ChoiceKeepsOwed == ASSUME IInv, OwedTogether, Choose \/ LockBusy PROVE OwedTogether'
  <1>1. /\ UNCHANGED <<project, scratch, before, backup, earlier, ghosts>>
        /\ phase' \in {"idle", "chosen"}
    BY DEF Choose, LockBusy, Gone, disk
  <1>2. AllQuiet
    BY <1>1, AsideIsQuiet
  <1> QED  BY <1>2, AllQuietIsKept DEF IInv

\* A scratch copy to which the project is nowhere newer holds what has to be kept.
LEMMA ChooseKeepsBase == ASSUME IInv, OwedTogether, Choose PROVE BaseKeeps'
  <1>1. PICK recovery \in BOOLEAN : base' = Base(recovery)
    BY DEF Choose
  <1>2. UNCHANGED <<now, edits, owed, project>>
    BY DEF Choose, disk, ghosts
  <1>3. ASSUME base' # NoBase, NEW f \in Files, project[f].there
        PROVE  Keeps(f) \cap project[f].has \subseteq base'[f].has
    <2>1. base' = LastScratch /\ LastScratch # NoBase /\ ~NewerInProject(LastScratch)
      BY <1>1, <1>3 DEF Base
    <2>2. PICK w \in {scratch, earlier} : w = LastScratch /\ (w = earlier => earlier # NoBase)
      BY <2>1 DEF LastScratch
    <2>3. Ahead(Keeps(f), project[f], w[f])
      BY <1>3, <2>2 DEF OwedTogether, OwedInv, BaseInv
    <2>4. CASE project[f] = w[f]
      BY <2>1, <2>2, <2>4
    <2>5. CASE project[f] # w[f]
      <3>1. ~(ModifiedAt(project[f]) > ModifiedAt(w[f]))
        BY <1>3, <2>1, <2>2, <2>5 DEF NewerInProject
      <3>2. project[f] \in Stamp(now) /\ w[f] \in Stamp(now) /\ now \in Nat
        BY <2>2, HadSoFar, ToolUseAssumption, SMT DEF IInv, NumbersInv
      <3>3. ~Newer(project[f], w[f])
        BY <3>1, <3>2, NewerIsModified
      <3> QED  BY <2>1, <2>2, <2>3, <3>3 DEF Ahead
    <2> QED  BY <2>4, <2>5
  <1> QED  BY <1>2, <1>3 DEF BaseKeeps, Keeps

LEMMA CopyKeepsOwed == ASSUME IInv, ChosenInv, OwedTogether, BaseKeeps, Copy PROVE OwedTogether'
  <1>1. UNCHANGED <<now, edits, owed, project, before, earlier>> /\ phase' = "copied"
        /\ backup' = NothingSaved /\ scratch' = IF base = NoBase THEN project ELSE base
    BY DEF Copy, disk, ghosts, IInv, PhaseInv
  <1>2. ASSUME NEW f \in Files PROVE OwedInv(f)'
    <2>1. owed[f] \subseteq project[f].has /\ BaseInv(f) /\ (Keeps(f))' = Keeps(f)
      BY <1>1 DEF OwedTogether, OwedInv, Keeps
    <2>2. BackupInv(f)'
      BY <1>1 DEF BackupInv, NothingSaved
    <2>3. CASE scratch' = project
      <3>1. BaseInv(f)' /\ CopyInv(f)'
        BY <1>1, <2>1, <2>3, AheadOfItself DEF BaseInv, CopyInv, Works
      <3> QED  BY <1>1, <2>1, <2>2, <3>1 DEF OwedInv
    <2>4. CASE base # NoBase /\ scratch' = base
      <3>1. project[f].there => Keeps(f) \cap project[f].has \subseteq base[f].has
        BY <2>4 DEF BaseKeeps
      <3>2. earlier # NoBase => Ahead(Keeps(f), base[f], earlier[f])
        BY <2>4, AheadOfItself DEF ChosenInv
      <3>3. BaseInv(f)' /\ CopyInv(f)'
        BY <1>1, <2>1, <2>4, <3>1, <3>2 DEF BaseInv, CopyInv, Ahead, Works
      <3> QED  BY <1>1, <2>1, <2>2, <3>3 DEF OwedInv
    <2> QED  BY <1>1, <2>3, <2>4
  <1> QED  BY <1>1, <1>2 DEF OwedTogether

LEMMA HashKeepsOwed == ASSUME IInv, OwedTogether, Hash PROVE OwedTogether'
  <1>1. UNCHANGED <<now, edits, owed, project, scratch, earlier, backup>>
        /\ phase = "copied" /\ phase' = "ready" /\ before' = project
    BY DEF Hash, ghosts
  <1>2. ASSUME NEW f \in Files PROVE OwedInv(f)'
    <2>1. OwedInv(f) /\ (Keeps(f))' = Keeps(f)
      BY <1>1 DEF OwedTogether, Keeps
    <2>2. BaseInv(f)' /\ BackupInv(f)'
      BY <1>1, <2>1 DEF OwedInv, BaseInv, BackupInv
    <2>3. CopyInv(f)'
      BY <1>1, <2>1 DEF OwedInv, CopyInv
    <2> QED  BY <1>1, <2>1, <2>2, <2>3 DEF OwedInv
  <1> QED  BY <1>1, <1>2 DEF OwedTogether

-----------------------------------------------------------------------------
\* The executor writes to some files of its copy.
Writing(written) ==
    /\ phase \in Works /\ phase' \in Works
    /\ now' = now + 1
    /\ UNCHANGED <<project, before, backup, earlier, edits>>
    /\ \A f \in Files :
          IF f \in written THEN /\ scratch'[f].has = scratch[f].has \cup {now + 1}
                                /\ owed'[f] = owed[f] \ Unseen(f)
          ELSE scratch'[f] = scratch[f] /\ owed'[f] = owed[f]
    /\ DOMAIN owed' = Files /\ owed' = [f \in Files |-> owed'[f]]

\* What has to be kept of a file of the project is in the copy once the executor
\* has written beside the edits it has not seen.
LEMMA SeenIsCopied ==
    ASSUME IInv, NEW f \in Files, OwedInv(f), phase \in Works, project[f].there
    PROVE  (Keeps(f) \ Unseen(f)) \cup (Keeps(f) \ edits) \subseteq
              scratch[f].has \cup ((1..now) \ project[f].has)
  <1>1. ASSUME NEW c \in project[f].has, c \in before[f].has, c \in Keeps(f)
        PROVE  c \in scratch[f].has
    BY <1>1 DEF OwedInv, CopyInv
  <1>2. ASSUME NEW c \in project[f].has, c \notin edits, c \in Keeps(f)
        PROVE  c \in scratch[f].has
    <2>1. Clean(f)
      BY DEF IInv, SavedInv
    <2>2. c \in before[f].has
      BY <1>2, <2>1 DEF Clean, Since, Same
    <2> QED  BY <1>1, <1>2, <2>2
  <1>3. ASSUME NEW c \in project[f].has, c \in Keeps(f) \ Unseen(f) PROVE c \in scratch[f].has
    BY <1>1, <1>3 DEF Unseen
  <1>4. Keeps(f) \subseteq 1..now
    BY HadSoFar DEF Keeps, OwedInv, IInv
  <1> QED  BY <1>2, <1>3, <1>4

LEMMA WritingKeepsOwed ==
    ASSUME IInv, NumbersInv', OwedTogether, NEW written \in SUBSET Files, Writing(written)
    PROVE  OwedTogether'
  <1>1. now \in Nat /\ now' = now + 1 /\ now + 1 \notin 1..now /\ 1..now \subseteq 1..now'
    BY ToolUseAssumption, SMT DEF IInv, NumbersInv, Writing
  <1>2. \A f \in Files : owed'[f] \subseteq owed[f] /\ owed[f] \subseteq 1..now
    BY DEF Writing, OwedTogether
  <1>3. ASSUME NEW f \in Files PROVE OwedInv(f)'
    <2> DEFINE kept == (Keeps(f))'
    <2>1. OwedInv(f) /\ NoMore(f)
      BY <1>1, <1>2, NothingMore DEF OwedTogether, IInv, Writing, Keeps
    <2>2. kept \cap (1..now) \subseteq Keeps(f)
      BY <2>1 DEF NoMore
    <2>3. \A a, b : a.has \subseteq 1..now /\ Ahead(Keeps(f), a, b) => Ahead(kept, a, b)
      BY <2>1, StaysAhead
    <2>4. scratch[f].has \subseteq scratch'[f].has
      BY DEF Writing
    <2>5. kept \cap (1..now) \subseteq (owed'[f] \cup (Keeps(f) \ edits))
      BY <1>1 DEF Keeps, Writing
    <2> HIDE DEF kept
    <2>6. owed'[f] \subseteq project'[f].has
      BY <1>2, <2>1 DEF OwedInv, Writing
    <2>7. CopyInv(f)'
      <3>1. before[f].there => kept \cap before[f].has \subseteq scratch[f].has
        BY <2>1, <2>2, HadSoFar DEF IInv, OwedInv, CopyInv, Writing
      <3> QED  BY <2>1, <2>4, <3>1 DEF OwedInv, CopyInv, Writing, Works, kept
    <2>8. BackupInv(f)'
      BY DEF Writing, IInv, PhaseInv, Works, NothingSaved, BackupInv
    <2>9. CASE f \in written
      <3>1. scratch'[f].has = scratch[f].has \cup {now + 1} /\ owed'[f] = owed[f] \ Unseen(f)
        BY <2>9 DEF Writing
      <3>2. project[f].there => kept \cap project[f].has \subseteq scratch'[f].has
        <4>1. project[f].there =>
                 (Keeps(f) \ Unseen(f)) \cup (Keeps(f) \ edits) \subseteq
                    scratch[f].has \cup ((1..now) \ project[f].has)
          BY <2>1, SeenIsCopied DEF Writing
        <4>2. owed'[f] \subseteq Keeps(f) \ Unseen(f)
          BY <3>1 DEF Keeps
        <4>3. project[f].has \subseteq 1..now
          BY HadSoFar DEF IInv
        <4> QED  BY <2>4, <2>5, <4>1, <4>2, <4>3
      <3>3. earlier # NoBase => Ahead(kept, scratch'[f], earlier[f])
        <4>1. earlier # NoBase => earlier[f] \in Stamp(now)
          BY HadSoFar DEF IInv
        <4> QED  BY <1>1, <3>1, <4>1, NewestIsAhead
      <3>4. earlier # NoBase /\ project[f].there => Ahead(kept, project[f], earlier[f])
        BY <2>1, <2>3, HadSoFar DEF IInv, OwedInv, BaseInv
      <3>5. BaseInv(f)'
        BY <3>2, <3>3, <3>4 DEF BaseInv, Ahead, Writing, kept
      <3> QED  BY <2>6, <2>7, <2>8, <3>5 DEF OwedInv
    <2>10. CASE f \notin written
      <3>1. scratch'[f] = scratch[f]
        BY <2>10 DEF Writing
      <3>2. /\ project[f].there => Ahead(kept, project[f], scratch[f])
            /\ earlier # NoBase /\ project[f].there => Ahead(kept, project[f], earlier[f])
            /\ earlier # NoBase /\ scratch[f].there => Ahead(kept, scratch[f], earlier[f])
        BY <2>1, <2>3, HadSoFar DEF IInv, OwedInv, BaseInv
      <3>3. BaseInv(f)'
        BY <3>1, <3>2 DEF BaseInv, Writing, kept
      <3> QED  BY <2>6, <2>7, <2>8, <3>3 DEF OwedInv
    <2> QED  BY <2>9, <2>10
  <1>4. owed' \in [Files -> SUBSET (1..now')]
    BY <1>1, <1>2 DEF Writing
  <1> QED  BY <1>3, <1>4 DEF OwedTogether

LEMMA ChangeKeepsOwed ==
    ASSUME IInv, OwedTogether, NEW f \in Files, NEW there \in BOOLEAN, Calling, Change(f, there)
    PROVE  OwedTogether'
  <1>1. NumbersInv'
    BY ChangeIsWork, WorkIsSafe DEF IInv
  <1>2. Writing({f})
    BY DEF Writing, Change, Call, Calling, Works, disk, outcome, IInv, NumbersInv, OwedTogether
  <1> QED  BY <1>1, <1>2, WritingKeepsOwed

LEMMA AutoApplyKeepsOwed == ASSUME IInv, OwedTogether, AutoApply PROVE OwedTogether'
  <1>0. NumbersInv' /\ phase \in Works
    BY AutoApplyIsWork, WorkIsSafe DEF IInv, AutoApply, Works
  <1>1. CASE Block("other") /\ UNCHANGED <<scratch, ghosts>>
    <2>1. backup' = NothingSaved /\ UNCHANGED <<project, before>>
      BY <1>0 DEF AutoApply, disk, IInv, PhaseInv, Works
    <2>2. AllQuiet
      BY <1>1, <2>1, Blocking, AsideIsQuiet
    <2> QED  BY <2>2, AllQuietIsKept DEF IInv
  <1>2. ASSUME NEW written \in SUBSET Files,
               now < MaxChanges, now' = now + 1,
               scratch' = [f \in Files |->
                             IF f \in written
                               THEN [there |-> TRUE, has |-> scratch[f].has \cup {now + 1}]
                               ELSE scratch[f]],
               owed' = [f \in Files |-> IF f \in written THEN owed[f] \ Unseen(f) ELSE owed[f]],
               phase' = "verifying", UNCHANGED <<earlier, edits>>
        PROVE  OwedTogether'
    <2>1. Writing(written)
      BY <1>0, <1>2 DEF Writing, AutoApply, disk, Works
    <2> QED  BY <1>0, <2>1, WritingKeepsOwed
  <1> QED  BY <1>1, <1>2 DEF AutoApply

-----------------------------------------------------------------------------
\* A step of the commit or of its restore that comes to one file.
CommitStep(f) ==
    /\ UNCHANGED <<now, edits, scratch, before, earlier>>
    /\ phase' \in {"committing", "restoring"}
    /\ phase' = "committing" => phase = "committing"
    /\ owed' \in [Files -> SUBSET (1..now)] /\ owed'[f] \subseteq owed[f]
    /\ \A g \in Files \ {f} :
          project'[g] = project[g] /\ backup'[g] = backup[g] /\ owed'[g] = owed[g]

LEMMA OthersAreKept ==
    ASSUME IInv, OwedTogether, NEW f \in Files, CommitStep(f),
           NEW g \in Files, g # f
    PROVE  OwedInv(g)'
  <1>1. owed[g] \subseteq project[g].has \cap Keeps(g)
    BY DEF OwedTogether, OwedInv, Keeps
  <1>2. NoMore(g)
    BY <1>1, NothingMore DEF IInv, CommitStep
  <1>3. Quiet(g)
    BY <1>1 DEF Quiet, CommitStep, Works
  <1> QED  BY <1>2, <1>3, QuietIsKept DEF OwedTogether, IInv

\* What is left to prove of the file it comes to.
LEMMA CommitStepKeepsOwed ==
    ASSUME IInv, OwedTogether, NEW f \in Files, CommitStep(f),
           owed'[f] \subseteq project'[f].has, BaseInv(f)', BackupInv(f)'
    PROVE  OwedTogether'
  <1>1. CopyInv(f)'
    <2>1. (Keeps(f))' \subseteq Keeps(f)
      BY DEF Keeps, CommitStep
    <2> QED  BY <2>1 DEF CopyInv, CommitStep, Works, OwedTogether, OwedInv
  <1>2. \A g \in Files : OwedInv(g)'
    BY <1>1, OthersAreKept DEF OwedInv
  <1> QED  BY <1>2 DEF OwedTogether, CommitStep

\* What the file it comes to is ahead of, before and after.
LEMMA CommitStepStaysAhead ==
    ASSUME IInv, NEW f \in Files, CommitStep(f)
    PROVE  \A a, b : a.has \subseteq 1..now /\ Ahead(Keeps(f), a, b) => Ahead((Keeps(f))', a, b)
  <1>1. owed'[f] \subseteq Keeps(f)
    BY DEF CommitStep, Keeps
  <1>2. NoMore(f)
    BY <1>1, NothingMore DEF CommitStep, IInv
  <1> QED  BY <1>2, StaysAhead

LEMMA CommitKeepsOwed ==
    ASSUME IInv, OwedTogether, NEW f \in Files, Commit(f)
    PROVE  OwedTogether' /\ (project[f].there => owed[f] \subseteq project'[f].has)
  <1>1. /\ UNCHANGED <<now, edits, scratch, before, earlier, phase>> /\ phase = "committing"
        /\ project' = [project EXCEPT ![f] = scratch[f]]
        /\ backup' = [backup EXCEPT ![f] = project[f]]
        /\ owed' = [owed EXCEPT ![f] = IF project[f].there THEN @ ELSE {}]
        /\ Same(project[f], before[f])
    BY DEF Commit, InCommit, Goes
  <1>2. project'[f] = scratch[f] /\ backup'[f] = project[f]
        /\ owed'[f] = IF project[f].there THEN owed[f] ELSE {}
    BY <1>1 DEF OwedTogether, IInv, NumbersInv
  <1>3. CommitStep(f)
    BY <1>1 DEF CommitStep, OwedTogether, IInv, NumbersInv
  <1>4. OwedInv(f)
    BY DEF OwedTogether
  <1> DEFINE kept == (Keeps(f))'
  <1>5. \A a, b : a.has \subseteq 1..now /\ Ahead(Keeps(f), a, b) => Ahead(kept, a, b)
    BY <1>3, CommitStepStaysAhead
  <1> HIDE DEF kept
  <1>6. project[f].there => owed[f] \subseteq scratch[f].has
    <2>1. ASSUME project[f].there PROVE project[f] = before[f]
      BY <1>1, <2>1 DEF Same
    <2>2. project[f].there => Keeps(f) \cap project[f].has \subseteq scratch[f].has
      BY <1>1, <1>4, <2>1 DEF OwedInv, CopyInv
    <2> QED  BY <1>4, <2>2 DEF OwedInv, Keeps
  <1>7. BaseInv(f)'
    <2>1. earlier # NoBase /\ scratch[f].there => Ahead(kept, scratch[f], earlier[f])
      BY <1>4, <1>5, HadSoFar DEF OwedInv, BaseInv, IInv
    <2> QED  BY <1>1, <1>2, <2>1, AheadOfItself DEF BaseInv, kept
  <1>8. BackupInv(f)'
    <2>1. /\ project[f].there => Ahead(kept, project[f], scratch[f])
          /\ earlier # NoBase /\ project[f].there => Ahead(kept, project[f], earlier[f])
      BY <1>4, <1>5, HadSoFar DEF OwedInv, BaseInv, IInv
    <2> QED  BY <1>1, <1>2, <1>4, <2>1 DEF BackupInv, OwedInv, kept
  <1> QED  BY <1>2, <1>3, <1>6, <1>7, <1>8, CommitStepKeepsOwed

LEMMA CommitFailsKeepsOwed ==
    ASSUME IInv, OwedTogether, NEW f \in Files, CommitFails(f)
    PROVE  OwedTogether'
  <1>1. /\ UNCHANGED <<now, edits, scratch, before, earlier, project>>
        /\ phase' = "restoring"
    BY DEF CommitFails, InCommit, Goes
  <1>2. \/ UNCHANGED <<backup, owed>>
        \/ backup' = [backup EXCEPT ![f] = project[f]] /\ UNCHANGED owed
        \/ /\ backup' = [backup EXCEPT ![f] = [project[f] EXCEPT !.has = {}]]
           /\ owed' = [owed EXCEPT ![f] = {}]
    BY DEF CommitFails
  <1>3. CommitStep(f)
    BY <1>1, <1>2 DEF CommitStep, OwedTogether, IInv, NumbersInv
  <1>4. OwedInv(f) /\ project[f] \in Stamp(now)
    BY HadSoFar DEF OwedTogether, IInv
  <1> DEFINE kept == (Keeps(f))'
  <1>5. \A a, b : a.has \subseteq 1..now /\ Ahead(Keeps(f), a, b) => Ahead(kept, a, b)
    BY <1>3, CommitStepStaysAhead
  <1> HIDE DEF kept
  <1>6. owed'[f] \subseteq project'[f].has
    BY <1>1, <1>3, <1>4 DEF CommitStep, OwedInv
  <1>7. /\ project[f].there => Ahead(kept, project[f], scratch[f])
        /\ earlier # NoBase /\ project[f].there => Ahead(kept, project[f], earlier[f])
        /\ earlier # NoBase /\ scratch[f].there => Ahead(kept, scratch[f], earlier[f])
    BY <1>4, <1>5, HadSoFar DEF OwedInv, BaseInv, IInv
  <1>8. BaseInv(f)'
    BY <1>1, <1>7 DEF BaseInv, kept
  <1>9. BackupInv(f)'
    <2>1. CASE UNCHANGED <<backup, owed>>
      <3>1. backup[f] # NoFile =>
              /\ backup[f].there => Ahead(kept, backup[f], scratch[f])
              /\ earlier # NoBase /\ backup[f].there => Ahead(kept, backup[f], earlier[f])
        BY <1>4, <1>5, HadSoFar DEF OwedInv, BackupInv, IInv
      <3> QED  BY <1>1, <1>4, <2>1, <3>1 DEF BackupInv, OwedInv, kept
    <2>2. CASE backup' = [backup EXCEPT ![f] = project[f]] /\ UNCHANGED owed
      <3>1. backup'[f] = project[f]
        BY <2>2 DEF IInv, NumbersInv
      <3> QED  BY <1>1, <1>4, <1>7, <2>2, <3>1 DEF BackupInv, OwedInv, kept
    <2>3. CASE /\ backup' = [backup EXCEPT ![f] = [project[f] EXCEPT !.has = {}]]
               /\ owed' = [owed EXCEPT ![f] = {}]
      <3>1. backup'[f].has = {} /\ owed'[f] = {}
        BY <1>4, <2>3 DEF OwedTogether, IInv, NumbersInv, Stamp
      <3>2. \A b : Ahead(kept, backup'[f], b)
        BY <3>1 DEF Ahead
      <3> QED  BY <3>1, <3>2 DEF BackupInv, kept
    <2> QED  BY <1>2, <2>1, <2>2, <2>3
  <1> QED  BY <1>3, <1>6, <1>8, <1>9, CommitStepKeepsOwed

LEMMA RestoreKeepsOwed ==
    ASSUME IInv, OwedTogether, NEW f \in Files, Restore(f)
    PROVE  OwedTogether' /\ (project[f].there => owed[f] \subseteq project'[f].has)
  <1>1. /\ UNCHANGED <<now, edits, scratch, before, earlier, owed, phase>> /\ phase = "restoring"
        /\ project' = [project EXCEPT ![f] = Undone(f)]
        /\ backup' = [backup EXCEPT ![f] = NoFile]
        /\ backup[f] # NoFile
    BY DEF Restore, InCommit, Goes, Saved
  <1>2. project'[f] = Undone(f) /\ backup'[f] = NoFile /\ Undone(f) \in {project[f], backup[f]}
    BY <1>1 DEF Undone, IInv, NumbersInv
  <1>3. CommitStep(f)
    BY <1>1 DEF CommitStep, OwedTogether, IInv, NumbersInv
  <1>4. OwedInv(f)
    BY DEF OwedTogether
  <1>5. owed[f] \subseteq project'[f].has
    BY <1>1, <1>2, <1>4 DEF OwedInv, BackupInv
  <1>6. BaseInv(f)'
    <2>1. (Keeps(f))' = Keeps(f)
      BY <1>1 DEF Keeps
    <2>2. OwedInv(f) => /\ Undone(f).there => Ahead(Keeps(f), Undone(f), scratch[f])
                        /\ earlier # NoBase /\ Undone(f).there =>
                              Ahead(Keeps(f), Undone(f), earlier[f])
      BY <1>1, <1>2 DEF OwedInv, BaseInv, BackupInv
    <2> QED  BY <1>1, <1>2, <1>4, <2>1, <2>2 DEF BaseInv, OwedInv
  <1>7. BackupInv(f)'
    BY <1>2 DEF BackupInv
  <1> QED  BY <1>1, <1>3, <1>5, <1>6, <1>7, CommitStepKeepsOwed

-----------------------------------------------------------------------------
\* What the user makes of a file, and what is owed of it then.
LEMMA EditIs ==
    ASSUME IInv, OwedTogether, NEW f \in Files, UserEdits(f)
    PROVE  /\ now' = now + 1 /\ edits' = edits \cup {now + 1}
           /\ UNCHANGED <<before, backup, scratch, earlier, phase>>
           /\ \A g \in Files \ {f} : project'[g] = project[g] /\ owed'[g] = owed[g]
           /\ project'[f].has = (IF project[f].there THEN project[f].has ELSE {}) \cup {now + 1}
           /\ owed'[f] \subseteq owed[f] \cup {now + 1}
           /\ ~project[f].there => owed'[f] \subseteq {now + 1}
           /\ Unwatched(f) => owed'[f] \subseteq owed[f]
           /\ owed' \in [Files -> SUBSET ((1..now) \cup {now + 1})]
  <1>1. PICK there \in {TRUE, ~project[f].there} :
          /\ project' = [project EXCEPT ![f] =
                [there |-> there,
                 has |-> (IF project[f].there THEN project[f].has ELSE {}) \cup {now + 1}]]
          /\ owed' = [owed EXCEPT ![f] =
                (IF project[f].there /\ there THEN @ ELSE {})
                  \cup (IF ~there \/ Unwatched(f) THEN {} ELSE {now + 1})]
    BY DEF UserEdits
  <1>2. project'[f].has = (IF project[f].there THEN project[f].has ELSE {}) \cup {now + 1}
    BY <1>1 DEF IInv, NumbersInv
  <1>3. owed'[f] = (IF project[f].there /\ there THEN owed[f] ELSE {})
                     \cup (IF ~there \/ Unwatched(f) THEN {} ELSE {now + 1})
    BY <1>1 DEF OwedTogether
  <1>4. \A g \in Files \ {f} : project'[g] = project[g] /\ owed'[g] = owed[g]
    BY <1>1 DEF OwedTogether, IInv, NumbersInv
  <1>5. owed' \in [Files -> SUBSET ((1..now) \cup {now + 1})]
    BY <1>1, <1>3, <1>4 DEF OwedTogether
  <1> QED  BY <1>2, <1>3, <1>4, <1>5 DEF UserEdits, outcome

LEMMA EditKeepsOwed ==
    ASSUME IInv, NumbersInv', OwedTogether, NEW f \in Files, UserEdits(f)
    PROVE  OwedTogether' /\ (project[f].there => owed[f] \subseteq project'[f].has)
  <1>1. /\ now' = now + 1 /\ edits' = edits \cup {now + 1}
        /\ UNCHANGED <<before, backup, scratch, earlier, phase>>
        /\ \A g \in Files \ {f} : project'[g] = project[g] /\ owed'[g] = owed[g]
        /\ project'[f].has = (IF project[f].there THEN project[f].has ELSE {}) \cup {now + 1}
        /\ owed'[f] \subseteq owed[f] \cup {now + 1}
        /\ ~project[f].there => owed'[f] \subseteq {now + 1}
        /\ phase = "copied" \/ backup[f] # NoFile => owed'[f] \subseteq owed[f]
        /\ owed' \in [Files -> SUBSET ((1..now) \cup {now + 1})]
    BY EditIs DEF Unwatched, Saved
  <1>2. now \in Nat /\ now + 1 \notin 1..now /\ (1..now) \cup {now + 1} \subseteq 1..now'
    BY <1>1, ToolUseAssumption, SMT DEF IInv, NumbersInv
  <1>3. ASSUME NEW g \in Files PROVE NoMore(g) /\ OwedInv(g)
    <2>1. owed'[g] \cap (1..now) \subseteq owed[g]
      BY <1>1, <1>2
    <2>2. OwedInv(g) /\ owed'[g] \cap (1..now) \subseteq Keeps(g)
      BY <2>1 DEF OwedTogether, Keeps
    <2> QED  BY <1>1, <2>2, NothingMore DEF IInv
  <1>4. ASSUME NEW g \in Files, g # f PROVE OwedInv(g)'
    <2>1. owed[g] \subseteq project[g].has \cap Keeps(g)
      BY <1>3 DEF OwedInv, Keeps
    <2>2. Quiet(g)
      BY <1>1, <1>4, <2>1 DEF Quiet
    <2> QED  BY <1>3, <2>2, QuietIsKept DEF IInv
  <1> DEFINE kept == (Keeps(f))'
  <1>5. kept \cap (1..now) \subseteq Keeps(f)
    BY <1>3 DEF NoMore
  <1>6. \A a, b : a.has \subseteq 1..now /\ Ahead(Keeps(f), a, b) => Ahead(kept, a, b)
    BY <1>3, StaysAhead
  <1>7. phase = "copied" => now + 1 \notin kept
    BY <1>1, <1>2 DEF Keeps, OwedTogether
  <1> HIDE DEF kept
  <1>8. owed'[f] \subseteq project'[f].has
    BY <1>1, <1>3 DEF OwedInv
  <1>9. BaseInv(f)'
    <2>1. Ahead(kept, project'[f], scratch[f])
          /\ (earlier # NoBase => Ahead(kept, project'[f], earlier[f]))
      <3>1. scratch[f] \in Stamp(now) /\ (earlier # NoBase => earlier[f] \in Stamp(now))
        BY HadSoFar DEF IInv
      <3>2. now + 1 \in project'[f].has
        BY <1>1
      <3> QED  BY <1>2, <3>1, <3>2, NewestIsAhead
    <2>2. earlier # NoBase /\ scratch[f].there => Ahead(kept, scratch[f], earlier[f])
      BY <1>3, <1>6, HadSoFar DEF OwedInv, BaseInv, IInv
    <2> QED  BY <1>1, <2>1, <2>2 DEF BaseInv, kept
  <1>10. CopyInv(f)'
    <2>1. phase = "copied" => kept \cap project'[f].has \subseteq scratch[f].has
      <3>1. phase = "copied" /\ project[f].there =>
               kept \cap project[f].has \subseteq scratch[f].has
        BY <1>3, <1>5, HadSoFar DEF OwedInv, CopyInv, IInv
      <3> QED  BY <1>1, <1>7, <3>1
    <2>2. phase \in Works \cup {"committing"} /\ before[f].there =>
             kept \cap before[f].has \subseteq scratch[f].has
      BY <1>3, <1>5, HadSoFar DEF OwedInv, CopyInv, IInv
    <2>3. phase \in Works /\ ~before[f].there => project'[f].has \cap before[f].has = {}
      <3>1. now + 1 \notin before[f].has
        BY <1>2, HadSoFar DEF IInv
      <3> QED  BY <1>1, <1>3, <3>1 DEF OwedInv, CopyInv
    <2> QED  BY <1>1, <2>1, <2>2, <2>3 DEF CopyInv, kept
  <1>11. BackupInv(f)'
    <2>1. backup[f] # NoFile =>
            /\ owed'[f] \subseteq backup[f].has
            /\ backup[f].there => Ahead(kept, backup[f], scratch[f])
            /\ earlier # NoBase /\ backup[f].there => Ahead(kept, backup[f], earlier[f])
      BY <1>1, <1>3, <1>6, HadSoFar DEF OwedInv, BackupInv, IInv
    <2> QED  BY <1>1, <2>1 DEF BackupInv, kept
  <1>12. OwedInv(f)'
    BY <1>8, <1>9, <1>10, <1>11 DEF OwedInv
  <1>13. owed' \in [Files -> SUBSET (1..now')]
    BY <1>1, <1>2
  <1>14. project[f].there => owed[f] \subseteq project'[f].has
    BY <1>1, <1>3 DEF OwedInv
  <1> QED  BY <1>4, <1>12, <1>13, <1>14 DEF OwedTogether

\* An edit made after the choice need not be kept.
LEMMA EditKeepsBase ==
    ASSUME IInv, OwedTogether, BaseKeeps, NEW f \in Files, UserEdits(f)
    PROVE  BaseKeeps'
  <1> SUFFICES ASSUME base # NoBase, NEW g \in Files, project'[g].there
               PROVE  (Keeps(g))' \cap project'[g].has \subseteq base[g].has
    BY DEF BaseKeeps, UserEdits, request
  <1>1. /\ now' = now + 1 /\ edits' = edits \cup {now + 1}
        /\ \A h \in Files \ {f} : project'[h] = project[h] /\ owed'[h] = owed[h]
        /\ project'[f].has = (IF project[f].there THEN project[f].has ELSE {}) \cup {now + 1}
        /\ owed'[f] \subseteq owed[f]
    BY EditIs DEF Unwatched
  <1>2. now \in Nat /\ now + 1 \notin 1..now /\ 1..now' \subseteq (1..now) \cup {now + 1}
    BY <1>1, ToolUseAssumption, SMT DEF IInv, NumbersInv
  <1>3. owed'[g] \subseteq owed[g] /\ owed[g] \subseteq 1..now
    BY <1>1 DEF OwedTogether
  <1>4. (Keeps(g))' \subseteq Keeps(g)
    BY <1>1, <1>2, <1>3 DEF Keeps
  <1>5. now + 1 \notin (Keeps(g))'
    BY <1>1, <1>2, <1>3 DEF Keeps
  <1>6. project[g].there => Keeps(g) \cap project[g].has \subseteq base[g].has
    BY DEF BaseKeeps
  <1>7. CASE g = f
    BY <1>1, <1>4, <1>5, <1>6, <1>7
  <1>8. CASE g # f
    BY <1>1, <1>4, <1>6, <1>8
  <1> QED  BY <1>7, <1>8

LEMMA BaseStep ==
    ASSUME IInv, ChosenInv, OwedTogether, BaseKeeps, [Next]_vars
    PROVE  BaseKeeps'
  <1>1. CASE Choose
    BY <1>1, ChooseKeepsBase
  <1>2. CASE ~Choose /\ base' = NoBase
    BY <1>2 DEF BaseKeeps
  <1>3. CASE ~Choose /\ base' = base /\ base # NoBase /\ Next
    <2>1. PICK f \in Files : UserEdits(f)
      BY <1>3, WhileItWaits DEF ChosenInv, Copy, LockBusy, Killed
    <2> QED  BY <2>1, EditKeepsBase
  <1>4. CASE UNCHANGED vars
    BY <1>4 DEF BaseKeeps, Keeps, vars, disk, request, ghosts
  <1> QED  BY <1>1, <1>2, <1>3, <1>4, OnlyChosen

-----------------------------------------------------------------------------
LEMMA OwedInit == Init => OwedTogether /\ BaseKeeps
  BY DEF Init, OwedTogether, OwedInv, BaseInv, CopyInv, BackupInv, Works, Ahead, BaseKeeps

\* A step keeps the invariant, and what is owed of the file it comes to.
LEMMA OwedStep ==
    ASSUME IInv, ChosenInv, NumbersInv', OwedTogether, BaseKeeps, [Next]_vars
    PROVE  OwedTogether' /\ \A f \in Files : project[f].there => owed[f] \subseteq project'[f].has
  <1>0. \A f \in Files : owed[f] \subseteq project[f].has
    BY DEF OwedTogether, OwedInv
  <1>1. CASE Choose \/ Copy \/ LockBusy
    BY <1>0, <1>1, ChoiceKeepsOwed, CopyKeepsOwed DEF Choose, Copy, LockBusy, disk
  <1>2. CASE Hash
    BY <1>0, <1>2, HashKeepsOwed DEF Hash
  <1>3. CASE RunOut \/ Ask \/ (\E f \in Files : DeleteMissing(f)) \/ WriteNothing \/ Observe
               \/ CallFails \/ CallFinish \/ EndResponse \/ AcceptExisting
    <2>1. project' = project
      BY <1>3, LoopIsWork DEF WorkAction
    <2> QED  BY <1>0, <1>3, <2>1, LoopKeepsOwed
  <1>4. CASE AutoApply
    BY <1>0, <1>4, AutoApplyKeepsOwed DEF AutoApply, disk
  <1>5. ASSUME NEW f \in Files, Write(f) \/ Delete(f)
        PROVE  OwedTogether' /\ project' = project
    BY <1>5, ChangeKeepsOwed DEF Write, Delete, Change, disk
  <1>6. CASE Verify
    BY <1>0, <1>6, VerifyKeepsOwed DEF Verify
  <1>7. ASSUME NEW f \in Files, Commit(f) \/ Restore(f) \/ UserEdits(f)
        PROVE  /\ OwedTogether'
               /\ \A g \in Files : project[g].there => owed[g] \subseteq project'[g].has
    <2>1. OwedTogether' /\ (project[f].there => owed[f] \subseteq project'[f].has)
      BY <1>7, CommitKeepsOwed, RestoreKeepsOwed, EditKeepsOwed
    <2>2. ASSUME NEW g \in Files, g # f PROVE project'[g] = project[g]
      BY <1>7, <2>2 DEF Commit, Restore, UserEdits, IInv, NumbersInv
    <2> QED  BY <1>0, <2>1, <2>2
  <1>8. ASSUME NEW f \in Files, Conflict(f) \/ CommitFails(f)
        PROVE  OwedTogether' /\ project' = project
    BY <1>8, ConflictKeepsOwed, CommitFailsKeepsOwed DEF Conflict, CommitFails
  <1>9. CASE Committed
    BY <1>0, <1>9, CommittedKeepsOwed DEF Committed
  <1>10. CASE NothingLeft \/ Unreported \/ Restored \/ RestoreFails \/ Killed
    BY <1>0, <1>10, FailureKeepsOwed DEF NothingLeft, Unreported, Restored, RestoreFails, Killed
  <1>11. CASE UNCHANGED vars
    <2>1. OwedTogether'
      BY <1>11 DEF vars, disk, work, outcome, ghosts, OwedTogether, OwedInv, BaseInv, CopyInv,
                   BackupInv, Keeps
    <2> QED  BY <1>0, <1>11, <2>1 DEF vars, disk
  <1> QED  BY <1>0, <1>1, <1>2, <1>3, <1>4, <1>5, <1>6, <1>7, <1>8, <1>9, <1>10, <1>11 DEF Next

\* What is owed stays together through copies, commits, restores and recoveries:
\* in the project, in the scratch copy a recovery waits to start from, in what a
\* commit will put there and in what goes back.
THEOREM OwedHolds == Spec => [](OwedTogether /\ BaseKeeps)
  <1>1. IInv /\ ChosenInv /\ IInv' /\ OwedTogether /\ BaseKeeps /\ [Next]_vars =>
           OwedTogether' /\ BaseKeeps'
    BY OwedStep, BaseStep DEF IInv
  <1> QED  BY <1>1, OwedInit, AttemptsHold, PTL DEF Spec

\* No attempt loses what is owed to the user or was committed by one that passed.
THEOREM NothingOwedIsLost == Spec => OwedIsKept
  <1>1. IInv /\ ChosenInv /\ IInv' /\ OwedTogether /\ BaseKeeps /\ [Next]_vars =>
          [\A f \in Files : project[f].there =>
              project[f].has \cap owed[f] \subseteq project'[f].has]_vars
    BY OwedStep DEF IInv
  <1> QED  BY <1>1, AttemptsHold, OwedHolds, PTL DEF Spec, OwedIsKept

-----------------------------------------------------------------------------
\* What the invariant says nothing of: how an attempt stands, and its counters.
Whys == {"none", "interrupted", "noWrite", "refused", "stalled", "verify",
         "conflict", "fault", "other"}

StandingType ==
    /\ status \in {"none", "running", "PASS", "BLOCKED", "busy", "raised", "killed"}
    /\ why \in Whys
    /\ how \in {"none", "call", "stall", "interruption", "plan"}
    /\ changed \subseteq Files /\ deleted \subseteq Files
    /\ wrote \in BOOLEAN
    /\ loop \in Loop

BoundsType ==
    /\ todo \subseteq Files
    /\ attempts \in 0..MaxAttempts /\ faults \in 0..MaxFaults
    /\ recovering \in BOOLEAN /\ spoiled \in BOOLEAN

AttemptType == StandingType /\ BoundsType

LEMMA Limits ==
    /\ MaxIterations \in Nat /\ MaxIterations > 0 /\ PlanReads \in Nat /\ PlanReads > 0
    /\ MaxWafRetries \in Nat /\ MaxVerifyRetries \in Nat /\ MaxAttempts \in Nat
    /\ MaxFaults \in Nat
  BY ToolUseAssumption, SMT

LEMMA NewLoopType == NewLoop \in Loop
  BY Limits, SMT DEF NewLoop, Loop

\* What is done to the counters keeps them within their limits.
LEMMA CounterTypes ==
    ASSUME loop \in Loop
    PROVE  /\ Progressed \in Loop /\ Acted \in Loop
           /\ loop.iter # MaxIterations => loop.iter + 1 \in 0..MaxIterations
           /\ \A b \in BOOLEAN :
                 /\ [NewLoop EXCEPT !.actionOnly = b] \in Loop
                 /\ \A c \in BOOLEAN : [NewLoop EXCEPT !.actionOnly = b, !.full = c] \in Loop
  <1>1. Progressed \in Loop
    <2>1. 0 \in 0..MaxIterations
      BY Limits, SMT
    <2> QED  BY <2>1 DEF Progressed, Loop
  <1>2. Acted \in Loop
    BY DEF Acted, Loop
  <1>3. loop.iter # MaxIterations => loop.iter + 1 \in 0..MaxIterations
    BY Limits, SMT DEF Loop
  <1>4. ASSUME NEW b \in BOOLEAN, NEW c \in BOOLEAN
        PROVE  /\ [NewLoop EXCEPT !.actionOnly = b] \in Loop
               /\ [NewLoop EXCEPT !.actionOnly = b, !.full = c] \in Loop
    BY NewLoopType DEF Loop
  <1> QED  BY <1>1, <1>2, <1>3, <1>4

LEMMA GoneType == ASSUME Gone
                  PROVE  /\ loop' \in Loop /\ how' = "none" /\ changed' = {} /\ deleted' = {}
                         /\ wrote' = FALSE
  BY NewLoopType DEF Gone

LEMMA BlockType == ASSUME NEW kind \in Whys, Block(kind) PROVE StandingType'
  BY GoneType DEF Block, StandingType

LEMMA FinishType ==
    ASSUME StandingType, NEW caller \in {"stall", "interruption"}, Finish(caller)
    PROVE  StandingType'
  <1>1. CASE Differs
    BY <1>1 DEF Finish, Stay, StandingType
  <1>2. CASE ~Differs
    BY <1>2, BlockType DEF Finish, Whys
  <1> QED  BY <1>1, <1>2

LEMMA InterruptedType == ASSUME StandingType, Interrupted PROVE StandingType'
  <1>1. CASE Block("interrupted")
    BY <1>1, BlockType DEF Whys
  <1> QED  BY <1>1, FinishType DEF Interrupted

\* Steps of the loop: they leave the bounds alone.
LEMMA AsideBounds == ASSUME BoundsType, Aside PROVE BoundsType'
  BY DEF BoundsType, Aside, disk, request

LEMMA AskType == ASSUME AttemptType, Ask PROVE AttemptType'
  <1>0. loop \in Loop /\ loop.iter # MaxIterations
    BY DEF AttemptType, StandingType, Ask, OutOfBudget
  <1>1. ASSUME NEW pressed \in {loop.pressed, TRUE},
               loop' = [loop EXCEPT !.iter = @ + 1, !.pressed = pressed],
               UNCHANGED how, Stay
        PROVE  StandingType'
    <2>1. pressed \in BOOLEAN /\ loop.iter + 1 \in 0..MaxIterations
      BY <1>0, CounterTypes DEF Loop
    <2>2. loop' \in Loop
      BY <1>0, <1>1, <2>1 DEF Loop
    <2> QED  BY <1>1, <2>2 DEF AttemptType, StandingType, Stay
  <1>2. ASSUME loop.waf < MaxWafRetries,
               loop' = [loop EXCEPT !.iter = @ + 1, !.waf = @ + 1], UNCHANGED how, Stay
        PROVE  StandingType'
    <2>1. loop.waf + 1 \in 0..MaxWafRetries
      BY <1>0, <1>2, Limits, SMT DEF Loop
    <2>2. loop.iter + 1 \in 0..MaxIterations
      BY <1>0, CounterTypes
    <2>3. loop' \in Loop
      BY <1>0, <1>2, <2>1, <2>2 DEF Loop
    <2> QED  BY <1>2, <2>3 DEF AttemptType, StandingType, Stay
  <1>3. ASSUME Interrupted PROVE StandingType'
    BY <1>3, InterruptedType DEF AttemptType
  <1>4. ASSUME Block("stalled") \/ Block("other") PROVE StandingType'
    BY <1>4, BlockType DEF Whys
  <1> QED  BY <1>1, <1>2, <1>3, <1>4, AsideBounds DEF Ask, AttemptType

LEMMA CallType ==
    ASSUME AttemptType, WriteNothing \/ Observe \/ CallFails \/ CallFinish
                          \/ (\E f \in Files : DeleteMissing(f))
    PROVE  AttemptType'
  <1>0. loop \in Loop
    BY DEF AttemptType, StandingType
  <1>1. CASE WriteNothing
    <2>1. loop' \in Loop /\ wrote' \in BOOLEAN
      BY <1>0, <1>1, CounterTypes DEF WriteNothing, Call, AttemptType, StandingType
    <2> QED  BY <1>1, <2>1, AsideBounds
             DEF WriteNothing, Call, outcome, AttemptType, StandingType
  <1>2. CASE Observe
    <2>1. PICK pieces \in {FALSE, ~loop.actionOnly} :
             Call([loop EXCEPT !.observed = TRUE, !.progress = loop.iter,
                               !.seen = IF loop.write = 0 THEN loop.iter ELSE 0,
                               !.fragmented = @ \/ pieces])
      BY <1>2 DEF Observe
    <2>2. (loop.fragmented \/ pieces) \in BOOLEAN
      BY <1>0 DEF Loop
    <2>3. (IF loop.write = 0 THEN loop.iter ELSE 0) \in 0..MaxIterations
      BY <1>0, Limits, SMT DEF Loop
    <2>4. loop' \in Loop
      BY <1>0, <2>1, <2>2, <2>3 DEF Call, Loop
    <2> QED  BY <1>2, <2>4, AsideBounds DEF Observe, Call, outcome, AttemptType, StandingType
  <1>3. CASE CallFails
    BY <1>3, BlockType, AsideBounds DEF CallFails, Whys, AttemptType
  <1>4. CASE CallFinish
    <2>1. loop' \in Loop
      BY <1>0, <1>4, CounterTypes DEF CallFinish, Call
    <2> QED  BY <1>4, <2>1, AsideBounds
             DEF CallFinish, Call, Stay, outcome, AttemptType, StandingType
  <1>5. ASSUME NEW f \in Files, DeleteMissing(f) PROVE AttemptType'
    <2>1. loop' \in Loop
      BY <1>0, <1>5, CounterTypes DEF DeleteMissing, Call
    <2> QED  BY <1>5, <2>1, AsideBounds
             DEF DeleteMissing, Call, outcome, AttemptType, StandingType
  <1> QED  BY <1>1, <1>2, <1>3, <1>4, <1>5

LEMMA EndResponseType == ASSUME AttemptType, EndResponse PROVE AttemptType'
  <1>0. loop \in Loop
    BY DEF AttemptType, StandingType
  <1>1. ASSUME NEW l \in Loop, GoOn(l) PROVE StandingType'
    <2>1. loop' \in Loop
      BY <1>1 DEF GoOn, Loop
    <2> QED  BY <1>1, <2>1 DEF GoOn, Stay, AttemptType, StandingType
  <1>2. ASSUME NEW l \in Loop, LastChance(l) PROVE StandingType'
    <2>1. [l EXCEPT !.actionOnly = TRUE] \in Loop
      BY DEF Loop
    <2> QED  BY <1>1, <1>2, <2>1, BlockType DEF LastChance, Whys
  <1>3. ASSUME NEW l \in Loop, Stall(l) PROVE StandingType'
    BY <1>2, <1>3, FinishType DEF Stall, AttemptType
  <1>4. Reads \in Nat /\ [loop EXCEPT !.reads = 0] \in Loop
    BY <1>0, Limits, SMT DEF Reads, Loop
  <1>5. ASSUME ~(Reads > PlanReads) PROVE WithPlan([loop EXCEPT !.reads = Reads]) \in Loop
    <2>1. Reads \in 0..PlanReads
      BY <1>4, <1>5, Limits, SMT
    <2>2. [loop EXCEPT !.reads = Reads] \in Loop
      BY <1>0, <2>1, SMT DEF Loop
    <2>3. ASSUME NEW l \in Loop PROVE WithPlan(l) \in Loop
      <3>1. 0 \in 0..PlanReads
        BY Limits, SMT
      <3> QED  BY <3>1 DEF WithPlan, Loop
    <2> QED  BY <2>2, <2>3
  <1>6. StandingType'
    BY <1>1, <1>2, <1>3, <1>4, <1>5 DEF EndResponse
  <1> QED  BY <1>6, AsideBounds DEF EndResponse, AttemptType

LEMMA ChangeType ==
    ASSUME AttemptType, NEW f \in Files, NEW there, Change(f, there), deleted' \subseteq Files
    PROVE  AttemptType'
  <1>1. loop' \in Loop
    BY CounterTypes DEF Change, Call, AttemptType, StandingType
  <1> QED  BY <1>1 DEF Change, Call, outcome, disk, request, AttemptType, StandingType,
                       BoundsType

LEMMA VerifyType == ASSUME AttemptType, Verify PROVE AttemptType'
  <1>0. loop \in Loop
    BY DEF AttemptType, StandingType
  <1>1. CASE loop' = NewLoop /\ UNCHANGED how /\ Stay /\ todo' = Touched
    <2>1. Touched \subseteq Files
      BY DEF Touched, AttemptType, StandingType
    <2> QED  BY <1>1, <2>1, NewLoopType
             DEF Verify, Stay, request, AttemptType, StandingType, BoundsType
  <1>2. CASE /\ MoreRetries /\ how' = "none" /\ loop' = [Progressed EXCEPT !.fails = @ + 1]
             /\ UNCHANGED todo /\ Stay
    <2>1. Progressed \in Loop /\ Progressed.fails = loop.fails
      BY <1>0, CounterTypes DEF Progressed, Loop
    <2>2. loop.fails + 1 \in 0..MaxVerifyRetries
      BY <1>0, <1>2, Limits, SMT DEF MoreRetries, Loop
    <2>3. loop' \in Loop
      BY <1>2, <2>1, <2>2, SMT DEF Loop
    <2> QED  BY <1>2, <2>3 DEF Verify, Stay, request, AttemptType, StandingType, BoundsType
  <1>3. CASE Block("verify") /\ UNCHANGED todo
    BY <1>3, BlockType DEF Verify, request, AttemptType, BoundsType, Whys
  <1> QED  BY <1>1, <1>2, <1>3 DEF Verify

LEMMA CommitType ==
    ASSUME IInv, AttemptType,
           \/ \E f \in Files : Commit(f) \/ Conflict(f) \/ CommitFails(f) \/ Restore(f)
           \/ Committed \/ NothingLeft \/ Unreported \/ Restored \/ RestoreFails
    PROVE  AttemptType'
  <1>1. Fault => faults' \in 0..MaxFaults
    BY Limits, SMT DEF Fault, AttemptType, BoundsType
  <1>2. ASSUME NEW f \in Files, Commit(f) \/ Conflict(f) \/ CommitFails(f) \/ Restore(f)
        PROVE  AttemptType'
    BY <1>1, <1>2 DEF Commit, Conflict, CommitFails, Restore, Goes, InCommit, work, request, Whys,
                      AttemptType, StandingType, BoundsType
  <1>3. CASE Committed
    BY <1>3, GoneType DEF Committed, InCommit, request, AttemptType, StandingType, BoundsType
  <1>4. ASSUME NEW kind \in Whys, FailAs(kind) PROVE StandingType'
    BY <1>4, GoneType DEF FailAs, StandingType
  <1>5. CASE NothingLeft \/ Unreported \/ RestoreFails
    <2>1. StandingType'
      BY <1>4, <1>5 DEF NothingLeft, Unreported, RestoreFails, Whys
    <2> QED  BY <1>1, <1>5, <2>1
             DEF NothingLeft, Unreported, RestoreFails, InCommit, request, AttemptType, BoundsType
  <1>6. CASE Restored
    <2>1. why \in Whys
      BY DEF AttemptType, StandingType
    <2>2. StandingType'
      BY <1>4, <1>6, <2>1 DEF Restored
    <2> QED  BY <1>6, <2>2 DEF Restored, InCommit, request, AttemptType, BoundsType
  <1> QED  BY <1>2, <1>3, <1>5, <1>6

LEMMA TypeInit == Init => AttemptType
  <1>1. 0 \in 0..MaxAttempts /\ 0 \in 0..MaxFaults
    BY Limits, SMT
  <1> QED  BY <1>1, NewLoopType DEF Init, AttemptType, StandingType, BoundsType, Whys

LEMMA TypeStep == IInv /\ AttemptType /\ [Next]_vars => AttemptType'
  <1> SUFFICES ASSUME IInv, AttemptType, [Next]_vars PROVE AttemptType'
    OBVIOUS
  <1>1. CASE Choose
    <2>1. attempts' \in 0..MaxAttempts
      BY <1>1, Limits, SMT DEF Choose, AttemptType, BoundsType
    <2>2. loop' \in Loop /\ recovering' \in BOOLEAN
      BY <1>1, CounterTypes DEF Choose, AttemptType, StandingType
    <2> QED  BY <1>1, <2>1, <2>2
             DEF Choose, disk, Whys, AttemptType, StandingType, BoundsType
  <1>2. CASE Copy \/ Hash
    BY <1>2 DEF Copy, Hash, disk, work, request, AttemptType, StandingType, BoundsType
  <1>3. CASE AcceptExisting
    BY <1>3, GoneType, AsideBounds DEF AcceptExisting, AttemptType, StandingType
  <1>4. CASE RunOut
    BY <1>4, InterruptedType, AsideBounds DEF RunOut, AttemptType
  <1>5. CASE Ask BY <1>5, AskType
  <1>6. CASE WriteNothing \/ Observe \/ CallFails \/ CallFinish
               \/ (\E f \in Files : DeleteMissing(f))
    BY <1>6, CallType
  <1>7. ASSUME NEW f \in Files, Write(f) \/ Delete(f) PROVE AttemptType'
    <2>1. deleted' \subseteq Files
      BY <1>7 DEF Write, Delete, AttemptType, StandingType
    <2> QED  BY <1>7, <2>1, ChangeType DEF Write, Delete
  <1>8. CASE EndResponse BY <1>8, EndResponseType
  <1>9. CASE AutoApply
    <2>1. CASE Block("other") /\ UNCHANGED <<scratch, ghosts>>
      BY <1>9, <2>1, BlockType DEF AutoApply, disk, request, Whys, AttemptType, BoundsType
    <2>2. CASE \E written \in SUBSET Files \ {{}} :
                  /\ changed' = written /\ wrote' = TRUE /\ how' = "plan"
                  /\ UNCHANGED <<earlier, status, why, loop, deleted, edits>>
      BY <1>9, <2>2 DEF AutoApply, disk, request, AttemptType, StandingType, BoundsType
    <2> QED  BY <1>9, <2>1, <2>2 DEF AutoApply
  <1>10. CASE Verify BY <1>10, VerifyType
  <1>11. CASE \/ \E f \in Files : Commit(f) \/ Conflict(f) \/ CommitFails(f) \/ Restore(f)
              \/ Committed \/ NothingLeft \/ Unreported \/ Restored \/ RestoreFails
    BY <1>11, CommitType
  <1>12. ASSUME NEW f \in Files, UserEdits(f) PROVE AttemptType'
    BY <1>12 DEF UserEdits, outcome, work, request, AttemptType, StandingType, BoundsType
  <1>13. CASE Killed
    BY <1>13, GoneType DEF Killed, Whys, AttemptType, StandingType, BoundsType
  <1>14. CASE LockBusy
    BY <1>14, GoneType DEF LockBusy, disk, AttemptType, StandingType, BoundsType
  <1>15. CASE UNCHANGED vars
    BY <1>15 DEF vars, disk, outcome, work, request, AttemptType, StandingType, BoundsType
  <1> QED  BY <1>1, <1>2, <1>3, <1>4, <1>5, <1>6, <1>7, <1>8, <1>9, <1>10, <1>11, <1>12, <1>13,
              <1>14, <1>15 DEF Next

\* Every variable keeps its type, and every counter of the tool loop its limit:
\* iterations, firewall retries, verify retries, reads under the patch plan.
THEOREM TypeCorrect == Spec => []TypeOK
  <1>1. Spec => []AttemptType
    BY TypeInit, TypeStep, AttemptsHold, PTL DEF Spec
  <1>2. IInv /\ ChosenInv /\ OwedTogether /\ AttemptType => TypeOK
    <2> SUFFICES ASSUME IInv, ChosenInv, OwedTogether, AttemptType PROVE TypeOK
      OBVIOUS
    <2>1. now \in Nat /\ MaxChanges \in Nat /\ now <= MaxChanges
      BY ToolUseAssumption, SMT DEF IInv, NumbersInv
    <2>2. Stamp(now) \subseteq Content
      BY <2>1, StampGrows DEF Content, Stamp
    <2>3. /\ project \in [Files -> Content] /\ scratch \in [Files -> Content]
          /\ before \in [Files -> Content]
          /\ backup \in [Files -> Content \cup {NoFile}]
          /\ {earlier, base} \subseteq [Files -> Content] \cup {NoBase}
      BY <2>2 DEF IInv, NumbersInv, ChosenInv
    <2> QED  BY <2>3 DEF TypeOK, IInv, NumbersInv, PhaseInv, Works, OwedTogether, AttemptType,
                         StandingType, BoundsType, Whys
  <1> QED  BY <1>1, <1>2, AttemptsHold, OwedHolds, PTL
=============================================================================
