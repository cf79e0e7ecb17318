--------------------------- MODULE RollbackProofs ---------------------------
(***************************************************************************)
(* What a rollback restores, for every set of files and every bound.       *)
(***************************************************************************)
EXTENDS Rollback, FiniteSetTheorems, TLAPS

\* The checkpoint tells the tree as it was when the round began.
CheckpointInv ==
    /\ \A f \in DOMAIN saved \cap Files : saved[f] = base[f]
    /\ dirtyThen \subseteq Dirty(base)

LEMMA Reports == ASSUME NEW ok \in BOOLEAN PROVE Scan(ok) \subseteq Dirty(disk)
  BY DEF Scan

\* A checkpoint, once taken, is kept as it is until the next round or rollback.
THEOREM CheckpointHolds == Spec => []CheckpointInv
<1>1. Init => CheckpointInv
  BY DEF Init, CheckpointInv
<1>2. CheckpointInv /\ [Next]_vars => CheckpointInv'
  <2> SUFFICES ASSUME CheckpointInv, [Next]_vars PROVE CheckpointInv'
    OBVIOUS
  <2>1. CASE Implement
    <3>1. base' = disk /\ dirtyThen' \subseteq Dirty(disk)
      BY <2>1, Reports DEF Implement
    <3>2. \A f \in DOMAIN saved' \cap Files : saved'[f] = disk[f]
      BY <2>1, RollbackAssumption DEF Implement, Snapshots
    <3> QED
      BY <3>1, <3>2 DEF CheckpointInv, Dirty
  <2>2. CASE UNCHANGED <<saved, dirtyThen, base>>
    BY <2>2 DEF CheckpointInv, Dirty
  <2>3. CASE saved' = << >> /\ dirtyThen' = {} /\ base' = base
    BY <2>3 DEF CheckpointInv
  <2> QED
    BY <2>1, <2>2, <2>3
    DEF Next, ExecutorWrites, UserEdits, ImplementDone, ImplementFails, VerifyBlocks,
        GateBlocks, RollBack, Stop, vars, tree, lists
<1> QED
  BY <1>1, <1>2, PTL DEF Spec

LEMMA RollbackStep ==
    ASSUME Next, RollsBack
    PROVE  \E failing \in SUBSET Paths, ok \in BOOLEAN :
              /\ CannotRestore(failing, ok)
              /\ \E torn \in SUBSET MayBeTorn(failing) : RollBack(failing, torn, ok)
  BY DEF Next, RollsBack, Implement, ExecutorWrites, UserEdits, ImplementDone, ImplementFails,
         VerifyBlocks, GateBlocks, Stop, vars, tree, lists

\* A file that was not found is one of those the scans cannot tell.
LEMMA NotFoundIsHidden ==
    ASSUME CheckpointInv, NEW f \in Files, f \notin reported,
           Found(TRUE) = reported, disk[f] # base[f],
           Folder \in reported => \A g \in FolderFiles : disk[g] = Absent
    PROVE  Line(f) \in Dirty(base)
<1>1. CASE disk[f] = Committed(f)
  BY <1>1 DEF Dirty
<1>2. CASE disk[f] # Committed(f)
  <2>1. Line(f) \in Dirty(disk)
    BY <1>2 DEF Dirty
  <2>2. Line(f) \notin reported
    <3>1. CASE f \in FolderFiles
      BY <1>2, <3>1, RollbackAssumption DEF Line, Committed
    <3>2. CASE f \notin FolderFiles
      BY <3>2 DEF Line
    <3> QED
      BY <3>1, <3>2
  <2>3. Line(f) \in dirtyThen
    BY <2>1, <2>2 DEF Found, Scan
  <2> QED
    BY <2>3 DEF CheckpointInv
<1> QED
  BY <1>1, <1>2

\* A rollback that is called clean leaves every file as it was at the
\* checkpoint, but for unreported changes in paths that were dirty by then.
THEOREM CleanRollback == Spec => CleanTreeIsRestored
<1>1. ASSUME CheckpointInv, Next, RollsBack, result' = "clean", NEW f \in Files
      PROVE  disk'[f] = base[f] \/ (f \notin reported /\ Line(f) \in Dirty(base))
  <2>1. PICK failing \in SUBSET Paths, ok \in BOOLEAN :
            /\ CannotRestore(failing, ok)
            /\ \E torn \in SUBSET MayBeTorn(failing) : RollBack(failing, torn, ok)
    BY <1>1, RollbackStep
  <2>2. IsClean(failing, ok)
    BY <1>1, <2>1 DEF RollBack
  <2>3. /\ ok = TRUE /\ failing = {} /\ Found(TRUE) = reported
        /\ reported \subseteq DOMAIN saved
    BY <2>2 DEF IsClean, Skipped
  <2>4. disk' = [g \in Files |-> IF g \in Restored({}, TRUE) THEN saved[g] ELSE disk[g]]
    BY <2>1, <2>3 DEF RollBack, Restore, MayBeTorn
  <2>5. CASE f \in reported
    <3>1. f \in Restored({}, TRUE) /\ f \in DOMAIN saved
      BY <2>3, <2>5 DEF Restored
    <3> QED
      BY <1>1, <2>4, <3>1 DEF CheckpointInv
  <2>6. CASE f \notin reported
    <3>1. disk'[f] = disk[f]
      BY <2>3, <2>4, <2>6 DEF Restored
    <3>2. Folder \in reported => \A g \in FolderFiles : disk[g] = Absent
      BY <2>1, <2>3 DEF CannotRestore
    <3> QED
      BY <1>1, <2>3, <2>6, <3>1, <3>2, NotFoundIsHidden
  <2> QED
    BY <2>5, <2>6
<1>2. CheckpointInv /\ [Next]_vars =>
        [RollsBack /\ result' = "clean" =>
          \A f \in Files : \/ disk'[f] = base[f]
                           \/ f \notin reported /\ Line(f) \in Dirty(base)]_vars
  BY <1>1
<1> QED
  BY <1>2, CheckpointHolds, PTL DEF Spec, CleanTreeIsRestored

\* A rollback writes snapshots only, and says so when one is not written whole.
THEOREM RollbackIsBounded == Spec => OthersWorkIsKept
<1>1. ASSUME CheckpointInv, Next, RollsBack, NEW f \in Files, disk'[f] # disk[f]
      PROVE  f \in DOMAIN saved /\ (disk'[f] = base[f] \/ result' = "unclean")
  <2>1. PICK failing \in SUBSET Paths, ok \in BOOLEAN :
            /\ CannotRestore(failing, ok)
            /\ \E torn \in SUBSET MayBeTorn(failing) : RollBack(failing, torn, ok)
    BY <1>1, RollbackStep
  <2>2. PICK torn \in SUBSET MayBeTorn(failing) : RollBack(failing, torn, ok)
    BY <2>1
  <2>3. disk' = [g \in Files |-> IF g \in Restored(failing, ok) THEN saved[g]
                                 ELSE IF g \in torn THEN Torn ELSE disk[g]]
    BY <2>2 DEF RollBack, Restore
  <2>4. CASE f \in Restored(failing, ok)
    <3>1. f \in DOMAIN saved /\ disk'[f] = saved[f]
      BY <2>3, <2>4 DEF Restored
    <3> QED
      BY <1>1, <3>1 DEF CheckpointInv
  <2>5. CASE f \notin Restored(failing, ok)
    <3>1. f \in torn /\ f \in failing
      BY <1>1, <2>2, <2>3, <2>5 DEF MayBeTorn
    <3>2. f \in DOMAIN saved /\ ~IsClean(failing, ok)
      BY <2>1, <3>1 DEF CannotRestore, IsClean, Skipped
    <3> QED
      BY <2>2, <3>2 DEF RollBack
  <2> QED
    BY <2>4, <2>5
<1>2. CheckpointInv /\ [Next]_vars =>
        [RollsBack =>
          \A f \in Files : disk'[f] # disk[f] =>
              /\ f \in DOMAIN saved
              /\ disk'[f] = base[f] \/ result' = "unclean"]_vars
  BY <1>1
<1> QED
  BY <1>2, CheckpointHolds, PTL DEF Spec, OthersWorkIsKept

LEMMA PathsOfLists ==
    /\ \A f \in Files : Line(f) \in Paths /\ Committed(f) \in Content
    /\ Dirty(disk) \subseteq Paths
    /\ \A ok \in BOOLEAN : Scan(ok) \subseteq Paths
  BY RollbackAssumption DEF Line, Paths, Dirty, Scan, Committed, Content

\* The executor writes in a round, and rounds are counted from one.
RoundInv == phase = "implementing" => round \in 1..MaxRounds

\* The variables keep to their types.
THEOREM TypeCorrect == Spec => [](TypeOK /\ RoundInv)
<1>1. Init => TypeOK /\ RoundInv
  <2> SUFFICES ASSUME Init PROVE TypeOK /\ RoundInv
    OBVIOUS
  <2>1. PICK mine \in SUBSET Files :
            /\ Cardinality(mine) <= MaxEdits /\ edits = Cardinality(mine)
            /\ disk = [f \in Files |-> IF f \in mine THEN Users ELSE Committed(f)]
    BY DEF Init
  <2>2. edits \in 0..MaxEdits
    BY <2>1, RollbackAssumption, FS_Subset, FS_CardinalityType
  <2>3. disk \in [Files -> Content]
    BY <2>1, PathsOfLists DEF Content
  <2> QED
    BY <2>2, <2>3, RollbackAssumption DEF Init, TypeOK, RoundInv
<1>2. TypeOK /\ RoundInv /\ [Next]_vars => TypeOK' /\ RoundInv'
  <2> SUFFICES ASSUME TypeOK, RoundInv, [Next]_vars PROVE TypeOK' /\ RoundInv'
    OBVIOUS
  <2> USE RollbackAssumption, PathsOfLists DEF TypeOK, RoundInv
  <2> HIDE DEF Content, Paths
  <2>1. CASE Implement
    <3>1. DOMAIN saved' \subseteq Paths /\ \A p \in DOMAIN saved' : saved'[p] \in Content
      <4>1. PICK readable \in SUBSET Files : saved' = Snapshots(readable)
        BY <2>1 DEF Implement
      <4>2. TargetFiles \subseteq Paths /\ Absent \in Content
        BY DEF TargetFiles, Paths, Content
      <4> QED
        BY <4>1, <4>2 DEF Snapshots
    <3>2. /\ phase' = "implementing" /\ round' \in 1..MaxRounds /\ faults' \in 0..MaxFaults
          /\ preDirty' \subseteq Paths /\ dirtyThen' \subseteq Paths
          /\ base' = disk /\ result' = "none"
          /\ UNCHANGED <<disk, reported, changed, edits, hidden>>
      BY <2>1 DEF Implement, MeetsFault
    <3> QED
      BY <3>1, <3>2
  <2>2. CASE ExecutorWrites \/ UserEdits
    <3>1. disk' \in [Files -> Content] /\ edits' \in 0..MaxEdits
      <4>1. phase = "implementing" => ByRound(round) \in Content
        BY DEF Content, Written
      <4>2. Absent \in Content /\ Users \in Content
        BY DEF Content
      <4> QED
        BY <2>2, <4>1, <4>2 DEF ExecutorWrites, UserEdits
    <3> QED
      BY <2>2, <3>1 DEF ExecutorWrites, UserEdits, lists
  <2>3. CASE ImplementDone
    BY <2>3 DEF ImplementDone, ChangedFiles, MeetsFault, tree, Paths
  <2>4. CASE ImplementFails
    BY <2>4 DEF ImplementFails, tree
  <2>5. ASSUME NEW failing \in SUBSET Paths, NEW ok \in BOOLEAN,
               NEW torn \in SUBSET MayBeTorn(failing),
               CannotRestore(failing, ok), RollBack(failing, torn, ok),
               MeetsFault(~ok \/ failing \cap Files # {}), phase' \in {"ready", "ended"}
        PROVE  TypeOK' /\ RoundInv'
    <3>1. disk' \in [Files -> Content]
      BY <2>5 DEF RollBack, Restore, Restored, Content
    <3>2. /\ changed' \subseteq Paths /\ hidden' \subseteq Files
          /\ result' \in {"clean", "unclean"} /\ faults' \in 0..MaxFaults
      BY <2>5 DEF RollBack, Restored, MeetsFault
    <3>3. /\ reported' = {} /\ saved' = << >> /\ dirtyThen' = {} /\ DOMAIN saved' = {}
          /\ UNCHANGED <<base, round, preDirty, edits>>
      BY <2>5 DEF RollBack
    <3> QED
      BY <2>5, <3>1, <3>2, <3>3
  <2>6. CASE VerifyBlocks \/ GateBlocks
    BY <2>5, <2>6 DEF VerifyBlocks, GateBlocks
  <2>7. CASE UNCHANGED vars
    BY <2>7 DEF vars
  <2> QED
    BY <2>1, <2>2, <2>3, <2>4, <2>6, <2>7 DEF Next, Stop
<1> QED
  BY <1>1, <1>2, PTL DEF Spec

\* Between two writes of a round what it has written is not on the list yet.
ListInv ==
    \A f \in Files : disk[f] \in Written =>
        \/ {f, Line(f)} \cap changed # {} \/ f \in hidden
        \/ phase = "implementing" /\ Wrote(f)

\* What an executor has written is on the list, or in one of the three gaps.
THEOREM ListIsKept == Spec => []WritesAreListed
<1>1. Init => ListInv
  BY DEF Init, ListInv, Written, ByRound, Users, Committed, Absent, Head
<1>2. TypeOK /\ RoundInv /\ ListInv /\ [Next]_vars => ListInv'
  <2> SUFFICES ASSUME TypeOK, RoundInv, ListInv, [Next]_vars, NEW f \in Files,
                      disk'[f] \in Written
               PROVE  \/ {f, Line(f)} \cap changed' # {} \/ f \in hidden'
                      \/ phase' = "implementing" /\ Wrote(f)'
    BY DEF ListInv
  <2>1. CASE Implement
    BY <2>1 DEF Implement, ListInv
  <2>2. CASE ExecutorWrites \/ UserEdits
    <3>1. Users \notin Written /\ Absent \notin Written
      BY DEF Users, Absent, Written, ByRound
    <3> QED
      BY <2>2, <3>1 DEF ExecutorWrites, UserEdits, lists, ListInv, TypeOK, Wrote
  <2>3. CASE ImplementDone
    <3>1. PICK report \in SUBSET Files, ok \in BOOLEAN :
              /\ changed' = changed \cup ChangedFiles(report, ok)
              /\ hidden' = hidden \cup {g \in Files : /\ Wrote(g) /\ g \notin report
                                                      /\ ok => Line(g) \in preDirty
                                                      /\ g \notin changed}
      BY <2>3 DEF ImplementDone
    <3>2. disk' = disk /\ hidden \subseteq hidden' /\ changed \subseteq changed'
      BY <2>3, <3>1 DEF ImplementDone, tree
    <3>3. CASE Wrote(f) /\ f \notin report /\ f \notin changed /\ ok /\ Line(f) \notin preDirty
      <4>1. disk[f] # Committed(f)
        BY <3>3 DEF Wrote, ByRound, Committed, Absent, Head
      <4> QED
        BY <3>1, <3>3, <4>1 DEF ChangedFiles, Scan, Dirty
    <3>4. CASE Wrote(f) /\ f \notin report /\ f \notin changed /\ (ok => Line(f) \in preDirty)
      BY <3>1, <3>4
    <3>5. CASE f \in report \/ f \in changed
      BY <3>1, <3>5 DEF ChangedFiles
    <3>6. CASE ~Wrote(f)
      BY <3>2, <3>6 DEF ListInv
    <3> QED
      BY <3>3, <3>4, <3>5, <3>6
  <2>4. CASE ImplementFails
    BY <2>4 DEF ImplementFails, tree, ListInv
  <2>5. ASSUME phase = "implemented", NEW failing \in SUBSET Paths, NEW ok \in BOOLEAN,
               NEW torn \in SUBSET MayBeTorn(failing), RollBack(failing, torn, ok)
        PROVE  {f, Line(f)} \cap changed' # {} \/ f \in hidden'
    <3>1. disk'[f] = IF f \in Restored(failing, ok) THEN saved[f]
                     ELSE IF f \in torn THEN Torn ELSE disk[f]
      BY <2>5 DEF RollBack, Restore
    <3>2. Torn \notin Written
      BY DEF Torn, Written, ByRound
    <3>3. CASE f \in Restored(failing, ok)
      BY <2>5, <3>1, <3>3 DEF RollBack
    <3>4. CASE f \notin Restored(failing, ok)
      <4>1. {f, Line(f)} \cap changed # {} \/ f \in hidden
        BY <2>5, <3>1, <3>2, <3>4 DEF ListInv
      <4>2. Line(f) = f \/ Line(f) \notin Files
        BY RollbackAssumption DEF Line
      <4> QED
        BY <2>5, <3>4, <4>1, <4>2 DEF RollBack, Restored
    <3> QED
      BY <3>3, <3>4
  <2>6. CASE VerifyBlocks \/ GateBlocks
    BY <2>5, <2>6 DEF VerifyBlocks, GateBlocks
  <2>7. CASE UNCHANGED vars
    BY <2>7 DEF vars, ListInv, Wrote
  <2> QED
    BY <2>1, <2>2, <2>3, <2>4, <2>6, <2>7 DEF Next, Stop
<1>3. ListInv => WritesAreListed
  BY DEF ListInv, WritesAreListed
<1> QED
  BY <1>1, <1>2, <1>3, TypeCorrect, PTL DEF Spec
=============================================================================
