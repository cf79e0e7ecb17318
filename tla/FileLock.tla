------------------------------ MODULE FileLock ------------------------------
(***************************************************************************)
(* acquire_file_lock and release_file_lock: a lock is a file created with  *)
(* O_EXCL that holds the pid of its owner; giving it up is to unlink the   *)
(* name, whatever file stands there by then.  With a stale limit, a lock   *)
(* whose owner is dead, or that is old and names none, is taken over by    *)
(* unlinking it as well.  Reading the lock, judging it and unlinking it    *)
(* are steps of their own.  Hosts differ in whether a file that somebody   *)
(* has open can be unlinked.                                               *)
(***************************************************************************)
CONSTANTS
    Procs,         \* the processes that use one lock
    NoLock,        \* the lock file does not exist
    StaleTakeover, \* the caller passes stale_after_seconds
    Hosts,         \* the kinds of host the program runs on
    PromptWrites   \* the pid is written at once and without an error

\* The file's text: none yet, none and older than the limit, or a pid.
Bodies   == {"empty", "aged", "pid"}
LockFile == [owner : Procs, body : Bodies]

ASSUME LockAssumption ==
    /\ NoLock \notin LockFile
    /\ StaleTakeover \in BOOLEAN
    /\ Hosts \subseteq {"posix", "windows"}
    /\ PromptWrites \in BOOLEAN

VARIABLES
    lock, \* the lock file
    pc,   \* where each process stands; "dead" when it has ended, in any way
    seen, \* the lock file a process is judging
    host  \* where they all run

lockVars == <<lock, pc, seen, host>>

Points == {"out", "trying", "writing", "held", "closing",
           "reading", "removing", "polling", "dead"}

LockTypeOK ==
    /\ lock \in LockFile \cup {NoLock}
    /\ pc \in [Procs -> Points]
    /\ seen \in [Procs -> LockFile \cup {NoLock}]
    /\ host \in Hosts

LockInit ==
    /\ lock = NoLock
    /\ pc = [p \in Procs |-> "out"]
    /\ seen = [p \in Procs |-> NoLock]
    /\ host \in Hosts

-----------------------------------------------------------------------------
\* All steps are of one process, on one host.
Goto(p, point) == pc' = [pc EXCEPT ![p] = point] /\ UNCHANGED host

\* Mutant: the owner closes the file once its pid is in it.
OpenBriefly == {"writing", "reading"}

\* The owner's descriptor is open until it closes it, a reader's while it reads.
OpenPoints == {"writing", "held", "reading"}

Unlinkable ==
    /\ lock # NoLock
    /\ host = "windows" => \A q \in Procs : pc[q] \notin OpenPoints

\* path_lock: a process wants the lock.
Enter(p) ==
    /\ pc[p] = "out"
    /\ Goto(p, "trying")
    /\ UNCHANGED <<lock, seen>>

\* Mutant: the file is opened without O_EXCL.
CreateShared(p) ==
    /\ pc[p] = "trying"
    /\ lock' = [owner |-> p, body |-> "empty"]
    /\ Goto(p, "writing")
    /\ UNCHANGED seen

\* os.open with O_CREAT and O_EXCL.
Create(p) ==
    /\ pc[p] = "trying" /\ lock = NoLock
    /\ lock' = [owner |-> p, body |-> "empty"]
    /\ Goto(p, "writing")
    /\ UNCHANGED seen

OwnFile(p) == lock # NoLock /\ lock.owner = p

\* _write_lock_metadata writes to the file p created, under its name or not;
\* an OSError is swallowed and leaves it empty.
WriteMetadata(p) ==
    /\ pc[p] = "writing"
    /\ \/ OwnFile(p) /\ lock' = [lock EXCEPT !.body = "pid"]
       \/ ~(OwnFile(p) /\ PromptWrites) /\ UNCHANGED lock
    /\ Goto(p, "held")
    /\ UNCHANGED seen

\* The lock exists.  Without a stale limit it is not even read.
LookAt(p) ==
    /\ pc[p] = "trying" /\ lock # NoLock
    /\ IF StaleTakeover
         THEN Goto(p, "reading") /\ seen' = [seen EXCEPT ![p] = lock]
         ELSE Goto(p, "polling") /\ UNCHANGED seen
    /\ UNCHANGED lock

\* Mutant: only the age of a lock counts.
LooksStaleByAge(file) == file.body = "aged"

\* _lock_looks_stale, once the file is read: by its pid, else by its age.
LooksStale(file) ==
    \/ file.body = "aged"
    \/ file.body = "pid" /\ pc[file.owner] = "dead"

Judge(p) ==
    /\ pc[p] = "reading"
    /\ Goto(p, IF LooksStale(seen[p]) THEN "removing" ELSE "polling")
    /\ seen' = [seen EXCEPT ![p] = NoLock]
    /\ UNCHANGED lock

\* lock_path.unlink(): whichever lock stands there now; an OSError (it is gone,
\* or open elsewhere on Windows) is swallowed.
Remove(p) ==
    /\ pc[p] = "removing"
    /\ IF Unlinkable
         THEN lock' = NoLock /\ Goto(p, "trying")
         ELSE UNCHANGED lock /\ Goto(p, "polling")
    /\ UNCHANGED seen

\* Before the deadline: sleep and try again.
Retry(p) ==
    /\ pc[p] = "polling"
    /\ Goto(p, "trying")
    /\ UNCHANGED <<lock, seen>>

\* Past the deadline: ValueError.
GiveUp(p) ==
    /\ pc[p] = "polling"
    /\ Goto(p, "out")
    /\ UNCHANGED <<lock, seen>>

\* release_file_lock closes the descriptor ...
Close(p) ==
    /\ pc[p] = "held"
    /\ Goto(p, "closing")
    /\ UNCHANGED <<lock, seen>>

\* Mutant: a lock without its owner's pid is left alone.
UnlinkIfWritten(p) ==
    /\ pc[p] = "closing"
    /\ lock' = IF Unlinkable /\ lock.body = "pid" THEN NoLock ELSE lock
    /\ Goto(p, "out")
    /\ UNCHANGED seen

\* ... and unlinks the name; an OSError is swallowed.
Unlink(p) ==
    /\ pc[p] = "closing"
    /\ lock' = IF Unlinkable THEN NoLock ELSE lock
    /\ Goto(p, "out")
    /\ UNCHANGED seen

\* A process exits or is killed; its descriptors are closed.
End(p) ==
    /\ pc[p] # "dead"
    /\ Goto(p, "dead")
    /\ seen' = [seen EXCEPT ![p] = NoLock]
    /\ UNCHANGED lock

\* An empty lock file outlives the stale limit.
Age ==
    /\ lock # NoLock /\ lock.body = "empty"
    /\ PromptWrites => pc[lock.owner] = "dead"
    /\ lock' = [lock EXCEPT !.body = "aged"]
    /\ UNCHANGED <<pc, seen, host>>

\* What a process in acquire_file_lock does next, giving up apart.
Acquire(p) ==
    \/ Create(p) \/ WriteMetadata(p)
    \/ LookAt(p) \/ Judge(p) \/ Remove(p) \/ Retry(p)

\* What a process inside path_lock does next; the body of the lock ends.
LockStep(p) == Acquire(p) \/ GiveUp(p) \/ Close(p) \/ Unlink(p)

\* Everyone has ended.
AllEnded == (\A p \in Procs : pc[p] = "dead") /\ UNCHANGED lockVars

LockNext ==
    \/ \E p \in Procs : Enter(p) \/ LockStep(p) \/ End(p)
    \/ Age
    \/ AllEnded

LockSpec == LockInit /\ [][LockNext]_lockVars

\* A process that is in path_lock keeps running: the wait for the lock is
\* bounded, and the body ends by the time limits of its own calls.
LiveLockSpec == LockSpec /\ \A p \in Procs : WF_lockVars(LockStep(p))

-----------------------------------------------------------------------------
Inside(p) == pc[p] \in {"writing", "held"}

\* At most one process holds the lock.  The state file's lock is asked for without
\* a stale limit, and then this is one save at a time.
MutualExclusion ==
    \A p, q \in Procs : pc[p] = "held" /\ pc[q] = "held" => p = q

\* Nobody unlinks the lock of a process inside it: locks are not taken over,
\* or a file its owner has open cannot be unlinked.
Protected == ~StaleTakeover \/ host = "windows"

\* Nobody's reading keeps a lock from being unlinked.
Removable == ~StaleTakeover \/ host = "posix"

\* One execution run per project: the body of _project_execution_lock, whose lock
\* is taken over when it looks stale.  On Windows the runs that judge the lock of
\* a dead one at the same time do not remove the lock one of them has taken since,
\* as its owner keeps it open; elsewhere nothing stops them.
ProtectedExclusion == Protected => MutualExclusion

\* A lock file belongs to a process that holds it, is giving it up, or is dead.
LockHasHolder ==
    lock # NoLock => pc[lock.owner] \in {"writing", "held", "closing", "dead"}

\* Nobody who has returned from release_file_lock still blocks the others, where
\* those that read the lock do not keep it.
ReleasedLockGoes == Removable => LockHasHolder

OwnerDead == lock # NoLock /\ lock.body # "empty" /\ pc[lock.owner] = "dead"

\* The lock a dead process left is removed by whoever wants it next, unless
\* that process dies as well or another's reading keeps the lock: a crash blocks
\* no later run.
DeadOwnersLockGoes ==
    \A p \in Procs :
        host = "posix" /\ pc[p] = "trying" /\ OwnerDead ~> ~OwnerDead \/ pc[p] = "dead"

=============================================================================
