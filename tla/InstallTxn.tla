------------------------------ MODULE InstallTxn ------------------------------
(***************************************************************************)
(* The installer of ccsubagents and its journalled transactions.           *)
(*                                                                         *)
(* A process is one invocation of the command: install, update or          *)
(* uninstall, global scope.  It runs the flow inside a transaction of      *)
(* scope "flow" (txn.Engine around the whole command, which journals no    *)
(* file) and, for install and update, changes the managed files inside a   *)
(* nested transaction of scope "work" (txn.Begin in installOrUpdate).      *)
(* Each scope has one lock file and one journal file.  A journal lists,    *)
(* for each managed file touched, how to undo it; the old contents are in  *)
(* the transaction's backup directory.                                     *)
(*                                                                         *)
(* Every step is one change of the file system, so a crash may fall        *)
(* between any two of them: the process is gone and the disk stays.  The   *)
(* content of a managed file is the release it comes from.  Non-Windows    *)
(* rules are used for stale locks, and process ids are not reused.         *)
(***************************************************************************)
EXTENDS Naturals, FiniteSets

CONSTANTS
    Processes,   \* invocations of the command
    Nobody,      \* no process
    Files,       \* the managed files of an installation
    MaxRelease,  \* releases are 1 .. MaxRelease
    Kinds,       \* the commands that are run
    MaxAlive,    \* how many of them run at the same time
    MaxCrashes,  \* how many of them crash
    MaxFaults,   \* how many file-system or network operations fail
    LocksStick   \* whether the removal of a lock file is among them

ASSUME InstallAssumption ==
    /\ IsFiniteSet(Processes)
    /\ Nobody \notin Processes
    /\ Files # {}
    /\ MaxRelease \in Nat \ {0}
    /\ Kinds \subseteq {"install", "update", "uninstall"}
    /\ MaxAlive \in Nat \ {0}
    /\ MaxCrashes \in Nat
    /\ MaxFaults \in Nat
    /\ LocksStick \in BOOLEAN

VARIABLES
    files,    \* managed file -> the release it comes from, or Absent
    tracked,  \* the release that tracked.json names, or Absent
    lock,     \* scope -> its lock file
    journal,  \* scope -> its journal file
    backups,  \* scope -> transaction -> file -> saved content, or Absent
    pc,       \* where each process is
    scope,    \* the transaction it is in
    mode,     \* why it is undoing, dropping a journal or releasing a lock
    cmd,      \* what it was asked to do
    prior,    \* the tracked release it loaded (previousState)
    mem,      \* scope -> the session's copy of the journal
    seen,     \* the journal it is undoing or dropping
    snap,     \* file -> the content captured in memory, or Unset
    todo,     \* files it has still to write, restore, undo or remove
    broken,   \* an undo step has failed
    faults    \* operations that have failed so far

disk    == <<files, tracked, lock, journal, backups>>
session == <<cmd, prior, mem, snap>>
undoing == <<mode, seen, todo, broken>>
vars    == <<files, tracked, lock, journal, backups, pc, scope, mode, cmd, prior,
             mem, seen, snap, todo, broken, faults>>

Scopes  == {"flow", "work"}
Absent  == 0
Unset   == MaxRelease + 1
Content == 0 .. MaxRelease

\* left, which nothing in the code reads: its owner has tried in vain to remove it.
Locks == [by: Processes \union {Nobody}, written: BOOLEAN, left: BOOLEAN]
NoLock == [by |-> Nobody, written |-> FALSE, left |-> FALSE]

Journals ==
    [tx: Processes \union {Nobody}, committed: BOOLEAN, applied: BOOLEAN,
     undo: [Files -> {"none", "absent", "present"}]]

Planned(p) ==
    [tx |-> p, committed |-> FALSE, applied |-> FALSE, undo |-> [f \in Files |-> "none"]]

NoJournal == Planned(Nobody)

NoCommand == [kind |-> "none", release |-> Absent]

Ended == {"idle", "ok", "failed", "crashed"}

Locations ==
    Ended \union
    {"recover", "undo", "drop", "sweep", "lock", "stamp", "inspect", "break", "relock",
     "open", "mark", "load", "mutate", "record", "save", "commit", "restore", "release",
     "remove", "finish"}

Running(p) == pc[p] \notin Ended

TypeOK ==
    /\ files \in [Files -> Content]
    /\ tracked \in Content
    /\ lock \in [Scopes -> Locks]
    /\ journal \in [Scopes -> Journals]
    /\ backups \in [Scopes -> [Processes -> [Files -> Content]]]
    /\ pc \in [Processes -> Locations]
    /\ scope \in [Processes -> Scopes]
    /\ mode \in [Processes -> {"none", "recover", "discard", "commit", "rollback", "close"}]
    /\ cmd \in [Processes -> [kind: Kinds \union {"none"}, release: Content]]
    /\ prior \in [Processes -> Content \union {Unset}]
    /\ mem \in [Processes -> [Scopes -> Journals]]
    /\ seen \in [Processes -> Journals]
    /\ snap \in [Processes -> [Files -> Content \union {Unset}]]
    /\ todo \in [Processes -> SUBSET Files]
    /\ broken \in [Processes -> BOOLEAN]
    /\ faults \in 0 .. MaxFaults

\* Either nothing is installed or one release is, and no command is running.
Init ==
    /\ tracked \in Content
    /\ files = [f \in Files |-> tracked]
    /\ lock = [s \in Scopes |-> NoLock]
    /\ journal = [s \in Scopes |-> NoJournal]
    /\ backups = [s \in Scopes |-> [p \in Processes |-> [f \in Files |-> Absent]]]
    /\ pc = [p \in Processes |-> "idle"]
    /\ scope = [p \in Processes |-> "flow"]
    /\ mode = [p \in Processes |-> "none"]
    /\ cmd = [p \in Processes |-> NoCommand]
    /\ prior = [p \in Processes |-> Unset]
    /\ mem = [p \in Processes |-> [s \in Scopes |-> NoJournal]]
    /\ seen = [p \in Processes |-> NoJournal]
    /\ snap = [p \in Processes |-> [f \in Files |-> Unset]]
    /\ todo = [p \in Processes |-> {}]
    /\ broken = [p \in Processes |-> FALSE]
    /\ faults = 0

-----------------------------------------------------------------------------
\* Control.  At is a guard; Go moves on within a scope.
At(p, l) == pc[p] = l
Go(p, l) == pc' = [pc EXCEPT ![p] = l]

\* An operation of the file system, or of the network, fails.
Fault == faults < MaxFaults /\ faults' = faults + 1

StartUndo(p, s, j, why) ==
    /\ Go(p, "undo")
    /\ scope' = [scope EXCEPT ![p] = s]
    /\ mode' = [mode EXCEPT ![p] = why]
    /\ seen' = [seen EXCEPT ![p] = j]
    /\ todo' = [todo EXCEPT ![p] = IF j.applied THEN {f \in Files : j.undo[f] # "none"} ELSE {}]
    /\ broken' = [broken EXCEPT ![p] = FALSE]

\* Engine.Execute undoes the flow when its step returns an error.
RollBackFlow(p) == StartUndo(p, "flow", mem[p]["flow"], "rollback")

\* Return from the command: nothing of the process is left but its outcome.
End(p, outcome) ==
    /\ Go(p, outcome)
    /\ scope' = [scope EXCEPT ![p] = "flow"]
    /\ mode' = [mode EXCEPT ![p] = "none"]
    /\ mem' = [mem EXCEPT ![p] = [s \in Scopes |-> NoJournal]]
    /\ seen' = [seen EXCEPT ![p] = NoJournal]
    /\ snap' = [snap EXCEPT ![p] = [f \in Files |-> Unset]]
    /\ todo' = [todo EXCEPT ![p] = {}]
    /\ broken' = [broken EXCEPT ![p] = FALSE]
    /\ cmd' = [cmd EXCEPT ![p] = NoCommand]
    /\ prior' = [prior EXCEPT ![p] = Unset]

\* Begin returns an error and holds no lock.
BeginFails(p) ==
    \/ scope[p] = "flow" /\ End(p, "failed")
    \/ scope[p] = "work" /\ RollBackFlow(p) /\ UNCHANGED session

\* Session.Close: only the lock is given up.
Close(p) ==
    /\ Go(p, "release")
    /\ mode' = [mode EXCEPT ![p] = "close"]
    /\ UNCHANGED <<scope, seen, todo, broken>>

Start(p) ==
    /\ At(p, "idle")
    /\ Cardinality({q \in Processes : Running(q)}) < MaxAlive
    /\ \E k \in Kinds, r \in 1 .. MaxRelease :
          cmd' = [cmd EXCEPT ![p] =
                    [kind |-> k, release |-> IF k = "uninstall" THEN Absent ELSE r]]
    /\ Go(p, "recover")
    /\ UNCHANGED <<disk, scope, undoing, prior, mem, snap, faults>>

-----------------------------------------------------------------------------
(***************************************************************************)
(* Recover: roll back what the journal says, before the lock is asked for. *)
(* A committed journal is only removed.                                    *)
(***************************************************************************)
\* Mutation: the commit flag is not looked at.
NeverDiscarded(j) == FALSE

Discardable(j) == j.committed

ReadJournal(p) ==
    LET s == scope[p]  j == journal[s] IN
    /\ At(p, "recover")
    /\ \/ /\ j = NoJournal
          /\ Go(p, "lock")
          /\ UNCHANGED <<scope, undoing>>
       \/ /\ j # NoJournal /\ Discardable(j)
          /\ Go(p, "drop")
          /\ mode' = [mode EXCEPT ![p] = "discard"]
          /\ seen' = [seen EXCEPT ![p] = j]
          /\ UNCHANGED <<scope, todo, broken>>
       \/ j # NoJournal /\ ~Discardable(j) /\ StartUndo(p, s, j, "recover")
    /\ UNCHANGED <<disk, session, faults>>

\* The journal cannot be read.
JournalUnreadable(p) ==
    /\ At(p, "recover")
    /\ Fault
    /\ BeginFails(p)
    /\ UNCHANGED disk

\* rollbackFromJournal, one file: a lost backup is an error, the rest goes on.
UndoFile(p) ==
    /\ At(p, "undo")
    /\ \E f \in todo[p] :
         LET saved == backups[scope[p]][seen[p].tx][f]
             lost  == seen[p].undo[f] = "present" /\ saved = Absent
         IN  /\ todo' = [todo EXCEPT ![p] = @ \ {f}]
             /\ files' = IF lost THEN files
                         ELSE [files EXCEPT ![f] =
                                 IF seen[p].undo[f] = "present" THEN saved ELSE Absent]
             /\ broken' = [broken EXCEPT ![p] = @ \/ lost]
    /\ UNCHANGED <<tracked, lock, journal, backups, pc, scope, mode, seen, session, faults>>

UndoFails(p) ==
    /\ At(p, "undo")
    /\ Fault
    /\ \E f \in todo[p] : todo' = [todo EXCEPT ![p] = @ \ {f}]
    /\ broken' = [broken EXCEPT ![p] = TRUE]
    /\ UNCHANGED <<disk, pc, scope, mode, seen, session>>

\* After a failed undo the journal stays: Begin fails, or Rollback leaves only
\* the lock to be given up.
Undone(p) ==
    /\ At(p, "undo")
    /\ todo[p] = {}
    /\ \/ ~broken[p] /\ Go(p, "drop") /\ UNCHANGED <<scope, undoing, session>>
       \/ broken[p] /\ mode[p] = "recover" /\ BeginFails(p)
       \/ broken[p] /\ mode[p] = "rollback" /\ Close(p) /\ UNCHANGED session
    /\ UNCHANGED <<disk, faults>>

\* The journal file is removed first, then the backups.  removeIfExists and
\* removeAllIgnore report no error: what cannot be removed stays, and the process
\* goes on as if it were gone.
DropJournal(p) ==
    /\ At(p, "drop")
    /\ \/ journal' = [journal EXCEPT ![scope[p]] = NoJournal] /\ UNCHANGED faults
       \/ Fault /\ UNCHANGED journal
    /\ Go(p, IF mode[p] = "discard" THEN "lock" ELSE "sweep")
    /\ UNCHANGED <<files, tracked, lock, backups, scope, undoing, session>>

SweepBackups(p) ==
    LET saved == backups[scope[p]][seen[p].tx] IN
    /\ At(p, "sweep")
    /\ \E left \in SUBSET Files :
         /\ backups' = [backups EXCEPT ![scope[p]][seen[p].tx] =
                           [f \in Files |-> IF f \in left THEN saved[f] ELSE Absent]]
         /\ \/ left = {} /\ UNCHANGED faults
            \/ left # {} /\ Fault
    /\ Go(p, IF mode[p] = "recover" THEN "lock" ELSE "release")
    /\ UNCHANGED <<files, tracked, lock, journal, scope, undoing, session>>

-----------------------------------------------------------------------------
(***************************************************************************)
(* acquireLock: create the lock file, which must not exist; write the      *)
(* process id into it.  A file that exists is inspected once: when its     *)
(* process is dead it is removed, whatever it holds by then, and creation  *)
(* is tried a second time.                                                 *)
(***************************************************************************)
\* Mutation: no deferred Close.
FreedUnlessClosing(p) ==
    IF mode[p] = "close" THEN lock ELSE [lock EXCEPT ![scope[p]] = NoLock]

\* Giving a lock back removes the lock file, whoever made it.
Freed(p) == [lock EXCEPT ![scope[p]] = NoLock]

\* The file cannot be removed: it stays, and nobody hears of it.
Stuck(p) ==
    IF lock[scope[p]].by = p THEN [lock EXCEPT ![scope[p]].left = TRUE] ELSE lock

CreateLock(p) ==
    /\ lock[scope[p]] = NoLock
    /\ lock' = [lock EXCEPT ![scope[p]] = [by |-> p, written |-> FALSE, left |-> FALSE]]
    /\ Go(p, "stamp")
    /\ UNCHANGED <<files, tracked, journal, backups, scope, undoing, session, faults>>

TryLock(p) ==
    /\ At(p, "lock")
    /\ \/ CreateLock(p)
       \/ /\ lock[scope[p]] # NoLock
          /\ Go(p, "inspect")
          /\ UNCHANGED <<disk, scope, undoing, session, faults>>
       \/ Fault /\ BeginFails(p) /\ UNCHANGED disk

\* Mutations: any lock is stale; only a lock without a process id is.
StaleWhenAny(l) == l # NoLock
StaleByAgeOnly(l) == l # NoLock /\ ~l.written /\ ~Running(l.by)

\* A file without a process id counts as stale when it is a day old, which no
\* running command waits for.
Stale(l) == l # NoLock /\ ~Running(l.by)

InspectLock(p) ==
    LET l == lock[scope[p]] IN
    /\ At(p, "inspect")
    /\ \/ l = NoLock /\ Go(p, "relock") /\ UNCHANGED <<scope, undoing, session>>
       \/ Stale(l) /\ Go(p, "break") /\ UNCHANGED <<scope, undoing, session>>
       \/ l # NoLock /\ (~Stale(l) \/ ~l.written) /\ BeginFails(p)
    /\ UNCHANGED <<disk, faults>>

BreakLock(p) ==
    /\ At(p, "break")
    /\ lock' = [lock EXCEPT ![scope[p]] = NoLock]
    /\ Go(p, "relock")
    /\ UNCHANGED <<files, tracked, journal, backups, scope, undoing, session, faults>>

\* The lock file cannot be inspected, or not be removed: here it is an error.
RecoveryFails(p) ==
    /\ At(p, "inspect") \/ At(p, "break")
    /\ Fault
    /\ BeginFails(p)
    /\ UNCHANGED disk

Relock(p) ==
    /\ At(p, "relock")
    /\ \/ CreateLock(p)
       \/ lock[scope[p]] # NoLock /\ BeginFails(p) /\ UNCHANGED <<disk, faults>>
       \/ Fault /\ BeginFails(p) /\ UNCHANGED disk

\* The write goes to the file this process created, even when its name is gone.
\* When it fails the file is removed, unless that fails too.
StampLock(p) ==
    LET s == scope[p] IN
    /\ At(p, "stamp")
    /\ \/ /\ lock' = IF lock[s].by = p THEN [lock EXCEPT ![s].written = TRUE] ELSE lock
          /\ Go(p, "open")
          /\ UNCHANGED <<scope, undoing, session, faults>>
       \/ /\ Fault
          /\ lock' = Freed(p) \/ (LocksStick /\ lock' = Stuck(p))
          /\ BeginFails(p)
    /\ UNCHANGED <<files, tracked, journal, backups>>

\* The new journal; an error gives the lock back.
OpenJournal(p) ==
    LET s == scope[p] IN
    /\ At(p, "open")
    /\ \/ /\ journal' = [journal EXCEPT ![s] = Planned(p)]
          /\ mem' = [mem EXCEPT ![p][s] = Planned(p)]
          /\ Go(p, "mark")
          /\ UNCHANGED <<scope, undoing, faults>>
       \/ Fault /\ Close(p) /\ UNCHANGED <<journal, mem>>
    /\ UNCHANGED <<files, tracked, lock, backups, cmd, prior, snap>>

\* MarkApplied, before the step is run.  When it fails the engine rolls the flow
\* back, while installOrUpdate only closes its session.
WriteApplied(p) ==
    LET s == scope[p]  j == [mem[p][s] EXCEPT !.applied = TRUE] IN
    /\ mem' = [mem EXCEPT ![p][s] = j]
    /\ journal' = [journal EXCEPT ![s] = j]

MarkApplied(p) ==
    /\ At(p, "mark")
    /\ \/ /\ WriteApplied(p)
          /\ Go(p, IF scope[p] = "flow" THEN "load" ELSE "mutate")
          /\ todo' = [todo EXCEPT ![p] = IF scope[p] = "work" THEN Files ELSE {}]
          /\ UNCHANGED <<scope, mode, seen, broken, faults>>
       \/ /\ Fault
          /\ \/ scope[p] = "flow" /\ RollBackFlow(p)
             \/ scope[p] = "work" /\ Close(p)
          /\ UNCHANGED <<journal, mem>>
    /\ UNCHANGED <<files, tracked, lock, backups, cmd, prior, snap>>

-----------------------------------------------------------------------------
(***************************************************************************)
(* The command itself, inside the flow's transaction.                      *)
(***************************************************************************)
\* tracked.json is read; an update to the release it names has nothing to do,
\* an uninstallation without it neither.
Load(p) ==
    LET c == cmd[p] IN
    /\ At(p, "load")
    /\ prior' = [prior EXCEPT ![p] = tracked]
    /\ \/ /\ \/ c.kind = "install"
             \/ c.kind = "update" /\ tracked # c.release
          /\ Go(p, "recover")
          /\ scope' = [scope EXCEPT ![p] = "work"]
          /\ UNCHANGED undoing
       \/ /\ \/ c.kind = "update" /\ tracked = c.release
             \/ c.kind = "uninstall" /\ tracked = Absent
          /\ Go(p, "finish")
          /\ UNCHANGED <<scope, undoing>>
       \/ /\ c.kind = "uninstall" /\ tracked # Absent
          /\ Go(p, "remove")
          /\ todo' = [todo EXCEPT ![p] = Files]
          /\ UNCHANGED <<scope, mode, seen, broken>>
    /\ UNCHANGED <<disk, cmd, mem, snap, faults>>

\* Unreadable state, an unknown release, a failed download or attestation.
LoadFails(p) ==
    /\ At(p, "load")
    /\ Fault
    /\ RollBackFlow(p)
    /\ UNCHANGED <<disk, session>>

\* Mutation: every file is restored, captured or not.
RestoreEvery(p) ==
    /\ Go(p, "restore")
    /\ todo' = [todo EXCEPT ![p] = Files]
    /\ UNCHANGED <<scope, mode, seen, broken>>

\* An error in the nested transaction: first the captured contents are put back
\* from memory, then Session.Rollback works through the journal.
StartRestore(p) ==
    /\ Go(p, "restore")
    /\ todo' = [todo EXCEPT ![p] = {f \in Files : snap[p][f] # Unset}]
    /\ UNCHANGED <<scope, mode, seen, broken>>

\* Mutation: an error of the backup's write is ignored.
BackupSkipped(p, f) == backups

\* CaptureFile: the content in memory, then a backup of it.
Backup(p, f) ==
    IF files[f] = Absent THEN backups
    ELSE [backups EXCEPT !["work"][p][f] = files[f]]

Capture(p) ==
    /\ At(p, "mutate")
    /\ \E f \in todo[p] :
         /\ snap[p][f] = Unset
         /\ snap' = [snap EXCEPT ![p][f] = files[f]]
         /\ \/ /\ backups' = Backup(p, f)
               /\ Go(p, "record")
               /\ UNCHANGED <<scope, undoing, faults>>
            \/ /\ Fault
               /\ Go(p, "restore")
               /\ todo' = [todo EXCEPT ![p] = {g \in Files : g = f \/ snap[p][g] # Unset}]
               /\ UNCHANGED <<backups, scope, mode, seen, broken>>
    /\ UNCHANGED <<files, tracked, lock, journal, cmd, prior, mem>>

\* OnSnapshot: the undo record is appended in memory and the journal rewritten.
Recorded(p) ==
    [mem[p]["work"] EXCEPT !.undo =
        [f \in Files |-> CASE snap[p][f] = Unset  -> "none"
                           [] snap[p][f] = Absent -> "absent"
                           [] OTHER               -> "present"]]

Record(p) ==
    /\ At(p, "record")
    /\ mem' = [mem EXCEPT ![p]["work"] = Recorded(p)]
    /\ \/ /\ journal' = [journal EXCEPT !["work"] = Recorded(p)]
          /\ Go(p, "mutate")
          /\ UNCHANGED <<scope, undoing, faults>>
       \/ Fault /\ StartRestore(p) /\ UNCHANGED journal
    /\ UNCHANGED <<files, tracked, lock, backups, cmd, prior, snap>>

\* Mutation: a file is written before its snapshot is taken.
WritableUncaptured(p, f) == TRUE

\* A file is written once its snapshot is taken.
Writable(p, f) == snap[p][f] # Unset

WriteFile(p) ==
    /\ At(p, "mutate")
    /\ \E f \in todo[p] :
         /\ Writable(p, f)
         /\ files' = [files EXCEPT ![f] = cmd[p].release]
         /\ todo' = [todo EXCEPT ![p] = @ \ {f}]
    /\ UNCHANGED <<tracked, lock, journal, backups, pc, scope, mode, seen, broken,
                   session, faults>>

MutationFails(p) ==
    /\ At(p, "mutate")
    /\ Fault
    /\ StartRestore(p)
    /\ UNCHANGED <<disk, session>>

Mutated(p) ==
    /\ At(p, "mutate")
    /\ todo[p] = {}
    /\ Go(p, "save")
    /\ UNCHANGED <<disk, scope, undoing, session, faults>>

RestoreFile(p) ==
    /\ At(p, "restore")
    /\ \E f \in todo[p] :
         /\ todo' = [todo EXCEPT ![p] = @ \ {f}]
         /\ \/ files' = [files EXCEPT ![f] = snap[p][f]] /\ UNCHANGED faults
            \/ Fault /\ UNCHANGED files
    /\ UNCHANGED <<tracked, lock, journal, backups, pc, scope, mode, seen, broken, session>>

Restored(p) ==
    /\ At(p, "restore")
    /\ todo[p] = {}
    /\ StartUndo(p, "work", mem[p]["work"], "rollback")
    /\ UNCHANGED <<disk, session, faults>>

\* tracked.json is replaced before the commit, and is in no snapshot.
SaveTracked(p) ==
    /\ At(p, "save")
    /\ \/ /\ tracked' = cmd[p].release
          /\ Go(p, "commit")
          /\ UNCHANGED <<scope, undoing, faults>>
       \/ Fault /\ StartRestore(p) /\ UNCHANGED tracked
    /\ UNCHANGED <<files, lock, journal, backups, session>>

\* The commit point is the journal that says so.  (The session sets the flag in
\* memory even when the write fails, but nothing reads it there.)
Commit(p) ==
    LET s == scope[p]  j == [mem[p][s] EXCEPT !.committed = TRUE] IN
    /\ At(p, "commit")
    /\ \/ /\ journal' = [journal EXCEPT ![s] = j]
          /\ mem' = [mem EXCEPT ![p][s] = j]
          /\ seen' = [seen EXCEPT ![p] = j]
          /\ mode' = [mode EXCEPT ![p] = "commit"]
          /\ Go(p, "drop")
          /\ UNCHANGED <<scope, todo, broken, faults>>
       \/ /\ Fault
          /\ \/ s = "work" /\ StartRestore(p)
             \/ s = "flow" /\ Close(p)
          /\ UNCHANGED <<journal, mem>>
    /\ UNCHANGED <<files, tracked, lock, backups, cmd, prior, snap>>

\* Uninstallation journals nothing and saves nothing.
RemoveFile(p) ==
    /\ At(p, "remove")
    /\ \E f \in todo[p] :
         /\ files' = [files EXCEPT ![f] = Absent]
         /\ todo' = [todo EXCEPT ![p] = @ \ {f}]
    /\ UNCHANGED <<tracked, lock, journal, backups, pc, scope, mode, seen, broken,
                   session, faults>>

ClearTracked(p) ==
    /\ At(p, "remove")
    /\ todo[p] = {}
    /\ tracked' = Absent
    /\ Go(p, "finish")
    /\ UNCHANGED <<files, lock, journal, backups, scope, undoing, session, faults>>

RemovalFails(p) ==
    /\ At(p, "remove")
    /\ Fault
    /\ RollBackFlow(p)
    /\ UNCHANGED <<disk, session>>

\* The engine marks the flow's only step applied a second time, and commits.
Finish(p) ==
    /\ At(p, "finish")
    /\ \/ /\ WriteApplied(p)
          /\ Go(p, "commit")
          /\ UNCHANGED <<scope, undoing, faults>>
       \/ Fault /\ RollBackFlow(p) /\ UNCHANGED <<journal, mem>>
    /\ UNCHANGED <<files, tracked, lock, backups, cmd, prior, snap>>

\* The lock is given back, or stays; the caller goes on.
ReleaseLock(p) ==
    /\ At(p, "release")
    /\ \/ lock' = Freed(p) /\ UNCHANGED faults
       \/ LocksStick /\ Fault /\ lock' = Stuck(p)
    /\ \/ /\ scope[p] = "work" /\ mode[p] = "commit"
          /\ Go(p, "finish")
          /\ scope' = [scope EXCEPT ![p] = "flow"]
          /\ UNCHANGED <<undoing, session>>
       \/ scope[p] = "work" /\ mode[p] # "commit" /\ RollBackFlow(p) /\ UNCHANGED session
       \/ scope[p] = "flow" /\ End(p, IF mode[p] = "commit" THEN "ok" ELSE "failed")
    /\ UNCHANGED <<files, tracked, journal, backups>>

-----------------------------------------------------------------------------
Crash(p) ==
    /\ Running(p)
    /\ Cardinality({q \in Processes : At(q, "crashed")}) < MaxCrashes
    /\ End(p, "crashed")
    /\ UNCHANGED <<disk, faults>>

Step(p) ==
    \/ ReadJournal(p) \/ JournalUnreadable(p) \/ UndoFile(p) \/ UndoFails(p) \/ Undone(p)
    \/ DropJournal(p) \/ SweepBackups(p)
    \/ TryLock(p) \/ InspectLock(p) \/ BreakLock(p) \/ RecoveryFails(p) \/ Relock(p)
    \/ StampLock(p)
    \/ OpenJournal(p) \/ MarkApplied(p)
    \/ Load(p) \/ LoadFails(p)
    \/ Capture(p) \/ Record(p) \/ WriteFile(p) \/ MutationFails(p) \/ Mutated(p)
    \/ RestoreFile(p) \/ Restored(p) \/ SaveTracked(p) \/ Commit(p)
    \/ RemoveFile(p) \/ ClearTracked(p) \/ RemovalFails(p) \/ Finish(p)
    \/ ReleaseLock(p)

Next == \E p \in Processes : Start(p) \/ Step(p) \/ Crash(p)

Spec == Init /\ [][Next]_vars

-----------------------------------------------------------------------------
(***************************************************************************)
(* Properties                                                              *)
(***************************************************************************)
\* A file as a recovery at this instant would leave it.
Pending == journal["work"].applied /\ ~journal["work"].committed

Recovered(f) ==
    LET j == journal["work"]  saved == backups["work"][j.tx][f] IN
    IF ~Pending \/ j.undo[f] = "none" THEN files[f]
    ELSE IF j.undo[f] = "absent" THEN Absent
    ELSE IF saved = Absent THEN files[f] ELSE saved

\* A crash at any instant of an install or an update, followed by the recovery
\* that the next one begins with (Recover, rollbackFromJournal), leaves every
\* managed file at the same release: never a mixture of two.
AllOrNothing == \A f, g \in Files : Recovered(f) = Recovered(g)

\* A file that the journal says existed, and whose backup is gone.
Lost(f) ==
    /\ journal["work"].undo[f] = "present"
    /\ backups["work"][journal["work"].tx][f] = Absent

\* A rollback can be carried out whenever it is needed.  OnSnapshot writes the
\* backup before the record and the journal goes before the backups, so no crash
\* loses a backup that a journal names; an operation that fails (the journal's
\* removal, which Recover and Rollback ignore) may, but not before every file is
\* back at one release.
BackupsKept ==
    Pending /\ (\E f \in Files : Lost(f)) =>
        faults > 0 /\ \A f, g \in Files : files[f] = files[g]

\* Recover, which Begin calls, fails only when one of its own operations fails
\* (TestRecover_RollsBackStaleJournal).
RecoverSucceeds ==
    [][\A p \in Processes :
          At(p, "undo") /\ mode[p] = "recover" /\ ~broken[p] /\ broken'[p] =>
              faults' # faults]_vars

\* A crash wedges no later command: run alone and with no operation failing, a
\* command fails only at a lock file whose process id was never written (which
\* acquireLock honours for a day).
RetriesSucceed ==
    [][\A p \in Processes :
          MaxAlive = 1 /\ faults' = 0 /\ ~At(p, "failed") /\ At(p, "failed")' =>
              \E s \in Scopes : lock'[s] # NoLock /\ ~lock'[s].written]_vars

\* p has created the lock of scope s and not given it up.
Holds(p, s) ==
    /\ Running(p)
    /\ \/ scope[p] = "work" /\ s = "flow"
       \/ /\ scope[p] = s
          /\ pc[p] \notin {"recover", "lock", "inspect", "break", "relock"}
          /\ mode[p] \in {"recover", "discard"} =>
                pc[p] \notin {"undo", "drop", "sweep"}

\* The lock of a live command keeps every other command out of its transaction.
OneHolder ==
    \A p, q \in Processes, s \in Scopes : Holds(p, s) /\ Holds(q, s) => p = q

\* A command that returns, in success or by any error path, leaves no lock
\* behind (Commit, Rollback, and the deferred Close of the other paths) but one
\* that it has tried in vain to remove.
LocksFreed ==
    \A s \in Scopes : lock[s] # NoLock =>
        Running(lock[s].by) \/ At(lock[s].by, "crashed") \/ lock[s].left

\* An update that fails and rolls its files back leaves tracked.json as it found
\* it (installOrUpdate, whose SaveTrackedState comes before Commit).
FailureKeepsTracked ==
    [][\A p \in Processes :
          /\ cmd[p].kind = "update" /\ prior[p] # Unset /\ ~mem[p]["work"].committed
          /\ At(p, "failed")'
          => tracked' = prior[p]]_vars

-----------------------------------------------------------------------------
(***************************************************************************)
(* The commands implement AtomicInstall: the files, as a recovery would    *)
(* leave them, change when the nested transaction's journal is written     *)
(* with the commit flag, or while they are removed.                        *)
(***************************************************************************)
Installed ==
    IF AllOrNothing THEN Recovered(CHOOSE f \in Files : TRUE) ELSE MaxRelease + 1

Progress(p) ==
    IF ~Running(p) THEN pc[p]
    ELSE IF mem[p]["work"].committed THEN "switched" ELSE "running"

Abstract == INSTANCE AtomicInstall WITH
                installed <- Installed,
                state     <- [p \in Processes |-> Progress(p)],
                want      <- [p \in Processes |-> cmd[p].release]

\* No install or update, whatever crashes, fails or runs beside it, is ever seen
\* half done by the commands after it, undone once it has committed, or done
\* twice.
Atomic == Abstract!Spec
=============================================================================
