---------------------------- MODULE InstallTxnProofs ----------------------------
(***************************************************************************)
(* The installer, for any number of commands, managed files, releases,     *)
(* crashes and failed operations: a command that returns leaves no lock    *)
(* behind that it could remove, a crash leaves something that the next     *)
(* command can roll back and wedges no later command, and an install or an *)
(* update is all or nothing (txn.Engine, txn.Session, acquireLock,         *)
(* rollbackFromJournal, installOrUpdate).                                  *)
(***************************************************************************)
EXTENDS InstallTxn, FiniteSetTheorems, TLAPS

-----------------------------------------------------------------------------
(***************************************************************************)
(* The inductive invariants.  TypeInv and LocksHeld need no assumption,    *)
(* Exclusive that commands do not run at the same time, or leave no lock   *)
(* file behind (by a crash, or because it cannot be removed), Whole also   *)
(* that none is an uninstallation.                                         *)
(***************************************************************************)
\* Where a process may be in each of its two transactions.
Places ==
    \A p \in Processes :
        /\ ~Running(p) => scope[p] = "flow"
        /\ pc[p] \in {"load", "remove", "finish"} => scope[p] = "flow"
        /\ pc[p] \in {"mutate", "record", "restore", "save"} => scope[p] = "work"
        /\ pc[p] = "restore" => \A f \in todo[p] : snap[p][f] # Unset
        /\ pc[p] = "sweep" => mode[p] # "discard"

\* A journal that is applied names its transaction.
Named(j) == j.applied => j.tx \in Processes

JournalsNamed ==
    /\ \A s \in Scopes : Named(journal[s])
    /\ \A p \in Processes :
          /\ \A s \in Scopes : Named(mem[p][s])
          /\ pc[p] \in {"load", "remove", "finish"} \/ scope[p] = "work" => mem[p]["flow"].tx = p
          /\ pc[p] = "mark" => mem[p][scope[p]].tx = p
          /\ pc[p] = "undo" /\ todo[p] # {} => seen[p].tx \in Processes

TypeInv == TypeOK /\ Places /\ JournalsNamed

\* A lock file is that of the process that holds the lock, or has crashed, or could
\* not remove it.
LocksHeld ==
    \A s \in Scopes :
        /\ lock[s].by = Nobody => lock[s] = NoLock
        /\ lock[s].left => LocksStick /\ faults > 0
        /\ \A p \in Processes : lock[s].by = p =>
              Holds(p, s) \/ At(p, "crashed") \/ lock[s].left

\* Without crashes and with every lock file removed, a lock that is held has its lock
\* file, and none is broken.
LocksKept ==
    /\ \A p \in Processes : pc[p] \notin {"crashed", "break"}
    /\ \A p \in Processes, s \in Scopes : Holds(p, s) => lock[s].by = p

OneRuns == \A p, q \in Processes : Running(p) /\ Running(q) => p = q

Exclusive ==
    /\ TypeInv /\ LocksHeld
    /\ MaxCrashes = 0 /\ ~LocksStick => LocksKept
    /\ MaxAlive = 1 => OneRuns

\* The journal of the flow lists no file.
FlowJournals ==
    /\ \A f \in Files : journal["flow"].undo[f] = "none"
    /\ \A p \in Processes, f \in Files : mem[p]["flow"].undo[f] = "none"
    /\ \A p \in Processes : scope[p] = "flow" /\ pc[p] = "undo" => todo[p] = {}

\* Before its nested transaction changes anything, a process has captured nothing.
Fresh(p) ==
    \/ pc[p] \in Ended
    \/ pc[p] \in {"recover", "lock", "stamp", "inspect", "break", "relock", "open", "mark", "load"}
    \/ pc[p] \in {"undo", "drop", "sweep"} /\ mode[p] \in {"recover", "discard"}

NothingCaptured ==
    \A p \in Processes : Fresh(p) =>
        (\A f \in Files : snap[p][f] = Unset) /\ ~mem[p]["work"].committed

\* What the record of a captured file says, and the content it stands for.
RecordOf(x) == IF x = Unset THEN "none" ELSE IF x = Absent THEN "absent" ELSE "present"
Old(j, f) == IF j.undo[f] = "absent" THEN Absent ELSE backups["work"][j.tx][f]

\* While the files are changed, or put back from memory: the journal on disk, the
\* session's, what is captured and what is on disk fit together.
Changing(p) ==
    LET j == journal["work"]  m == mem[p]["work"] IN
    /\ j.tx = p /\ j.applied /\ ~j.committed
    /\ m.tx = p /\ m.applied /\ ~m.committed
    /\ \A f \in Files :
          /\ j.undo[f] \in {"none", m.undo[f]}
          /\ m.undo[f] \in {"none", RecordOf(snap[p][f])}
          /\ j.undo[f] = "none" /\ snap[p][f] # Unset => files[f] = snap[p][f]
          /\ m.undo[f] = "present" => backups["work"][p][f] = snap[p][f]
    /\ pc[p] # "restore" => j = m
    /\ pc[p] = "record" => \A f \in Files :
          snap[p][f] \notin {Unset, Absent} => backups["work"][p][f] = snap[p][f]
    /\ pc[p] \in {"mutate", "save", "commit"} => \A f \in Files :
          j.undo[f] = RecordOf(snap[p][f])
    /\ pc[p] \in {"mutate", "record"} => \A f \in Files \ todo[p] : files[f] = cmd[p].release
    /\ pc[p] \in {"save", "commit"} => \A f \in Files : files[f] = cmd[p].release

\* While they are put back from the backups.
Undoing(p) ==
    LET j == journal["work"]  u == seen[p] IN
    /\ ~j.committed /\ j.applied = u.applied
    /\ u.tx = j.tx
    /\ \A f \in todo[p] : u.applied /\ u.undo[f] # "none"
    /\ u.applied => \A f \in Files :
          /\ j.undo[f] \in {"none", u.undo[f]}
          /\ j.undo[f] = "none" /\ u.undo[f] # "none" => files[f] = Old(u, f)
    /\ ~broken[p] => \A f \in Files \ todo[p] : files[f] = Recovered(f)

\* A recovery would change nothing.
Settled == \A f \in Files : files[f] = Recovered(f)

\* The nested transaction of a process, by where it is.
Nested(p) ==
    /\ pc[p] = "undo" => Undoing(p)
    /\ pc[p] \in {"drop", "sweep", "lock", "stamp", "inspect", "break", "relock", "open"} =>
          Settled
    /\ pc[p] = "sweep" => ~Pending \/ faults > 0
    /\ pc[p] = "mark" => journal["work"] = Planned(p) /\ mem[p]["work"] = Planned(p)
    /\ pc[p] \in {"mutate", "record", "restore", "save", "commit"} => Changing(p)

\* Every backup that the journal names is there; once an operation has failed, they
\* may be gone when nothing is left to undo.
Backed == Pending => \A f \in Files : ~Lost(f)
BackupsSound == Backed \/ (faults > 0 /\ Settled)

Working == \A p \in Processes : scope[p] = "work" => Nested(p)

\* No command is an uninstallation.
Installing ==
    \A p \in Processes :
        /\ pc[p] # "remove"
        /\ Running(p) => cmd[p].kind # "uninstall" /\ cmd[p].release # Absent

Whole ==
    /\ Exclusive /\ FlowJournals /\ NothingCaptured /\ Working /\ Installing
    /\ AllOrNothing /\ BackupsSound

-----------------------------------------------------------------------------
(***************************************************************************)
(* Types.                                                                  *)
(***************************************************************************)
\* TypeOK in two parts, the disk and the processes.
DiskTypes ==
    /\ files \in [Files -> Content]
    /\ tracked \in Content
    /\ lock \in [Scopes -> Locks]
    /\ journal \in [Scopes -> Journals]
    /\ backups \in [Scopes -> [Processes -> [Files -> Content]]]

Modes == {"none", "recover", "discard", "commit", "rollback", "close"}
Commands == [kind: Kinds \union {"none"}, release: Content]

ProcessTypes ==
    /\ pc \in [Processes -> Locations]
    /\ scope \in [Processes -> Scopes]
    /\ mode \in [Processes -> Modes]
    /\ cmd \in [Processes -> Commands]
    /\ prior \in [Processes -> Content \union {Unset}]
    /\ mem \in [Processes -> [Scopes -> Journals]]
    /\ seen \in [Processes -> Journals]
    /\ snap \in [Processes -> [Files -> Content \union {Unset}]]
    /\ todo \in [Processes -> SUBSET Files]
    /\ broken \in [Processes -> BOOLEAN]

\* The types of the disk and those of the processes.
LEMMA TypesSplit ==
    /\ TypeOK <=> DiskTypes /\ ProcessTypes /\ faults \in 0 .. MaxFaults
    /\ TypeOK' <=> DiskTypes' /\ ProcessTypes' /\ faults' \in 0 .. MaxFaults
BY DEF TypeOK, DiskTypes, ProcessTypes, Modes, Commands

\* The values that stand for nothing.
LEMMA Nothing ==
    /\ Absent \in Content /\ Unset \notin Content /\ 1 .. MaxRelease \subseteq Content
    /\ Absent # Unset
    /\ NoLock \in Locks
    /\ NoJournal \in Journals /\ ~NoJournal.applied /\ ~NoJournal.committed
    /\ NoJournal.tx = Nobody /\ \A f \in Files : NoJournal.undo[f] = "none"
    /\ NoCommand \in Commands
BY InstallAssumption
   DEF Absent, Content, Unset, NoLock, Locks, NoJournal, Planned, Journals, NoCommand, Commands

\* The journal that a transaction begins with (OpenJournal).
LEMMA PlannedType ==
    ASSUME NEW p \in Processes
    PROVE  /\ Planned(p) \in Journals /\ Planned(p) # NoJournal
           /\ Planned(p).tx = p /\ ~Planned(p).applied /\ ~Planned(p).committed
           /\ \A f \in Files : Planned(p).undo[f] = "none"
BY InstallAssumption DEF Planned, NoJournal, Journals

\* A process begins to undo what a journal says (Recover, Session.Rollback).
LEMMA StartUndoStep ==
    ASSUME ProcessTypes, NEW p \in Processes, NEW s \in Scopes, NEW j \in Journals,
           NEW why \in {"recover", "rollback"}, StartUndo(p, s, j, why),
           UNCHANGED session
    PROVE  /\ ProcessTypes'
           /\ pc'[p] = "undo" /\ scope'[p] = s /\ mode'[p] = why /\ seen'[p] = j
           /\ todo'[p] = (IF j.applied THEN {f \in Files : j.undo[f] # "none"} ELSE {})
           /\ broken'[p] = FALSE
           /\ \A q \in Processes : q # p =>
                 /\ pc'[q] = pc[q] /\ scope'[q] = scope[q] /\ mode'[q] = mode[q]
                 /\ seen'[q] = seen[q] /\ todo'[q] = todo[q] /\ broken'[q] = broken[q]
<1>1. (IF j.applied THEN {f \in Files : j.undo[f] # "none"} ELSE {}) \in SUBSET Files
  OBVIOUS
<1>. QED  BY <1>1 DEF ProcessTypes, StartUndo, Go, Locations, Ended, Modes, session

\* A process returns, or is gone.
LEMMA EndStep ==
    ASSUME ProcessTypes, NEW p \in Processes, NEW l \in {"ok", "failed", "crashed"}, End(p, l)
    PROVE  /\ ProcessTypes'
           /\ pc'[p] = l /\ scope'[p] = "flow" /\ mode'[p] = "none"
           /\ mem'[p] = [s \in Scopes |-> NoJournal]
           /\ snap'[p] = [f \in Files |-> Unset]
           /\ todo'[p] = {} /\ cmd'[p] = NoCommand
           /\ \A q \in Processes : q # p =>
                 /\ pc'[q] = pc[q] /\ scope'[q] = scope[q] /\ mode'[q] = mode[q]
                 /\ seen'[q] = seen[q] /\ todo'[q] = todo[q] /\ broken'[q] = broken[q]
                 /\ cmd'[q] = cmd[q] /\ mem'[q] = mem[q] /\ snap'[q] = snap[q]
<1>1. pc' \in [Processes -> Locations] /\ scope' \in [Processes -> Scopes]
  BY DEF ProcessTypes, End, Go, Locations, Ended, Scopes
<1>2. mem' \in [Processes -> [Scopes -> Journals]] /\ seen' \in [Processes -> Journals]
  BY Nothing DEF ProcessTypes, End
<1>3. cmd' \in [Processes -> Commands]
  BY Nothing DEF ProcessTypes, End
<1>. QED  BY <1>1, <1>2, <1>3 DEF ProcessTypes, End, Go, Modes

\* Only the lock is left to be given up.
LEMMA CloseStep ==
    ASSUME ProcessTypes, NEW p \in Processes, Close(p), UNCHANGED session
    PROVE  /\ ProcessTypes'
           /\ pc'[p] = "release" /\ mode'[p] = "close"
           /\ UNCHANGED <<scope, seen, todo, broken>>
           /\ \A q \in Processes : q # p => pc'[q] = pc[q] /\ mode'[q] = mode[q]
BY DEF ProcessTypes, Close, Go, Locations, Ended, Modes, session

\* The captured contents are to be put back.
LEMMA StartRestoreStep ==
    ASSUME ProcessTypes, NEW p \in Processes, StartRestore(p)
    PROVE  /\ pc' \in [Processes -> Locations] /\ todo' \in [Processes -> SUBSET Files]
           /\ pc'[p] = "restore" /\ todo'[p] = {f \in Files : snap[p][f] # Unset}
           /\ UNCHANGED <<scope, mode, seen, broken>>
           /\ \A q \in Processes : q # p => pc'[q] = pc[q] /\ todo'[q] = todo[q]
BY DEF ProcessTypes, StartRestore, Go, Locations, Ended

\* What the journal of a session becomes when a snapshot is recorded.
LEMMA RecordedType ==
    ASSUME ProcessTypes, NEW p \in Processes
    PROVE  /\ Recorded(p) \in Journals
           /\ Recorded(p).tx = mem[p]["work"].tx
           /\ Recorded(p).applied = mem[p]["work"].applied
           /\ Recorded(p).committed = mem[p]["work"].committed
           /\ \A f \in Files : Recorded(p).undo[f] = RecordOf(snap[p][f])
<1>1. mem[p]["work"] \in Journals
  BY DEF ProcessTypes, Scopes
<1>. DEFINE u == [f \in Files |-> CASE snap[p][f] = Unset  -> "none"
                                    [] snap[p][f] = Absent -> "absent"
                                    [] OTHER               -> "present"]
<1>2. u \in [Files -> {"none", "absent", "present"}] /\ \A f \in Files : u[f] = RecordOf(snap[p][f])
  BY Nothing DEF RecordOf
<1>. HIDE DEF u
<1>3. [mem[p]["work"] EXCEPT !.undo = u] \in Journals
  BY <1>1, <1>2 DEF Journals
<1>4. Recorded(p) = [mem[p]["work"] EXCEPT !.undo = u]
  BY DEF Recorded, u
<1>. QED  BY <1>1, <1>2, <1>3, <1>4 DEF Journals

\* The flags of a session's journal.
LEMMA FlaggedType ==
    ASSUME NEW j \in Journals
    PROVE  /\ [j EXCEPT !.applied = TRUE] \in Journals
           /\ [j EXCEPT !.applied = TRUE].applied /\ [j EXCEPT !.applied = TRUE].tx = j.tx
           /\ [j EXCEPT !.applied = TRUE].undo = j.undo
           /\ [j EXCEPT !.applied = TRUE].committed = j.committed
           /\ [j EXCEPT !.committed = TRUE] \in Journals
           /\ [j EXCEPT !.committed = TRUE].committed /\ [j EXCEPT !.committed = TRUE].tx = j.tx
           /\ [j EXCEPT !.committed = TRUE].undo = j.undo
           /\ [j EXCEPT !.committed = TRUE].applied = j.applied
BY DEF Journals


\* Load keeps the types: tracked.json is read.
LEMMA LoadType ==
    ASSUME TypeInv, NEW p \in Processes, Load(p)
    PROVE  TypeInv'
<1>1. prior' \in [Processes -> Content \union {Unset}] /\ UNCHANGED <<disk, cmd, mem, snap, faults>>
  BY DEF Load, TypeInv, TypeOK
<1>2. /\ pc' \in [Processes -> Locations] /\ scope' \in [Processes -> Scopes]
      /\ todo' \in [Processes -> SUBSET Files] /\ UNCHANGED <<mode, seen, broken>>
  <2>1. CASE Go(p, "recover") /\ scope' = [scope EXCEPT ![p] = "work"] /\ UNCHANGED undoing
    BY <2>1 DEF TypeInv, TypeOK, undoing, Go, Scopes, Locations
  <2>2. CASE Go(p, "finish") /\ UNCHANGED <<scope, undoing>>
    BY <2>2 DEF TypeInv, TypeOK, undoing, Go, Locations
  <2>3. CASE Go(p, "remove") /\ todo' = [todo EXCEPT ![p] = Files] /\ UNCHANGED <<scope, mode, seen, broken>>
    BY <2>3 DEF TypeInv, TypeOK, Go, Locations
  <2>. QED  BY <2>1, <2>2, <2>3 DEF Load
<1>3. TypeOK'
  BY <1>1, <1>2 DEF TypeInv, TypeOK, disk
<1>4. Places'
  BY <1>1, <1>2 DEF Load, TypeInv, TypeOK, Places, At, Go, undoing, Running, Ended, Scopes
<1>5. JournalsNamed'
  BY <1>1, <1>2 DEF Load, TypeInv, TypeOK, Places, JournalsNamed, Named, At, Go, undoing, disk, Scopes
<1>. QED  BY <1>3, <1>4, <1>5 DEF TypeInv

\* What one step of a capture does: the file's content in memory, then the backup
\* of it (CaptureFile).
LEMMA CaptureStep ==
    ASSUME TypeOK, NEW p \in Processes, Capture(p)
    PROVE  \E f \in Files :
              /\ f \in todo[p] /\ snap[p][f] = Unset /\ files[f] \in Content
              /\ snap' \in [Processes -> [Files -> Content \union {Unset}]]
              /\ snap'[p][f] = files[f] /\ \A g \in Files : g # f => snap'[p][g] = snap[p][g]
              /\ \A q \in Processes : q # p => snap'[q] = snap[q]
              /\ pc' \in [Processes -> Locations]
              /\ \A q \in Processes : q # p => pc'[q] = pc[q]
              /\ \/ /\ pc'[p] = "record" /\ UNCHANGED <<todo, faults>>
                    /\ backups' = Backup(p, f)
                 \/ /\ pc'[p] = "restore" /\ Fault /\ UNCHANGED backups
                    /\ todo' = [todo EXCEPT ![p] = {g \in Files : g = f \/ snap[p][g] # Unset}]
              /\ UNCHANGED <<files, tracked, lock, journal, cmd, prior, mem, scope, mode, seen, broken>>
<1>1. PICK f \in todo[p] :
         /\ snap[p][f] = Unset
         /\ snap' = [snap EXCEPT ![p][f] = files[f]]
         /\ \/ /\ backups' = Backup(p, f)
               /\ Go(p, "record")
               /\ UNCHANGED <<scope, undoing, faults>>
            \/ /\ Fault
               /\ Go(p, "restore")
               /\ todo' = [todo EXCEPT ![p] = {g \in Files : g = f \/ snap[p][g] # Unset}]
               /\ UNCHANGED <<backups, scope, mode, seen, broken>>
  BY DEF Capture
<1>2. f \in Files /\ files[f] \in Content
  BY DEF TypeOK
<1>3. snap' \in [Processes -> [Files -> Content \union {Unset}]]
  BY <1>1, <1>2 DEF TypeOK
<1>4. /\ snap'[p][f] = files[f] /\ \A g \in Files : g # f => snap'[p][g] = snap[p][g]
      /\ \A q \in Processes : q # p => snap'[q] = snap[q]
  BY <1>1, <1>2 DEF TypeOK
<1>5. pc' \in [Processes -> Locations] /\ \A q \in Processes : q # p => pc'[q] = pc[q]
  BY <1>1 DEF TypeOK, Go, Locations
<1>6. \/ /\ pc'[p] = "record" /\ UNCHANGED <<todo, faults>>
         /\ backups' = Backup(p, f)
      \/ /\ pc'[p] = "restore" /\ Fault /\ UNCHANGED backups
         /\ todo' = [todo EXCEPT ![p] = {g \in Files : g = f \/ snap[p][g] # Unset}]
  BY <1>1 DEF TypeOK, Go, undoing
<1>7. UNCHANGED <<files, tracked, lock, journal, cmd, prior, mem, scope, mode, seen, broken>>
  BY <1>1 DEF Capture, undoing
<1>. QED  BY <1>1, <1>2, <1>3, <1>4, <1>5, <1>6, <1>7

\* A backup is the file's content, and touches no other.
LEMMA BackupStep ==
    ASSUME TypeOK, NEW p \in Processes, NEW f \in Files
    PROVE  /\ Backup(p, f) \in [Scopes -> [Processes -> [Files -> Content]]]
           /\ Backup(p, f)["flow"] = backups["flow"]
           /\ \A q \in Processes, g \in Files : q # p \/ g # f =>
                 Backup(p, f)["work"][q][g] = backups["work"][q][g]
           /\ files[f] # Absent => Backup(p, f)["work"][p][f] = files[f]
BY DEF TypeOK, Backup, Scopes

\* Capture keeps the types.
LEMMA CaptureType ==
    ASSUME TypeInv, NEW p \in Processes, Capture(p)
    PROVE  TypeInv'
<1>1. PICK f \in Files :
              /\ f \in todo[p] /\ snap[p][f] = Unset /\ files[f] \in Content
              /\ snap' \in [Processes -> [Files -> Content \union {Unset}]]
              /\ snap'[p][f] = files[f] /\ \A g \in Files : g # f => snap'[p][g] = snap[p][g]
              /\ \A q \in Processes : q # p => snap'[q] = snap[q]
              /\ pc' \in [Processes -> Locations]
              /\ \A q \in Processes : q # p => pc'[q] = pc[q]
              /\ \/ /\ pc'[p] = "record" /\ UNCHANGED <<todo, faults>>
                    /\ backups' = Backup(p, f)
                 \/ /\ pc'[p] = "restore" /\ Fault /\ UNCHANGED backups
                    /\ todo' = [todo EXCEPT ![p] = {g \in Files : g = f \/ snap[p][g] # Unset}]
              /\ UNCHANGED <<files, tracked, lock, journal, cmd, prior, mem, scope, mode, seen, broken>>
  BY CaptureStep DEF TypeInv
<1>2. backups' \in [Scopes -> [Processes -> [Files -> Content]]]
  BY <1>1, BackupStep DEF TypeInv, TypeOK
<1>3. todo' \in [Processes -> SUBSET Files]
  <2>1. {g \in Files : g = f \/ snap[p][g] # Unset} \in SUBSET Files
    OBVIOUS
  <2>. QED  BY <1>1, <2>1 DEF TypeInv, TypeOK
<1>4. faults' \in 0 .. MaxFaults
  BY <1>1, InstallAssumption DEF TypeInv, TypeOK, Fault
<1>5. TypeOK'
  BY <1>1, <1>2, <1>3, <1>4 DEF TypeInv, TypeOK
<1>6. pc[p] = "mutate" /\ scope[p] = "work"
  BY DEF Capture, At, TypeInv, Places
<1>7. Places'
  BY <1>1, <1>6, Nothing DEF TypeInv, TypeOK, Places, Running, Ended
<1>8. JournalsNamed'
  BY <1>1, <1>6 DEF TypeInv, TypeOK, JournalsNamed
<1>. QED  BY <1>5, <1>7, <1>8 DEF TypeInv

\* Record keeps the types: the session's journal, and the one on disk.
LEMMA RecordType ==
    ASSUME TypeInv, NEW p \in Processes, Record(p)
    PROVE  TypeInv'
<1>1. Recorded(p) \in Journals /\ Named(Recorded(p))
  BY RecordedType, TypesSplit DEF TypeInv, JournalsNamed, Named, Scopes
<1>2. /\ mem' \in [Processes -> [Scopes -> Journals]] /\ mem'[p]["work"] = Recorded(p)
      /\ mem'[p]["flow"] = mem[p]["flow"]
      /\ \A q \in Processes : q # p => mem'[q] = mem[q]
  BY <1>1 DEF Record, TypeInv, TypeOK, Scopes
<1>3. /\ journal' \in [Scopes -> Journals] /\ \A s \in Scopes : Named(journal'[s])
      /\ faults' \in 0 .. MaxFaults
  BY <1>1, InstallAssumption DEF Record, TypeInv, TypeOK, JournalsNamed, Scopes, Fault
<1>4. UNCHANGED <<files, tracked, lock, backups, cmd, prior, snap, scope, mode, seen, broken>>
  BY DEF Record, undoing, StartRestore
<1>5. /\ pc' \in [Processes -> Locations] /\ todo' \in [Processes -> SUBSET Files]
      /\ pc'[p] = "mutate" \/ (pc'[p] = "restore" /\ \A f \in todo'[p] : snap[p][f] # Unset)
      /\ \A q \in Processes : q # p => pc'[q] = pc[q] /\ todo'[q] = todo[q]
  <2>1. CASE Go(p, "mutate") /\ UNCHANGED undoing
    BY <2>1 DEF TypeInv, TypeOK, Go, undoing, Locations, Ended
  <2>2. CASE StartRestore(p)
    BY <2>2, StartRestoreStep, TypesSplit DEF TypeInv
  <2>. QED  BY <2>1, <2>2 DEF Record
<1>6. pc[p] = "record" /\ scope[p] = "work"
  BY DEF Record, At, TypeInv, Places
<1>7. TypeOK'
  BY <1>2, <1>3, <1>4, <1>5 DEF TypeInv, TypeOK
<1>8. Places'
  BY <1>4, <1>5, <1>6 DEF TypeInv, TypeOK, Places, Running, Ended
<1>9. JournalsNamed'
  <2>1. \A q \in Processes, s \in Scopes : Named(mem'[q][s])
    BY <1>1, <1>2 DEF TypeInv, JournalsNamed, Scopes
  <2>. QED  BY <1>2, <1>3, <1>4, <1>5, <1>6, <2>1 DEF TypeInv, JournalsNamed
<1>. QED  BY <1>7, <1>8, <1>9 DEF TypeInv

\* RestoreFile keeps the types: only captured files are put back.
LEMMA RestoreFileType ==
    ASSUME TypeInv, NEW p \in Processes, RestoreFile(p)
    PROVE  TypeInv'
<1>1. PICK f \in todo[p] :
         /\ todo' = [todo EXCEPT ![p] = @ \ {f}]
         /\ \/ files' = [files EXCEPT ![f] = snap[p][f]] /\ UNCHANGED faults
            \/ Fault /\ UNCHANGED files
  BY DEF RestoreFile
<1>2. f \in Files /\ snap[p][f] \in Content
  BY DEF RestoreFile, At, TypeInv, TypeOK, Places
<1>a. files' \in [Files -> Content]
  BY <1>1, <1>2 DEF TypeInv, TypeOK
<1>3. files' \in [Files -> Content] /\ faults' \in 0 .. MaxFaults
  BY <1>1, <1>a, InstallAssumption DEF TypeInv, TypeOK, Fault
<1>4. todo' \in [Processes -> SUBSET Files] /\ \A q \in Processes : todo'[q] \subseteq todo[q]
  BY <1>1 DEF TypeInv, TypeOK
<1>5. TypeOK'
  BY <1>3, <1>4 DEF RestoreFile, session, TypeInv, TypeOK
<1>6. Places' /\ JournalsNamed'
  BY <1>4 DEF RestoreFile, session, TypeInv, Places, JournalsNamed, Running
<1>. QED  BY <1>5, <1>6 DEF TypeInv

\* Restored keeps the types: the session's own journal is undone.
LEMMA RestoredType ==
    ASSUME TypeInv, NEW p \in Processes, Restored(p)
    PROVE  TypeInv'
<1>1. /\ "work" \in Scopes /\ mem[p]["work"] \in Journals /\ Named(mem[p]["work"])
      /\ pc[p] = "restore" /\ scope[p] = "work" /\ mem[p]["flow"].tx = p
  BY DEF TypeInv, TypeOK, Scopes, JournalsNamed, Places, Restored, At
<1>2. StartUndo(p, "work", mem[p]["work"], "rollback") /\ UNCHANGED <<disk, session, faults>>
  BY DEF Restored
<1>3. /\ ProcessTypes'
      /\ pc'[p] = "undo" /\ scope'[p] = "work" /\ seen'[p] = mem[p]["work"]
      /\ todo'[p] = (IF mem[p]["work"].applied
                    THEN {f \in Files : mem[p]["work"].undo[f] # "none"} ELSE {})
      /\ \A q \in Processes : q # p =>
            /\ pc'[q] = pc[q] /\ scope'[q] = scope[q] /\ mode'[q] = mode[q]
            /\ seen'[q] = seen[q] /\ todo'[q] = todo[q] /\ broken'[q] = broken[q]
  BY <1>1, <1>2, StartUndoStep, TypesSplit DEF TypeInv
<1>4. TypeOK'
  BY <1>2, <1>3, TypesSplit DEF TypeInv, disk, DiskTypes
<1>5. Places'
  BY <1>1, <1>2, <1>3 DEF TypeInv, Places, session, Running, Ended
<1>6. JournalsNamed'
  BY <1>1, <1>2, <1>3 DEF TypeInv, JournalsNamed, Named, disk, session
<1>. QED  BY <1>4, <1>5, <1>6 DEF TypeInv

\* SaveTracked keeps the types.
LEMMA SaveTrackedType ==
    ASSUME TypeInv, NEW p \in Processes, SaveTracked(p)
    PROVE  TypeInv'
<1>1. pc[p] = "save" /\ scope[p] = "work" /\ UNCHANGED <<files, lock, journal, backups, session>>
  BY DEF SaveTracked, At, TypeInv, Places
<1>2. tracked' \in Content /\ faults' \in 0 .. MaxFaults
  BY InstallAssumption DEF SaveTracked, Fault, TypeInv, TypeOK
<1>3. /\ pc' \in [Processes -> Locations] /\ todo' \in [Processes -> SUBSET Files]
      /\ pc'[p] = "commit" \/ (pc'[p] = "restore" /\ \A f \in todo'[p] : snap[p][f] # Unset)
      /\ \A q \in Processes : q # p => pc'[q] = pc[q] /\ todo'[q] = todo[q]
      /\ UNCHANGED <<scope, mode, seen, broken>>
  <2>1. CASE Go(p, "commit") /\ UNCHANGED <<scope, undoing>>
    BY <2>1 DEF TypeInv, TypeOK, Go, undoing, Locations, Ended
  <2>2. CASE StartRestore(p)
    BY <2>2, StartRestoreStep, TypesSplit DEF TypeInv
  <2>. QED  BY <2>1, <2>2 DEF SaveTracked
<1>4. TypeOK'
  BY <1>1, <1>2, <1>3 DEF session, TypeInv, TypeOK
<1>5. Places'
  BY <1>1, <1>3 DEF session, TypeInv, TypeOK, Places, Running, Ended
<1>6. JournalsNamed'
  BY <1>1, <1>3 DEF session, TypeInv, TypeOK, JournalsNamed
<1>. QED  BY <1>4, <1>5, <1>6 DEF TypeInv

\* The flow is rolled back, the command returns, or only the lock is left to be
\* given up; the journals stay.
LEMMA RollBackType ==
    ASSUME TypeInv, NEW p \in Processes, RollBackFlow(p), UNCHANGED <<journal, session>>
    PROVE  ProcessTypes' /\ Places' /\ JournalsNamed'
<1>1. /\ "flow" \in Scopes /\ mem[p]["flow"] \in Journals /\ Named(mem[p]["flow"])
  BY DEF TypeInv, TypeOK, Scopes, JournalsNamed
<1>2. /\ ProcessTypes'
      /\ pc'[p] = "undo" /\ scope'[p] = "flow" /\ seen'[p] = mem[p]["flow"]
      /\ todo'[p] = (IF mem[p]["flow"].applied
                    THEN {f \in Files : mem[p]["flow"].undo[f] # "none"} ELSE {})
      /\ \A q \in Processes : q # p =>
            /\ pc'[q] = pc[q] /\ scope'[q] = scope[q] /\ mode'[q] = mode[q]
            /\ seen'[q] = seen[q] /\ todo'[q] = todo[q] /\ broken'[q] = broken[q]
  BY <1>1, StartUndoStep, TypesSplit DEF TypeInv, RollBackFlow
<1>3. Places'
  BY <1>2 DEF TypeInv, Places, session, Running, Ended
<1>4. JournalsNamed'
  BY <1>1, <1>2 DEF TypeInv, JournalsNamed, Named, session
<1>. QED  BY <1>2, <1>3, <1>4

\* A command that returns, or crashes, keeps the types.
LEMMA EndType ==
    ASSUME TypeInv, NEW p \in Processes, NEW l \in {"ok", "failed", "crashed"}, End(p, l),
           UNCHANGED journal
    PROVE  ProcessTypes' /\ Places' /\ JournalsNamed'
<1>1. /\ ProcessTypes'
      /\ pc'[p] = l /\ scope'[p] = "flow" /\ todo'[p] = {}
      /\ mem'[p] = [s \in Scopes |-> NoJournal]
      /\ \A q \in Processes : q # p =>
            /\ pc'[q] = pc[q] /\ scope'[q] = scope[q] /\ mode'[q] = mode[q]
            /\ seen'[q] = seen[q] /\ todo'[q] = todo[q] /\ mem'[q] = mem[q] /\ snap'[q] = snap[q]
  BY EndStep, TypesSplit DEF TypeInv
<1>2. Places'
  BY <1>1 DEF TypeInv, Places, Running, Ended
<1>3. JournalsNamed'
  BY <1>1, Nothing DEF TypeInv, JournalsNamed, Named
<1>. QED  BY <1>1, <1>2, <1>3

\* And one whose Begin fails.
LEMMA BeginFailsType ==
    ASSUME TypeInv, NEW p \in Processes, BeginFails(p), UNCHANGED journal
    PROVE  ProcessTypes' /\ Places' /\ JournalsNamed'
BY RollBackType, EndType DEF BeginFails

\* And one that only has its lock to give up.
LEMMA CloseType ==
    ASSUME TypeInv, NEW p \in Processes, Running(p), Close(p), UNCHANGED <<journal, session>>
    PROVE  ProcessTypes' /\ Places' /\ JournalsNamed'
<1>1. /\ ProcessTypes'
      /\ pc'[p] = "release" /\ UNCHANGED <<scope, seen, todo, broken>>
      /\ \A q \in Processes : q # p => pc'[q] = pc[q] /\ mode'[q] = mode[q]
  BY CloseStep, TypesSplit DEF TypeInv
<1>2. Places'
  BY <1>1 DEF TypeInv, Places, session, Running, Ended
<1>3. JournalsNamed'
  BY <1>1 DEF TypeInv, JournalsNamed, session
<1>. QED  BY <1>1, <1>2, <1>3

\* A process moves on, and nothing else of it changes.
LEMMA MoveType ==
    ASSUME TypeInv, NEW p \in Processes, Running(p),
           NEW l \in {"lock", "stamp", "inspect", "break", "relock", "open", "drop"},
           Go(p, l), UNCHANGED <<scope, undoing, session, journal>>
    PROVE  ProcessTypes' /\ Places' /\ JournalsNamed'
<1>1. ProcessTypes' /\ pc'[p] = l /\ \A q \in Processes : q # p => pc'[q] = pc[q]
  BY DEF TypeInv, TypeOK, ProcessTypes, Modes, Commands, Go, Locations, Ended, undoing, session
<1>2. Places'
  BY <1>1 DEF TypeInv, Places, session, undoing, Running, Ended
<1>3. JournalsNamed'
  BY <1>1 DEF TypeInv, JournalsNamed, session, undoing
<1>. QED  BY <1>1, <1>2, <1>3

\* A command that starts keeps the types.
LEMMA StartType ==
    ASSUME TypeInv, NEW p \in Processes, Start(p)
    PROVE  TypeInv'
<1>1. cmd' \in [Processes -> Commands]
  <2>1. PICK k \in Kinds, r \in 1 .. MaxRelease :
           cmd' = [cmd EXCEPT ![p] =
                     [kind |-> k, release |-> IF k = "uninstall" THEN Absent ELSE r]]
    BY DEF Start
  <2>2. [kind |-> k, release |-> IF k = "uninstall" THEN Absent ELSE r] \in Commands
    BY Nothing DEF Commands
  <2>. QED  BY <2>1, <2>2 DEF TypeInv, TypeOK, Commands
<1>2. /\ pc[p] = "idle" /\ pc' = [pc EXCEPT ![p] = "recover"]
      /\ UNCHANGED <<disk, scope, undoing, prior, mem, snap, faults>>
  BY DEF Start, At, Go
<1>3. TypeOK'
  BY <1>1, <1>2 DEF TypeInv, TypeOK, Locations, Ended, Commands, disk, undoing
<1>4. Places' /\ JournalsNamed'
  BY <1>2 DEF TypeInv, TypeOK, Places, JournalsNamed, Running, Ended, disk, undoing
<1>. QED  BY <1>3, <1>4 DEF TypeInv

\* Recover keeps the types: the journal on disk is undone or dropped.
LEMMA ReadJournalType ==
    ASSUME TypeInv, NEW p \in Processes, ReadJournal(p)
    PROVE  TypeInv'
<1>1. /\ scope[p] \in Scopes /\ journal[scope[p]] \in Journals /\ Named(journal[scope[p]])
      /\ pc[p] = "recover" /\ Running(p) /\ UNCHANGED <<disk, session, faults>>
  BY DEF TypeInv, TypeOK, JournalsNamed, ReadJournal, At, Running, Ended
<1>2. CASE Go(p, "lock") /\ UNCHANGED <<scope, undoing>>
  BY <1>1, <1>2, MoveType, TypesSplit DEF TypeInv, DiskTypes, disk
<1>3. CASE /\ Go(p, "drop")
           /\ mode' = [mode EXCEPT ![p] = "discard"]
           /\ seen' = [seen EXCEPT ![p] = journal[scope[p]]]
           /\ UNCHANGED <<scope, todo, broken>>
  <2>1. TypeOK'
    BY <1>1, <1>3 DEF TypeInv, TypeOK, Go, Locations, disk, session
  <2>2. Places' /\ JournalsNamed'
    BY <1>1, <1>3 DEF TypeInv, TypeOK, Places, JournalsNamed, Running, Ended, Go, disk, session
  <2>. QED  BY <2>1, <2>2 DEF TypeInv
<1>4. CASE StartUndo(p, scope[p], journal[scope[p]], "recover")
  <2>1. PICK s \in Scopes, j \in Journals :
           s = scope[p] /\ j = journal[scope[p]] /\ StartUndo(p, s, j, "recover")
    BY <1>1, <1>4
  <2>b. StartUndo(p, s, j, "recover")
    BY <2>1
  <2>a. ProcessTypes /\ UNCHANGED session
    BY <1>1, TypesSplit DEF TypeInv
  <2>2. /\ ProcessTypes'
        /\ pc'[p] = "undo" /\ scope'[p] = s /\ seen'[p] = j
        /\ todo'[p] = (IF j.applied THEN {f \in Files : j.undo[f] # "none"} ELSE {})
        /\ \A q \in Processes : q # p =>
              /\ pc'[q] = pc[q] /\ scope'[q] = scope[q] /\ mode'[q] = mode[q]
              /\ seen'[q] = seen[q] /\ todo'[q] = todo[q] /\ broken'[q] = broken[q]
    BY <2>a, <2>b, StartUndoStep
  <2>3. Places'
    BY <1>1, <2>1, <2>2 DEF TypeInv, Places, session, Running, Ended
  <2>4. JournalsNamed'
    BY <1>1, <2>1, <2>2 DEF TypeInv, JournalsNamed, Named, session, disk
  <2>. QED  BY <1>1, <2>2, <2>3, <2>4, TypesSplit DEF TypeInv, DiskTypes, disk
<1>. QED  BY <1>2, <1>3, <1>4 DEF ReadJournal

\* The end of an undo keeps the types.
LEMMA UndoneType ==
    ASSUME TypeInv, NEW p \in Processes, Undone(p)
    PROVE  TypeInv'
<1>1. Running(p) /\ UNCHANGED <<disk, faults>> /\ DiskTypes' /\ faults' \in 0 .. MaxFaults
  BY TypesSplit DEF TypeInv, DiskTypes, disk, Undone, At, Running, Ended
<1>2. ProcessTypes' /\ Places' /\ JournalsNamed'
  BY <1>1, MoveType, BeginFailsType, CloseType DEF Undone, disk
<1>. QED  BY <1>1, <1>2, TypesSplit DEF TypeInv

\* A lock file is created, given back, or broken.
LEMMA LockFileType ==
    ASSUME TypeInv, NEW p \in Processes, NEW s \in Scopes,
           \/ lock' = [lock EXCEPT ![s] = [by |-> p, written |-> FALSE, left |-> FALSE]]
           \/ lock' = [lock EXCEPT ![s] = NoLock]
           \/ lock' = IF lock[s].by = p THEN [lock EXCEPT ![s].left = TRUE] ELSE lock
           \/ lock' = IF lock[s].by = p THEN [lock EXCEPT ![s].written = TRUE] ELSE lock
           \/ UNCHANGED lock,
           UNCHANGED <<files, tracked, journal, backups>>
    PROVE  DiskTypes'
<1>1. lock' \in [Scopes -> Locks]
  <2>1. [by |-> p, written |-> FALSE, left |-> FALSE] \in Locks /\ NoLock \in Locks
    BY Nothing DEF Locks
  <2>2. lock \in [Scopes -> Locks]
    BY DEF TypeInv, TypeOK
  <2>3. /\ [lock EXCEPT ![s].written = TRUE] \in [Scopes -> Locks]
        /\ [lock EXCEPT ![s].left = TRUE] \in [Scopes -> Locks]
    BY <2>2 DEF Locks
  <2>. QED  BY <2>1, <2>2, <2>3
<1>. QED  BY <1>1 DEF TypeInv, TypeOK, DiskTypes

\* acquireLock keeps the types.
LEMMA LockType ==
    ASSUME TypeInv, NEW p \in Processes,
           TryLock(p) \/ InspectLock(p) \/ BreakLock(p) \/ Relock(p) \/ StampLock(p)
    PROVE  TypeInv'
<1>1. scope[p] \in Scopes /\ Running(p) /\ UNCHANGED <<files, tracked, journal, backups>>
  BY DEF TypeInv, TypeOK, Running, Ended, TryLock, InspectLock, BreakLock, Relock, StampLock,
         CreateLock, At, disk
<1>2. DiskTypes'
  BY <1>1, LockFileType DEF TryLock, InspectLock, BreakLock, Relock, StampLock, CreateLock,
         Freed, Stuck, disk
<1>3. faults' \in 0 .. MaxFaults
  BY InstallAssumption DEF TypeInv, TypeOK, TryLock, InspectLock, BreakLock, Relock, StampLock,
         CreateLock, Fault
<1>4. ProcessTypes' /\ Places' /\ JournalsNamed'
  BY <1>1, MoveType, BeginFailsType DEF TryLock, InspectLock, BreakLock, Relock, StampLock,
         CreateLock
<1>. QED  BY <1>2, <1>3, <1>4, TypesSplit DEF TypeInv

\* A Begin that fails before it asks for the lock, or at a file it cannot remove,
\* keeps the types.
LEMMA BegunType ==
    ASSUME TypeInv, NEW p \in Processes, JournalUnreadable(p) \/ RecoveryFails(p)
    PROVE  TypeInv'
<1>1. BeginFails(p) /\ UNCHANGED disk /\ faults' \in 0 .. MaxFaults
  BY InstallAssumption DEF TypeInv, TypeOK, JournalUnreadable, RecoveryFails, Fault
<1>2. ProcessTypes' /\ Places' /\ JournalsNamed'
  BY <1>1, BeginFailsType DEF disk
<1>. QED  BY <1>1, <1>2, TypesSplit DEF TypeInv, DiskTypes, disk

\* The session's journal is written, in memory and on disk.
Written(p, s, j) ==
    mem' = [mem EXCEPT ![p][s] = j] /\ journal' = [journal EXCEPT ![s] = j]

\* What a write of a session's journal changes.
LEMMA JournalWritten ==
    ASSUME TypeInv, NEW p \in Processes, NEW s \in Scopes, NEW j \in Journals, Named(j),
           Written(p, s, j)
    PROVE  /\ mem' \in [Processes -> [Scopes -> Journals]] /\ journal' \in [Scopes -> Journals]
           /\ journal'[s] = j /\ mem'[p][s] = j
           /\ \A r \in Scopes : r # s => journal'[r] = journal[r] /\ mem'[p][r] = mem[p][r]
           /\ \A q \in Processes : q # p => mem'[q] = mem[q]
           /\ \A r \in Scopes : Named(journal'[r]) /\ \A q \in Processes : Named(mem'[q][r])
BY DEF TypeInv, TypeOK, JournalsNamed, Written

\* The same for the transaction that the process is in.
LEMMA WrittenHere ==
    ASSUME TypeInv, NEW p \in Processes, NEW j \in Journals, Named(j), Written(p, scope[p], j)
    PROVE  /\ mem' \in [Processes -> [Scopes -> Journals]] /\ journal' \in [Scopes -> Journals]
           /\ journal'[scope[p]] = j /\ mem'[p][scope[p]] = j
           /\ \A r \in Scopes : r # scope[p] => journal'[r] = journal[r] /\ mem'[p][r] = mem[p][r]
           /\ \A q \in Processes : q # p => mem'[q] = mem[q]
           /\ \A r \in Scopes : Named(journal'[r]) /\ \A q \in Processes : Named(mem'[q][r])
<1>1. scope[p] \in Scopes
  BY DEF TypeInv, TypeOK
<1>. QED  BY <1>1, JournalWritten, Zenon

\* OpenJournal keeps the types.
LEMMA OpenJournalType ==
    ASSUME TypeInv, NEW p \in Processes, OpenJournal(p)
    PROVE  TypeInv'
<1>1. /\ scope[p] \in Scopes /\ pc[p] = "open" /\ Running(p)
      /\ UNCHANGED <<files, tracked, lock, backups, cmd, prior, snap>>
  BY DEF TypeInv, TypeOK, OpenJournal, At, Running, Ended
<1>2. faults' \in 0 .. MaxFaults
  BY InstallAssumption DEF TypeInv, TypeOK, OpenJournal, Fault
<1>3. CASE /\ journal' = [journal EXCEPT ![scope[p]] = Planned(p)]
           /\ mem' = [mem EXCEPT ![p][scope[p]] = Planned(p)]
           /\ Go(p, "mark")
           /\ UNCHANGED <<scope, undoing>>
  <2>1. /\ mem' \in [Processes -> [Scopes -> Journals]] /\ journal' \in [Scopes -> Journals]
        /\ mem'[p][scope[p]] = Planned(p)
        /\ \A r \in Scopes : r # scope[p] => mem'[p][r] = mem[p][r]
        /\ \A q \in Processes : q # p => mem'[q] = mem[q]
        /\ \A r \in Scopes : Named(journal'[r]) /\ \A q \in Processes : Named(mem'[q][r])
    <3>1. Written(p, scope[p], Planned(p)) /\ Planned(p) \in Journals /\ Named(Planned(p))
      BY <1>3, PlannedType DEF Written, Named
    <3>. QED  BY <1>1, <3>1, WrittenHere
  <2>2. pc' \in [Processes -> Locations] /\ pc'[p] = "mark" /\ \A q \in Processes : q # p => pc'[q] = pc[q]
    BY <1>3 DEF TypeInv, TypeOK, Go, Locations
  <2>3. TypeOK'
    BY <1>1, <1>2, <1>3, <2>1, <2>2 DEF TypeInv, TypeOK, undoing
  <2>4. Places'
    BY <1>1, <1>3, <2>2 DEF TypeInv, Places, Running, Ended, undoing
  <2>5. JournalsNamed'
    BY <1>1, <1>3, <2>1, <2>2, PlannedType DEF TypeInv, JournalsNamed, undoing, Scopes
  <2>. QED  BY <2>3, <2>4, <2>5 DEF TypeInv
<1>4. CASE Close(p) /\ UNCHANGED <<journal, mem>>
  <2>1. ProcessTypes' /\ Places' /\ JournalsNamed'
    BY <1>1, <1>4, CloseType DEF session
  <2>. QED  BY <1>1, <1>2, <1>4, <2>1, TypesSplit DEF TypeInv, DiskTypes
<1>. QED  BY <1>3, <1>4 DEF OpenJournal

\* A flag of the journal of the transaction a process is in is set.
LEMMA WriteAppliedStep ==
    ASSUME TypeInv, NEW p \in Processes, WriteApplied(p), mem[p][scope[p]].tx = p
    PROVE  \E j \in Journals :
              /\ j.applied /\ j.tx = p /\ j.undo = mem[p][scope[p]].undo
              /\ j.committed = mem[p][scope[p]].committed
              /\ mem' \in [Processes -> [Scopes -> Journals]] /\ journal' \in [Scopes -> Journals]
              /\ journal'[scope[p]] = j /\ mem'[p][scope[p]] = j
              /\ \A r \in Scopes : r # scope[p] => journal'[r] = journal[r] /\ mem'[p][r] = mem[p][r]
              /\ \A q \in Processes : q # p => mem'[q] = mem[q]
              /\ \A r \in Scopes : Named(journal'[r]) /\ \A q \in Processes : Named(mem'[q][r])
<1>1. scope[p] \in Scopes /\ mem[p][scope[p]] \in Journals
  BY DEF TypeInv, TypeOK
<1>2. PICK j \in Journals : j = [mem[p][scope[p]] EXCEPT !.applied = TRUE]
  BY <1>1, FlaggedType
<1>3. /\ j.applied /\ j.tx = p /\ j.undo = mem[p][scope[p]].undo
      /\ j.committed = mem[p][scope[p]].committed
  BY <1>1, <1>2, FlaggedType
<1>4. Written(p, scope[p], j) /\ Named(j)
  BY <1>2, <1>3, Zenon DEF WriteApplied, Written, Named
<1>. QED  BY <1>3, <1>4, WrittenHere, Zenon

\* MarkApplied keeps the types.
LEMMA MarkAppliedType ==
    ASSUME TypeInv, NEW p \in Processes, MarkApplied(p)
    PROVE  TypeInv'
<1>1. /\ scope[p] \in {"flow", "work"} /\ pc[p] = "mark" /\ Running(p) /\ mem[p][scope[p]].tx = p
      /\ UNCHANGED <<files, tracked, lock, backups, cmd, prior, snap>>
  BY DEF TypeInv, TypeOK, Scopes, JournalsNamed, MarkApplied, At, Running, Ended
<1>2. faults' \in 0 .. MaxFaults
  BY InstallAssumption DEF TypeInv, TypeOK, MarkApplied, Fault
<1>3. CASE /\ WriteApplied(p)
           /\ Go(p, IF scope[p] = "flow" THEN "load" ELSE "mutate")
           /\ todo' = [todo EXCEPT ![p] = IF scope[p] = "work" THEN Files ELSE {}]
           /\ UNCHANGED <<scope, mode, seen, broken>>
  <2>1. PICK j \in Journals :
              /\ j.tx = p
              /\ mem' \in [Processes -> [Scopes -> Journals]] /\ journal' \in [Scopes -> Journals]
              /\ mem'[p][scope[p]] = j
              /\ \A r \in Scopes : r # scope[p] => mem'[p][r] = mem[p][r]
              /\ \A q \in Processes : q # p => mem'[q] = mem[q]
              /\ \A r \in Scopes : Named(journal'[r]) /\ \A q \in Processes : Named(mem'[q][r])
    BY <1>1, <1>3, WriteAppliedStep
  <2>2. /\ pc' \in [Processes -> Locations] /\ \A q \in Processes : q # p => pc'[q] = pc[q]
        /\ pc'[p] = IF scope[p] = "flow" THEN "load" ELSE "mutate"
    BY <1>3 DEF TypeInv, TypeOK, Go, Locations
  <2>3. todo' \in [Processes -> SUBSET Files] /\ \A q \in Processes : q # p => todo'[q] = todo[q]
    BY <1>3 DEF TypeInv, TypeOK
  <2>4. TypeOK'
    BY <1>1, <1>2, <1>3, <2>1, <2>2, <2>3 DEF TypeInv, TypeOK
  <2>5. Places'
    BY <1>1, <1>3, <2>2, <2>3 DEF TypeInv, Places, Running, Ended
  <2>6. JournalsNamed'
    BY <1>1, <1>3, <2>1, <2>2, <2>3 DEF TypeInv, JournalsNamed, Scopes
  <2>. QED  BY <2>4, <2>5, <2>6 DEF TypeInv
<1>4. CASE (RollBackFlow(p) \/ Close(p)) /\ UNCHANGED <<journal, mem>>
  <2>1. ProcessTypes' /\ Places' /\ JournalsNamed'
    BY <1>1, <1>4, CloseType, RollBackType DEF session
  <2>. QED  BY <1>1, <1>2, <1>4, <2>1, TypesSplit DEF TypeInv, DiskTypes
<1>. QED  BY <1>3, <1>4 DEF MarkApplied

\* So does the second mark of the flow.
LEMMA FinishType ==
    ASSUME TypeInv, NEW p \in Processes, Finish(p)
    PROVE  TypeInv'
<1>1. /\ scope[p] = "flow" /\ pc[p] = "finish" /\ Running(p) /\ mem[p][scope[p]].tx = p
      /\ UNCHANGED <<files, tracked, lock, backups, cmd, prior, snap>>
  BY DEF TypeInv, TypeOK, Scopes, Places, JournalsNamed, Finish, At, Running, Ended
<1>2. faults' \in 0 .. MaxFaults
  BY InstallAssumption DEF TypeInv, TypeOK, Finish, Fault
<1>3. CASE WriteApplied(p) /\ Go(p, "commit") /\ UNCHANGED <<scope, undoing>>
  <2>1. PICK j \in Journals :
              /\ j.tx = p
              /\ mem' \in [Processes -> [Scopes -> Journals]] /\ journal' \in [Scopes -> Journals]
              /\ mem'[p][scope[p]] = j
              /\ \A r \in Scopes : r # scope[p] => mem'[p][r] = mem[p][r]
              /\ \A q \in Processes : q # p => mem'[q] = mem[q]
              /\ \A r \in Scopes : Named(journal'[r]) /\ \A q \in Processes : Named(mem'[q][r])
    BY <1>1, <1>3, WriteAppliedStep
  <2>2. /\ pc' \in [Processes -> Locations] /\ \A q \in Processes : q # p => pc'[q] = pc[q]
        /\ pc'[p] = "commit"
    BY <1>3 DEF TypeInv, TypeOK, Go, Locations
  <2>4. TypeOK'
    BY <1>1, <1>2, <1>3, <2>1, <2>2 DEF TypeInv, TypeOK, undoing
  <2>5. Places'
    BY <1>1, <1>3, <2>2 DEF TypeInv, Places, Running, Ended, undoing
  <2>6. JournalsNamed'
    BY <1>1, <1>3, <2>1, <2>2 DEF TypeInv, JournalsNamed, Scopes, undoing
  <2>. QED  BY <2>4, <2>5, <2>6 DEF TypeInv
<1>4. CASE RollBackFlow(p) /\ UNCHANGED <<journal, mem>>
  <2>1. ProcessTypes' /\ Places' /\ JournalsNamed'
    BY <1>1, <1>4, RollBackType DEF session
  <2>. QED  BY <1>1, <1>2, <1>4, <2>1, TypesSplit DEF TypeInv, DiskTypes
<1>. QED  BY <1>3, <1>4 DEF Finish

\* Commit keeps the types.
LEMMA CommitType ==
    ASSUME TypeInv, NEW p \in Processes, Commit(p)
    PROVE  TypeInv'
<1>1. /\ scope[p] \in {"flow", "work"} /\ scope[p] \in Scopes /\ pc[p] = "commit" /\ Running(p)
      /\ UNCHANGED <<files, tracked, lock, backups, cmd, prior, snap>>
  BY DEF TypeInv, TypeOK, Scopes, Commit, At, Running, Ended
<1>2. faults' \in 0 .. MaxFaults
  BY InstallAssumption DEF TypeInv, TypeOK, Commit, Fault
<1>m. mem[p][scope[p]] \in Journals
  BY <1>1 DEF TypeInv, TypeOK
<1>j. PICK j \in Journals : j = [mem[p][scope[p]] EXCEPT !.committed = TRUE]
  BY <1>m, FlaggedType
<1>n. Named(j) /\ j.tx = mem[p][scope[p]].tx
  BY <1>1, <1>m, <1>j, FlaggedType DEF TypeInv, JournalsNamed, Named
<1>3. CASE /\ journal' = [journal EXCEPT ![scope[p]] = j]
           /\ mem' = [mem EXCEPT ![p][scope[p]] = j]
           /\ seen' = [seen EXCEPT ![p] = j]
           /\ mode' = [mode EXCEPT ![p] = "commit"]
           /\ Go(p, "drop")
           /\ UNCHANGED <<scope, todo, broken>>
  <2>1. /\ mem' \in [Processes -> [Scopes -> Journals]] /\ journal' \in [Scopes -> Journals]
        /\ mem'[p][scope[p]] = j
        /\ \A r \in Scopes : r # scope[p] => mem'[p][r] = mem[p][r]
        /\ \A q \in Processes : q # p => mem'[q] = mem[q]
        /\ \A r \in Scopes : Named(journal'[r]) /\ \A q \in Processes : Named(mem'[q][r])
    <3>1. Written(p, scope[p], j)
      BY <1>3, Zenon DEF Written
    <3>. QED  BY <1>1, <1>n, <3>1, WrittenHere
  <2>2. /\ pc' \in [Processes -> Locations] /\ \A q \in Processes : q # p => pc'[q] = pc[q]
        /\ pc'[p] = "drop" /\ seen' \in [Processes -> Journals]
        /\ \A q \in Processes : q # p => seen'[q] = seen[q] /\ mode'[q] = mode[q]
    BY <1>3 DEF TypeInv, TypeOK, Go, Locations
  <2>4. TypeOK'
    BY <1>1, <1>2, <1>3, <2>1, <2>2 DEF TypeInv, TypeOK
  <2>5. Places'
    BY <1>1, <1>3, <2>2 DEF TypeInv, Places, Running, Ended
  <2>6. JournalsNamed'
    BY <1>1, <1>3, <1>n, <2>1, <2>2 DEF TypeInv, JournalsNamed, Scopes
  <2>. QED  BY <2>4, <2>5, <2>6 DEF TypeInv
<1>4. CASE StartRestore(p) /\ scope[p] = "work" /\ UNCHANGED <<journal, mem>>
  <2>1. /\ pc' \in [Processes -> Locations] /\ todo' \in [Processes -> SUBSET Files]
        /\ pc'[p] = "restore" /\ todo'[p] = {f \in Files : snap[p][f] # Unset}
        /\ UNCHANGED <<scope, mode, seen, broken>>
        /\ \A q \in Processes : q # p => pc'[q] = pc[q] /\ todo'[q] = todo[q]
    BY <1>4, StartRestoreStep, TypesSplit DEF TypeInv
  <2>2. TypeOK'
    BY <1>1, <1>2, <1>4, <2>1 DEF TypeInv, TypeOK
  <2>3. Places'
    BY <1>1, <1>4, <2>1 DEF TypeInv, TypeOK, Places, Running, Ended
  <2>4. JournalsNamed'
    BY <1>1, <1>4, <2>1 DEF TypeInv, JournalsNamed
  <2>. QED  BY <2>2, <2>3, <2>4 DEF TypeInv
<1>5. CASE Close(p) /\ UNCHANGED <<journal, mem>>
  <2>1. ProcessTypes' /\ Places' /\ JournalsNamed'
    BY <1>1, <1>5, CloseType DEF session
  <2>. QED  BY <1>1, <1>2, <1>5, <2>1, TypesSplit DEF TypeInv, DiskTypes
<1>. QED  BY <1>3, <1>4, <1>5, <1>j DEF Commit

\* A flow that fails keeps the types.
LEMMA FlowFailsType ==
    ASSUME TypeInv, NEW p \in Processes, LoadFails(p) \/ RemovalFails(p)
    PROVE  TypeInv'
<1>1. RollBackFlow(p) /\ UNCHANGED <<disk, session>> /\ faults' \in 0 .. MaxFaults
  BY InstallAssumption DEF TypeInv, TypeOK, LoadFails, RemovalFails, Fault
<1>2. ProcessTypes' /\ Places' /\ JournalsNamed'
  BY <1>1, RollBackType DEF disk
<1>. QED  BY <1>1, <1>2, TypesSplit DEF TypeInv, DiskTypes, disk

\* ReleaseLock keeps the types.
LEMMA ReleaseLockType ==
    ASSUME TypeInv, NEW p \in Processes, ReleaseLock(p)
    PROVE  TypeInv'
<1>1. /\ scope[p] \in Scopes /\ pc[p] = "release" /\ faults' \in 0 .. MaxFaults
      /\ UNCHANGED <<files, tracked, journal, backups>>
  BY InstallAssumption DEF TypeInv, TypeOK, ReleaseLock, At, Fault
<1>2. DiskTypes'
  BY <1>1, LockFileType DEF ReleaseLock, Freed, Stuck
<1>3. CASE scope[p] = "work" /\ Go(p, "finish") /\ scope' = [scope EXCEPT ![p] = "flow"]
           /\ UNCHANGED <<undoing, session>>
  <2>1. ProcessTypes'
    BY <1>3 DEF TypeInv, TypeOK, ProcessTypes, Modes, Commands, Go, Locations, Scopes, undoing, session
  <2>2. Places' /\ JournalsNamed'
    BY <1>1, <1>3 DEF TypeInv, TypeOK, Places, JournalsNamed, Running, Ended, Go, undoing, session
  <2>. QED  BY <1>1, <1>2, <2>1, <2>2, TypesSplit DEF TypeInv
<1>4. ProcessTypes' /\ Places' /\ JournalsNamed' => TypeInv'
  BY <1>1, <1>2, TypesSplit DEF TypeInv
<1>. QED  BY <1>1, <1>3, <1>4, RollBackType, EndType DEF ReleaseLock

\* A crash keeps the types.
LEMMA CrashType ==
    ASSUME TypeInv, NEW p \in Processes, Crash(p)
    PROVE  TypeInv'
<1>1. End(p, "crashed") /\ UNCHANGED <<disk, faults>>
  BY DEF Crash
<1>2. ProcessTypes' /\ Places' /\ JournalsNamed'
  BY <1>1, EndType DEF disk
<1>. QED  BY <1>1, <1>2, TypesSplit DEF TypeInv, DiskTypes, disk

\* A file is put back, removed or written by a process whose list says so.
LEMMA UndoFileType ==
    ASSUME TypeInv, NEW p \in Processes, UndoFile(p)
    PROVE  TypeInv'
<1>1. PICK f \in todo[p] :
         LET saved == backups[scope[p]][seen[p].tx][f]
             lost  == seen[p].undo[f] = "present" /\ saved = Absent
         IN  files' = IF lost THEN files
                      ELSE [files EXCEPT ![f] =
                              IF seen[p].undo[f] = "present" THEN saved ELSE Absent]
  BY DEF UndoFile
<1>2. seen[p].tx \in Processes /\ f \in Files
  BY DEF UndoFile, At, TypeInv, JournalsNamed, TypeOK
<1>3. backups[scope[p]][seen[p].tx][f] \in Content
  BY <1>2 DEF TypeInv, TypeOK
<1>4. files' \in [Files -> Content]
  BY <1>1, <1>2, <1>3, Nothing DEF TypeInv, TypeOK
<1>5. TypeOK'
  BY <1>4 DEF UndoFile, session, TypeInv, TypeOK
<1>6. Places' /\ JournalsNamed'
  BY DEF UndoFile, At, session, TypeInv, TypeOK, Places, JournalsNamed, Running, Ended
<1>. QED  BY <1>5, <1>6 DEF TypeInv

\* A file that is written or removed, and an undo that fails, keep the types.
LEMMA FileType ==
    ASSUME TypeInv, NEW p \in Processes, UndoFails(p) \/ WriteFile(p) \/ RemoveFile(p)
    PROVE  TypeInv'
<1>. USE InstallAssumption, Nothing DEF At, disk, session, TypeInv
<1>1. CASE UndoFails(p)
  <2>1. TypeOK'
    BY <1>1 DEF UndoFails, Fault, TypeOK
  <2>2. Places' /\ JournalsNamed'
    BY <1>1 DEF UndoFails, TypeOK, Places, JournalsNamed, Running, Ended
  <2>. QED  BY <2>1, <2>2
<1>2. CASE WriteFile(p)
  <2>1. TypeOK'
    BY <1>2 DEF WriteFile, TypeOK, Commands
  <2>2. Places' /\ JournalsNamed'
    BY <1>2 DEF WriteFile, TypeOK, Places, JournalsNamed, Running, Ended
  <2>. QED  BY <2>1, <2>2
<1>3. CASE RemoveFile(p)
  <2>1. TypeOK'
    BY <1>3 DEF RemoveFile, TypeOK
  <2>2. Places' /\ JournalsNamed'
    BY <1>3 DEF RemoveFile, TypeOK, Places, JournalsNamed, Running, Ended
  <2>. QED  BY <2>1, <2>2
<1>. QED  BY <1>1, <1>2, <1>3

\* removeAllIgnore: of the transaction's backups, those that could not be removed stay.
LEMMA SweptBackups ==
    ASSUME TypeInv, NEW p \in Processes, SweepBackups(p)
    PROVE  /\ backups' \in [Scopes -> [Processes -> [Files -> Content]]]
           /\ \A t \in Processes, f \in Files :
                 backups'["work"][t][f] \in {backups["work"][t][f], Absent}
           /\ scope[p] = "flow" => backups'["work"] = backups["work"]
           /\ ~Fault => \A f \in Files : seen[p].tx \in Processes =>
                 backups'[scope[p]][seen[p].tx][f] = Absent
           /\ faults' \in 0 .. MaxFaults
<1>1. PICK left \in SUBSET Files :
         /\ backups' = [backups EXCEPT ![scope[p]][seen[p].tx] =
                [f \in Files |-> IF f \in left
                                THEN backups[scope[p]][seen[p].tx][f] ELSE Absent]]
         /\ \/ left = {} /\ UNCHANGED faults
            \/ left # {} /\ Fault
  BY DEF SweepBackups
<1>2. PICK s \in Scopes : s = scope[p]
  BY DEF TypeInv, TypeOK
<1>3. PICK t \in Processes \union {Nobody} : t = seen[p].tx
  BY DEF TypeInv, TypeOK, Journals
<1>. DEFINE kept == [f \in Files |-> IF f \in left THEN backups[s][t][f] ELSE Absent]
<1>4. backups' = [backups EXCEPT ![s] = [backups[s] EXCEPT ![t] = kept]]
  BY <1>1, <1>2, <1>3
<1>5. backups \in [Scopes -> [Processes -> [Files -> Content]]]
  BY DEF TypeInv, TypeOK
<1>6. /\ \A f \in Files : kept[f] \in {backups[s][t][f], Absent} /\ (left = {} => kept[f] = Absent)
      /\ t \in Processes => kept \in [Files -> Content]
  BY <1>5, Nothing
<1>. HIDE DEF kept
<1>7. /\ backups' \in [Scopes -> [Processes -> [Files -> Content]]]
      /\ \A r \in Scopes : r # s => backups'[r] = backups[r]
      /\ \A q \in Processes : q # t => backups'[s][q] = backups[s][q]
      /\ t \in Processes => backups'[s][t] = kept
  BY <1>4, <1>5, <1>6
<1>8. "work" \in Scopes /\ "flow" \in Scopes
  BY DEF Scopes
<1>9. \A q \in Processes, f \in Files : backups'["work"][q][f] \in {backups["work"][q][f], Absent}
  BY <1>6, <1>7, <1>8
<1>10. faults' \in 0 .. MaxFaults
  BY <1>1, InstallAssumption DEF TypeInv, TypeOK, Fault
<1>11. ~Fault => left = {}
  BY <1>1
<1>. QED  BY <1>2, <1>3, <1>6, <1>7, <1>8, <1>9, <1>10, <1>11

\* The journal goes, then the backups.
LEMMA DropType ==
    ASSUME TypeInv, NEW p \in Processes, DropJournal(p) \/ SweepBackups(p)
    PROVE  TypeInv'
<1>. USE Nothing DEF At, Go, undoing, session, TypeInv
<1>1. CASE DropJournal(p)
  <2>a. PICK s \in Scopes : s = scope[p]
    BY DEF TypeOK
  <2>b. journal' = journal \/ journal' = [journal EXCEPT ![s] = NoJournal]
    BY <1>1, <2>a, Zenon DEF DropJournal
  <2>c. \A r \in Scopes : journal'[r] = journal[r] \/ journal'[r] = NoJournal
    BY <2>b DEF TypeOK
  <2>0. journal' \in [Scopes -> Journals] /\ faults' \in 0 .. MaxFaults
    <3>1. journal' \in [Scopes -> Journals]
      BY <2>b DEF TypeOK
    <3>2. faults' \in 0 .. MaxFaults
      BY <1>1, InstallAssumption DEF DropJournal, TypeOK, Fault
    <3>. QED  BY <3>1, <3>2
  <2>1. TypeOK'
    BY <1>1, <2>0 DEF DropJournal, TypeOK, Locations
  <2>2. Places'
    BY <1>1 DEF DropJournal, TypeOK, Places, Running, Ended
  <2>3. JournalsNamed'
    <3>1. \A r \in Scopes : Named(journal[r])
      BY DEF JournalsNamed
    <3>2. \A r \in Scopes : Named(journal'[r])
      BY <2>c, <3>1 DEF Named
    <3>3. /\ UNCHANGED <<mem, scope, seen, todo>>
          /\ \A q \in Processes : pc'[q] = pc[q] \/ pc'[q] \in {"lock", "sweep"}
      BY <1>1 DEF DropJournal, TypeOK
    <3>4. \A q \in Processes, r \in Scopes : Named(mem'[q][r])
      BY <3>3 DEF JournalsNamed
    <3>. QED  BY <3>2, <3>3, <3>4 DEF JournalsNamed
  <2>. QED  BY <2>1, <2>2, <2>3
<1>2. CASE SweepBackups(p)
  <2>0. backups' \in [Scopes -> [Processes -> [Files -> Content]]] /\ faults' \in 0 .. MaxFaults
    BY <1>2, SweptBackups DEF SweepBackups, TypeOK, Scopes
  <2>1. TypeOK'
    BY <1>2, <2>0 DEF SweepBackups, TypeOK, Locations
  <2>2. Places' /\ JournalsNamed'
    BY <1>2 DEF SweepBackups, TypeOK, Places, JournalsNamed, Running, Ended
  <2>. QED  BY <2>1, <2>2
<1>. QED  BY <1>1, <1>2

\* The step of the command is over.
LEMMA OverType ==
    ASSUME TypeInv, NEW p \in Processes, MutationFails(p) \/ Mutated(p) \/ ClearTracked(p)
    PROVE  TypeInv'
<1>. USE Nothing, InstallAssumption DEF At, Go, disk, undoing, session, TypeInv
<1>1. CASE MutationFails(p)
  <2>1. TypeOK'
    BY <1>1 DEF MutationFails, StartRestore, Fault, TypeOK, Locations
  <2>2. Places' /\ JournalsNamed'
    BY <1>1 DEF MutationFails, StartRestore, TypeOK, Places, JournalsNamed, Running, Ended
  <2>. QED  BY <2>1, <2>2
<1>2. CASE Mutated(p)
  <2>1. TypeOK'
    BY <1>2 DEF Mutated, TypeOK, Locations
  <2>2. Places' /\ JournalsNamed'
    BY <1>2 DEF Mutated, TypeOK, Places, JournalsNamed, Running, Ended
  <2>. QED  BY <2>1, <2>2
<1>3. CASE ClearTracked(p)
  <2>1. TypeOK'
    BY <1>3 DEF ClearTracked, TypeOK, Locations
  <2>2. Places' /\ JournalsNamed'
    BY <1>3 DEF ClearTracked, TypeOK, Places, JournalsNamed, Running, Ended
  <2>. QED  BY <2>1, <2>2
<1>. QED  BY <1>1, <1>2, <1>3

\* TypeInv is inductive.
LEMMA TypeInvariant ==
    /\ Init => TypeInv
    /\ TypeInv /\ [Next]_vars => TypeInv'
<1>1. Init => TypeInv
  <2>. SUFFICES ASSUME Init PROVE TypeInv
    OBVIOUS
  <2>1. TypeOK
    BY Nothing, InstallAssumption
       DEF Init, TypeOK, Locations, Ended, Scopes, Locks, Commands, Unset, Content, Absent
  <2>2. Places /\ JournalsNamed
    BY Nothing DEF Init, Places, JournalsNamed, Named, Running, Ended
  <2>. QED  BY <2>1, <2>2 DEF TypeInv
<1>2. TypeInv /\ [Next]_vars => TypeInv'
  <2>. SUFFICES ASSUME TypeInv, [Next]_vars PROVE TypeInv'
    OBVIOUS
  <2>1. CASE UNCHANGED vars
    BY <2>1 DEF vars, TypeInv, TypeOK, Places, JournalsNamed, Running
  <2>2. ASSUME NEW p \in Processes, Step(p) PROVE TypeInv'
    BY <2>2, ReadJournalType, BegunType, UndoFileType, FileType, UndoneType, DropType, LockType,
       OpenJournalType, MarkAppliedType, LoadType, FlowFailsType, CaptureType, RecordType,
       OverType, RestoreFileType, RestoredType, SaveTrackedType, CommitType, FinishType,
       ReleaseLockType DEF Step
  <2>. QED  BY <2>1, <2>2, StartType, CrashType DEF Next
<1>. QED  BY <1>1, <1>2

\* Every variable has its type, whatever runs, crashes and fails; a file is put back
\* only from what was captured, or from the backups of a transaction.
THEOREM InstallTypeCorrect ==
    Spec => []TypeOK
<1>1. TypeInv => TypeOK
  BY DEF TypeInv
<1>. QED  BY <1>1, TypeInvariant, PTL DEF Spec

\* Operations that have failed are never forgotten.
FaultsKept == faults > 0 => faults' > 0

\* No step takes back an operation that has failed.
LEMMA FaultsStay ==
    ASSUME TypeInv, NEW p \in Processes, Start(p) \/ Step(p) \/ Crash(p)
    PROVE  (UNCHANGED faults \/ Fault) /\ FaultsKept
<1>1. faults \in Nat
  BY InstallAssumption DEF TypeInv, TypeOK
<1>2. UNCHANGED faults \/ Fault
  BY DEF Start, Crash, Step, ReadJournal, JournalUnreadable, UndoFile, UndoFails, Undone,
         DropJournal, SweepBackups, TryLock, CreateLock, InspectLock, BreakLock, RecoveryFails,
         Relock, StampLock, OpenJournal, MarkApplied, Load, LoadFails, Capture, Record,
         WriteFile, MutationFails, Mutated, RestoreFile, Restored, SaveTracked, Commit,
         RemoveFile, ClearTracked, RemovalFails, Finish, ReleaseLock
<1>. QED  BY <1>1, <1>2 DEF Fault, FaultsKept

-----------------------------------------------------------------------------
(***************************************************************************)
(* Locks.                                                                  *)
(***************************************************************************)
\* A step of one process leaves the others where they are.
Frame(p) ==
    \A q \in Processes : q # p => pc'[q] = pc[q] /\ scope'[q] = scope[q] /\ mode'[q] = mode[q]

\* A lock file that p gives back, but cannot remove.
LeftBehind(p, r) ==
    /\ LocksStick /\ faults' > 0
    /\ lock'[r].by = lock[r].by /\ (lock[r] = NoLock => lock'[r] = NoLock)
    /\ IF lock[r].by = p THEN lock'[r].left ELSE lock'[r].left = lock[r].left

\* What a step does to the lock of scope r: nothing, or it takes it, or it gives it
\* back or leaves it behind, or it breaks the lock of another.
LockMoved(p, r) ==
    \/ /\ lock'[r].by = lock[r].by /\ (lock[r] = NoLock => lock'[r] = NoLock)
       /\ lock'[r].left = lock[r].left
       /\ Holds(p, r)' <=> Holds(p, r)
    \/ lock[r] = NoLock /\ lock'[r].by = p /\ ~lock'[r].left /\ Holds(p, r)'
    \/ lock'[r] = NoLock /\ ~Holds(p, r)' /\ (Holds(p, r) \/ pc[p] = "break")
    \/ LeftBehind(p, r) /\ Holds(p, r) /\ ~Holds(p, r)'

LocksMoved(p) ==
    /\ Frame(p) /\ \A r \in Scopes : LockMoved(p, r)
    /\ pc'[p] # "crashed" /\ (pc'[p] = "break" => Stale(lock[scope[p]]))

\* A step that keeps what its process holds.
LEMMA MoveMoves ==
    ASSUME TypeInv, NEW p \in Processes, UNCHANGED lock, Frame(p),
           \A r \in Scopes : Holds(p, r)' <=> Holds(p, r),
           pc'[p] \notin {"crashed", "break"}
    PROVE  LocksMoved(p)
BY DEF LocksMoved, LockMoved

\* A flow that is rolled back keeps its lock until ReleaseLock.
LEMMA RollBackMoves ==
    ASSUME TypeInv, NEW p \in Processes, RollBackFlow(p), ~Holds(p, "work"), Holds(p, "flow")
    PROVE  Frame(p) /\ pc'[p] = "undo" /\ ~Holds(p, "work")' /\ Holds(p, "flow")'
BY DEF TypeInv, TypeOK, Scopes, RollBackFlow, StartUndo, Go, Frame, Holds, Running, Ended

\* A command that is over holds no lock.
LEMMA EndMoves ==
    ASSUME TypeInv, NEW p \in Processes, NEW l \in {"ok", "failed", "crashed"}, End(p, l)
    PROVE  Frame(p) /\ pc'[p] = l /\ ~Holds(p, "work")' /\ ~Holds(p, "flow")'
BY DEF TypeInv, TypeOK, Scopes, End, Go, Frame, Holds, Running, Ended

\* What Holds says in each scope.
LEMMA HoldsHere ==
    ASSUME TypeInv, NEW p \in Processes
    PROVE  /\ Holds(p, "work") <=>
                /\ Running(p) /\ scope[p] = "work"
                /\ pc[p] \notin {"recover", "lock", "inspect", "break", "relock"}
                /\ mode[p] \in {"recover", "discard"} => pc[p] \notin {"undo", "drop", "sweep"}
           /\ Holds(p, "flow") <=>
                /\ Running(p)
                /\ \/ scope[p] = "work"
                   \/ /\ scope[p] = "flow"
                      /\ pc[p] \notin {"recover", "lock", "inspect", "break", "relock"}
                      /\ mode[p] \in {"recover", "discard"} =>
                            pc[p] \notin {"undo", "drop", "sweep"}
           /\ scope[p] = "work" \/ scope[p] = "flow"
<1>1. scope[p] \in {"flow", "work"}
  BY DEF TypeInv, TypeOK, Scopes
<1>. QED  BY <1>1 DEF Holds

\* When Begin fails, the process holds no lock of the scope it was to begin in.
LEMMA BeginFailsMoves ==
    ASSUME TypeInv, NEW p \in Processes, BeginFails(p), Running(p)
    PROVE  /\ Frame(p) /\ pc'[p] \in {"undo", "failed"}
           /\ scope[p] = "flow" => ~Holds(p, "flow")' /\ ~Holds(p, "work")' /\ ~Holds(p, "work")
           /\ scope[p] = "work" => ~Holds(p, "work")' /\ Holds(p, "flow")' /\ Holds(p, "flow")
<1>1. CASE scope[p] = "flow" /\ End(p, "failed")
  <2>1. Frame(p) /\ pc'[p] = "failed" /\ ~Holds(p, "work")' /\ ~Holds(p, "flow")'
    BY <1>1, EndMoves
  <2>2. ~Holds(p, "work")
    BY <1>1, HoldsHere
  <2>. QED  BY <1>1, <2>1, <2>2
<1>2. CASE scope[p] = "work" /\ RollBackFlow(p)
  <2>1. Frame(p) /\ pc'[p] = "undo" /\ scope'[p] = "flow" /\ mode'[p] = "rollback"
    BY <1>2 DEF TypeInv, TypeOK, Scopes, RollBackFlow, StartUndo, Go, Frame
  <2>2. Holds(p, "flow")
    BY <1>2, HoldsHere
  <2>3. Holds(p, "flow")' /\ ~Holds(p, "work")'
    BY <2>1 DEF Holds, Running, Ended
  <2>. QED  BY <1>2, <2>1, <2>2, <2>3
<1>. QED  BY <1>1, <1>2 DEF BeginFails

\* Begin fails before it has the lock.
LEMMA RefusedMoves ==
    ASSUME TypeInv, NEW p \in Processes, BeginFails(p), UNCHANGED lock, Running(p),
           scope[p] = "flow" => ~Holds(p, "flow"), scope[p] = "work" => ~Holds(p, "work")
    PROVE  LocksMoved(p)
<1>1. scope[p] \in {"flow", "work"}
  BY DEF TypeInv, TypeOK, Scopes
<1>2. (Holds(p, "flow")' <=> Holds(p, "flow")) /\ (Holds(p, "work")' <=> Holds(p, "work"))
  BY <1>1, BeginFailsMoves
<1>3. \A r \in Scopes : Holds(p, r)' <=> Holds(p, r)
  BY <1>2 DEF Scopes
<1>. QED  BY <1>3, BeginFailsMoves, MoveMoves

\* Recover fails, or the inspection of a lock file.
LEMMA BegunMoves ==
    ASSUME TypeInv, NEW p \in Processes, JournalUnreadable(p) \/ RecoveryFails(p)
    PROVE  LocksMoved(p)
<1>1. pc[p] \in {"recover", "inspect", "break"} /\ BeginFails(p) /\ UNCHANGED lock
  BY DEF JournalUnreadable, RecoveryFails, At, disk
<1>2. Running(p) /\ ~(scope[p] = "flow" /\ Holds(p, "flow"))
      /\ ~(scope[p] = "work" /\ Holds(p, "work"))
  BY <1>1, HoldsHere DEF Running, Ended
<1>. QED  BY <1>1, <1>2, RefusedMoves

\* The lock of the transaction is given back, or its file is left behind.
LEMMA GiveMoves ==
    ASSUME TypeInv, NEW p \in Processes, NEW s \in Scopes, scope[p] = s,
           lock' = Freed(p) \/ (LocksStick /\ Fault /\ lock' = Stuck(p)),
           Holds(p, s), ~Holds(p, s)', Frame(p), pc'[p] \notin {"crashed", "break"},
           \A r \in Scopes : r # s => (Holds(p, r)' <=> Holds(p, r))
    PROVE  LocksMoved(p)
<1>1. CASE lock' = Freed(p)
  <2>1. lock' = [lock EXCEPT ![s] = NoLock]
    BY <1>1, Zenon DEF Freed
  <2>2. lock'[s] = NoLock /\ \A r \in Scopes : r # s => lock'[r] = lock[r]
    BY <2>1 DEF TypeInv, TypeOK
  <2>. QED  BY <2>2 DEF LocksMoved, LockMoved
<1>2. CASE LocksStick /\ Fault /\ lock' = Stuck(p)
  <2>1. lock' = IF lock[s].by = p THEN [lock EXCEPT ![s].left = TRUE] ELSE lock
    BY <1>2, Zenon DEF Stuck
  <2>2. faults' > 0
    BY <1>2, InstallAssumption DEF Fault, TypeInv, TypeOK
  <2>3. LeftBehind(p, s) /\ \A r \in Scopes : r # s => lock'[r] = lock[r]
    <3>1. CASE lock[s].by = p
      <4>1. lock[s] # NoLock /\ lock[s] \in Locks
        BY <3>1, InstallAssumption DEF TypeInv, TypeOK, NoLock
      <4>2. /\ lock'[s] = [lock[s] EXCEPT !.left = TRUE]
            /\ \A r \in Scopes : r # s => lock'[r] = lock[r]
        BY <2>1, <3>1 DEF TypeInv, TypeOK
      <4>3. lock'[s].by = lock[s].by /\ lock'[s].left
        BY <4>1, <4>2 DEF Locks
      <4>. QED  BY <1>2, <2>2, <3>1, <4>1, <4>2, <4>3 DEF LeftBehind
    <3>. QED  BY <1>2, <2>1, <2>2, <3>1 DEF LeftBehind
  <2>. QED  BY <2>3 DEF LocksMoved, LockMoved
<1>. QED  BY <1>1, <1>2

\* releaseLock: the process goes on without the lock.
LEMMA ReleaseMoves ==
    ASSUME TypeInv, NEW p \in Processes, ReleaseLock(p)
    PROVE  LocksMoved(p)
<1>1. PICK s \in Scopes : s = scope[p]
  BY DEF TypeInv, TypeOK
<1>2. /\ pc[p] = "release"
      /\ lock' = Freed(p) \/ (LocksStick /\ Fault /\ lock' = Stuck(p))
  BY DEF ReleaseLock, At
<1>3. Holds(p, s)
  BY <1>1, <1>2 DEF Holds, Running, Ended
<1>4. CASE s = "flow" /\ \E l \in {"ok", "failed"} : End(p, l)
  <2>1. Frame(p) /\ pc'[p] \in {"ok", "failed"} /\ ~Holds(p, "work")' /\ ~Holds(p, "flow")'
    BY <1>4, EndMoves
  <2>2. ~Holds(p, "work")
    BY <1>1, <1>4, HoldsHere
  <2>. QED  BY <1>1, <1>2, <1>3, <1>4, <2>1, <2>2, GiveMoves DEF Scopes
<1>5. CASE /\ s = "work" /\ pc' = [pc EXCEPT ![p] = "finish"]
           /\ scope' = [scope EXCEPT ![p] = "flow"] /\ UNCHANGED mode
  <2>1. Frame(p) /\ pc'[p] = "finish" /\ scope'[p] = "flow"
    BY <1>5 DEF Frame, TypeInv, TypeOK, Scopes
  <2>2. ~Holds(p, "work")' /\ Holds(p, "flow")'
    BY <2>1 DEF Holds, Running, Ended
  <2>3. Holds(p, "flow")
    BY <1>1, <1>2, <1>5 DEF Holds, Running, Ended
  <2>. QED  BY <1>1, <1>2, <1>3, <1>5, <2>1, <2>2, <2>3, GiveMoves DEF Scopes
<1>6. CASE s = "work" /\ RollBackFlow(p)
  <2>1. /\ Frame(p) /\ pc'[p] = "undo" /\ scope'[p] = "flow" /\ mode'[p] = "rollback"
    BY <1>6 DEF TypeInv, TypeOK, Scopes, RollBackFlow, StartUndo, Go, Frame
  <2>2. ~Holds(p, "work")' /\ Holds(p, "flow")'
    BY <2>1 DEF Holds, Running, Ended
  <2>3. Holds(p, "flow")
    BY <1>1, <1>2, <1>6 DEF Holds, Running, Ended
  <2>. QED  BY <1>1, <1>2, <1>3, <1>6, <2>1, <2>2, <2>3, GiveMoves DEF Scopes
<1>. QED  BY <1>1, <1>4, <1>5, <1>6 DEF ReleaseLock, Go, undoing

\* The lock file is made by the process that then holds the lock.
LEMMA CreateMoves ==
    ASSUME TypeInv, NEW p \in Processes, CreateLock(p), pc[p] \in {"lock", "relock"}
    PROVE  LocksMoved(p)
<1>1. /\ lock[scope[p]] = NoLock /\ scope[p] \in Scopes
      /\ lock' = [lock EXCEPT ![scope[p]] = [by |-> p, written |-> FALSE, left |-> FALSE]]
      /\ pc' = [pc EXCEPT ![p] = "stamp"] /\ UNCHANGED <<scope, mode>>
  BY DEF CreateLock, Go, undoing, TypeInv, TypeOK
<1>2. Frame(p) /\ pc'[p] = "stamp"
  BY <1>1 DEF Frame, TypeInv, TypeOK
<1>3. /\ lock'[scope[p]].by = p /\ ~lock'[scope[p]].left
      /\ \A r \in Scopes : r # scope[p] => lock'[r] = lock[r]
  BY <1>1 DEF TypeInv, TypeOK
<1>4. Holds(p, scope[p])' /\ \A r \in Scopes : r # scope[p] => (Holds(p, r)' <=> Holds(p, r))
  BY <1>1, <1>2 DEF Holds, Running, Ended, TypeInv, TypeOK, Scopes
<1>. QED  BY <1>1, <1>2, <1>3, <1>4 DEF LocksMoved, LockMoved

\* acquireLock: the lock is taken, or the transaction does not begin.
LEMMA AskingMoves ==
    ASSUME TypeInv, NEW p \in Processes,
           TryLock(p) \/ InspectLock(p) \/ Relock(p) \/ StampLock(p)
    PROVE  LocksMoved(p)
<1>1. CASE TryLock(p)
  <2>1. CASE Go(p, "inspect") /\ UNCHANGED <<disk, scope, undoing>> /\ pc[p] = "lock"
    BY <2>1, MoveMoves
       DEF Go, Frame, Holds, Running, Ended, disk, undoing, TypeInv, TypeOK
  <2>2. CASE BeginFails(p) /\ UNCHANGED disk /\ pc[p] = "lock"
    BY <2>2, HoldsHere, RefusedMoves DEF disk, Running, Ended
  <2>. QED  BY <1>1, <2>1, <2>2, CreateMoves DEF TryLock, At
<1>2. CASE InspectLock(p)
  <2>1. CASE Go(p, "relock") /\ UNCHANGED <<scope, undoing>>
    BY <1>2, <2>1, MoveMoves
       DEF InspectLock, At, Go, Frame, Holds, Running, Ended, disk, undoing, TypeInv, TypeOK
  <2>2. CASE Go(p, "break") /\ UNCHANGED <<scope, undoing>> /\ Stale(lock[scope[p]])
    <3>1. /\ UNCHANGED lock /\ Frame(p) /\ pc'[p] = "break"
          /\ \A r \in Scopes : Holds(p, r)' <=> Holds(p, r)
      BY <1>2, <2>2
         DEF InspectLock, At, Go, Frame, Holds, Running, Ended, disk, undoing, TypeInv, TypeOK
    <3>. QED  BY <2>2, <3>1 DEF LocksMoved, LockMoved
  <2>3. CASE BeginFails(p) /\ UNCHANGED disk /\ pc[p] = "inspect"
    BY <2>3, HoldsHere, RefusedMoves DEF disk, Running, Ended
  <2>. QED  BY <1>2, <2>1, <2>2, <2>3 DEF InspectLock, At
<1>3. CASE Relock(p)
  <2>1. CASE BeginFails(p) /\ UNCHANGED disk /\ pc[p] = "relock"
    BY <2>1, HoldsHere, RefusedMoves DEF disk, Running, Ended
  <2>. QED  BY <1>3, <2>1, CreateMoves DEF Relock, At
<1>4. CASE StampLock(p)
  <2>1. pc[p] = "stamp" /\ Running(p)
    BY <1>4 DEF StampLock, At, Running, Ended
  <2>2. CASE /\ lock' = IF lock[scope[p]].by = p
                         THEN [lock EXCEPT ![scope[p]].written = TRUE] ELSE lock
             /\ Go(p, "open")
             /\ UNCHANGED <<scope, undoing>>
    <3>1. PICK s \in Scopes : s = scope[p]
      BY DEF TypeInv, TypeOK
    <3>2. lock' = lock \/ (lock[s].by = p /\ lock' = [lock EXCEPT ![s].written = TRUE])
      BY <2>2, <3>1, Zenon
    <3>3. \A r \in Scopes :
             /\ lock'[r].by = lock[r].by /\ lock'[r].left = lock[r].left
             /\ lock[r] = NoLock => lock'[r] = NoLock
      <4>1. CASE lock[s].by = p /\ lock' = [lock EXCEPT ![s].written = TRUE]
        <5>1. lock[s] # NoLock /\ lock[s] \in Locks
          BY <4>1, InstallAssumption DEF TypeInv, TypeOK, NoLock
        <5>2. lock'[s] = [lock[s] EXCEPT !.written = TRUE]
          BY <4>1 DEF TypeInv, TypeOK
        <5>3. lock'[s].by = lock[s].by /\ lock'[s].left = lock[s].left
          BY <5>1, <5>2 DEF Locks
        <5>4. \A r \in Scopes : r # s => lock'[r] = lock[r]
          BY <4>1 DEF TypeInv, TypeOK
        <5>. QED  BY <5>1, <5>3, <5>4
      <4>. QED  BY <3>2, <4>1
    <3>4. Frame(p) /\ pc'[p] = "open" /\ \A r \in Scopes : Holds(p, r)' <=> Holds(p, r)
      BY <2>1, <2>2 DEF Go, Frame, Holds, Running, Ended, undoing, TypeInv, TypeOK, Scopes
    <3>5. \A r \in Scopes : LockMoved(p, r)
      BY <3>3, <3>4, Zenon DEF LockMoved
    <3>. QED  BY <3>4, <3>5 DEF LocksMoved
  <2>3. CASE /\ lock' = Freed(p) \/ (LocksStick /\ Fault /\ lock' = Stuck(p))
             /\ BeginFails(p)
    <3>1. PICK s \in Scopes : s = scope[p]
      BY DEF TypeInv, TypeOK
    <3>2. Holds(p, s) /\ ~Holds(p, s)'
      BY <2>1, <2>3, <3>1, HoldsHere, BeginFailsMoves
    <3>3. \A r \in Scopes : r # s => (Holds(p, r)' <=> Holds(p, r))
      BY <2>1, <2>3, <3>1, HoldsHere, BeginFailsMoves DEF Scopes
    <3>4. Frame(p) /\ pc'[p] \in {"undo", "failed"}
      BY <2>1, <2>3, BeginFailsMoves
    <3>. QED  BY <2>3, <3>1, <3>2, <3>3, <3>4, GiveMoves
  <2>. QED  BY <1>4, <2>2, <2>3 DEF StampLock
<1>. QED  BY <1>1, <1>2, <1>3, <1>4

\* The end of an undo gives no lock up.
LEMMA UndoneMoves ==
    ASSUME TypeInv, NEW p \in Processes, Undone(p)
    PROVE  LocksMoved(p)
<1>1. UNCHANGED lock /\ pc[p] = "undo" /\ Running(p)
  BY DEF Undone, At, disk, Running, Ended
<1>2. CASE Go(p, "drop") /\ UNCHANGED <<scope, undoing, session>>
  BY <1>1, <1>2, MoveMoves
     DEF Go, Frame, Holds, Running, Ended, undoing, TypeInv, TypeOK
<1>3. CASE mode[p] = "recover" /\ BeginFails(p)
  BY <1>1, <1>3, HoldsHere, RefusedMoves
<1>4. CASE mode[p] = "rollback" /\ Close(p)
  BY <1>1, <1>4, MoveMoves
     DEF Close, Go, Frame, Holds, Running, Ended, TypeInv, TypeOK
<1>. QED  BY <1>2, <1>3, <1>4 DEF Undone

\* What every step does to the locks.
LEMMA StepMoves ==
    ASSUME TypeInv, NEW p \in Processes, Step(p)
    PROVE  LocksMoved(p)
<1>. USE Nothing DEF At, Go, LocksMoved, LockMoved, Frame, Holds, Running, Ended, Scopes,
           TypeInv, TypeOK, Places
<1>1. CASE ReadJournal(p)
  BY <1>1 DEF ReadJournal, undoing, Discardable, StartUndo, disk, session
<1>2. CASE UndoFile(p)
  BY <1>2 DEF UndoFile, session
<1>3. CASE UndoFails(p)
  BY <1>3 DEF UndoFails, disk, session
<1>4. CASE Undone(p)
  BY <1>4, UndoneMoves
<1>5. CASE DropJournal(p)
  BY <1>5 DEF DropJournal, undoing, session
<1>6. CASE SweepBackups(p)
  BY <1>6 DEF SweepBackups, undoing, session
<1>7. CASE TryLock(p)
  BY <1>7, AskingMoves
<1>8. CASE InspectLock(p)
  BY <1>8, AskingMoves
<1>9. CASE BreakLock(p)
  BY <1>9 DEF BreakLock, undoing, session
<1>10. CASE Relock(p)
  BY <1>10, AskingMoves
<1>11. CASE StampLock(p)
  BY <1>11, AskingMoves
<1>12. CASE OpenJournal(p)
  BY <1>12 DEF OpenJournal, undoing, Close
<1>13. CASE MarkApplied(p)
  BY <1>13 DEF MarkApplied, WriteApplied, RollBackFlow, Close, StartUndo
<1>14. CASE Load(p)
  BY <1>14 DEF Load, undoing, disk
<1>15. CASE LoadFails(p)
  BY <1>15 DEF LoadFails, RollBackFlow, disk, session, StartUndo
<1>16. CASE Capture(p)
  BY <1>16 DEF Capture, Backup, undoing
<1>17. CASE Record(p)
  BY <1>17 DEF Record, undoing, StartRestore
<1>18. CASE WriteFile(p)
  BY <1>18 DEF WriteFile, session
<1>19. CASE MutationFails(p)
  BY <1>19 DEF MutationFails, StartRestore, disk, session
<1>20. CASE Mutated(p)
  BY <1>20 DEF Mutated, disk, undoing, session
<1>21. CASE RestoreFile(p)
  BY <1>21 DEF RestoreFile, session
<1>22. CASE Restored(p)
  BY <1>22 DEF Restored, StartUndo, disk, session
<1>23. CASE SaveTracked(p)
  BY <1>23 DEF SaveTracked, undoing, StartRestore, session
<1>24. CASE Commit(p)
  BY <1>24 DEF Commit, StartRestore, Close
<1>25. CASE RemoveFile(p)
  BY <1>25 DEF RemoveFile, session
<1>26. CASE ClearTracked(p)
  BY <1>26 DEF ClearTracked, undoing, session
<1>27. CASE RemovalFails(p)
  BY <1>27 DEF RemovalFails, RollBackFlow, disk, session, StartUndo
<1>28. CASE Finish(p)
  BY <1>28 DEF Finish, WriteApplied, undoing, RollBackFlow, StartUndo
<1>29. CASE ReleaseLock(p)
  BY <1>29, ReleaseMoves
<1>30. CASE JournalUnreadable(p)
  BY <1>30, BegunMoves
<1>31. CASE RecoveryFails(p)
  BY <1>31, BegunMoves
<1>. QED
  BY <1>1, <1>2, <1>3, <1>4, <1>5, <1>6, <1>7, <1>8, <1>9, <1>10, <1>11, <1>12, <1>13,
     <1>14, <1>15, <1>16, <1>17, <1>18, <1>19, <1>20, <1>21, <1>22, <1>23, <1>24, <1>25,
     <1>26, <1>27, <1>28, <1>29, <1>30, <1>31
     DEF Step

\* Only a command that runs takes a step.
LEMMA StepRuns ==
    ASSUME NEW p \in Processes, Step(p)
    PROVE  Running(p)
<1>1. CASE ReadJournal(p)
  BY <1>1 DEF ReadJournal, At, Running, Ended
<1>2. CASE UndoFile(p)
  BY <1>2 DEF UndoFile, At, Running, Ended
<1>3. CASE UndoFails(p)
  BY <1>3 DEF UndoFails, At, Running, Ended
<1>4. CASE Undone(p)
  BY <1>4 DEF Undone, At, Running, Ended
<1>5. CASE DropJournal(p)
  BY <1>5 DEF DropJournal, At, Running, Ended
<1>6. CASE SweepBackups(p)
  BY <1>6 DEF SweepBackups, At, Running, Ended
<1>7. CASE TryLock(p)
  BY <1>7 DEF TryLock, At, Running, Ended
<1>8. CASE InspectLock(p)
  BY <1>8 DEF InspectLock, At, Running, Ended
<1>9. CASE BreakLock(p)
  BY <1>9 DEF BreakLock, At, Running, Ended
<1>10. CASE Relock(p)
  BY <1>10 DEF Relock, At, Running, Ended
<1>11. CASE StampLock(p)
  BY <1>11 DEF StampLock, At, Running, Ended
<1>12. CASE OpenJournal(p)
  BY <1>12 DEF OpenJournal, At, Running, Ended
<1>13. CASE MarkApplied(p)
  BY <1>13 DEF MarkApplied, At, Running, Ended
<1>14. CASE Load(p)
  BY <1>14 DEF Load, At, Running, Ended
<1>15. CASE LoadFails(p)
  BY <1>15 DEF LoadFails, At, Running, Ended
<1>16. CASE Capture(p)
  BY <1>16 DEF Capture, At, Running, Ended
<1>17. CASE Record(p)
  BY <1>17 DEF Record, At, Running, Ended
<1>18. CASE WriteFile(p)
  BY <1>18 DEF WriteFile, At, Running, Ended
<1>19. CASE MutationFails(p)
  BY <1>19 DEF MutationFails, At, Running, Ended
<1>20. CASE Mutated(p)
  BY <1>20 DEF Mutated, At, Running, Ended
<1>21. CASE RestoreFile(p)
  BY <1>21 DEF RestoreFile, At, Running, Ended
<1>22. CASE Restored(p)
  BY <1>22 DEF Restored, At, Running, Ended
<1>23. CASE SaveTracked(p)
  BY <1>23 DEF SaveTracked, At, Running, Ended
<1>24. CASE Commit(p)
  BY <1>24 DEF Commit, At, Running, Ended
<1>25. CASE RemoveFile(p)
  BY <1>25 DEF RemoveFile, At, Running, Ended
<1>26. CASE ClearTracked(p)
  BY <1>26 DEF ClearTracked, At, Running, Ended
<1>27. CASE RemovalFails(p)
  BY <1>27 DEF RemovalFails, At, Running, Ended
<1>28. CASE Finish(p)
  BY <1>28 DEF Finish, At, Running, Ended
<1>29. CASE ReleaseLock(p)
  BY <1>29 DEF ReleaseLock, At, Running, Ended
<1>30. CASE JournalUnreadable(p)
  BY <1>30 DEF JournalUnreadable, At, Running, Ended
<1>31. CASE RecoveryFails(p)
  BY <1>31 DEF RecoveryFails, At, Running, Ended
<1>. QED
  BY <1>1, <1>2, <1>3, <1>4, <1>5, <1>6, <1>7, <1>8, <1>9, <1>10, <1>11, <1>12, <1>13,
     <1>14, <1>15, <1>16, <1>17, <1>18, <1>19, <1>20, <1>21, <1>22, <1>23, <1>24, <1>25,
     <1>26, <1>27, <1>28, <1>29, <1>30, <1>31
     DEF Step

\* A command that starts, and one that crashes, touches no lock.
LEMMA StartMoves ==
    ASSUME TypeInv, NEW p \in Processes, Start(p)
    PROVE  LocksMoved(p) /\ pc[p] = "idle" /\ pc'[p] = "recover"
<1>1. /\ pc[p] = "idle" /\ pc' = [pc EXCEPT ![p] = "recover"]
      /\ UNCHANGED <<lock, scope, mode>> /\ scope[p] = "flow"
  BY DEF Start, At, Go, disk, undoing, TypeInv, Places, Running, Ended
<1>2. Frame(p) /\ pc'[p] = "recover" /\ \A r \in Scopes : ~Holds(p, r) /\ ~Holds(p, r)'
  BY <1>1 DEF Frame, Holds, Running, Ended, TypeInv, TypeOK, Scopes
<1>. QED  BY <1>1, <1>2, MoveMoves

\* A crash leaves the lock files as they are.
LEMMA CrashMoves ==
    ASSUME TypeInv, NEW p \in Processes, Crash(p)
    PROVE  /\ Frame(p) /\ pc'[p] = "crashed" /\ UNCHANGED lock
           /\ \A r \in Scopes : ~Holds(p, r)'
<1>1. End(p, "crashed") /\ UNCHANGED lock
  BY DEF Crash, disk
<1>2. Frame(p) /\ pc'[p] = "crashed" /\ ~Holds(p, "work")' /\ ~Holds(p, "flow")'
  BY <1>1, EndMoves
<1>. QED  BY <1>1, <1>2 DEF Scopes

\* The others hold what they held.
LEMMA OthersHold ==
    ASSUME NEW p \in Processes, Frame(p), NEW q \in Processes, q # p, NEW s \in Scopes
    PROVE  (Holds(q, s)' <=> Holds(q, s)) /\ (Running(q)' <=> Running(q)) /\ pc'[q] = pc[q]
BY DEF Frame, Holds, Running

\* Nothing is locked at first.
LEMMA InitLocks ==
    ASSUME Init
    PROVE  LocksHeld /\ LocksKept /\ OneRuns
<1>1. \A s \in Scopes : lock[s] = NoLock /\ lock[s].by = Nobody /\ ~lock[s].left
  BY DEF Init, NoLock
<1>2. \A p \in Processes : pc[p] = "idle" /\ ~Running(p)
  BY DEF Init, Running, Ended
<1>. QED  BY <1>1, <1>2, InstallAssumption DEF LocksHeld, LocksKept, OneRuns, Holds

\* LocksHeld is inductive.
LEMMA LocksStayHeld ==
    ASSUME TypeInv, LocksHeld, [Next]_vars
    PROVE  LocksHeld'
<1>1. ASSUME NEW p \in Processes, LocksMoved(p), pc[p] # "crashed", FaultsKept
      PROVE  LocksHeld'
  <2>. SUFFICES ASSUME NEW s \in Scopes
       PROVE  /\ lock'[s].by = Nobody => lock'[s] = NoLock
              /\ lock'[s].left => LocksStick /\ faults' > 0
              /\ \A q \in Processes : lock'[s].by = q =>
                    Holds(q, s)' \/ pc'[q] = "crashed" \/ lock'[s].left
    BY DEF LocksHeld, At, NoLock
  <2>1. LockMoved(p, s) /\ Frame(p)
    BY <1>1 DEF LocksMoved
  <2>2. /\ lock[s].by = Nobody => lock[s] = NoLock
        /\ lock[s].left => LocksStick /\ faults > 0
        /\ \A q \in Processes : lock[s].by = q =>
              Holds(q, s) \/ pc[q] = "crashed" \/ lock[s].left
    BY DEF LocksHeld, At
  <2>3. NoLock.by = Nobody /\ Nobody \notin Processes /\ ~NoLock.left
    BY InstallAssumption DEF NoLock
  <2>4. \A q \in Processes : q # p => (Holds(q, s)' <=> Holds(q, s)) /\ pc'[q] = pc[q]
    BY <2>1, OthersHold
  <2>. QED  BY <1>1, <2>1, <2>2, <2>3, <2>4 DEF LockMoved, LeftBehind, FaultsKept
<1>2. ASSUME NEW p \in Processes, Crash(p)
      PROVE  LocksHeld'
  <2>1. Frame(p) /\ pc'[p] = "crashed" /\ UNCHANGED lock
    BY <1>2, CrashMoves
  <2>2. \A q \in Processes, s \in Scopes : q # p => (Holds(q, s)' <=> Holds(q, s)) /\ pc'[q] = pc[q]
    BY <2>1, OthersHold
  <2>3. UNCHANGED faults /\ NoLock' = NoLock
    BY <1>2 DEF Crash, NoLock
  <2>. QED  BY <2>1, <2>2, <2>3 DEF LocksHeld, At
<1>3. ASSUME NEW p \in Processes, Start(p) \/ Step(p)
      PROVE  LocksMoved(p) /\ pc[p] # "crashed" /\ FaultsKept
  BY <1>3, StartMoves, StepMoves, StepRuns, FaultsStay DEF Running, Ended
<1>4. CASE UNCHANGED vars
  BY <1>4 DEF vars, LocksHeld, Holds, Running, At, NoLock
<1>. QED  BY <1>1, <1>2, <1>3, <1>4 DEF Next

\* acquireLock, releaseLock, Session.Close: a lock file is that of a command that
\* still runs, or that crashed, or that could not remove it; every path by which a
\* command returns tries to.
THEOREM LocksAreFreed == Spec => []LocksFreed
<1>1. Init => TypeInv /\ LocksHeld
  BY TypeInvariant, InitLocks
<1>2. TypeInv /\ LocksHeld /\ [Next]_vars => TypeInv' /\ LocksHeld'
  BY TypeInvariant, LocksStayHeld
<1>3. TypeInv /\ LocksHeld => LocksFreed
  BY DEF TypeInv, TypeOK, Locks, LocksHeld, LocksFreed, Holds
<1>. QED  BY <1>1, <1>2, <1>3, PTL DEF Spec

\* Where nothing crashes, no lock is broken, and none is lost.
LEMMA LocksStayKept ==
    ASSUME TypeInv, LocksHeld, LocksKept, [Next]_vars, MaxCrashes = 0, ~LocksStick
    PROVE  LocksKept'
<1>1. ASSUME NEW p \in Processes, LocksMoved(p)
      PROVE  LocksKept'
  <2>1. Frame(p) /\ \A s \in Scopes : LockMoved(p, s)
    BY <1>1 DEF LocksMoved
  <2>2. pc'[p] # "crashed" /\ (pc'[p] = "break" => Stale(lock[scope[p]]))
    BY <1>1 DEF LocksMoved
  <2>3. \A s \in Scopes : ~Stale(lock[s])
    BY DEF Stale, LocksHeld, LocksKept, Holds, At, TypeInv, TypeOK, Locks
  <2>4. pc'[p] \notin {"crashed", "break"}
    BY <2>2, <2>3 DEF TypeInv, TypeOK
  <2>5. \A q \in Processes : pc'[q] \notin {"crashed", "break"}
    BY <2>1, <2>4 DEF LocksKept, Frame
  <2>6. ASSUME NEW q \in Processes, NEW s \in Scopes, Holds(q, s)'
        PROVE  lock'[s].by = q
    <3>1. LockMoved(p, s) /\ pc[p] # "break"
      BY <2>1 DEF LocksKept
    <3>2. \A x \in Processes : Holds(x, s) => lock[s].by = x
      BY DEF LocksKept
    <3>3. NoLock.by = Nobody /\ Nobody \notin Processes
      BY InstallAssumption DEF NoLock
    <3>4. q # p => (Holds(q, s)' <=> Holds(q, s))
      BY <2>1, OthersHold
    <3>. QED  BY <2>6, <3>1, <3>2, <3>3, <3>4 DEF LockMoved, LeftBehind
  <2>. QED  BY <2>5, <2>6 DEF LocksKept
<1>2. ASSUME NEW p \in Processes
      PROVE  ~Crash(p)
  <2>1. IsFiniteSet({q \in Processes : At(q, "crashed")})
    BY InstallAssumption, FS_Subset
  <2>2. Cardinality({q \in Processes : At(q, "crashed")}) \in Nat
    BY <2>1, FS_CardinalityType
  <2>. QED  BY <2>2 DEF Crash
<1>3. CASE UNCHANGED vars
  BY <1>3 DEF vars, LocksKept, Holds, Running
<1>. QED  BY <1>1, <1>2, <1>3, StartMoves, StepMoves DEF Next

\* Where commands do not run at the same time, one alone runs.
LEMMA OneStillRuns ==
    ASSUME TypeInv, OneRuns, [Next]_vars, MaxAlive = 1
    PROVE  OneRuns'
<1>1. ASSUME NEW p \in Processes, Frame(p), Running(p)
      PROVE  OneRuns'
  BY <1>1 DEF Frame, OneRuns, Running
<1>2. ASSUME NEW p \in Processes, Start(p)
      PROVE  OneRuns'
  <2>1. IsFiniteSet({q \in Processes : Running(q)})
    BY InstallAssumption, FS_Subset
  <2>2. Cardinality({q \in Processes : Running(q)}) \in Nat
    BY <2>1, FS_CardinalityType
  <2>3. Cardinality({q \in Processes : Running(q)}) = 0
    BY <1>2, <2>2 DEF Start
  <2>4. {q \in Processes : Running(q)} = {}
    BY <2>1, <2>3, FS_EmptySet
  <2>5. Frame(p)
    BY <1>2, StartMoves DEF LocksMoved
  <2>. QED  BY <2>4, <2>5 DEF Frame, OneRuns, Running
<1>3. ASSUME NEW p \in Processes, Step(p) \/ Crash(p)
      PROVE  Frame(p) /\ Running(p)
  BY <1>3, StepMoves, StepRuns, CrashMoves DEF LocksMoved, Crash
<1>4. CASE UNCHANGED vars
  BY <1>4 DEF vars, OneRuns, Running
<1>. QED  BY <1>1, <1>2, <1>3, <1>4 DEF Next

\* Exclusive is inductive, whatever the bounds.
LEMMA ExclusiveInvariant ==
    /\ Init => Exclusive
    /\ Exclusive /\ [Next]_vars => Exclusive'
BY TypeInvariant, InitLocks, LocksStayHeld, LocksStayKept, OneStillRuns DEF Exclusive

\* The lock of the flow, which installOrUpdate keeps while it is in its nested
\* transaction, is held by one command at a time, and so is the lock of that.
LEMMA HoldsAlone ==
    ASSUME (MaxCrashes = 0 /\ ~LocksStick) \/ MaxAlive = 1, Exclusive,
           NEW p \in Processes, NEW q \in Processes, NEW s \in Scopes, Holds(p, s), Holds(q, s)
    PROVE  p = q
BY DEF Exclusive, LocksKept, OneRuns, Holds

\* acquireLock: where no lock file is left behind, or commands run one after the
\* other, the lock of a live command keeps every other command out of its
\* transaction.  (A lock file left behind may be broken by two others at once.)
THEOREM LocksExclude ==
    ASSUME (MaxCrashes = 0 /\ ~LocksStick) \/ MaxAlive = 1
    PROVE  Spec => []OneHolder
<1>1. Exclusive => OneHolder
  BY HoldsAlone DEF OneHolder
<1>. QED  BY <1>1, ExclusiveInvariant, PTL DEF Spec

-----------------------------------------------------------------------------
(***************************************************************************)
(* What a step leaves alone.                                               *)
(***************************************************************************)
\* A step of one process leaves what the others know as it is.
Others(p) ==
    \A q \in Processes : q # p =>
        /\ cmd'[q] = cmd[q] /\ mem'[q] = mem[q] /\ snap'[q] = snap[q]
        /\ seen'[q] = seen[q] /\ todo'[q] = todo[q] /\ broken'[q] = broken[q]

\* Every step is of one process.
LEMMA StepOthers ==
    ASSUME TypeInv, NEW p \in Processes, Step(p)
    PROVE  Others(p)
<1>. USE DEF At, Go, session, Others, TypeInv, TypeOK
<1>1. CASE ReadJournal(p)
  BY <1>1 DEF ReadJournal, undoing, Discardable, StartUndo, disk
<1>2. CASE UndoFile(p)
  BY <1>2 DEF UndoFile
<1>3. CASE UndoFails(p)
  BY <1>3 DEF UndoFails, disk
<1>4. CASE Undone(p)
  BY <1>4 DEF Undone, undoing, BeginFails, Close, disk, End, RollBackFlow, StartUndo
<1>5. CASE DropJournal(p)
  BY <1>5 DEF DropJournal, undoing
<1>6. CASE SweepBackups(p)
  BY <1>6 DEF SweepBackups, undoing
<1>7. CASE TryLock(p)
  BY <1>7 DEF TryLock, CreateLock, disk, undoing, BeginFails, End, RollBackFlow, StartUndo
<1>8. CASE InspectLock(p)
  BY <1>8 DEF InspectLock, undoing, BeginFails, disk, End, RollBackFlow, StartUndo
<1>9. CASE BreakLock(p)
  BY <1>9 DEF BreakLock, undoing
<1>10. CASE Relock(p)
  BY <1>10 DEF Relock, CreateLock, BeginFails, disk, End, RollBackFlow, StartUndo, undoing
<1>11. CASE StampLock(p)
  BY <1>11 DEF StampLock, undoing, BeginFails, End, RollBackFlow, StartUndo
<1>12. CASE OpenJournal(p)
  BY <1>12 DEF OpenJournal, undoing, Close
<1>13. CASE MarkApplied(p)
  BY <1>13 DEF MarkApplied, WriteApplied, RollBackFlow, Close, StartUndo
<1>14. CASE Load(p)
  BY <1>14 DEF Load, undoing, disk
<1>15. CASE LoadFails(p)
  BY <1>15 DEF LoadFails, RollBackFlow, disk, StartUndo
<1>16. CASE Capture(p)
  BY <1>16 DEF Capture, Backup, undoing
<1>17. CASE Record(p)
  BY <1>17 DEF Record, undoing, StartRestore
<1>18. CASE WriteFile(p)
  BY <1>18 DEF WriteFile
<1>19. CASE MutationFails(p)
  BY <1>19 DEF MutationFails, StartRestore, disk
<1>20. CASE Mutated(p)
  BY <1>20 DEF Mutated, disk, undoing
<1>21. CASE RestoreFile(p)
  BY <1>21 DEF RestoreFile
<1>22. CASE Restored(p)
  BY <1>22 DEF Restored, StartUndo, disk
<1>23. CASE SaveTracked(p)
  BY <1>23 DEF SaveTracked, undoing, StartRestore
<1>24. CASE Commit(p)
  BY <1>24 DEF Commit, StartRestore, Close
<1>25. CASE RemoveFile(p)
  BY <1>25 DEF RemoveFile
<1>26. CASE ClearTracked(p)
  BY <1>26 DEF ClearTracked, undoing
<1>27. CASE RemovalFails(p)
  BY <1>27 DEF RemovalFails, RollBackFlow, disk, StartUndo
<1>28. CASE Finish(p)
  BY <1>28 DEF Finish, WriteApplied, undoing, RollBackFlow, StartUndo
<1>29. CASE ReleaseLock(p)
  BY <1>29 DEF ReleaseLock, Freed, undoing, RollBackFlow, End, StartUndo
<1>30. CASE JournalUnreadable(p)
  BY <1>30 DEF JournalUnreadable, BeginFails, disk, End, RollBackFlow, StartUndo
<1>31. CASE RecoveryFails(p)
  BY <1>31 DEF RecoveryFails, BeginFails, disk, End, RollBackFlow, StartUndo
<1>. QED
  BY <1>1, <1>2, <1>3, <1>4, <1>5, <1>6, <1>7, <1>8, <1>9, <1>10, <1>11, <1>12, <1>13,
     <1>14, <1>15, <1>16, <1>17, <1>18, <1>19, <1>20, <1>21, <1>22, <1>23, <1>24, <1>25,
     <1>26, <1>27, <1>28, <1>29, <1>30, <1>31
     DEF Step

\* In the flow, nothing of the nested transaction changes on disk.
LEMMA FlowStep ==
    ASSUME TypeInv, FlowJournals, Installing, NEW p \in Processes, Step(p),
           scope[p] = "flow"
    PROVE  /\ UNCHANGED files /\ journal'["work"] = journal["work"]
           /\ backups'["work"] = backups["work"]
           /\ scope'[p] = "work" => pc'[p] = "recover"
<1>. USE DEF At, Go, disk, TypeInv, TypeOK, Scopes, Places, FlowJournals, Installing
<1>1. CASE ReadJournal(p)
  BY <1>1 DEF ReadJournal, undoing, Discardable, StartUndo, session
<1>2. CASE UndoFile(p)
  BY <1>2 DEF UndoFile, session
<1>3. CASE UndoFails(p)
  BY <1>3 DEF UndoFails, session
<1>4. CASE Undone(p)
  BY <1>4 DEF Undone, undoing, session, BeginFails, Close, End, RollBackFlow, StartUndo
<1>5. CASE DropJournal(p)
  BY <1>5 DEF DropJournal, undoing, session
<1>6. CASE SweepBackups(p)
  BY <1>6 DEF SweepBackups, undoing, session
<1>7. CASE TryLock(p)
  BY <1>7 DEF TryLock, CreateLock, undoing, session, BeginFails, End, RollBackFlow,
         StartUndo
<1>8. CASE InspectLock(p)
  BY <1>8 DEF InspectLock, undoing, session, BeginFails, End, RollBackFlow, StartUndo
<1>9. CASE BreakLock(p)
  BY <1>9 DEF BreakLock, undoing, session
<1>10. CASE Relock(p)
  BY <1>10 DEF Relock, CreateLock, BeginFails, End, RollBackFlow, session, StartUndo,
         undoing
<1>11. CASE StampLock(p)
  BY <1>11 DEF StampLock, undoing, session, BeginFails, End, RollBackFlow, StartUndo
<1>12. CASE OpenJournal(p)
  BY <1>12 DEF OpenJournal, undoing, Close
<1>13. CASE MarkApplied(p)
  BY <1>13 DEF MarkApplied, WriteApplied, RollBackFlow, Close, StartUndo
<1>14. CASE Load(p)
  BY <1>14 DEF Load, undoing
<1>15. CASE LoadFails(p)
  BY <1>15 DEF LoadFails, RollBackFlow, session, StartUndo
<1>16. CASE Capture(p)
  BY <1>16 DEF Capture, Backup, undoing
<1>17. CASE Record(p)
  BY <1>17 DEF Record, undoing, StartRestore
<1>18. CASE WriteFile(p)
  BY <1>18 DEF WriteFile, session
<1>19. CASE MutationFails(p)
  BY <1>19 DEF MutationFails, StartRestore, session
<1>20. CASE Mutated(p)
  BY <1>20 DEF Mutated, undoing, session
<1>21. CASE RestoreFile(p)
  BY <1>21 DEF RestoreFile, session
<1>22. CASE Restored(p)
  BY <1>22 DEF Restored, StartUndo, session
<1>23. CASE SaveTracked(p)
  BY <1>23 DEF SaveTracked, undoing, StartRestore, session
<1>24. CASE Commit(p)
  BY <1>24 DEF Commit, StartRestore, Close
<1>25. CASE RemoveFile(p)
  BY <1>25 DEF RemoveFile, session
<1>26. CASE ClearTracked(p)
  BY <1>26 DEF ClearTracked, undoing, session
<1>27. CASE RemovalFails(p)
  BY <1>27 DEF RemovalFails, RollBackFlow, session, StartUndo
<1>28. CASE Finish(p)
  BY <1>28 DEF Finish, WriteApplied, undoing, RollBackFlow, StartUndo
<1>29. CASE ReleaseLock(p)
  BY <1>29 DEF ReleaseLock, Freed, undoing, session, RollBackFlow, End, StartUndo
<1>30. CASE JournalUnreadable(p)
  BY <1>30 DEF JournalUnreadable, session, BeginFails, End, RollBackFlow, StartUndo
<1>31. CASE RecoveryFails(p)
  BY <1>31 DEF RecoveryFails, session, BeginFails, End, RollBackFlow, StartUndo
<1>. QED
  BY <1>1, <1>2, <1>3, <1>4, <1>5, <1>6, <1>7, <1>8, <1>9, <1>10, <1>11, <1>12, <1>13,
     <1>14, <1>15, <1>16, <1>17, <1>18, <1>19, <1>20, <1>21, <1>22, <1>23, <1>24, <1>25,
     <1>26, <1>27, <1>28, <1>29, <1>30, <1>31
     DEF Step

\* A command stays what it is, and is no uninstallation.
LEMMA CommandStep ==
    ASSUME TypeInv, Installing, NEW p \in Processes, Step(p)
    PROVE  pc'[p] # "remove" /\ (Running(p)' => cmd'[p] = cmd[p])
<1>. USE DEF At, Go, session, TypeInv, TypeOK, Places, Installing, Running, Ended
<1>1. CASE ReadJournal(p)
  BY <1>1 DEF ReadJournal, undoing, Discardable, StartUndo, disk
<1>2. CASE UndoFile(p)
  BY <1>2 DEF UndoFile
<1>3. CASE UndoFails(p)
  BY <1>3 DEF UndoFails, disk
<1>4. CASE Undone(p)
  BY <1>4 DEF Undone, undoing, BeginFails, Close, disk, End, RollBackFlow, StartUndo
<1>5. CASE DropJournal(p)
  BY <1>5 DEF DropJournal, undoing
<1>6. CASE SweepBackups(p)
  BY <1>6 DEF SweepBackups, undoing
<1>7. CASE TryLock(p)
  BY <1>7 DEF TryLock, CreateLock, disk, undoing, BeginFails, End, RollBackFlow, StartUndo
<1>8. CASE InspectLock(p)
  BY <1>8 DEF InspectLock, undoing, BeginFails, disk, End, RollBackFlow, StartUndo
<1>9. CASE BreakLock(p)
  BY <1>9 DEF BreakLock, undoing
<1>10. CASE Relock(p)
  BY <1>10 DEF Relock, CreateLock, BeginFails, disk, End, RollBackFlow, StartUndo, undoing
<1>11. CASE StampLock(p)
  BY <1>11 DEF StampLock, undoing, BeginFails, End, RollBackFlow, StartUndo
<1>12. CASE OpenJournal(p)
  BY <1>12 DEF OpenJournal, undoing, Close
<1>13. CASE MarkApplied(p)
  BY <1>13 DEF MarkApplied, WriteApplied, RollBackFlow, Close, StartUndo
<1>14. CASE Load(p)
  BY <1>14 DEF Load, undoing, disk
<1>15. CASE LoadFails(p)
  BY <1>15 DEF LoadFails, RollBackFlow, disk, StartUndo
<1>16. CASE Capture(p)
  BY <1>16 DEF Capture, Backup, undoing
<1>17. CASE Record(p)
  BY <1>17 DEF Record, undoing, StartRestore
<1>18. CASE WriteFile(p)
  BY <1>18 DEF WriteFile
<1>19. CASE MutationFails(p)
  BY <1>19 DEF MutationFails, StartRestore, disk
<1>20. CASE Mutated(p)
  BY <1>20 DEF Mutated, disk, undoing
<1>21. CASE RestoreFile(p)
  BY <1>21 DEF RestoreFile
<1>22. CASE Restored(p)
  BY <1>22 DEF Restored, StartUndo, disk
<1>23. CASE SaveTracked(p)
  BY <1>23 DEF SaveTracked, undoing, StartRestore
<1>24. CASE Commit(p)
  BY <1>24 DEF Commit, StartRestore, Close
<1>25. CASE RemoveFile(p)
  BY <1>25 DEF RemoveFile
<1>26. CASE ClearTracked(p)
  BY <1>26 DEF ClearTracked, undoing
<1>27. CASE RemovalFails(p)
  BY <1>27 DEF RemovalFails, RollBackFlow, disk, StartUndo
<1>28. CASE Finish(p)
  BY <1>28 DEF Finish, WriteApplied, undoing, RollBackFlow, StartUndo
<1>29. CASE ReleaseLock(p)
  BY <1>29 DEF ReleaseLock, Freed, undoing, RollBackFlow, End, StartUndo
<1>30. CASE JournalUnreadable(p)
  BY <1>30 DEF JournalUnreadable, BeginFails, disk, End, RollBackFlow, StartUndo
<1>31. CASE RecoveryFails(p)
  BY <1>31 DEF RecoveryFails, BeginFails, disk, End, RollBackFlow, StartUndo
<1>. QED
  BY <1>1, <1>2, <1>3, <1>4, <1>5, <1>6, <1>7, <1>8, <1>9, <1>10, <1>11, <1>12, <1>13,
     <1>14, <1>15, <1>16, <1>17, <1>18, <1>19, <1>20, <1>21, <1>22, <1>23, <1>24, <1>25,
     <1>26, <1>27, <1>28, <1>29, <1>30, <1>31
     DEF Step

-----------------------------------------------------------------------------
(***************************************************************************)
(* Journals that are written (Session.MarkApplied, Commit and OnSnapshot). *)
(***************************************************************************)
\* MarkApplied: only the flag changes.
LEMMA AppliedWritten ==
    ASSUME TypeInv, NEW p \in Processes, WriteApplied(p), pc[p] \in {"mark", "finish"}
    PROVE  /\ \A s \in Scopes : s # scope[p] => journal'[s] = journal[s] /\ mem'[p][s] = mem[p][s]
           /\ \A s \in Scopes : s = scope[p] =>
                 /\ journal'[s] = mem'[p][s] /\ mem'[p][s].applied /\ mem'[p][s].tx = p
                 /\ mem'[p][s].undo = mem[p][s].undo
                 /\ mem'[p][s].committed = mem[p][s].committed
<1>1. mem[p][scope[p]].tx = p
  BY Zenon DEF TypeInv, JournalsNamed, Places
<1>2. PICK j \in Journals :
              /\ j.applied /\ j.tx = p /\ j.undo = mem[p][scope[p]].undo
              /\ j.committed = mem[p][scope[p]].committed
              /\ journal'[scope[p]] = j /\ mem'[p][scope[p]] = j
              /\ \A r \in Scopes : r # scope[p] =>
                    journal'[r] = journal[r] /\ mem'[p][r] = mem[p][r]
  BY <1>1, WriteAppliedStep
<1>. QED  BY <1>2, Zenon

\* Commit sets the other flag.
Committed(p, s) ==
    LET j == [mem[p][s] EXCEPT !.committed = TRUE] IN
    journal' = [journal EXCEPT ![s] = j] /\ mem' = [mem EXCEPT ![p][s] = j]

\* What a write of it changes.
LEMMA CommitWritten ==
    ASSUME TypeInv, NEW p \in Processes, NEW s \in Scopes, Committed(p, s)
    PROVE  /\ \A r \in Scopes : r # s => journal'[r] = journal[r] /\ mem'[p][r] = mem[p][r]
           /\ journal'[s] = mem'[p][s] /\ mem'[p][s].committed
           /\ mem'[p][s].undo = mem[p][s].undo /\ mem'[p][s].tx = mem[p][s].tx
           /\ mem'[p][s].applied = mem[p][s].applied
<1>1. mem[p][s] \in Journals /\ Named(mem[p][s])
  BY DEF TypeInv, TypeOK, JournalsNamed
<1>2. PICK j \in Journals : j = [mem[p][s] EXCEPT !.committed = TRUE]
  BY <1>1, FlaggedType
<1>3. /\ j.committed /\ j.tx = mem[p][s].tx /\ j.undo = mem[p][s].undo
      /\ j.applied = mem[p][s].applied
  BY <1>1, <1>2, FlaggedType
<1>4. Written(p, s, j) /\ Named(j)
  BY <1>1, <1>2, <1>3 DEF Named, Written, Committed
<1>. QED  BY <1>3, <1>4, JournalWritten

\* OnSnapshot: the record is in memory, and on disk unless its write fails.
LEMMA RecordWritten ==
    ASSUME TypeInv, NEW p \in Processes, Record(p)
    PROVE  /\ mem'[p]["work"] = Recorded(p) /\ mem'[p]["flow"] = mem[p]["flow"]
           /\ journal'["flow"] = journal["flow"]
           /\ \/ journal'["work"] = Recorded(p) /\ Go(p, "mutate") /\ UNCHANGED undoing
              \/ journal'["work"] = journal["work"] /\ StartRestore(p)
BY DEF Record, TypeInv, TypeOK, Scopes, undoing

-----------------------------------------------------------------------------
(***************************************************************************)
(* The flow's journals, and what is captured.                              *)
(***************************************************************************)
\* The flow's journal lists no file, on disk, in memory, or while it is undone.
FlowListsNothing(p) ==
    /\ \A f \in Files : journal["flow"].undo[f] = "none"
    /\ \A f \in Files : mem[p]["flow"].undo[f] = "none"
    /\ scope[p] = "flow" /\ pc[p] = "undo" => todo[p] = {}

\* A step that writes a journal lists no more files in the flow's.
LEMMA MarkLists ==
    ASSUME TypeInv, FlowJournals, NEW p \in Processes, MarkApplied(p) \/ Finish(p)
    PROVE  FlowListsNothing(p)'
<1>1. CASE /\ WriteApplied(p) /\ pc[p] \in {"mark", "finish"}
           /\ \/ Go(p, "commit")
              \/ Go(p, IF scope[p] = "flow" THEN "load" ELSE "mutate")
  <2>1. pc'[p] # "undo"
    BY <1>1 DEF Go, TypeInv, TypeOK
  <2>. QED  BY <1>1, <2>1, AppliedWritten DEF FlowListsNothing, FlowJournals, Scopes
<1>2. CASE UNCHANGED <<journal, mem>> /\ RollBackFlow(p)
  BY <1>2 DEF FlowListsNothing, FlowJournals, RollBackFlow, StartUndo, Go, TypeInv, TypeOK, Scopes
<1>3. CASE UNCHANGED <<journal, mem>> /\ Close(p)
  <2>1. pc'[p] = "release"
    BY <1>3 DEF Close, Go, TypeInv, TypeOK
  <2>. QED  BY <1>3, <2>1 DEF FlowListsNothing, FlowJournals
<1>. QED  BY <1>1, <1>2, <1>3 DEF MarkApplied, Finish, At

\* The same of OnSnapshot, which writes the nested transaction's.
LEMMA RecordLists ==
    ASSUME TypeInv, FlowJournals, NEW p \in Processes, Record(p)
    PROVE  FlowListsNothing(p)'
<1>1. pc'[p] \in {"mutate", "restore"}
  BY DEF Record, StartRestore, Go, TypeInv, TypeOK
<1>. QED  BY <1>1, RecordWritten DEF FlowListsNothing, FlowJournals

\* And of Commit.
LEMMA CommitLists ==
    ASSUME TypeInv, FlowJournals, NEW p \in Processes, Commit(p)
    PROVE  FlowListsNothing(p)'
<1>1. CASE Committed(p, scope[p]) /\ Go(p, "drop")
  <2>1. PICK s \in Scopes : s = scope[p]
    BY DEF TypeInv, TypeOK
  <2>2. Committed(p, s)
    BY <1>1, <2>1
  <2>3. pc'[p] = "drop"
    BY <1>1 DEF Go, TypeInv, TypeOK
  <2>. QED  BY <2>2, <2>3, CommitWritten DEF FlowListsNothing, FlowJournals, Scopes
<1>2. CASE UNCHANGED <<journal, mem>> /\ (Close(p) \/ StartRestore(p))
  <2>1. pc'[p] \in {"restore", "release"}
    BY <1>2 DEF Close, StartRestore, Go, TypeInv, TypeOK
  <2>. QED  BY <1>2, <2>1 DEF FlowListsNothing, FlowJournals
<1>. QED  BY <1>1, <1>2 DEF Commit, Committed

\* What every step does to the flow's journals.
LEMMA FlowJournalsStep ==
    ASSUME TypeInv, FlowJournals, NEW p \in Processes, Step(p)
    PROVE  FlowListsNothing(p)'
<1>. USE Nothing, PlannedType DEF At, Go, disk, session, undoing, FlowListsNothing, TypeInv,
           TypeOK, Journals, Scopes, Places, FlowJournals
<1>1. CASE ReadJournal(p)
  BY <1>1 DEF ReadJournal, Discardable, StartUndo
<1>2. CASE UndoFile(p)
  BY <1>2 DEF UndoFile
<1>3. CASE UndoFails(p)
  BY <1>3 DEF UndoFails
<1>4. CASE Undone(p)
  BY <1>4 DEF Undone, BeginFails, Close, End, RollBackFlow, StartUndo
<1>5. CASE DropJournal(p)
  BY <1>5 DEF DropJournal
<1>6. CASE SweepBackups(p)
  BY <1>6 DEF SweepBackups
<1>7. CASE TryLock(p)
  BY <1>7 DEF TryLock, CreateLock, BeginFails, End, RollBackFlow, StartUndo
<1>8. CASE InspectLock(p)
  BY <1>8 DEF InspectLock, BeginFails, End, RollBackFlow, StartUndo
<1>9. CASE BreakLock(p)
  BY <1>9 DEF BreakLock
<1>10. CASE Relock(p)
  BY <1>10 DEF Relock, CreateLock, BeginFails, End, RollBackFlow, StartUndo
<1>11. CASE StampLock(p)
  BY <1>11 DEF StampLock, BeginFails, End, RollBackFlow, StartUndo
<1>12. CASE OpenJournal(p)
  BY <1>12 DEF OpenJournal, Close
<1>13. CASE MarkApplied(p)
  BY <1>13, MarkLists
<1>14. CASE Load(p)
  BY <1>14 DEF Load
<1>15. CASE LoadFails(p)
  BY <1>15 DEF LoadFails, RollBackFlow, StartUndo
<1>16. CASE Capture(p)
  BY <1>16 DEF Capture, Backup
<1>17. CASE Record(p)
  BY <1>17, RecordLists
<1>18. CASE WriteFile(p)
  BY <1>18 DEF WriteFile
<1>19. CASE MutationFails(p)
  BY <1>19 DEF MutationFails, StartRestore
<1>20. CASE Mutated(p)
  BY <1>20 DEF Mutated
<1>21. CASE RestoreFile(p)
  BY <1>21 DEF RestoreFile
<1>22. CASE Restored(p)
  BY <1>22 DEF Restored, StartUndo
<1>23. CASE SaveTracked(p)
  BY <1>23 DEF SaveTracked, StartRestore
<1>24. CASE Commit(p)
  BY <1>24, CommitLists
<1>25. CASE RemoveFile(p)
  BY <1>25 DEF RemoveFile
<1>26. CASE ClearTracked(p)
  BY <1>26 DEF ClearTracked
<1>27. CASE RemovalFails(p)
  BY <1>27 DEF RemovalFails, RollBackFlow, StartUndo
<1>28. CASE Finish(p)
  BY <1>28, MarkLists
<1>29. CASE ReleaseLock(p)
  BY <1>29 DEF ReleaseLock, Freed, RollBackFlow, End, StartUndo
<1>30. CASE JournalUnreadable(p)
  BY <1>30 DEF JournalUnreadable, BeginFails, End, RollBackFlow, StartUndo
<1>31. CASE RecoveryFails(p)
  BY <1>31 DEF RecoveryFails, BeginFails, End, RollBackFlow, StartUndo
<1>. QED
  BY <1>1, <1>2, <1>3, <1>4, <1>5, <1>6, <1>7, <1>8, <1>9, <1>10, <1>11, <1>12, <1>13,
     <1>14, <1>15, <1>16, <1>17, <1>18, <1>19, <1>20, <1>21, <1>22, <1>23, <1>24, <1>25,
     <1>26, <1>27, <1>28, <1>29, <1>30, <1>31
     DEF Step

\* The new journal of a command that has captured nothing.
LEMMA OpenCaptures ==
    ASSUME TypeInv, NothingCaptured, NEW p \in Processes, OpenJournal(p)
    PROVE  UNCHANGED snap /\ Fresh(p) /\ ~mem'[p]["work"].committed
<1>1. pc[p] = "open" /\ UNCHANGED snap
  BY DEF OpenJournal, At
<1>2. Fresh(p)
  BY <1>1 DEF Fresh
<1>3. mem'[p]["work"] = mem[p]["work"] \/ mem'[p]["work"] = Planned(p)
  BY DEF OpenJournal, TypeInv, TypeOK, Scopes
<1>. QED  BY <1>1, <1>2, <1>3, PlannedType DEF NothingCaptured

\* What every step does to what is captured.
LEMMA CapturedStep ==
    ASSUME TypeInv, NothingCaptured, NEW p \in Processes, Step(p)
    PROVE  Fresh(p)' =>
             (\A f \in Files : snap'[p][f] = Unset) /\ ~mem'[p]["work"].committed
<1>. USE Nothing DEF At, Go, session, undoing, Fresh, NothingCaptured, TypeInv, TypeOK,
           Journals, Scopes, Places, Ended
<1>1. CASE ReadJournal(p)
  BY <1>1 DEF ReadJournal, Discardable, StartUndo, disk
<1>2. CASE UndoFile(p)
  BY <1>2 DEF UndoFile
<1>3. CASE UndoFails(p)
  BY <1>3 DEF UndoFails, disk
<1>4. CASE Undone(p)
  BY <1>4 DEF Undone, BeginFails, Close, disk, End, RollBackFlow, StartUndo
<1>5. CASE DropJournal(p)
  BY <1>5 DEF DropJournal
<1>6. CASE SweepBackups(p)
  BY <1>6 DEF SweepBackups
<1>7. CASE TryLock(p)
  BY <1>7 DEF TryLock, CreateLock, disk, BeginFails, End, RollBackFlow, StartUndo
<1>8. CASE InspectLock(p)
  BY <1>8 DEF InspectLock, BeginFails, disk, End, RollBackFlow, StartUndo
<1>9. CASE BreakLock(p)
  BY <1>9 DEF BreakLock
<1>10. CASE Relock(p)
  BY <1>10 DEF Relock, CreateLock, BeginFails, disk, End, RollBackFlow, StartUndo
<1>11. CASE StampLock(p)
  BY <1>11 DEF StampLock, BeginFails, End, RollBackFlow, StartUndo
<1>12. CASE OpenJournal(p)
  BY <1>12, OpenCaptures
<1>13. CASE MarkApplied(p)
  BY <1>13 DEF MarkApplied, WriteApplied, RollBackFlow, Close, StartUndo
<1>14. CASE Load(p)
  BY <1>14 DEF Load, disk
<1>15. CASE LoadFails(p)
  BY <1>15 DEF LoadFails, RollBackFlow, disk, StartUndo
<1>16. CASE Capture(p)
  BY <1>16 DEF Capture, Backup
<1>17. CASE Record(p)
  BY <1>17 DEF Record, StartRestore
<1>18. CASE WriteFile(p)
  BY <1>18 DEF WriteFile
<1>19. CASE MutationFails(p)
  BY <1>19 DEF MutationFails, StartRestore, disk
<1>20. CASE Mutated(p)
  BY <1>20 DEF Mutated, disk
<1>21. CASE RestoreFile(p)
  BY <1>21 DEF RestoreFile
<1>22. CASE Restored(p)
  BY <1>22 DEF Restored, StartUndo, disk
<1>23. CASE SaveTracked(p)
  BY <1>23 DEF SaveTracked, StartRestore
<1>24. CASE Commit(p)
  BY <1>24 DEF Commit, StartRestore, Close
<1>25. CASE RemoveFile(p)
  BY <1>25 DEF RemoveFile
<1>26. CASE ClearTracked(p)
  BY <1>26 DEF ClearTracked
<1>27. CASE RemovalFails(p)
  BY <1>27 DEF RemovalFails, RollBackFlow, disk, StartUndo
<1>28. CASE Finish(p)
  BY <1>28 DEF Finish, WriteApplied, RollBackFlow, StartUndo
<1>29. CASE ReleaseLock(p)
  BY <1>29 DEF ReleaseLock, Freed, RollBackFlow, End, StartUndo
<1>30. CASE JournalUnreadable(p)
  BY <1>30 DEF JournalUnreadable, BeginFails, disk, End, RollBackFlow, StartUndo
<1>31. CASE RecoveryFails(p)
  BY <1>31 DEF RecoveryFails, BeginFails, disk, End, RollBackFlow, StartUndo
<1>. QED
  BY <1>1, <1>2, <1>3, <1>4, <1>5, <1>6, <1>7, <1>8, <1>9, <1>10, <1>11, <1>12, <1>13,
     <1>14, <1>15, <1>16, <1>17, <1>18, <1>19, <1>20, <1>21, <1>22, <1>23, <1>24, <1>25,
     <1>26, <1>27, <1>28, <1>29, <1>30, <1>31
     DEF Step

-----------------------------------------------------------------------------
(***************************************************************************)
(* Recovered, the content a recovery at this instant would leave.          *)
(***************************************************************************)
LEMMA RecoveredIs ==
    ASSUME NEW f \in Files
    PROVE  /\ ~Pending => Recovered(f) = files[f]
           /\ journal["work"].undo[f] = "none" => Recovered(f) = files[f]
           /\ Pending /\ journal["work"].undo[f] = "absent" => Recovered(f) = Absent
           /\ Pending /\ journal["work"].undo[f] = "present"
              /\ backups["work"][journal["work"].tx][f] # Absent =>
                 Recovered(f) = backups["work"][journal["work"].tx][f]
BY DEF Recovered

\* The same after a step.
LEMMA RecoveredNext ==
    ASSUME NEW f \in Files
    PROVE  /\ ~Pending' => Recovered(f)' = files'[f]
           /\ journal'["work"].undo[f] = "none" => Recovered(f)' = files'[f]
           /\ Pending' /\ journal'["work"].undo[f] = "absent" => Recovered(f)' = Absent
           /\ Pending' /\ journal'["work"].undo[f] = "present"
              /\ backups'["work"][journal'["work"].tx][f] # Absent =>
                 Recovered(f)' = backups'["work"][journal'["work"].tx][f]
BY DEF Recovered, Absent

\* What the nested transaction has on disk stays.
SameDisk ==
    /\ files' = files /\ journal'["work"] = journal["work"] /\ backups'["work"] = backups["work"]

\* What leaves the disk alone leaves what a recovery would do.
LEMMA SameRecovery ==
    ASSUME SameDisk
    PROVE  /\ Pending' <=> Pending
           /\ \A f \in Files : Recovered(f)' = Recovered(f)
           /\ AllOrNothing => AllOrNothing'
           /\ Settled => Settled'
           /\ BackupsSound /\ FaultsKept => BackupsSound'
<1>1. Pending' <=> Pending
  BY DEF SameDisk, Pending
<1>2. \A f \in Files : Recovered(f)' = Recovered(f)
  BY <1>1 DEF SameDisk, Recovered, Absent
<1>3. Settled => Settled'
  BY <1>2 DEF SameDisk, Settled
<1>4. Backed => Backed'
  BY <1>1 DEF SameDisk, Backed, Lost, Absent
<1>5. AllOrNothing => AllOrNothing'
  BY <1>2 DEF AllOrNothing
<1>. QED  BY <1>1, <1>2, <1>3, <1>4, <1>5 DEF BackupsSound, FaultsKept

\* While the files are changed, the backups are there.
LEMMA ChangingBacked ==
    ASSUME NEW p \in Processes
    PROVE  /\ Changing(p) => Backed
           /\ Changing(p)' => Backed'
<1>1. ASSUME Changing(p), NEW f \in Files, Lost(f) PROVE FALSE
  <2>1. /\ journal["work"].undo[f] = "present" /\ journal["work"].tx = p
        /\ backups["work"][p][f] = Absent
    BY <1>1 DEF Changing, Lost
  <2>2. mem[p]["work"].undo[f] = "present"
    BY <1>1, <2>1 DEF Changing
  <2>3. RecordOf(snap[p][f]) = "present" /\ backups["work"][p][f] = snap[p][f]
    BY <1>1, <2>2 DEF Changing
  <2>. QED  BY <2>1, <2>3 DEF RecordOf
<1>2. ASSUME Changing(p)', NEW f \in Files, Lost(f)' PROVE FALSE
  <2>1. /\ journal'["work"].undo[f] = "present" /\ journal'["work"].tx = p
        /\ backups'["work"][p][f] = Absent'
    BY <1>2 DEF Changing, Lost
  <2>2. mem'[p]["work"].undo[f] = "present"
    BY <1>2, <2>1 DEF Changing
  <2>3. RecordOf(snap[p][f])' = "present" /\ backups'["work"][p][f] = snap'[p][f]
    BY <1>2, <2>2 DEF Changing
  <2>. QED  BY <2>1, <2>3 DEF RecordOf
<1>. QED  BY <1>1, <1>2 DEF Backed

\* The types, for the nested transaction.
LEMMA WorkTypes ==
    ASSUME TypeInv, NEW p \in Processes
    PROVE  /\ journal["work"] \in Journals /\ Named(journal["work"])
           /\ mem[p]["work"] \in Journals /\ Named(mem[p]["work"])
           /\ seen[p] \in Journals
           /\ backups["work"] \in [Processes -> [Files -> Content]]
           /\ files \in [Files -> Content]
           /\ "work" \in Scopes
           /\ \A j \in Journals, f \in Files : j.undo[f] \in {"none", "absent", "present"}
           /\ \A f \in Files : snap[p][f] \in Content \union {Unset}
BY DEF TypeInv, TypeOK, Scopes, JournalsNamed, Journals

\* A process begins to put files back from the backups of the journal u, which lists
\* no less than the one on disk.
LEMMA UndoingStarts ==
    ASSUME TypeInv, NEW p \in Processes, NEW u \in Journals,
           NEW why \in {"recover", "rollback"}, StartUndo(p, "work", u, why), SameDisk,
           UNCHANGED session,
           ~journal["work"].committed, journal["work"].applied = u.applied,
           journal["work"].tx = u.tx,
           u.applied => \A f \in Files :
                 /\ journal["work"].undo[f] \in {"none", u.undo[f]}
                 /\ journal["work"].undo[f] = "none" /\ u.undo[f] # "none" => files[f] = Old(u, f)
    PROVE  scope'[p] = "work" /\ Nested(p)'
<1>1. /\ pc'[p] = "undo" /\ scope'[p] = "work" /\ seen'[p] = u /\ broken'[p] = FALSE
      /\ todo'[p] = (IF u.applied THEN {f \in Files : u.undo[f] # "none"} ELSE {})
  <2>1. ProcessTypes /\ "work" \in Scopes
    BY TypesSplit DEF TypeInv, Scopes
  <2>. DEFINE v == IF u.applied THEN {f \in Files : u.undo[f] # "none"} ELSE {}
  <2>2. /\ pc' = [pc EXCEPT ![p] = "undo"] /\ scope' = [scope EXCEPT ![p] = "work"]
        /\ seen' = [seen EXCEPT ![p] = u] /\ todo' = [todo EXCEPT ![p] = v]
        /\ broken' = [broken EXCEPT ![p] = FALSE]
    BY DEF StartUndo, Go
  <2>. HIDE DEF v
  <2>3. /\ pc'[p] = "undo" /\ scope'[p] = "work" /\ seen'[p] = u /\ broken'[p] = FALSE
        /\ todo'[p] = v
    BY <2>1, <2>2 DEF ProcessTypes
  <2>. QED  BY <2>3 DEF v
<1>2. /\ ~journal'["work"].committed /\ journal'["work"].applied = seen'[p].applied
      /\ seen'[p].tx = journal'["work"].tx
  BY <1>1 DEF SameDisk
<1>3. \A f \in todo'[p] : seen'[p].applied /\ seen'[p].undo[f] # "none"
  BY <1>1
<1>4. \A f \in Files : Old(u, f)' = Old(u, f)
  BY DEF Old, SameDisk, Absent
<1>5. seen'[p].applied => \A f \in Files :
          /\ journal'["work"].undo[f] \in {"none", seen'[p].undo[f]}
          /\ journal'["work"].undo[f] = "none" /\ seen'[p].undo[f] # "none" =>
                files'[f] = Old(seen[p], f)'
  BY <1>1, <1>4 DEF SameDisk, Old
<1>6. ASSUME NEW f \in Files, f \notin todo'[p]
      PROVE  files'[f] = Recovered(f)'
  <2>1. CASE ~u.applied
    BY <1>1, <1>2, <2>1, RecoveredNext DEF Pending
  <2>2. CASE u.applied
    <3>1. u.undo[f] = "none"
      BY <1>1, <1>6, <2>2
    <3>2. journal'["work"].undo[f] = "none"
      BY <2>2, <3>1 DEF SameDisk
    <3>. QED  BY <3>2, RecoveredNext
  <2>. QED  BY <2>1, <2>2
<1>7. Undoing(p)'
  BY <1>2, <1>3, <1>5, <1>6 DEF Undoing, Absent
<1>. QED  BY <1>1, <1>7 DEF Nested

\* Recover, in the nested transaction.
LEMMA RecoverWork ==
    ASSUME TypeInv, NEW p \in Processes, ReadJournal(p), scope[p] = "work"
    PROVE  SameDisk /\ Nested(p)'
<1>1. SameDisk /\ UNCHANGED session
  BY DEF ReadJournal, SameDisk, disk
<1>2. CASE journal["work"] = NoJournal /\ Go(p, "lock")
  <2>1. pc'[p] = "lock"
    BY <1>2 DEF Go, TypeInv, TypeOK
  <2>2. ~Pending'
    BY <1>1, <1>2 DEF SameDisk, Pending, NoJournal, Planned
  <2>3. Settled'
    BY <2>2, RecoveredNext DEF Settled
  <2>. QED  BY <1>1, <2>1, <2>3 DEF Nested
<1>3. CASE Discardable(journal["work"]) /\ Go(p, "drop")
  <2>1. pc'[p] = "drop"
    BY <1>3 DEF Go, TypeInv, TypeOK
  <2>2. ~Pending'
    BY <1>1, <1>3 DEF Discardable, SameDisk, Pending
  <2>3. Settled'
    BY <2>2, RecoveredNext DEF Settled
  <2>. QED  BY <1>1, <2>1, <2>3 DEF Nested
<1>4. CASE ~Discardable(journal["work"]) /\ StartUndo(p, "work", journal["work"], "recover")
  <2>1. PICK u \in Journals : u = journal["work"] /\ StartUndo(p, "work", u, "recover")
    BY <1>4, WorkTypes
  <2>2. StartUndo(p, "work", u, "recover")
    BY <2>1
  <2>3. ~journal["work"].committed
    BY <1>4 DEF Discardable
  <2>4. /\ journal["work"].applied = u.applied /\ journal["work"].tx = u.tx
        /\ u.applied => \A f \in Files :
             /\ journal["work"].undo[f] \in {"none", u.undo[f]}
             /\ journal["work"].undo[f] = "none" /\ u.undo[f] # "none" => files[f] = Old(u, f)
    BY <2>1
  <2>. QED  BY <1>1, <2>2, <2>3, <2>4, UndoingStarts
<1>. QED  BY <1>2, <1>3, <1>4 DEF ReadJournal

\* The journal, or a lock file, cannot be read: Begin fails.
LEMMA BegunWork ==
    ASSUME TypeInv, NEW p \in Processes, scope[p] = "work",
           JournalUnreadable(p) \/ RecoveryFails(p)
    PROVE  SameDisk /\ scope'[p] = "flow"
<1>1. BeginFails(p) /\ SameDisk
  BY DEF JournalUnreadable, RecoveryFails, SameDisk, disk
<1>. QED  BY <1>1 DEF BeginFails, RollBackFlow, StartUndo, TypeInv, TypeOK

\* A file that cannot be put back is left as it is, and the journal stays.
LEMMA UndoLeft ==
    ASSUME TypeInv, NEW p \in Processes, Undoing(p), pc[p] = "undo", SameDisk,
           UNCHANGED <<pc, seen>>, todo'[p] \subseteq todo[p], broken'[p] = TRUE
    PROVE  Nested(p)'
<1>1. \A g \in Files : Old(seen[p], g)' = Old(seen[p], g)
  BY DEF SameDisk, Old, Absent
<1>2. seen'[p].applied => \A g \in Files :
          /\ journal'["work"].undo[g] \in {"none", seen'[p].undo[g]}
          /\ journal'["work"].undo[g] = "none" /\ seen'[p].undo[g] # "none" =>
                files'[g] = Old(seen[p], g)'
  BY <1>1 DEF Undoing, SameDisk
<1>3. Undoing(p)'
  BY <1>2 DEF Undoing, SameDisk
<1>. QED  BY <1>3 DEF Nested

\* rollbackFromJournal leaves each file as the recovery it is part of was to, or, when
\* its backup is gone, as it is.
LEMMA UndoFileWork ==
    ASSUME TypeInv, NEW p \in Processes, UndoFile(p), scope[p] = "work", Nested(p),
           AllOrNothing, BackupsSound, FaultsKept
    PROVE  /\ AllOrNothing' /\ BackupsSound' /\ Nested(p)'
           /\ \A f \in Files : Recovered(f)' = Recovered(f)
<1>1. Undoing(p) /\ pc[p] = "undo"
  BY DEF UndoFile, At, Nested
<1>2. /\ UNCHANGED <<journal, backups, pc, seen>>
  BY DEF UndoFile
<1>3. PICK f \in todo[p] :
         LET saved == backups[scope[p]][seen[p].tx][f]
             lost  == seen[p].undo[f] = "present" /\ saved = Absent
         IN  /\ todo' = [todo EXCEPT ![p] = @ \ {f}]
             /\ files' = IF lost THEN files
                         ELSE [files EXCEPT ![f] =
                                 IF seen[p].undo[f] = "present" THEN saved ELSE Absent]
             /\ broken' = [broken EXCEPT ![p] = @ \/ lost]
  BY DEF UndoFile
<1>4. f \in Files /\ seen[p].applied /\ seen[p].undo[f] \in {"absent", "present"}
  BY <1>1, <1>3, WorkTypes DEF Undoing, TypeInv, TypeOK
<1>. DEFINE gone == seen[p].undo[f] = "present" /\ backups["work"][seen[p].tx][f] = Absent
<1>5. CASE gone
  <2>1. /\ SameDisk /\ todo'[p] = todo[p] \ {f} /\ broken'[p] = TRUE
    BY <1>2, <1>3, <1>5 DEF SameDisk, TypeInv, TypeOK
  <2>2. Nested(p)'
    BY <1>1, <1>2, <2>1, UndoLeft
  <2>. QED  BY <2>1, <2>2, SameRecovery
<1>6. CASE ~gone
  <2>0. seen[p].undo[f] = "present" => backups["work"][seen[p].tx][f] # Absent
    BY <1>6
  <2>1. /\ files'[f] = Old(seen[p], f) /\ \A g \in Files : g # f => files'[g] = files[g]
    BY <1>3, <1>4, <2>0, WorkTypes DEF Old
  <2>2. todo'[p] = todo[p] \ {f} /\ (broken'[p] <=> broken[p])
    BY <1>3, <2>0 DEF TypeInv, TypeOK
  <2>3. /\ ~journal["work"].committed /\ journal["work"].applied
        /\ journal["work"].tx = seen[p].tx /\ Pending /\ Pending'
        /\ journal["work"].undo[f] \in {"none", seen[p].undo[f]}
        /\ journal["work"].undo[f] = "none" => files[f] = Old(seen[p], f)
    BY <1>1, <1>2, <1>4 DEF Undoing, Pending
  <2>4. files'[f] = Recovered(f)'
    <3>1. CASE journal["work"].undo[f] = "none"
      BY <1>2, <1>4, <3>1, RecoveredNext
    <3>2. CASE journal["work"].undo[f] = "absent"
      BY <1>2, <1>4, <2>1, <2>3, <3>2, RecoveredNext DEF Old
    <3>3. CASE journal["work"].undo[f] = "present"
      BY <1>2, <1>4, <2>0, <2>1, <2>3, <3>3, RecoveredNext DEF Old
    <3>. QED  BY <1>4, <2>3, <3>1, <3>2, <3>3
  <2>5. Recovered(f)' = Recovered(f)
    <3>1. CASE journal["work"].undo[f] = "none"
      BY <1>4, <2>1, <2>3, <2>4, <3>1, RecoveredIs
    <3>2. CASE journal["work"].undo[f] = "absent"
      BY <1>4, <2>1, <2>3, <2>4, <3>2, RecoveredIs DEF Old
    <3>3. CASE journal["work"].undo[f] = "present"
      BY <1>4, <2>0, <2>1, <2>3, <2>4, <3>3, RecoveredIs DEF Old
    <3>. QED  BY <1>4, <2>3, <3>1, <3>2, <3>3
  <2>6. \A g \in Files : g # f => Recovered(g)' = Recovered(g)
    BY <1>2, <2>1 DEF Recovered, Pending, Absent
  <2>7. AllOrNothing'
    BY <2>5, <2>6 DEF AllOrNothing
  <2>8. BackupsSound'
    <3>1. Backed => Backed'
      BY <1>2, <2>3 DEF Backed, Lost, Absent
    <3>2. Settled => Settled'
      BY <2>1, <2>4, <2>6 DEF Settled
    <3>. QED  BY <3>1, <3>2 DEF BackupsSound, FaultsKept
  <2>9. \A g \in Files : Old(seen[p], g)' = Old(seen[p], g)
    BY <1>2 DEF Old, Absent
  <2>10. seen'[p].applied => \A g \in Files :
            journal'["work"].undo[g] = "none" /\ seen'[p].undo[g] # "none" =>
                files'[g] = Old(seen[p], g)'
    BY <1>1, <1>2, <2>1, <2>9 DEF Undoing
  <2>11. ~broken'[p] => \A g \in Files \ todo'[p] : files'[g] = Recovered(g)'
    BY <1>1, <2>1, <2>2, <2>4, <2>6 DEF Undoing
  <2>12. Undoing(p)'
    BY <1>1, <1>2, <2>2, <2>10, <2>11 DEF Undoing
  <2>. QED  BY <1>1, <1>2, <2>5, <2>6, <2>7, <2>8, <2>12 DEF Nested
<1>. QED  BY <1>5, <1>6

\* An undo that fails leaves the file, and the journal stays.
LEMMA UndoFailsWork ==
    ASSUME TypeInv, NEW p \in Processes, UndoFails(p), scope[p] = "work", Nested(p)
    PROVE  SameDisk /\ Nested(p)'
<1>1. /\ pc[p] = "undo" /\ Undoing(p) /\ SameDisk /\ UNCHANGED <<pc, seen>>
  BY DEF UndoFails, At, Nested, SameDisk, disk
<1>2. PICK f \in todo[p] : todo' = [todo EXCEPT ![p] = @ \ {f}]
  BY DEF UndoFails
<1>3. todo'[p] \subseteq todo[p] /\ broken'[p] = TRUE
  BY <1>2 DEF UndoFails, TypeInv, TypeOK
<1>. QED  BY <1>1, <1>3, UndoLeft

\* When every file is undone, they are as the recovery was to leave them.
LEMMA UndoneWork ==
    ASSUME TypeInv, NEW p \in Processes, Undone(p), scope[p] = "work", Nested(p)
    PROVE  SameDisk /\ (scope'[p] = "work" => Nested(p)')
<1>1. /\ pc[p] = "undo" /\ Undoing(p) /\ SameDisk /\ todo[p] = {}
  BY DEF Undone, At, Nested, SameDisk, disk
<1>2. CASE ~broken[p] /\ Go(p, "drop")
  <2>1. pc'[p] = "drop"
    BY <1>2 DEF Go, TypeInv, TypeOK
  <2>2. Settled
    BY <1>1, <1>2 DEF Undoing, Settled
  <2>. QED  BY <1>1, <2>1, <2>2, SameRecovery DEF Nested
<1>3. CASE BeginFails(p)
  <2>1. scope'[p] = "flow"
    BY <1>3 DEF BeginFails, RollBackFlow, StartUndo, TypeInv, TypeOK
  <2>. QED  BY <1>1, <2>1
<1>4. CASE Close(p)
  <2>1. pc'[p] = "release"
    BY <1>4 DEF Close, Go, TypeInv, TypeOK
  <2>. QED  BY <1>1, <2>1 DEF Nested
<1>. QED  BY <1>2, <1>3, <1>4 DEF Undone

\* The journal goes once it says nothing that is not so; where it cannot go, it still
\* says nothing else.
LEMMA DropWork ==
    ASSUME TypeInv, NEW p \in Processes, DropJournal(p), scope[p] = "work", Nested(p),
           AllOrNothing
    PROVE  /\ AllOrNothing' /\ BackupsSound' /\ Nested(p)'
           /\ \A f \in Files : Recovered(f)' = Recovered(f)
<1>1. /\ pc[p] = "drop" /\ UNCHANGED <<files, backups>> /\ pc'[p] \in {"lock", "sweep"}
  BY DEF DropJournal, At, Go, TypeInv, TypeOK
<1>2. Settled
  BY <1>1 DEF Nested
<1>3. CASE journal' = [journal EXCEPT ![scope[p]] = NoJournal]
  <2>1. journal'["work"] = NoJournal
    BY <1>3, WorkTypes DEF TypeInv, TypeOK
  <2>2. ~Pending'
    BY <2>1 DEF Pending, NoJournal, Planned
  <2>3. \A f \in Files : Recovered(f)' = Recovered(f)
    BY <1>1, <1>2, <2>2, RecoveredNext DEF Settled
  <2>4. Settled'
    BY <2>2, RecoveredNext DEF Settled
  <2>5. Nested(p)' /\ BackupsSound'
    BY <1>1, <2>2, <2>4 DEF Nested, BackupsSound, Backed
  <2>. QED  BY <2>3, <2>5 DEF AllOrNothing
<1>4. CASE Fault /\ UNCHANGED journal
  <2>1. SameDisk /\ faults' > 0
    BY <1>1, <1>4, InstallAssumption DEF SameDisk, Fault, TypeInv, TypeOK
  <2>2. Settled'
    BY <1>2, <2>1, SameRecovery
  <2>3. Nested(p)' /\ BackupsSound'
    BY <1>1, <2>1, <2>2 DEF Nested, BackupsSound
  <2>. QED  BY <2>1, <2>3, SameRecovery
<1>. QED  BY <1>3, <1>4 DEF DropJournal

\* The backups go once no journal names them, or nothing is left to undo.
LEMMA SweepWork ==
    ASSUME TypeInv, NEW p \in Processes, SweepBackups(p), scope[p] = "work", Nested(p),
           AllOrNothing, FaultsKept
    PROVE  /\ AllOrNothing' /\ BackupsSound' /\ Nested(p)'
           /\ \A f \in Files : Recovered(f)' = Recovered(f)
<1>1. /\ pc[p] = "sweep" /\ UNCHANGED <<files, journal>> /\ pc'[p] \in {"lock", "release"}
  BY DEF SweepBackups, At, Go, TypeInv, TypeOK
<1>2. Settled /\ (~Pending \/ faults > 0) /\ (Pending' <=> Pending)
  BY <1>1 DEF Nested, Pending
<1>3. ASSUME NEW f \in Files PROVE Recovered(f)' = files'[f]
  <2>1. CASE ~Pending' \/ journal'["work"].undo[f] \in {"none", "absent"}
    <3>1. Pending /\ journal["work"].undo[f] = "absent" => files[f] = Absent
      BY <1>2, RecoveredIs DEF Settled
    <3>. QED  BY <1>1, <1>2, <2>1, <3>1, RecoveredNext
  <2>2. CASE Pending' /\ journal'["work"].undo[f] \notin {"none", "absent"}
    <3>1. PICK t \in Processes : t = journal["work"].tx
      BY <1>1, <2>2, WorkTypes DEF Pending, Named
    <3>2. backups'["work"][t][f] \in {backups["work"][t][f], Absent}
      BY SweptBackups
    <3>3. backups["work"][t][f] # Absent => files[f] = backups["work"][t][f]
      BY <1>1, <1>2, <2>2, <3>1 DEF Settled, Recovered
    <3>4. Recovered(f)' = IF backups'["work"][t][f] = Absent THEN files'[f]
                          ELSE backups'["work"][t][f]
      BY <1>1, <2>2, <3>1 DEF Recovered, Absent
    <3>. QED  BY <1>1, <3>2, <3>3, <3>4
  <2>. QED  BY <2>1, <2>2
<1>4. \A f \in Files : Recovered(f)' = Recovered(f)
  BY <1>1, <1>2, <1>3 DEF Settled
<1>5. Settled'
  BY <1>3 DEF Settled
<1>6. Nested(p)' /\ BackupsSound'
  BY <1>1, <1>2, <1>5 DEF Nested, BackupsSound, Backed, FaultsKept
<1>. QED  BY <1>4, <1>6 DEF AllOrNothing

\* Begin asks for the lock when nothing is left to undo.
LEMMA LockWork ==
    ASSUME TypeInv, NEW p \in Processes, scope[p] = "work", Nested(p),
           TryLock(p) \/ InspectLock(p) \/ BreakLock(p) \/ Relock(p) \/ StampLock(p)
    PROVE  SameDisk /\ (scope'[p] = "work" => Nested(p)')
<1>1. SameDisk /\ Settled
  BY DEF TryLock, InspectLock, BreakLock, Relock, StampLock, CreateLock, SameDisk, disk, At, Nested
<1>2. BeginFails(p) => scope'[p] = "flow"
  BY DEF BeginFails, RollBackFlow, StartUndo, TypeInv, TypeOK
<1>3. BeginFails(p) \/ pc'[p] \in {"stamp", "inspect", "break", "relock", "open"}
  BY DEF TryLock, InspectLock, BreakLock, Relock, StampLock, CreateLock, Go, TypeInv, TypeOK
<1>4. Settled'
  BY <1>1, SameRecovery
<1>. QED  BY <1>1, <1>2, <1>3, <1>4 DEF Nested

\* A new journal is not to be undone yet.
LEMMA OpenWork ==
    ASSUME TypeInv, NEW p \in Processes, OpenJournal(p), scope[p] = "work", Nested(p),
           AllOrNothing, BackupsSound, FaultsKept
    PROVE  /\ AllOrNothing' /\ BackupsSound' /\ Nested(p)'
           /\ \A f \in Files : Recovered(f)' = Recovered(f)
<1>1. /\ pc[p] = "open" /\ UNCHANGED <<files, backups>> /\ Settled
  BY DEF OpenJournal, At, Nested
<1>2. CASE journal'["work"] = Planned(p) /\ mem'[p]["work"] = Planned(p) /\ pc'[p] = "mark"
  <2>1. ~Pending'
    BY <1>2 DEF Pending, Planned
  <2>2. \A f \in Files : Recovered(f)' = Recovered(f)
    BY <1>1, <2>1, RecoveredNext DEF Settled
  <2>3. Nested(p)' /\ BackupsSound'
    BY <1>2, <2>1 DEF Nested, Planned, BackupsSound, Backed
  <2>. QED  BY <2>2, <2>3 DEF AllOrNothing
<1>3. CASE journal' = journal /\ pc'[p] = "release"
  <2>1. SameDisk /\ Nested(p)'
    BY <1>1, <1>3 DEF SameDisk, Nested
  <2>. QED  BY <2>1, SameRecovery
<1>. QED  BY <1>2, <1>3, WorkTypes DEF OpenJournal, Close, Go, TypeInv, TypeOK

\* MarkApplied, in the nested transaction: from here on the journal is to be undone.
LEMMA MarkWork ==
    ASSUME TypeInv, NEW p \in Processes, MarkApplied(p), scope[p] = "work", Nested(p),
           AllOrNothing, NothingCaptured
    PROVE  /\ AllOrNothing' /\ Backed' /\ Nested(p)'
           /\ \A f \in Files : Recovered(f)' = Recovered(f)
<1>1. /\ pc[p] = "mark" /\ UNCHANGED <<files, backups, cmd, snap>>
      /\ journal["work"] = Planned(p) /\ mem[p]["work"] = Planned(p)
  BY DEF MarkApplied, At, Nested
<1>2. \A f \in Files : snap[p][f] = Unset
  BY <1>1 DEF NothingCaptured, Fresh
<1>3. ~Pending
  BY <1>1 DEF Pending, Planned
<1>4. CASE WriteApplied(p) /\ Go(p, "mutate") /\ todo' = [todo EXCEPT ![p] = Files]
  <2>1. pc'[p] = "mutate" /\ todo'[p] = Files
    BY <1>4 DEF Go, TypeInv, TypeOK
  <2>2. /\ journal'["work"] = mem'[p]["work"] /\ mem'[p]["work"].applied /\ mem'[p]["work"].tx = p
        /\ mem'[p]["work"].undo = mem[p]["work"].undo
        /\ mem'[p]["work"].committed = mem[p]["work"].committed
    BY <1>1, <1>4, AppliedWritten DEF Scopes
  <2>3. \A f \in Files : journal'["work"].undo[f] = "none"
    BY <1>1, <2>2, PlannedType
  <2>4. \A f \in Files : Recovered(f)' = Recovered(f)
    BY <1>1, <1>3, <2>3, RecoveredNext, RecoveredIs
  <2>5. Backed'
    BY <2>3 DEF Backed, Lost
  <2>6. ~mem'[p]["work"].committed /\ \A f \in Files : mem'[p]["work"].undo[f] = "none"
    BY <1>1, <2>2, <2>3, PlannedType
  <2>7. \A f \in Files : snap'[p][f] = Unset /\ RecordOf(snap[p][f])' = "none"
    BY <1>1, <1>2 DEF RecordOf, Unset, Absent
  <2>8. Changing(p)'
    BY <2>1, <2>2, <2>3, <2>6, <2>7, InstallAssumption DEF Changing, Unset, Absent
  <2>. QED  BY <2>1, <2>4, <2>5, <2>8 DEF Nested, AllOrNothing
<1>5. CASE Close(p) /\ UNCHANGED journal
  <2>1. pc'[p] = "release" /\ SameDisk
    BY <1>1, <1>5 DEF Close, Go, TypeInv, TypeOK, SameDisk
  <2>2. Backed'
    BY <1>3, <2>1, SameRecovery DEF Backed
  <2>. QED  BY <2>1, <2>2, SameRecovery DEF Nested
<1>. QED  BY <1>4, <1>5 DEF MarkApplied

-----------------------------------------------------------------------------
(***************************************************************************)
(* The files change.                                                       *)
(***************************************************************************)
\* Capture: the file is as it was, in memory and in its backup.
LEMMA CaptureWork ==
    ASSUME TypeInv, NEW p \in Processes, Capture(p), scope[p] = "work", Nested(p),
           AllOrNothing
    PROVE  /\ AllOrNothing' /\ Backed' /\ Nested(p)'
           /\ \A f \in Files : Recovered(f)' = Recovered(f)
<1>1. pc[p] = "mutate" /\ Changing(p)
  BY DEF Capture, At, Nested
<1>2. PICK f \in Files :
              /\ f \in todo[p] /\ snap[p][f] = Unset /\ files[f] \in Content
              /\ snap' \in [Processes -> [Files -> Content \union {Unset}]]
              /\ snap'[p][f] = files[f] /\ \A g \in Files : g # f => snap'[p][g] = snap[p][g]
              /\ \A q \in Processes : q # p => snap'[q] = snap[q]
              /\ pc' \in [Processes -> Locations]
              /\ \A q \in Processes : q # p => pc'[q] = pc[q]
              /\ \/ /\ pc'[p] = "record" /\ UNCHANGED <<todo, faults>>
                    /\ backups' = Backup(p, f)
                 \/ /\ pc'[p] = "restore" /\ Fault /\ UNCHANGED backups
                    /\ todo' = [todo EXCEPT ![p] = {g \in Files : g = f \/ snap[p][g] # Unset}]
              /\ UNCHANGED <<files, tracked, lock, journal, cmd, prior, mem, scope, mode, seen, broken>>
  BY CaptureStep DEF TypeInv
<1>3. \A g \in Files : g # f => backups'["work"][p][g] = backups["work"][p][g]
  BY <1>2, BackupStep DEF TypeInv
<1>4. pc'[p] = "record" /\ files[f] # Absent => backups'["work"][p][f] = files[f]
  BY <1>2, BackupStep DEF TypeInv
<1>5. UNCHANGED <<files, journal, mem, cmd>>
  BY <1>2
<1>6. /\ journal["work"].tx = p /\ journal["work"].applied /\ ~journal["work"].committed
      /\ journal["work"] = mem[p]["work"]
      /\ \A g \in Files : journal["work"].undo[g] = RecordOf(snap[p][g])
      /\ \A g \in Files : journal["work"].undo[g] = "present" => backups["work"][p][g] = snap[p][g]
  BY <1>1 DEF Changing
<1>7. journal["work"].undo[f] = "none"
  BY <1>2, <1>6 DEF RecordOf
<1>8. \A g \in Files : Recovered(g)' = Recovered(g)
  <2>1. Recovered(f)' = Recovered(f)
    BY <1>5, <1>7, RecoveredIs, RecoveredNext
  <2>2. ASSUME NEW g \in Files, g # f PROVE Recovered(g)' = Recovered(g)
    BY <1>3, <1>5, <1>6, <2>2 DEF Recovered, Pending, Absent
  <2>. QED  BY <2>1, <2>2
<1>10. files[f] # Unset /\ Absent # Unset
  BY <1>2, Nothing
<1>11. \A g \in Files : g # f => RecordOf(snap[p][g])' = RecordOf(snap[p][g])
  BY <1>2 DEF RecordOf, Unset, Absent
<1>12. pc'[p] \in {"record", "restore"}
  BY <1>2
<1>13. pc'[p] = "record" => todo'[p] = todo[p]
  BY <1>2
<1>14. ASSUME NEW g \in Files
       PROVE  /\ journal'["work"].undo[g] \in {"none", mem'[p]["work"].undo[g]}
              /\ mem'[p]["work"].undo[g] \in {"none", RecordOf(snap[p][g])'}
              /\ journal'["work"].undo[g] = "none" /\ snap'[p][g] # Unset' => files'[g] = snap'[p][g]
              /\ mem'[p]["work"].undo[g] = "present" => backups'["work"][p][g] = snap'[p][g]
              /\ pc'[p] = "record" /\ snap'[p][g] \notin {Unset', Absent'} =>
                    backups'["work"][p][g] = snap'[p][g]
  <2>1. CASE g = f
    BY <1>2, <1>4, <1>5, <1>6, <1>7, <2>1 DEF Unset, Absent
  <2>2. CASE g # f
    <3>1. /\ journal["work"].undo[g] \in {"none", mem[p]["work"].undo[g]}
          /\ mem[p]["work"].undo[g] \in {"none", RecordOf(snap[p][g])}
          /\ journal["work"].undo[g] = "none" /\ snap[p][g] # Unset => files[g] = snap[p][g]
          /\ mem[p]["work"].undo[g] = "present" => backups["work"][p][g] = snap[p][g]
      BY <1>1 DEF Changing
    <3>2. snap[p][g] \notin {Unset, Absent} => journal["work"].undo[g] = "present"
      BY <1>6 DEF RecordOf
    <3>. QED  BY <1>2, <1>3, <1>5, <1>6, <1>11, <2>2, <3>1, <3>2 DEF Unset, Absent
  <2>. QED  BY <2>1, <2>2
<1>15. pc'[p] = "record" => \A g \in Files \ todo'[p] : files'[g] = cmd'[p].release
  BY <1>1, <1>5, <1>13 DEF Changing
<1>16. Changing(p)'
  BY <1>5, <1>6, <1>12, <1>14, <1>15 DEF Changing
<1>17. AllOrNothing'
  BY <1>8 DEF AllOrNothing
<1>. QED  BY <1>8, <1>12, <1>16, <1>17, ChangingBacked DEF Nested

\* OnSnapshot: a record is on disk only once its backup is.
LEMMA RecordWork ==
    ASSUME TypeInv, NEW p \in Processes, Record(p), scope[p] = "work", Nested(p),
           AllOrNothing
    PROVE  /\ AllOrNothing' /\ Backed' /\ Nested(p)'
           /\ \A f \in Files : Recovered(f)' = Recovered(f)
<1>1. pc[p] = "record" /\ Changing(p) /\ UNCHANGED <<files, backups, cmd, snap>>
  BY DEF Record, At, Nested
<1>2. /\ Recorded(p).tx = p /\ Recorded(p).applied /\ ~Recorded(p).committed
      /\ \A f \in Files : Recorded(p).undo[f] = RecordOf(snap[p][f])
  BY <1>1, RecordedType, TypesSplit DEF Changing, TypeInv
<1>3. /\ mem'[p]["work"] = Recorded(p)
      /\ \/ journal'["work"] = Recorded(p) /\ pc'[p] = "mutate" /\ todo'[p] = todo[p]
         \/ journal'["work"] = journal["work"] /\ pc'[p] = "restore"
  BY RecordWritten DEF Go, StartRestore, undoing, TypeInv, TypeOK
<1>4. \A f \in Files : RecordOf(snap[p][f])' = RecordOf(snap[p][f])
  BY <1>1 DEF RecordOf, Unset, Absent
<1>5. \A f \in Files :
         /\ journal["work"].undo[f] \in {"none", RecordOf(snap[p][f])}
         /\ journal["work"].undo[f] = "none" /\ snap[p][f] # Unset => files[f] = snap[p][f]
         /\ snap[p][f] \notin {Unset, Absent} => backups["work"][p][f] = snap[p][f]
  BY <1>1 DEF Changing
<1>6. journal["work"].tx = p /\ journal["work"].applied /\ ~journal["work"].committed
  BY <1>1 DEF Changing
<1>7. journal'["work"].tx = p /\ journal'["work"].applied /\ ~journal'["work"].committed
  BY <1>2, <1>3, <1>6
<1>8. Pending /\ Pending'
  BY <1>6, <1>7 DEF Pending
<1>9. ASSUME NEW f \in Files PROVE Recovered(f)' = Recovered(f)
  <2>1. CASE journal'["work"].undo[f] = journal["work"].undo[f]
    BY <1>1, <1>6, <1>7, <1>8, <2>1 DEF Recovered, Absent
  <2>2. CASE journal["work"].undo[f] = "none" /\ journal'["work"].undo[f] = RecordOf(snap[p][f])
    <3>1. CASE snap[p][f] = Unset
      BY <1>1, <2>2, <3>1, RecoveredIs, RecoveredNext DEF RecordOf
    <3>2. CASE snap[p][f] = Absent /\ snap[p][f] # Unset
      BY <1>1, <1>5, <1>8, <2>2, <3>2, RecoveredIs, RecoveredNext DEF RecordOf
    <3>3. CASE snap[p][f] \notin {Unset, Absent}
      BY <1>1, <1>5, <1>7, <1>8, <2>2, <3>3, RecoveredIs, RecoveredNext DEF RecordOf
    <3>. QED  BY <3>1, <3>2, <3>3
  <2>3. journal'["work"].undo[f] \in {journal["work"].undo[f], RecordOf(snap[p][f])}
    BY <1>2, <1>3
  <2>. QED  BY <1>5, <2>1, <2>2, <2>3
<1>10. \A f \in Files :
         /\ journal'["work"].undo[f] \in {"none", RecordOf(snap[p][f])}
         /\ journal'["work"].undo[f] = "none" /\ snap[p][f] # Unset => files[f] = snap[p][f]
  BY <1>2, <1>3, <1>5
<1>12. ASSUME NEW f \in Files
       PROVE  /\ journal'["work"].undo[f] \in {"none", mem'[p]["work"].undo[f]}
              /\ mem'[p]["work"].undo[f] \in {"none", RecordOf(snap[p][f])'}
              /\ journal'["work"].undo[f] = "none" /\ snap'[p][f] # Unset' => files'[f] = snap'[p][f]
              /\ mem'[p]["work"].undo[f] = "present" => backups'["work"][p][f] = snap'[p][f]
              /\ pc'[p] = "mutate" => journal'["work"].undo[f] = RecordOf(snap[p][f])'
  <2>1. RecordOf(snap[p][f]) = "present" => snap[p][f] \notin {Unset, Absent}
    BY DEF RecordOf
  <2>. QED  BY <1>1, <1>2, <1>3, <1>4, <1>5, <1>10, <2>1 DEF Unset
<1>13. pc'[p] = "mutate" => \A f \in Files \ todo'[p] : files'[f] = cmd'[p].release
  BY <1>1, <1>3 DEF Changing
<1>14. /\ pc'[p] \in {"mutate", "restore"} /\ (pc'[p] = "mutate" => journal'["work"] = mem'[p]["work"])
       /\ mem'[p]["work"].tx = p /\ mem'[p]["work"].applied /\ ~mem'[p]["work"].committed
  BY <1>2, <1>3
<1>15. Changing(p)'
  BY <1>7, <1>12, <1>13, <1>14 DEF Changing
<1>. QED  BY <1>9, <1>14, <1>15, ChangingBacked DEF Nested, AllOrNothing

\* A file is written only once its record is on disk.
LEMMA WriteFileWork ==
    ASSUME TypeInv, NEW p \in Processes, WriteFile(p), scope[p] = "work", Nested(p),
           AllOrNothing
    PROVE  /\ AllOrNothing' /\ Backed' /\ Nested(p)'
           /\ \A f \in Files : Recovered(f)' = Recovered(f)
<1>1. /\ pc[p] = "mutate" /\ Changing(p)
      /\ UNCHANGED <<journal, backups, pc, cmd, mem, snap>>
  BY DEF WriteFile, At, Nested, session
<1>2. PICK f \in Files :
         /\ f \in todo[p] /\ snap[p][f] # Unset
         /\ files' = [files EXCEPT ![f] = cmd[p].release]
         /\ todo' = [todo EXCEPT ![p] = @ \ {f}]
  BY DEF WriteFile, Writable, TypeInv, TypeOK
<1>3. /\ files'[f] = cmd[p].release /\ todo'[p] = todo[p] \ {f}
      /\ \A g \in Files : g # f => files'[g] = files[g]
  BY <1>2 DEF TypeInv, TypeOK
<1>4. /\ journal["work"].tx = p /\ journal["work"].applied /\ ~journal["work"].committed
      /\ journal["work"].undo[f] \in {"absent", "present"}
  BY <1>1, <1>2 DEF Changing, RecordOf
<1>5. Pending /\ Pending'
  BY <1>1, <1>4 DEF Pending
<1>6. Recovered(f)' = Recovered(f)
  <2>1. CASE journal["work"].undo[f] = "absent"
    BY <1>1, <1>5, <2>1, RecoveredIs, RecoveredNext
  <2>2. CASE journal["work"].undo[f] = "present"
    <3>1. backups["work"][journal["work"].tx][f] # Absent
      BY <1>1, <1>2, <1>5, <2>2, ChangingBacked DEF Backed, Lost
    <3>. QED  BY <1>1, <1>5, <2>2, <3>1, RecoveredIs, RecoveredNext
  <2>. QED  BY <1>4, <2>1, <2>2
<1>7. \A g \in Files : g # f => Recovered(g)' = Recovered(g)
  BY <1>1, <1>3, <1>5 DEF Recovered, Absent
<1>9. \A g \in Files : RecordOf(snap[p][g])' = RecordOf(snap[p][g])
  BY <1>1 DEF RecordOf, Unset, Absent
<1>10. \A g \in Files \ todo'[p] : files'[g] = cmd'[p].release
  BY <1>1, <1>3 DEF Changing
<1>11. \A g \in Files :
         journal'["work"].undo[g] = "none" /\ snap'[p][g] # Unset' => files'[g] = snap'[p][g]
  BY <1>1, <1>3, <1>4 DEF Changing, Unset
<1>12. Changing(p)'
  BY <1>1, <1>9, <1>10, <1>11 DEF Changing
<1>. QED  BY <1>1, <1>6, <1>7, <1>12, ChangingBacked DEF Nested, AllOrNothing

\* The step of the command is over, and the captured contents are to be put back.
LEMMA RestoreStarts ==
    ASSUME TypeInv, NEW p \in Processes, StartRestore(p), SameDisk, UNCHANGED <<cmd, mem, snap>>,
           Changing(p)
    PROVE  Nested(p)'
<1>1. pc'[p] = "restore"
  BY StartRestoreStep, TypesSplit DEF TypeInv
<1>2. \A f \in Files : RecordOf(snap[p][f])' = RecordOf(snap[p][f])
  BY DEF RecordOf, Unset, Absent
<1>3. Changing(p)'
  BY <1>1, <1>2 DEF Changing, SameDisk, Unset, Absent
<1>. QED  BY <1>1, <1>3 DEF Nested

\* A process goes on to save the tracked state, or to commit.
LEMMA ChangedStays ==
    ASSUME TypeInv, NEW p \in Processes, SameDisk, UNCHANGED <<cmd, mem, snap>>, Changing(p),
           pc[p] \in {"mutate", "save", "commit"}, pc'[p] \in {"save", "commit"},
           \A f \in Files : files[f] = cmd[p].release
    PROVE  Nested(p)'
<1>1. \A f \in Files : RecordOf(snap[p][f])' = RecordOf(snap[p][f])
  BY DEF RecordOf, Unset, Absent
<1>2. Changing(p)'
  BY <1>1 DEF Changing, SameDisk, Unset, Absent
<1>. QED  BY <1>2 DEF Nested

\* The end of the step: what is captured fits what is on disk.
LEMMA MutatedWork ==
    ASSUME TypeInv, NEW p \in Processes, scope[p] = "work", Nested(p),
           MutationFails(p) \/ Mutated(p) \/ SaveTracked(p)
    PROVE  SameDisk /\ Nested(p)'
<1>1. /\ pc[p] \in {"mutate", "save"} /\ Changing(p) /\ SameDisk /\ UNCHANGED session
  BY DEF MutationFails, Mutated, SaveTracked, At, Nested, SameDisk, disk
<1>2. UNCHANGED <<cmd, mem, snap>>
  BY <1>1 DEF session
<1>3. CASE StartRestore(p)
  BY <1>1, <1>2, <1>3, RestoreStarts
<1>4. CASE Mutated(p)
  <2>1. pc'[p] = "save" /\ pc[p] = "mutate" /\ todo[p] = {}
    BY <1>4 DEF Mutated, At, Go, TypeInv, TypeOK
  <2>2. \A f \in Files : files[f] = cmd[p].release
    BY <1>1, <2>1 DEF Changing
  <2>. QED  BY <1>1, <1>2, <2>1, <2>2, ChangedStays
<1>5. CASE SaveTracked(p) /\ Go(p, "commit")
  <2>1. pc'[p] = "commit" /\ pc[p] = "save"
    BY <1>5 DEF SaveTracked, At, Go, TypeInv, TypeOK
  <2>2. \A f \in Files : files[f] = cmd[p].release
    BY <1>1, <2>1 DEF Changing
  <2>. QED  BY <1>1, <1>2, <2>1, <2>2, ChangedStays
<1>. QED  BY <1>3, <1>4, <1>5 DEF MutationFails, SaveTracked

\* A file whose record is not on disk is put back as it is.
LEMMA RestoreFileWork ==
    ASSUME TypeInv, NEW p \in Processes, RestoreFile(p), scope[p] = "work", Nested(p),
           AllOrNothing
    PROVE  /\ AllOrNothing' /\ Backed' /\ Nested(p)'
           /\ \A f \in Files : Recovered(f)' = Recovered(f)
<1>1. /\ pc[p] = "restore" /\ Changing(p)
      /\ UNCHANGED <<journal, backups, pc, cmd, mem, snap>>
  BY DEF RestoreFile, At, Nested, session
<1>2. PICK f \in todo[p] : files' = [files EXCEPT ![f] = snap[p][f]] \/ UNCHANGED files
  BY DEF RestoreFile
<1>3. f \in Files /\ snap[p][f] # Unset
  BY <1>1, <1>2 DEF TypeInv, TypeOK, Places
<1>4. files'[f] \in {snap[p][f], files[f]} /\ \A g \in Files : g # f => files'[g] = files[g]
  BY <1>2, <1>3 DEF TypeInv, TypeOK
<1>5. journal["work"].tx = p /\ journal["work"].applied /\ ~journal["work"].committed
  BY <1>1 DEF Changing
<1>6. Pending /\ Pending'
  BY <1>1, <1>5 DEF Pending
<1>7. journal["work"].undo[f] = "none" => files'[f] = files[f] /\ files[f] = snap[p][f]
  BY <1>1, <1>3, <1>4 DEF Changing
<1>8. Recovered(f)' = Recovered(f)
  <2>1. CASE journal["work"].undo[f] = "none"
    BY <1>1, <1>3, <1>7, <2>1, RecoveredIs, RecoveredNext
  <2>2. CASE journal["work"].undo[f] = "absent"
    BY <1>1, <1>3, <1>6, <2>2, RecoveredIs, RecoveredNext
  <2>3. CASE journal["work"].undo[f] = "present"
    <3>1. backups["work"][journal["work"].tx][f] # Absent
      BY <1>1, <1>3, <1>6, <2>3, ChangingBacked DEF Backed, Lost
    <3>. QED  BY <1>1, <1>3, <1>6, <2>3, <3>1, RecoveredIs, RecoveredNext
  <2>. QED  BY <1>3, <2>1, <2>2, <2>3, WorkTypes
<1>9. \A g \in Files : g # f => Recovered(g)' = Recovered(g)
  BY <1>1, <1>4, <1>6 DEF Recovered, Absent
<1>11. \A g \in Files : RecordOf(snap[p][g])' = RecordOf(snap[p][g])
  BY <1>1 DEF RecordOf, Unset, Absent
<1>12. \A g \in Files :
         journal'["work"].undo[g] = "none" /\ snap'[p][g] # Unset' => files'[g] = snap'[p][g]
  BY <1>1, <1>4, <1>7 DEF Changing, Unset
<1>13. Changing(p)'
  BY <1>1, <1>11, <1>12 DEF Changing
<1>. QED  BY <1>1, <1>8, <1>9, <1>13, ChangingBacked DEF Nested, AllOrNothing

\* Session.Rollback begins with the journal in memory, which may list one file more
\* than the one on disk: that file is as its backup.
LEMMA RestoredWork ==
    ASSUME TypeInv, NEW p \in Processes, Restored(p), scope[p] = "work", Nested(p)
    PROVE  SameDisk /\ Nested(p)'
<1>1. /\ pc[p] = "restore" /\ Changing(p) /\ SameDisk /\ UNCHANGED session
      /\ StartUndo(p, "work", mem[p]["work"], "rollback")
  BY DEF Restored, At, Nested, SameDisk, disk
<1>2. PICK u \in Journals : u = mem[p]["work"]
  BY WorkTypes
<1>3. StartUndo(p, "work", u, "rollback")
  BY <1>1, <1>2
<1>4. /\ u.tx = p /\ u.applied /\ journal["work"].tx = p /\ journal["work"].applied
      /\ ~journal["work"].committed
  BY <1>1, <1>2 DEF Changing
<1>5. ASSUME NEW f \in Files
      PROVE  /\ journal["work"].undo[f] \in {"none", u.undo[f]}
             /\ journal["work"].undo[f] = "none" /\ u.undo[f] # "none" => files[f] = Old(u, f)
  <2>1. /\ journal["work"].undo[f] \in {"none", u.undo[f]}
        /\ u.undo[f] \in {"none", RecordOf(snap[p][f])}
        /\ journal["work"].undo[f] = "none" /\ snap[p][f] # Unset => files[f] = snap[p][f]
        /\ u.undo[f] = "present" => backups["work"][p][f] = snap[p][f]
    BY <1>1, <1>2 DEF Changing
  <2>. QED  BY <1>4, <2>1 DEF RecordOf, Old
<1>6. /\ ~journal["work"].committed /\ journal["work"].applied = u.applied
      /\ journal["work"].tx = u.tx
      /\ u.applied => \A f \in Files :
             /\ journal["work"].undo[f] \in {"none", u.undo[f]}
             /\ journal["work"].undo[f] = "none" /\ u.undo[f] # "none" => files[f] = Old(u, f)
  BY <1>4, <1>5
<1>. QED  BY <1>1, <1>3, <1>6, UndoingStarts

\* Commit: every file is of the release, and stays so.
LEMMA CommitWork ==
    ASSUME TypeInv, NEW p \in Processes, Commit(p), scope[p] = "work", Nested(p),
           AllOrNothing
    PROVE  /\ AllOrNothing' /\ Nested(p)'
           /\ BackupsSound /\ FaultsKept => BackupsSound'
           /\ \/ SameDisk /\ UNCHANGED mem
              \/ /\ mem'[p]["work"].committed /\ ~mem[p]["work"].committed
                 /\ UNCHANGED <<files, cmd>> /\ pc'[p] = "drop"
                 /\ \A f \in Files : Recovered(f)' = cmd[p].release
<1>1. /\ pc[p] = "commit" /\ Changing(p)
      /\ UNCHANGED <<files, backups, cmd, snap>>
  BY DEF Commit, At, Nested
<1>2. CASE Committed(p, "work") /\ Go(p, "drop")
  <2>1. pc'[p] = "drop"
    BY <1>2 DEF Go, TypeInv, TypeOK
  <2>2. journal'["work"].committed /\ mem'[p]["work"].committed
    BY <1>2, CommitWritten, WorkTypes
  <2>3. ~Pending'
    BY <2>2 DEF Pending
  <2>4. \A f \in Files : Recovered(f)' = files'[f] /\ files'[f] = cmd[p].release
    BY <1>1, <2>3, RecoveredNext DEF Changing
  <2>5. ~mem[p]["work"].committed
    BY <1>1 DEF Changing
  <2>6. AllOrNothing' /\ BackupsSound' /\ Nested(p)'
    BY <2>1, <2>3, <2>4 DEF Nested, Settled, AllOrNothing, BackupsSound, Backed
  <2>. QED  BY <1>1, <2>1, <2>2, <2>4, <2>5, <2>6
<1>3. CASE StartRestore(p) /\ UNCHANGED <<journal, mem>>
  <2>1. SameDisk /\ UNCHANGED <<cmd, mem, snap>>
    BY <1>1, <1>3 DEF SameDisk
  <2>2. Nested(p)'
    BY <1>1, <1>3, <2>1, RestoreStarts
  <2>. QED  BY <2>1, <2>2, SameRecovery
<1>. QED  BY <1>2, <1>3 DEF Commit, Committed

-----------------------------------------------------------------------------
(***************************************************************************)
(* All or nothing.                                                         *)
(***************************************************************************)
\* A step inside the nested transaction.  What a recovery would leave changes only
\* when the journal is written with the commit flag.
Switched(p) ==
    /\ mem'[p]["work"].committed /\ ~mem[p]["work"].committed
    /\ UNCHANGED cmd /\ pc'[p] = "drop"
    /\ \A f \in Files : Recovered(f)' = cmd[p].release

SameInstallation == \A f \in Files : Recovered(f)' = Recovered(f)

\* Every step inside the nested transaction keeps what holds of it.
LEMMA WorkStep ==
    ASSUME TypeInv, NEW p \in Processes, Step(p), scope[p] = "work", Nested(p),
           AllOrNothing, BackupsSound, NothingCaptured
    PROVE  /\ AllOrNothing' /\ BackupsSound'
           /\ scope'[p] = "work" => Nested(p)'
           /\ SameInstallation \/ Switched(p)
<1>0. FaultsKept /\ (Backed' => BackupsSound')
  BY FaultsStay DEF BackupsSound
<1>1. CASE SameDisk /\ (scope'[p] = "work" => Nested(p)')
  BY <1>0, <1>1, SameRecovery DEF SameInstallation
<1>2. CASE \/ JournalUnreadable(p) \/ RecoveryFails(p)
           \/ ReadJournal(p) \/ UndoFails(p) \/ Undone(p)
           \/ TryLock(p) \/ InspectLock(p) \/ BreakLock(p) \/ Relock(p) \/ StampLock(p)
           \/ MutationFails(p) \/ Mutated(p) \/ SaveTracked(p) \/ Restored(p)
  BY <1>1, <1>2, BegunWork, RecoverWork, UndoFailsWork, UndoneWork, LockWork, MutatedWork,
     RestoredWork
<1>3. CASE UndoFile(p)
  BY <1>0, <1>3, UndoFileWork DEF SameInstallation
<1>4. CASE \/ DropJournal(p) \/ SweepBackups(p) \/ OpenJournal(p) \/ MarkApplied(p)
           \/ Capture(p) \/ Record(p) \/ WriteFile(p) \/ RestoreFile(p)
  BY <1>0, <1>4, DropWork, SweepWork, OpenWork, MarkWork, CaptureWork, RecordWork,
     WriteFileWork, RestoreFileWork DEF SameInstallation
<1>5. CASE Commit(p)
  BY <1>0, <1>5, CommitWork, SameRecovery DEF SameInstallation, Switched
<1>6. CASE ReleaseLock(p)
  <2>1. SameDisk /\ scope'[p] = "flow"
    BY <1>6 DEF ReleaseLock, RollBackFlow, StartUndo, SameDisk, TypeInv, TypeOK
  <2>. QED  BY <1>1, <2>1
<1>7. ~(Load(p) \/ LoadFails(p) \/ RemoveFile(p) \/ ClearTracked(p) \/ RemovalFails(p) \/ Finish(p))
  BY DEF Load, LoadFails, RemoveFile, ClearTracked, RemovalFails, Finish, At, TypeInv, Places
<1>. QED  BY <1>2, <1>3, <1>4, <1>5, <1>6, <1>7 DEF Step

\* One command at a time is in its nested transaction.
LEMMA WorksAlone ==
    ASSUME (MaxCrashes = 0 /\ ~LocksStick) \/ MaxAlive = 1, Exclusive,
           NEW p \in Processes, NEW q \in Processes, scope[p] = "work", scope[q] = "work"
    PROVE  p = q
<1>1. Holds(p, "flow") /\ Holds(q, "flow") /\ "flow" \in Scopes
  BY DEF Exclusive, TypeInv, Places, Holds, Scopes
<1>. QED  BY <1>1, HoldsAlone

\* A step that leaves the disk alone leaves the transactions of the others.
LEMMA OthersNested ==
    ASSUME NEW p \in Processes, NEW q \in Processes, Frame(p), Others(p), q # p, SameDisk,
           FaultsKept, Nested(q)
    PROVE  Nested(q)'
<1>1. /\ pc'[q] = pc[q] /\ mem'[q] = mem[q] /\ snap'[q] = snap[q] /\ seen'[q] = seen[q]
      /\ todo'[q] = todo[q] /\ broken'[q] = broken[q] /\ cmd'[q] = cmd[q]
  BY DEF Frame, Others
<1>2. \A f \in Files : RecordOf(snap[q][f])' = RecordOf(snap[q][f]) /\ Recovered(f)' = Recovered(f)
  BY <1>1, SameRecovery DEF RecordOf, Unset, Absent
<1>3. \A f \in Files : Old(seen[q], f)' = Old(seen[q], f)
  BY <1>1 DEF SameDisk, Old, Absent
<1>4. Undoing(q) => Undoing(q)'
  BY <1>1, <1>2, <1>3 DEF Undoing, SameDisk, Absent
<1>5. Changing(q) => Changing(q)'
  BY <1>1, <1>2 DEF Changing, SameDisk, Absent, Unset
<1>6. (Settled => Settled') /\ (Pending' <=> Pending)
  BY SameRecovery
<1>7. Planned(q)' = Planned(q)
  BY DEF Planned
<1>. QED  BY <1>1, <1>4, <1>5, <1>6, <1>7 DEF Nested, SameDisk, FaultsKept

\* What a start leaves alone.
LEMMA StartLeaves ==
    ASSUME TypeInv, NEW p \in Processes, Start(p)
    PROVE  /\ Others(p) /\ SameDisk /\ UNCHANGED <<journal, scope, snap, mem>>
           /\ cmd'[p].kind \in Kinds
           /\ cmd'[p].kind # "uninstall" => cmd'[p].release # Absent
<1>1. PICK k \in Kinds, r \in 1 .. MaxRelease :
         cmd' = [cmd EXCEPT ![p] =
                   [kind |-> k, release |-> IF k = "uninstall" THEN Absent ELSE r]]
  BY DEF Start
<1>2. cmd'[p] = [kind |-> k, release |-> IF k = "uninstall" THEN Absent ELSE r]
  BY <1>1 DEF TypeInv, TypeOK
<1>3. \A q \in Processes : q # p => cmd'[q] = cmd[q]
  BY <1>1 DEF TypeInv, TypeOK
<1>4. r # Absent
  BY InstallAssumption DEF Absent
<1>. QED  BY <1>2, <1>3, <1>4 DEF Start, Others, SameDisk, disk, undoing

\* What a crash leaves alone.
LEMMA CrashLeaves ==
    ASSUME TypeInv, NEW p \in Processes, Crash(p)
    PROVE  /\ Frame(p) /\ Others(p) /\ SameDisk /\ UNCHANGED journal
           /\ pc'[p] = "crashed" /\ scope'[p] = "flow" /\ snap'[p] = [f \in Files |-> Unset]
           /\ mem'[p] = [s \in Scopes |-> NoJournal] /\ cmd'[p] = NoCommand
BY EndStep, TypesSplit DEF TypeInv, Crash, Frame, Others, SameDisk, disk

\* The journals of the flow and what is captured, whatever the commands.
LEMMA JournalsStay ==
    ASSUME TypeInv, FlowJournals, NothingCaptured,
           NEW p \in Processes, Start(p) \/ Step(p) \/ Crash(p)
    PROVE  FlowJournals' /\ NothingCaptured' /\ Frame(p) /\ Others(p)
<1>1. CASE Start(p)
  <2>1. /\ Frame(p) /\ Others(p) /\ UNCHANGED <<journal, scope, snap, mem>>
        /\ pc'[p] = "recover" /\ pc[p] = "idle"
    BY <1>1, StartLeaves, StartMoves DEF LocksMoved
  <2>2. FlowJournals'
    BY <2>1 DEF FlowJournals, Frame, Others
  <2>3. NothingCaptured'
    BY <2>1 DEF NothingCaptured, Fresh, Frame, Others, Unset, Ended
  <2>. QED  BY <2>1, <2>2, <2>3
<1>2. CASE Crash(p)
  <2>1. /\ Frame(p) /\ Others(p) /\ UNCHANGED journal
        /\ pc'[p] = "crashed" /\ scope'[p] = "flow" /\ snap'[p] = [f \in Files |-> Unset]
        /\ mem'[p] = [s \in Scopes |-> NoJournal]
    BY <1>2, CrashLeaves
  <2>2. FlowJournals'
    BY <2>1, Nothing DEF FlowJournals, Frame, Others, Scopes
  <2>3. NothingCaptured'
    BY <2>1, Nothing DEF NothingCaptured, Fresh, Frame, Others, Unset, Scopes
  <2>. QED  BY <2>1, <2>2, <2>3
<1>3. CASE Step(p)
  <2>1. Frame(p) /\ Others(p)
    BY <1>3, StepMoves, StepOthers DEF LocksMoved
  <2>2. FlowJournals'
    BY <1>3, <2>1, FlowJournalsStep DEF FlowListsNothing, FlowJournals, Frame, Others
  <2>3. NothingCaptured'
    <3>1. \A q \in Processes : q # p => (Fresh(q)' <=> Fresh(q))
      BY <2>1 DEF Fresh, Frame, Ended
    <3>. QED  BY <1>3, <2>1, <3>1, CapturedStep DEF NothingCaptured, Others, Unset
  <2>. QED  BY <2>1, <2>2, <2>3
<1>. QED  BY <1>1, <1>2, <1>3

\* The same with the commands, none of which is an uninstallation.
LEMMA PartsStay ==
    ASSUME TypeInv, FlowJournals, NothingCaptured, Installing, "uninstall" \notin Kinds,
           NEW p \in Processes, Start(p) \/ Step(p) \/ Crash(p)
    PROVE  FlowJournals' /\ NothingCaptured' /\ Installing' /\ Frame(p) /\ Others(p)
<1>1. FlowJournals' /\ NothingCaptured' /\ Frame(p) /\ Others(p)
  BY JournalsStay
<1>2. CASE Start(p)
  <2>1. pc'[p] = "recover" /\ cmd'[p].kind # "uninstall" /\ cmd'[p].release # Absent
    BY <1>2, StartLeaves, StartMoves DEF LocksMoved
  <2>2. Installing'
    BY <1>1, <2>1 DEF Installing, Running, Frame, Others, Absent
  <2>. QED  BY <1>1, <2>2
<1>3. CASE Crash(p)
  <2>1. pc'[p] = "crashed"
    BY <1>3, CrashLeaves
  <2>2. Installing'
    BY <1>1, <2>1 DEF Installing, Running, Ended, Frame, Others, Absent
  <2>. QED  BY <1>1, <2>2
<1>4. CASE Step(p)
  <2>1. pc'[p] # "remove" /\ (Running(p)' => cmd'[p] = cmd[p])
    BY <1>4, CommandStep
  <2>2. Running(p)
    BY <1>4, StepRuns
  <2>3. Installing'
    BY <1>1, <2>1, <2>2 DEF Installing, Frame, Others, Absent, Running
  <2>. QED  BY <1>1, <2>3
<1>. QED  BY <1>2, <1>3, <1>4

\* Every step keeps Whole, and changes what a recovery would leave only where the
\* commit flag is written.
LEMMA WholeStep ==
    ASSUME (MaxCrashes = 0 /\ ~LocksStick) \/ MaxAlive = 1, "uninstall" \notin Kinds, Whole,
           NEW p \in Processes, Start(p) \/ Step(p) \/ Crash(p)
    PROVE  /\ Working' /\ AllOrNothing' /\ BackupsSound'
           /\ SameInstallation \/ (Step(p) /\ Switched(p))
<1>1. /\ Exclusive /\ TypeInv /\ FlowJournals /\ NothingCaptured /\ Working /\ Installing
      /\ AllOrNothing /\ BackupsSound
  BY DEF Whole, Exclusive
<1>2. Frame(p) /\ Others(p) /\ FaultsKept
  BY <1>1, PartsStay, FaultsStay
<1>3. ASSUME SameDisk, scope'[p] = "work" => Nested(p)'
      PROVE  Working' /\ AllOrNothing' /\ BackupsSound' /\ SameInstallation
  <2>1. \A q \in Processes : q # p /\ scope'[q] = "work" => Nested(q)'
    BY <1>1, <1>2, <1>3, OthersNested DEF Working, Frame
  <2>. QED  BY <1>1, <1>2, <1>3, <2>1, SameRecovery DEF Working, SameInstallation
<1>4. CASE Start(p)
  <2>1. SameDisk /\ scope'[p] = "flow"
    BY <1>1, <1>4, StartLeaves, StartMoves DEF TypeInv, Places, Running, Ended
  <2>. QED  BY <1>3, <2>1
<1>5. CASE Crash(p)
  <2>1. SameDisk /\ scope'[p] = "flow"
    BY <1>1, <1>5, CrashLeaves
  <2>. QED  BY <1>3, <2>1
<1>6. CASE Step(p) /\ scope[p] = "flow"
  <2>1. SameDisk /\ (scope'[p] = "work" => pc'[p] = "recover")
    BY <1>1, <1>6, FlowStep DEF SameDisk
  <2>2. pc'[p] = "recover" => Nested(p)'
    BY DEF Nested
  <2>. QED  BY <1>3, <2>1, <2>2
<1>7. CASE Step(p) /\ scope[p] = "work"
  <2>1. /\ AllOrNothing' /\ BackupsSound' /\ (scope'[p] = "work" => Nested(p)')
        /\ SameInstallation \/ Switched(p)
    BY <1>1, <1>7, WorkStep DEF Working
  <2>2. \A q \in Processes : q # p => scope'[q] # "work"
    BY <1>1, <1>2, <1>7, WorksAlone DEF Frame
  <2>. QED  BY <1>7, <2>1, <2>2 DEF Working
<1>8. scope[p] \in {"flow", "work"}
  BY <1>1 DEF TypeInv, TypeOK, Scopes
<1>. QED  BY <1>4, <1>5, <1>6, <1>7, <1>8

\* Whole is inductive.
LEMMA WholeInvariant ==
    ASSUME (MaxCrashes = 0 /\ ~LocksStick) \/ MaxAlive = 1, "uninstall" \notin Kinds
    PROVE  /\ Init => Whole
           /\ Whole /\ [Next]_vars => Whole'
<1>1. ASSUME Init PROVE Whole
  <2>1. Exclusive
    BY <1>1, ExclusiveInvariant
  <2>2. /\ \A s \in Scopes : journal[s] = NoJournal
        /\ \A q \in Processes : /\ pc[q] = "idle" /\ scope[q] = "flow" /\ \A s \in Scopes : mem[q][s] = NoJournal
                                /\ \A f \in Files : snap[q][f] = Unset
        /\ \A f, g \in Files : files[f] = files[g]
    BY <1>1 DEF Init
  <2>3. "flow" \in Scopes /\ "work" \in Scopes
    BY DEF Scopes
  <2>4. ~Pending
    BY <2>2, <2>3, Nothing DEF Pending
  <2>5. AllOrNothing /\ BackupsSound
    BY <2>2, <2>4, RecoveredIs DEF AllOrNothing, BackupsSound, Backed
  <2>6. FlowJournals /\ NothingCaptured
    BY <2>2, <2>3, Nothing DEF FlowJournals, NothingCaptured
  <2>7. Working /\ Installing
    BY <2>2 DEF Working, Installing, Running, Ended
  <2>. QED  BY <2>1, <2>5, <2>6, <2>7 DEF Whole
<1>2. ASSUME Whole, [Next]_vars PROVE Whole'
  <2>1. Exclusive'
    BY <1>2, ExclusiveInvariant DEF Whole
  <2>2. CASE UNCHANGED vars
    <3>1. SameDisk /\ UNCHANGED <<pc, scope, mem, snap, seen, todo, broken, cmd, journal, mode>>
      BY <2>2 DEF vars, SameDisk
    <3>2. \A f \in Files : Recovered(f)' = Recovered(f)
      BY <3>1, SameRecovery
    <3>3. AllOrNothing' /\ BackupsSound'
      BY <1>2, <2>2, <3>1, SameRecovery DEF Whole, FaultsKept, vars
    <3>4. FlowJournals' /\ NothingCaptured' /\ Installing'
      BY <1>2, <3>1 DEF Whole, FlowJournals, NothingCaptured, Fresh, Installing, Running, Unset,
             Absent
    <3>5. Working'
      <4>1. ASSUME NEW q \in Processes, Undoing(q) PROVE Undoing(q)'
        BY <3>1, <3>2, <4>1, <2>2 DEF vars, Undoing, Old, Absent
      <4>2. ASSUME NEW q \in Processes, Changing(q) PROVE Changing(q)'
        BY <4>2, <2>2 DEF vars, Changing, RecordOf, Unset, Absent
      <4>3. (Settled => Settled') /\ (Pending' <=> Pending)
        BY <3>1, SameRecovery
      <4>. QED  BY <1>2, <2>2, <4>1, <4>2, <4>3 DEF vars, Whole, Working, Nested, Planned
    <3>. QED  BY <2>1, <3>3, <3>4, <3>5 DEF Whole
  <2>3. ASSUME NEW p \in Processes, Start(p) \/ Step(p) \/ Crash(p) PROVE Whole'
    <3>1. FlowJournals' /\ NothingCaptured' /\ Installing'
      BY <1>2, <2>3, PartsStay DEF Whole, Exclusive
    <3>2. Working' /\ AllOrNothing' /\ BackupsSound'
      BY <1>2, <2>3, WholeStep
    <3>. QED  BY <2>1, <3>1, <3>2 DEF Whole
  <2>. QED  BY <1>2, <2>2, <2>3 DEF Next
<1>. QED  BY <1>1, <1>2

\* A crash at any instant of an install or an update, however many operations fail,
\* leaves what the next command's recovery turns into one release (txn.Session,
\* rollbackFromJournal, and CaptureFile before OnSnapshot before the write).
THEOREM CrashesAreRecoverable ==
    ASSUME (MaxCrashes = 0 /\ ~LocksStick) \/ MaxAlive = 1, "uninstall" \notin Kinds
    PROVE  Spec => []AllOrNothing
<1>1. Whole => AllOrNothing
  BY DEF Whole
<1>. QED  BY <1>1, WholeInvariant, PTL DEF Spec

\* As long as the journal says that a file existed, its backup is there: a rollback
\* can be carried out whenever it is needed, however often commands crash.  Once an
\* operation has failed (removeIfExists, which says nothing when the journal stays),
\* backups may go before their journal, but never while a file is still to be put
\* back: every file is then at one release.
THEOREM BackupsStay ==
    ASSUME (MaxCrashes = 0 /\ ~LocksStick) \/ MaxAlive = 1, "uninstall" \notin Kinds
    PROVE  Spec => []BackupsKept
<1>1. Whole => BackupsKept
  BY DEF Whole, AllOrNothing, BackupsSound, Backed, Settled, BackupsKept
<1>. QED  BY <1>1, WholeInvariant, PTL DEF Spec

-----------------------------------------------------------------------------
(***************************************************************************)
(* The commands implement AtomicInstall.                                   *)
(***************************************************************************)
\* The commit flag of a command's nested transaction, as Progress reads it.
FlagKept(p) ==
    Running(p)' => (mem'[p]["work"].committed <=> mem[p]["work"].committed)

\* Writing the journal otherwise leaves the flag as it is.
LEMMA WriteKeepsFlag ==
    ASSUME TypeInv, NothingCaptured, NEW p \in Processes,
           \/ OpenJournal(p) \/ MarkApplied(p) \/ Record(p) \/ Finish(p)
           \/ Commit(p) /\ scope[p] # "work"
    PROVE  FlagKept(p)
<1>1. CASE OpenJournal(p)
  BY <1>1, OpenCaptures DEF NothingCaptured, FlagKept
<1>2. CASE WriteApplied(p) /\ pc[p] \in {"mark", "finish"}
  BY <1>2, AppliedWritten DEF FlagKept, Scopes
<1>3. CASE Record(p)
  <2>1. Recorded(p).committed = mem[p]["work"].committed
    BY RecordedType, TypesSplit DEF TypeInv
  <2>. QED  BY <1>3, <2>1, RecordWritten DEF FlagKept
<1>4. CASE Commit(p) /\ scope[p] # "work"
  <2>1. scope[p] = "flow"
    BY <1>4 DEF TypeInv, TypeOK, Scopes
  <2>2. CASE Committed(p, "flow")
    BY <2>2, CommitWritten DEF FlagKept, Scopes
  <2>3. CASE UNCHANGED mem
    BY <2>3 DEF FlagKept
  <2>. QED  BY <1>4, <2>1, <2>2, <2>3 DEF Commit, Committed
<1>5. CASE UNCHANGED mem
  BY <1>5 DEF FlagKept
<1>. QED  BY <1>1, <1>2, <1>3, <1>4, <1>5 DEF MarkApplied, Finish, At

\* Only the commit of the nested transaction sets the flag.
LEMMA FlagStep ==
    ASSUME TypeInv, NothingCaptured, NEW p \in Processes, Step(p),
           ~(Commit(p) /\ scope[p] = "work")
    PROVE  FlagKept(p)
<1>. USE Nothing DEF At, Go, session, FlagKept, Running, Ended, TypeInv, TypeOK
<1>1. CASE ReadJournal(p)
  BY <1>1 DEF ReadJournal, undoing, Discardable, StartUndo, disk
<1>2. CASE UndoFile(p)
  BY <1>2 DEF UndoFile
<1>3. CASE UndoFails(p)
  BY <1>3 DEF UndoFails, disk
<1>4. CASE Undone(p)
  BY <1>4 DEF Undone, undoing, BeginFails, Close, disk, End, RollBackFlow, StartUndo
<1>5. CASE DropJournal(p)
  BY <1>5 DEF DropJournal, undoing
<1>6. CASE SweepBackups(p)
  BY <1>6 DEF SweepBackups, undoing
<1>7. CASE TryLock(p)
  BY <1>7 DEF TryLock, CreateLock, disk, undoing, BeginFails, End, RollBackFlow, StartUndo
<1>8. CASE InspectLock(p)
  BY <1>8 DEF InspectLock, undoing, BeginFails, disk, End, RollBackFlow, StartUndo
<1>9. CASE BreakLock(p)
  BY <1>9 DEF BreakLock, undoing
<1>10. CASE Relock(p)
  BY <1>10 DEF Relock, CreateLock, BeginFails, disk, End, RollBackFlow, StartUndo, undoing
<1>11. CASE StampLock(p)
  BY <1>11 DEF StampLock, undoing, BeginFails, End, RollBackFlow, StartUndo
<1>12. CASE OpenJournal(p)
  BY <1>12, WriteKeepsFlag
<1>13. CASE MarkApplied(p)
  BY <1>13, WriteKeepsFlag
<1>14. CASE Load(p)
  BY <1>14 DEF Load, undoing, disk
<1>15. CASE LoadFails(p)
  BY <1>15 DEF LoadFails, RollBackFlow, disk, StartUndo
<1>16. CASE Capture(p)
  BY <1>16 DEF Capture, Backup, undoing
<1>17. CASE Record(p)
  BY <1>17, WriteKeepsFlag
<1>18. CASE WriteFile(p)
  BY <1>18 DEF WriteFile
<1>19. CASE MutationFails(p)
  BY <1>19 DEF MutationFails, StartRestore, disk
<1>20. CASE Mutated(p)
  BY <1>20 DEF Mutated, disk, undoing
<1>21. CASE RestoreFile(p)
  BY <1>21 DEF RestoreFile
<1>22. CASE Restored(p)
  BY <1>22 DEF Restored, StartUndo, disk
<1>23. CASE SaveTracked(p)
  BY <1>23 DEF SaveTracked, undoing, StartRestore
<1>24. CASE Commit(p)
  BY <1>24, WriteKeepsFlag
<1>25. CASE RemoveFile(p)
  BY <1>25 DEF RemoveFile
<1>26. CASE ClearTracked(p)
  BY <1>26 DEF ClearTracked, undoing
<1>27. CASE RemovalFails(p)
  BY <1>27 DEF RemovalFails, RollBackFlow, disk, StartUndo
<1>28. CASE Finish(p)
  BY <1>28, WriteKeepsFlag
<1>29. CASE ReleaseLock(p)
  BY <1>29 DEF ReleaseLock, Freed, undoing, RollBackFlow, End, StartUndo
<1>30. CASE JournalUnreadable(p)
  BY <1>30 DEF JournalUnreadable, BeginFails, disk, End, RollBackFlow, StartUndo
<1>31. CASE RecoveryFails(p)
  BY <1>31 DEF RecoveryFails, BeginFails, disk, End, RollBackFlow, StartUndo
<1>. QED
  BY <1>1, <1>2, <1>3, <1>4, <1>5, <1>6, <1>7, <1>8, <1>9, <1>10, <1>11, <1>12, <1>13,
     <1>14, <1>15, <1>16, <1>17, <1>18, <1>19, <1>20, <1>21, <1>22, <1>23, <1>24, <1>25,
     <1>26, <1>27, <1>28, <1>29, <1>30, <1>31
     DEF Step

\* A command that returns is left with nothing but its outcome.
LEMMA OverStep ==
    ASSUME TypeInv, NEW p \in Processes, Step(p)
    PROVE  ~Running(p)' => pc'[p] \in {"ok", "failed"} /\ cmd'[p] = NoCommand
<1>. USE DEF At, Go, Running, Ended, TypeInv, TypeOK
<1>1. CASE ReadJournal(p)
  BY <1>1 DEF ReadJournal, undoing, Discardable, StartUndo, disk, session
<1>2. CASE UndoFile(p)
  BY <1>2 DEF UndoFile, session
<1>3. CASE UndoFails(p)
  BY <1>3 DEF UndoFails, disk, session
<1>4. CASE Undone(p)
  BY <1>4 DEF Undone, undoing, session, BeginFails, Close, disk, End, RollBackFlow,
         StartUndo
<1>5. CASE DropJournal(p)
  BY <1>5 DEF DropJournal, undoing, session
<1>6. CASE SweepBackups(p)
  BY <1>6 DEF SweepBackups, undoing, session
<1>7. CASE TryLock(p)
  BY <1>7 DEF TryLock, CreateLock, disk, undoing, session, BeginFails, End, RollBackFlow,
         StartUndo
<1>8. CASE InspectLock(p)
  BY <1>8 DEF InspectLock, undoing, session, BeginFails, disk, End, RollBackFlow, StartUndo
<1>9. CASE BreakLock(p)
  BY <1>9 DEF BreakLock, undoing, session
<1>10. CASE Relock(p)
  BY <1>10 DEF Relock, CreateLock, BeginFails, disk, End, RollBackFlow, session, StartUndo,
         undoing
<1>11. CASE StampLock(p)
  BY <1>11 DEF StampLock, undoing, session, BeginFails, End, RollBackFlow, StartUndo
<1>12. CASE OpenJournal(p)
  BY <1>12 DEF OpenJournal, undoing, Close
<1>13. CASE MarkApplied(p)
  BY <1>13 DEF MarkApplied, WriteApplied, RollBackFlow, Close, StartUndo
<1>14. CASE Load(p)
  BY <1>14 DEF Load, undoing, disk
<1>15. CASE LoadFails(p)
  BY <1>15 DEF LoadFails, RollBackFlow, disk, session, StartUndo
<1>16. CASE Capture(p)
  BY <1>16 DEF Capture, Backup, undoing
<1>17. CASE Record(p)
  BY <1>17 DEF Record, undoing, StartRestore
<1>18. CASE WriteFile(p)
  BY <1>18 DEF WriteFile, session
<1>19. CASE MutationFails(p)
  BY <1>19 DEF MutationFails, StartRestore, disk, session
<1>20. CASE Mutated(p)
  BY <1>20 DEF Mutated, disk, undoing, session
<1>21. CASE RestoreFile(p)
  BY <1>21 DEF RestoreFile, session
<1>22. CASE Restored(p)
  BY <1>22 DEF Restored, StartUndo, disk, session
<1>23. CASE SaveTracked(p)
  BY <1>23 DEF SaveTracked, undoing, StartRestore, session
<1>24. CASE Commit(p)
  BY <1>24 DEF Commit, StartRestore, Close
<1>25. CASE RemoveFile(p)
  BY <1>25 DEF RemoveFile, session
<1>26. CASE ClearTracked(p)
  BY <1>26 DEF ClearTracked, undoing, session
<1>27. CASE RemovalFails(p)
  BY <1>27 DEF RemovalFails, RollBackFlow, disk, session, StartUndo
<1>28. CASE Finish(p)
  BY <1>28 DEF Finish, WriteApplied, undoing, RollBackFlow, StartUndo
<1>29. CASE ReleaseLock(p)
  BY <1>29 DEF ReleaseLock, Freed, undoing, session, RollBackFlow, End, StartUndo
<1>30. CASE JournalUnreadable(p)
  BY <1>30 DEF JournalUnreadable, session, BeginFails, disk, End, RollBackFlow, StartUndo
<1>31. CASE RecoveryFails(p)
  BY <1>31 DEF RecoveryFails, session, BeginFails, disk, End, RollBackFlow, StartUndo
<1>. QED
  BY <1>1, <1>2, <1>3, <1>4, <1>5, <1>6, <1>7, <1>8, <1>9, <1>10, <1>11, <1>12, <1>13,
     <1>14, <1>15, <1>16, <1>17, <1>18, <1>19, <1>20, <1>21, <1>22, <1>23, <1>24, <1>25,
     <1>26, <1>27, <1>28, <1>29, <1>30, <1>31
     DEF Step

\* The installation is what a recovery would leave of any file.
LEMMA InstalledIs ==
    /\ AllOrNothing => \E f \in Files : Installed = Recovered(f)
    /\ AllOrNothing => \A f \in Files : Installed = Recovered(f)
    /\ AllOrNothing' => \A f \in Files : Installed' = Recovered(f)'
<1>1. (CHOOSE f \in Files : TRUE) \in Files
  BY InstallAssumption
<1>. QED  BY <1>1 DEF Installed, AllOrNothing

\* What a step means for the command that takes it.
LEMMA ProgressStep ==
    ASSUME (MaxCrashes = 0 /\ ~LocksStick) \/ MaxAlive = 1, "uninstall" \notin Kinds, Whole,
           NEW p \in Processes, Start(p) \/ Step(p) \/ Crash(p)
    PROVE  /\ \A q \in Processes : q # p => Progress(q)' = Progress(q) /\ cmd'[q] = cmd[q]
           /\ \/ /\ Progress(p)' = Progress(p) /\ cmd'[p].release = cmd[p].release
                 /\ Installed' = Installed
              \/ /\ Progress(p) = "idle" /\ Progress(p)' = "running" /\ Installed' = Installed
                 /\ cmd'[p].release \in 0 .. MaxRelease
              \/ /\ Progress(p) = "running" /\ Progress(p)' = "switched"
                 /\ cmd[p].release # 0 /\ cmd'[p].release = cmd[p].release
                 /\ Installed' = cmd[p].release
              \/ /\ Progress(p) \in {"running", "switched"} /\ cmd[p].release # 0
                 /\ Progress(p)' \in {"ok", "failed", "crashed"} /\ cmd'[p].release = 0
                 /\ Installed' = Installed
<1>1. /\ Exclusive /\ TypeInv /\ FlowJournals /\ NothingCaptured /\ Working /\ Installing
      /\ AllOrNothing /\ BackupsSound
  BY DEF Whole, Exclusive
<1>2. /\ Frame(p) /\ Others(p) /\ AllOrNothing'
      /\ SameInstallation \/ (Step(p) /\ Switched(p))
  BY <1>1, PartsStay, WholeStep
<1>3. SameInstallation => Installed' = Installed
  BY <1>1, <1>2, InstalledIs, InstallAssumption DEF SameInstallation
<1>4. \A q \in Processes : q # p => Progress(q)' = Progress(q) /\ cmd'[q] = cmd[q]
  BY <1>2 DEF Frame, Others, Progress, Running
<1>5. NoCommand.release = 0
  BY DEF NoCommand, Absent
<1>6. CASE Start(p)
  <2>1. pc[p] = "idle" /\ pc'[p] = "recover" /\ UNCHANGED mem /\ SameDisk
    BY <1>1, <1>6, StartMoves, StartLeaves
  <2>2. ~mem[p]["work"].committed
    BY <1>1, <2>1 DEF NothingCaptured, Fresh, Ended
  <2>3. Progress(p) = "idle" /\ Progress(p)' = "running"
    BY <2>1, <2>2 DEF Progress, Running, Ended
  <2>4. cmd'[p].release \in 0 .. MaxRelease
    BY <1>1, <1>6, StartType DEF TypeInv, TypeOK, Content
  <2>5. Installed' = Installed
    BY <1>3, <2>1, SameRecovery DEF SameInstallation
  <2>. QED  BY <1>4, <2>3, <2>4, <2>5
<1>7. CASE Crash(p)
  <2>1. Running(p) /\ pc'[p] = "crashed" /\ cmd'[p] = NoCommand /\ SameDisk
    BY <1>1, <1>7, CrashLeaves DEF Crash
  <2>2. Progress(p) \in {"running", "switched"} /\ Progress(p)' = "crashed"
    BY <2>1 DEF Progress, Running, Ended
  <2>3. cmd[p].release # 0
    BY <1>1, <2>1 DEF Installing, Absent
  <2>4. Installed' = Installed
    BY <1>3, <2>1, SameRecovery DEF SameInstallation
  <2>. QED  BY <1>4, <1>5, <2>1, <2>2, <2>3, <2>4
<1>8. CASE Step(p)
  <2>1. Running(p) /\ cmd[p].release # 0 /\ (Running(p)' => cmd'[p] = cmd[p])
    BY <1>1, <1>8, StepRuns, CommandStep DEF Installing, Absent
  <2>2. CASE Switched(p)
    <3>1. Running(p)'
      BY <2>2 DEF Switched, Running, Ended
    <3>2. Progress(p) = "running" /\ Progress(p)' = "switched"
      BY <2>1, <2>2, <3>1 DEF Progress, Switched
    <3>3. Installed' = cmd[p].release
      BY <1>2, <2>2, InstalledIs, InstallAssumption DEF Switched
    <3>. QED  BY <1>4, <2>1, <3>1, <3>2, <3>3
  <2>3. CASE ~Switched(p) /\ Running(p)'
    <3>1. Installed' = Installed
      BY <1>2, <1>3, <2>3
    <3>2. FlagKept(p)
      <4>1. CASE Commit(p) /\ scope[p] = "work"
        <5>1. UNCHANGED mem
          BY <1>1, <2>3, <4>1, CommitWork DEF Working, Switched
        <5>. QED  BY <5>1 DEF FlagKept
      <4>2. CASE ~(Commit(p) /\ scope[p] = "work")
        BY <1>1, <1>8, <4>2, FlagStep
      <4>. QED  BY <4>1, <4>2
    <3>3. Progress(p)' = Progress(p)
      BY <2>1, <2>3, <3>2 DEF Progress, FlagKept
    <3>. QED  BY <1>4, <2>1, <2>3, <3>1, <3>3
  <2>4. CASE ~Running(p)'
    <3>1. pc'[p] \in {"ok", "failed"} /\ cmd'[p] = NoCommand
      BY <1>1, <1>8, <2>4, OverStep
    <3>2. Progress(p)' \in {"ok", "failed"}
      BY <2>4, <3>1 DEF Progress
    <3>3. Progress(p) \in {"running", "switched"}
      BY <2>1 DEF Progress
    <3>4. Installed' = Installed
      BY <1>2, <1>3, <3>1 DEF Switched
    <3>. QED  BY <1>4, <1>5, <2>1, <3>1, <3>2, <3>3, <3>4
  <2>. QED  BY <2>2, <2>3, <2>4
<1>. QED  BY <1>6, <1>7, <1>8

\* The refinement mapping.
state == [q \in Processes |-> Progress(q)]
want  == [q \in Processes |-> cmd[q].release]

\* Every step is one of AtomicInstall, or changes nothing there.
LEMMA AbstractStep ==
    ASSUME (MaxCrashes = 0 /\ ~LocksStick) \/ MaxAlive = 1, "uninstall" \notin Kinds, Whole,
           [Next]_vars
    PROVE  [Abstract!Next]_Abstract!vars
<1>1. CASE UNCHANGED vars
  <2>1. Installed' = Installed
    BY <1>1 DEF vars, Installed, AllOrNothing, Recovered, Pending, Absent
  <2>. QED  BY <1>1, <2>1 DEF vars, Abstract!vars, Progress, Running
<1>2. ASSUME NEW p \in Processes, Start(p) \/ Step(p) \/ Crash(p)
      PROVE  [Abstract!Next]_Abstract!vars
  <2>1. \A q \in Processes : q # p => Progress(q)' = Progress(q) /\ cmd'[q] = cmd[q]
    BY <1>2, ProgressStep
  <2>2. /\ state' = [state EXCEPT ![p] = Progress(p)']
        /\ want' = [want EXCEPT ![p] = cmd'[p].release]
    BY <2>1 DEF state, want, Progress, Running
  <2>a. state[p] = Progress(p) /\ want[p] = cmd[p].release
    BY DEF state, want
  <2>b. state = [state EXCEPT ![p] = Progress(p)] /\ want = [want EXCEPT ![p] = cmd[p].release]
    BY <2>a DEF state, want
  <2>3. CASE /\ Progress(p)' = Progress(p) /\ cmd'[p].release = cmd[p].release
             /\ Installed' = Installed
    <3>1. state' = state /\ want' = want /\ Installed' = Installed
      BY <2>2, <2>b, <2>3
    <3>. QED  BY <3>1 DEF Abstract!vars, state, want, Progress, Running
  <2>4. CASE /\ Progress(p) = "idle" /\ Progress(p)' = "running" /\ Installed' = Installed
             /\ cmd'[p].release \in 0 .. MaxRelease
    <3>1. PICK r \in 0 .. MaxRelease : r = cmd'[p].release
      BY <2>4
    <3>2. /\ state[p] = "idle" /\ state' = [state EXCEPT ![p] = "running"]
          /\ want' = [want EXCEPT ![p] = r] /\ Installed' = Installed
      BY <2>2, <2>a, <2>4, <3>1
    <3>3. Abstract!Start(p)
      BY <3>2, Zenon DEF Abstract!Start, state, want, Progress, Running
    <3>. QED  BY <3>3 DEF Abstract!Next
  <2>5. CASE /\ Progress(p) = "running" /\ Progress(p)' = "switched"
             /\ cmd[p].release # 0 /\ cmd'[p].release = cmd[p].release
             /\ Installed' = cmd[p].release
    <3>1. /\ state[p] = "running" /\ want[p] # 0
          /\ state' = [state EXCEPT ![p] = "switched"]
          /\ Installed' = want[p] /\ want' = want
      BY <2>2, <2>a, <2>b, <2>5
    <3>2. Abstract!Switch(p)
      BY <3>1, Zenon DEF Abstract!Switch, state, want, Progress, Running
    <3>. QED  BY <3>2 DEF Abstract!Next
  <2>6. CASE /\ Progress(p) \in {"running", "switched"} /\ cmd[p].release # 0
             /\ Progress(p)' \in {"ok", "failed", "crashed"} /\ cmd'[p].release = 0
             /\ Installed' = Installed
    <3>1. PICK o \in {"ok", "failed", "crashed"} : o = Progress(p)'
      BY <2>6
    <3>2. /\ state' = [state EXCEPT ![p] = o] /\ want' = [want EXCEPT ![p] = 0]
          /\ Installed' = Installed /\ state[p] \in {"running", "switched"} /\ want[p] # 0
      BY <2>2, <2>a, <2>6, <3>1
    <3>3. Abstract!Return(p, o)
      BY <3>2, Zenon DEF Abstract!Return, state, want, Progress, Running
    <3>4. CASE o = "ok" /\ state[p] = "switched"
      BY <3>3, <3>4, Zenon DEF Abstract!Next, Abstract!Succeed, state
    <3>5. CASE o = "ok" /\ state[p] = "running"
      BY <3>2, <3>3, <3>5, Zenon DEF Abstract!Next, Abstract!NothingToDo, state, want
    <3>6. CASE o \in {"failed", "crashed"}
      BY <3>2, <3>3, <3>6, Zenon DEF Abstract!Next, Abstract!FailOrDie, state
    <3>. QED  BY <3>2, <3>4, <3>5, <3>6
  <2>. QED  BY <1>2, <2>3, <2>4, <2>5, <2>6, ProgressStep
<1>. QED  BY <1>1, <1>2 DEF Next

\* And the initial states are initial there.
LEMMA AbstractInit ==
    ASSUME Init, AllOrNothing
    PROVE  Abstract!Init
<1>1. ~Pending /\ \A q \in Processes : pc[q] = "idle" /\ cmd[q] = NoCommand
  BY Nothing DEF Init, Pending, Scopes
<1>2. \A f \in Files : Recovered(f) = tracked
  BY <1>1, RecoveredIs DEF Init
<1>3. Installed \in 0 .. MaxRelease
  BY <1>2, InstalledIs, InstallAssumption DEF Init, Content
<1>4. \A q \in Processes : Progress(q) = "idle" /\ cmd[q].release = 0
  BY <1>1 DEF Progress, Running, Ended, NoCommand, Absent
<1>. QED  BY <1>3, <1>4 DEF Abstract!Init

\* An install or an update is all or nothing: whatever crashes or fails, the
\* installation goes from one release to another in one step, at the write of the
\* commit flag, once for each command, and only on behalf of a command that runs.
THEOREM InstallIsAtomic ==
    ASSUME (MaxCrashes = 0 /\ ~LocksStick) \/ MaxAlive = 1, "uninstall" \notin Kinds
    PROVE  Spec => Atomic
<1>1. Init => Abstract!Init
  BY WholeInvariant, AbstractInit DEF Whole
<1>2. Whole /\ [Next]_vars => [Abstract!Next]_Abstract!vars
  BY AbstractStep
<1>. QED  BY <1>1, <1>2, WholeInvariant, PTL DEF Spec, Atomic, Abstract!Spec

-----------------------------------------------------------------------------
(***************************************************************************)
(* What no failed operation has disturbed.  A command that runs alone then *)
(* leaves a journal that can be rolled back, takes over the lock of a dead *)
(* one, and fails only where a lock file has no process id.                *)
(***************************************************************************)
HasBackup(t, f) == t \in Processes /\ backups["work"][t][f] # Absent

BackedUp ==
    \A f \in Files : journal["work"].undo[f] = "present" => HasBackup(journal["work"].tx, f)

\* A lock file whose process id was never written.
Wedged(s) == lock[s] # NoLock /\ ~lock[s].written

\* A process of which no operation has failed: it rolls back for one reason only.
Untroubled(p) ==
    /\ mode[p] # "close" /\ pc[p] # "restore"
    /\ mode[p] = "rollback" =>
          /\ scope[p] = "flow" /\ pc[p] \in {"undo", "drop", "sweep", "release"}
          /\ Wedged("work")
    /\ pc[p] \in {"undo", "drop", "sweep"} => mode[p] # "none"
    /\ pc[p] = "release" => mode[p] \in {"commit", "rollback"}
    /\ pc[p] = "relock" => lock[scope[p]] = NoLock
    /\ pc[p] = "undo" => ~broken[p]
    /\ pc[p] = "undo" /\ scope[p] = "work" => seen[p] = journal["work"] /\ mode[p] = "recover"
    /\ pc[p] = "sweep" /\ scope[p] = "work" => journal["work"] = NoJournal
    /\ pc[p] = "mark" /\ scope[p] = "work" => mem[p]["work"] = Planned(p)
    /\ pc[p] \in {"mutate", "record", "save", "commit"} /\ scope[p] = "work" =>
          /\ mem[p]["work"].tx = p
          /\ \A f \in Files : mem[p]["work"].undo[f] = "present" => HasBackup(p, f)
          /\ \A f \in Files : snap[p][f] \notin {Unset, Absent} => HasBackup(p, f)

Smooth == BackedUp /\ \A p \in Processes : Untroubled(p)

\* The inductive invariant: alone and without a failure, all goes smoothly.
Retriable ==
    /\ Exclusive /\ FlowJournals /\ NothingCaptured
    /\ MaxAlive = 1 /\ faults = 0 => Smooth

\* What a step has to keep; it ends in a failure only at such a lock file.
Goes(p) ==
    /\ BackedUp' /\ Untroubled(p)'
    /\ pc'[p] = "failed" => \E s \in Scopes : Wedged(s)'

\* What the steps of a process may rely on.
Ready(p) ==
    /\ TypeInv /\ LocksHeld /\ OneRuns /\ FlowJournals /\ NothingCaptured
    /\ BackedUp /\ Untroubled(p) /\ faults = 0 /\ ~Fault

\* Nothing written that BackedUp is about.
LEMMA SameBackups ==
    ASSUME BackedUp, journal'["work"] = journal["work"], backups'["work"] = backups["work"]
    PROVE  BackedUp'
<1>1. UNCHANGED Absent
  BY DEF Absent
<1>. QED  BY <1>1 DEF BackedUp, HasBackup

\* A journal that lists no file needs no backup.
LEMMA NoneListed ==
    ASSUME \A f \in Files : journal'["work"].undo[f] = "none"
    PROVE  BackedUp'
BY DEF BackedUp

\* A process that neither writes a journal nor changes files goes on.
LEMMA PlainGoes ==
    ASSUME NEW p \in Processes, Ready(p), UNCHANGED <<journal, backups, lock, scope, mode>>,
           pc'[p] \in {"lock", "inspect", "break", "open", "load", "finish", "remove"},
           mode[p] # "rollback"
    PROVE  Goes(p)
<1>1. BackedUp'
  BY SameBackups DEF Ready
<1>. QED  BY <1>1 DEF Ready, Untroubled, Goes

\* Recover: the journal is read, and its removal or its undoing begins.
LEMMA ReadGoes ==
    ASSUME NEW p \in Processes, Ready(p), ReadJournal(p)
    PROVE  Goes(p)
<1>1. /\ UNCHANGED <<journal, backups, lock>> /\ pc[p] = "recover" /\ scope[p] \in {"flow", "work"}
      /\ mode[p] \notin {"close", "rollback"} /\ pc \in [Processes -> Locations]
      /\ mode \in [Processes -> Modes] /\ seen \in [Processes -> Journals]
      /\ broken \in [Processes -> BOOLEAN] /\ scope \in [Processes -> Scopes]
  BY DEF Ready, ReadJournal, At, disk, Untroubled, TypeInv, TypeOK, Scopes, Modes
<1>2. BackedUp'
  BY <1>1, SameBackups DEF Ready
<1>3. CASE Go(p, "lock") /\ UNCHANGED <<scope, undoing>>
  BY <1>1, <1>2, <1>3 DEF Go, undoing, Untroubled, Goes
<1>4. CASE Go(p, "drop") /\ mode' = [mode EXCEPT ![p] = "discard"] /\ UNCHANGED <<scope, todo, broken>>
  BY <1>1, <1>2, <1>4 DEF Go, Untroubled, Goes
<1>5. CASE StartUndo(p, scope[p], journal[scope[p]], "recover")
  <2>1. /\ pc'[p] = "undo" /\ mode'[p] = "recover" /\ seen'[p] = journal[scope[p]]
        /\ broken'[p] = FALSE /\ scope'[p] = scope[p]
    BY <1>1, <1>5 DEF StartUndo, Go
  <2>. QED  BY <1>1, <1>2, <2>1 DEF Untroubled, Goes
<1>. QED  BY <1>3, <1>4, <1>5 DEF ReadJournal

\* rollbackFromJournal: the backup of every file it has to put back is there.
LEMMA UndoGoes ==
    ASSUME NEW p \in Processes, Ready(p), UndoFile(p)
    PROVE  Goes(p)
<1>1. /\ UNCHANGED <<journal, backups, lock, pc, scope, mode, seen, mem, snap>> /\ pc[p] = "undo"
      /\ broken \in [Processes -> BOOLEAN] /\ scope[p] \in {"flow", "work"}
      /\ todo \in [Processes -> SUBSET Files]
  BY DEF Ready, UndoFile, At, session, TypeInv, TypeOK, Scopes
<1>2. BackedUp'
  BY <1>1, SameBackups DEF Ready
<1>3. scope[p] = "work"
  BY <1>1 DEF Ready, FlowJournals, UndoFile
<1>4. PICK f \in todo[p] :
         broken' = [broken EXCEPT ![p] = @ \/ (seen[p].undo[f] = "present"
                                                 /\ backups[scope[p]][seen[p].tx][f] = Absent)]
  BY DEF UndoFile
<1>5. seen[p] = journal["work"] /\ ~broken[p]
  BY <1>1, <1>3 DEF Ready, Untroubled
<1>6. f \in Files
  BY <1>1
<1>7. ~(seen[p].undo[f] = "present" /\ backups[scope[p]][seen[p].tx][f] = Absent)
  BY <1>3, <1>5, <1>6 DEF Ready, BackedUp, HasBackup
<1>8. broken'[p] = FALSE
  BY <1>1, <1>4, <1>5, <1>7
<1>. QED  BY <1>1, <1>2, <1>8 DEF Ready, Untroubled, Goes, Wedged

\* The end of an undo, in which nothing was lost.
LEMMA UndoneGoes ==
    ASSUME NEW p \in Processes, Ready(p), Undone(p)
    PROVE  Goes(p)
<1>1. /\ UNCHANGED <<journal, backups, lock, scope, mode, mem, snap>> /\ pc[p] = "undo"
      /\ pc' = [pc EXCEPT ![p] = "drop"] /\ pc \in [Processes -> Locations]
  BY DEF Ready, Untroubled, Undone, At, Go, disk, undoing, session, TypeInv, TypeOK
<1>2. BackedUp' /\ pc'[p] = "drop"
  BY <1>1, SameBackups DEF Ready
<1>. QED  BY <1>1, <1>2 DEF Ready, Untroubled, Goes, Wedged, NoLock

\* The journal file is removed.
LEMMA DropGoes ==
    ASSUME NEW p \in Processes, Ready(p), DropJournal(p)
    PROVE  Goes(p)
<1>1. /\ UNCHANGED <<backups, lock, scope, mode, mem, snap>> /\ pc[p] = "drop"
      /\ scope[p] \in {"flow", "work"}
      /\ pc'[p] = IF mode[p] = "discard" THEN "lock" ELSE "sweep"
  BY DEF Ready, DropJournal, At, Go, undoing, session, TypeInv, TypeOK, Scopes
<1>2. /\ scope[p] = "work" => journal'["work"] = NoJournal
      /\ scope[p] = "flow" => journal'["work"] = journal["work"]
  BY <1>1 DEF Ready, DropJournal, TypeInv, TypeOK, Scopes
<1>3. BackedUp'
  <2>1. CASE scope[p] = "work"
    BY <1>2, <2>1, Nothing, NoneListed
  <2>2. CASE scope[p] = "flow"
    BY <1>1, <1>2, <2>2, SameBackups DEF Ready
  <2>. QED  BY <1>1, <2>1, <2>2
<1>4. NoJournal' = NoJournal
  BY DEF NoJournal, Planned
<1>. QED  BY <1>1, <1>2, <1>3, <1>4 DEF Ready, Untroubled, Goes, Wedged, NoLock

\* The backups are removed after the journal.
LEMMA SweepGoes ==
    ASSUME NEW p \in Processes, Ready(p), SweepBackups(p)
    PROVE  Goes(p)
<1>1. /\ UNCHANGED <<journal, lock, scope, mode, mem, snap>> /\ pc[p] = "sweep"
      /\ scope[p] \in {"flow", "work"} /\ mode[p] \in Modes /\ mode[p] # "discard"
      /\ pc'[p] = IF mode[p] = "recover" THEN "lock" ELSE "release"
  BY DEF Ready, SweepBackups, At, Go, undoing, session, TypeInv, TypeOK, Places, Scopes, Modes
<1>2. BackedUp'
  <2>1. CASE scope[p] = "work"
    <3>1. journal'["work"] = NoJournal
      BY <1>1, <2>1 DEF Ready, Untroubled
    <3>. QED  BY <3>1, Nothing, NoneListed
  <2>2. CASE scope[p] = "flow"
    <3>1. backups'["work"] = backups["work"]
      BY <2>2 DEF Ready, SweepBackups, TypeInv, TypeOK, Scopes
    <3>. QED  BY <1>1, <3>1, SameBackups DEF Ready
  <2>. QED  BY <1>1, <2>1, <2>2
<1>3. mode[p] \in {"recover", "commit", "rollback"}
  BY <1>1 DEF Ready, Untroubled, Modes
<1>. QED  BY <1>1, <1>2, <1>3 DEF Ready, Untroubled, Goes, Wedged, NoLock

\* The flow is rolled back because the lock of the nested transaction is wedged.
LEMMA RollBackGoes ==
    ASSUME NEW p \in Processes, Ready(p), UNCHANGED <<journal, backups>>,
           RollBackFlow(p), Wedged("work")'
    PROVE  Goes(p)
<1>1. BackedUp'
  BY SameBackups DEF Ready
<1>2. /\ pc'[p] = "undo" /\ scope'[p] = "flow" /\ mode'[p] = "rollback" /\ broken'[p] = FALSE
  BY DEF Ready, TypeInv, TypeOK, RollBackFlow, StartUndo, Go
<1>. QED  BY <1>1, <1>2 DEF Untroubled, Goes

\* A command that is over leaves no trouble but what is on disk.
LEMMA EndGoes ==
    ASSUME NEW p \in Processes, Ready(p), UNCHANGED <<journal, backups>>,
           NEW l \in {"ok", "failed", "crashed"}, End(p, l),
           l = "failed" => \E s \in Scopes : Wedged(s)'
    PROVE  Goes(p)
<1>1. BackedUp'
  BY SameBackups DEF Ready
<1>2. pc'[p] = l /\ mode'[p] = "none" /\ scope'[p] = "flow"
  BY EndStep, TypesSplit DEF Ready, TypeInv
<1>. QED  BY <1>1, <1>2 DEF Untroubled, Goes

\* Begin fails at a lock file without a process id.
LEMMA RefusedGoes ==
    ASSUME NEW p \in Processes, Ready(p), UNCHANGED <<journal, backups, lock>>,
           BeginFails(p), NEW s \in Scopes, s = scope[p], Wedged(s)
    PROVE  Goes(p)
<1>1. Wedged(s)'
  BY DEF Wedged, NoLock
<1>2. CASE scope[p] = "flow" /\ End(p, "failed")
  BY <1>1, <1>2, EndGoes
<1>3. CASE scope[p] = "work" /\ RollBackFlow(p)
  BY <1>1, <1>3, RollBackGoes
<1>. QED  BY <1>2, <1>3 DEF BeginFails

\* The lock file is made.
LEMMA CreateGoes ==
    ASSUME NEW p \in Processes, Ready(p), CreateLock(p), pc[p] \in {"lock", "relock"}
    PROVE  Goes(p)
<1>1. /\ UNCHANGED <<journal, backups, scope, mode>> /\ pc'[p] = "stamp" /\ mode[p] # "rollback"
      /\ mode[p] # "close"
  BY DEF Ready, Untroubled, CreateLock, Go, undoing, TypeInv, TypeOK
<1>. QED  BY <1>1, SameBackups DEF Ready, Untroubled, Goes

\* A lock file that is there when a process asks for the lock is not its own.
LEMMA OthersLock ==
    ASSUME NEW p \in Processes, Ready(p), pc[p] = "inspect",
           NEW s \in Scopes, s = scope[p], lock[s] # NoLock, ~Stale(lock[s])
    PROVE  FALSE
<1>1. Running(lock[s].by) /\ lock[s] \in Locks /\ lock[s].by # Nobody
  BY DEF Ready, Stale, TypeInv, TypeOK, LocksHeld
<1>2. PICK q \in Processes : q = lock[s].by
  BY <1>1 DEF Locks
<1>3. Running(p)
  BY DEF Running, Ended
<1>4. q = p
  BY <1>1, <1>2, <1>3 DEF Ready, OneRuns
<1>5. Holds(p, s)
  <2>1. ~(faults > 0)
    BY DEF Ready
  <2>2. lock[s].left => faults > 0
    BY Zenon DEF Ready, LocksHeld
  <2>3. Holds(p, s) \/ pc[p] = "crashed" \/ lock[s].left
    BY <1>2, <1>4, Zenon DEF Ready, LocksHeld, At
  <2>. QED  BY <2>1, <2>2, <2>3
<1>6. ~Holds(p, s)
  BY DEF Ready, Holds
<1>. QED  BY <1>5, <1>6

\* acquireLock: a lock that is refused has no process id.
LEMMA InspectGoes ==
    ASSUME NEW p \in Processes, Ready(p), InspectLock(p)
    PROVE  Goes(p)
<1>1. /\ UNCHANGED <<journal, backups, lock>> /\ pc[p] = "inspect" /\ mode[p] # "rollback"
      /\ mode[p] # "close"
  BY DEF Ready, Untroubled, InspectLock, At, disk
<1>2. PICK s \in Scopes : s = scope[p]
  BY DEF Ready, TypeInv, TypeOK
<1>3. CASE lock[s] = NoLock /\ Go(p, "relock") /\ UNCHANGED <<scope, undoing>>
  <2>1. pc'[p] = "relock" /\ UNCHANGED <<scope, mode, lock>> /\ lock'[s] = NoLock'
    BY <1>1, <1>3 DEF Ready, TypeInv, TypeOK, Go, undoing, NoLock
  <2>. QED  BY <1>1, <1>2, <2>1, SameBackups DEF Ready, Untroubled, Goes
<1>4. CASE Go(p, "break") /\ UNCHANGED <<scope, undoing>>
  <2>1. pc'[p] = "break" /\ UNCHANGED <<scope, mode>>
    BY <1>4 DEF Ready, TypeInv, TypeOK, Go, undoing
  <2>. QED  BY <1>1, <2>1, PlainGoes
<1>5. CASE lock[s] # NoLock /\ (~Stale(lock[s]) \/ ~lock[s].written) /\ BeginFails(p)
  <2>1. Wedged(s)
    BY <1>1, <1>2, <1>5, OthersLock DEF Wedged
  <2>. QED  BY <1>1, <1>2, <1>5, <2>1, RefusedGoes
<1>. QED  BY <1>2, <1>3, <1>4, <1>5 DEF InspectLock

\* The lock of a dead command is removed, and then there is none.
LEMMA BreakGoes ==
    ASSUME NEW p \in Processes, Ready(p), BreakLock(p)
    PROVE  Goes(p)
<1>1. /\ UNCHANGED <<journal, backups, scope, mode>> /\ pc'[p] = "relock"
      /\ mode[p] \notin {"rollback", "close"} /\ lock'[scope[p]] = NoLock /\ NoLock' = NoLock
  BY DEF Ready, Untroubled, BreakLock, At, Go, undoing, TypeInv, TypeOK, NoLock
<1>. QED  BY <1>1, SameBackups DEF Ready, Untroubled, Goes

\* The process id is written, and the journal opened.
LEMMA StampGoes ==
    ASSUME NEW p \in Processes, Ready(p), StampLock(p)
    PROVE  Goes(p)
<1>1. /\ UNCHANGED <<journal, backups, scope, mode>> /\ pc'[p] = "open"
      /\ mode[p] \notin {"rollback", "close"}
  BY DEF Ready, Untroubled, StampLock, At, Go, undoing, TypeInv, TypeOK
<1>. QED  BY <1>1, SameBackups DEF Ready, Untroubled, Goes

\* The new journal lists no file.
LEMMA OpenGoes ==
    ASSUME NEW p \in Processes, Ready(p), OpenJournal(p)
    PROVE  Goes(p)
<1>1. /\ UNCHANGED <<backups, scope, mode>> /\ pc'[p] = "mark" /\ scope[p] \in {"flow", "work"}
      /\ mode[p] \notin {"rollback", "close"} /\ Planned(p)' = Planned(p)
  BY DEF Ready, Untroubled, OpenJournal, At, Go, undoing, TypeInv, TypeOK, Scopes, Planned
<1>2. /\ scope[p] = "work" => journal'["work"] = Planned(p) /\ mem'[p]["work"] = Planned(p)
      /\ scope[p] = "flow" => journal'["work"] = journal["work"]
  BY DEF Ready, OpenJournal, TypeInv, TypeOK, Scopes
<1>3. BackedUp'
  BY <1>1, <1>2, PlannedType, NoneListed, SameBackups DEF Ready
<1>. QED  BY <1>1, <1>2, <1>3 DEF Untroubled, Goes

\* Nothing is captured yet when the journal is marked applied.
LEMMA MarkGoes ==
    ASSUME NEW p \in Processes, Ready(p), MarkApplied(p)
    PROVE  Goes(p)
<1>1. /\ UNCHANGED <<backups, scope, mode, snap>> /\ pc[p] = "mark" /\ scope[p] \in {"flow", "work"}
      /\ mode[p] \notin {"rollback", "close"} /\ WriteApplied(p)
      /\ pc'[p] = IF scope[p] = "flow" THEN "load" ELSE "mutate"
  BY DEF Ready, Untroubled, MarkApplied, At, Go, TypeInv, TypeOK, Scopes
<1>2. /\ scope[p] = "flow" => journal'["work"] = journal["work"]
      /\ scope[p] = "work" =>
            /\ journal'["work"] = mem'[p]["work"] /\ mem'[p]["work"].tx = p
            /\ mem'[p]["work"].undo = mem[p]["work"].undo
  BY <1>1, AppliedWritten DEF Ready, Scopes
<1>3. \A f \in Files : snap'[p][f] = Unset /\ Unset' = Unset
  BY <1>1 DEF Ready, NothingCaptured, Fresh, Unset
<1>4. CASE scope[p] = "flow"
  BY <1>1, <1>2, <1>4, SameBackups DEF Ready, Untroubled, Goes
<1>5. CASE scope[p] = "work"
  <2>1. mem[p]["work"] = Planned(p)
    BY <1>1, <1>5 DEF Ready, Untroubled
  <2>2. \A f \in Files : mem'[p]["work"].undo[f] = "none"
    BY <1>2, <1>5, <2>1, PlannedType
  <2>3. BackedUp'
    BY <1>2, <1>5, <2>2, NoneListed
  <2>. QED  BY <1>1, <1>2, <1>3, <1>5, <2>2, <2>3 DEF Untroubled, Goes
<1>. QED  BY <1>1, <1>4, <1>5

\* The steps by which a command goes on without touching its transaction.
LEMMA MoveOnGoes ==
    ASSUME NEW p \in Processes, Ready(p),
           Load(p) \/ ClearTracked(p) \/ RemoveFile(p)
    PROVE  Goes(p)
<1>1. /\ UNCHANGED <<journal, backups, lock, mode>> /\ pc[p] \in {"load", "remove"}
      /\ mode[p] \notin {"rollback", "close"}
  BY DEF Ready, Untroubled, Load, ClearTracked, RemoveFile, At, disk, undoing
<1>2. pc'[p] \in {"recover", "finish", "remove"}
  BY <1>1 DEF Ready, Load, ClearTracked, RemoveFile, At, Go, TypeInv, TypeOK, undoing
<1>. QED  BY <1>1, <1>2, SameBackups DEF Ready, Untroubled, Goes

\* CaptureFile: the backup is there before anything says that it is.
LEMMA CaptureGoes ==
    ASSUME NEW p \in Processes, Ready(p), Capture(p)
    PROVE  Goes(p)
<1>1. PICK f \in Files :
         /\ f \in todo[p] /\ snap[p][f] = Unset /\ files[f] \in Content
         /\ snap'[p][f] = files[f] /\ \A g \in Files : g # f => snap'[p][g] = snap[p][g]
         /\ pc'[p] = "record" /\ backups' = Backup(p, f)
         /\ UNCHANGED <<lock, journal, mem, scope, mode>>
  BY CaptureStep DEF Ready, TypeInv
<1>2. pc[p] = "mutate" /\ scope[p] = "work"
  BY DEF Ready, Capture, At, TypeInv, Places
<1>3. /\ backups \in [Scopes -> [Processes -> [Files -> Content]]] /\ "work" \in Scopes
      /\ Absent' = Absent /\ Unset' = Unset
  BY DEF Ready, TypeInv, TypeOK, Scopes, Absent, Unset
<1>4. \A t, g : g \in Files /\ HasBackup(t, g) => HasBackup(t, g)'
  <2>1. CASE backups' = backups
    BY <1>3, <2>1 DEF HasBackup
  <2>2. CASE files[f] # Absent /\ backups' = [backups EXCEPT !["work"][p][f] = files[f]]
    BY <1>1, <1>3, <2>2 DEF HasBackup
  <2>. QED  BY <1>1, <2>1, <2>2 DEF Backup
<1>5. files[f] # Absent => HasBackup(p, f)'
  BY <1>1, <1>3 DEF HasBackup, Backup
<1>6. BackedUp'
  BY <1>1, <1>4 DEF Ready, BackedUp
<1>7. /\ mem[p]["work"].tx = p
      /\ \A g \in Files : mem[p]["work"].undo[g] = "present" => HasBackup(p, g)
      /\ \A g \in Files : snap[p][g] \notin {Unset, Absent} => HasBackup(p, g)
      /\ mode[p] \notin {"rollback", "close"}
  BY <1>2 DEF Ready, Untroubled
<1>8. \A g \in Files : snap'[p][g] \notin {Unset', Absent'} => HasBackup(p, g)'
  BY <1>1, <1>3, <1>4, <1>5, <1>7
<1>9. \A g \in Files : mem'[p]["work"].undo[g] = "present" => HasBackup(p, g)'
  BY <1>1, <1>4, <1>7
<1>. QED  BY <1>1, <1>2, <1>6, <1>7, <1>8, <1>9 DEF Untroubled, Goes

\* OnSnapshot: a record is written for what has been captured.
LEMMA RecordGoes ==
    ASSUME NEW p \in Processes, Ready(p), Record(p)
    PROVE  Goes(p)
<1>1. /\ UNCHANGED <<backups, lock, snap, scope, mode>> /\ pc[p] = "record" /\ scope[p] = "work"
      /\ pc'[p] = "mutate" /\ mode[p] \notin {"rollback", "close"}
      /\ mem'[p]["work"] = Recorded(p) /\ journal'["work"] = Recorded(p)
      /\ Absent' = Absent /\ Unset' = Unset
  BY DEF Ready, Untroubled, Record, At, Go, undoing, TypeInv, TypeOK, Places, Scopes, Absent, Unset
<1>2. /\ mem[p]["work"].tx = p
      /\ \A f \in Files : snap[p][f] \notin {Unset, Absent} => HasBackup(p, f)
  BY <1>1 DEF Ready, Untroubled
<1>3. /\ Recorded(p).tx = p
      /\ \A f \in Files : Recorded(p).undo[f] = RecordOf(snap[p][f])
  BY <1>2, RecordedType, TypesSplit DEF Ready, TypeInv
<1>4. \A f \in Files : Recorded(p).undo[f] = "present" => HasBackup(p, f)'
  BY <1>1, <1>2, <1>3 DEF RecordOf, HasBackup
<1>5. \A f \in Files : snap'[p][f] \notin {Unset', Absent'} => HasBackup(p, f)'
  BY <1>1, <1>2 DEF HasBackup
<1>6. BackedUp'
  BY <1>1, <1>3, <1>4 DEF BackedUp
<1>. QED  BY <1>1, <1>3, <1>4, <1>5, <1>6 DEF Untroubled, Goes

\* The files are written, and tracked.json is saved.
LEMMA WriteGoes ==
    ASSUME NEW p \in Processes, Ready(p), WriteFile(p) \/ Mutated(p) \/ SaveTracked(p)
    PROVE  Goes(p)
<1>1. /\ UNCHANGED <<journal, backups, mem, snap, lock, scope, mode>> /\ scope[p] = "work"
      /\ pc[p] \in {"mutate", "save"} /\ pc'[p] \in {"mutate", "save", "commit"}
      /\ Absent' = Absent /\ Unset' = Unset
  BY DEF Ready, WriteFile, Mutated, SaveTracked, At, Go, disk, undoing, session,
         TypeInv, TypeOK, Places, Absent, Unset
<1>2. BackedUp'
  BY <1>1, SameBackups DEF Ready
<1>. QED  BY <1>1, <1>2 DEF Ready, Untroubled, HasBackup, Goes

\* The commit flag is written.
LEMMA CommitGoes ==
    ASSUME NEW p \in Processes, Ready(p), Commit(p)
    PROVE  Goes(p)
<1>1. /\ UNCHANGED <<backups, lock, snap, scope>> /\ pc[p] = "commit" /\ scope[p] \in {"flow", "work"}
      /\ pc'[p] = "drop" /\ mode'[p] = "commit" /\ Committed(p, scope[p])
  BY DEF Ready, Untroubled, Commit, Committed, At, Go, TypeInv, TypeOK, Scopes
<1>2. PICK s \in Scopes : s = scope[p]
  BY <1>1 DEF Scopes
<1>3. Committed(p, s)
  BY <1>1, <1>2
<1>4. CASE scope[p] = "flow"
  <2>1. journal'["work"] = journal["work"]
    BY <1>2, <1>3, <1>4, CommitWritten DEF Ready, Scopes
  <2>. QED  BY <1>1, <2>1, SameBackups DEF Ready, Untroubled, Goes
<1>5. CASE scope[p] = "work"
  <2>1. journal'["work"].undo = mem[p]["work"].undo /\ journal'["work"].tx = mem[p]["work"].tx
    BY <1>2, <1>3, <1>5, CommitWritten DEF Ready
  <2>2. /\ mem[p]["work"].tx = p
        /\ \A f \in Files : mem[p]["work"].undo[f] = "present" => HasBackup(p, f)
    BY <1>1, <1>5 DEF Ready, Untroubled
  <2>3. BackedUp'
    BY <1>1, <2>1, <2>2 DEF BackedUp, HasBackup, Absent
  <2>. QED  BY <1>1, <2>3 DEF Untroubled, Goes
<1>. QED  BY <1>1, <1>4, <1>5

\* The flow is about to be committed.
LEMMA FinishGoes ==
    ASSUME NEW p \in Processes, Ready(p), Finish(p)
    PROVE  Goes(p)
<1>1. /\ UNCHANGED <<backups, scope, mode>> /\ pc[p] = "finish" /\ scope[p] = "flow"
      /\ pc'[p] = "commit" /\ WriteApplied(p) /\ mode[p] \notin {"rollback", "close"}
  BY DEF Ready, Untroubled, Finish, At, Go, undoing, TypeInv, TypeOK, Places
<1>2. journal'["work"] = journal["work"]
  BY <1>1, AppliedWritten DEF Ready, Scopes
<1>. QED  BY <1>1, <1>2, SameBackups DEF Ready, Untroubled, Goes

\* The lock is given up: the command failed only where it met a wedged one.
LEMMA ReleaseGoes ==
    ASSUME NEW p \in Processes, Ready(p), ReleaseLock(p)
    PROVE  Goes(p)
<1>1. /\ UNCHANGED <<journal, backups>> /\ pc[p] = "release" /\ mode[p] \in {"commit", "rollback"}
      /\ mode[p] = "rollback" => scope[p] = "flow" /\ Wedged("work")
      /\ lock' = [lock EXCEPT ![scope[p]] = NoLock] /\ scope[p] \in {"flow", "work"}
  BY DEF Ready, Untroubled, ReleaseLock, Freed, At, TypeInv, TypeOK, Scopes
<1>2. CASE scope[p] = "work"
  <2>1. pc'[p] = "finish" /\ scope'[p] = "flow" /\ mode'[p] = "commit"
    BY <1>1, <1>2 DEF Ready, ReleaseLock, Go, undoing, TypeInv, TypeOK
  <2>. QED  BY <1>1, <2>1, SameBackups DEF Ready, Untroubled, Goes
<1>3. CASE scope[p] = "flow"
  <2>1. lock'["work"] = lock["work"] /\ "work" \in Scopes
    BY <1>1, <1>3 DEF Ready, TypeInv, TypeOK, Scopes
  <2>2. mode[p] # "commit" => Wedged("work")'
    BY <1>1, <2>1 DEF Wedged, NoLock
  <2>3. End(p, IF mode[p] = "commit" THEN "ok" ELSE "failed")
    BY <1>3 DEF ReleaseLock
  <2>. QED  BY <1>1, <2>1, <2>2, <2>3, EndGoes
<1>. QED  BY <1>1, <1>2, <1>3

\* A step of a process of which no operation has failed.
LEMMA StepGoes ==
    ASSUME NEW p \in Processes, Ready(p), Step(p)
    PROVE  Goes(p)
<1>1. /\ ~UndoFails(p) /\ ~LoadFails(p) /\ ~MutationFails(p) /\ ~RemovalFails(p)
      /\ ~RestoreFile(p) /\ ~Restored(p) /\ ~JournalUnreadable(p) /\ ~RecoveryFails(p)
  BY DEF Ready, Untroubled, UndoFails, LoadFails, MutationFails, RemovalFails, RestoreFile,
         Restored, JournalUnreadable, RecoveryFails, At
<1>2. CASE TryLock(p)
  <2>1. CASE CreateLock(p)
    BY <1>2, <2>1, CreateGoes DEF TryLock, At
  <2>2. CASE Go(p, "inspect") /\ UNCHANGED <<disk, scope, undoing>> /\ pc[p] = "lock"
    BY <2>2, PlainGoes DEF Ready, Untroubled, Go, disk, undoing, TypeInv, TypeOK
  <2>. QED  BY <1>2, <2>1, <2>2 DEF TryLock, At, Ready
<1>3. CASE Relock(p)
  <2>1. lock[scope[p]] = NoLock /\ pc[p] = "relock"
    BY <1>3 DEF Relock, At, Ready, Untroubled
  <2>. QED  BY <1>3, <2>1, CreateGoes DEF Relock, Ready
<1>. QED
  BY <1>1, <1>2, <1>3, ReadGoes, UndoGoes, UndoneGoes, DropGoes, SweepGoes, InspectGoes,
     BreakGoes, StampGoes, OpenGoes, MarkGoes, MoveOnGoes, CaptureGoes, RecordGoes,
     WriteGoes, CommitGoes, FinishGoes, ReleaseGoes
     DEF Step

\* A process that is not under way is not troubled by what others do.
LEMMA OthersUntroubled ==
    ASSUME NEW p \in Processes, Frame(p), OneRuns, Running(p),
           NEW q \in Processes, q # p, Untroubled(q)
    PROVE  Untroubled(q)'
<1>1. pc[q] \in Ended
  BY DEF OneRuns, Running
<1>2. pc'[q] = pc[q] /\ scope'[q] = scope[q] /\ mode'[q] = mode[q]
  BY DEF Frame
<1>. QED  BY <1>1, <1>2 DEF Untroubled, Ended

\* Where nothing has failed, nothing fails in the step.
LEMMA FaultsGrow ==
    ASSUME TypeInv, NEW p \in Processes, Start(p) \/ Step(p) \/ Crash(p), faults' = 0
    PROVE  faults = 0 /\ ~Fault
<1>1. faults \in Nat
  BY InstallAssumption DEF TypeInv, TypeOK
<1>. QED  BY <1>1, FaultsStay DEF Fault

\* Every step of a command that runs alone, and of which nothing has failed.
LEMMA SmoothStep ==
    ASSUME MaxAlive = 1, Retriable, NEW p \in Processes, Start(p) \/ Step(p) \/ Crash(p),
           faults' = 0
    PROVE  Smooth' /\ \A q \in Processes :
                         pc[q] # "failed" /\ pc'[q] = "failed" => \E s \in Scopes : Wedged(s)'
<1>1. /\ TypeInv /\ LocksHeld /\ OneRuns /\ FlowJournals /\ NothingCaptured /\ Smooth
      /\ faults = 0 /\ ~Fault
  BY FaultsGrow DEF Retriable, Exclusive
<1>2. Ready(p)
  BY <1>1 DEF Ready, Smooth
<1>3. CASE Start(p)
  <2>1. /\ UNCHANGED <<journal, backups, lock, scope, mode, snap, mem, seen, broken>>
        /\ pc[p] = "idle" /\ pc'[p] = "recover" /\ Frame(p)
    BY <1>1, <1>3, StartMoves DEF Start, disk, undoing, LocksMoved
  <2>2. BackedUp'
    BY <1>1, <2>1, SameBackups DEF Smooth
  <2>3. ASSUME NEW q \in Processes PROVE Untroubled(q)'
    <3>1. Untroubled(q) /\ NoLock' = NoLock /\ NoJournal' = NoJournal
      BY <1>1 DEF Smooth, NoLock, NoJournal, Planned
    <3>2. Planned(q)' = Planned(q) /\ Absent' = Absent /\ Unset' = Unset
      BY DEF Planned, Absent, Unset
    <3>3. Wedged("work")' = Wedged("work") /\ \A f \in Files : HasBackup(q, f)' = HasBackup(q, f)
      BY <2>1, <3>1, <3>2 DEF Wedged, HasBackup
    <3>4. q # p => pc'[q] = pc[q]
      BY <2>1 DEF Frame
    <3>. QED  BY <2>1, <3>1, <3>2, <3>3, <3>4 DEF Untroubled
  <2>. QED  BY <2>1, <2>2, <2>3 DEF Smooth, Frame
<1>4. ASSUME Goes(p), Frame(p), Running(p)
      PROVE  Smooth' /\ \A q \in Processes :
                  pc[q] # "failed" /\ pc'[q] = "failed" => \E s \in Scopes : Wedged(s)'
  <2>1. \A q \in Processes : q # p => Untroubled(q)'
    BY <1>1, <1>4, OthersUntroubled DEF Smooth
  <2>. QED  BY <1>4, <2>1 DEF Smooth, Goes, Frame
<1>5. CASE Step(p)
  BY <1>1, <1>2, <1>4, <1>5, StepGoes, StepMoves, StepRuns DEF LocksMoved
<1>6. CASE Crash(p)
  <2>1. Frame(p) /\ Running(p) /\ End(p, "crashed") /\ UNCHANGED <<journal, backups>>
    BY <1>1, <1>6, CrashMoves DEF Crash, disk
  <2>. QED  BY <1>2, <1>4, <2>1, EndGoes
<1>. QED  BY <1>3, <1>5, <1>6

\* Retriable is inductive.
LEMMA RetriableInvariant ==
    /\ Init => Retriable
    /\ Retriable /\ [Next]_vars => Retriable'
<1>1. ASSUME Init PROVE Retriable
  <2>1. /\ journal["work"] = NoJournal /\ \A s \in Scopes : journal[s] = NoJournal
        /\ \A q \in Processes : /\ pc[q] = "idle" /\ scope[q] = "flow" /\ mode[q] = "none"
                                /\ \A s \in Scopes : mem[q][s] = NoJournal
                                /\ \A f \in Files : snap[q][f] = Unset
    BY <1>1 DEF Init, Scopes
  <2>2. FlowJournals /\ NothingCaptured
    BY <2>1, Nothing DEF FlowJournals, NothingCaptured, Scopes
  <2>3. BackedUp
    BY <2>1, Nothing DEF BackedUp
  <2>4. \A q \in Processes : Untroubled(q)
    BY <2>1 DEF Untroubled
  <2>. QED  BY <1>1, <2>2, <2>3, <2>4, ExclusiveInvariant DEF Retriable, Smooth
<1>2. ASSUME Retriable, NEW p \in Processes, Start(p) \/ Step(p) \/ Crash(p) PROVE Retriable'
  <2>1. Exclusive'
    BY <1>2, ExclusiveInvariant DEF Retriable, Next
  <2>2. FlowJournals' /\ NothingCaptured'
    BY <1>2, JournalsStay DEF Retriable, Exclusive
  <2>3. MaxAlive = 1 /\ faults' = 0 => Smooth'
    BY <1>2, SmoothStep
  <2>. QED  BY <2>1, <2>2, <2>3 DEF Retriable
<1>3. ASSUME Retriable, UNCHANGED vars PROVE Retriable'
  <2>1. Exclusive'
    BY <1>3, ExclusiveInvariant DEF Retriable
  <2>2. FlowJournals' /\ NothingCaptured'
    BY <1>3 DEF Retriable, vars, FlowJournals, NothingCaptured, Fresh, Unset
  <2>3. ASSUME Smooth PROVE Smooth'
    <3>1. BackedUp'
      BY <1>3, <2>3, SameBackups DEF Smooth, vars
    <3>2. ASSUME NEW q \in Processes PROVE Untroubled(q)'
      <4>1. Untroubled(q) /\ NoLock' = NoLock /\ NoJournal' = NoJournal
        BY <2>3 DEF Smooth, NoLock, NoJournal, Planned
      <4>2. Planned(q)' = Planned(q) /\ Absent' = Absent /\ Unset' = Unset
        BY DEF Planned, Absent, Unset
      <4>. QED  BY <1>3, <4>1, <4>2 DEF Untroubled, Wedged, HasBackup, vars
    <3>. QED  BY <3>1, <3>2 DEF Smooth
  <2>. QED  BY <1>3, <2>1, <2>2, <2>3 DEF Retriable, vars
<1>. QED  BY <1>1, <1>2, <1>3 DEF Next

\* A crash wedges no later command: run alone and with no operation failing, a
\* command fails only at a lock file whose process id was never written.  This needs
\* no condition: uninstallations and any number of crashes are covered.
THEOREM CrashesWedgeNothing == Spec => RetriesSucceed
<1>. DEFINE Sound == \A p \in Processes :
          MaxAlive = 1 /\ faults' = 0 /\ ~At(p, "failed") /\ At(p, "failed")' =>
              \E s \in Scopes : lock'[s] # NoLock /\ ~lock'[s].written
<1>1. ASSUME Retriable, NEW p \in Processes, Start(p) \/ Step(p) \/ Crash(p) PROVE Sound
  BY <1>1, SmoothStep DEF At, Wedged, NoLock
<1>2. ASSUME UNCHANGED vars PROVE Sound
  BY <1>2 DEF vars, At
<1>3. Retriable /\ [Next]_vars => [Sound]_vars
  BY <1>1, <1>2 DEF Next
<1>. QED  BY <1>3, RetriableInvariant, PTL DEF Spec, RetriesSucceed
=============================================================================
