----------------------------- MODULE TrackedScopes -----------------------------
(***************************************************************************)
(* What the installer leaves in a user's files and what it remembers of    *)
(* it: install, update and uninstall of the global scope and of local      *)
(* roots, which share tracked.json.  A command loads all of it at its      *)
(* start, changes the files of its own scope, and writes all of it at its  *)
(* end (global_flow.go, local_flow.go, internal/state, internal/config).   *)
(*                                                                         *)
(* A place is a file mcp.json: that of a target of the global scope or of  *)
(* a local root; a target has a settings.json too.  Of each the entry of   *)
(* the program is modelled.  All roots lie in one git repository and share *)
(* its ignore files.  Each release ships one agent file of its own.  The   *)
(* transaction that a command runs in is module InstallTxn; here it is a   *)
(* journal with the files as they were, which is rolled back at once.      *)
(***************************************************************************)
EXTENDS Naturals, FiniteSets

CONSTANTS
    Roots,          \* directories with a local install
    Targets,        \* editors that a global install can configure
    DefaultTarget,  \* the one an update configures when none is tracked
    MaxRelease,     \* the latest release, to which an update goes
    Overlap,        \* whether a global and a local command run together
    KeepTargets,    \* whether a global install names all targets tracked so far
    RerunFirst,     \* whether a crashed command is run again before any other of its class
    CommitFails,    \* whether a command may end between saving tracked.json and committing
    MaxCommands,    \* commands that are run
    MaxEvents       \* changes by the user, operations that fail, commands that die

ASSUME ScopesAssumption ==
    /\ DefaultTarget \in Targets
    /\ Roots \intersect Targets = {}
    /\ {"global", "agents", "exclude", "gitignore"} \intersect (Roots \union Targets) = {}
    /\ {Overlap, KeepTargets, RerunFirst, CommitFails} \subseteq BOOLEAN
    /\ MaxRelease \in Nat \ {0}
    /\ {MaxCommands, MaxEvents} \subseteq Nat

VARIABLES
    tracked,   \* tracked.json: the record of each scope
    mcp,       \* the entry artifact-mcp of each place
    settings,  \* targets whose settings.json lists the agents directory
    ignored,   \* roots whose line each ignore file holds
    agents,    \* agent files present in each scope, by release
    journal,   \* the transaction of each scope that is not committed
    cmd,       \* the command under way in each class
    own,       \* what the user's files would hold without the program
    left       \* commands and events still to come

vars == <<tracked, mcp, settings, ignored, agents, journal, cmd, own, left>>
files == <<mcp, settings, ignored, agents>>

Places   == Roots \union Targets
Scopes   == Roots \union {"global"}
Classes  == {"local", "global"}
Releases == 1 .. MaxRelease
Values   == {"none", "user", "ours"}

\* Personal installs hide their files in .git/info/exclude, team installs the
\* binaries in .gitignore.
Modes == {"personal", "team"}
IgnoreFile(mode) == IF mode = "team" THEN "gitignore" ELSE "exclude"
IgnoreFiles == {"exclude", "gitignore"}

\* A record: the agent files it owns, for each place the value that mcp.json had
\* before ("untouched": no edit), the settings and the ignore lines it added.
NoRecord ==
    [on |-> FALSE, rel |-> 0, mode |-> "personal", binaryOnly |-> FALSE, files |-> {},
     mcp |-> [p \in Places |-> "untouched"], settings |-> {}, ignore |-> {}]

NoJournal == [open |-> FALSE, touched |-> {}, old |-> <<>>]

Idle == [pc |-> "idle", kind |-> "none", scope |-> "global", mode |-> "personal",
         rel |-> 0, todo |-> {}, mem |-> <<>>, prev |-> NoRecord, next |-> NoRecord]

Init ==
    /\ tracked = [s \in Scopes |-> NoRecord]
    /\ \E team \in SUBSET Roots, user \in SUBSET Targets :
          /\ Cardinality(team) <= 1 /\ Cardinality(user) <= 1
          /\ mcp = [p \in Places |-> IF p \in team THEN "ours"
                                     ELSE IF p \in user THEN "user" ELSE "none"]
          /\ settings = user
          /\ ignored = [f \in IgnoreFiles |-> IF f = "gitignore" THEN team ELSE {}]
          /\ agents = [s \in Scopes |-> IF s \in team THEN {1} ELSE {}]
    /\ journal = [s \in Scopes |-> NoJournal]
    /\ cmd = [c \in Classes |-> Idle]
    /\ own = [mcp |-> mcp, settings |-> settings, ignored |-> ignored, agents |-> agents]
    /\ left = [commands |-> MaxCommands, events |-> MaxEvents]

-----------------------------------------------------------------------------
Busy(c)  == cmd[c].pc # "idle"
At(c, l) == cmd[c].pc = l
Go(c, l) == cmd' = [cmd EXCEPT ![c].pc = l]
End(c)   == cmd' = [cmd EXCEPT ![c] = Idle]
Use(k)   == left[k] > 0 /\ left' = [left EXCEPT ![k] = @ - 1]
ClassOf(s) == IF s = "global" THEN "global" ELSE "local"
PlacesOf(s) == IF s = "global" THEN Targets ELSE {s}
Quiet    == \A c \in Classes : ~Busy(c)

TypeOK ==
    /\ \A s \in Scopes :
          /\ tracked[s].files \subseteq Releases /\ tracked[s].mode \in Modes
          /\ \A p \in Places : tracked[s].mcp[p] # "untouched" => p \in PlacesOf(s)
          /\ tracked[s].ignore \subseteq IgnoreFiles
          /\ tracked[s].settings \subseteq Targets
          /\ ~tracked[s].on => tracked[s] = NoRecord
          /\ agents[s] \subseteq Releases
    /\ mcp \in [Places -> Values] /\ own.mcp \in [Places -> Values]
    /\ settings \subseteq Targets /\ ignored \in [IgnoreFiles -> SUBSET Roots]

\* What is left of a change when the transaction of scope s is rolled back: every
\* file it touched is as it was, the ignore file with the lines of all roots.
RollBack(s) ==
    LET j == journal[s]  old == j.old IN
    /\ agents' = [agents EXCEPT ![s] = IF "agents" \in j.touched THEN old.agents[s] ELSE @]
    /\ mcp' = [p \in Places |-> IF p \in j.touched THEN old.mcp[p] ELSE mcp[p]]
    /\ settings' = {t \in Targets : t \in IF t \in j.touched THEN old.settings ELSE settings}
    /\ ignored' = [f \in IgnoreFiles |->
                      IF f \in j.touched THEN old.ignored[f] ELSE ignored[f]]

Touch(s, what) == journal' = [journal EXCEPT ![s].touched = @ \union what]

-----------------------------------------------------------------------------
(***************************************************************************)
(* The beginning of a command.  The lock of its class (global-flow,        *)
(* local-flow) is held to its end.                                         *)
(***************************************************************************)
Invoke(s, k) ==
    LET c == ClassOf(s) IN
    /\ ~Busy(c)
    /\ Overlap \/ Quiet
    /\ RerunFirst => \A x \in Scopes : ClassOf(x) = c /\ journal[x].open => s = x /\ k = "install"
    /\ Use("commands")
    /\ \E m \in Modes, r \in Releases :
          /\ s = "global" \/ k # "install" => m = "personal"
          /\ k # "install" => r = MaxRelease
          /\ cmd' = [cmd EXCEPT ![c] =
                        [Idle EXCEPT !.pc = "load", !.kind = k, !.scope = s,
                                     !.mode = m, !.rel = r]]
    /\ UNCHANGED <<tracked, files, journal, own>>

\* A root where the team's files are set up already: only the binaries are left to
\* install (DetectExistingTeamLocalSetup).
DetectTeam(r) == r \in ignored["gitignore"] /\ agents[r] # {} /\ mcp[r] = "ours"

\* The record a local command will write, as far as it is known at its start.
LocalStart(r, k, mode, prev) ==
    LET m == IF k = "update" THEN prev.mode ELSE mode IN
    [prev EXCEPT
        !.on = TRUE, !.mode = m,
        !.binaryOnly = IF prev.on /\ (k = "update" \/ m = "team") THEN prev.binaryOnly
                       ELSE m = "team" /\ DetectTeam(r)]

\* The targets of a global update: those that are tracked, or the default one.
UpdateTargets(prev) ==
    LET known == {t \in Targets : prev.mcp[t] # "untouched"} IN
    IF known = {} THEN {DefaultTarget} ELSE known

InstallTargets(prev) ==
    {ts \in (SUBSET Targets) \ {{}} :
        KeepTargets => {t \in Targets : prev.mcp[t] # "untouched"} \subseteq ts}

\* A local update or uninstall with no record of the root ends, a global uninstall
\* without a tracked.json, and a global update that has the latest release already.
NothingToDo(c) ==
    LET s == cmd[c].scope  prev == tracked[s]  k == cmd[c].kind IN
    \/ k \in {"update", "uninstall"} /\ s # "global" /\ ~prev.on
    \/ k = "uninstall" /\ \A x \in Scopes : ~tracked[x].on
    \/ k = "update" /\ s = "global" /\ prev.on /\ prev.rel = cmd[c].rel

Load(c) ==
    LET s == cmd[c].scope  prev == tracked[s]  k == cmd[c].kind IN
    /\ At(c, "load")
    /\ \/ NothingToDo(c) /\ End(c)
       \/ /\ ~NothingToDo(c) /\ k = "uninstall"
          /\ cmd' = [cmd EXCEPT ![c] = [@ EXCEPT !.pc = "remove", !.mem = tracked, !.prev = prev]]
       \/ /\ ~NothingToDo(c) /\ k # "uninstall" /\ s # "global"
          /\ cmd' = [cmd EXCEPT ![c] = [@ EXCEPT
                        !.pc = "begin", !.mem = tracked, !.prev = prev, !.todo = {s},
                        !.next = LocalStart(s, k, cmd[c].mode, prev)]]
       \/ /\ ~NothingToDo(c) /\ k # "uninstall" /\ s = "global"
          /\ \E ts \in IF k = "update" THEN {UpdateTargets(prev)} ELSE InstallTargets(prev) :
                cmd' = [cmd EXCEPT ![c] = [@ EXCEPT
                           !.pc = "begin", !.mem = tracked, !.prev = prev, !.todo = ts,
                           !.next = [NoRecord EXCEPT !.on = TRUE]]]
    /\ UNCHANGED <<tracked, files, journal, own, left>>

-----------------------------------------------------------------------------
(***************************************************************************)
(* Install and update.                                                     *)
(***************************************************************************)
\* Begin first rolls back what a crashed command of this scope left.
Begin(c) ==
    LET s == cmd[c].scope IN
    /\ At(c, "begin")
    /\ RollBack(s)
    /\ journal' = [journal EXCEPT ![s] =
                      [open |-> TRUE, touched |-> {},
                       old |-> [agents |-> agents', mcp |-> mcp', settings |-> settings',
                                ignored |-> ignored']]]
    /\ Go(c, "agents")
    /\ UNCHANGED <<tracked, own, left>>

\* Mutation: a local install forgets the files of the one before it.
OwnedForgetful(c) == {cmd[c].rel}

\* The agent files of the new record.  An update removes those of the old one, a
\* local install keeps them.
Owned(c) ==
    LET new == IF cmd[c].next.binaryOnly THEN {} ELSE {cmd[c].rel} IN
    IF cmd[c].kind = "install" /\ cmd[c].scope # "global"
    THEN new \union cmd[c].prev.files ELSE new

Extract(c) ==
    LET s == cmd[c].scope  bare == cmd[c].next.binaryOnly IN
    /\ At(c, "agents")
    /\ agents' = [agents EXCEPT ![s] = IF bare THEN @ ELSE @ \union {cmd[c].rel}]
    /\ Touch(s, IF bare THEN {} ELSE {"agents"})
    /\ cmd' = [cmd EXCEPT ![c] = [@ EXCEPT
                  !.pc = IF bare THEN "ignore" ELSE "edit",
                  !.next = [cmd[c].next EXCEPT !.rel = cmd[c].rel, !.files = Owned(c)]]]
    /\ UNCHANGED <<tracked, mcp, settings, ignored, own, left>>

\* Mutation: the value that is there now is taken for the user's.
BaselineNow(prev, p) == mcp[p]

\* What mcp.json held before the first of the edits that are still in force.
Baseline(prev, p) == IF prev.mcp[p] # "untouched" THEN prev.mcp[p] ELSE mcp[p]

\* ApplySettingsEdit: an entry is the program's when it added it now or before.
Added(prev, t) == t \notin settings \/ t \in prev.settings

Edit(c) ==
    LET s == cmd[c].scope  prev == cmd[c].prev  next == cmd[c].next IN
    /\ At(c, "edit")
    /\ \E p \in cmd[c].todo :
          /\ mcp' = [mcp EXCEPT ![p] = "ours"]
          /\ settings' = IF p \in Targets THEN settings \union {p} ELSE settings
          /\ Touch(s, cmd[c].todo)
          /\ cmd' = [cmd EXCEPT ![c] = [@ EXCEPT
                !.todo = cmd[c].todo \ {p},
                !.pc = IF cmd[c].todo = {p} THEN "stale" ELSE "edit",
                !.next = [next EXCEPT
                    !.mcp[p] = Baseline(prev, p),
                    !.settings = IF p \in Targets /\ Added(prev, p)
                                 THEN next.settings \union {p} ELSE next.settings]]]
    /\ UNCHANGED <<tracked, ignored, agents, own, left>>

\* Agent files that only the old record owns are removed by an update.
RemoveStale(c) ==
    LET s == cmd[c].scope
        stale == IF cmd[c].kind = "update" THEN cmd[c].prev.files \ {cmd[c].rel} ELSE {} IN
    /\ At(c, "stale")
    /\ agents' = [agents EXCEPT ![s] = @ \ stale]
    /\ Go(c, IF s = "global" THEN "save" ELSE "ignore")
    /\ UNCHANGED <<tracked, mcp, settings, ignored, journal, own, left>>

\* MergeIgnoreEdits.
Merged(prev, added) == prev.ignore \union added

\* ApplyLocalIgnoreRules: an install appends the line that is missing; an update
\* keeps the record only.
Ignore(c) ==
    LET r == cmd[c].scope  n == cmd[c].next
        f == IgnoreFile(n.mode)
        new == IF cmd[c].kind = "install" /\ r \notin ignored[f] THEN {f} ELSE {} IN
    /\ At(c, "ignore")
    /\ ignored' = [g \in IgnoreFiles |->
                      IF g \in new THEN ignored[g] \union {r} ELSE ignored[g]]
    /\ Touch(r, IF cmd[c].kind = "install" THEN {f} ELSE {})
    /\ cmd' = [cmd EXCEPT ![c] = [@ EXCEPT
                  !.pc = "save", !.next.ignore = Merged(cmd[c].prev, new)]]
    /\ UNCHANGED <<tracked, mcp, settings, agents, own, left>>

\* Mutation: a global install starts from an empty state.
CombinedAlone(c, rec) ==
    [s \in Scopes |-> IF s = cmd[c].scope THEN rec
                      ELSE IF cmd[c].scope = "global" THEN NoRecord ELSE cmd[c].mem[s]]

\* The tracked state that is saved: this scope's record, the others as loaded.
Combined(c, rec) == [cmd[c].mem EXCEPT ![cmd[c].scope] = rec]

Save(c) ==
    /\ At(c, "save")
    /\ tracked' = Combined(c, cmd[c].next)
    /\ Go(c, "commit")
    /\ UNCHANGED <<files, journal, own, left>>

Commit(c) ==
    /\ At(c, "commit")
    /\ journal' = [journal EXCEPT ![cmd[c].scope] = NoJournal]
    /\ End(c)
    /\ UNCHANGED <<tracked, files, own, left>>

Installing(c) == cmd[c].pc \in {"agents", "edit", "stale", "ignore", "save", "commit"}

MayEnd(c) == CommitFails \/ ~At(c, "commit")

\* An operation of an install or update fails: it is rolled back.
Fail(c) ==
    /\ \/ Installing(c) /\ RollBack(cmd[c].scope)
          /\ journal' = [journal EXCEPT ![cmd[c].scope] = NoJournal]
       \/ cmd[c].pc \in {"load", "begin"} /\ UNCHANGED <<files, journal>>
    /\ MayEnd(c)
    /\ Use("events")
    /\ End(c)
    /\ UNCHANGED <<tracked, own>>

-----------------------------------------------------------------------------
(***************************************************************************)
(* Uninstall: no transaction; a failure leaves it half done, to be         *)
(* repeated.                                                               *)
(***************************************************************************)
RemoveFiles(c) ==
    LET s == cmd[c].scope IN
    /\ At(c, "remove")
    /\ agents' = [agents EXCEPT ![s] = @ \ cmd[c].prev.files]
    /\ cmd' = [cmd EXCEPT ![c] = [@ EXCEPT !.pc = "revert", !.todo = cmd[c].prev.settings]]
    /\ UNCHANGED <<tracked, mcp, settings, ignored, journal, own, left>>

\* RevertSettingsEdit, file by file.
RevertSettings(c) ==
    /\ At(c, "revert")
    /\ \/ \E t \in cmd[c].todo :
             /\ settings' = settings \ {t}
             /\ cmd' = [cmd EXCEPT ![c].todo = @ \ {t}]
       \/ /\ cmd[c].todo = {}
          /\ cmd' = [cmd EXCEPT ![c] = [@ EXCEPT
                        !.pc = "restore", !.todo = {p \in Places : cmd[c].prev.mcp[p] # "untouched"}]]
          /\ UNCHANGED settings
    /\ UNCHANGED <<tracked, mcp, ignored, agents, journal, own, left>>

\* RevertMCPEdit: the value from before is put back, or the entry removed.
RestoreMcp(c) ==
    /\ At(c, "restore")
    /\ \/ \E p \in cmd[c].todo :
             /\ mcp' = [mcp EXCEPT ![p] = cmd[c].prev.mcp[p]]
             /\ cmd' = [cmd EXCEPT ![c].todo = @ \ {p}]
       \/ cmd[c].todo = {} /\ Go(c, "unignore") /\ UNCHANGED mcp
    /\ UNCHANGED <<tracked, settings, ignored, agents, journal, own, left>>

\* RevertIgnoreEdits.
Unignore(c) ==
    /\ At(c, "unignore")
    /\ ignored' = [f \in IgnoreFiles |->
                      IF f \in cmd[c].prev.ignore THEN ignored[f] \ {cmd[c].scope} ELSE ignored[f]]
    /\ Go(c, "forget")
    /\ UNCHANGED <<tracked, mcp, settings, agents, journal, own, left>>

\* Mutation: the record is marked as gone, its lists stay.
ClearedInPart(rec) == [rec EXCEPT !.on = FALSE]

\* The record of a scope after its uninstall.
Cleared(rec) == NoRecord

Forget(c) ==
    /\ At(c, "forget")
    /\ tracked' = Combined(c, Cleared(cmd[c].prev))
    /\ End(c)
    /\ UNCHANGED <<files, journal, own, left>>

Uninstalling(c) == cmd[c].pc \in {"remove", "revert", "restore", "unignore", "forget"}

GiveUp(c) ==
    /\ Uninstalling(c)
    /\ Use("events")
    /\ End(c)
    /\ UNCHANGED <<tracked, files, journal, own>>

\* The process dies; only the files remain, the journal among them.
Crash(c) ==
    /\ Busy(c) /\ MayEnd(c)
    /\ Use("events")
    /\ End(c)
    /\ UNCHANGED <<tracked, files, journal, own>>

-----------------------------------------------------------------------------
(***************************************************************************)
(* The user changes the files while no command runs.  An entry that a      *)
(* record says the program wrote is the program's, whatever the user puts  *)
(* there meanwhile.                                                        *)
(***************************************************************************)
Settled == Quiet /\ \A s \in Scopes : ~journal[s].open

ScopeOf(p) == IF p \in Roots THEN p ELSE "global"

EditMcp(p) ==
    LET v == IF mcp[p] = "user" THEN "none" ELSE "user" IN
    /\ mcp' = [mcp EXCEPT ![p] = v]
    /\ own' = IF tracked[ScopeOf(p)].mcp[p] # "untouched" THEN own
              ELSE [own EXCEPT !.mcp[p] = v]
    /\ UNCHANGED <<settings, ignored>>

EditSettings(t) ==
    LET s == IF t \in settings THEN settings \ {t} ELSE settings \union {t} IN
    /\ settings' = s
    /\ own' = IF t \in tracked["global"].settings THEN own
              ELSE [own EXCEPT !.settings = (@ \ {t}) \union (s \intersect {t})]
    /\ UNCHANGED <<mcp, ignored>>

\* The user may remove a line of the program, but does not write it again.
EditIgnore(r, f) ==
    LET mine == f \in tracked[r].ignore
        roots == IF r \in ignored[f] THEN ignored[f] \ {r} ELSE ignored[f] \union {r} IN
    /\ mine => r \in ignored[f]
    /\ ignored' = [ignored EXCEPT ![f] = roots]
    /\ own' = IF mine THEN own
              ELSE [own EXCEPT !.ignored[f] = (@ \ {r}) \union (roots \intersect {r})]
    /\ UNCHANGED <<mcp, settings>>

User ==
    /\ Settled
    /\ Use("events")
    /\ \/ \E p \in Places : EditMcp(p)
       \/ \E t \in Targets : EditSettings(t)
       \/ \E r \in Roots, f \in IgnoreFiles : EditIgnore(r, f)
    /\ UNCHANGED <<tracked, agents, journal, cmd>>

-----------------------------------------------------------------------------
Step(c) ==
    \/ Load(c) \/ Begin(c) \/ Extract(c) \/ Edit(c) \/ RemoveStale(c) \/ Ignore(c)
    \/ Save(c) \/ Commit(c) \/ Fail(c)
    \/ RemoveFiles(c) \/ RevertSettings(c) \/ RestoreMcp(c) \/ Unignore(c) \/ Forget(c)
    \/ GiveUp(c)

Next ==
    \/ \E s \in Scopes, k \in {"install", "update", "uninstall"} : Invoke(s, k)
    \/ \E c \in Classes : Step(c) \/ Crash(c)
    \/ User

Spec == Init /\ [][Next]_vars

-----------------------------------------------------------------------------
\* Whatever was installed, updated, failed, was interrupted and run again, and
\* was edited by the user: the user's own entry of each file is what the record
\* would restore, or, where the program recorded no edit, what the file holds.
\* So an uninstall gives every file back as the user would have it
\* (ApplyMCPEdit, ApplySettingsEdit, MergeIgnoreEdits and their reverts).
Restorable ==
    Settled =>
        /\ \A p \in Places :
              LET b == tracked[ScopeOf(p)].mcp[p] IN
              own.mcp[p] = IF b = "untouched" THEN mcp[p] ELSE b
        /\ own.settings = settings \ tracked["global"].settings
        /\ \A r \in Roots, f \in IgnoreFiles :
              r \in own.ignored[f] <=> r \in ignored[f] /\ f \notin tracked[r].ignore

\* Every agent file in a local root is in its record, or was there before: none is
\* left that no uninstall would remove (Managed.Files, RemoveStaleAgentFiles).
FilesTracked ==
    Settled => \A r \in Roots : agents[r] \subseteq tracked[r].files \union own.agents[r]

\* A command leaves the records of the other scopes alone, although it writes them
\* all (SaveTrackedState; with commands of both classes at once it does not).
ScopesKept ==
    [][\A s \in Scopes :
          tracked'[s] # tracked[s] => \E c \in Classes : cmd[c].scope = s /\ Busy(c)]_vars
=============================================================================
