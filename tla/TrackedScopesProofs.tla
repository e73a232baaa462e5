-------------------------- MODULE TrackedScopesProofs --------------------------
(***************************************************************************)
(* The tracked state and the user's files, for any roots, targets and      *)
(* releases and any number of commands, failures, crashes and changes by   *)
(* the user: an uninstall gives every file back as the user would have it, *)
(* every agent file is in a record, and a command spoils the record of     *)
(* another scope only when the other command has written meanwhile         *)
(* (SaveTrackedState, ApplyMCPEdit, RevertMCPEdit, MergeIgnoreEdits,       *)
(* rollbackFromJournal).                                                   *)
(***************************************************************************)
EXTENDS TrackedScopes, TLAPS

\* What the code needs for this: no global command beside a local one, targets that
\* are kept, crashed commands run again, and no end between saving and committing.
Disciplined == ~Overlap /\ KeepTargets /\ RerunFirst /\ ~CommitFails

-----------------------------------------------------------------------------
(***************************************************************************)
(* The inductive invariant, in parts.  Types: of all variables.            *)
(***************************************************************************)
Records ==
    [on: BOOLEAN, rel: Releases \union {0}, mode: Modes, binaryOnly: BOOLEAN, files: SUBSET Releases,
     mcp: [Places -> Values \union {"untouched"}], settings: SUBSET Targets,
     ignore: SUBSET IgnoreFiles]

Snapshots ==
    [agents: [Scopes -> SUBSET Releases], mcp: [Places -> Values],
     settings: SUBSET Targets, ignored: [IgnoreFiles -> SUBSET Roots]]

\* A record names places of its scope, the settings of targets it edited, and owns no
\* agent file when it is of binaries only.
Sound(s, rec) ==
    /\ rec \in Records
    /\ \A p \in Places : rec.mcp[p] # "untouched" => p \in PlacesOf(s)
    /\ \A t \in rec.settings : rec.mcp[t] # "untouched"
    /\ rec.binaryOnly => rec.files = {}
    /\ ~rec.on => rec = NoRecord

\* A journal lists what its scope may touch.
Touchable(s) == IF s = "global" THEN {"agents"} \union Targets
                ELSE {"agents", s} \union IgnoreFiles

Journals ==
    [open: BOOLEAN, touched: SUBSET ({"agents"} \union Places \union IgnoreFiles),
     old: {<<>>} \union Snapshots]

Kept(s, j) ==
    /\ j \in Journals
    /\ j.touched \subseteq Touchable(s)
    /\ ~j.open => j.touched = {}
    /\ j.open => j.old \in Snapshots

\* A command, by where it is.
Locations ==
    {"idle", "load", "begin", "agents", "edit", "stale", "ignore", "save", "commit",
     "remove", "revert", "restore", "unignore", "forget"}

CommandRecords ==
    [pc: Locations, kind: {"none", "install", "update", "uninstall"}, scope: Scopes,
     mode: Modes, rel: Releases \union {0}, todo: SUBSET Places,
     mem: {<<>>} \union [Scopes -> Records], prev: Records, next: Records]

Changes == {"agents", "edit", "stale", "ignore", "save"}
Removing == {"remove", "revert", "restore", "unignore", "forget"}

Sensible(c, x) ==
    /\ x \in CommandRecords
    /\ x.pc # "idle" => ClassOf(x.scope) = c /\ x.rel \in Releases /\ x.kind # "none"
    /\ x.pc \notin {"idle", "load"} =>
          /\ x.mem \in [Scopes -> Records]
          /\ \A y \in Scopes : Sound(y, x.mem[y])
          /\ Sound(x.scope, x.prev)
    /\ x.pc \in {"begin"} \union Changes =>
          Sound(x.scope, x.next) /\ x.next.on /\ x.kind \in {"install", "update"}
    /\ x.pc \in {"begin", "agents", "edit"} => x.todo \subseteq PlacesOf(x.scope)
    /\ x.pc \in {"edit", "stale"} => ~x.next.binaryOnly
    /\ x.pc \in {"begin", "agents"} /\ x.next.binaryOnly => x.prev.files = {} /\ x.scope # "global"
    /\ x.pc = "ignore" => x.scope # "global"
    /\ x.pc \in Removing => x.kind = "uninstall"
    /\ x.pc = "restore" => \A p \in x.todo : x.prev.mcp[p] # "untouched"

FileTypes ==
    /\ mcp \in [Places -> Values]
    /\ settings \in SUBSET Targets
    /\ ignored \in [IgnoreFiles -> SUBSET Roots]
    /\ agents \in [Scopes -> SUBSET Releases]

RecordTypes  == tracked \in [Scopes -> Records] /\ \A s \in Scopes : Sound(s, tracked[s])
JournalTypes == journal \in [Scopes -> Journals] /\ \A s \in Scopes : Kept(s, journal[s])
CommandTypes ==
    cmd \in [Classes -> CommandRecords] /\ \A c \in Classes : Sensible(c, cmd[c])

\* While a command changes files its journal is open.
Journalled == \A c \in Classes : Installing(c) => journal[cmd[c].scope].open

TypeInv ==
    /\ FileTypes /\ RecordTypes /\ JournalTypes /\ CommandTypes /\ Journalled
    /\ own \in Snapshots

-----------------------------------------------------------------------------
\* One command runs.
OneRuns == \A c, d \in Classes : Busy(c) /\ Busy(d) => c = d

\* What it loaded is what tracked.json says, until it saves.
Loaded ==
    \A c \in Classes :
        cmd[c].pc \notin {"idle", "load", "commit"} =>
            cmd[c].mem = tracked /\ cmd[c].prev = tracked[cmd[c].scope]

\* The local scopes have one journal between them; a crashed one is left to an install.
JournalsUsed ==
    /\ \A s, x \in Roots : journal[s].open /\ journal[x].open => s = x
    /\ \A c \in Classes, x \in Scopes :
          Busy(c) /\ ClassOf(x) = c /\ journal[x].open =>
              x = cmd[c].scope /\ (Installing(c) \/ cmd[c].kind = "install")

-----------------------------------------------------------------------------
(***************************************************************************)
(* What the files hold, or will hold once the open journals are rolled     *)
(* back.  A command that has saved will commit.                            *)
(***************************************************************************)
Undoable(s, what) ==
    /\ what \in journal[s].touched
    /\ \A c \in Classes : At(c, "commit") => cmd[c].scope # s

McpThen(p) ==
    IF Undoable(ScopeOf(p), p) THEN journal[ScopeOf(p)].old.mcp[p] ELSE mcp[p]

SettingThen(t) ==
    IF Undoable("global", t) THEN t \in journal["global"].old.settings ELSE t \in settings

LineThen(r, f) ==
    \/ \E x \in Roots : Undoable(x, f) /\ r \in journal[x].old.ignored[f]
    \/ (\A x \in Roots : ~Undoable(x, f)) /\ r \in ignored[f]

AgentsThen(s) ==
    IF Undoable(s, "agents") THEN journal[s].old.agents[s] ELSE agents[s]

\* The value the user has, from a record and the file.
Before(rec, p, now) == IF rec.mcp[p] = "untouched" THEN now ELSE rec.mcp[p]

McpOwned == \A p \in Places : own.mcp[p] = Before(tracked[ScopeOf(p)], p, McpThen(p))

SettingsOwned ==
    \A t \in Targets :
        t \in own.settings <=> SettingThen(t) /\ t \notin tracked["global"].settings

LinesOwned ==
    \A r \in Roots, f \in IgnoreFiles :
        r \in own.ignored[f] <=> LineThen(r, f) /\ f \notin tracked[r].ignore

AgentsOwned ==
    \A r \in Roots : AgentsThen(r) \subseteq tracked[r].files \union own.agents[r]

-----------------------------------------------------------------------------
(***************************************************************************)
(* What an install or an update has done, and what it will record of it.   *)
(***************************************************************************)
\* A place that is still to be edited is as the transaction found it.
Unedited(s, p) ==
    /\ mcp[p] = journal[s].old.mcp[p]
    /\ p \in Targets => (p \in settings <=> p \in journal[s].old.settings)

\* A place for which the new record is right.
Fits(c, p) ==
    /\ own.mcp[p] = Before(cmd[c].next, p, mcp[p])
    /\ p \in Targets =>
          (p \in own.settings <=> p \in settings /\ p \notin cmd[c].next.settings)

\* The new record before the first change.
Prepared(c) ==
    LET s == cmd[c].scope  prev == tracked[s]  next == cmd[c].next IN
    /\ next.settings = {}
    /\ s = "global" =>
          /\ \A p \in Places : next.mcp[p] = "untouched"
          /\ \A t \in Targets : prev.mcp[t] # "untouched" => t \in cmd[c].todo
    /\ s # "global" =>
          /\ next.mcp = prev.mcp
          /\ cmd[c].todo = {s}
          /\ next.ignore = prev.ignore
    /\ cmd[c].todo # {}

\* The files it extracted, or found, are those of the old record and the new release.
Extracted(c) ==
    LET s == cmd[c].scope  prev == tracked[s]  next == cmd[c].next IN
    /\ agents[s] \subseteq prev.files \union own.agents[s] \union {cmd[c].rel}
    /\ next.files = Owned(c)

Progress(c) ==
    LET s == cmd[c].scope  prev == tracked[s]  next == cmd[c].next IN
    /\ cmd[c].pc \in {"begin", "agents"} => Prepared(c)
    /\ cmd[c].pc = "agents" => journal[s].touched = {} /\ agents = journal[s].old.agents
    /\ cmd[c].pc \in {"agents", "edit"} => \A p \in cmd[c].todo : Unedited(s, p)
    /\ cmd[c].pc \in {"agents", "edit", "stale", "ignore"} => \A f \in IgnoreFiles :
          f \notin journal[s].touched /\ ignored[f] = journal[s].old.ignored[f]
    /\ cmd[c].pc = "edit" =>
          /\ cmd[c].todo # {}
          /\ \A p \in cmd[c].todo : p \notin next.settings
          /\ \A p \in PlacesOf(s) \ cmd[c].todo : Fits(c, p)
    /\ cmd[c].pc \in {"stale", "ignore", "save"} => \A p \in PlacesOf(s) : Fits(c, p)
    /\ s # "global" /\ cmd[c].pc \in {"edit", "stale"} => Extracted(c)
    /\ s # "global" /\ cmd[c].pc \in {"ignore", "save"} =>
          agents[s] \subseteq next.files \union own.agents[s]
    /\ s # "global" /\ cmd[c].pc \in {"edit", "stale", "ignore"} => next.ignore = prev.ignore
    /\ s # "global" /\ cmd[c].pc = "save" => \A f \in IgnoreFiles :
          /\ s \in own.ignored[f] <=> s \in ignored[f] /\ f \notin next.ignore
          /\ \A r \in Roots \ {s} : r \in ignored[f] <=> LineThen(r, f)

\* What an uninstall has undone.
Removal(c) ==
    LET s == cmd[c].scope  prev == tracked[s] IN
    /\ cmd[c].pc \in {"revert", "restore", "unignore", "forget"} => agents[s] \intersect prev.files = {}
    /\ cmd[c].pc = "revert" => settings \intersect prev.settings \subseteq cmd[c].todo
    /\ cmd[c].pc \in {"restore", "unignore", "forget"} => settings \intersect prev.settings = {}
    /\ cmd[c].pc = "restore" =>
          \A p \in Places \ cmd[c].todo : prev.mcp[p] # "untouched" => mcp[p] = prev.mcp[p]
    /\ cmd[c].pc \in {"unignore", "forget"} =>
          \A p \in Places : prev.mcp[p] # "untouched" => mcp[p] = prev.mcp[p]
    /\ cmd[c].pc = "forget" => \A f \in prev.ignore : s \notin ignored[f]
    /\ cmd[c].pc = "revert" => cmd[c].todo \subseteq prev.settings

Owners == McpOwned /\ SettingsOwned /\ LinesOwned /\ AgentsOwned

Control == OneRuns /\ Loaded /\ JournalsUsed

-----------------------------------------------------------------------------
(***************************************************************************)
(* Types.                                                                  *)
(***************************************************************************)
\* Nothing but the place of a command, its todo list and its new record changes.
Continues(c) ==
    /\ \A d \in Classes \ {c} : cmd'[d] = cmd[d]
    /\ cmd'[c].kind = cmd[c].kind /\ cmd'[c].scope = cmd[c].scope
    /\ cmd'[c].mode = cmd[c].mode /\ cmd'[c].rel = cmd[c].rel

\* A command moves on.
LEMMA GoStep ==
    ASSUME CommandTypes, NEW c \in Classes, NEW l \in Locations, Go(c, l)
    PROVE  /\ cmd' \in [Classes -> CommandRecords] /\ Continues(c)
           /\ cmd'[c].pc = l /\ cmd'[c].todo = cmd[c].todo /\ cmd'[c].mem = cmd[c].mem
           /\ cmd'[c].prev = cmd[c].prev /\ cmd'[c].next = cmd[c].next
    BY DEF CommandTypes, CommandRecords, Go, Continues

\* A command ends.
LEMMA EndStep ==
    ASSUME CommandTypes, NEW c \in Classes, End(c)
    PROVE  /\ \A d \in Classes \ {c} : cmd'[d] = cmd[d]
           /\ cmd'[c] = Idle
           /\ cmd' \in [Classes -> CommandRecords]
           /\ CommandTypes'
    <1>1. NoRecord \in Records
        BY DEF NoRecord, Records, Modes
    <1>2. Idle \in CommandRecords
        BY <1>1 DEF Idle, CommandRecords, Locations, Scopes, Modes
    <1>3. \A d \in Classes \ {c} : cmd'[d] = cmd[d]
        BY DEF End, CommandTypes
    <1>4. cmd'[c] = Idle /\ cmd' \in [Classes -> CommandRecords]
        BY <1>2 DEF End, CommandTypes
    <1>5. Sensible(c, Idle)
        BY <1>2 DEF Sensible, Idle, Changes, Removing
    <1> QED
        BY <1>3, <1>4, <1>5 DEF CommandTypes

\* The records of a command are what they were, or are sound.
LEMMA CommandStep ==
    ASSUME CommandTypes, NEW c \in Classes, cmd' \in [Classes -> CommandRecords],
           \A d \in Classes \ {c} : cmd'[d] = cmd[d], Sensible(c, cmd'[c])
    PROVE  CommandTypes'
    BY DEF CommandTypes

\* What Begin and a failure put back.
LEMMA RollBackTypes ==
    ASSUME TypeInv, NEW s \in Scopes, RollBack(s)
    PROVE  /\ FileTypes'
           /\ \A p \in Places : mcp'[p] = IF p \in journal[s].touched THEN journal[s].old.mcp[p] ELSE mcp[p]
           /\ \A t \in Targets : t \in settings' <=>
                 IF t \in journal[s].touched THEN t \in journal[s].old.settings ELSE t \in settings
           /\ \A f \in IgnoreFiles : ignored'[f] =
                 IF f \in journal[s].touched THEN journal[s].old.ignored[f] ELSE ignored[f]
           /\ \A x \in Scopes : agents'[x] =
                 IF x = s /\ "agents" \in journal[s].touched THEN journal[s].old.agents[x] ELSE agents[x]
    <1> DEFINE j == journal[s]
    <1>1. j.touched = {} \/ j.old \in Snapshots
        BY DEF TypeInv, JournalTypes, Kept
    <1>2. /\ \A p \in Places : mcp'[p] = IF p \in j.touched THEN j.old.mcp[p] ELSE mcp[p]
          /\ mcp' \in [Places -> Values]
        BY <1>1 DEF TypeInv, RollBack, FileTypes, Snapshots
    <1>3. /\ \A t \in Targets : t \in settings' <=>
                IF t \in j.touched THEN t \in j.old.settings ELSE t \in settings
          /\ settings' \in SUBSET Targets
        BY DEF RollBack
    <1>4. /\ \A f \in IgnoreFiles : ignored'[f] =
                IF f \in j.touched THEN j.old.ignored[f] ELSE ignored[f]
          /\ ignored' \in [IgnoreFiles -> SUBSET Roots]
        BY <1>1 DEF TypeInv, RollBack, FileTypes, Snapshots
    <1>5. /\ \A x \in Scopes : agents'[x] =
                IF x = s /\ "agents" \in j.touched THEN j.old.agents[x] ELSE agents[x]
          /\ agents' \in [Scopes -> SUBSET Releases]
        BY <1>1 DEF TypeInv, RollBack, FileTypes, Snapshots
    <1> QED
        BY <1>2, <1>3, <1>4, <1>5 DEF FileTypes

\* A journal is closed, or lists more of what its scope may touch.
LEMMA ClosedTypes ==
    ASSUME JournalTypes, NEW s \in Scopes, journal' = [journal EXCEPT ![s] = NoJournal]
    PROVE  /\ JournalTypes'
           /\ \A x \in Scopes \ {s} : journal'[x] = journal[x]
           /\ journal'[s] = NoJournal /\ ~journal'[s].open /\ journal'[s].touched = {}
    <1>1. NoJournal \in Journals /\ ~NoJournal.open /\ NoJournal.touched = {}
        BY DEF NoJournal, Journals
    <1> QED
        BY <1>1 DEF JournalTypes, Kept

\* A journal stays well-typed when a place of its scope is touched.
LEMMA TouchTypes ==
    ASSUME JournalTypes, NEW s \in Scopes, NEW what \in SUBSET Touchable(s),
           journal[s].open, Touch(s, what)
    PROVE  /\ JournalTypes'
           /\ \A x \in Scopes \ {s} : journal'[x] = journal[x]
           /\ journal'[s].open /\ journal'[s].old = journal[s].old
           /\ journal'[s].touched = journal[s].touched \union what
    <1>1. journal[s] \in Journals /\ what \subseteq {"agents"} \union Places \union IgnoreFiles
        BY DEF JournalTypes, Touchable, Places, Scopes
    <1>2. /\ journal' \in [Scopes -> Journals]
          /\ \A x \in Scopes \ {s} : journal'[x] = journal[x]
          /\ journal'[s].open = journal[s].open /\ journal'[s].old = journal[s].old
          /\ journal'[s].touched = journal[s].touched \union what
        BY <1>1 DEF JournalTypes, Journals, Touch
    <1>3. Kept(s, journal'[s])
        BY <1>2 DEF JournalTypes, Kept
    <1> QED
        BY <1>2, <1>3 DEF JournalTypes

\* The rest of a type invariant when the disk stays.
LEMMA SameDiskTypes ==
    ASSUME TypeInv, UNCHANGED <<tracked, files, journal>>, CommandTypes', own' \in Snapshots,
           \A d \in Classes : Installing(d)' => Installing(d) /\ cmd'[d].scope = cmd[d].scope
    PROVE  TypeInv'
    BY DEF TypeInv, files, FileTypes, RecordTypes, JournalTypes, Journalled

\* Types: a command is invoked.
LEMMA InvokeStep ==
    ASSUME ScopesAssumption, TypeInv, NEW s \in Scopes, NEW k \in {"install", "update", "uninstall"}, Invoke(s, k)
    PROVE  /\ TypeInv'
           /\ \A d \in Classes \ {ClassOf(s)} : cmd'[d] = cmd[d]
           /\ ~Busy(ClassOf(s)) /\ At(ClassOf(s), "load")'
           /\ cmd'[ClassOf(s)].scope = s /\ cmd'[ClassOf(s)].kind = k
           /\ UNCHANGED <<tracked, files, journal, own>>
    <1> DEFINE c == ClassOf(s)
    <1>1. c \in Classes
        BY DEF ClassOf, Classes
    <1>2. PICK m \in Modes, r \in Releases :
            cmd' = [cmd EXCEPT ![c] = [Idle EXCEPT !.pc = "load", !.kind = k, !.scope = s,
                                                   !.mode = m, !.rel = r]]
        BY DEF Invoke
    <1>3. NoRecord \in Records
        BY DEF NoRecord, Records, Modes
    <1>4. /\ cmd' \in [Classes -> CommandRecords]
          /\ \A d \in Classes \ {c} : cmd'[d] = cmd[d]
          /\ cmd'[c].pc = "load" /\ cmd'[c].scope = s /\ cmd'[c].kind = k
          /\ cmd'[c].rel \in Releases
        BY <1>1, <1>2, <1>3 DEF TypeInv, CommandTypes, CommandRecords, Idle, Locations
    <1>5. Sensible(c, cmd'[c])
        BY <1>1, <1>4 DEF Sensible, Changes, Removing
    <1>6. CommandTypes'
        BY <1>1, <1>4, <1>5, CommandStep DEF TypeInv
    <1>7. \A d \in Classes : Installing(d)' => Installing(d) /\ cmd'[d].scope = cmd[d].scope
        BY <1>1, <1>4 DEF Installing
    <1>8. UNCHANGED <<tracked, files, journal, own>> /\ ~Busy(c)
        BY DEF Invoke
    <1> QED
        BY <1>1, <1>4, <1>6, <1>7, <1>8, SameDiskTypes DEF TypeInv, At

\* What a command takes from its record at its start.
LEMMA LocalStartSound ==
    ASSUME NEW r \in Roots, NEW k, NEW m \in Modes, NEW prev, Sound(r, prev)
    PROVE  LET n == LocalStart(r, k, m, prev) IN
           /\ Sound(r, n) /\ n.on
           /\ n.mcp = prev.mcp /\ n.settings = prev.settings /\ n.ignore = prev.ignore
           /\ n.files = prev.files
           /\ n.binaryOnly => prev.files = {}
    <1> DEFINE n == LocalStart(r, k, m, prev)
               v == IF k = "update" THEN prev.mode ELSE m
               bare == IF prev.on /\ (k = "update" \/ v = "team") THEN prev.binaryOnly
                       ELSE v = "team" /\ DetectTeam(r)
    <1>1. prev \in Records
        BY DEF Sound
    <1>2. bare \in BOOLEAN
        BY <1>1 DEF Records, DetectTeam
    <1>3. /\ n \in Records /\ n.on /\ n.binaryOnly = bare /\ n.mcp = prev.mcp
          /\ n.settings = prev.settings /\ n.ignore = prev.ignore /\ n.files = prev.files
        <2>1. PICK b \in BOOLEAN : b = bare
            BY <1>2
        <2>2. PICK w : w = v
            OBVIOUS
        <2>3. w \in Modes
            BY <1>1, <2>2 DEF Records
        <2>4. n = [prev EXCEPT !.on = TRUE, !.mode = w, !.binaryOnly = b]
            BY <2>1, <2>2 DEF LocalStart
        <2> HIDE DEF n, bare, v
        <2>5. /\ n \in Records /\ n.on /\ n.binaryOnly = b /\ n.mcp = prev.mcp
              /\ n.settings = prev.settings /\ n.ignore = prev.ignore /\ n.files = prev.files
            BY <1>1, <2>3, <2>4 DEF Records
        <2> QED
            BY <2>1, <2>5
    <1>4. bare => prev.files = {}
        <2>1. CASE prev.on /\ (k = "update" \/ v = "team")
            BY <2>1 DEF Sound
        <2>2. CASE ~prev.on
            BY <2>2 DEF Sound, NoRecord
        <2>3. CASE ~(k = "update" \/ v = "team")
            BY <2>3
        <2> QED
            BY <2>1, <2>2, <2>3
    <1> QED
        BY <1>3, <1>4 DEF Sound

\* The empty record suits every scope.
LEMMA NoRecordSound == ASSUME NEW s PROVE Sound(s, NoRecord)
    BY DEF Sound, NoRecord, Records, Modes

\* The record a global install starts from is sound.
LEMMA GlobalStartSound ==
    LET n == [NoRecord EXCEPT !.on = TRUE] IN
    /\ Sound("global", n) /\ n.on /\ ~n.binaryOnly
    /\ \A p \in Places : n.mcp[p] = "untouched"
    /\ n.settings = {} /\ n.ignore = {} /\ n.files = {}
    BY DEF Sound, NoRecord, Records, Modes

\* The global targets of a command contain those that are tracked, when targets are kept.
LEMMA TargetsChosen ==
    ASSUME ScopesAssumption, NEW prev, NEW k,
           NEW ts \in IF k = "update" THEN {UpdateTargets(prev)} ELSE InstallTargets(prev)
    PROVE  /\ ts \subseteq Targets /\ ts # {}
           /\ KeepTargets => \A t \in Targets : prev.mcp[t] # "untouched" => t \in ts
    <1>1. CASE k = "update"
        <2>1. ts = UpdateTargets(prev)
            BY <1>1
        <2> QED
            BY <2>1 DEF UpdateTargets, ScopesAssumption
    <1>2. CASE k # "update"
        <2>1. ts \in InstallTargets(prev)
            BY <1>2
        <2> QED
            BY <2>1 DEF InstallTargets, ScopesAssumption
    <1> QED
        BY <1>1, <1>2

\* Types: tracked.json is loaded and the work planned.
LEMMA LoadStep ==
    ASSUME ScopesAssumption, TypeInv, NEW c \in Classes, Load(c)
    PROVE  LET s == cmd[c].scope  prev == tracked[s]  new == cmd'[c] IN
           /\ TypeInv'
           /\ UNCHANGED <<tracked, files, journal, own>>
           /\ At(c, "load")
           /\ \/ End(c)
              \/ /\ cmd[c].kind = "uninstall" /\ Continues(c)
                 /\ new.pc = "remove" /\ new.mem = tracked /\ new.prev = prev
              \/ /\ s # "global" /\ Continues(c)
                 /\ new.pc = "begin" /\ new.mem = tracked /\ new.prev = prev
                 /\ new.todo = {s} /\ new.next = LocalStart(s, cmd[c].kind, cmd[c].mode, prev)
                 /\ cmd[c].kind # "uninstall"
              \/ /\ s = "global" /\ Continues(c)
                 /\ new.pc = "begin" /\ new.mem = tracked /\ new.prev = prev
                 /\ new.next = [NoRecord EXCEPT !.on = TRUE]
                 /\ new.todo # {} /\ new.todo \subseteq Targets
                 /\ KeepTargets => \A t \in Targets : prev.mcp[t] # "untouched" => t \in new.todo
                 /\ cmd[c].kind # "uninstall"
    <1> DEFINE s == cmd[c].scope  prev == tracked[s]  k == cmd[c].kind  new == cmd'[c]
    <1>0. At(c, "load") /\ UNCHANGED <<tracked, files, journal, own>>
        BY DEF Load
    <1>1. /\ cmd \in [Classes -> CommandRecords] /\ cmd[c] \in CommandRecords
          /\ s \in Scopes /\ ClassOf(s) = c /\ tracked \in [Scopes -> Records]
          /\ \A x \in Scopes : Sound(x, tracked[x])
          /\ prev \in Records /\ Sound(s, prev) /\ cmd[c].rel \in Releases
          /\ cmd[c].mode \in Modes /\ k \in {"install", "update", "uninstall"}
        BY <1>0 DEF TypeInv, CommandTypes, Sensible, CommandRecords, RecordTypes, At
    <1>2. CASE End(c)
        <2>1. CommandTypes' /\ \A d \in Classes : Installing(d)' => Installing(d) /\ cmd'[d].scope = cmd[d].scope
            BY <1>2, EndStep DEF TypeInv, Installing, Idle
        <2> QED
            BY <1>0, <1>2, <2>1, SameDiskTypes DEF TypeInv
    <1>3. CASE k = "uninstall" /\ cmd' = [cmd EXCEPT ![c] =
                  [@ EXCEPT !.pc = "remove", !.mem = tracked, !.prev = prev]]
        <2>1. /\ cmd' \in [Classes -> CommandRecords] /\ Continues(c)
              /\ new.pc = "remove" /\ new.mem = tracked /\ new.prev = prev
            BY <1>1, <1>3 DEF CommandRecords, Continues, Locations
        <2>2. Sensible(c, new)
            BY <1>1, <1>3, <2>1 DEF Sensible, Continues, Changes, Removing
        <2>3. CommandTypes'
            BY <2>1, <2>2, CommandStep DEF TypeInv, Continues
        <2>4. \A d \in Classes : Installing(d)' => Installing(d) /\ cmd'[d].scope = cmd[d].scope
            BY <2>1 DEF Installing, Continues
        <2> QED
            BY <1>0, <1>3, <2>1, <2>3, <2>4, SameDiskTypes DEF TypeInv
    <1>4. ASSUME k # "uninstall", s # "global",
                 cmd' = [cmd EXCEPT ![c] = [@ EXCEPT
                        !.pc = "begin", !.mem = tracked, !.prev = prev, !.todo = {s},
                        !.next = LocalStart(s, k, cmd[c].mode, prev)]]
          PROVE /\ TypeInv' /\ Continues(c)
                /\ new.pc = "begin" /\ new.mem = tracked /\ new.prev = prev
                /\ new.todo = {s} /\ new.next = LocalStart(s, k, cmd[c].mode, prev)
        <2>0. s \in Roots
            BY <1>1, <1>4 DEF Scopes
        <2>1. PICK n : n = LocalStart(s, k, cmd[c].mode, prev)
            OBVIOUS
        <2>2. Sound(s, n) /\ n.on /\ (n.binaryOnly => prev.files = {})
            BY <1>1, <2>0, <2>1, LocalStartSound
        <2>3. /\ cmd' \in [Classes -> CommandRecords] /\ Continues(c)
              /\ new.pc = "begin" /\ new.mem = tracked /\ new.prev = prev
              /\ new.todo = {s} /\ new.next = n
            <3>1. {s} \in SUBSET Places /\ n \in Records
                BY <2>0, <2>2 DEF Places, Sound
            <3>2. cmd' = [cmd EXCEPT ![c] = [@ EXCEPT !.pc = "begin", !.mem = tracked,
                                              !.prev = prev, !.todo = {s}, !.next = n]]
                BY <1>4, <2>1
            <3> HIDE DEF prev
            <3> QED
                BY <1>1, <3>1, <3>2 DEF CommandRecords, Continues, Locations
        <2>4. k \in {"install", "update"}
            BY <1>1, <1>4
        <2>5. Sensible(c, new)
            BY <1>1, <1>4, <2>2, <2>3, <2>4 DEF Sensible, Continues, Changes, Removing, PlacesOf
        <2>6. CommandTypes'
            BY <2>3, <2>5, CommandStep DEF TypeInv, Continues
        <2>7. \A d \in Classes : Installing(d)' => Installing(d) /\ cmd'[d].scope = cmd[d].scope
            BY <2>3 DEF Installing, Continues
        <2> QED
            BY <1>0, <2>1, <2>3, <2>6, <2>7, SameDiskTypes DEF TypeInv
    <1>5. ASSUME k # "uninstall", s = "global",
                 NEW ts \in IF k = "update" THEN {UpdateTargets(prev)} ELSE InstallTargets(prev),
                 cmd' = [cmd EXCEPT ![c] = [@ EXCEPT
                        !.pc = "begin", !.mem = tracked, !.prev = prev, !.todo = ts,
                        !.next = [NoRecord EXCEPT !.on = TRUE]]]
          PROVE /\ TypeInv' /\ Continues(c)
                /\ new.pc = "begin" /\ new.mem = tracked /\ new.prev = prev
                /\ new.todo = ts /\ new.next = [NoRecord EXCEPT !.on = TRUE]
        <2>1. PICK n : n = [NoRecord EXCEPT !.on = TRUE]
            OBVIOUS
        <2>2. Sound(s, n) /\ n.on /\ ~n.binaryOnly
            BY <1>5, <2>1, GlobalStartSound
        <2>0. ts \subseteq Targets
            BY <1>5, TargetsChosen
        <2>3. /\ cmd' \in [Classes -> CommandRecords] /\ Continues(c)
              /\ new.pc = "begin" /\ new.mem = tracked /\ new.prev = prev
              /\ new.todo = ts /\ new.next = n
            <3>1. ts \in SUBSET Places /\ n \in Records
                BY <2>0, <2>2 DEF Places, Sound
            <3>2. cmd' = [cmd EXCEPT ![c] = [@ EXCEPT !.pc = "begin", !.mem = tracked,
                                              !.prev = prev, !.todo = ts, !.next = n]]
                BY <1>5, <2>1
            <3> HIDE DEF prev
            <3> QED
                BY <1>1, <3>1, <3>2 DEF CommandRecords, Continues, Locations
        <2>4. k \in {"install", "update"}
            BY <1>1, <1>5
        <2>5. Sensible(c, new)
            BY <1>1, <1>5, <2>0, <2>2, <2>3, <2>4 DEF Sensible, Continues, Changes, Removing, PlacesOf
        <2>6. CommandTypes'
            BY <2>3, <2>5, CommandStep DEF TypeInv, Continues
        <2>7. \A d \in Classes : Installing(d)' => Installing(d) /\ cmd'[d].scope = cmd[d].scope
            BY <2>3 DEF Installing, Continues
        <2> QED
            BY <1>0, <2>1, <2>3, <2>6, <2>7, SameDiskTypes DEF TypeInv
    <1> QED
        <2>1. CASE k # "uninstall" /\ s = "global"
            <3>1. CASE End(c)
                BY <1>0, <1>2, <3>1
            <3>2. CASE ~End(c)
                <4>1. PICK ts \in IF k = "update" THEN {UpdateTargets(prev)} ELSE InstallTargets(prev) :
                        cmd' = [cmd EXCEPT ![c] = [@ EXCEPT
                            !.pc = "begin", !.mem = tracked, !.prev = prev, !.todo = ts,
                            !.next = [NoRecord EXCEPT !.on = TRUE]]]
                    BY <2>1, <3>2 DEF Load
                <4>2. /\ ts \subseteq Targets /\ ts # {}
                      /\ KeepTargets => \A t \in Targets : prev.mcp[t] # "untouched" => t \in ts
                    BY <4>1, TargetsChosen
                <4> QED
                    BY <1>0, <1>5, <2>1, <4>1, <4>2
            <3> QED
                BY <3>1, <3>2
        <2>2. CASE k # "uninstall" /\ s # "global"
            BY <1>0, <1>2, <1>4, <2>2 DEF Load
        <2>3. CASE k = "uninstall"
            BY <1>0, <1>2, <1>3, <2>3 DEF Load
        <2> QED
            BY <2>1, <2>2, <2>3

\* Types: a journal is opened, after a rollback of the one left there.
LEMMA BeginStep ==
    ASSUME TypeInv, NEW c \in Classes, Begin(c)
    PROVE  LET s == cmd[c].scope IN
           /\ TypeInv'
           /\ At(c, "begin") /\ s \in Scopes /\ RollBack(s)
           /\ Continues(c) /\ cmd'[c].pc = "agents" /\ cmd'[c].todo = cmd[c].todo
           /\ cmd'[c].mem = cmd[c].mem /\ cmd'[c].prev = cmd[c].prev /\ cmd'[c].next = cmd[c].next
           /\ \A x \in Scopes \ {s} : journal'[x] = journal[x]
           /\ journal'[s].open /\ journal'[s].touched = {}
           /\ journal'[s].old.agents = agents' /\ journal'[s].old.mcp = mcp'
           /\ journal'[s].old.settings = settings' /\ journal'[s].old.ignored = ignored'
           /\ UNCHANGED <<tracked, own>>
    <1> DEFINE s == cmd[c].scope
               new == [open |-> TRUE, touched |-> {},
                       old |-> [agents |-> agents', mcp |-> mcp', settings |-> settings',
                                ignored |-> ignored']]
    <1>1. At(c, "begin") /\ RollBack(s) /\ journal' = [journal EXCEPT ![s] = new]
          /\ UNCHANGED <<tracked, own>> /\ Go(c, "agents")
        BY DEF Begin
    <1>2. s \in Scopes /\ Sensible(c, cmd[c])
        BY DEF TypeInv, CommandTypes, CommandRecords
    <1>3. FileTypes'
        BY <1>1, <1>2, RollBackTypes
    <1>4. /\ new \in Journals /\ new.open /\ new.touched = {} /\ new.old \in Snapshots
          /\ new.old.agents = agents' /\ new.old.mcp = mcp'
          /\ new.old.settings = settings' /\ new.old.ignored = ignored'
        BY <1>3 DEF Journals, Snapshots, FileTypes
    <1>5. /\ journal' \in [Scopes -> Journals]
          /\ \A x \in Scopes \ {s} : journal'[x] = journal[x]
          /\ journal'[s].open /\ journal'[s].touched = {} /\ Kept(s, journal'[s])
          /\ journal'[s].old.agents = agents' /\ journal'[s].old.mcp = mcp'
          /\ journal'[s].old.settings = settings' /\ journal'[s].old.ignored = ignored'
        <2> HIDE DEF new
        <2>1. journal'[s] = new /\ \A x \in Scopes \ {s} : journal'[x] = journal[x]
            BY <1>1, <1>2 DEF TypeInv, JournalTypes
        <2> QED
            BY <1>1, <1>2, <1>4, <2>1 DEF TypeInv, JournalTypes, Kept
    <1>6. JournalTypes'
        BY <1>5 DEF TypeInv, JournalTypes
    <1>7. /\ cmd' \in [Classes -> CommandRecords] /\ Continues(c)
          /\ cmd'[c].pc = "agents" /\ cmd'[c].todo = cmd[c].todo /\ cmd'[c].mem = cmd[c].mem
          /\ cmd'[c].prev = cmd[c].prev /\ cmd'[c].next = cmd[c].next
        BY <1>1, GoStep DEF TypeInv, Locations
    <1>8. CommandTypes'
        <2>1. Sensible(c, cmd'[c])
            BY <1>1, <1>2, <1>7 DEF Sensible, Continues, Changes, Removing, At
        <2> QED
            BY <1>7, <2>1, CommandStep DEF TypeInv, Continues
    <1>9. Journalled'
        BY <1>5, <1>7 DEF TypeInv, Journalled, Installing, Continues, CommandTypes, CommandRecords
    <1> QED
        BY <1>1, <1>2, <1>3, <1>5, <1>6, <1>7, <1>8, <1>9 DEF TypeInv, RecordTypes

\* The disk while a command at work writes one thing in it.
LEMMA WorkTypes ==
    ASSUME TypeInv, NEW c \in Classes, Continues(c), FileTypes', CommandTypes',
           UNCHANGED <<tracked, own>>, JournalTypes',
           Installing(c)' => journal'[cmd[c].scope].open,
           \A x \in Scopes \ {cmd[c].scope} : journal'[x] = journal[x],
           cmd[c].pc \notin {"idle", "load"}
    PROVE  TypeInv'
    <1>1. ASSUME NEW d \in Classes, Installing(d)' PROVE journal'[cmd'[d].scope].open
        <2>1. CASE d = c
            BY <1>1, <2>1 DEF Continues
        <2>2. CASE d # c
            <3>1. cmd'[d] = cmd[d] /\ Installing(d)
                BY <1>1, <2>2 DEF Continues, Installing
            <3>2. journal[cmd[d].scope].open
                BY <3>1 DEF TypeInv, Journalled
            <3>3. cmd[d].scope # cmd[c].scope /\ cmd[d].scope \in Scopes
                BY <2>2, <3>1 DEF TypeInv, CommandTypes, Sensible, Installing, CommandRecords
            <3> QED
                BY <3>1, <3>2, <3>3
        <2> QED
            BY <2>1, <2>2
    <1> QED
        BY <1>1 DEF TypeInv, RecordTypes, Journalled

\* The releases whose files a command takes for its own.
LEMMA OwnedType ==
    ASSUME TypeInv, NEW c \in Classes, cmd[c].pc \notin {"idle", "load"}
    PROVE  /\ Owned(c) \in SUBSET Releases
           /\ cmd[c].pc = "agents" /\ cmd[c].next.binaryOnly => Owned(c) = {}
    BY DEF TypeInv, CommandTypes, Sensible, Owned, CommandRecords, Records, Sound

\* Types: the agent files are written.
LEMMA ExtractStep ==
    ASSUME ScopesAssumption, TypeInv, NEW c \in Classes, Extract(c)
    PROVE  LET s == cmd[c].scope  bare == cmd[c].next.binaryOnly IN
           /\ TypeInv'
           /\ At(c, "agents") /\ s \in Scopes
           /\ Continues(c)
           /\ cmd'[c].pc = (IF bare THEN "ignore" ELSE "edit") /\ cmd'[c].todo = cmd[c].todo
           /\ cmd'[c].mem = cmd[c].mem /\ cmd'[c].prev = cmd[c].prev
           /\ cmd'[c].next.mcp = cmd[c].next.mcp /\ cmd'[c].next.settings = cmd[c].next.settings
           /\ cmd'[c].next.ignore = cmd[c].next.ignore /\ cmd'[c].next.files = Owned(c)
           /\ cmd'[c].next.binaryOnly = bare
           /\ \A x \in Scopes \ {s} : journal'[x] = journal[x]
           /\ journal'[s].old = journal[s].old
           /\ journal'[s].touched = journal[s].touched \union (IF bare THEN {} ELSE {"agents"})
           /\ \A x \in Scopes \ {s} : agents'[x] = agents[x]
           /\ agents'[s] = IF bare THEN agents[s] ELSE agents[s] \union {cmd[c].rel}
           /\ UNCHANGED <<tracked, own, mcp, settings, ignored>>
    <1> DEFINE s == cmd[c].scope  bare == cmd[c].next.binaryOnly  next == cmd[c].next
               what == IF bare THEN {} ELSE {"agents"}
    <1>0. At(c, "agents") /\ UNCHANGED <<tracked, own, mcp, settings, ignored>>
        BY DEF Extract
    <1>1. /\ s \in Scopes /\ Sensible(c, cmd[c]) /\ cmd[c].rel \in Releases
          /\ next \in Records /\ Sound(s, next) /\ cmd \in [Classes -> CommandRecords]
          /\ cmd[c] \in CommandRecords /\ bare \in BOOLEAN
        BY <1>0 DEF TypeInv, CommandTypes, CommandRecords, Sensible, At, Changes, Records
    <1>2. journal[s].open
        BY <1>0 DEF TypeInv, Journalled, Installing, At
    <1>3. /\ JournalTypes'
          /\ \A x \in Scopes \ {s} : journal'[x] = journal[x]
          /\ journal'[s].open /\ journal'[s].old = journal[s].old
          /\ journal'[s].touched = journal[s].touched \union what
        <2>1. what \in SUBSET Touchable(s)
            BY DEF Touchable
        <2>2. Touch(s, what)
            BY DEF Extract
        <2> QED
            BY <1>1, <1>2, <2>1, <2>2, TouchTypes DEF TypeInv
    <1>4. /\ agents' \in [Scopes -> SUBSET Releases]
          /\ \A x \in Scopes \ {s} : agents'[x] = agents[x]
          /\ agents'[s] = IF bare THEN agents[s] ELSE agents[s] \union {cmd[c].rel}
        BY <1>1 DEF Extract, TypeInv, FileTypes
    <1>5. PICK o : o = Owned(c)
        OBVIOUS
    <1>6. o \in SUBSET Releases /\ (bare => o = {})
        BY <1>0, <1>5, OwnedType DEF At
    <1>7. PICK n : n = [next EXCEPT !.rel = cmd[c].rel, !.files = o]
        OBVIOUS
    <1>8. /\ n \in Records /\ n.mcp = next.mcp /\ n.settings = next.settings
          /\ n.ignore = next.ignore /\ n.files = o /\ n.binaryOnly = bare /\ n.on = next.on
        BY <1>1, <1>6, <1>7 DEF Records
    <1>9. PICK l : l = IF bare THEN "ignore" ELSE "edit"
        OBVIOUS
    <1>10. cmd' = [cmd EXCEPT ![c] = [@ EXCEPT !.pc = l, !.next = n]]
        <2>1. cmd' = [cmd EXCEPT ![c] = [cmd[c] EXCEPT
                  !.pc = IF bare THEN "ignore" ELSE "edit",
                  !.next = [next EXCEPT !.rel = cmd[c].rel, !.files = Owned(c)]]]
            BY DEF Extract
        <2>2. CASE bare
            BY <1>5, <1>7, <1>9, <2>1, <2>2
        <2>3. CASE ~bare
            BY <1>5, <1>7, <1>9, <2>1, <2>3
        <2> QED
            BY <2>2, <2>3
    <1>11. /\ cmd' \in [Classes -> CommandRecords] /\ Continues(c)
           /\ cmd'[c].pc = l /\ cmd'[c].todo = cmd[c].todo
           /\ cmd'[c].mem = cmd[c].mem /\ cmd'[c].prev = cmd[c].prev /\ cmd'[c].next = n
        <2>1. l \in Locations
            BY <1>9 DEF Locations
        <2> QED
            BY <1>1, <1>8, <1>10, <2>1 DEF CommandRecords, Continues
    <1>12. Sensible(c, cmd'[c])
        <2>1. Sound(s, n) /\ n.on
            BY <1>0, <1>1, <1>6, <1>8 DEF Sound, Sensible, At, Changes
        <2>2. l \in {"edit", "ignore"} /\ (l = "edit" => ~n.binaryOnly) /\ (l = "ignore" => s # "global")
            BY <1>0, <1>1, <1>8, <1>9 DEF Sensible, At
        <2> QED
            BY <1>0, <1>1, <1>11, <2>1, <2>2 DEF Sensible, Continues, Changes, Removing, At
    <1>13. CommandTypes'
        BY <1>11, <1>12, CommandStep DEF TypeInv, Continues
    <1>14. TypeInv'
        BY <1>0, <1>3, <1>4, <1>11, <1>13, WorkTypes DEF TypeInv, FileTypes, At
    <1> QED
        BY <1>0, <1>1, <1>3, <1>4, <1>5, <1>8, <1>9, <1>11, <1>14

\* Types: one configuration place is edited.
LEMMA EditStep ==
    ASSUME ScopesAssumption, TypeInv, NEW c \in Classes, Edit(c)
    PROVE  LET s == cmd[c].scope  prev == cmd[c].prev IN
           /\ TypeInv'
           /\ At(c, "edit") /\ s \in Scopes
           /\ Continues(c)
           /\ cmd'[c].mem = cmd[c].mem /\ cmd'[c].prev = cmd[c].prev
           /\ cmd'[c].next.ignore = cmd[c].next.ignore
           /\ cmd'[c].next.files = cmd[c].next.files
           /\ \A x \in Scopes \ {s} : journal'[x] = journal[x]
           /\ journal'[s].old = journal[s].old
           /\ journal'[s].touched = journal[s].touched \union cmd[c].todo
           /\ \E p \in cmd[c].todo :
                 /\ cmd'[c].pc = (IF cmd[c].todo = {p} THEN "stale" ELSE "edit")
                 /\ cmd'[c].todo = cmd[c].todo \ {p}
                 /\ mcp'[p] = "ours"
                 /\ \A q \in Places \ {p} : mcp'[q] = mcp[q]
                 /\ settings' = (IF p \in Targets THEN settings \union {p} ELSE settings)
                 /\ cmd'[c].next.mcp[p] = Baseline(prev, p)
                 /\ \A q \in Places \ {p} : cmd'[c].next.mcp[q] = cmd[c].next.mcp[q]
                 /\ cmd'[c].next.settings =
                       IF p \in Targets /\ Added(prev, p) THEN cmd[c].next.settings \union {p}
                       ELSE cmd[c].next.settings
           /\ UNCHANGED <<tracked, own, agents, ignored>>
    <1> DEFINE s == cmd[c].scope  prev == cmd[c].prev  next == cmd[c].next
    <1>0. At(c, "edit") /\ UNCHANGED <<tracked, own, ignored, agents>>
        BY DEF Edit
    <1>1. /\ s \in Scopes /\ Sensible(c, cmd[c]) /\ prev \in Records
          /\ next \in Records /\ Sound(s, next) /\ cmd \in [Classes -> CommandRecords]
          /\ cmd[c] \in CommandRecords /\ cmd[c].todo \subseteq PlacesOf(s)
          /\ cmd[c].todo \subseteq Places /\ ~next.binaryOnly /\ next.on
        BY <1>0 DEF TypeInv, CommandTypes, CommandRecords, Sensible, At, Changes
    <1>2. journal[s].open
        BY <1>0 DEF TypeInv, Journalled, Installing, At
    <1>3. PICK p \in cmd[c].todo :
              /\ mcp' = [mcp EXCEPT ![p] = "ours"]
              /\ settings' = IF p \in Targets THEN settings \union {p} ELSE settings
              /\ Touch(s, cmd[c].todo)
              /\ cmd' = [cmd EXCEPT ![c] = [@ EXCEPT
                !.todo = cmd[c].todo \ {p},
                !.pc = IF cmd[c].todo = {p} THEN "stale" ELSE "edit",
                !.next = [next EXCEPT
                    !.mcp[p] = Baseline(prev, p),
                    !.settings = IF p \in Targets /\ Added(prev, p)
                                 THEN next.settings \union {p} ELSE next.settings]]]
        BY DEF Edit
    <1>4. /\ JournalTypes'
          /\ \A x \in Scopes \ {s} : journal'[x] = journal[x]
          /\ journal'[s].open /\ journal'[s].old = journal[s].old
          /\ journal'[s].touched = journal[s].touched \union cmd[c].todo
        <2>1. cmd[c].todo \in SUBSET Touchable(s)
            BY <1>1 DEF Touchable, PlacesOf
        <2> QED
            BY <1>1, <1>2, <1>3, <2>1, TouchTypes DEF TypeInv
    <1>5. /\ mcp' \in [Places -> Values] /\ mcp'[p] = "ours"
          /\ \A q \in Places \ {p} : mcp'[q] = mcp[q]
          /\ settings' \in SUBSET Targets
        BY <1>1, <1>3 DEF TypeInv, FileTypes, Values
    <1>6. PICK b : b = Baseline(prev, p)
        OBVIOUS
    <1>7. b \in Values
        BY <1>1, <1>6 DEF Baseline, Records, TypeInv, FileTypes
    <1>8. PICK e : e = IF p \in Targets /\ Added(prev, p) THEN next.settings \union {p} ELSE next.settings
        OBVIOUS
    <1>9. e \in SUBSET Targets /\ e \subseteq next.settings \union {p}
        BY <1>1, <1>8 DEF Records
    <1>10. PICK n : n = [next EXCEPT !.mcp[p] = b, !.settings = e]
        OBVIOUS
    <1>11. /\ n \in Records /\ n.mcp[p] = b /\ n.settings = e
           /\ n.mcp = [next.mcp EXCEPT ![p] = b]
           /\ n.ignore = next.ignore /\ n.files = next.files /\ n.binaryOnly = next.binaryOnly
           /\ n.on = next.on
           /\ \A q \in Places \ {p} : n.mcp[q] = next.mcp[q]
        BY <1>1, <1>7, <1>9, <1>10 DEF Records
    <1>12. PICK l : l = IF cmd[c].todo = {p} THEN "stale" ELSE "edit"
        OBVIOUS
    <1>13. cmd' = [cmd EXCEPT ![c] = [@ EXCEPT !.todo = cmd[c].todo \ {p}, !.pc = l, !.next = n]]
        <2>1. cmd' = [cmd EXCEPT ![c] = [cmd[c] EXCEPT
                !.todo = cmd[c].todo \ {p},
                !.pc = IF cmd[c].todo = {p} THEN "stale" ELSE "edit",
                !.next = [next EXCEPT
                    !.mcp[p] = Baseline(prev, p),
                    !.settings = IF p \in Targets /\ Added(prev, p) THEN next.settings \union {p}
                                 ELSE next.settings]]]
            BY <1>3
        <2>2. cmd' = [cmd EXCEPT ![c] = [cmd[c] EXCEPT
                !.todo = cmd[c].todo \ {p}, !.pc = l,
                !.next = [next EXCEPT !.mcp[p] = b, !.settings = e]]]
            BY <1>6, <1>8, <1>12, <2>1, Zenon
        <2> QED
            BY <1>10, <2>2, Zenon
    <1>14. /\ cmd' \in [Classes -> CommandRecords] /\ Continues(c)
           /\ cmd'[c].pc = l /\ cmd'[c].todo = cmd[c].todo \ {p}
           /\ cmd'[c].mem = cmd[c].mem /\ cmd'[c].prev = cmd[c].prev /\ cmd'[c].next = n
        <2>1. l \in Locations /\ cmd[c].todo \ {p} \in SUBSET Places
            BY <1>1, <1>12 DEF Locations
        <2> QED
            BY <1>1, <1>11, <1>13, <2>1 DEF CommandRecords, Continues
    <1>15. Sensible(c, cmd'[c])
        <2>1. b # "untouched" /\ p \in PlacesOf(s)
            BY <1>1, <1>7 DEF Values
        <2>2. Sound(s, n)
            BY <1>1, <1>9, <1>11, <2>1 DEF Sound
        <2>3. l \in {"edit", "stale"}
            BY <1>12
        <2> QED
            BY <1>0, <1>1, <1>11, <1>14, <2>2, <2>3 DEF Sensible, Continues, Changes, Removing, At
    <1>16. CommandTypes'
        BY <1>14, <1>15, CommandStep DEF TypeInv, Continues
    <1>17. TypeInv'
        BY <1>0, <1>4, <1>5, <1>14, <1>16, WorkTypes DEF TypeInv, FileTypes, At
    <1>18. /\ cmd'[c].pc = (IF cmd[c].todo = {p} THEN "stale" ELSE "edit")
           /\ cmd'[c].todo = cmd[c].todo \ {p}
           /\ cmd'[c].next.mcp[p] = Baseline(prev, p)
           /\ \A q \in Places \ {p} : cmd'[c].next.mcp[q] = next.mcp[q]
        BY <1>6, <1>11, <1>12, <1>14
    <1>19. cmd'[c].next.settings = IF p \in Targets /\ Added(prev, p) THEN next.settings \union {p}
                                   ELSE next.settings
        BY <1>8, <1>11, <1>14
    <1>20. cmd'[c].next.ignore = next.ignore /\ cmd'[c].next.files = next.files
        BY <1>11, <1>14
    <1> QED
        BY <1>0, <1>1, <1>3, <1>4, <1>5, <1>14, <1>17, <1>18, <1>19, <1>20

\* Types: the files of the old release are removed.
LEMMA RemoveStaleStep ==
    ASSUME ScopesAssumption, TypeInv, NEW c \in Classes, RemoveStale(c)
    PROVE  LET s == cmd[c].scope IN
           /\ TypeInv'
           /\ At(c, "stale") /\ s \in Scopes
           /\ Continues(c)
           /\ cmd'[c].pc = (IF s = "global" THEN "save" ELSE "ignore")
           /\ cmd'[c].todo = cmd[c].todo
           /\ cmd'[c].mem = cmd[c].mem /\ cmd'[c].prev = cmd[c].prev /\ cmd'[c].next = cmd[c].next
           /\ \A x \in Scopes \ {s} : agents'[x] = agents[x]
           /\ agents'[s] = agents[s] \ IF cmd[c].kind = "update" THEN cmd[c].prev.files \ {cmd[c].rel} ELSE {}
           /\ UNCHANGED <<tracked, own, mcp, settings, ignored, journal>>
    <1> DEFINE s == cmd[c].scope
    <1>0. At(c, "stale") /\ UNCHANGED <<tracked, own, mcp, settings, ignored, journal>>
        BY DEF RemoveStale
    <1>1. /\ s \in Scopes /\ Sensible(c, cmd[c]) /\ journal[s].open
        BY <1>0 DEF TypeInv, CommandTypes, CommandRecords, Journalled, Installing, At
    <1>2. /\ agents' \in [Scopes -> SUBSET Releases]
          /\ \A x \in Scopes \ {s} : agents'[x] = agents[x]
          /\ agents'[s] = agents[s] \ IF cmd[c].kind = "update" THEN cmd[c].prev.files \ {cmd[c].rel} ELSE {}
        BY <1>1 DEF RemoveStale, TypeInv, FileTypes
    <1>3. PICK l : l = IF s = "global" THEN "save" ELSE "ignore"
        OBVIOUS
    <1>4. /\ cmd' \in [Classes -> CommandRecords] /\ Continues(c)
          /\ cmd'[c].pc = l /\ cmd'[c].todo = cmd[c].todo /\ cmd'[c].mem = cmd[c].mem
          /\ cmd'[c].prev = cmd[c].prev /\ cmd'[c].next = cmd[c].next
        <2>1. Go(c, l) /\ l \in Locations
            BY <1>3 DEF RemoveStale, Locations
        <2> QED
            BY <2>1, GoStep DEF TypeInv
    <1>5. Sensible(c, cmd'[c])
        BY <1>0, <1>1, <1>3, <1>4 DEF Sensible, Continues, Changes, Removing, At
    <1>6. CommandTypes'
        BY <1>4, <1>5, CommandStep DEF TypeInv, Continues
    <1>7. TypeInv'
        BY <1>0, <1>1, <1>2, <1>4, <1>6, WorkTypes DEF TypeInv, FileTypes, JournalTypes, At
    <1> QED
        BY <1>0, <1>1, <1>2, <1>3, <1>4, <1>7

\* The ignore file of a command, and the line that it lacks.
LineFile(c) == IgnoreFile(cmd[c].next.mode)
MissingLine(c, f) == IF cmd[c].kind = "install" /\ cmd[c].scope \notin ignored[f] THEN {f} ELSE {}

\* Files with one ignore line more are still ignore files.
LEMMA LineTypes ==
    ASSUME NEW c \in Classes
    PROVE  LineFile(c) \in IgnoreFiles /\ \A f \in IgnoreFiles : MissingLine(c, f) \in SUBSET IgnoreFiles
    BY DEF LineFile, IgnoreFile, IgnoreFiles, MissingLine

\* Types: the ignore lines are added.
LEMMA IgnoreStep ==
    ASSUME ScopesAssumption, TypeInv, NEW c \in Classes, Ignore(c),
           NEW f \in IgnoreFiles, f = LineFile(c),
           NEW new \in SUBSET IgnoreFiles,
           new = MissingLine(c, f)
    PROVE  /\ TypeInv'
           /\ At(c, "ignore") /\ cmd[c].scope \in Roots
           /\ Continues(c)
           /\ cmd'[c].pc = "save" /\ cmd'[c].todo = cmd[c].todo
           /\ cmd'[c].mem = cmd[c].mem /\ cmd'[c].prev = cmd[c].prev
           /\ cmd'[c].next.mcp = cmd[c].next.mcp /\ cmd'[c].next.settings = cmd[c].next.settings
           /\ cmd'[c].next.files = cmd[c].next.files
           /\ cmd'[c].next.ignore = cmd[c].prev.ignore \union new
           /\ \A x \in Scopes \ {cmd[c].scope} : journal'[x] = journal[x]
           /\ journal'[cmd[c].scope].old = journal[cmd[c].scope].old
           /\ journal'[cmd[c].scope].touched = journal[cmd[c].scope].touched \union
                 (IF cmd[c].kind = "install" THEN {f} ELSE {})
           /\ \A g \in IgnoreFiles : ignored'[g] =
                 IF g \in new THEN ignored[g] \union {cmd[c].scope} ELSE ignored[g]
           /\ UNCHANGED <<tracked, own, mcp, settings, agents>>
    <1> DEFINE r == cmd[c].scope  next == cmd[c].next
    <1>0. At(c, "ignore") /\ UNCHANGED <<tracked, own, mcp, settings, agents>>
        BY DEF Ignore
    <1>1. /\ Sensible(c, cmd[c]) /\ journal[r].open /\ cmd[c] \in CommandRecords
          /\ r \in Roots /\ r \in Scopes /\ r # "global" /\ next \in Records /\ cmd \in [Classes -> CommandRecords]
          /\ Sound(r, next) /\ cmd[c].prev \in Records
        BY <1>0 DEF TypeInv, CommandTypes, CommandRecords, Journalled, Installing, At, Scopes,
              Sensible, Changes
    <1>2. f = IgnoreFile(next.mode)
        BY DEF LineFile
    <1>3. new = IF cmd[c].kind = "install" /\ r \notin ignored[f] THEN {f} ELSE {}
        BY DEF MissingLine
    <1>4. PICK what \in SUBSET IgnoreFiles : what = IF cmd[c].kind = "install" THEN {f} ELSE {}
        OBVIOUS
    <1>5. /\ JournalTypes'
          /\ \A x \in Scopes \ {r} : journal'[x] = journal[x]
          /\ journal'[r].open /\ journal'[r].old = journal[r].old
          /\ journal'[r].touched = journal[r].touched \union what
        <2>1. what \in SUBSET Touchable(r) /\ Touch(r, what)
            BY <1>1, <1>2, <1>4 DEF Touchable, Ignore
        <2> QED
            BY <1>1, <2>1, TouchTypes DEF TypeInv
    <1>6. /\ ignored' \in [IgnoreFiles -> SUBSET Roots]
          /\ \A g \in IgnoreFiles : ignored'[g] =
                IF g \in new THEN ignored[g] \union {r} ELSE ignored[g]
        <2>1. ignored' = [g \in IgnoreFiles |->
                              IF g \in new THEN ignored[g] \union {r} ELSE ignored[g]]
            BY <1>2, <1>3 DEF Ignore
        <2> QED
            BY <1>1, <2>1 DEF TypeInv, FileTypes
    <1>7. PICK i : i = cmd[c].prev.ignore \union new
        OBVIOUS
    <1>8. i \in SUBSET IgnoreFiles
        BY <1>1, <1>7 DEF Records
    <1>9. cmd' = [cmd EXCEPT ![c] = [cmd[c] EXCEPT !.pc = "save", !.next.ignore = i]]
        BY <1>2, <1>3, <1>7 DEF Ignore, Merged
    <1>10. PICK n : n = [next EXCEPT !.ignore = i]
        OBVIOUS
    <1>11. /\ n \in Records /\ n.mcp = next.mcp /\ n.settings = next.settings
           /\ n.ignore = i /\ n.files = next.files /\ n.binaryOnly = next.binaryOnly
           /\ n.on = next.on
        BY <1>1, <1>8, <1>10 DEF Records
    <1>12. /\ cmd' \in [Classes -> CommandRecords] /\ Continues(c)
           /\ cmd'[c].pc = "save" /\ cmd'[c].todo = cmd[c].todo
           /\ cmd'[c].mem = cmd[c].mem /\ cmd'[c].prev = cmd[c].prev /\ cmd'[c].next = n
        <2>1. cmd' = [cmd EXCEPT ![c] = [cmd[c] EXCEPT !.pc = "save", !.next = n]]
            BY <1>9, <1>10, <1>1 DEF CommandRecords
        <2> QED
            BY <1>1, <1>11, <2>1 DEF CommandRecords, Continues, Locations
    <1>13. Sensible(c, cmd'[c])
        <2>1. Sound(r, n)
            BY <1>0, <1>1, <1>11 DEF Sound, Sensible, At, Changes
        <2> QED
            BY <1>0, <1>1, <1>11, <1>12, <2>1 DEF Sensible, Continues, Changes, Removing, At
    <1>14. CommandTypes'
        BY <1>12, <1>13, CommandStep DEF TypeInv, Continues
    <1>15. TypeInv'
        BY <1>0, <1>1, <1>5, <1>6, <1>12, <1>14, WorkTypes DEF TypeInv, FileTypes, At
    <1>16. /\ cmd'[c].next.mcp = next.mcp /\ cmd'[c].next.settings = next.settings
           /\ cmd'[c].next.files = next.files
           /\ cmd'[c].next.ignore = cmd[c].prev.ignore \union new
        BY <1>7, <1>11, <1>12
    <1> QED
        <2>1. journal'[r].touched = journal[r].touched \union
                 (IF cmd[c].kind = "install" THEN {f} ELSE {})
            BY <1>4, <1>5
        <2> QED
            BY <1>0, <1>1, <1>3, <1>5, <1>6, <1>12, <1>15, <1>16, <2>1

\* tracked.json when it is written.
LEMMA CombinedSound ==
    ASSUME NEW mem, mem \in [Scopes -> Records], \A y \in Scopes : Sound(y, mem[y]),
           NEW s \in Scopes, NEW rec, Sound(s, rec),
           tracked' = [mem EXCEPT ![s] = rec]
    PROVE  RecordTypes' /\ tracked'[s] = rec /\ \A x \in Scopes \ {s} : tracked'[x] = mem[x]
    BY DEF RecordTypes, Sound

\* Types: tracked.json is saved.
LEMMA SaveStep ==
    ASSUME TypeInv, NEW c \in Classes, Save(c)
    PROVE  LET s == cmd[c].scope IN
           /\ TypeInv'
           /\ At(c, "save") /\ s \in Scopes
           /\ Continues(c) /\ cmd'[c].pc = "commit"
           /\ tracked'[s] = cmd[c].next
           /\ \A x \in Scopes \ {s} : tracked'[x] = cmd[c].mem[x]
           /\ UNCHANGED <<own, files, journal>>
    <1> DEFINE s == cmd[c].scope
    <1>0. At(c, "save") /\ UNCHANGED <<own, files, journal>> /\ Go(c, "commit")
        BY DEF Save
    <1>1. s \in Scopes /\ Sensible(c, cmd[c])
        BY DEF TypeInv, CommandTypes, CommandRecords
    <1>2. RecordTypes' /\ tracked'[s] = cmd[c].next /\ \A x \in Scopes \ {s} : tracked'[x] = cmd[c].mem[x]
        <2>1. PICK mem, rec : mem = cmd[c].mem /\ rec = cmd[c].next
            OBVIOUS
        <2>2. /\ mem \in [Scopes -> Records] /\ (\A y \in Scopes : Sound(y, mem[y])) /\ Sound(s, rec)
            BY <1>0, <1>1, <2>1 DEF Sensible, At, Changes
        <2>3. tracked' = [mem EXCEPT ![s] = rec]
            BY <2>1 DEF Save, Combined
        <2> QED
            BY <1>1, <2>1, <2>2, <2>3, CombinedSound
    <1>3. /\ cmd' \in [Classes -> CommandRecords] /\ Continues(c)
          /\ cmd'[c].pc = "commit" /\ cmd'[c].todo = cmd[c].todo /\ cmd'[c].mem = cmd[c].mem
          /\ cmd'[c].prev = cmd[c].prev /\ cmd'[c].next = cmd[c].next
        BY <1>0, GoStep DEF TypeInv, Locations
    <1>4. Sensible(c, cmd'[c])
        BY <1>0, <1>1, <1>3 DEF Sensible, Continues, Changes, Removing, At
    <1>5. CommandTypes'
        BY <1>3, <1>4, CommandStep DEF TypeInv, Continues
    <1>6. Journalled' /\ JournalTypes' /\ FileTypes' /\ own' \in Snapshots
        BY <1>0, <1>3 DEF TypeInv, Journalled, Installing, Continues, At, JournalTypes, FileTypes, files
    <1> QED
        BY <1>0, <1>1, <1>2, <1>3, <1>5, <1>6 DEF TypeInv

\* A command of which nothing is left, whatever became of its own journal.
LEMMA EndTypes ==
    ASSUME TypeInv, NEW c \in Classes, End(c), Busy(c), FileTypes', JournalTypes', RecordTypes',
           own' \in Snapshots,
           \A x \in Scopes \ {cmd[c].scope} : journal'[x] = journal[x]
    PROVE  TypeInv'
    <1>1. /\ \A d \in Classes \ {c} : cmd'[d] = cmd[d]
          /\ cmd'[c] = Idle /\ CommandTypes'
        BY EndStep DEF TypeInv
    <1>2. ASSUME NEW d \in Classes, Installing(d)' PROVE journal'[cmd'[d].scope].open
        <2>1. d # c /\ cmd'[d] = cmd[d] /\ Installing(d)
            BY <1>1, <1>2 DEF Installing, Idle
        <2>2. journal[cmd[d].scope].open
            BY <2>1 DEF TypeInv, Journalled
        <2>3. cmd[d].scope # cmd[c].scope /\ cmd[d].scope \in Scopes
            BY <2>1 DEF TypeInv, CommandTypes, Sensible, Installing, CommandRecords, Busy
        <2> QED
            BY <2>1, <2>2, <2>3
    <1> QED
        BY <1>1, <1>2 DEF TypeInv, Journalled

\* Types: the journal is closed.
LEMMA CommitStep ==
    ASSUME TypeInv, NEW c \in Classes, Commit(c)
    PROVE  LET s == cmd[c].scope IN
           /\ TypeInv'
           /\ At(c, "commit") /\ s \in Scopes /\ End(c)
           /\ \A x \in Scopes \ {s} : journal'[x] = journal[x]
           /\ ~journal'[s].open /\ journal'[s].touched = {}
           /\ UNCHANGED <<tracked, files, own>>
    <1> DEFINE s == cmd[c].scope
    <1>0. At(c, "commit") /\ End(c) /\ UNCHANGED <<tracked, files, own>>
        BY DEF Commit
    <1>1. s \in Scopes
        BY DEF TypeInv, CommandTypes, CommandRecords
    <1>2. JournalTypes' /\ (\A x \in Scopes \ {s} : journal'[x] = journal[x])
          /\ ~journal'[s].open /\ journal'[s].touched = {}
        BY <1>1, ClosedTypes DEF Commit, TypeInv
    <1>3. FileTypes' /\ RecordTypes' /\ Busy(c)
        BY <1>0 DEF TypeInv, FileTypes, RecordTypes, files, Busy, At
    <1> QED
        BY <1>0, <1>1, <1>2, <1>3, EndTypes DEF TypeInv

\* Types: a step fails and the transaction is rolled back.
LEMMA FailStep ==
    ASSUME TypeInv, NEW c \in Classes, Fail(c)
    PROVE  LET s == cmd[c].scope IN
           /\ TypeInv'
           /\ s \in Scopes /\ End(c) /\ MayEnd(c)
           /\ \A x \in Scopes \ {s} : journal'[x] = journal[x]
           /\ \/ /\ Installing(c) /\ RollBack(s)
                 /\ ~journal'[s].open /\ journal'[s].touched = {}
              \/ cmd[c].pc \in {"load", "begin"} /\ UNCHANGED <<files, journal>>
           /\ UNCHANGED <<tracked, own>>
    <1> DEFINE s == cmd[c].scope
    <1>0. End(c) /\ MayEnd(c) /\ UNCHANGED <<tracked, own>>
        BY DEF Fail
    <1>1. s \in Scopes /\ RecordTypes'
        BY <1>0 DEF TypeInv, CommandTypes, CommandRecords, RecordTypes
    <1>2. CASE Installing(c) /\ RollBack(s) /\ journal' = [journal EXCEPT ![s] = NoJournal]
        <2>1. JournalTypes' /\ (\A x \in Scopes \ {s} : journal'[x] = journal[x])
              /\ ~journal'[s].open /\ journal'[s].touched = {}
            BY <1>1, <1>2, ClosedTypes DEF TypeInv
        <2>2. FileTypes' /\ Busy(c)
            BY <1>1, <1>2, RollBackTypes DEF Installing, Busy
        <2> QED
            BY <1>0, <1>1, <1>2, <2>1, <2>2, EndTypes DEF TypeInv
    <1>3. CASE cmd[c].pc \in {"load", "begin"} /\ UNCHANGED <<files, journal>>
        <2>1. JournalTypes' /\ FileTypes' /\ Busy(c) /\ \A x \in Scopes : journal'[x] = journal[x]
            BY <1>3 DEF TypeInv, JournalTypes, FileTypes, files, Busy
        <2> QED
            BY <1>0, <1>1, <1>3, <2>1, EndTypes DEF TypeInv
    <1> QED
        BY <1>2, <1>3 DEF Fail

\* Types: an uninstall stops where it is.
LEMMA LeaveStep ==
    ASSUME TypeInv, NEW c \in Classes, GiveUp(c) \/ Crash(c)
    PROVE  /\ TypeInv' /\ End(c) /\ Busy(c)
           /\ Uninstalling(c) \/ MayEnd(c)
           /\ UNCHANGED <<tracked, files, journal, own>>
    <1>1. End(c) /\ Busy(c) /\ (Uninstalling(c) \/ MayEnd(c)) /\ UNCHANGED <<tracked, files, journal, own>>
        BY DEF GiveUp, Crash, Uninstalling, Busy
    <1>2. JournalTypes' /\ FileTypes' /\ RecordTypes' /\ own' \in Snapshots
        BY <1>1 DEF TypeInv, JournalTypes, FileTypes, RecordTypes, files
    <1> QED
        BY <1>1, <1>2, EndTypes

\* Types: an uninstall removes the agent files.
LEMMA RemoveFilesStep ==
    ASSUME TypeInv, NEW c \in Classes, RemoveFiles(c)
    PROVE  LET s == cmd[c].scope IN
           /\ TypeInv'
           /\ At(c, "remove") /\ s \in Scopes
           /\ Continues(c) /\ cmd'[c].pc = "revert" /\ cmd'[c].todo = cmd[c].prev.settings
           /\ cmd'[c].mem = cmd[c].mem /\ cmd'[c].prev = cmd[c].prev
           /\ \A x \in Scopes \ {s} : agents'[x] = agents[x]
           /\ agents'[s] = agents[s] \ cmd[c].prev.files
           /\ UNCHANGED <<tracked, own, mcp, settings, ignored, journal>>
    <1> DEFINE s == cmd[c].scope
    <1>0. At(c, "remove") /\ UNCHANGED <<tracked, own, mcp, settings, ignored, journal>>
        BY DEF RemoveFiles
    <1>1. /\ s \in Scopes /\ Sensible(c, cmd[c]) /\ cmd[c] \in CommandRecords
          /\ cmd \in [Classes -> CommandRecords] /\ cmd[c].prev \in Records
        BY DEF TypeInv, CommandTypes, CommandRecords
    <1>2. /\ agents' \in [Scopes -> SUBSET Releases]
          /\ \A x \in Scopes \ {s} : agents'[x] = agents[x]
          /\ agents'[s] = agents[s] \ cmd[c].prev.files
        BY <1>1 DEF RemoveFiles, TypeInv, FileTypes
    <1>3. /\ cmd' \in [Classes -> CommandRecords] /\ Continues(c)
          /\ cmd'[c].pc = "revert" /\ cmd'[c].todo = cmd[c].prev.settings
          /\ cmd'[c].mem = cmd[c].mem /\ cmd'[c].prev = cmd[c].prev /\ cmd'[c].next = cmd[c].next
        <2>1. PICK t : t = cmd[c].prev.settings
            OBVIOUS
        <2>2. t \in SUBSET Places
            BY <1>1, <2>1 DEF Records, Places
        <2>3. cmd' = [cmd EXCEPT ![c] = [cmd[c] EXCEPT !.pc = "revert", !.todo = t]]
            BY <2>1 DEF RemoveFiles
        <2> QED
            BY <1>1, <2>1, <2>2, <2>3 DEF CommandRecords, Continues, Locations
    <1>4. Sensible(c, cmd'[c])
        BY <1>0, <1>1, <1>3 DEF Sensible, Continues, Changes, Removing, At
    <1>5. CommandTypes'
        BY <1>3, <1>4, CommandStep DEF TypeInv, Continues
    <1>6. TypeInv'
        BY <1>0, <1>2, <1>3, <1>5, WorkTypes DEF TypeInv, FileTypes, JournalTypes, At, Installing
    <1> QED
        BY <1>0, <1>1, <1>2, <1>3, <1>6

\* Types: an uninstall takes one setting back.
LEMMA RevertSettingsStep ==
    ASSUME TypeInv, NEW c \in Classes, RevertSettings(c)
    PROVE  /\ TypeInv'
           /\ At(c, "revert")
           /\ Continues(c) /\ cmd'[c].mem = cmd[c].mem /\ cmd'[c].prev = cmd[c].prev
           /\ UNCHANGED <<tracked, own, mcp, agents, ignored, journal>>
           /\ \/ \E t \in cmd[c].todo :
                    settings' = settings \ {t} /\ cmd'[c].todo = cmd[c].todo \ {t} /\ cmd'[c].pc = "revert"
              \/ /\ cmd[c].todo = {} /\ settings' = settings /\ cmd'[c].pc = "restore"
                 /\ cmd'[c].todo = {p \in Places : cmd[c].prev.mcp[p] # "untouched"}
    <1>0. At(c, "revert") /\ UNCHANGED <<tracked, own, mcp, agents, ignored, journal>>
        BY DEF RevertSettings
    <1>1. /\ Sensible(c, cmd[c]) /\ cmd[c] \in CommandRecords /\ cmd \in [Classes -> CommandRecords]
        BY DEF TypeInv, CommandTypes, CommandRecords
    <1>2. ASSUME NEW t, NEW l \in {"revert", "restore"}, t \subseteq Places,
                 l = "restore" => \A p \in t : cmd[c].prev.mcp[p] # "untouched",
                 settings' \in SUBSET Targets, Continues(c), cmd' \in [Classes -> CommandRecords],
                 cmd'[c].pc = l, cmd'[c].todo = t, cmd'[c].mem = cmd[c].mem,
                 cmd'[c].prev = cmd[c].prev, cmd'[c].next = cmd[c].next
          PROVE  TypeInv'
        <2>1. Sensible(c, cmd'[c])
            BY <1>0, <1>1, <1>2 DEF Sensible, Continues, Changes, Removing, At
        <2>2. CommandTypes'
            BY <1>2, <2>1, CommandStep DEF TypeInv, Continues
        <2> QED
            BY <1>0, <1>2, <2>2, WorkTypes DEF TypeInv, FileTypes, JournalTypes, At, Installing
    <1>3. ASSUME NEW t \in cmd[c].todo, settings' = settings \ {t},
                 cmd' = [cmd EXCEPT ![c].todo = @ \ {t}]
          PROVE  TypeInv' /\ Continues(c) /\ cmd'[c].mem = cmd[c].mem /\ cmd'[c].prev = cmd[c].prev
                 /\ cmd'[c].todo = cmd[c].todo \ {t} /\ cmd'[c].pc = "revert"
        <2>1. cmd[c].todo \ {t} \in SUBSET Places /\ settings' \in SUBSET Targets
            BY <1>1, <1>3 DEF CommandRecords, TypeInv, FileTypes
        <2>2. /\ cmd' \in [Classes -> CommandRecords] /\ Continues(c)
              /\ cmd'[c].pc = "revert" /\ cmd'[c].todo = cmd[c].todo \ {t}
              /\ cmd'[c].mem = cmd[c].mem /\ cmd'[c].prev = cmd[c].prev /\ cmd'[c].next = cmd[c].next
            BY <1>0, <1>1, <1>3, <2>1 DEF CommandRecords, Continues, At
        <2> QED
            BY <1>2, <2>1, <2>2
    <1>4. ASSUME cmd[c].todo = {}, settings' = settings,
                 cmd' = [cmd EXCEPT ![c] = [@ EXCEPT !.pc = "restore",
                            !.todo = {p \in Places : cmd[c].prev.mcp[p] # "untouched"}]]
          PROVE  TypeInv' /\ Continues(c) /\ cmd'[c].mem = cmd[c].mem /\ cmd'[c].prev = cmd[c].prev
                 /\ cmd'[c].todo = {p \in Places : cmd[c].prev.mcp[p] # "untouched"}
                 /\ cmd'[c].pc = "restore"
        <2>1. PICK t : t = {p \in Places : cmd[c].prev.mcp[p] # "untouched"}
            OBVIOUS
        <2>2. t \in SUBSET Places /\ settings' \in SUBSET Targets
            BY <1>4, <2>1 DEF TypeInv, FileTypes
        <2>3. cmd' = [cmd EXCEPT ![c] = [cmd[c] EXCEPT !.pc = "restore", !.todo = t]]
            BY <1>4, <2>1, Zenon
        <2>4. /\ cmd' \in [Classes -> CommandRecords] /\ Continues(c)
              /\ cmd'[c].pc = "restore" /\ cmd'[c].todo = t
              /\ cmd'[c].mem = cmd[c].mem /\ cmd'[c].prev = cmd[c].prev /\ cmd'[c].next = cmd[c].next
            BY <1>1, <2>2, <2>3 DEF CommandRecords, Continues, Locations
        <2> QED
            BY <1>2, <2>1, <2>2, <2>4
    <1> QED
        BY <1>0, <1>3, <1>4 DEF RevertSettings

\* Types: an uninstall restores one entry.
LEMMA RestoreMcpStep ==
    ASSUME TypeInv, NEW c \in Classes, RestoreMcp(c)
    PROVE  /\ TypeInv'
           /\ At(c, "restore")
           /\ Continues(c) /\ cmd'[c].mem = cmd[c].mem /\ cmd'[c].prev = cmd[c].prev
           /\ UNCHANGED <<tracked, own, settings, agents, ignored, journal>>
           /\ \/ \E p \in cmd[c].todo :
                    /\ mcp'[p] = cmd[c].prev.mcp[p] /\ \A q \in Places \ {p} : mcp'[q] = mcp[q]
                    /\ cmd'[c].todo = cmd[c].todo \ {p} /\ cmd'[c].pc = "restore"
              \/ cmd[c].todo = {} /\ mcp' = mcp /\ cmd'[c].pc = "unignore"
    <1>0. At(c, "restore") /\ UNCHANGED <<tracked, own, settings, agents, ignored, journal>>
        BY DEF RestoreMcp
    <1>1. /\ Sensible(c, cmd[c]) /\ cmd[c] \in CommandRecords /\ cmd \in [Classes -> CommandRecords]
          /\ cmd[c].prev \in Records /\ cmd[c].todo \subseteq Places
          /\ \A p \in cmd[c].todo : cmd[c].prev.mcp[p] # "untouched"
        BY <1>0 DEF TypeInv, CommandTypes, CommandRecords, Sensible, At
    <1>2. ASSUME NEW l \in {"restore", "unignore"},
                 mcp' \in [Places -> Values], Continues(c), cmd' \in [Classes -> CommandRecords],
                 cmd'[c].pc = l, cmd'[c].mem = cmd[c].mem, cmd'[c].todo \subseteq cmd[c].todo,
                 cmd'[c].prev = cmd[c].prev, cmd'[c].next = cmd[c].next
          PROVE  TypeInv'
        <2>1. Sensible(c, cmd'[c])
            BY <1>0, <1>1, <1>2 DEF Sensible, Continues, Changes, Removing, At
        <2>2. CommandTypes'
            BY <1>2, <2>1, CommandStep DEF TypeInv, Continues
        <2> QED
            BY <1>0, <1>2, <2>2, WorkTypes DEF TypeInv, FileTypes, JournalTypes, At, Installing
    <1>3. ASSUME NEW p \in cmd[c].todo, mcp' = [mcp EXCEPT ![p] = cmd[c].prev.mcp[p]],
                 cmd' = [cmd EXCEPT ![c].todo = @ \ {p}]
          PROVE  TypeInv' /\ Continues(c) /\ cmd'[c].mem = cmd[c].mem /\ cmd'[c].prev = cmd[c].prev
                 /\ cmd'[c].todo = cmd[c].todo \ {p} /\ cmd'[c].pc = "restore"
                 /\ mcp'[p] = cmd[c].prev.mcp[p] /\ \A q \in Places \ {p} : mcp'[q] = mcp[q]
        <2>1. cmd[c].todo \ {p} \in SUBSET Places /\ cmd[c].prev.mcp[p] \in Values /\ p \in Places
            BY <1>1, <1>3 DEF Records
        <2>2. /\ mcp' \in [Places -> Values]
              /\ mcp'[p] = cmd[c].prev.mcp[p] /\ \A q \in Places \ {p} : mcp'[q] = mcp[q]
            BY <1>3, <2>1 DEF TypeInv, FileTypes
        <2>3. /\ cmd' \in [Classes -> CommandRecords] /\ Continues(c)
              /\ cmd'[c].pc = "restore" /\ cmd'[c].todo = cmd[c].todo \ {p}
              /\ cmd'[c].mem = cmd[c].mem /\ cmd'[c].prev = cmd[c].prev /\ cmd'[c].next = cmd[c].next
            BY <1>0, <1>1, <1>3, <2>1 DEF CommandRecords, Continues, At
        <2> QED
            BY <1>2, <2>2, <2>3
    <1>4. ASSUME cmd[c].todo = {}, Go(c, "unignore"), UNCHANGED mcp
          PROVE  TypeInv' /\ Continues(c) /\ cmd'[c].mem = cmd[c].mem /\ cmd'[c].prev = cmd[c].prev
                 /\ cmd'[c].pc = "unignore"
        <2>1. /\ cmd' \in [Classes -> CommandRecords] /\ Continues(c)
              /\ cmd'[c].pc = "unignore" /\ cmd'[c].mem = cmd[c].mem /\ cmd'[c].todo = cmd[c].todo
              /\ cmd'[c].prev = cmd[c].prev /\ cmd'[c].next = cmd[c].next
            BY <1>4, GoStep DEF TypeInv, Locations
        <2> QED
            BY <1>2, <1>4, <2>1 DEF TypeInv, FileTypes
    <1> QED
        BY <1>0, <1>3, <1>4 DEF RestoreMcp

\* Types: an uninstall removes its ignore lines.
LEMMA UnignoreStep ==
    ASSUME TypeInv, NEW c \in Classes, Unignore(c)
    PROVE  LET s == cmd[c].scope IN
           /\ TypeInv'
           /\ At(c, "unignore") /\ s \in Scopes
           /\ Continues(c) /\ cmd'[c].pc = "forget"
           /\ cmd'[c].mem = cmd[c].mem /\ cmd'[c].prev = cmd[c].prev
           /\ \A f \in IgnoreFiles : ignored'[f] =
                 IF f \in cmd[c].prev.ignore THEN ignored[f] \ {s} ELSE ignored[f]
           /\ UNCHANGED <<tracked, own, mcp, settings, agents, journal>>
    <1> DEFINE s == cmd[c].scope
    <1>0. At(c, "unignore") /\ UNCHANGED <<tracked, own, mcp, settings, agents, journal>>
          /\ Go(c, "forget")
        BY DEF Unignore
    <1>1. s \in Scopes /\ Sensible(c, cmd[c])
        BY DEF TypeInv, CommandTypes, CommandRecords
    <1>2. /\ ignored' \in [IgnoreFiles -> SUBSET Roots]
          /\ \A f \in IgnoreFiles : ignored'[f] =
                IF f \in cmd[c].prev.ignore THEN ignored[f] \ {s} ELSE ignored[f]
        <2>1. ignored' = [f \in IgnoreFiles |->
                     IF f \in cmd[c].prev.ignore THEN ignored[f] \ {s} ELSE ignored[f]]
            BY DEF Unignore
        <2> QED
            BY <2>1 DEF TypeInv, FileTypes
    <1>3. /\ cmd' \in [Classes -> CommandRecords] /\ Continues(c)
          /\ cmd'[c].pc = "forget" /\ cmd'[c].mem = cmd[c].mem
          /\ cmd'[c].prev = cmd[c].prev /\ cmd'[c].next = cmd[c].next
        BY <1>0, GoStep DEF TypeInv, Locations
    <1>4. Sensible(c, cmd'[c])
        BY <1>0, <1>1, <1>3 DEF Sensible, Continues, Changes, Removing, At
    <1>5. CommandTypes'
        BY <1>3, <1>4, CommandStep DEF TypeInv, Continues
    <1>6. TypeInv'
        BY <1>0, <1>2, <1>3, <1>5, WorkTypes DEF TypeInv, FileTypes, JournalTypes, At, Installing
    <1> QED
        BY <1>0, <1>1, <1>2, <1>3, <1>6

\* Types: an uninstall saves the state without its record.
LEMMA ForgetStep ==
    ASSUME TypeInv, NEW c \in Classes, Forget(c)
    PROVE  LET s == cmd[c].scope IN
           /\ TypeInv'
           /\ At(c, "forget") /\ s \in Scopes /\ End(c)
           /\ tracked'[s] = NoRecord
           /\ \A x \in Scopes \ {s} : tracked'[x] = cmd[c].mem[x]
           /\ UNCHANGED <<own, files, journal>>
    <1> DEFINE s == cmd[c].scope
    <1>0. At(c, "forget") /\ End(c) /\ UNCHANGED <<own, files, journal>>
        BY DEF Forget
    <1>1. s \in Scopes /\ Sensible(c, cmd[c])
        BY DEF TypeInv, CommandTypes, CommandRecords
    <1>2. RecordTypes' /\ tracked'[s] = NoRecord /\ \A x \in Scopes \ {s} : tracked'[x] = cmd[c].mem[x]
        <2>1. PICK mem : mem = cmd[c].mem
            OBVIOUS
        <2>2. mem \in [Scopes -> Records] /\ (\A y \in Scopes : Sound(y, mem[y])) /\ Sound(s, NoRecord)
            BY <1>0, <1>1, <2>1, NoRecordSound DEF Sensible, At
        <2>3. tracked' = [mem EXCEPT ![s] = NoRecord]
            BY <2>1 DEF Forget, Combined, Cleared
        <2> QED
            BY <1>1, <2>1, <2>2, <2>3, CombinedSound
    <1>3. FileTypes' /\ JournalTypes' /\ Busy(c) /\ \A x \in Scopes : journal'[x] = journal[x]
        BY <1>0 DEF TypeInv, JournalTypes, FileTypes, files, Busy, At
    <1> QED
        BY <1>0, <1>1, <1>2, <1>3, EndTypes DEF TypeInv

\* Types: the user edits a file, an entry or an ignore line.
LEMMA UserTypes ==
    ASSUME TypeInv, User
    PROVE  TypeInv'
    <1>1. UNCHANGED <<tracked, agents, journal, cmd>>
        BY DEF User
    <1>2. FileTypes' /\ own' \in Snapshots
        <2>1. CASE \E p \in Places : EditMcp(p)
            <3>1. PICK p \in Places : EditMcp(p)
                BY <2>1
            <3>2. PICK v \in Values : v = IF mcp[p] = "user" THEN "none" ELSE "user"
                BY DEF Values
            <3>3. mcp' = [mcp EXCEPT ![p] = v] /\ UNCHANGED <<settings, ignored>>
                  /\ (own' = own \/ own' = [own EXCEPT !.mcp[p] = v])
                BY <3>1, <3>2 DEF EditMcp
            <3> QED
                BY <1>1, <3>3 DEF TypeInv, FileTypes, Snapshots
        <2>2. CASE \E t \in Targets : EditSettings(t)
            <3>1. PICK t \in Targets : EditSettings(t)
                BY <2>2
            <3>2. PICK s : s = IF t \in settings THEN settings \ {t} ELSE settings \union {t}
                OBVIOUS
            <3>3. s \in SUBSET Targets
                BY <3>2 DEF TypeInv, FileTypes
            <3>4. PICK o : o = (own.settings \ {t}) \union (s \intersect {t})
                OBVIOUS
            <3>5. o \in SUBSET Targets
                BY <3>4 DEF TypeInv, Snapshots
            <3>6. settings' = s /\ UNCHANGED <<mcp, ignored>>
                  /\ (own' = own \/ own' = [own EXCEPT !.settings = o])
                BY <3>1, <3>2, <3>4 DEF EditSettings
            <3> QED
                BY <1>1, <3>3, <3>5, <3>6 DEF TypeInv, FileTypes, Snapshots
        <2>3. CASE \E r \in Roots, f \in IgnoreFiles : EditIgnore(r, f)
            <3>1. PICK r \in Roots, f \in IgnoreFiles : EditIgnore(r, f)
                BY <2>3
            <3>2. PICK s : s = IF r \in ignored[f] THEN ignored[f] \ {r} ELSE ignored[f] \union {r}
                OBVIOUS
            <3>3. s \in SUBSET Roots
                BY <3>2 DEF TypeInv, FileTypes
            <3>4. PICK o : o = (own.ignored[f] \ {r}) \union (s \intersect {r})
                OBVIOUS
            <3>5. o \in SUBSET Roots
                BY <3>4 DEF TypeInv, Snapshots
            <3>6. ignored' = [ignored EXCEPT ![f] = s] /\ UNCHANGED <<mcp, settings>>
                  /\ (own' = own \/ own' = [own EXCEPT !.ignored[f] = o])
                BY <3>1, <3>2, <3>4 DEF EditIgnore
            <3> QED
                BY <1>1, <3>3, <3>5, <3>6 DEF TypeInv, FileTypes, Snapshots
        <2> QED
            BY <2>1, <2>2, <2>3 DEF User
    <1> QED
        BY <1>1, <1>2 DEF TypeInv, RecordTypes, JournalTypes, CommandTypes, Journalled, Installing

\* Nothing is recorded and nothing runs at first.
LEMMA InitTypes == ASSUME ScopesAssumption, Init PROVE TypeInv
    <1>1. PICK team \in SUBSET Roots, user \in SUBSET Targets :
            /\ mcp = [p \in Places |-> IF p \in team THEN "ours"
                                       ELSE IF p \in user THEN "user" ELSE "none"]
            /\ settings = user
            /\ ignored = [f \in IgnoreFiles |-> IF f = "gitignore" THEN team ELSE {}]
            /\ agents = [s \in Scopes |-> IF s \in team THEN {1} ELSE {}]
        BY DEF Init
    <1>2. FileTypes
        BY <1>1 DEF FileTypes, Values, Releases, ScopesAssumption
    <1>3. own \in Snapshots
        BY <1>2 DEF Init, Snapshots, FileTypes
    <1>4. RecordTypes
        BY NoRecordSound DEF Init, RecordTypes, Sound
    <1>5. JournalTypes
        <2>1. NoJournal \in Journals /\ ~NoJournal.open /\ NoJournal.touched = {}
            BY DEF NoJournal, Journals
        <2> QED
            BY <2>1 DEF Init, JournalTypes, Kept
    <1>6. CommandTypes /\ Journalled
        <2>1. NoRecord \in Records
            BY DEF NoRecord, Records, Modes
        <2>2. Idle \in CommandRecords /\ Idle.pc = "idle"
            BY <2>1 DEF Idle, CommandRecords, Locations, Scopes, Modes
        <2>3. cmd \in [Classes -> CommandRecords] /\ \A c \in Classes : cmd[c] = Idle
            BY <2>2 DEF Init
        <2> QED
            BY <2>2, <2>3 DEF CommandTypes, Sensible, Changes, Removing, Journalled, Installing
    <1> QED
        BY <1>2, <1>3, <1>4, <1>5, <1>6 DEF TypeInv

\* Every step keeps the types.
LEMMA TypeInvariant == ASSUME ScopesAssumption, TypeInv, [Next]_vars PROVE TypeInv'
    <1>1. ASSUME NEW s \in Scopes, NEW k \in {"install", "update", "uninstall"}, Invoke(s, k)
          PROVE  TypeInv'
        BY <1>1, InvokeStep
    <1>2. ASSUME NEW c \in Classes, Step(c) \/ Crash(c) PROVE TypeInv'
        <2>1. CASE Load(c)
            BY <2>1, LoadStep
        <2>2. CASE Begin(c)
            BY <2>2, BeginStep
        <2>3. CASE Extract(c)
            BY <2>3, ExtractStep
        <2>4. CASE Edit(c)
            BY <2>4, EditStep
        <2>5. CASE RemoveStale(c)
            BY <2>5, RemoveStaleStep
        <2>6. CASE Ignore(c)
            <3>1. PICK f \in IgnoreFiles : f = LineFile(c)
                BY LineTypes
            <3>2. PICK new \in SUBSET IgnoreFiles : new = MissingLine(c, f)
                BY LineTypes
            <3> QED
                BY <2>6, <3>1, <3>2, IgnoreStep
        <2>7. CASE Save(c)
            BY <2>7, SaveStep
        <2>8. CASE Commit(c)
            BY <2>8, CommitStep
        <2>9. CASE Fail(c)
            BY <2>9, FailStep
        <2>10. CASE RemoveFiles(c)
            BY <2>10, RemoveFilesStep
        <2>11. CASE RevertSettings(c)
            BY <2>11, RevertSettingsStep
        <2>12. CASE RestoreMcp(c)
            BY <2>12, RestoreMcpStep
        <2>13. CASE Unignore(c)
            BY <2>13, UnignoreStep
        <2>14. CASE Forget(c)
            BY <2>14, ForgetStep
        <2>15. CASE GiveUp(c) \/ Crash(c)
            BY <2>15, LeaveStep
        <2> QED
            BY <1>2, <2>1, <2>2, <2>3, <2>4, <2>5, <2>6, <2>7, <2>8, <2>9, <2>10, <2>11, <2>12,
               <2>13, <2>14, <2>15 DEF Step
    <1>3. CASE User
        BY <1>3, UserTypes
    <1>4. CASE UNCHANGED vars
        BY <1>4 DEF vars, files, TypeInv, FileTypes, RecordTypes, JournalTypes, CommandTypes,
                    Journalled, Installing
    <1> QED
        BY <1>1, <1>2, <1>3, <1>4 DEF Next

\* Types: every record names only files of its own scope, values that a file may hold
\* and releases that exist, whatever the commands and the user do.
THEOREM TypeCorrect == Spec => []TypeOK
    <1>1. Init => TypeInv
        BY InitTypes, ScopesAssumption
    <1>2. TypeInv /\ [Next]_vars => TypeInv'
        BY TypeInvariant, ScopesAssumption
    <1>3. TypeInv => TypeOK
        <2> SUFFICES ASSUME TypeInv PROVE TypeOK
            OBVIOUS
        <2>1. ASSUME NEW s \in Scopes
              PROVE  /\ tracked[s].files \subseteq Releases /\ tracked[s].mode \in Modes
                     /\ \A p \in Places : tracked[s].mcp[p] # "untouched" => p \in PlacesOf(s)
                     /\ tracked[s].ignore \subseteq IgnoreFiles
                     /\ tracked[s].settings \subseteq Targets
                     /\ ~tracked[s].on => tracked[s] = NoRecord
            BY DEF TypeInv, RecordTypes, Sound, Records
        <2>2. FileTypes /\ own \in Snapshots
            BY DEF TypeInv
        <2> QED
            BY <2>1, <2>2 DEF TypeOK, FileTypes, Snapshots
    <1> QED
        BY <1>1, <1>2, <1>3, PTL DEF Spec

-----------------------------------------------------------------------------
(***************************************************************************)
(* One command at a time, and what it loaded.                              *)
(***************************************************************************)
\* A command that goes on, or ends, with what it loaded, when tracked.json stays.
LEMMA Undisturbed ==
    ASSUME CommandTypes, OneRuns, Loaded, NEW c \in Classes, Busy(c),
           \A d \in Classes \ {c} : cmd'[d] = cmd[d], tracked' = tracked,
           \/ ~Busy(c)' \/ At(c, "load")'
           \/ At(c, "commit")'
           \/ /\ cmd[c].pc \notin {"load", "commit"} /\ cmd'[c].mem = cmd[c].mem
              /\ cmd'[c].prev = cmd[c].prev /\ cmd'[c].scope = cmd[c].scope
           \/ cmd'[c].mem = tracked /\ cmd'[c].prev = tracked[cmd'[c].scope]
    PROVE  OneRuns' /\ Loaded'
    <1>1. \A d \in Classes \ {c} : cmd[d].pc = "idle"
        BY DEF OneRuns, Busy
    <1>2. OneRuns'
        BY <1>1 DEF OneRuns, Busy
    <1>3. Loaded'
        BY <1>1 DEF Loaded, Busy, At
    <1> QED
        BY <1>2, <1>3

\* What a step of a command does to it and to tracked.json: it ends, loads, saves, or
\* goes on with what it loaded.
LEMMA MemoryStep ==
    ASSUME ScopesAssumption, TypeInv, NEW c \in Classes, Step(c) \/ Crash(c)
    PROVE  /\ Busy(c) /\ \A d \in Classes \ {c} : cmd'[d] = cmd[d]
           /\ tracked' = tracked \/ Save(c) \/ Forget(c)
           /\ \/ ~Busy(c)' \/ At(c, "commit")'
              \/ /\ tracked' = tracked /\ cmd[c].pc \notin {"load", "commit"}
                 /\ cmd'[c].mem = cmd[c].mem
                 /\ cmd'[c].prev = cmd[c].prev /\ cmd'[c].scope = cmd[c].scope
              \/ /\ tracked' = tracked /\ At(c, "load")
                 /\ cmd'[c].mem = tracked /\ cmd'[c].prev = tracked[cmd'[c].scope]
    <1>0. CommandTypes
        BY DEF TypeInv
    <1>1. CASE Load(c)
        <2>1. UNCHANGED tracked /\ Busy(c) /\ \A d \in Classes \ {c} : cmd'[d] = cmd[d]
            BY <1>1, LoadStep, EndStep, <1>0 DEF Continues, Busy, At
        <2>2. ~Busy(c)' \/ (cmd'[c].mem = tracked /\ cmd'[c].prev = tracked[cmd'[c].scope])
            <3>1. CASE End(c)
                BY <3>1, EndStep, <1>0 DEF Busy, Idle
            <3>2. CASE ~End(c)
                BY <1>1, <3>2, LoadStep DEF Continues
            <3> QED
                BY <3>1, <3>2
        <2> QED
            BY <1>1, <2>1, <2>2 DEF Load
    <1>2. CASE Begin(c) \/ Extract(c) \/ Edit(c) \/ RemoveStale(c) \/ Ignore(c)
               \/ RemoveFiles(c) \/ RevertSettings(c) \/ RestoreMcp(c) \/ Unignore(c)
        <2>1. /\ Continues(c) /\ UNCHANGED tracked /\ cmd'[c].mem = cmd[c].mem
              /\ cmd'[c].prev = cmd[c].prev /\ cmd[c].pc \notin {"idle", "load", "commit"}
            <3>1. CASE Begin(c)
                BY <3>1, BeginStep DEF At
            <3>2. CASE Extract(c)
                BY <3>2, ExtractStep DEF At
            <3>3. CASE Edit(c)
                BY <3>3, EditStep DEF At
            <3>4. CASE RemoveStale(c)
                BY <3>4, RemoveStaleStep DEF At
            <3>5. CASE Ignore(c)
                <4>1. PICK f \in IgnoreFiles : f = LineFile(c)
                    BY LineTypes
                <4>2. PICK new \in SUBSET IgnoreFiles : new = MissingLine(c, f)
                    BY LineTypes
                <4>3. At(c, "ignore")
                    BY <3>5, <4>1, <4>2, IgnoreStep
                <4>4. /\ Continues(c) /\ UNCHANGED tracked /\ cmd'[c].mem = cmd[c].mem
                      /\ cmd'[c].prev = cmd[c].prev
                    <5>1. Continues(c)
                        BY <3>5, <4>1, <4>2, IgnoreStep
                    <5>2. cmd'[c].mem = cmd[c].mem
                        BY <1>0, <3>5 DEF Ignore, CommandTypes, CommandRecords
                    <5>3. cmd'[c].prev = cmd[c].prev
                        BY <1>0, <3>5 DEF Ignore, CommandTypes, CommandRecords
                    <5>4. UNCHANGED tracked
                        BY <3>5 DEF Ignore
                    <5> QED
                        BY <5>1, <5>2, <5>3, <5>4
                <4> QED
                    BY <4>3, <4>4 DEF At
            <3>6. CASE RemoveFiles(c)
                BY <3>6, RemoveFilesStep DEF At
            <3>7. CASE RevertSettings(c)
                BY <3>7, RevertSettingsStep DEF At
            <3>8. CASE RestoreMcp(c)
                BY <3>8, RestoreMcpStep DEF At
            <3>9. CASE Unignore(c)
                BY <3>9, UnignoreStep DEF At
            <3> QED
                BY <1>2, <3>1, <3>2, <3>3, <3>4, <3>5, <3>6, <3>7, <3>8, <3>9
        <2> QED
            BY <2>1 DEF Continues, Busy
    <1>3. CASE Commit(c) \/ Fail(c) \/ GiveUp(c) \/ Crash(c)
        <2>1. End(c) /\ UNCHANGED tracked /\ Busy(c)
            <3>1. CASE Commit(c)
                BY <3>1, CommitStep DEF At, Busy
            <3>2. CASE Fail(c)
                BY <3>2, FailStep DEF Installing, Busy
            <3>3. CASE GiveUp(c) \/ Crash(c)
                BY <3>3, LeaveStep
            <3> QED
                BY <1>3, <3>1, <3>2, <3>3
        <2>2. ~Busy(c)' /\ \A d \in Classes \ {c} : cmd'[d] = cmd[d]
            BY <1>0, <2>1, EndStep DEF Busy, Idle
        <2> QED
            BY <2>1, <2>2
    <1>4. CASE Save(c) \/ Forget(c)
        <2>1. /\ Busy(c) /\ \A d \in Classes \ {c} : cmd'[d] = cmd[d]
              /\ At(c, "commit")' \/ ~Busy(c)'
            <3>1. CASE Save(c)
                BY <3>1, SaveStep DEF At, Busy, Continues
            <3>2. CASE Forget(c)
                BY <1>0, <3>2, ForgetStep, EndStep DEF At, Busy, Idle
            <3> QED
                BY <1>4, <3>1, <3>2
        <2> QED
            BY <1>4, <2>1
    <1> QED
        BY <1>1, <1>2, <1>3, <1>4 DEF Step

\* While global and local commands exclude each other, tracked.json is as the running
\* command loaded it.
LEMMA ExclusiveStep ==
    ASSUME ScopesAssumption, ~Overlap, TypeInv, OneRuns, Loaded, [Next]_vars
    PROVE  OneRuns' /\ Loaded'
    <1>0. CommandTypes
        BY DEF TypeInv
    <1>1. ASSUME NEW s \in Scopes, NEW k \in {"install", "update", "uninstall"}, Invoke(s, k)
          PROVE  OneRuns' /\ Loaded'
        <2>1. /\ \A d \in Classes \ {ClassOf(s)} : cmd'[d] = cmd[d]
              /\ At(ClassOf(s), "load")' /\ UNCHANGED tracked
            BY <1>1, InvokeStep
        <2>2. \A d \in Classes : cmd[d].pc = "idle"
            BY <1>1 DEF Invoke, Quiet, Busy
        <2>3. OneRuns'
            BY <2>1, <2>2 DEF OneRuns, Busy
        <2>4. Loaded'
            BY <2>1, <2>2 DEF Loaded, At
        <2> QED
            BY <2>3, <2>4
    <1>2. ASSUME NEW c \in Classes, Step(c) \/ Crash(c) PROVE OneRuns' /\ Loaded'
        <2>1. CASE Save(c) \/ Forget(c)
            <3>1. \A d \in Classes \ {c} : cmd'[d].pc = "idle"
                BY <1>2, MemoryStep DEF OneRuns, Busy
            <3>2. At(c, "commit")' \/ ~Busy(c)'
                <4>1. CASE Save(c)
                    BY <4>1, SaveStep DEF At
                <4>2. CASE Forget(c)
                    BY <1>0, <4>2, ForgetStep, EndStep DEF Busy, Idle
                <4> QED
                    BY <2>1, <4>1, <4>2
            <3> QED
                BY <3>1, <3>2 DEF OneRuns, Loaded, Busy, At
        <2>2. CASE ~(Save(c) \/ Forget(c))
            BY <1>0, <1>2, <2>2, MemoryStep, Undisturbed
        <2> QED
            BY <2>1, <2>2
    <1>3. CASE User
        BY <1>3 DEF User, OneRuns, Loaded, Busy
    <1>4. CASE UNCHANGED vars
        BY <1>4 DEF vars, OneRuns, Loaded, Busy
    <1> QED
        BY <1>1, <1>2, <1>3, <1>4 DEF Next

\* A step that opens no journal leaves every open one with its command.
LEMMA JournalsKept ==
    ASSUME JournalsUsed, \A x \in Scopes : journal'[x].open => journal[x].open,
           \A d \in Classes : Busy(d)' =>
              /\ Busy(d) /\ cmd'[d].scope = cmd[d].scope /\ cmd'[d].kind = cmd[d].kind
              /\ Installing(d) => Installing(d)'
    PROVE  JournalsUsed'
    <1>1. \A s, x \in Roots : journal'[s].open /\ journal'[x].open => s = x
        BY DEF JournalsUsed, Scopes
    <1> QED
        BY <1>1 DEF JournalsUsed

\* With crashed commands run again, only the running command has a journal of its class.
LEMMA JournalsStep ==
    ASSUME ScopesAssumption, RerunFirst, TypeInv, JournalsUsed, [Next]_vars
    PROVE  JournalsUsed'
    <1>0. CommandTypes
        BY DEF TypeInv
    <1>1. ASSUME NEW s \in Scopes, NEW k \in {"install", "update", "uninstall"}, Invoke(s, k)
          PROVE  JournalsUsed'
        <2>1. /\ \A d \in Classes \ {ClassOf(s)} : cmd'[d] = cmd[d]
              /\ cmd'[ClassOf(s)].scope = s /\ cmd'[ClassOf(s)].kind = k /\ UNCHANGED journal
            BY <1>1, InvokeStep
        <2>2. \A x \in Scopes : ClassOf(x) = ClassOf(s) /\ journal[x].open => s = x /\ k = "install"
            BY <1>1 DEF Invoke
        <2>3. ASSUME NEW d \in Classes, NEW x \in Scopes, Busy(d)', ClassOf(x) = d, journal'[x].open
              PROVE  x = cmd'[d].scope /\ (Installing(d)' \/ cmd'[d].kind = "install")
            <3>1. CASE d = ClassOf(s)
                BY <2>1, <2>2, <2>3, <3>1
            <3>2. CASE d # ClassOf(s)
                <4>1. cmd'[d] = cmd[d] /\ Busy(d) /\ journal[x].open
                    BY <2>1, <2>3, <3>2 DEF Busy
                <4> QED
                    BY <2>3, <4>1 DEF JournalsUsed, Installing
            <3> QED
                BY <3>1, <3>2
        <2> QED
            BY <2>1, <2>3 DEF JournalsUsed
    <1>2. ASSUME NEW c \in Classes, Begin(c) PROVE JournalsUsed'
        <2> DEFINE s == cmd[c].scope
        <2>1. /\ s \in Scopes /\ ClassOf(s) = c /\ Busy(c) /\ Continues(c) /\ Installing(c)'
              /\ \A x \in Scopes \ {s} : journal'[x] = journal[x]
            BY <1>0, <1>2, BeginStep DEF CommandTypes, Sensible, At, Busy, Installing
        <2>2. \A x \in Scopes \ {s} : ClassOf(x) = c => ~journal'[x].open
            BY <2>1 DEF JournalsUsed
        <2>3. ASSUME NEW y \in Roots, NEW x \in Roots, journal'[y].open, journal'[x].open PROVE x = y
            <3>1. CASE c = "local"
                BY <2>2, <2>3, <3>1, ScopesAssumption DEF Scopes, ClassOf
            <3>2. CASE c # "local"
                <4>1. x # s /\ y # s
                    BY <2>1, <3>2, ScopesAssumption DEF ClassOf
                <4> QED
                    BY <2>1, <2>3, <4>1 DEF JournalsUsed, Scopes
            <3> QED
                BY <3>1, <3>2
        <2>4. ASSUME NEW d \in Classes, NEW x \in Scopes, Busy(d)', ClassOf(x) = d, journal'[x].open
              PROVE  x = cmd'[d].scope /\ (Installing(d)' \/ cmd'[d].kind = "install")
            <3>1. CASE d = c
                BY <2>1, <2>2, <2>4, <3>1 DEF Continues
            <3>2. CASE d # c
                <4>1. cmd'[d] = cmd[d] /\ Busy(d) /\ journal[x].open
                    BY <2>1, <2>4, <3>2 DEF Busy, Continues
                <4> QED
                    BY <2>4, <4>1 DEF JournalsUsed, Installing
            <3> QED
                BY <3>1, <3>2
        <2> QED
            BY <2>3, <2>4 DEF JournalsUsed
    <1>3. ASSUME NEW c \in Classes, Step(c) \/ Crash(c), ~Begin(c) PROVE JournalsUsed'
        <2>1. CASE End(c)
            <3>1. ~Busy(c)' /\ \A d \in Classes \ {c} : cmd'[d] = cmd[d]
                BY <1>0, <2>1, EndStep DEF Busy, Idle
            <3>2. \A x \in Scopes : journal'[x].open => journal[x].open
                <4>1. CASE UNCHANGED journal
                    BY <4>1
                <4>2. CASE journal' = [journal EXCEPT ![cmd[c].scope] = NoJournal]
                    BY <4>2 DEF TypeInv, JournalTypes, NoJournal
                <4>3. UNCHANGED journal \/ journal' = [journal EXCEPT ![cmd[c].scope] = NoJournal]
                    <5>1. CASE Extract(c) \/ Edit(c) \/ Ignore(c)
                        <6>1. cmd'[c].pc # "idle"
                            <7>1. CASE Edit(c)
                                BY <7>1, EditStep
                            <7>2. CASE Extract(c)
                                BY <7>2, ExtractStep
                            <7>3. CASE Ignore(c)
                                BY <7>3, <1>0 DEF Ignore, CommandTypes, CommandRecords
                            <7> QED
                                BY <5>1, <7>1, <7>2, <7>3
                        <6> QED
                            BY <3>1, <6>1 DEF Busy
                    <5> QED
                        BY <1>3, <5>1 DEF Step, Load, RemoveStale, Save, Commit, Fail, RemoveFiles,
                            RevertSettings, RestoreMcp, Unignore, Forget, GiveUp, Crash
                <4> QED
                    BY <4>1, <4>2, <4>3
            <3> QED
                BY <3>1, <3>2, JournalsKept DEF Busy, Installing
        <2>2. CASE ~End(c)
            <3>1. Continues(c) /\ Busy(c) /\ Busy(c)' /\ (Installing(c) => Installing(c)')
                <4>1. CASE Load(c)
                    BY <2>2, <4>1, LoadStep DEF At, Busy, Installing
                <4>2. CASE Extract(c) \/ Edit(c) \/ RemoveStale(c)
                    BY <4>2, ExtractStep, EditStep, RemoveStaleStep DEF At, Busy, Installing
                <4>3. CASE Ignore(c)
                    BY <1>0, <4>3 DEF Ignore, CommandTypes, CommandRecords, Continues, Busy, At, Installing
                <4>4. CASE Save(c)
                    BY <4>4, SaveStep DEF At, Busy, Installing
                <4>5. CASE RemoveFiles(c) \/ RevertSettings(c)
                    BY <4>5, RemoveFilesStep, RevertSettingsStep DEF At, Busy, Installing
                <4>6. CASE RestoreMcp(c) \/ Unignore(c)
                    BY <4>6, RestoreMcpStep, UnignoreStep DEF At, Busy, Installing
                <4>7. CASE Commit(c) \/ Fail(c) \/ Forget(c) \/ GiveUp(c) \/ Crash(c)
                    BY <2>2, <4>7 DEF Commit, Fail, Forget, GiveUp, Crash
                <4> QED
                    BY <1>3, <4>1, <4>2, <4>3, <4>4, <4>5, <4>6, <4>7 DEF Step
            <3>2. \A x \in Scopes : journal'[x].open => journal[x].open
                <4>1. CASE UNCHANGED journal
                    BY <4>1
                <4>2. ASSUME NEW what, Touch(cmd[c].scope, what) PROVE \A x \in Scopes : journal'[x].open => journal[x].open
                    BY <4>2, <1>0 DEF TypeInv, JournalTypes, Journals, Touch, CommandTypes, CommandRecords
                <4> QED
                    BY <1>3, <2>2, <4>1, <4>2 DEF Step, Load, Extract, Edit, Ignore, RemoveStale, Save, Commit, Fail, RemoveFiles,
                            RevertSettings, RestoreMcp, Unignore, Forget, GiveUp, Crash
            <3> QED
                BY <3>1, <3>2, JournalsKept DEF Busy, Installing, Continues
        <2> QED
            BY <2>1, <2>2
    <1>4. CASE User \/ UNCHANGED vars
        BY <1>4 DEF User, vars, JournalsUsed, Busy, Installing
    <1> QED
        BY <1>1, <1>2, <1>3, <1>4 DEF Next, Step

-----------------------------------------------------------------------------
(***************************************************************************)
(* Commands of both classes at once.  They take different locks, so that   *)
(* one may write tracked.json between the other's load and its save.  A    *)
(* history variable remembers it.                                          *)
(***************************************************************************)
VARIABLE overtaken   \* whether a command of the other class has written since this one loaded

Writes(c) == Save(c) \/ Forget(c)

Watch ==
    overtaken' = [c \in Classes |->
                     ~At(c, "load") /\ (overtaken[c] \/ \E d \in Classes \ {c} : Writes(d))]

WatchedSpec ==
    /\ Init /\ overtaken = [c \in Classes |-> FALSE]
    /\ [][Next /\ Watch]_<<vars, overtaken>>

\* Another scope's record changes only through a command that was overtaken.
OnlyOvertaken ==
    \A s \in Scopes :
        tracked'[s] # tracked[s] =>
            \E c \in Classes : Writes(c) /\ (cmd[c].scope = s \/ overtaken[c])

\* A command that was not overtaken has tracked.json in memory as it is.
Current ==
    \A c \in Classes :
        cmd[c].pc \notin {"idle", "load", "commit"} => overtaken[c] \/ cmd[c].mem = tracked

\* Only a save and an uninstall's end write tracked.json.
LEMMA WrittenBy ==
    ASSUME [Next]_vars, tracked' # tracked PROVE \E c \in Classes : Writes(c)
    BY DEF Next, Step, vars, Writes, Invoke, Load, Begin, Extract, Edit, RemoveStale, Ignore, Commit,
        Fail, RemoveFiles, RevertSettings, RestoreMcp, Unignore, GiveUp, Crash, User

\* Whatever is current stays so.
LEMMA CurrentStep ==
    ASSUME ScopesAssumption, TypeInv, Current, Next, Watch PROVE Current'
    <1>1. ASSUME NEW s \in Scopes, NEW k \in {"install", "update", "uninstall"}, Invoke(s, k)
          PROVE  Current'
        <2>1. /\ \A d \in Classes \ {ClassOf(s)} : cmd'[d] = cmd[d]
              /\ At(ClassOf(s), "load")' /\ tracked' = tracked
            BY <1>1, InvokeStep
        <2>2. \A d \in Classes : At(d, "load") \/ (overtaken[d] => overtaken'[d])
            BY DEF Watch
        <2> QED
            BY <2>1, <2>2 DEF Current, At
    <1>2. ASSUME NEW c \in Classes, Step(c) \/ Crash(c) PROVE Current'
        <2>1. \A d \in Classes \ {c} : cmd'[d] = cmd[d]
            BY <1>2, MemoryStep
        <2>2. ASSUME NEW d \in Classes \ {c}, cmd'[d].pc \notin {"idle", "load", "commit"}
              PROVE  overtaken'[d] \/ cmd'[d].mem = tracked'
            <3>1. cmd'[d] = cmd[d] /\ ~At(d, "load")
                BY <2>1, <2>2 DEF At
            <3>2. CASE Writes(c)
                BY <3>1, <3>2 DEF Watch
            <3>3. CASE ~Writes(c)
                <4>1. tracked' = tracked
                    BY <1>2, <3>3, MemoryStep DEF Writes
                <4>2. overtaken[d] => overtaken'[d]
                    BY <3>1 DEF Watch
                <4> QED
                    BY <2>2, <3>1, <4>1, <4>2 DEF Current
            <3> QED
                BY <3>2, <3>3
        <2>3. ASSUME cmd'[c].pc \notin {"idle", "load", "commit"}
              PROVE  overtaken'[c] \/ cmd'[c].mem = tracked'
            <3>1. \/ tracked' = tracked /\ cmd[c].pc \notin {"load", "commit"}
                     /\ cmd'[c].mem = cmd[c].mem
                  \/ tracked' = tracked /\ cmd'[c].mem = tracked
                BY <1>2, <2>3, MemoryStep DEF Busy, At
            <3>2. cmd[c].pc # "idle"
                BY <1>2, MemoryStep DEF Busy
            <3>3. At(c, "load") \/ (overtaken[c] => overtaken'[c])
                BY DEF Watch
            <3> QED
                BY <3>1, <3>2, <3>3 DEF Current, At
        <2> QED
            BY <2>2, <2>3 DEF Current
    <1>3. CASE User
        <2>1. \A d \in Classes : ~Busy(d)
            BY <1>3 DEF User, Settled, Quiet
        <2> QED
            BY <1>3, <2>1 DEF User, Current, Busy
    <1> QED
        BY <1>1, <1>2, <1>3 DEF Next

\* A command writes the records of all scopes.  With commands of both classes under way
\* at once, it leaves the records of the other scopes as they are, unless the other
\* command has written tracked.json since this one loaded it: that is the only way in
\* which a record is lost (SaveTrackedState, the locks global-flow and local-flow).
THEOREM OthersKeptUnlessOvertaken == WatchedSpec => [][OnlyOvertaken]_vars
    <1> DEFINE Known == TypeInv /\ Current
    <1>1. Init /\ overtaken = [c \in Classes |-> FALSE] => Known
        <2>1. Init => TypeInv
            BY InitTypes, ScopesAssumption
        <2>2. Init => Current
            BY DEF Init, Current, Idle
        <2> QED
            BY <2>1, <2>2
    <1>2. Known /\ [Next /\ Watch]_<<vars, overtaken>> => Known'
        <2> SUFFICES ASSUME Known, [Next /\ Watch]_<<vars, overtaken>> PROVE Known'
            OBVIOUS
        <2>1. TypeInv'
            BY TypeInvariant, ScopesAssumption
        <2>2. CASE Next /\ Watch
            BY <2>1, <2>2, CurrentStep, ScopesAssumption
        <2>3. CASE UNCHANGED <<vars, overtaken>>
            BY <2>1, <2>3 DEF vars, Current
        <2> QED
            BY <2>2, <2>3
    <1>3. Known /\ [Next /\ Watch]_<<vars, overtaken>> => [OnlyOvertaken]_vars
        <2> SUFFICES ASSUME Known, Next, NEW s \in Scopes, tracked'[s] # tracked[s]
                     PROVE  \E c \in Classes : Writes(c) /\ (cmd[c].scope = s \/ overtaken[c])
            BY DEF vars, OnlyOvertaken
        <2>1. PICK c \in Classes : Writes(c)
            BY WrittenBy
        <2>2. /\ cmd[c].pc \notin {"idle", "load", "commit"}
              /\ \A x \in Scopes \ {cmd[c].scope} : tracked'[x] = cmd[c].mem[x]
            <3>1. CASE Save(c)
                BY <3>1, SaveStep DEF At
            <3>2. CASE Forget(c)
                BY <3>2, ForgetStep DEF At
            <3> QED
                BY <2>1, <3>1, <3>2 DEF Writes
        <2>3. overtaken[c] \/ cmd[c].mem = tracked
            BY <2>2 DEF Current
        <2> QED
            BY <2>1, <2>2, <2>3
    <1> HIDE DEF Known
    <1> QED
        BY <1>1, <1>2, <1>3, PTL DEF WatchedSpec

-----------------------------------------------------------------------------
(***************************************************************************)
(* What a rollback would restore.                                          *)
(***************************************************************************)
NoneCommits == \A d \in Classes : ~At(d, "commit")

\* Every file belongs to one scope; no place, ignore file or "agents" is another.
LEMMA Apart ==
    ASSUME ScopesAssumption
    PROVE  /\ "global" \notin Roots /\ "global" \notin Targets
           /\ \A p \in Places :
                 /\ ScopeOf(p) \in Scopes /\ p # "agents" /\ p \notin IgnoreFiles
                 /\ \A s \in Scopes : p \in Touchable(s) \/ p \in PlacesOf(s) => s = ScopeOf(p)
                 /\ p \in PlacesOf(ScopeOf(p))
                 /\ p \in Targets => ScopeOf(p) = "global"
           /\ \A f \in IgnoreFiles : f \notin Touchable("global") /\ f # "agents"
           /\ \A r \in Roots : r \in Scopes /\ ClassOf(r) = "local" /\ ScopeOf(r) = r /\ PlacesOf(r) = {r}
    BY DEF ScopesAssumption, Places, Scopes, ScopeOf, Touchable, PlacesOf, IgnoreFiles, ClassOf

\* All other commands are idle.
LEMMA Alone ==
    ASSUME OneRuns, NEW c \in Classes, Busy(c)
    PROVE  /\ \A d \in Classes \ {c} : cmd[d].pc = "idle"
           /\ ~At(c, "commit") => NoneCommits
    BY DEF OneRuns, Busy, NoneCommits, At

\* What the steps of a command say of the others.
LEMMA OthersIdle ==
    ASSUME NEW c \in Classes, \A d \in Classes \ {c} : cmd'[d].pc = "idle"
    PROVE  /\ \A d \in Classes \ {c} : Progress(d)' /\ Removal(d)'
           /\ ~At(c, "commit")' => NoneCommits'
    BY DEF Progress, Removal, NoneCommits, At

\* The journals of a class in which an uninstall runs are closed, and so are those of the
\* other local roots when a local command runs.
LEMMA OwnJournal ==
    ASSUME ScopesAssumption, TypeInv, JournalsUsed, NEW c \in Classes, Busy(c)
    PROVE  /\ cmd[c].scope \in Scopes /\ ClassOf(cmd[c].scope) = c
           /\ cmd[c].pc \in Removing => journal[cmd[c].scope].touched = {}
           /\ cmd[c].scope \in Roots => \A x \in Roots \ {cmd[c].scope} : journal[x].touched = {}
           /\ cmd[c].scope \in Roots /\ cmd[c].pc \in Removing => \A x \in Roots : journal[x].touched = {}
    <1> DEFINE s == cmd[c].scope
    <1>1. s \in Scopes /\ ClassOf(s) = c /\ (cmd[c].pc \in Removing => cmd[c].kind = "uninstall" /\ ~Installing(c))
        BY DEF TypeInv, CommandTypes, CommandRecords, Sensible, Busy, Removing, Installing
    <1>2. \A x \in Scopes : ~journal[x].open => journal[x].touched = {}
        BY DEF TypeInv, JournalTypes, Kept
    <1>3. ASSUME cmd[c].pc \in Removing PROVE journal[s].touched = {}
        BY <1>1, <1>2, <1>3 DEF JournalsUsed
    <1>4. ASSUME s \in Roots, NEW x \in Roots, x # s PROVE journal[x].touched = {}
        <2>1. x \in Scopes /\ ClassOf(x) = c
            BY <1>1, <1>4, Apart
        <2> QED
            BY <1>2, <1>4, <2>1 DEF JournalsUsed
    <1> QED
        BY <1>1, <1>3, <1>4

\* What the rollback would restore decides, together with the records.
LEMMA OwnersKept ==
    ASSUME Owners, UNCHANGED <<tracked, own>>,
           \A p \in Places : McpThen(p)' = McpThen(p),
           \A t \in Targets : SettingThen(t)' <=> SettingThen(t),
           \A r \in Roots, f \in IgnoreFiles : LineThen(r, f)' <=> LineThen(r, f),
           \A r \in Roots : AgentsThen(r)' \subseteq AgentsThen(r)
    PROVE  Owners'
    <1>1. McpOwned'
        BY DEF Owners, McpOwned, Before
    <1>2. SettingsOwned'
        BY DEF Owners, SettingsOwned
    <1>3. LinesOwned'
        BY DEF Owners, LinesOwned
    <1>4. AgentsOwned'
        BY DEF Owners, AgentsOwned
    <1> QED
        BY <1>1, <1>2, <1>3, <1>4 DEF Owners

\* Nothing is changed.
LEMMA OwnersSame ==
    ASSUME Owners, UNCHANGED <<tracked, own, files, journal>>, NoneCommits, NoneCommits'
    PROVE  Owners'
    <1>1. \A p \in Places : McpThen(p)' = McpThen(p)
        BY DEF McpThen, Undoable, NoneCommits, files
    <1>2. \A t \in Targets : SettingThen(t)' <=> SettingThen(t)
        BY DEF SettingThen, Undoable, NoneCommits, files
    <1>3. \A r \in Roots, f \in IgnoreFiles : LineThen(r, f)' <=> LineThen(r, f)
        BY DEF LineThen, Undoable, NoneCommits, files
    <1>4. \A r \in Roots : AgentsThen(r)' \subseteq AgentsThen(r)
        BY DEF AgentsThen, Undoable, NoneCommits, files
    <1> QED
        BY <1>1, <1>2, <1>3, <1>4, OwnersKept

\* A rollback makes the files what it was said to restore.
LEMMA RollBackOwners ==
    ASSUME ScopesAssumption, TypeInv, Control, Owners, NEW c \in Classes, Busy(c),
           ~At(c, "commit"), NoneCommits', RollBack(cmd[c].scope), UNCHANGED <<tracked, own>>,
           \A x \in Scopes \ {cmd[c].scope} : journal'[x] = journal[x],
           journal'[cmd[c].scope].touched = {}
    PROVE  Owners'
    <1> DEFINE s == cmd[c].scope
    <1>1. PICK w : w = s
        OBVIOUS
    <1>2. /\ s \in Scopes /\ NoneCommits
          /\ s \in Roots => \A x \in Roots \ {s} : journal[x].touched = {}
        BY Alone, OwnJournal DEF Control
    <1>3. /\ \A p \in Places : mcp'[p] = IF p \in journal[s].touched THEN journal[s].old.mcp[p] ELSE mcp[p]
          /\ \A t \in Targets : t \in settings' <=>
                 IF t \in journal[s].touched THEN t \in journal[s].old.settings ELSE t \in settings
          /\ \A f \in IgnoreFiles : ignored'[f] =
                 IF f \in journal[s].touched THEN journal[s].old.ignored[f] ELSE ignored[f]
          /\ \A x \in Scopes : agents'[x] =
                 IF x = s /\ "agents" \in journal[s].touched THEN journal[s].old.agents[x] ELSE agents[x]
        BY <1>2, RollBackTypes
    <1>4. \A x \in Scopes : journal[x].touched \subseteq Touchable(x)
        BY DEF TypeInv, JournalTypes, Kept
    <1>5. ASSUME NEW p \in Places PROVE McpThen(p)' = McpThen(p)
        <2>1. ScopeOf(p) \in Scopes /\ (p \in journal[s].touched => ScopeOf(p) = s)
            BY <1>2, <1>4, Apart
        <2>2. CASE ScopeOf(p) = s
            BY <1>2, <1>3, <2>2 DEF McpThen, Undoable, NoneCommits
        <2>3. CASE ScopeOf(p) # s
            BY <1>2, <1>3, <2>1, <2>3 DEF McpThen, Undoable, NoneCommits
        <2> QED
            BY <2>2, <2>3
    <1>6. ASSUME NEW t \in Targets PROVE SettingThen(t)' <=> SettingThen(t)
        <2>1. ScopeOf(t) = "global" /\ "global" \in Scopes /\ (t \in journal[s].touched => "global" = s)
            BY <1>2, <1>4, Apart DEF Places
        <2>2. CASE "global" = s
            BY <1>2, <1>3, <2>2 DEF SettingThen, Undoable, NoneCommits
        <2>3. CASE "global" # s
            BY <1>2, <1>3, <2>1, <2>3 DEF SettingThen, Undoable, NoneCommits
        <2> QED
            BY <2>2, <2>3
    <1>7. ASSUME NEW r \in Roots, NEW f \in IgnoreFiles PROVE LineThen(r, f)' <=> LineThen(r, f)
        <2>1. CASE s \in Roots
            <3>1. \A x \in Roots \ {s} : journal'[x].touched = {} /\ journal[x].touched = {}
                BY <1>2, <2>1 DEF Scopes
            <3>2. LineThen(r, f)' <=> r \in ignored'[f]
                BY <3>1 DEF LineThen, Undoable
            <3>3. LineThen(r, f) <=> IF f \in journal[s].touched THEN r \in journal[s].old.ignored[f]
                                     ELSE r \in ignored[f]
                BY <1>2, <2>1, <3>1 DEF LineThen, Undoable, NoneCommits
            <3> QED
                BY <1>3, <3>2, <3>3
        <2>2. CASE s \notin Roots
            <3>1. s = "global" /\ f \notin journal[s].touched
                BY <1>2, <1>4, <2>2, Apart DEF Scopes
            <3>2. \A x \in Roots : journal'[x] = journal[x]
                BY <2>2 DEF Scopes
            <3>3. ignored'[f] = ignored[f]
                BY <1>3, <3>1
            <3> QED
                BY <1>2, <3>2, <3>3 DEF LineThen, Undoable, NoneCommits
        <2> QED
            BY <2>1, <2>2
    <1>8. ASSUME NEW r \in Roots PROVE AgentsThen(r)' \subseteq AgentsThen(r)
        <2>1. CASE r = s
            BY <1>2, <1>3, <2>1 DEF AgentsThen, Undoable, NoneCommits
        <2>2. CASE r # s
            <3>1. journal'[r] = journal[r] /\ agents'[r] = agents[r]
                BY <1>3, <2>2 DEF Scopes
            <3> QED
                BY <1>2, <3>1 DEF AgentsThen, Undoable, NoneCommits
        <2> QED
            BY <2>1, <2>2
    <1> QED
        BY <1>5, <1>6, <1>7, <1>8, OwnersKept

\* A command writes what its journal lists, and lists what is as it was found: that
\* leaves what the rollback would restore.
LEMMA WriteOwners ==
    ASSUME ScopesAssumption, TypeInv, TypeInv', JournalsUsed, Owners, NoneCommits, NoneCommits',
           UNCHANGED <<tracked, own>>,
           NEW s \in Scopes, NEW what,
           \A x \in Scopes \ {s} : journal'[x] = journal[x],
           journal'[s].old = journal[s].old, journal'[s].touched = journal[s].touched \union what,
           s \in Roots => \A x \in Roots \ {s} : journal[x].touched = {},
           \A p \in Places \intersect what : Unedited(s, p),
           \A f \in IgnoreFiles \intersect what : ignored[f] = journal[s].old.ignored[f],
           "agents" \in what => agents[s] = journal[s].old.agents[s],
           \A p \in Places : p \notin journal'[s].touched =>
              mcp'[p] = mcp[p] /\ (p \in Targets => (p \in settings' <=> p \in settings)),
           \A f \in IgnoreFiles : f \notin journal'[s].touched => ignored'[f] = ignored[f],
           \A x \in Roots : agents'[x] \subseteq agents[x] \/ (x = s /\ "agents" \in journal'[s].touched)
    PROVE  Owners'
    <1>1. \A x \in Scopes : journal'[x].touched \subseteq Touchable(x)
        BY DEF TypeInv, JournalTypes, Kept
    <1>2. ASSUME NEW p \in Places PROVE McpThen(p)' = McpThen(p)
        <2>1. ScopeOf(p) \in Scopes /\ (p \in journal'[s].touched => ScopeOf(p) = s)
            BY <1>1, Apart
        <2>2. CASE ScopeOf(p) = s
            <3>1. CASE p \in what
                BY <2>2, <3>1 DEF McpThen, Undoable, NoneCommits, Unedited
            <3>2. CASE p \notin what
                BY <2>2, <3>2 DEF McpThen, Undoable, NoneCommits
            <3> QED
                BY <3>1, <3>2
        <2>3. CASE ScopeOf(p) # s
            <3>1. journal'[ScopeOf(p)] = journal[ScopeOf(p)] /\ mcp'[p] = mcp[p]
                BY <2>1, <2>3
            <3> QED
                BY <3>1 DEF McpThen, Undoable, NoneCommits
        <2> QED
            BY <2>2, <2>3
    <1>3. ASSUME NEW t \in Targets PROVE SettingThen(t)' <=> SettingThen(t)
        <2>1. t \in Places /\ "global" \in Scopes /\ (t \in journal'[s].touched => "global" = s)
            BY <1>1, Apart DEF Places, Scopes
        <2>2. CASE "global" = s
            <3>1. CASE t \in what
                BY <2>1, <2>2, <3>1 DEF SettingThen, Undoable, NoneCommits, Unedited
            <3>2. CASE t \notin what
                BY <2>1, <2>2, <3>2 DEF SettingThen, Undoable, NoneCommits
            <3> QED
                BY <3>1, <3>2
        <2>3. CASE "global" # s
            <3>1. journal'["global"] = journal["global"] /\ (t \in settings' <=> t \in settings)
                BY <2>1, <2>3
            <3> QED
                BY <3>1 DEF SettingThen, Undoable, NoneCommits
        <2> QED
            BY <2>2, <2>3
    <1>4. ASSUME NEW r \in Roots, NEW f \in IgnoreFiles PROVE LineThen(r, f)' <=> LineThen(r, f)
        <2>1. CASE s \in Roots
            <3>1. \A x \in Roots \ {s} : journal'[x].touched = {} /\ journal[x].touched = {}
                BY <2>1 DEF Scopes
            <3>2. LineThen(r, f) <=> IF f \in journal[s].touched THEN r \in journal[s].old.ignored[f]
                                     ELSE r \in ignored[f]
                BY <2>1, <3>1 DEF LineThen, Undoable, NoneCommits
            <3>3. LineThen(r, f)' <=> IF f \in journal'[s].touched THEN r \in journal'[s].old.ignored[f]
                                      ELSE r \in ignored'[f]
                BY <2>1, <3>1 DEF LineThen, Undoable, NoneCommits
            <3> QED
                BY <3>2, <3>3
        <2>2. CASE s \notin Roots
            <3>1. s = "global" /\ f \notin journal'[s].touched
                BY <1>1, <2>2, Apart DEF Scopes
            <3>2. (\A x \in Roots : journal'[x] = journal[x]) /\ ignored'[f] = ignored[f]
                BY <2>2, <3>1 DEF Scopes
            <3> QED
                BY <3>2 DEF LineThen, Undoable, NoneCommits
        <2> QED
            BY <2>1, <2>2
    <1>5. ASSUME NEW r \in Roots PROVE AgentsThen(r)' \subseteq AgentsThen(r)
        <2>1. CASE r = s
            <3>1. CASE "agents" \in journal'[s].touched
                <4>1. CASE "agents" \in journal[s].touched
                    BY <2>1, <3>1, <4>1 DEF AgentsThen, Undoable, NoneCommits
                <4>2. CASE "agents" \notin journal[s].touched
                    BY <2>1, <3>1, <4>2 DEF AgentsThen, Undoable, NoneCommits
                <4> QED
                    BY <4>1, <4>2
            <3>2. CASE "agents" \notin journal'[s].touched
                BY <2>1, <3>2 DEF AgentsThen, Undoable, NoneCommits
            <3> QED
                BY <3>1, <3>2
        <2>2. CASE r # s
            <3>1. journal'[r] = journal[r] /\ agents'[r] \subseteq agents[r]
                BY <2>2 DEF Scopes
            <3> QED
                BY <3>1 DEF AgentsThen, Undoable, NoneCommits
        <2> QED
            BY <2>1, <2>2
    <1> QED
        BY <1>2, <1>3, <1>4, <1>5, OwnersKept

\* An uninstall writes what its record owns.
LEMMA RemovalOwners ==
    ASSUME ScopesAssumption, TypeInv, TypeInv', Owners, NoneCommits, NoneCommits',
           UNCHANGED <<tracked, own, journal>>,
           \A p \in Places : mcp'[p] = mcp[p] \/ tracked[ScopeOf(p)].mcp[p] # "untouched",
           \A t \in Targets : (t \in settings' <=> t \in settings)
                              \/ (t \notin settings' /\ t \in tracked["global"].settings),
           \A r \in Roots, f \in IgnoreFiles : (r \in ignored'[f] <=> r \in ignored[f])
                              \/ (r \notin ignored'[f] /\ f \in tracked[r].ignore),
           \A r \in Roots : agents'[r] \subseteq agents[r]
    PROVE  Owners'
    <1>1. McpOwned'
        BY DEF Owners, McpOwned, Before, McpThen, Undoable, NoneCommits
    <1>2. SettingsOwned'
        BY DEF Owners, SettingsOwned, SettingThen, Undoable, NoneCommits
    <1>3. LinesOwned'
        BY DEF Owners, LinesOwned, LineThen, Undoable, NoneCommits
    <1>4. AgentsOwned'
        BY DEF Owners, AgentsOwned, AgentsThen, Undoable, NoneCommits
    <1> QED
        BY <1>1, <1>2, <1>3, <1>4 DEF Owners

-----------------------------------------------------------------------------
(***************************************************************************)
(* The invariant, step by step.                                            *)
(***************************************************************************)
Rest == Owners /\ \A d \in Classes : Progress(d) /\ Removal(d)

\* The other commands are idle before and after a step of c.
LEMMA StepAlone ==
    ASSUME OneRuns, NEW c \in Classes, Busy(c), \A d \in Classes \ {c} : cmd'[d] = cmd[d]
    PROVE  /\ \A d \in Classes \ {c} : Progress(d)' /\ Removal(d)'
           /\ ~At(c, "commit") => NoneCommits
           /\ ~At(c, "commit")' => NoneCommits'
    BY Alone, OthersIdle

\* A command that has just begun, or has ended, says nothing of the files.
LEMMA StepQuiet ==
    ASSUME NEW c \in Classes, cmd'[c].pc \in {"idle", "load", "remove", "commit"}
    PROVE  Progress(c)' /\ Removal(c)'
    BY DEF Progress, Removal

\* The files and records as a command is invoked: nothing changes.
LEMMA InvokeRest ==
    ASSUME ScopesAssumption, ~Overlap, TypeInv, Rest, NEW s \in Scopes,
           NEW k \in {"install", "update", "uninstall"}, Invoke(s, k)
    PROVE  Rest'
    <1>1. PICK c \in Classes : c = ClassOf(s)
        BY DEF ClassOf, Classes
    <1>2. /\ \A d \in Classes \ {c} : cmd'[d] = cmd[d]
          /\ At(c, "load")' /\ UNCHANGED <<tracked, files, journal, own>>
        BY <1>1, InvokeStep
    <1>3. \A d \in Classes : cmd[d].pc = "idle"
        BY DEF Invoke, Quiet, Busy
    <1>4. NoneCommits /\ NoneCommits'
        BY <1>2, <1>3 DEF NoneCommits, At
    <1>5. \A d \in Classes : Progress(d)' /\ Removal(d)'
        BY <1>2, <1>3, StepQuiet DEF At
    <1> QED
        BY <1>2, <1>4, <1>5, OwnersSame DEF Rest

\* A local record has no settings.
LEMMA NoSettings ==
    ASSUME ScopesAssumption, NEW r \in Roots, NEW rec, Sound(r, rec)
    PROVE  rec.settings = {}
    BY Apart DEF Sound, Records, Places

\* Loading: the new record starts from the one on disk.
LEMMA LoadRest ==
    ASSUME ScopesAssumption, KeepTargets, TypeInv, TypeInv', Control, Rest, NEW c \in Classes, Load(c)
    PROVE  Rest'
    <1> DEFINE s == cmd[c].scope
    <1>1. /\ UNCHANGED <<tracked, files, journal, own>> /\ At(c, "load") /\ Busy(c)
          /\ \A d \in Classes \ {c} : cmd'[d] = cmd[d]
        BY LoadStep, EndStep DEF Continues, TypeInv, At, Busy
    <1>2. /\ cmd'[c].pc \in {"idle", "remove", "begin"}
          /\ cmd'[c].pc = "begin" =>
                cmd'[c].scope = s /\ Prepared(c)' /\ Removal(c)'
        <2>1. CASE End(c)
            BY <2>1, EndStep DEF Idle, TypeInv
        <2>2. CASE cmd'[c].pc = "remove"
            BY <2>2
        <2>3. ASSUME s # "global", Continues(c), cmd'[c].pc = "begin", cmd'[c].todo = {s},
                     cmd'[c].next = LocalStart(s, cmd[c].kind, cmd[c].mode, tracked[s])
              PROVE  Prepared(c)'
            <3>1. s \in Roots /\ cmd[c].mode \in Modes /\ Sound(s, tracked[s])
                BY <2>3 DEF TypeInv, CommandTypes, CommandRecords, RecordTypes, Scopes
            <3>2. PICK r, prev, k, m : r = s /\ prev = tracked[s] /\ k = cmd[c].kind /\ m = cmd[c].mode
                OBVIOUS
            <3>3. PICK n : n = LocalStart(r, k, m, prev)
                OBVIOUS
            <3>4. n.mcp = prev.mcp /\ n.settings = prev.settings /\ n.ignore = prev.ignore
                <4>1. r \in Roots /\ m \in Modes /\ Sound(r, prev)
                    BY <3>1, <3>2
                <4> QED
                    BY <3>3, <4>1, LocalStartSound
            <3>5. prev.settings = {}
                BY <3>1, <3>2, NoSettings
            <3>6. cmd'[c].next = n
                BY <2>3, <3>2, <3>3
            <3> QED
                BY <1>1, <2>3, <3>2, <3>4, <3>5, <3>6 DEF Prepared, Continues
        <2>4. ASSUME s = "global", Continues(c), cmd'[c].pc = "begin",
                     cmd'[c].next = [NoRecord EXCEPT !.on = TRUE], cmd'[c].todo # {},
                     \A t \in Targets : tracked[s].mcp[t] # "untouched" => t \in cmd'[c].todo
              PROVE  Prepared(c)'
            <3>1. cmd'[c].next.settings = {} /\ \A p \in Places : cmd'[c].next.mcp[p] = "untouched"
                BY <2>4, GlobalStartSound
            <3> QED
                BY <1>1, <2>4, <3>1 DEF Prepared, Continues
        <2>5. cmd'[c].pc = "begin" => Removal(c)'
            BY DEF Removal
        <2>6. CASE /\ s # "global" /\ Continues(c) /\ cmd'[c].pc = "begin" /\ cmd'[c].todo = {s}
                   /\ cmd'[c].next = LocalStart(s, cmd[c].kind, cmd[c].mode, tracked[s])
            BY <2>3, <2>5, <2>6 DEF Continues
        <2>7. CASE /\ s = "global" /\ Continues(c) /\ cmd'[c].pc = "begin"
                   /\ cmd'[c].next = [NoRecord EXCEPT !.on = TRUE] /\ cmd'[c].todo # {}
                   /\ \A t \in Targets : tracked[s].mcp[t] # "untouched" => t \in cmd'[c].todo
            BY <2>4, <2>5, <2>7 DEF Continues
        <2> QED
            BY <2>1, <2>2, <2>6, <2>7, LoadStep
    <1>3. Progress(c)' /\ Removal(c)'
        <2>1. CASE cmd'[c].pc = "begin"
            BY <1>2, <2>1 DEF Progress
        <2> QED
            BY <1>2, <2>1, StepQuiet
    <1>4. NoneCommits /\ NoneCommits' /\ \A d \in Classes \ {c} : Progress(d)' /\ Removal(d)'
        BY <1>1, <1>2, StepAlone DEF Control, At
    <1>5. Owners'
        BY <1>1, <1>4, OwnersSame DEF Rest
    <1> QED
        BY <1>3, <1>4, <1>5 DEF Rest

\* Opening the journal: what a rollback would leave is what is there now.
LEMMA BeginRest ==
    ASSUME ScopesAssumption, TypeInv, TypeInv', Control, Rest, NEW c \in Classes, Begin(c)
    PROVE  Rest'
    <1> DEFINE s == cmd[c].scope
    <1>1. /\ At(c, "begin") /\ s \in Scopes /\ RollBack(s) /\ Busy(c)
          /\ Continues(c) /\ cmd'[c].pc = "agents" /\ cmd'[c].todo = cmd[c].todo
          /\ cmd'[c].next = cmd[c].next
          /\ \A x \in Scopes \ {s} : journal'[x] = journal[x]
          /\ journal'[s].touched = {}
          /\ journal'[s].old.agents = agents' /\ journal'[s].old.mcp = mcp'
          /\ journal'[s].old.settings = settings' /\ journal'[s].old.ignored = ignored'
          /\ UNCHANGED <<tracked, own>>
        BY BeginStep DEF Busy, At
    <1>2. ~At(c, "commit") /\ NoneCommits' /\ \A d \in Classes \ {c} : Progress(d)' /\ Removal(d)'
        BY <1>1, StepAlone DEF Control, At, Continues
    <1>3. Owners'
        BY <1>1, <1>2, RollBackOwners DEF Rest
    <1>4. Progress(c)'
        <2>1. Prepared(c)'
            BY <1>1 DEF Rest, Progress, Prepared, Continues, At
        <2>2. \A p \in cmd'[c].todo : Unedited(s, p)'
            BY <1>1 DEF Unedited, Continues
        <2> QED
            BY <1>1, <2>1, <2>2 DEF Progress, Continues
    <1>5. Removal(c)'
        BY <1>1 DEF Removal
    <1> QED
        BY <1>2, <1>3, <1>4, <1>5 DEF Rest

\* What the current value of a file says, before its scope has touched it or as it was found.
LEMMA OwnedNow ==
    ASSUME ScopesAssumption, TypeInv, Owners, NoneCommits, NEW s \in Scopes, NEW p \in PlacesOf(s),
           p \notin journal[s].touched \/ Unedited(s, p)
    PROVE  /\ p \in Places
           /\ own.mcp[p] = Before(tracked[s], p, mcp[p])
           /\ p \in Targets => (p \in own.settings <=> p \in settings /\ p \notin tracked[s].settings)
    <1>1. p \in Places
        BY DEF PlacesOf, Places, Scopes
    <1>2. ScopeOf(p) = s /\ (p \in Targets => s = "global")
        BY <1>1, Apart
    <1>3. McpThen(p) = mcp[p]
        BY <1>2 DEF McpThen, Undoable, Unedited
    <1>4. p \in Targets => (SettingThen(p) <=> p \in settings)
        BY <1>2 DEF SettingThen, Undoable, Unedited
    <1> QED
        BY <1>1, <1>2, <1>3, <1>4 DEF Owners, McpOwned, SettingsOwned

\* Writing the agent files.
LEMMA ExtractRest ==
    ASSUME ScopesAssumption, TypeInv, TypeInv', Control, Rest, NEW c \in Classes, Extract(c)
    PROVE  Rest'
    <1> DEFINE s == cmd[c].scope  bare == cmd[c].next.binaryOnly  prev == tracked[s]
               what == IF bare THEN {} ELSE {"agents"}
    <1>1. /\ At(c, "agents") /\ s \in Scopes /\ Busy(c) /\ Continues(c)
          /\ cmd'[c].pc = (IF bare THEN "ignore" ELSE "edit") /\ cmd'[c].todo = cmd[c].todo
          /\ cmd'[c].prev = cmd[c].prev
          /\ cmd'[c].next.mcp = cmd[c].next.mcp /\ cmd'[c].next.settings = cmd[c].next.settings
          /\ cmd'[c].next.ignore = cmd[c].next.ignore /\ cmd'[c].next.files = Owned(c)
          /\ cmd'[c].next.binaryOnly = bare
          /\ \A x \in Scopes \ {s} : journal'[x] = journal[x]
          /\ journal'[s].old = journal[s].old
          /\ journal'[s].touched = journal[s].touched \union what
        BY ExtractStep DEF At, Busy
    <1>2. /\ \A x \in Scopes \ {s} : agents'[x] = agents[x]
          /\ agents'[s] = IF bare THEN agents[s] ELSE agents[s] \union {cmd[c].rel}
          /\ UNCHANGED <<tracked, own, mcp, settings, ignored>>
        BY ExtractStep
    <1>3. /\ NoneCommits /\ NoneCommits' /\ \A d \in Classes \ {c} : Progress(d)' /\ Removal(d)'
        BY <1>1, StepAlone DEF Control, At, Continues
    <1>4. /\ Prepared(c) /\ journal[s].touched = {} /\ agents = journal[s].old.agents
          /\ \A p \in cmd[c].todo : Unedited(s, p)
          /\ \A f \in IgnoreFiles :
                f \notin journal[s].touched /\ ignored[f] = journal[s].old.ignored[f]
        BY <1>1 DEF Rest, Progress, At
    <1>5. /\ s \in Roots => \A x \in Roots \ {s} : journal[x].touched = {}
          /\ \A x \in Scopes : Sound(x, tracked[x])
          /\ cmd[c].prev = prev /\ (bare => prev.files = {} /\ s # "global")
          /\ cmd[c].todo \subseteq PlacesOf(s)
        BY <1>1, OwnJournal DEF Control, Loaded, At, TypeInv, RecordTypes, CommandTypes, Sensible
    <1>6. Owners'
        <2>1. PICK w : w = what
            OBVIOUS
        <2>2. journal'[s].touched = journal[s].touched \union w /\ w \subseteq {"agents"}
            BY <1>1, <2>1
        <2>3. \A p \in Places : p \notin w
            BY <2>2, Apart
        <2>4. \A f \in IgnoreFiles : f \notin w
            BY <2>2, Apart
        <2>5. \A x \in Roots : agents'[x] \subseteq agents[x] \/ (x = s /\ "agents" \in journal'[s].touched)
            BY <1>1, <1>2 DEF Scopes
        <2> HIDE DEF what
        <2> QED
            BY <1>1, <1>2, <1>3, <1>4, <1>5, <2>2, <2>3, <2>4, <2>5, WriteOwners DEF Control, Rest
    <1>7. \A p \in PlacesOf(s) :
              /\ p \in Places
              /\ own.mcp[p] = Before(prev, p, mcp[p])
              /\ p \in Targets => (p \in own.settings <=> p \in settings /\ p \notin prev.settings)
        BY <1>1, <1>3, <1>4, OwnedNow DEF Rest
    <1>8. ASSUME NEW p \in PlacesOf(s), p \notin cmd[c].todo \/ bare PROVE Fits(c, p)'
        <2>1. CASE s = "global"
            <3>1. p \in Targets /\ p \notin cmd[c].todo
                BY <1>5, <1>8, <2>1 DEF PlacesOf
            <3>2. prev.mcp[p] = "untouched" /\ p \notin prev.settings
                <4>1. prev.mcp[p] = "untouched"
                    BY <1>4, <2>1, <3>1 DEF Prepared
                <4>2. Sound(s, prev)
                    BY <1>1, <1>5
                <4> QED
                    BY <4>1, <4>2 DEF Sound
            <3>3. cmd'[c].next.mcp[p] = "untouched" /\ cmd'[c].next.settings = {}
                BY <1>1, <1>4, <1>7, <2>1 DEF Prepared
            <3> QED
                BY <1>2, <1>7, <3>2, <3>3 DEF Fits, Before
        <2>2. CASE s # "global"
            <3>1. s \in Roots /\ PlacesOf(s) = {s}
                BY <1>1, <2>2 DEF Scopes, PlacesOf
            <3>2. p = s /\ p \notin Targets
                BY <3>1, ScopesAssumption DEF ScopesAssumption
            <3>3. cmd'[c].next.mcp = prev.mcp
                BY <1>1, <1>4, <2>2 DEF Prepared
            <3> QED
                BY <1>2, <1>7, <3>2, <3>3 DEF Fits, Before
        <2> QED
            BY <2>1, <2>2
    <1>9. ASSUME s # "global" PROVE agents[s] \subseteq prev.files \union own.agents[s]
        <2>1. s \in Roots /\ "agents" \notin journal[s].touched
            BY <1>1, <1>4, <1>9 DEF Scopes
        <2> QED
            BY <2>1 DEF Rest, Owners, AgentsOwned, AgentsThen, Undoable
    <1>10. CASE bare
        <2>1. cmd'[c].pc = "ignore" /\ s # "global" /\ journal'[s].touched = {} /\ agents' = agents
            <3>1. agents' = agents
                BY <1>1, <1>10 DEF Extract, TypeInv, FileTypes
            <3> QED
                BY <1>1, <1>4, <1>5, <1>10, <3>1
        <2>2. \A p \in PlacesOf(s) : Fits(c, p)'
            BY <1>8, <1>10
        <2>3. agents'[s] \subseteq cmd'[c].next.files \union own'.agents[s]
            BY <1>2, <1>5, <1>9, <1>10, <2>1
        <2>4. cmd'[c].next.ignore = prev.ignore
            BY <1>1, <1>4, <2>1 DEF Prepared
        <2>5. cmd'[c].scope = s
            BY <1>1 DEF Continues
        <2>6. \A f \in IgnoreFiles : f \notin journal'[s].touched /\ ignored'[f] = journal'[s].old.ignored[f]
            BY <1>1, <1>2, <1>4, <2>1
        <2>7. Progress(c)'
            BY <1>2, <2>1, <2>2, <2>3, <2>4, <2>5, <2>6 DEF Progress
        <2>8. Removal(c)'
            BY <2>1 DEF Removal
        <2> QED
            BY <1>3, <1>6, <2>7, <2>8 DEF Rest
    <1>11. CASE ~bare
        <2>1. /\ cmd'[c].pc = "edit" /\ cmd'[c].scope = s /\ cmd'[c].todo = cmd[c].todo
              /\ cmd'[c].next.settings = {} /\ cmd[c].todo # {}
            BY <1>1, <1>4, <1>11 DEF Prepared, Continues
        <2>2. \A p \in PlacesOf(s) \ cmd[c].todo : Fits(c, p)'
            BY <1>8
        <2>3. s # "global" => Extracted(c)'
            <3>1. PICK o : o = Owned(c)
                OBVIOUS
            <3>2. Owned(c)' = o
                BY <1>1, <3>1 DEF Owned, Continues
            <3> QED
                BY <1>1, <1>2, <1>9, <1>11, <3>1, <3>2 DEF Extracted, Continues
        <2>4. s # "global" => cmd'[c].next.ignore = prev.ignore
            BY <1>1, <1>4 DEF Prepared
        <2>5. \A f \in IgnoreFiles : f \notin journal'[s].touched /\ ignored'[f] = journal'[s].old.ignored[f]
            BY <1>1, <1>2, <1>4, Apart
        <2>6. \A p \in cmd[c].todo : Unedited(s, p)'
            BY <1>1, <1>2, <1>4 DEF Unedited, Continues
        <2>7. Progress(c)'
            BY <1>2, <2>1, <2>2, <2>3, <2>4, <2>5, <2>6 DEF Progress
        <2>8. Removal(c)'
            BY <2>1 DEF Removal
        <2> QED
            BY <1>3, <1>6, <2>7, <2>8 DEF Rest
    <1> QED
        BY <1>10, <1>11

\* Editing one place: the new record holds what was there before the first edit.
LEMMA EditRest ==
    ASSUME ScopesAssumption, TypeInv, TypeInv', Control, Rest, NEW c \in Classes, Edit(c)
    PROVE  Rest'
    <1> DEFINE s == cmd[c].scope  prev == tracked[s]  next == cmd[c].next
    <1>1. /\ At(c, "edit") /\ s \in Scopes /\ Busy(c) /\ Continues(c)
          /\ cmd'[c].prev = cmd[c].prev
          /\ cmd'[c].next.ignore = next.ignore /\ cmd'[c].next.files = next.files
          /\ \A x \in Scopes \ {s} : journal'[x] = journal[x]
          /\ journal'[s].old = journal[s].old
          /\ journal'[s].touched = journal[s].touched \union cmd[c].todo
          /\ UNCHANGED <<tracked, own, agents, ignored>>
        BY EditStep DEF At, Busy
    <1>2. PICK p \in cmd[c].todo :
             /\ cmd'[c].pc = (IF cmd[c].todo = {p} THEN "stale" ELSE "edit")
             /\ cmd'[c].todo = cmd[c].todo \ {p}
             /\ mcp'[p] = "ours"
             /\ \A q \in Places \ {p} : mcp'[q] = mcp[q]
             /\ settings' = (IF p \in Targets THEN settings \union {p} ELSE settings)
             /\ cmd'[c].next.mcp[p] = Baseline(cmd[c].prev, p)
             /\ \A q \in Places \ {p} : cmd'[c].next.mcp[q] = next.mcp[q]
             /\ cmd'[c].next.settings =
                   IF p \in Targets /\ Added(cmd[c].prev, p) THEN next.settings \union {p}
                   ELSE next.settings
        BY EditStep
    <1>3. /\ NoneCommits /\ NoneCommits' /\ \A d \in Classes \ {c} : Progress(d)' /\ Removal(d)'
        BY <1>1, <1>2, StepAlone DEF Control, At, Continues
    <1>4. /\ \A q \in cmd[c].todo : Unedited(s, q) /\ q \notin next.settings
          /\ \A q \in PlacesOf(s) \ cmd[c].todo : Fits(c, q)
          /\ \A f \in IgnoreFiles :
                f \notin journal[s].touched /\ ignored[f] = journal[s].old.ignored[f]
          /\ s # "global" => Extracted(c) /\ next.ignore = prev.ignore
        BY <1>1 DEF Rest, Progress, At
    <1>5. /\ s \in Roots => \A x \in Roots \ {s} : journal[x].touched = {}
          /\ cmd[c].prev = prev /\ prev \in Records
          /\ cmd[c].todo \subseteq PlacesOf(s) /\ cmd[c].todo \subseteq Places
          /\ ~next.binaryOnly /\ ~cmd'[c].next.binaryOnly
        <2>1. cmd'[c].pc \in {"edit", "stale"}
            BY <1>2
        <2> QED
            BY <1>1, <2>1, OwnJournal DEF Control, Loaded, At, TypeInv, RecordTypes, CommandTypes, CommandRecords,
               Sensible
    <1>6. Owners'
        <2>1. \A f \in IgnoreFiles : f \notin cmd[c].todo
            BY <1>5, Apart
        <2>2. "agents" \notin cmd[c].todo
            BY <1>5, Apart
        <2>3. \A q \in Places : q \notin journal'[s].touched =>
                 mcp'[q] = mcp[q] /\ (q \in Targets => (q \in settings' <=> q \in settings))
            BY <1>1, <1>2
        <2> QED
            BY <1>1, <1>3, <1>4, <1>5, <2>1, <2>2, <2>3, WriteOwners DEF Control, Rest
    <1>7. Fits(c, p)'
        <2>1. /\ own.mcp[p] = Before(prev, p, mcp[p])
              /\ p \in Targets => (p \in own.settings <=> p \in settings /\ p \notin prev.settings)
              /\ p \in Places
            BY <1>1, <1>3, <1>4, <1>5, OwnedNow DEF Rest
        <2>2. cmd'[c].next.mcp[p] = own.mcp[p]
            BY <1>2, <1>5, <2>1 DEF Before, Baseline
        <2>3. own.mcp[p] # "untouched"
            BY <2>1 DEF TypeInv, Snapshots, Values
        <2>4. p \in Targets => (p \in own.settings <=> p \in settings' /\ p \notin cmd'[c].next.settings)
            BY <1>2, <1>4, <1>5, <2>1 DEF Added
        <2> QED
            BY <1>1, <2>2, <2>3, <2>4 DEF Fits, Before
    <1>8. ASSUME NEW q \in PlacesOf(s) \ cmd[c].todo PROVE Fits(c, q)'
        <2>1. q # p /\ q \in Places
            BY <1>1, <1>8 DEF PlacesOf, Places, Scopes
        <2>2. /\ cmd'[c].next.mcp[q] = next.mcp[q] /\ mcp'[q] = mcp[q]
              /\ q \in settings' <=> q \in settings
              /\ q \in cmd'[c].next.settings <=> q \in next.settings
            BY <1>2, <2>1
        <2> QED
            BY <1>1, <1>4, <1>8, <2>2 DEF Fits, Before
    <1>9. cmd'[c].scope = s /\ s \in Scopes
        BY <1>1 DEF Continues
    <1>10. \A q \in PlacesOf(s) \ cmd'[c].todo : Fits(c, q)'
        BY <1>2, <1>7, <1>8
    <1>11. \A q \in cmd'[c].todo : Unedited(s, q)' /\ q \notin cmd'[c].next.settings
        <2> SUFFICES ASSUME NEW q \in cmd'[c].todo PROVE Unedited(s, q)' /\ q \notin cmd'[c].next.settings
            OBVIOUS
        <2>1. q # p /\ q \in Places /\ q \in cmd[c].todo
            BY <1>2, <1>5
        <2>2. Unedited(s, q) /\ q \notin next.settings
            BY <1>4, <2>1
        <2> QED
            BY <1>1, <1>2, <1>9, <2>1, <2>2 DEF Unedited
    <1>12. \A f \in IgnoreFiles : f \notin journal'[s].touched /\ ignored'[f] = journal'[s].old.ignored[f]
        BY <1>1, <1>4, <1>5, Apart
    <1>13. s # "global" => Extracted(c)' /\ cmd'[c].next.ignore = prev.ignore
        <2>1. Owned(c)' = Owned(c)
            BY <1>1, <1>5 DEF Owned, Continues
        <2> QED
            BY <1>1, <1>4, <2>1 DEF Extracted, Continues
    <1>14. Progress(c)'
        <2>1. CASE cmd[c].todo = {p}
            <3>1. cmd'[c].pc = "stale" /\ cmd'[c].todo = {}
                BY <1>2, <2>1
            <3> QED
                BY <1>1, <1>9, <1>10, <1>12, <1>13, <3>1 DEF Progress
        <2>2. CASE cmd[c].todo # {p}
            <3>1. cmd'[c].pc = "edit" /\ cmd'[c].todo # {}
                BY <1>2, <2>2
            <3> QED
                BY <1>1, <1>9, <1>10, <1>11, <1>12, <1>13, <3>1 DEF Progress
        <2> QED
            BY <2>1, <2>2
    <1>15. Removal(c)'
        <2>1. cmd'[c].pc \in {"edit", "stale"}
            BY <1>2
        <2> QED
            BY <2>1 DEF Removal
    <1> QED
        BY <1>3, <1>6, <1>14, <1>15 DEF Rest

\* Removing the old files: what is left is in the new record.
LEMMA RemoveStaleRest ==
    ASSUME ScopesAssumption, TypeInv, TypeInv', Control, Rest, NEW c \in Classes, RemoveStale(c)
    PROVE  Rest'
    <1> DEFINE s == cmd[c].scope  prev == tracked[s]  next == cmd[c].next
               stale == IF cmd[c].kind = "update" THEN cmd[c].prev.files \ {cmd[c].rel} ELSE {}
    <1>1. /\ At(c, "stale") /\ s \in Scopes /\ Busy(c) /\ Continues(c)
          /\ cmd'[c].pc = (IF s = "global" THEN "save" ELSE "ignore")
          /\ cmd'[c].next = next
          /\ \A x \in Scopes \ {s} : agents'[x] = agents[x]
          /\ agents'[s] = agents[s] \ stale
          /\ UNCHANGED <<tracked, own, mcp, settings, ignored, journal>>
        BY RemoveStaleStep DEF At, Busy
    <1>2. /\ NoneCommits /\ NoneCommits' /\ \A d \in Classes \ {c} : Progress(d)' /\ Removal(d)'
        BY <1>1, StepAlone DEF Control, At, Continues
    <1>3. /\ \A q \in PlacesOf(s) : Fits(c, q)
          /\ \A f \in IgnoreFiles :
                f \notin journal[s].touched /\ ignored[f] = journal[s].old.ignored[f]
          /\ s # "global" => Extracted(c) /\ next.ignore = prev.ignore
        BY <1>1 DEF Rest, Progress, At
    <1>4. cmd[c].prev = prev /\ ~next.binaryOnly /\ cmd[c].kind \in {"install", "update"}
        BY <1>1 DEF Control, Loaded, At, TypeInv, CommandTypes, Sensible, Changes
    <1>5. Owners'
        <2>1. \A r \in Roots : agents'[r] \subseteq agents[r]
            BY <1>1 DEF Scopes
        <2> QED
            BY <1>1, <1>2, <2>1, RemovalOwners DEF Rest
    <1>6. \A q \in PlacesOf(s) : Fits(c, q)'
        BY <1>1, <1>3 DEF Fits, Before
    <1>7. s # "global" => agents'[s] \subseteq next.files \union own.agents[s]
        <2> SUFFICES ASSUME s # "global", NEW a \in agents'[s] PROVE a \in next.files \union own.agents[s]
            OBVIOUS
        <2>1. a \in agents[s] /\ a \notin stale
            BY <1>1
        <2>2. a \in prev.files \union own.agents[s] \union {cmd[c].rel} /\ next.files = Owned(c)
            BY <1>3, <2>1 DEF Extracted
        <2>3. CASE cmd[c].kind = "install"
            BY <1>4, <2>2, <2>3 DEF Owned
        <2>4. CASE cmd[c].kind = "update"
            BY <1>4, <2>1, <2>2, <2>4 DEF Owned
        <2> QED
            BY <1>4, <2>3, <2>4
    <1>8. cmd'[c].scope = s
        BY <1>1 DEF Continues
    <1>9. Progress(c)'
        <2>1. CASE s = "global"
            BY <1>1, <1>6, <1>8, <2>1 DEF Progress
        <2>2. CASE s # "global"
            BY <1>1, <1>3, <1>6, <1>7, <1>8, <2>2 DEF Progress
        <2> QED
            BY <2>1, <2>2
    <1>10. Removal(c)'
        BY <1>1 DEF Removal
    <1> QED
        BY <1>2, <1>5, <1>9, <1>10 DEF Rest

\* Adding the ignore lines: the new record names those it added.
LEMMA IgnoreRest ==
    ASSUME ScopesAssumption, TypeInv, TypeInv', Control, Rest, NEW c \in Classes, Ignore(c)
    PROVE  Rest'
    <1> DEFINE s == cmd[c].scope  prev == tracked[s]  next == cmd[c].next
    <1>0. PICK f \in IgnoreFiles : f = LineFile(c)
        BY LineTypes
    <1>1. PICK new \in SUBSET IgnoreFiles : new = MissingLine(c, f)
        BY LineTypes
    <1>2. /\ At(c, "ignore") /\ s \in Roots
        BY <1>0, <1>1, IgnoreStep
    <1>3. /\ Continues(c)
          /\ cmd'[c].pc = "save" /\ cmd'[c].todo = cmd[c].todo
          /\ cmd'[c].prev = cmd[c].prev
          /\ cmd'[c].next.mcp = next.mcp /\ cmd'[c].next.settings = next.settings
          /\ cmd'[c].next.files = next.files
          /\ cmd'[c].next.ignore = cmd[c].prev.ignore \union new
        BY <1>0, <1>1, IgnoreStep
    <1>4. /\ \A x \in Scopes \ {s} : journal'[x] = journal[x]
          /\ journal'[s].old = journal[s].old
          /\ journal'[s].touched = journal[s].touched \union
                 (IF cmd[c].kind = "install" THEN {f} ELSE {})
          /\ \A g \in IgnoreFiles : ignored'[g] =
                 IF g \in new THEN ignored[g] \union {s} ELSE ignored[g]
          /\ UNCHANGED <<tracked, own, mcp, settings, agents>>
        <2>1. /\ \A x \in Scopes \ {s} : journal'[x] = journal[x]
              /\ journal'[s].old = journal[s].old
              /\ journal'[s].touched = journal[s].touched \union
                     (IF cmd[c].kind = "install" THEN {f} ELSE {})
            BY <1>0, <1>1, IgnoreStep
        <2>2. \A g \in IgnoreFiles : ignored'[g] =
                 IF g \in new THEN ignored[g] \union {s} ELSE ignored[g]
            <3>1. ignored' = [g \in IgnoreFiles |->
                                 IF g \in new THEN ignored[g] \union {s} ELSE ignored[g]]
                BY <1>0, <1>1 DEF Ignore, LineFile, MissingLine
            <3> QED
                BY <3>1
        <2>3. UNCHANGED <<tracked, own, mcp, settings, agents>>
            BY DEF Ignore
        <2> QED
            BY <2>1, <2>2, <2>3
    <1>5. /\ NoneCommits /\ NoneCommits' /\ \A d \in Classes \ {c} : Progress(d)' /\ Removal(d)'
          /\ Busy(c)
        BY <1>2, <1>3, StepAlone DEF Control, At, Continues, Busy
    <1>6. /\ s # "global" /\ s \in Scopes
          /\ \A q \in PlacesOf(s) : Fits(c, q)
          /\ \A g \in IgnoreFiles :
                g \notin journal[s].touched /\ ignored[g] = journal[s].old.ignored[g]
          /\ agents[s] \subseteq next.files \union own.agents[s]
        BY <1>2, Apart DEF Rest, Progress, At
    <1>7. /\ \A x \in Roots \ {s} : journal[x].touched = {}
          /\ cmd[c].prev = prev
        BY <1>2, <1>5, OwnJournal DEF Control, Loaded, At
    <1>8. Owners'
        <2>1. PICK w : w = IF cmd[c].kind = "install" THEN {f} ELSE {}
            OBVIOUS
        <2>2. journal'[s].touched = journal[s].touched \union w /\ w \subseteq IgnoreFiles /\ new \subseteq w
            BY <1>1, <1>4, <2>1 DEF MissingLine
        <2>3. (\A p \in Places : p \notin w) /\ "agents" \notin w
            BY <2>2, Apart
        <2>4. \A g \in IgnoreFiles : g \notin journal'[s].touched => ignored'[g] = ignored[g]
            BY <1>4, <2>2
        <2> QED
            BY <1>4, <1>5, <1>6, <1>7, <2>2, <2>3, <2>4, WriteOwners DEF Control, Rest
    <1>9. \A q \in PlacesOf(s) : Fits(c, q)'
        BY <1>3, <1>4, <1>6 DEF Fits, Before
    <1>10. ASSUME NEW g \in IgnoreFiles, NEW r \in Roots PROVE LineThen(r, g) <=> r \in ignored[g]
        BY <1>6, <1>7, <1>10 DEF LineThen, Undoable
    <1>11. ASSUME NEW g \in IgnoreFiles, NEW r \in Roots PROVE LineThen(r, g)' <=> r \in ignored[g]
        <2>1. \A x \in Roots \ {s} : journal'[x].touched = {}
            BY <1>4, <1>7 DEF Scopes
        <2>2. CASE g \in journal'[s].touched
            BY <1>2, <1>4, <1>5, <1>6, <2>1, <2>2 DEF LineThen, Undoable, NoneCommits
        <2>3. CASE g \notin journal'[s].touched
            <3>1. g \notin new
                BY <1>1, <1>4, <2>3 DEF MissingLine
            <3> QED
                BY <1>4, <2>1, <2>3, <3>1 DEF LineThen, Undoable
        <2> QED
            BY <2>2, <2>3
    <1>12. ASSUME NEW g \in IgnoreFiles
           PROVE  s \in own.ignored[g] <=> s \in ignored'[g] /\ g \notin cmd'[c].next.ignore
        <2>1. s \in own.ignored[g] <=> s \in ignored[g] /\ g \notin prev.ignore
            BY <1>2, <1>10 DEF Rest, Owners, LinesOwned
        <2>2. CASE g \in new
            <3>1. s \notin ignored[g]
                BY <1>1, <2>2 DEF MissingLine
            <3> QED
                BY <1>3, <2>1, <2>2, <3>1
        <2>3. CASE g \notin new
            BY <1>3, <1>4, <1>7, <2>1, <2>3
        <2> QED
            BY <2>2, <2>3
    <1>13. \A g \in IgnoreFiles, r \in Roots \ {s} : r \in ignored'[g] <=> LineThen(r, g)'
        BY <1>4, <1>11
    <1>14. cmd'[c].scope = s
        BY <1>3 DEF Continues
    <1>15. Progress(c)'
        BY <1>3, <1>4, <1>6, <1>9, <1>12, <1>13, <1>14 DEF Progress
    <1>16. Removal(c)'
        BY <1>3 DEF Removal
    <1> QED
        BY <1>5, <1>8, <1>15, <1>16 DEF Rest

\* From here on the new record counts, and no rollback.
LEMMA SaveRest ==
    ASSUME ScopesAssumption, TypeInv, TypeInv', Control, Rest, NEW c \in Classes, Save(c)
    PROVE  Rest'
    <1>0. PICK s, next : s = cmd[c].scope /\ next = cmd[c].next
        OBVIOUS
    <1>1. /\ At(c, "save") /\ s \in Scopes /\ Busy(c)
          /\ Continues(c) /\ cmd'[c].pc = "commit"
          /\ tracked'[s] = next
          /\ \A x \in Scopes \ {s} : tracked'[x] = cmd[c].mem[x]
          /\ UNCHANGED <<own, files, journal>>
        BY <1>0, SaveStep DEF At, Busy
    <1>2. /\ NoneCommits /\ \A d \in Classes \ {c} : Progress(d)' /\ Removal(d)'
          /\ \A d \in Classes \ {c} : ~At(d, "commit")'
        BY <1>1, StepAlone, Alone DEF Control, At, Continues
    <1>3. /\ cmd'[c].scope = s /\ At(c, "commit")'
          /\ \A x \in Scopes \ {s} : tracked'[x] = tracked[x]
        BY <1>0, <1>1 DEF Continues, At, Control, Loaded
    <1>4. /\ \A w : ~Undoable(s, w)'
          /\ \A x \in Scopes \ {s} : \A w : Undoable(x, w)' <=> Undoable(x, w)
        BY <1>1, <1>2, <1>3 DEF Undoable, NoneCommits
    <1>5. /\ \A q \in PlacesOf(s) : Fits(c, q)
          /\ s # "global" => agents[s] \subseteq next.files \union own.agents[s]
          /\ s # "global" => \A f \in IgnoreFiles :
                /\ s \in own.ignored[f] <=> s \in ignored[f] /\ f \notin next.ignore
                /\ \A r \in Roots \ {s} : r \in ignored[f] <=> LineThen(r, f)
        BY <1>0, <1>1 DEF Rest, Progress, At
    <1>6. s \in Roots => \A x \in Roots \ {s} : journal[x].touched = {}
        BY <1>0, <1>1, OwnJournal DEF Control
    <1>7. McpOwned'
        <2> SUFFICES ASSUME NEW p \in Places
                     PROVE  own.mcp[p] = Before(tracked'[ScopeOf(p)], p, McpThen(p)')
            BY <1>1 DEF McpOwned, Before
        <2>1. ScopeOf(p) \in Scopes /\ p \in PlacesOf(ScopeOf(p))
            BY Apart
        <2>2. CASE ScopeOf(p) = s
            <3>1. Fits(c, p)
                BY <1>5, <2>1, <2>2
            <3>2. McpThen(p)' = mcp[p]
                BY <1>1, <1>4, <2>2 DEF McpThen, files
            <3> QED
                BY <1>0, <1>1, <2>2, <3>1, <3>2 DEF Fits, Before
        <2>3. CASE ScopeOf(p) # s
            <3>1. McpThen(p)' = McpThen(p)
                BY <1>1, <1>4, <2>1, <2>3 DEF McpThen, files
            <3>2. own.mcp[p] = Before(tracked[ScopeOf(p)], p, McpThen(p))
                BY DEF Rest, Owners, McpOwned
            <3> QED
                BY <1>3, <2>1, <2>3, <3>1, <3>2
        <2> QED
            BY <2>2, <2>3
    <1>8. SettingsOwned'
        <2> SUFFICES ASSUME NEW t \in Targets
                     PROVE  t \in own.settings <=> SettingThen(t)' /\ t \notin tracked'["global"].settings
            BY <1>1 DEF SettingsOwned
        <2>1. CASE s = "global"
            <3>1. Fits(c, t)
                BY <1>5, <2>1 DEF PlacesOf
            <3>2. SettingThen(t)' <=> t \in settings
                BY <1>1, <1>4, <2>1 DEF SettingThen, files
            <3> QED
                BY <1>0, <1>1, <2>1, <3>1, <3>2 DEF Fits, Before
        <2>2. CASE s # "global"
            <3>1. "global" \in Scopes
                BY DEF Scopes
            <3>2. SettingThen(t)' <=> SettingThen(t)
                BY <1>1, <1>4, <2>2, <3>1 DEF SettingThen, files
            <3> QED
                BY <1>3, <2>2, <3>1, <3>2 DEF Rest, Owners, SettingsOwned
        <2> QED
            BY <2>1, <2>2
    <1>9. LinesOwned'
        <2> SUFFICES ASSUME NEW r \in Roots, NEW f \in IgnoreFiles
                     PROVE  r \in own.ignored[f] <=> LineThen(r, f)' /\ f \notin tracked'[r].ignore
            BY <1>1 DEF LinesOwned
        <2>0. r \in own.ignored[f] <=> LineThen(r, f) /\ f \notin tracked[r].ignore
            BY DEF Rest, Owners, LinesOwned
        <2>1. CASE s \in Roots
            <3>1. \A x \in Roots : ~Undoable(x, f)'
                <4>1. \A x \in Roots \ {s} : ~Undoable(x, f) /\ x \in Scopes
                    BY <1>6, <2>1, Apart DEF Undoable
                <4> QED
                    BY <1>4, <4>1
            <3>2. LineThen(r, f)' <=> r \in ignored[f]
                BY <1>1, <3>1 DEF LineThen, files
            <3>3. s # "global" /\ r \in Scopes
                BY <2>1, Apart
            <3> QED
                BY <1>1, <1>3, <1>5, <2>0, <3>2, <3>3
        <2>2. CASE s \notin Roots
            <3>1. \A x \in Roots : x \in Scopes \ {s}
                BY <2>2, Apart
            <3>2. LineThen(r, f)' <=> LineThen(r, f)
                BY <1>1, <1>4, <3>1 DEF LineThen, files
            <3> QED
                BY <1>3, <2>0, <3>1, <3>2
        <2> QED
            BY <2>1, <2>2
    <1>10. AgentsOwned'
        <2> SUFFICES ASSUME NEW r \in Roots
                     PROVE  AgentsThen(r)' \subseteq tracked'[r].files \union own.agents[r]
            BY <1>1 DEF AgentsOwned
        <2>1. r \in Scopes /\ r # "global"
            BY Apart
        <2>2. CASE r = s
            <3>1. AgentsThen(r)' = agents[r]
                BY <1>1, <1>4, <2>2 DEF AgentsThen, files
            <3> QED
                BY <1>1, <1>5, <2>1, <2>2, <3>1
        <2>3. CASE r # s
            <3>1. AgentsThen(r)' = AgentsThen(r)
                BY <1>1, <1>4, <2>1, <2>3 DEF AgentsThen, files
            <3> QED
                BY <1>3, <2>1, <2>3, <3>1 DEF Rest, Owners, AgentsOwned
        <2> QED
            BY <2>2, <2>3
    <1>11. Progress(c)' /\ Removal(c)'
        BY <1>1, StepQuiet
    <1> QED
        BY <1>2, <1>7, <1>8, <1>9, <1>10, <1>11 DEF Rest, Owners

\* Closing the journal: the record has been saved.
LEMMA CommitRest ==
    ASSUME ScopesAssumption, TypeInv, TypeInv', Control, Rest, NEW c \in Classes, Commit(c)
    PROVE  Rest'
    <1>0. PICK s : s = cmd[c].scope
        OBVIOUS
    <1>1. /\ At(c, "commit") /\ s \in Scopes /\ End(c) /\ Busy(c)
          /\ \A x \in Scopes \ {s} : journal'[x] = journal[x]
          /\ journal'[s].touched = {}
          /\ UNCHANGED <<tracked, files, own>>
        BY <1>0, CommitStep DEF At, Busy
    <1>2. cmd'[c].pc = "idle" /\ \A d \in Classes \ {c} : cmd'[d] = cmd[d]
        BY <1>1, EndStep DEF TypeInv, Idle
    <1>3. NoneCommits' /\ \A d \in Classes : Progress(d)' /\ Removal(d)'
        BY <1>1, <1>2, StepAlone, StepQuiet DEF Control, At
    <1>4. \A d \in Classes : At(d, "commit") => d = c
        BY <1>1, Alone DEF Control, At
    <1>5. \A x \in Scopes : \A w : Undoable(x, w)' <=> Undoable(x, w)
        <2> SUFFICES ASSUME NEW x \in Scopes, NEW w PROVE Undoable(x, w)' <=> Undoable(x, w)
            OBVIOUS
        <2>1. CASE x = s
            BY <1>0, <1>1, <2>1 DEF Undoable, At
        <2>2. CASE x # s
            BY <1>0, <1>1, <1>3, <1>4, <2>2 DEF Undoable, NoneCommits
        <2> QED
            BY <2>1, <2>2
    <1>6. \A x \in Scopes : \A w : Undoable(x, w) => journal'[x] = journal[x]
        BY <1>0, <1>1 DEF Undoable
    <1>7. \A p \in Places : McpThen(p)' = McpThen(p)
        <2> SUFFICES ASSUME NEW p \in Places PROVE McpThen(p)' = McpThen(p)
            OBVIOUS
        <2>1. ScopeOf(p) \in Scopes
            BY Apart
        <2> QED
            BY <1>1, <1>5, <1>6, <2>1 DEF McpThen, files
    <1>8. \A t \in Targets : SettingThen(t)' <=> SettingThen(t)
        BY <1>1, <1>5, <1>6 DEF SettingThen, files, Scopes
    <1>9. \A r \in Roots, f \in IgnoreFiles : LineThen(r, f)' <=> LineThen(r, f)
        BY <1>1, <1>5, <1>6 DEF LineThen, files, Scopes
    <1>10. \A r \in Roots : AgentsThen(r)' \subseteq AgentsThen(r)
        BY <1>1, <1>5, <1>6 DEF AgentsThen, files, Scopes
    <1> QED
        BY <1>1, <1>3, <1>7, <1>8, <1>9, <1>10, OwnersKept DEF Rest

\* A command that ends before it has saved.
LEMMA LeftRest ==
    ASSUME ScopesAssumption, ~CommitFails, TypeInv, TypeInv', Control, Rest, NEW c \in Classes,
           Fail(c) \/ GiveUp(c) \/ Crash(c)
    PROVE  Rest'
    <1>1. End(c) /\ Busy(c) /\ ~At(c, "commit") /\ UNCHANGED <<tracked, own>>
        <2>1. CASE Fail(c)
            BY <2>1, FailStep DEF Busy, MayEnd, Installing
        <2>2. CASE GiveUp(c) \/ Crash(c)
            BY <2>2, LeaveStep DEF MayEnd, Uninstalling, At
        <2> QED
            BY <2>1, <2>2
    <1>2. cmd'[c].pc = "idle" /\ \A d \in Classes \ {c} : cmd'[d] = cmd[d]
        BY <1>1, EndStep DEF TypeInv, Idle
    <1>3. NoneCommits /\ NoneCommits' /\ \A d \in Classes : Progress(d)' /\ Removal(d)'
        BY <1>1, <1>2, StepAlone, StepQuiet DEF Control, At
    <1>4. Owners'
        <2>1. CASE UNCHANGED <<files, journal>>
            BY <1>1, <1>3, <2>1, OwnersSame DEF Rest
        <2>2. CASE ~UNCHANGED <<files, journal>>
            <3>1. Fail(c)
                BY <2>2, LeaveStep
            <3>2. /\ RollBack(cmd[c].scope) /\ journal'[cmd[c].scope].touched = {}
                  /\ \A x \in Scopes \ {cmd[c].scope} : journal'[x] = journal[x]
                BY <2>2, <3>1, FailStep
            <3> QED
                BY <1>1, <1>3, <3>2, RollBackOwners DEF Rest
        <2> QED
            BY <2>1, <2>2
    <1> QED
        BY <1>3, <1>4 DEF Rest

\* Removing the agent files of an uninstall.
LEMMA RemoveFilesRest ==
    ASSUME ScopesAssumption, TypeInv, TypeInv', Control, Rest, NEW c \in Classes, RemoveFiles(c)
    PROVE  Rest'
    <1> DEFINE s == cmd[c].scope
    <1>1. /\ At(c, "remove") /\ s \in Scopes /\ Busy(c)
          /\ Continues(c) /\ cmd'[c].pc = "revert" /\ cmd'[c].todo = cmd[c].prev.settings
          /\ \A x \in Scopes \ {s} : agents'[x] = agents[x]
          /\ agents'[s] = agents[s] \ cmd[c].prev.files
          /\ UNCHANGED <<tracked, own, mcp, settings, ignored, journal>>
        BY RemoveFilesStep DEF At, Busy
    <1>2. NoneCommits /\ NoneCommits' /\ \A d \in Classes \ {c} : Progress(d)' /\ Removal(d)'
        BY <1>1, StepAlone DEF Control, At, Continues
    <1>3. cmd[c].prev = tracked[s] /\ cmd'[c].scope = s
        BY <1>1 DEF Control, Loaded, At, Continues
    <1>4. Owners'
        <2>1. \A r \in Roots : agents'[r] \subseteq agents[r]
            BY <1>1 DEF Scopes
        <2> QED
            BY <1>1, <1>2, <2>1, RemovalOwners DEF Rest
    <1>5. Removal(c)'
        BY <1>1, <1>3 DEF Removal
    <1>6. Progress(c)'
        BY <1>1 DEF Progress
    <1> QED
        BY <1>2, <1>4, <1>5, <1>6 DEF Rest

\* Taking back one setting.
LEMMA RevertSettingsRest ==
    ASSUME ScopesAssumption, TypeInv, TypeInv', Control, Rest, NEW c \in Classes, RevertSettings(c)
    PROVE  Rest'
    <1> DEFINE s == cmd[c].scope  prev == tracked[s]
    <1>1. /\ At(c, "revert") /\ Busy(c) /\ Continues(c)
          /\ UNCHANGED <<tracked, own, mcp, agents, ignored, journal>>
          /\ cmd'[c].pc \in {"revert", "restore"}
        BY RevertSettingsStep DEF At, Busy
    <1>2. NoneCommits /\ NoneCommits' /\ \A d \in Classes \ {c} : Progress(d)' /\ Removal(d)'
        BY <1>1, StepAlone DEF Control, At, Continues
    <1>3. /\ cmd[c].prev = prev /\ cmd'[c].scope = s /\ s \in Scopes /\ Sound(s, prev)
        BY <1>1 DEF Control, Loaded, At, Continues, TypeInv, CommandTypes, CommandRecords, RecordTypes
    <1>4. /\ agents[s] \intersect prev.files = {} /\ settings \intersect prev.settings \subseteq cmd[c].todo
          /\ cmd[c].todo \subseteq prev.settings
        BY <1>1 DEF Rest, Removal, At
    <1>5. Progress(c)'
        BY <1>1 DEF Progress
    <1>6. ASSUME NEW t \in cmd[c].todo, settings' = settings \ {t}, cmd'[c].todo = cmd[c].todo \ {t},
                 cmd'[c].pc = "revert"
          PROVE  Owners' /\ Removal(c)'
        <2>1. t \in tracked["global"].settings
            <3>1. t \in prev.settings
                BY <1>4, <1>6
            <3>2. s \notin Roots
                BY <1>3, <3>1, NoSettings
            <3> QED
                BY <1>3, <3>1, <3>2 DEF Scopes
        <2>2. Owners'
            BY <1>1, <1>2, <1>6, <2>1, RemovalOwners DEF Rest
        <2>3. Removal(c)'
            BY <1>1, <1>3, <1>4, <1>6 DEF Removal
        <2> QED
            BY <2>2, <2>3
    <1>7. ASSUME cmd[c].todo = {}, settings' = settings, cmd'[c].pc = "restore",
                 cmd'[c].todo = {p \in Places : cmd[c].prev.mcp[p] # "untouched"}
          PROVE  Owners' /\ Removal(c)'
        <2>1. Owners'
            BY <1>1, <1>2, <1>7, RemovalOwners DEF Rest
        <2>2. Removal(c)'
            BY <1>1, <1>3, <1>4, <1>7 DEF Removal
        <2> QED
            BY <2>1, <2>2
    <1>8. Owners' /\ Removal(c)'
        BY <1>6, <1>7, RevertSettingsStep
    <1> QED
        BY <1>2, <1>5, <1>8 DEF Rest

\* Restoring one entry.
LEMMA RestoreMcpRest ==
    ASSUME ScopesAssumption, TypeInv, TypeInv', Control, Rest, NEW c \in Classes, RestoreMcp(c)
    PROVE  Rest'
    <1> DEFINE s == cmd[c].scope  prev == tracked[s]
    <1>1. /\ At(c, "restore") /\ Busy(c) /\ Continues(c)
          /\ UNCHANGED <<tracked, own, settings, agents, ignored, journal>>
          /\ cmd'[c].pc \in {"restore", "unignore"}
        BY RestoreMcpStep DEF At, Busy
    <1>2. NoneCommits /\ NoneCommits' /\ \A d \in Classes \ {c} : Progress(d)' /\ Removal(d)'
        BY <1>1, StepAlone DEF Control, At, Continues
    <1>3. /\ cmd[c].prev = prev /\ cmd'[c].scope = s /\ s \in Scopes /\ Sound(s, prev)
          /\ cmd[c].todo \subseteq Places /\ \A p \in cmd[c].todo : prev.mcp[p] # "untouched"
        BY <1>1 DEF Control, Loaded, At, Continues, TypeInv, CommandTypes, CommandRecords, RecordTypes,
            Sensible
    <1>4. /\ agents[s] \intersect prev.files = {} /\ settings \intersect prev.settings = {}
          /\ \A p \in Places \ cmd[c].todo : prev.mcp[p] # "untouched" => mcp[p] = prev.mcp[p]
        BY <1>1 DEF Rest, Removal, At
    <1>5. Progress(c)'
        BY <1>1 DEF Progress
    <1>6. ASSUME NEW p \in cmd[c].todo, mcp'[p] = cmd[c].prev.mcp[p],
                 \A q \in Places \ {p} : mcp'[q] = mcp[q], cmd'[c].todo = cmd[c].todo \ {p},
                 cmd'[c].pc = "restore"
          PROVE  Owners' /\ Removal(c)'
        <2>1. tracked[ScopeOf(p)].mcp[p] # "untouched"
            <3>1. p \in PlacesOf(s) /\ p \in Places /\ prev.mcp[p] # "untouched"
                BY <1>3, <1>6 DEF Sound
            <3>2. s = ScopeOf(p)
                BY <1>3, <3>1, Apart
            <3> QED
                BY <3>1, <3>2
        <2>2. Owners'
            BY <1>1, <1>2, <1>6, <2>1, RemovalOwners DEF Rest
        <2>3. \A q \in Places \ cmd'[c].todo : prev.mcp[q] # "untouched" => mcp'[q] = prev.mcp[q]
            BY <1>3, <1>4, <1>6
        <2>4. Removal(c)'
            BY <1>1, <1>3, <1>4, <1>6, <2>3 DEF Removal
        <2> QED
            BY <2>2, <2>4
    <1>7. ASSUME cmd[c].todo = {}, mcp' = mcp, cmd'[c].pc = "unignore"
          PROVE  Owners' /\ Removal(c)'
        <2>1. Owners'
            BY <1>1, <1>2, <1>7, RemovalOwners DEF Rest
        <2>2. Removal(c)'
            BY <1>1, <1>3, <1>4, <1>7 DEF Removal
        <2> QED
            BY <2>1, <2>2
    <1>8. Owners' /\ Removal(c)'
        BY <1>6, <1>7, RestoreMcpStep
    <1> QED
        BY <1>2, <1>5, <1>8 DEF Rest

\* Removing the ignore lines.
LEMMA UnignoreRest ==
    ASSUME ScopesAssumption, TypeInv, TypeInv', Control, Rest, NEW c \in Classes, Unignore(c)
    PROVE  Rest'
    <1> DEFINE s == cmd[c].scope  prev == tracked[s]
    <1>1. /\ At(c, "unignore") /\ s \in Scopes /\ Busy(c)
          /\ Continues(c) /\ cmd'[c].pc = "forget"
          /\ \A f \in IgnoreFiles : ignored'[f] =
                IF f \in cmd[c].prev.ignore THEN ignored[f] \ {s} ELSE ignored[f]
          /\ UNCHANGED <<tracked, own, mcp, settings, agents, journal>>
        BY UnignoreStep DEF At, Busy
    <1>2. NoneCommits /\ NoneCommits' /\ \A d \in Classes \ {c} : Progress(d)' /\ Removal(d)'
        BY <1>1, StepAlone DEF Control, At, Continues
    <1>3. cmd[c].prev = prev /\ cmd'[c].scope = s /\ prev.ignore \subseteq IgnoreFiles
        BY <1>1 DEF Control, Loaded, At, Continues, TypeInv, RecordTypes, Records
    <1>4. Owners'
        <2>1. \A r \in Roots, f \in IgnoreFiles : (r \in ignored'[f] <=> r \in ignored[f])
                  \/ (r \notin ignored'[f] /\ f \in tracked[r].ignore)
            BY <1>1, <1>3
        <2> QED
            BY <1>1, <1>2, <2>1, RemovalOwners DEF Rest
    <1>5. Removal(c)'
        <2>1. /\ agents[s] \intersect prev.files = {} /\ settings \intersect prev.settings = {}
              /\ \A p \in Places : prev.mcp[p] # "untouched" => mcp[p] = prev.mcp[p]
            BY <1>1 DEF Rest, Removal, At
        <2>2. \A f \in prev.ignore : s \notin ignored'[f]
            BY <1>1, <1>3
        <2> QED
            BY <1>1, <1>3, <2>1, <2>2 DEF Removal
    <1>6. Progress(c)'
        BY <1>1 DEF Progress
    <1> QED
        BY <1>2, <1>4, <1>5, <1>6 DEF Rest

\* When the record goes, what it would restore has been restored.
LEMMA ForgetRest ==
    ASSUME ScopesAssumption, TypeInv, TypeInv', Control, Rest, NEW c \in Classes, Forget(c)
    PROVE  Rest'
    <1>0. PICK s, prev : s = cmd[c].scope /\ prev = tracked[s]
        OBVIOUS
    <1>1. /\ At(c, "forget") /\ s \in Scopes /\ End(c) /\ Busy(c)
          /\ tracked'[s] = NoRecord
          /\ \A x \in Scopes \ {s} : tracked'[x] = cmd[c].mem[x]
          /\ UNCHANGED <<own, files, journal>>
        BY <1>0, ForgetStep DEF At, Busy
    <1>2. cmd'[c].pc = "idle" /\ \A d \in Classes \ {c} : cmd'[d] = cmd[d]
        BY <1>1, EndStep DEF TypeInv, Idle
    <1>3. NoneCommits /\ NoneCommits' /\ \A d \in Classes : Progress(d)' /\ Removal(d)'
        BY <1>1, <1>2, StepAlone, StepQuiet DEF Control, At
    <1>4. \A x \in Scopes \ {s} : tracked'[x] = tracked[x]
        BY <1>1 DEF Control, Loaded, At
    <1>5. /\ agents[s] \intersect prev.files = {} /\ settings \intersect prev.settings = {}
          /\ \A p \in Places : prev.mcp[p] # "untouched" => mcp[p] = prev.mcp[p]
          /\ \A f \in prev.ignore : s \notin ignored[f]
        BY <1>0, <1>1 DEF Rest, Removal, At
    <1>6. /\ journal[s].touched = {}
          /\ s \in Roots => \A x \in Roots : journal[x].touched = {}
        BY <1>0, <1>1, OwnJournal DEF Control, At, Removing
    <1>7. /\ \A p \in Places : McpThen(p)' = McpThen(p)
          /\ \A t \in Targets : SettingThen(t)' <=> SettingThen(t)
          /\ \A r \in Roots, f \in IgnoreFiles : LineThen(r, f)' <=> LineThen(r, f)
          /\ \A r \in Roots : AgentsThen(r)' = AgentsThen(r)
        <2>1. \A p \in Places : McpThen(p)' = McpThen(p)
            BY <1>1, <1>3 DEF McpThen, Undoable, NoneCommits, files
        <2>2. \A t \in Targets : SettingThen(t)' <=> SettingThen(t)
            BY <1>1, <1>3 DEF SettingThen, Undoable, NoneCommits, files
        <2>3. \A r \in Roots, f \in IgnoreFiles : LineThen(r, f)' <=> LineThen(r, f)
            BY <1>1, <1>3 DEF LineThen, Undoable, NoneCommits, files
        <2>4. \A r \in Roots : AgentsThen(r)' = AgentsThen(r)
            BY <1>1, <1>3 DEF AgentsThen, Undoable, NoneCommits, files
        <2> QED
            BY <2>1, <2>2, <2>3, <2>4
    <1>8. McpOwned'
        <2> SUFFICES ASSUME NEW p \in Places
                     PROVE  own.mcp[p] = Before(tracked'[ScopeOf(p)], p, McpThen(p))
            BY <1>1, <1>7 DEF McpOwned, Before
        <2>1. ScopeOf(p) \in Scopes /\ own.mcp[p] = Before(tracked[ScopeOf(p)], p, McpThen(p))
            BY Apart DEF Rest, Owners, McpOwned
        <2>2. CASE ScopeOf(p) = s
            <3>1. McpThen(p) = mcp[p]
                BY <1>6, <2>2 DEF McpThen, Undoable
            <3>2. NoRecord.mcp[p] = "untouched"
                BY DEF NoRecord
            <3> QED
                BY <1>0, <1>1, <1>5, <2>1, <2>2, <3>1, <3>2 DEF Before
        <2>3. CASE ScopeOf(p) # s
            BY <1>4, <2>1, <2>3
        <2> QED
            BY <2>2, <2>3
    <1>9. SettingsOwned'
        <2> SUFFICES ASSUME NEW t \in Targets
                     PROVE  t \in own.settings <=> SettingThen(t) /\ t \notin tracked'["global"].settings
            BY <1>1, <1>7 DEF SettingsOwned
        <2>1. "global" \in Scopes /\ (t \in own.settings <=> SettingThen(t) /\ t \notin tracked["global"].settings)
            BY DEF Rest, Owners, SettingsOwned, Scopes
        <2>2. CASE s = "global"
            <3>1. SettingThen(t) <=> t \in settings
                BY <1>6, <2>2 DEF SettingThen, Undoable
            <3>2. NoRecord.settings = {}
                BY DEF NoRecord
            <3> QED
                BY <1>0, <1>1, <1>5, <2>1, <2>2, <3>1, <3>2
        <2>3. CASE s # "global"
            BY <1>4, <2>1, <2>3
        <2> QED
            BY <2>2, <2>3
    <1>10. LinesOwned'
        <2> SUFFICES ASSUME NEW r \in Roots, NEW f \in IgnoreFiles
                     PROVE  r \in own.ignored[f] <=> LineThen(r, f) /\ f \notin tracked'[r].ignore
            BY <1>1, <1>7 DEF LinesOwned
        <2>1. r \in Scopes /\ (r \in own.ignored[f] <=> LineThen(r, f) /\ f \notin tracked[r].ignore)
            BY Apart DEF Rest, Owners, LinesOwned
        <2>2. CASE r = s
            <3>1. LineThen(r, f) <=> r \in ignored[f]
                BY <1>6, <2>2 DEF LineThen, Undoable
            <3>2. NoRecord.ignore = {}
                BY DEF NoRecord
            <3> QED
                BY <1>0, <1>1, <1>5, <2>1, <2>2, <3>1, <3>2
        <2>3. CASE r # s
            BY <1>4, <2>1, <2>3
        <2> QED
            BY <2>2, <2>3
    <1>11. AgentsOwned'
        <2> SUFFICES ASSUME NEW r \in Roots
                     PROVE  AgentsThen(r) \subseteq tracked'[r].files \union own.agents[r]
            BY <1>1, <1>7 DEF AgentsOwned
        <2>1. r \in Scopes /\ AgentsThen(r) \subseteq tracked[r].files \union own.agents[r]
            BY Apart DEF Rest, Owners, AgentsOwned
        <2>2. CASE r = s
            <3>1. AgentsThen(r) = agents[r]
                BY <1>6, <2>2 DEF AgentsThen, Undoable
            <3> QED
                BY <1>0, <1>1, <1>5, <2>1, <2>2, <3>1
        <2>3. CASE r # s
            BY <1>4, <2>1, <2>3
        <2> QED
            BY <2>2, <2>3
    <1> QED
        BY <1>3, <1>8, <1>9, <1>10, <1>11 DEF Rest, Owners

\* What the user changes while nothing runs and nothing is to be rolled back.
LEMMA UserRest ==
    ASSUME ScopesAssumption, TypeInv, TypeInv', Rest, User
    PROVE  Rest'
    <1>1. /\ UNCHANGED <<tracked, agents, journal, cmd>>
          /\ \A c \in Classes : cmd[c].pc = "idle" /\ cmd'[c].pc = "idle"
          /\ \A s \in Scopes : journal[s].touched = {}
        BY DEF User, Settled, Quiet, Busy, TypeInv, JournalTypes, Kept
    <1>2. \A c \in Classes : Progress(c)' /\ Removal(c)'
        BY <1>1, StepQuiet
    <1>3. \A s \in Scopes : \A w : ~Undoable(s, w) /\ ~Undoable(s, w)'
        BY <1>1 DEF Undoable
    <1>4. /\ \A p \in Places : McpThen(p) = mcp[p] /\ McpThen(p)' = mcp'[p]
          /\ \A t \in Targets : (SettingThen(t) <=> t \in settings) /\ (SettingThen(t)' <=> t \in settings')
          /\ \A r \in Roots, f \in IgnoreFiles :
                (LineThen(r, f) <=> r \in ignored[f]) /\ (LineThen(r, f)' <=> r \in ignored'[f])
          /\ \A r \in Roots : AgentsThen(r) = agents[r] /\ AgentsThen(r)' = agents[r]
        <2>1. \A p \in Places : McpThen(p) = mcp[p] /\ McpThen(p)' = mcp'[p]
            BY <1>3, Apart DEF McpThen
        <2>2. \A t \in Targets : (SettingThen(t) <=> t \in settings) /\ (SettingThen(t)' <=> t \in settings')
            BY <1>3 DEF SettingThen, Scopes
        <2>3. \A r \in Roots, f \in IgnoreFiles :
                (LineThen(r, f) <=> r \in ignored[f]) /\ (LineThen(r, f)' <=> r \in ignored'[f])
            BY <1>3 DEF LineThen, Scopes
        <2>4. \A r \in Roots : AgentsThen(r) = agents[r] /\ AgentsThen(r)' = agents[r]
            BY <1>1, <1>3 DEF AgentsThen, Scopes
        <2> QED
            BY <2>1, <2>2, <2>3, <2>4
    <1>5. /\ \A p \in Places : own.mcp[p] = Before(tracked[ScopeOf(p)], p, mcp[p])
          /\ \A t \in Targets : t \in own.settings <=> t \in settings /\ t \notin tracked["global"].settings
          /\ \A r \in Roots, f \in IgnoreFiles :
                r \in own.ignored[f] <=> r \in ignored[f] /\ f \notin tracked[r].ignore
          /\ \A r \in Roots : agents[r] \subseteq tracked[r].files \union own.agents[r]
        BY <1>4 DEF Rest, Owners, McpOwned, SettingsOwned, LinesOwned, AgentsOwned
    <1>6. /\ \A p \in Places : own'.mcp[p] = Before(tracked[ScopeOf(p)], p, mcp'[p])
          /\ \A t \in Targets : t \in own'.settings <=> t \in settings' /\ t \notin tracked["global"].settings
          /\ \A r \in Roots, f \in IgnoreFiles :
                r \in own'.ignored[f] <=> r \in ignored'[f] /\ f \notin tracked[r].ignore
          /\ own'.agents = own.agents
        <2>0. own \in Snapshots /\ FileTypes
            BY DEF TypeInv
        <2>1. ASSUME NEW p \in Places, EditMcp(p)
              PROVE  /\ UNCHANGED <<settings, ignored>> /\ own'.settings = own.settings
                     /\ own'.ignored = own.ignored /\ own'.agents = own.agents
                     /\ \A q \in Places : own'.mcp[q] = Before(tracked[ScopeOf(q)], q, mcp'[q])
            <3>1. PICK v : v = IF mcp[p] = "user" THEN "none" ELSE "user"
                OBVIOUS
            <3>2. mcp' = [mcp EXCEPT ![p] = v] /\ UNCHANGED <<settings, ignored>>
                  /\ own' = IF tracked[ScopeOf(p)].mcp[p] # "untouched" THEN own
                            ELSE [own EXCEPT !.mcp[p] = v]
                BY <2>1, <3>1 DEF EditMcp
            <3>3. mcp'[p] = v /\ \A q \in Places \ {p} : mcp'[q] = mcp[q]
                BY <2>0, <3>2 DEF FileTypes
            <3>4. CASE tracked[ScopeOf(p)].mcp[p] # "untouched"
                BY <1>5, <3>2, <3>3, <3>4 DEF Before
            <3>5. CASE tracked[ScopeOf(p)].mcp[p] = "untouched"
                <4>1. own' = [own EXCEPT !.mcp[p] = v]
                    BY <3>2, <3>5
                <4>2. /\ own'.mcp[p] = v /\ \A q \in Places \ {p} : own'.mcp[q] = own.mcp[q]
                      /\ own'.settings = own.settings
                      /\ own'.ignored = own.ignored /\ own'.agents = own.agents
                    BY <2>0, <4>1 DEF Snapshots
                <4> QED
                    BY <1>5, <3>2, <3>3, <3>5, <4>2 DEF Before
            <3> QED
                BY <3>4, <3>5
        <2>2. ASSUME NEW t \in Targets, EditSettings(t)
              PROVE  /\ UNCHANGED <<mcp, ignored>> /\ own'.mcp = own.mcp
                     /\ own'.ignored = own.ignored /\ own'.agents = own.agents
                     /\ \A u \in Targets : u \in own'.settings <=>
                            u \in settings' /\ u \notin tracked["global"].settings
            <3>1. PICK v : v = IF t \in settings THEN settings \ {t} ELSE settings \union {t}
                OBVIOUS
            <3>2. settings' = v /\ UNCHANGED <<mcp, ignored>>
                  /\ own' = IF t \in tracked["global"].settings THEN own
                            ELSE [own EXCEPT !.settings = (@ \ {t}) \union (v \intersect {t})]
                BY <2>2, <3>1 DEF EditSettings
            <3>3. \A u \in Targets \ {t} : u \in v <=> u \in settings
                BY <3>1
            <3>4. CASE t \in tracked["global"].settings
                BY <1>5, <3>2, <3>3, <3>4
            <3>5. CASE t \notin tracked["global"].settings
                <4>1. PICK w : w = (own.settings \ {t}) \union (v \intersect {t})
                    OBVIOUS
                <4>2. own' = [own EXCEPT !.settings = w]
                    BY <3>2, <3>5, <4>1
                <4>3. /\ own'.settings = w /\ own'.mcp = own.mcp
                      /\ own'.ignored = own.ignored /\ own'.agents = own.agents
                    BY <2>0, <4>2 DEF Snapshots
                <4> QED
                    BY <1>5, <3>2, <3>3, <3>5, <4>1, <4>3
            <3> QED
                BY <3>4, <3>5
        <2>3. ASSUME NEW r \in Roots, NEW f \in IgnoreFiles, EditIgnore(r, f)
              PROVE  /\ UNCHANGED <<mcp, settings>> /\ own'.mcp = own.mcp
                     /\ own'.settings = own.settings /\ own'.agents = own.agents
                     /\ \A x \in Roots, g \in IgnoreFiles : x \in own'.ignored[g] <=>
                            x \in ignored'[g] /\ g \notin tracked[x].ignore
            <3>1. PICK v : v = IF r \in ignored[f] THEN ignored[f] \ {r} ELSE ignored[f] \union {r}
                OBVIOUS
            <3>2. ignored' = [ignored EXCEPT ![f] = v] /\ UNCHANGED <<mcp, settings>>
                  /\ own' = IF f \in tracked[r].ignore THEN own
                            ELSE [own EXCEPT !.ignored[f] = (@ \ {r}) \union (v \intersect {r})]
                BY <2>3, <3>1 DEF EditIgnore
            <3>3. ignored'[f] = v /\ \A g \in IgnoreFiles \ {f} : ignored'[g] = ignored[g]
                BY <2>0, <3>2 DEF FileTypes
            <3>4. \A x \in Roots \ {r} : x \in v <=> x \in ignored[f]
                BY <3>1
            <3>5. CASE f \in tracked[r].ignore
                <4>1. own' = own
                    BY <3>2, <3>5
                <4> QED
                    BY <1>5, <3>2, <3>3, <3>4, <3>5, <4>1
            <3>6. CASE f \notin tracked[r].ignore
                <4>1. PICK w : w = (own.ignored[f] \ {r}) \union (v \intersect {r})
                    OBVIOUS
                <4>2. own' = [own EXCEPT !.ignored[f] = w]
                    BY <3>2, <3>6, <4>1
                <4>3. /\ own'.ignored[f] = w /\ \A g \in IgnoreFiles \ {f} : own'.ignored[g] = own.ignored[g]
                      /\ own'.mcp = own.mcp /\ own'.settings = own.settings /\ own'.agents = own.agents
                    BY <2>0, <4>2 DEF Snapshots
                <4>4. ASSUME NEW x \in Roots, NEW g \in IgnoreFiles
                      PROVE  x \in own'.ignored[g] <=> x \in ignored'[g] /\ g \notin tracked[x].ignore
                    <5>1. x \in own.ignored[g] <=> x \in ignored[g] /\ g \notin tracked[x].ignore
                        BY <1>5
                    <5>2. CASE g # f
                        BY <3>3, <4>3, <5>1, <5>2
                    <5>3. CASE g = f /\ x # r
                        BY <3>3, <3>4, <4>1, <4>3, <5>1, <5>3
                    <5>4. CASE g = f /\ x = r
                        BY <3>3, <3>6, <4>1, <4>3, <5>4
                    <5> QED
                        BY <5>2, <5>3, <5>4
                <4> QED
                    BY <3>2, <4>3, <4>4
            <3> QED
                BY <3>5, <3>6
        <2>4. CASE \E p \in Places : EditMcp(p)
            BY <1>5, <2>1, <2>4
        <2>5. CASE \E t \in Targets : EditSettings(t)
            BY <1>5, <2>2, <2>5
        <2>6. CASE \E r \in Roots, f \in IgnoreFiles : EditIgnore(r, f)
            BY <1>5, <2>3, <2>6
        <2> QED
            BY <2>4, <2>5, <2>6 DEF User
    <1>7. McpOwned'
        <2> SUFFICES ASSUME NEW p \in Places
                     PROVE  own'.mcp[p] = Before(tracked[ScopeOf(p)], p, McpThen(p)')
            BY <1>1 DEF McpOwned, Before
        <2> QED
            BY <1>4, <1>6
    <1>8. SettingsOwned'
        BY <1>1, <1>4, <1>6 DEF SettingsOwned
    <1>9. LinesOwned'
        BY <1>1, <1>4, <1>6 DEF LinesOwned
    <1>10. AgentsOwned'
        BY <1>1, <1>4, <1>5, <1>6 DEF AgentsOwned
    <1> QED
        BY <1>2, <1>7, <1>8, <1>9, <1>10 DEF Rest, Owners

-----------------------------------------------------------------------------
(***************************************************************************)
(* The invariant and what follows from it.                                 *)
(***************************************************************************)
LEMMA InitRest == ASSUME ScopesAssumption, Init PROVE Control /\ Rest
    <1>1. /\ \A c \in Classes : cmd[c] = Idle
          /\ \A s \in Scopes : journal[s] = NoJournal /\ tracked[s] = NoRecord
        BY DEF Init
    <1>2. Control
        BY <1>1 DEF Control, OneRuns, Loaded, JournalsUsed, Busy, Idle, Scopes, NoJournal
    <1>3. \A c \in Classes : Progress(c) /\ Removal(c)
        BY <1>1 DEF Progress, Removal, Idle
    <1>4. \A s \in Scopes : \A w : ~Undoable(s, w)
        BY <1>1 DEF Undoable, NoJournal
    <1>5. /\ own.mcp = mcp /\ own.settings = settings /\ own.ignored = ignored /\ own.agents = agents
        BY DEF Init
    <1>6. McpOwned
        BY <1>1, <1>4, <1>5, Apart DEF McpOwned, McpThen, Before, NoRecord
    <1>7. SettingsOwned
        BY <1>1, <1>4, <1>5 DEF SettingsOwned, SettingThen, NoRecord, Scopes
    <1>8. LinesOwned
        BY <1>1, <1>4, <1>5 DEF LinesOwned, LineThen, NoRecord, Scopes
    <1>9. AgentsOwned
        BY <1>1, <1>4, <1>5 DEF AgentsOwned, AgentsThen, NoRecord, Scopes
    <1> QED
        BY <1>2, <1>3, <1>6, <1>7, <1>8, <1>9 DEF Rest, Owners

\* Every step keeps the files, the records and the progress in agreement.
LEMMA RestStep ==
    ASSUME ScopesAssumption, Disciplined, TypeInv, Control, Rest, TypeInv', Control', [Next]_vars
    PROVE  Rest'
    <1>1. ASSUME NEW s \in Scopes, NEW k \in {"install", "update", "uninstall"}, Invoke(s, k)
          PROVE  Rest'
        BY <1>1, InvokeRest DEF Disciplined
    <1>2. ASSUME NEW c \in Classes, Step(c) \/ Crash(c) PROVE Rest'
        <2>1. CASE Load(c)
            BY <2>1, LoadRest DEF Disciplined
        <2>2. CASE Begin(c)
            BY <2>2, BeginRest
        <2>3. CASE Extract(c)
            BY <2>3, ExtractRest
        <2>4. CASE Edit(c)
            BY <2>4, EditRest
        <2>5. CASE RemoveStale(c)
            BY <2>5, RemoveStaleRest
        <2>6. CASE Ignore(c)
            BY <2>6, IgnoreRest
        <2>7. CASE Save(c)
            BY <2>7, SaveRest
        <2>8. CASE Commit(c)
            BY <2>8, CommitRest
        <2>9. CASE Fail(c) \/ GiveUp(c) \/ Crash(c)
            BY <2>9, LeftRest DEF Disciplined
        <2>10. CASE RemoveFiles(c)
            BY <2>10, RemoveFilesRest
        <2>11. CASE RevertSettings(c)
            BY <2>11, RevertSettingsRest
        <2>12. CASE RestoreMcp(c)
            BY <2>12, RestoreMcpRest
        <2>13. CASE Unignore(c)
            BY <2>13, UnignoreRest
        <2>14. CASE Forget(c)
            BY <2>14, ForgetRest
        <2> QED
            BY <1>2, <2>1, <2>2, <2>3, <2>4, <2>5, <2>6, <2>7, <2>8, <2>9, <2>10, <2>11, <2>12,
               <2>13, <2>14 DEF Step
    <1>3. CASE User
        BY <1>3, UserRest
    <1>4. CASE UNCHANGED vars
        <2>1. UNCHANGED <<tracked, own, files, journal, cmd>>
            BY <1>4 DEF vars, files
        <2>2. \A x, w : Undoable(x, w)' <=> Undoable(x, w)
            BY <2>1 DEF Undoable, At
        <2>3. /\ \A p : McpThen(p)' = McpThen(p)
              /\ \A t : SettingThen(t)' <=> SettingThen(t)
              /\ \A r, f : LineThen(r, f)' <=> LineThen(r, f)
              /\ \A r : AgentsThen(r)' = AgentsThen(r)
            BY <2>1, <2>2 DEF McpThen, SettingThen, LineThen, AgentsThen, files
        <2>4. Owners'
            BY <2>1, <2>3, OwnersKept DEF Rest
        <2>5. ASSUME NEW c \in Classes PROVE Progress(c)'
            <3>1. Prepared(c)' <=> Prepared(c)
                BY <2>1 DEF Prepared
            <3>2. \A p : Fits(c, p)' <=> Fits(c, p)
                BY <2>1 DEF Fits, Before, files
            <3>3. \A x, p : Unedited(x, p)' <=> Unedited(x, p)
                BY <2>1 DEF Unedited, files
            <3>4. Extracted(c)' <=> Extracted(c)
                BY <2>1 DEF Extracted, Owned, files
            <3>5. PICK x : x = cmd[c].scope
                OBVIOUS
            <3>6. Progress(c)
                BY DEF Rest
            <3> QED
                BY <2>1, <2>3, <3>1, <3>2, <3>3, <3>4, <3>5, <3>6 DEF Progress, files
        <2>6. \A c \in Classes : Removal(c)'
            BY <2>1 DEF Rest, Removal, files
        <2> QED
            BY <2>4, <2>5, <2>6 DEF Rest
    <1> QED
        BY <1>1, <1>2, <1>3, <1>4 DEF Next

\* Nobody has an open journal when all is settled.
LEMMA SettledThen ==
    ASSUME ScopesAssumption, TypeInv, Rest, Settled
    PROVE  Restorable /\ FilesTracked
    <1>1. \A s \in Scopes : \A w : ~Undoable(s, w)
        BY DEF Settled, TypeInv, JournalTypes, Kept, Undoable
    <1>2. \A p \in Places : own.mcp[p] = Before(tracked[ScopeOf(p)], p, mcp[p])
        BY <1>1, Apart DEF Rest, Owners, McpOwned, McpThen
    <1>3. own.settings = settings \ tracked["global"].settings
        <2>1. \A t \in Targets : t \in own.settings <=> t \in settings /\ t \notin tracked["global"].settings
            BY <1>1 DEF Rest, Owners, SettingsOwned, SettingThen, Scopes
        <2>2. own.settings \subseteq Targets /\ settings \subseteq Targets
            BY DEF TypeInv, FileTypes, Snapshots
        <2> QED
            BY <2>1, <2>2
    <1>4. \A r \in Roots, f \in IgnoreFiles :
              r \in own.ignored[f] <=> r \in ignored[f] /\ f \notin tracked[r].ignore
        BY <1>1 DEF Rest, Owners, LinesOwned, LineThen, Scopes
    <1>5. \A r \in Roots : agents[r] \subseteq tracked[r].files \union own.agents[r]
        BY <1>1 DEF Rest, Owners, AgentsOwned, AgentsThen, Scopes
    <1> QED
        BY <1>2, <1>3, <1>4, <1>5 DEF Restorable, FilesTracked, Before

\* Whatever commands are run, fail, are interrupted and are run again, and whatever the
\* user changes in between.
LEMMA WholeInvariance == ASSUME Disciplined PROVE Spec => [](TypeInv /\ Control /\ Rest)
    <1>1. Init => TypeInv /\ Control /\ Rest
        BY InitTypes, InitRest, ScopesAssumption
    <1>2. TypeInv /\ Control /\ Rest /\ [Next]_vars => (TypeInv /\ Control /\ Rest)'
        <2> SUFFICES ASSUME TypeInv, Control, Rest, [Next]_vars PROVE (TypeInv /\ Control /\ Rest)'
            OBVIOUS
        <2>1. TypeInv'
            BY TypeInvariant, ScopesAssumption
        <2>2. Control'
            BY ExclusiveStep, JournalsStep, ScopesAssumption DEF Control, Disciplined
        <2>3. Rest'
            BY <2>1, <2>2, RestStep, ScopesAssumption
        <2> QED
            BY <2>1, <2>2, <2>3
    <1> QED
        BY <1>1, <1>2, PTL DEF Spec

\* When all commands have ended and none is left to be run again, the record of each scope
\* says how to give the user's files back: mcp.json, settings.json and the ignore files.
THEOREM UninstallGivesBack == ASSUME Disciplined PROVE Spec => []Restorable
    <1>1. TypeInv /\ Rest => Restorable
        BY SettledThen, ScopesAssumption DEF Restorable
    <1> QED
        BY <1>1, WholeInvariance, PTL

\* Nor is an agent file left in a local root that no record owns.
THEOREM NoFileIsLost == ASSUME Disciplined PROVE Spec => []FilesTracked
    <1>1. TypeInv /\ Rest => FilesTracked
        BY SettledThen, ScopesAssumption DEF FilesTracked
    <1> QED
        BY <1>1, WholeInvariance, PTL
==============================================================================
