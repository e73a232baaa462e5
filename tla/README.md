# Verification of CCSubAgents

CCSubAgents is two Go programs: `ccsubagents/`, an installer and command line, and
`local-artifact/`, a store of text and binary artifacts with a daemon, an MCP server and a web
interface. This directory holds TLA+ models of the parts of both in which concurrency, crashes
and order decide whether they are correct, the TLC runs that check them and the proofs that
TLAPS checks. Paths below are relative to `src/`; `internal/` is the one of the program under
discussion.

    tlc -workers 2 -config MCArtifactRefinement.cfg MCArtifactRefinement.tla   # any run
    tlapm ArtifactStoreProofs.tla                                              # the proofs
    tlapm DaemonRequestsProofs.tla                                             # likewise McpSessionProofs,
                                                                               # ArtifactRefinementProofs,
                                                                               # DaemonLifecycleProofs and, five to
                                                                               # ten minutes each, InstallTxnProofs,
                                                                               # TrackedScopesProofs and
                                                                               # DaemonAnswersProofs

## 1. Inventory

| part | state | operations | what is hard, and what makes it correct |
|---|---|---|---|
| **A. Artifact store** `local-artifact/internal/core/artifacts`, `infrastructure/sqlite`, `infrastructure/blobstore` | tables `artifacts` (name, head, deleted) and `versions` (ref, name, previous, payload digest), blob files | save, delete by name or reference, resolve, get, list, list versions | Several goroutines and several processes share one database; a blob is written before and outside the transaction; busy transactions are retried; reads take several statements. Each name has one unbranched history, the head is its end, a conditional save wins once, a visible version has its payload, every request is atomic. |
| **B. Install transactions** `ccsubagents/internal/integration/txn`, `files/rollback.go`, `installer/global_flow.go` | managed files, journal and lock file per scope, backup directories, `tracked.json` | install, update, uninstall; begin, recover, commit, roll back | Two nested transactions, each with its lock; a crash between any two file operations; recovery may crash too. Files are all of one release after recovery; one holder of a lock; a failure leaves nothing behind. |
| **C. Daemon lifecycle** `local-artifact/internal/presentation/daemon`, `ccsubagents/internal/daemonctl` | `daemon.token`, the Unix socket file, each process's token and listener | start, stop, autostart by the MCP server, web process, shutdown request | Independent processes check and then act on two files; daemons are killed; no-auth is switched on and off. One daemon, reachable with the token in the file; starting always works; a stop stops. |
| **D. Process registry** `daemon/process_registry.go`, `daemonctl/stop_processes.go` | pid files with a start identity | register, unregister, stop registered processes | Process ids are used again between a check and a signal. Only registered processes are signalled. |
| **E. MCP session** `local-artifact/internal/presentation/mcp` | session workspace, request channel, pending roots/list requests | initialize, tools/call, roots notifications, roots/list answers | A reader and a worker goroutine, a bounded channel, a call back to the client with a timeout. No call is served for roots known to be old; every call is served. |
| **F. Child web process** `local-artifact/cmd/local-artifact-mcp/main.go` | child, exit channel | start, stop with two timeouts | The child exits at any moment of the stop protocol. |
| **G. Workspace engine and registry** `daemon/engine.go`, `sqlite/workspace_registry.go` | workspace to open repository, workspace rows | resolve a workspace, close | Repositories are opened outside the mutex; a second table above them; Close races requests. One repository per workspace, none closed under a request before the end. |
| **H. Configuration edits** `ccsubagents/internal/config` | settings, MCP configuration, ignore files, the recorded edits | apply, revert, merge | A revert must undo exactly what was applied and keep what the user changed since. |
| **I. Tracked state, local scope** `installer/local_flow.go`, `state` | `tracked.json` | install, update, uninstall per repository | Two scopes read, change and write one file under different locks. A command keeps the records of the other scopes; every agent file is in a record. |
| **J. Web interface** `presentation/web/server.go` | none of its own | listings, batch delete | Listings and deletions made of several store operations. A listing shows what was current, a batch reports what it did. |
| **K. MCP tools** `mcp/tools_handlers_*.go` | none of its own | to-do read and write, save, get, list, delete | The to-do tool makes two requests; its write is conditional on the version read, and may be tried again. A guarded write happens once. |
| **L. The rest** | | action graph, releases, archives, paths, settings, older file store | Pure functions, input and output, rendering; the file store is not opened by any program. |

How they interact: an MCP server (E) starts a daemon if none answers (C) and may start a web
process (F, C); its tools (K) send one HTTP request each to the daemon, whose engine (G) opens
the store of a workspace (A). A web process (J) uses the store directly and serves the daemon's
API too when nobody else does. The installer (B, H, I) stops the daemon (C, D) before it removes
files. `PROJECT.json` lists the parts with their sources, and under "hazards" each thing that
can go wrong at its line, with the properties that watch it.

## 2. Plan

Order of work, the most important behaviour first.

1. **Done.** `ArtifactStore`, its abstract specification `ArtifactHistory`, the refinement
   (`ArtifactLinearization`) and the proofs (`ArtifactStoreProofs`).
2. **Done.** `InstallTxn` and its abstract specification `AtomicInstall`.
3. **Done.** `McpSession`.
4. **Done.** `DaemonLifecycle`.
5. **Done.** `TrackedScopes` (H, I): global and local flows over one `tracked.json`, with the
   configuration edits and what the user does to the same files.
6. **Done.** `WorkspaceEngine` (G): the tables of services, shutdown under requests, restart.
7. **Done.** `DaemonRequests` (J, K and the command line), composed with `WorkspaceEngine`, over
   a store whose calls take effect at one instant, which `Linearizable` shows.
8. **Done.** Proofs about the store (`ArtifactStoreProofs`) and about the engine
   (`DaemonRequestsProofs`).
9. **Done.** Proofs about the session (`McpSessionProofs`), the daemon's lifecycle
   (`DaemonLifecycleProofs`) and the installer's transactions, with the refinement of
   `AtomicInstall` (`InstallTxnProofs`).
10. **Done.** Proofs about the tracked state: `Restorable`, `FilesTracked`, and when a command
    keeps the records of other scopes (`TrackedScopesProofs`).
11. **Done.** Proofs that the store is linearizable (`ArtifactRefinementProofs`) and about what the
    daemon's requests promise of the versions (`DaemonAnswersProofs`), and that a crash of the
    installer wedges no later command.
12. Open: a module for the process registry (D); the requests of several workspaces that a web page
    lists together.

## 3. The models

### ArtifactStore

A *client* is one request being served. Variables `artifacts`, `versions` and `blobs` are the
database and the blob directory; `writer` is SQLite's write lock; `pc`, `req`, `attempt`, `cur`,
`rows`, `status` are the request's program counter and locals.

| actions | code |
|---|---|
| `CallSave`, `CallDeleteByName`, ... | entry points of `Service` (`service.go`), with validated arguments |
| `PutBlob`, `PutFails` | `Store.Put`, called by `ArtifactRepository.Save` before the transaction |
| `Begin`, `Busy` | `BEGIN IMMEDIATE`; a busy database is retried `MaxAttempts` times |
| `SaveOnce` | the statements of `saveOnce`: read the head, check the expected reference, insert the version, move the head |
| `DeleteOnce` | `deleteOnce`: find the artifact, check that a reference is its head, append a tombstone |
| `Commit`, `TxFails` | commit, or any error with its deferred rollback |
| `Resolve`, `List`, `ReadLatest`, `GetMeta`, `GetBlob`, `ListVersions`, `ReadFails` | the read paths, one action per statement |

The body of a transaction is one action because SQLite's write lock keeps other writers out and
its effects are invisible before the commit; that lock is explicit, and dropping it
(mutation `LockIgnored`) breaks `LinearHistory`. References come from a generator whose only
guarantee is the primary key: every action that makes one may pick a used one.

`ArtifactHistory` is what clients may rely on: a sequence of payloads and deletions per name, and
requests that take effect at one instant. `ArtifactLinearization` maps the store to it. It adds a
history variable, `line`: for each name its versions in the order of their commits. What `line`
becomes is a function of the step (`Record`), so `LineSpec` has the behaviours of `Spec`, each with
its lines. A write takes effect at its commit, a read at its first statement: what it reads in
later statements does not change any more, and `Ahead` says which versions a listing has
still to read. `Linearizable` is the abstract specification as a property.

### InstallTxn

A *process* is one invocation of the installer. It holds the transaction `flow` (the engine around
the whole command) and, inside it, `work` (the files). Every step is one change on disk: lock
created, lock stamped with a process id, journal written, backup copied, record appended, file
replaced, `tracked.json` replaced, commit flag written, journal removed, backups removed, lock
removed. The content of a file is the release it comes from. `Crash` ends a process between any
two steps; a fault makes one operation fail and takes the code's error path, deferred calls
included (`Rollback.Restore`, `Session.Rollback`, `Session.Close`). Some errors the code ignores
(`removeIfExists`, `removeAllIgnore`): a journal, backups or a lock file that cannot be removed
stay, and the process goes on (`DropJournal`, `SweepBackups`, `Stuck`). The field `left` of a lock
file says that its owner has tried in vain to remove it; nothing in the code reads it, `LocksFreed`
does. Such a lock is broken by a later command once its owner is dead, as a crashed one's is, so it
counts with the crashes in what excludes races over stale locks: `LocksStick = FALSE` leaves these
failures out. One fault stands for what fails together: all backups that are not removed, or the
write of a process id and the removal of its file after it.

`AtomicInstall` has one variable for all files, changed in one step by a running command; only an
uninstallation goes through a mixture.
`Installed` of `InstallTxn` is what a recovery at this instant would leave: the refinement says
that a crash never shows a half-done install to the commands after it.

### McpSession

The client, the pipe, the reader goroutine (`readLoop`, `handleIncomingLine`), the request
channel of capacity `Capacity`, and the worker (`handleRequest`, `resolveSessionStore`,
`callClient`). Roots are numbered in the order in which the client has them; a served call
records the roots the client had announced when it was sent and the workspace it was served in.
The client is external: it may answer a roots/list request late, never, out of order or with an
error.

### DaemonLifecycle

*Commands* are invocations of `daemon start`, `daemon stop` and MCP servers, *daemons* are daemon
and web processes running `daemon.Run`. The shared state is `token` (the file `daemon.token`) and
`socket` (whose listener the socket file belongs to). A step is one access to one of them: read
the token, write it, `lstat`, dial, remove, bind, listen, chmod, serve, set the shutdown function.
A client finds at the socket a refusal, an answer, or (bound and not serving yet) nothing.
`Overlap = FALSE` means that what one command began has ended when the next begins; daemons
are still killed at any moment. The MCP server's two waits and `StartAndWait` have the same shape
and share the actions `Probe`, `Fallback`, `Spawn` and `Wait`.

### TrackedScopes

`tracked` is `tracked.json`, one record per scope: `global`, or a local root. `mcp`, `settings`,
`ignored` and `agents` are the files the installer shares with the user, reduced to the entries
it writes: whose the entry is (nobody's, the user's, the program's), and which roots and releases
are listed. `own` is a history variable: what the files would hold if the program had never run.
The user changes it along with the files, except where a record claims the entry, in which case
an uninstall is meant to take the claim back.

| actions | code |
|---|---|
| `Invoke`, `Load` | `Runner.Run`; `tracked.json` is read, targets and modes are chosen, an existing team setup is detected |
| `Begin` | `txn.Begin`: rolls back what an earlier command of this scope left, opens a journal |
| `Extract`, `Edit`, `RemoveStale`, `Ignore` | agent files, `ApplySettingsEdit` and `ApplyMCPEdit`, stale agent files, ignore rules |
| `Save`, `Commit` | `SaveTrackedState` writes the whole file as it was loaded, with this scope's record replaced |
| `RemoveFiles`, `RevertSettings`, `RestoreMcp`, `Unignore`, `Forget` | `uninstallLocal`, `uninstall`, step by step, without a transaction |
| `Fail`, `GiveUp`, `Crash` | an error before or after `Begin`, an error in an uninstall, the death of the process |
| `User` | the user edits a file between commands |

Assumed: the agents path is the same in all releases; all roots lie in one git repository, so they
share its ignore files; an ignore line occurs at most once per file; the user edits only while no
command is under way and no journal is open.

### WorkspaceEngine and DaemonRequests

`WorkspaceEngine` is the daemon between a request and its repository. `service` is `Engine.service`,
`web` the web server's own table, `webLock` the mutex that `serviceForSubspace` holds while it asks
the engine. A step is a critical section or an opening of a database. Shutdown is the order of
deferred calls in `Run`: `CloseWeb`, `CloseEngine`, `Exit`; requests go on between them.

`DaemonRequests` extends it with the clients. A request is a job on a handler: `Request` starts it
(one action per tool, form or command), `Call...` is one call of the store, `Reply` ends it.
`log` holds the versions of all names in order; a call of the store is one step on it, which is
what `ArtifactHistory` promises. A client keeps its `wish`, the save it is about, until it hears
what became of it; it may stop waiting (`Abandon`), be left without an answer by a crash, and make
the save again (`Retry`).

## 4. Runs

Each passing property has a mutation of a mapped definition that TLC shows to break it
(`PROJECT.json`, "mutants").

| run | bounds | shows |
|---|---|---|
| `artifact_store` | 2 clients, 2 names, 3 references, 1 digest, 2 attempts, listing limit 2 | types, `LinearHistory`, `HeadMatches`, `PayloadsDurable`, `OneWinner`, `HeadAdvances`, the inductive invariant `IInv`, and `Linearizable` |
| `artifact_liveness` | 2 clients, 1 name, 2 references | `Answered` |
| `install_recovery` | 3 commands in turn, 2 files, 2 releases, 2 crashes, 1 fault, ignored ones included | `AllOrNothing`, `BackupsKept`, `RetriesSucceed`, `Atomic` |
| `install_contention` | 2 commands at once, uninstall too, 2 files, 2 releases, 1 fault, no crash, lock files can be removed | `OneHolder`, `LocksFreed`, `Atomic` under the locks |
| `mcp_session` | channel of 2, 2 calls, 3 sets of roots, client with or without the capability | `NeverStale`, `Served`, bounds of the queues |
| `daemon_commands` | 3 commands and 2 web processes in turn, 4 processes in all, no-auth changed at will, 1 kill, 1 fault | `OneDaemon`, `TokenAgrees`, `StartWorks`, `StopTruth` |
| `daemon_overlap` | 2 commands at once, 2 daemons, 1 kill, 1 fault | `Returns` |
| `tracked_scopes` | 3 commands in turn, 2 roots, 2 targets, 2 releases, 1 crash, failure or change by the user | `Restorable`, `FilesTracked`, `ScopesKept` |
| `daemon_requests` | 2 clients, 2 handlers, 2 requests, 1 workspace, a name and its to-do list, 1 shutdown, crash, failure or abandoned request | `SharedRepository`, `WrittenOnce`, `ListingTrue`, `BatchTrue` |

Why the bounds are enough. A race of the store is between two requests, over one name or, by
reference, two; three references make a chain with a middle, and two attempts are one retry. A
recovery needs a crashed command, a recovery that crashes in turn and a third that completes it:
three commands, two crashes; a mixture needs two files. Calls and notifications together
fill a channel of two, and a stale answer needs a second question. An install, its interrupted
repetition or update, and the uninstall or the command after it are three commands; two roots and
two targets are what a command may confuse with its own. Two requests are a save and its retry, two
first requests for one database, or a listing or batch and one request of another client between
its calls; workspaces share nothing but the tables, so one is enough there, and the proof of
`SharedRepository` holds for any number. A token may come from a command, a daemon or a web
process, and a disagreement needs two of them and a later command that meets it. Symmetry is used
for safety only.

Where the code ends, the models stop: an installer or an MCP session that is finished takes no
step, hence `CHECK_DEADLOCK FALSE` in all configurations but those of the artifact store, where
clients go on for ever.

Fairness. `FairSpec` of the store: each request in progress takes its steps (goroutines are
scheduled; the write lock is polled with a timeout, and attempts are bounded, so a request never
waits for ever); nobody has to make a request. Of the session: reader and worker run and the
five-second timer fires; the client owes nothing. Of the lifecycle: processes run and poll loops
reach their deadlines; nobody has to invoke a command.

Deadlines are not measured. They are assumed long enough for what they wait for: a daemon that is
starting has started or died before eight seconds are over (`Late`), one that is stopping has
stopped within four. In a session the five seconds may pass at any moment of a wait.

### Disagreements found

Three runs expect a violation. Each states what a test says and shows that the code does
otherwise; `PROJECT.json`, "findings", quotes both.

| run | property | what happens |
|---|---|---|
| `install_stale_lock` | `OneHolder` | two commands find a dead command's lock; the second removes the first one's new lock |
| `install_failed_update` | `FailureKeepsTracked` | `tracked.json` is saved before the commit and not restored when that fails |
| `daemon_socket_race` | `ActiveSocketKept` | two starting daemons: one removes the socket on which the other listens |

A fourth finding comes from `install_recovery`, whose `BackupsKept` states the exception. `Rollback`
and `Recover` ignore a failure to remove the journal and then remove the backups it names
(`session.go:43-44`, `:110-111`). The files are as they should be, all of one release, but the journal
is still one to be rolled back, and every later `Begin` fails at the first backup it misses, until
someone removes the journal by hand. `engine_test.go:89` expects a recovery to return no error.
`MCInstallLostBackups.cfg`, which is not among the runs above, checks `RecoverSucceeds` (a recovery
fails only when one of its own operations does) and TLC shows the way there.

The passing runs leave the three situations of the table out by their bounds, not by their actions: no crash
beside contention, no overlap of starts. The same bounds hide more that the models can
show, noted under "hazards": two first starts at the same time generate two tokens; a web process
started after no-auth was switched on empties the token file of a running daemon (with `Mixed = TRUE`); a shutdown request between `Serve` and
`SetShutdownFunc` is accepted and forgotten; with the request channel full, a roots/list answer
that came in time is not read and the session falls back to the global workspace.

`TrackedScopes` has four constants that name a condition; outside of it TLC shows a violation, each
of which the code really has:

| constant | condition in the run | without it |
|---|---|---|
| `Overlap` | no global command beside a local one | both write all of `tracked.json`; one scope's record is lost (`ScopesKept`) |
| `KeepTargets` | a global install names all targets tracked so far | the edits of the others are forgotten (`global_flow.go:655-691`, `Restorable`) |
| `RerunFirst` | a command that crashed is run again before any other of its class (global, or local in any root) | an uninstall in between does not recover; the next install's rollback brings removed agent files back (`FilesTracked`, four commands). The rollback restores whole ignore files: a local install that crashed, then an uninstall in another root, then the install again bring back the ignore line of the other root, which no record names any more (`Restorable`, four commands). A team install run again takes its own leftovers for an existing setup (`local_flow.go:99`, before `txn.Begin` at `:371`) and installs binaries only |
| `CommitFails` | no command ends between saving `tracked.json` and committing | as in `install_failed_update`, for a local root (`local_flow.go:532`) |

Read off the code while modelling, and kept out of the runs by what is abstracted: a global
reinstall forgets the files of the release before (a local one keeps them, `local_flow.go:509`), so
`FilesTracked` speaks of local roots; an update forgets the directories that the record listed; an
uninstall that is repeated may remove an identical ignore line that the user added after the first;
the rollback of a local install that *failed* restores the whole ignore file too, but it holds the
lock of all local commands since it read the file, so there is no line of another root to lose.

## 5. Proofs

`ArtifactStoreProofs` proves, for every set of clients, names, references and digests and every
number of attempts, under the one assumption `StoreAssumption` (the null values are not among
the others; the two limits are positive):

| theorem | states |
|---|---|
| `Invariance` | `Spec => []IInv` |
| `TypeCorrect` | `Spec => []TypeOK` |
| `HistoryIsLinear` | `Spec => []LinearHistory` |
| `HeadsMatch` | `Spec => []HeadMatches` |
| `PayloadsAreDurable` | `Spec => []PayloadsDurable` |
| `ExpectedOnce` | `Spec => []OneWinner` |
| `HeadsAdvance` | `Spec => HeadAdvances` |

`LinearHistory` is not inductive: that two versions never share a predecessor depends on the
version a transaction has staged and not yet committed. `IInv` adds what closes the argument:
`LockOwned` (the write lock belongs to the one client inside a transaction), `StagedFits` (a
staged version succeeds the *current* head, has an unused reference, and its payload is stored)
and `RequestsWellFormed` (what each step may assume of its request). Since only the holder of the
lock changes the tables, the head it read is still the head when it commits. `SavesRecorded`
ties a successful save to its version, from which `OneWinner` follows with `LinearHistory`: two
winners would share a predecessor. One lemma per action shows that it preserves `IInv`.

`ArtifactRefinementProofs` proves, under the same assumption and with no other:

| theorem | states |
|---|---|
| `StoreLinearizable` | `LineSpec => Linearizable` |
| `LinesInvariance` | `LineSpec => Spec /\ []LInv` |

The mapping says what a request answers before it has read it, so the step that completes a read
must find what was promised, whatever was saved and deleted since its first statement. `LInv` is `IInv`
with: `Lines` (a name's line holds exactly its versions, each the successor of the one before, the
last one the head), `Shaped` (which requests are where, and what they hold there) and `Reading`
(a staged version is the one asked for; a read by name is at a version that exists; a listing is at
a version of the line and has read only later ones). A line grows only at its end, so `Back`, the
versions from a given one back to the first, as many as are wanted, never changes: with each
version that a listing reads, the versions read and those ahead stay the same set
(`WalkKeepsPromise`), and when it ends none is ahead (`WalkEnds`). One lemma per action (`SaveMaps`,
`CommitMaps`, `GetMetaMaps`, ...) names the step of `ArtifactHistory` that it is, or says that it is
none; a crash, and an answer, is `Leave`.

`DaemonRequestsProofs` proves, for every set of workspaces, repositories, handlers, clients and
names and every bound of the models, under `EngineAssumption` and `RequestsAssumption` (the global
workspace is one of the workspaces, the null value is in none of the sets, the bounds are natural
numbers):

| theorem | states |
|---|---|
| `EngineInvariance` | `Spec => []Inv` |
| `RepositoriesAreShared` | `Spec => []SharedRepository` |

`SharedRepository` says what is true of the repositories that are open; that it stays true depends
on where each handler stands between the two looks at the table. `EInv` adds this: `Brought` (a
repository open outside the table belongs to exactly one handler, the one about to put it there or
close it), `Tabled` (the table names open repositories, and who serves has the one of the table),
`Named` and `Gone` (a handler at work has a workspace; a daemon that is down holds nothing) and
`OfTheWeb` (the mutex of the web server is held by a web request that is resolving). The requests
add two facts: `Answering` (there is an answer only while its handler serves, so a handler that
replies holds no mutex and no repository of its own) and `Remembered` (a save that is made again
names a workspace and a way to it). `Engine.Close` does not wait for handlers (the hazard at
`run.go`), so `SharedRepository` is stated, and proved, up to that step.

`DaemonAnswersProofs` proves, under the same two assumptions and from `EngineInvariance`:

| theorem | states |
|---|---|
| `AnswersInvariance` | `Spec => [](Inv /\ Answers)` |
| `RequestsTypeCorrect` | `Spec => []TypeOK` |
| `SavesOnce` | `Spec => []WrittenOnce` |
| `ListingsTrue` | `Spec => []ListingTrue` |
| `BatchesTrue` | `Spec => []BatchTrue` |

All three rest on one fact: the log only grows, so what was the head of a name when the log was `k`
long (`HeadAt`) never changes, and what a request has noted stays true whatever others do. `Listing`
notes, for the calls made so far, that each version found was current since the request began, and
that a name asked for which is still missing was not current all the time. `Deleting` keeps the
account of a batch: the tombstones in the log that are its own are the ones it will report, one for
each selector that is neither left nor missing, and a missing one named nothing at some moment.
`SavesAgree` is what makes a retry harmless: all saves of one client with one number, whether still
served for a request that was given up, made, or yet to be made, are about the same name and expect
the same version; a version that was made on an expected one follows it in the log, so after one of
them has succeeded the others find another latest version and are refused. `WrittenOnce` says nothing of
saves that expect no version, and neither does the code: a first save of a name or of a to-do list
has no guard.

`McpSessionProofs` proves, for every capacity of the channel and every number of calls, of sets of
roots and of questions:

| theorem | states |
|---|---|
| `SessionTypeCorrect` | `Spec => []TypeOK` |
| `CallsAreCurrent` | `Spec => []NeverStale` |

`NeverStale` speaks of calls that were served, long after the lines that decided it went by.
`Current(b)` says what must hold of a set of roots `b` before: every call under way was sent at
roots no newer than `b`, *or* a notification of a change is under way ahead of it, in the same
input, the reader's hand or the channel. `WorkspaceCurrent` asks it of the workspace in use, of the
question that is pending and of the answers to it that are under way; `LinesSound` and `WorkerSound`
say what numbers a line may carry and that only the pending question counts. One lemma per way
in which a line moves (sent, read, pushed, taken) shows that `Current` survives.

`DaemonLifecycleProofs` proves, for every set of commands and processes and every number of kills
and faults, with the assumptions of the last column:

| theorem | states | assuming |
|---|---|---|
| `LifecycleTypeCorrect` | `Spec => []TypeOK` | |
| `OneDaemonListens` | `Spec => []OneDaemon` | `~Overlap` |
| `StopTellsTheTruth` | `Spec => StopTruth` | `~Overlap` |
| `TokenOpensDaemon` | `Spec => []TokenAgrees` | `~Overlap`, `~Mixed` |
| `StartSucceeds` | `Spec => StartWorks` | `~Overlap`, `~Mixed` |

Both assumptions are needed: `daemon_socket_race` shows what two starts at once do, and a web
process started under another no-auth setting empties the token file of a daemon (section 4). Three
invariants, each containing the one before. `TypeInv`: types, and what a command of each kind may be
doing. `Alone`: one command runs, at most one process is starting and it is the command's
(`OneAtATime`), and the socket file belongs to who has bound it, which nobody has while a process
removes the file or a stop is killing (`SocketOwned`). `Matched`: the token that a process has or
carries and the one in the file, for each place where a command or a process can be
(`DaemonTokens`, `CommandTokens`), and that the process a command waits for is on its way with the
command's token unless something failed (`Expected`), from which `StartWorks` follows.

`InstallTxnProofs` proves, for every finite set of commands and every set of managed files, number of
releases, crashes and faults:

| theorem | states | assuming |
|---|---|---|
| `InstallTypeCorrect` | `Spec => []TypeOK` | |
| `LocksAreFreed` | `Spec => []LocksFreed` | |
| `LocksExclude` | `Spec => []OneHolder` | *exclusive*: `(MaxCrashes = 0 /\ ~LocksStick) \/ MaxAlive = 1` |
| `CrashesAreRecoverable` | `Spec => []AllOrNothing` | *exclusive*, no uninstallation |
| `BackupsStay` | `Spec => []BackupsKept` | *exclusive*, no uninstallation |
| `InstallIsAtomic` | `Spec => Atomic` | *exclusive*, no uninstallation |
| `CrashesWedgeNothing` | `Spec => RetriesSucceed` | |

*Exclusive*: a crash beside running commands leaves a lock that two of them may take for stale at
once, which `install_stale_lock` shows, and then nothing above holds; a lock file that its owner
could not remove does the same. So commands run together and leave no lock file, or leave some and
do not run together; either way any number of them. *No uninstallation*
(`"uninstall" \notin Kinds`): an uninstallation opens no journal of its own and does not look at the
one that a failed rollback left, so a later install would roll it back over what was uninstalled
(the hazard at `global_flow.go:738`). It takes a failed undo, an uninstallation and an
install; the `install_contention` run, which has uninstallations and checks `Atomic`, does not
reach this with its one fault.

`LocksHeld` (a lock file is that of the process which holds the lock, has crashed, or could not
remove it) gives `LocksFreed`. `Exclusive` adds that where none is left no lock is broken and each holder's
file is there (`LocksKept`), or that one command runs (`OneRuns`); `OneHolder` follows in
both cases. `AllOrNothing` is about what the *next* recovery will find, and depends on what the
running command has on disk, in its copy of the journal and captured in memory. `Whole` says how these
fit: `BackupsSound` (a pending journal finds each backup it names, or an operation has failed and a
recovery would change no file any more: `Settled`; hence `BackupsStay`), `FlowJournals` (the outer transaction journals no file, so rolling it back changes none),
`NothingCaptured` (a file is captured once, before it is written), and for each place
in the nested transaction `Nested`: `Changing` while files are captured, recorded and written,
`Undoing` while they are put back, where some are and some are not yet, `Settled` from the end of
the undo to the next journal, whether the old one could be removed or not. The central fact: every step
of a command, and every crash, leaves `Recovered(f)` as it is for every file `f`, except the
step that marks the nested journal committed, which takes all files to the new release together. That
one step is the `Commit` of `AtomicInstall`; all others are stutters of its `installed`. `Installing`
and `Whole` were checked with TLC before they were proved.

`RetriesSucceed` names its own conditions: one command at a time, no operation that fails. `Smooth`
says what holds then, whatever crashed before: what the journal lists has its backup (`BackedUp`), so
recovery loses nothing; a lock file that a process breaks leaves none behind; an undo is that of a
recovery, or is the flow's and has only one reason, a lock file of the nested transaction without
a process id, which is still there (`Untroubled`). It needs nothing of `Whole`, and so holds for
uninstallations too; one lemma per action or group of them (`...Goes`) keeps it. `acquireLock`
honours such a file for a day.

`TrackedScopesProofs` proves, for every set of roots and targets and every number of releases,
commands, failures, crashes and changes by the user:

| theorem | states | assuming |
|---|---|---|
| `TypeCorrect` | `Spec => []TypeOK` | |
| `OthersKeptUnlessOvertaken` | `WatchedSpec => [][OnlyOvertaken]_vars` | |
| `UninstallGivesBack` | `Spec => []Restorable` | *disciplined* |
| `NoFileIsLost` | `Spec => []FilesTracked` | *disciplined* |

`OthersKeptUnlessOvertaken` is about global and local commands at once. They take different locks and
each writes all of `tracked.json` as it loaded it (`store.go:45`). `WatchedSpec` is `Spec` with a
history variable, `overtaken`: whether the other command has written since this one loaded. The
record of another scope changes only at a write of a command that was overtaken; so the one
interleaving with which TLC refutes `ScopesKept` under `Overlap` is the only kind there is. The
invariant (`Current`) is that what a command holds in memory is what `tracked.json` says, unless it was
overtaken. `ScopesKept` itself is checked by the run, for commands one at a time.

*Disciplined* is `~Overlap`, `KeepTargets`, `RerunFirst` and `~CommitFails`, the conditions of
section 4, where the table says what TLC finds without each of them. They are conditions on
how the program is used and the run satisfies them; the code enforces none of them.

`Restorable` and `FilesTracked` speak of moments when no command runs and no journal is open. Between
such moments an install has edited some files and not yet recorded it, or crashed and left them so.
The inductive invariant says two things of every state. First, what the files *would* hold once the
open journals are rolled back (`McpThen`, `SettingThen`, `LineThen`, `AgentsThen`: the copy in the
journal of what a transaction has touched, the file itself otherwise, or once `tracked.json` is
saved), taken with what `tracked.json` says, is what the user has (`Owners`). So a crash and a
failure change nothing: a step of an install touches a file only after its journal has a copy. Second, what the running
command is about to write into its record (`Progress`): at each place that it has edited, the new
record and the file give what the user has, and the places still to be edited are as the journal
found them; at the save the second becomes the first. For an uninstall, which has no journal,
`Removal` says what it has undone so far, and `Owners` holds throughout since a record that names a
restored value restores it again. Underneath: `TypeInv` (types; a record names only places of its
scope, a journal only what its scope may touch), `OneRuns` and `Loaded` (what a
command loaded is what `tracked.json` still says), and
`JournalsUsed` (local scopes have one open journal between them, and only an install of its own
root finds it).
Each part was checked with TLC before it was proved.

Some things in the models are there for the prover. `IsFiniteSet(Processes)` is assumed, since
`Cardinality` means nothing otherwise, and `IsFiniteSet(Bases)`: the names a request is about are
finitely many. `ArtifactHistory` writes its requests as sets of records. The refinement of the store is
stated with a history variable where walking back from the head would need recursion. And an
update of several fields of one record is written
`[f EXCEPT ![i] = [@ EXCEPT !.a = x, !.b = y]]`: `tlapm` 1.4.5 translates
`[f EXCEPT ![i].a = x, ![i].b = y]` wrongly for its SMT solver, and likewise an `@` on the right inside that inner `EXCEPT`, in whose
place the models write the field out.

Only model-checked: the liveness properties `Answered`, `Served` and `Returns`, which are out of the
prover's reach, `Atomic` in `install_contention`, which has uninstallations too, and `ScopesKept`, for which
`OthersKeptUnlessOvertaken` says more. Every other
property of a passing run is stated by a theorem, some under conditions that the run satisfies and
the tables name. The runs that expect a violation show behaviours
and have nothing to prove.

## 6. What is not modelled

In `ArtifactStore`: MIME types, sizes, time stamps, prefixes and the order of listings; the
integrity check of a blob read back; a failure between two statements of one transaction, which
SQLite undoes with the rest. In `InstallTxn`: the undo of directories that were created,
Windows rules for stale locks, reuse of process ids; uninstall takes part only in the contention
run. In `McpSession`: requests other than tool calls, the workspace override, cancellation. In
`DaemonLifecycle`: the TCP address used on Windows, requests other than health, list and shutdown,
the gap between truncating and writing the token file, tokens given in the environment. In
`TrackedScopes`: directories, pinned versions, the choice of the root, JSON with comments, the
migration of an old agents path (`edits.go:40`), a user who deletes a whole settings or MCP file, of
which a revert then restores nothing (`edits.go:154-157`). In `WorkspaceEngine`: the rows of the registry,
which the program writes and never reads. In `DaemonRequests`: payloads, limits and the order of
listings, validation, rendering, tokens against request forgery; the reads that come before a
batch of deletions and change nothing but which error is reported; lists of lists. A first write
of a to-do list has no version to expect and so no guard.

Parts without a module: the file store (`infrastructure/filestore`), which no program opens; the
process registry and the child web process, whose hard part is the operating system's process
table; the action graph, a topological sort over flows of one action each; release downloads and
archives, which are network and file formats, and whose failures appear as failing steps.
