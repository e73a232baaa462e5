---------------------------- MODULE WorkspaceEngine ----------------------------
(***************************************************************************)
(* How a request of the daemon gets the repository of its workspace, and   *)
(* what becomes of it when the daemon stops (daemon/engine.go, Run, and    *)
(* serviceForSubspace of web/server.go).  The engine opens the database    *)
(* of a workspace at the first request that names it and keeps it.  It is  *)
(* opened outside the mutex, so two requests may open it; the web server   *)
(* has a table of its own, under a mutex that it holds meanwhile.  A       *)
(* critical section of Engine.mu that only reads or writes the table is    *)
(* one step.  What a request does with its repository is left to the       *)
(* module that extends this one.                                           *)
(***************************************************************************)
EXTENDS Naturals, FiniteSets

CONSTANTS
    Handlers,     \* requests that the daemon serves at the same time
    Workspaces,   \* workspaces that requests name
    Global,       \* the one whose directory is the store itself
    Repos,        \* repositories that can be open
    None,         \* no repository, workspace or handler
    MaxStops      \* shutdowns and crashes

ASSUME EngineAssumption ==
    /\ Global \in Workspaces
    /\ None \notin Handlers \union Workspaces \union Repos
    /\ MaxStops \in Nat

VARIABLES
    phase,     \* of the daemon: serving, stopping, webClosed, closed or down
    service,   \* Engine.service: workspace -> repository
    web,       \* Server.serviceByKey of the web server
    webLock,   \* the handler that holds its mutex
    opened,    \* repository -> the workspace whose database it has open
    dirs,      \* workspaces that have a directory
    h,         \* what each handler is doing
    stops      \* shutdowns and crashes so far

engine == <<phase, service, web, webLock, opened, dirs, h, stops>>
tables == <<service, web, opened>>

Vias == {"api", "web"}
Free == [pc |-> "free", via |-> "api", ws |-> None, repo |-> None]

EngineInit ==
    /\ phase = "serving"
    /\ service = [w \in Workspaces |-> None]
    /\ web = [w \in Workspaces |-> None]
    /\ webLock = None
    /\ opened = [r \in Repos |-> None]
    /\ dirs = {Global}
    /\ h = [i \in Handlers |-> Free]
    /\ stops = 0

At(i, l) == h[i].pc = l
Go(i, l) == h' = [h EXCEPT ![i].pc = l]
Up == phase # "down"
Resolving(i) == h[i].pc \in {"resolve", "open", "insert"}

Unused == {r \in Repos : /\ opened[r] = None
                         /\ \A i \in Handlers : h[i].repo # r
                         /\ \A w \in Workspaces : service[w] # r /\ web[w] # r}

EngineTypeOK ==
    /\ phase \in {"serving", "stopping", "webClosed", "closed", "down"}
    /\ service \in [Workspaces -> Repos \union {None}]
    /\ web \in [Workspaces -> Repos \union {None}]
    /\ webLock \in Handlers \union {None}
    /\ opened \in [Repos -> Workspaces \union {None}]
    /\ dirs \subseteq Workspaces
    /\ h \in [Handlers -> [pc: {"free", "lock", "resolve", "open",
                                "insert", "cache", "serve", "failed"},
                           via: Vias, ws: Workspaces \union {None},
                           repo: Repos \union {None}]]
    /\ webLock # None => Resolving(webLock) \/ At(webLock, "cache")
    /\ stops \in 0 .. MaxStops

-----------------------------------------------------------------------------
\* A request comes in.  The web server looks for the directory of the workspace
\* first (serviceFromSelectedSubspace).
Accept(i, via, w) ==
    /\ phase = "serving" /\ At(i, "free")
    /\ h' = [h EXCEPT ![i] = [pc |-> IF via = "api" THEN "resolve"
                                     ELSE IF w \in dirs THEN "lock" ELSE "failed",
                              via |-> via, ws |-> w, repo |-> None]]
    /\ UNCHANGED <<phase, tables, webLock, dirs, stops>>

\* The handler's answer is out.
Leave(i) ==
    /\ h' = [h EXCEPT ![i] = Free]
    /\ UNCHANGED <<phase, tables, webLock, dirs, stops>>

\* serviceForSubspace: under the mutex the table, then the resolver.
LockWeb(i) ==
    /\ Up /\ At(i, "lock") /\ webLock = None
    /\ \/ /\ web[h[i].ws] # None
          /\ h' = [h EXCEPT ![i] = [@ EXCEPT !.pc = "serve", !.repo = web[h[i].ws]]]
          /\ UNCHANGED webLock
       \/ /\ web[h[i].ws] = None
          /\ webLock' = i
          /\ Go(i, "resolve")
    /\ UNCHANGED <<phase, tables, dirs, stops>>

\* Mutation: an early return without the deferred unlock.
ReleaseOnSuccess(i) == webLock' = IF webLock = i /\ At(i, "cache") THEN None ELSE webLock

\* The deferred unlock.
Release(i) == webLock' = IF webLock = i THEN None ELSE webLock

\* An error while the workspace is resolved ends the request.
ResolveFails(i) ==
    /\ Up /\ h[i].pc \in {"resolve", "open"}
    /\ Go(i, "failed")
    /\ Release(i)
    /\ UNCHANGED <<phase, tables, dirs, stops>>

\* A resolved request of the web server has its repository put in the table.
Resolved(via) == IF via = "web" THEN "cache" ELSE "serve"

\* EnsureWorkspace, which needs the registry, and the first critical section of
\* serviceForWorkspaceID.
Lookup(i) ==
    LET r == service[h[i].ws] IN
    /\ Up /\ At(i, "resolve") /\ phase # "closed"
    /\ \/ r # None /\ h' = [h EXCEPT ![i] = [@ EXCEPT !.pc = Resolved(h[i].via), !.repo = r]]
       \/ r = None /\ Go(i, "open")
    /\ UNCHANGED <<phase, tables, webLock, dirs, stops>>

\* NewArtifactRepository, which makes the directory.
OpenRepo(i) ==
    /\ Up /\ At(i, "open")
    /\ Unused # {}
    /\ LET r == CHOOSE x \in Unused : TRUE IN
       /\ opened' = [opened EXCEPT ![r] = h[i].ws]
       /\ h' = [h EXCEPT ![i] = [@ EXCEPT !.pc = "insert", !.repo = r]]
    /\ dirs' = dirs \union {h[i].ws}
    /\ UNCHANGED <<phase, service, web, webLock, stops>>

\* Mutation: the table is written without looking again.
PresentOverlooked(w) == None

\* What the table holds when the mutex is taken again.
Present(w) == service[w]

\* The second critical section: the first repository stays, a second is closed.
Insert(i) ==
    LET w == h[i].ws  r == h[i].repo  first == Present(w) IN
    /\ Up /\ At(i, "insert")
    /\ \/ /\ first # None
          /\ opened' = [opened EXCEPT ![r] = None]
          /\ h' = [h EXCEPT ![i] = [@ EXCEPT !.pc = Resolved(h[i].via), !.repo = first]]
          /\ UNCHANGED service
       \/ /\ first = None
          /\ service' = [service EXCEPT ![w] = r]
          /\ Go(i, Resolved(h[i].via))
          /\ UNCHANGED opened
    /\ UNCHANGED <<phase, web, webLock, dirs, stops>>

\* serviceForSubspace keeps the service and unlocks.
Cache(i) ==
    /\ Up /\ At(i, "cache")
    /\ web' = [web EXCEPT ![h[i].ws] = h[i].repo]
    /\ Release(i)
    /\ Go(i, "serve")
    /\ UNCHANGED <<phase, service, opened, dirs, stops>>

Resolve(i) == LockWeb(i) \/ Lookup(i) \/ OpenRepo(i) \/ Insert(i) \/ Cache(i)

-----------------------------------------------------------------------------
(***************************************************************************)
(* Shutdown.  Serve returns as soon as the listener is closed, and Run     *)
(* with it, whatever requests are under way: its deferred calls close the  *)
(* web server and the engine, and the process ends.                        *)
(***************************************************************************)
BeginStop ==
    /\ phase = "serving" /\ stops < MaxStops
    /\ phase' = "stopping"
    /\ stops' = stops + 1
    /\ UNCHANGED <<tables, webLock, dirs, h>>

\* Server.Close waits for the mutex; repositories from the resolver stay open.
CloseWeb ==
    /\ phase = "stopping" /\ webLock = None
    /\ phase' = "webClosed"
    /\ web' = [w \in Workspaces |-> None]
    /\ UNCHANGED <<service, opened, webLock, dirs, h, stops>>

\* Engine.Close: every repository in the table, then the registry.
CloseEngine ==
    /\ phase = "webClosed"
    /\ phase' = "closed"
    /\ opened' = [r \in Repos |-> IF \E w \in Workspaces : service[w] = r THEN None
                                  ELSE opened[r]]
    /\ service' = [w \in Workspaces |-> None]
    /\ UNCHANGED <<web, webLock, dirs, h, stops>>

\* The process is gone, and the requests with it.
Vanish ==
    /\ phase' = "down"
    /\ service' = [w \in Workspaces |-> None]
    /\ web' = [w \in Workspaces |-> None]
    /\ webLock' = None
    /\ opened' = [r \in Repos |-> None]
    /\ h' = [i \in Handlers |-> Free]
    /\ UNCHANGED dirs

Exit  == phase = "closed" /\ Vanish /\ UNCHANGED stops
Crash == Up /\ stops < MaxStops /\ Vanish /\ stops' = stops + 1

Restart ==
    /\ phase = "down"
    /\ phase' = "serving"
    /\ UNCHANGED <<tables, webLock, dirs, h, stops>>

-----------------------------------------------------------------------------
\* Until the engine is closed every open repository is in its table, or is being
\* brought there by one handler, and a handler that serves has the repository of
\* its own workspace, open: two first requests share one, none is left open, and
\* none is closed under a request (serviceForWorkspaceID).
SharedRepository ==
    phase \in {"serving", "stopping", "webClosed"} =>
        /\ \A r \in Repos : opened[r] # None =>
              \/ service[opened[r]] = r
              \/ Cardinality({i \in Handlers : At(i, "insert") /\ h[i].repo = r}) = 1
        /\ \A i \in Handlers : h[i].pc \in {"cache", "serve"} => opened[h[i].repo] = h[i].ws
        /\ \A w \in Workspaces : web[w] \in {None, service[w]}
=============================================================================
