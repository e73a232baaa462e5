-------------------------- MODULE DaemonRequestsProofs --------------------------
(***************************************************************************)
(* For any number of handlers, workspaces, repositories and clients: the   *)
(* requests for a workspace share one repository, and the shutdown closes  *)
(* it under none of them before the engine itself is closed                *)
(* (serviceForWorkspaceID, serviceForSubspace, Engine.Close).              *)
(***************************************************************************)
EXTENDS DaemonRequests, FiniteSetTheorems, TLAPS

-----------------------------------------------------------------------------
(***************************************************************************)
(* The inductive invariant.                                                *)
(***************************************************************************)
Opening(i) == At(i, "insert")
Holding(i) == h[i].pc \in {"cache", "serve"}

\* A repository that is open outside the table has one handler that will either
\* put it there or close it, and that handler alone knows it.
Brought ==
    /\ \A i \in Handlers : Opening(i) =>
          /\ h[i].repo \in Repos
          /\ opened[h[i].repo] = h[i].ws
          /\ service[h[i].ws] # h[i].repo
    /\ \A i, j \in Handlers : Opening(i) /\ Opening(j) /\ h[i].repo = h[j].repo => i = j
    /\ \A r \in Repos : opened[r] # None =>
          service[opened[r]] = r \/ \E i \in Handlers : Opening(i) /\ h[i].repo = r

\* The table names open repositories, and who serves has the one of the table.
Tabled ==
    /\ \A w \in Workspaces : service[w] # None => opened[service[w]] = w
    /\ \A w \in Workspaces : web[w] \in {None, service[w]}
    /\ \A i \in Handlers : Holding(i) => h[i].repo # None /\ service[h[i].ws] = h[i].repo

\* Only a request of the web server waits for its mutex, or has it.
OfTheWeb ==
    \A i \in Handlers :
        At(i, "lock") \/ (webLock = i /\ h[i].pc \in {"resolve", "open", "insert"}) =>
            h[i].via = "web"

\* A process that is down has neither repositories nor requests.
Gone ==
    phase = "down" =>
        /\ \A w \in Workspaces : service[w] = None /\ web[w] = None
        /\ \A r \in Repos : opened[r] = None
        /\ \A i \in Handlers : h[i] = Free

\* A request under way names a workspace.
Named == \A i \in Handlers : ~At(i, "free") => h[i].ws \in Workspaces

EInv ==
    /\ EngineTypeOK /\ OfTheWeb /\ Gone /\ Named
    /\ phase \in {"serving", "stopping", "webClosed"} => Brought /\ Tabled

\* What a client would send again; a request with an answer still has its handler.
Remembered ==
    /\ DOMAIN wish = Clients
    /\ \A c \in Clients :
          /\ {"open", "via", "ws"} \subseteq DOMAIN wish[c]
          /\ wish[c].via \in Vias
          /\ wish[c].open => wish[c].ws \in Workspaces

Answering ==
    /\ DOMAIN job = Handlers
    /\ \A i \in Handlers :
          /\ "answer" \in DOMAIN job[i]
          /\ job[i].answer # "none" => At(i, "serve")

Inv == EInv /\ Remembered /\ Answering

-----------------------------------------------------------------------------
\* The invariant speaks of the engine only.
LEMMA EngineUnchanged == EInv /\ UNCHANGED engine => EInv'
BY DEF EInv, EngineTypeOK, OfTheWeb, Gone, Named, Brought, Tabled, Opening, Holding, At,
       Resolving, Free, engine, tables

\* The state in which the daemon starts.
LEMMA EngineStarts == EngineInit => EInv
BY EngineAssumption
DEF EngineInit, EInv, EngineTypeOK, OfTheWeb, Gone, Named, Brought, Tabled, Opening, Holding,
    At, Resolving, Free, Vias

-----------------------------------------------------------------------------
(***************************************************************************)
(* One lemma per action of the engine.                                     *)
(***************************************************************************)
\* A request enters the daemon: its handler holds no repository and no mutex yet
\* (resolveService, serviceForSubspace).
LEMMA AcceptKeeps ==
    ASSUME NEW i \in Handlers, NEW via \in Vias, NEW w \in Workspaces, EInv, Accept(i, via, w)
    PROVE  EInv'
<1>1. /\ phase = "serving" /\ At(i, "free")
      /\ phase' = phase /\ service' = service /\ web' = web /\ opened' = opened
      /\ webLock' = webLock /\ dirs' = dirs /\ stops' = stops
      /\ \E p \in {"resolve", "lock", "failed"} :
            /\ p = "lock" => via = "web"
            /\ h' = [h EXCEPT ![i] = [pc |-> p, via |-> via, ws |-> w, repo |-> None]]
  BY DEF Accept, tables, Vias
<1>2. EngineTypeOK'
  BY <1>1, EngineAssumption DEF EInv, EngineTypeOK, Resolving, At, Vias
<1>3. OfTheWeb' /\ Gone' /\ Named'
  BY <1>1, EngineAssumption DEF EInv, EngineTypeOK, OfTheWeb, Gone, Named, Resolving, At
<1>4. Brought' /\ Tabled'
  BY <1>1 DEF EInv, EngineTypeOK, Brought, Tabled, Opening, Holding, At
<1> QED BY <1>2, <1>3, <1>4 DEF EInv

\* A handler returns: it serves or has failed, so it gives back nothing that the
\* tables or the mutex rely on.
LEMMA LeaveKeeps ==
    ASSUME NEW i \in Handlers, EInv, Leave(i), Up, ~Resolving(i), ~At(i, "cache")
    PROVE  EInv'
<1>1. /\ phase' = phase /\ service' = service /\ web' = web /\ opened' = opened
      /\ webLock' = webLock /\ dirs' = dirs /\ stops' = stops
      /\ h' = [h EXCEPT ![i] = Free]
      /\ webLock # i
  BY EngineAssumption DEF Leave, tables, EInv, EngineTypeOK, Resolving, At
<1>2. EngineTypeOK'
  BY <1>1 DEF EInv, EngineTypeOK, Resolving, At, Free, Vias
<1>3. OfTheWeb' /\ Gone' /\ Named'
  BY <1>1 DEF EInv, EngineTypeOK, OfTheWeb, Gone, Named, At, Free
<1>4. phase \in {"serving", "stopping", "webClosed"} => Brought' /\ Tabled'
  BY <1>1 DEF EInv, EngineTypeOK, Brought, Tabled, Opening, Holding, Resolving, At, Free
<1> QED BY <1>1, <1>2, <1>3, <1>4 DEF EInv

\* The web server looks a workspace up in its own table, or takes its mutex for
\* the resolution (serviceForSubspace).
LEMMA LockWebKeeps ==
    ASSUME NEW i \in Handlers, EInv, LockWeb(i) PROVE EInv'
<1>1. /\ phase' = phase /\ service' = service /\ web' = web /\ opened' = opened
      /\ dirs' = dirs /\ stops' = stops
      /\ phase # "down" /\ At(i, "lock") /\ h[i].ws \in Workspaces /\ h[i].via = "web"
  BY DEF LockWeb, tables, Up, EInv, OfTheWeb, Named, At
<1>2. CASE /\ web[h[i].ws] # None
           /\ h' = [h EXCEPT ![i] = [@ EXCEPT !.pc = "serve", !.repo = web[h[i].ws]]]
           /\ webLock' = webLock
  <2>1. EngineTypeOK'
    BY <1>1, <1>2 DEF EInv, EngineTypeOK, Resolving, At, Vias
  <2>2. OfTheWeb' /\ Gone' /\ Named'
    BY <1>1, <1>2 DEF EInv, EngineTypeOK, OfTheWeb, Gone, Named, At
  <2>3. phase \in {"serving", "stopping", "webClosed"} => Brought' /\ Tabled'
    BY <1>1, <1>2 DEF EInv, EngineTypeOK, Brought, Tabled, Opening, Holding, At
  <2> QED BY <1>1, <2>1, <2>2, <2>3 DEF EInv
<1>3. CASE web[h[i].ws] = None /\ webLock = None /\ webLock' = i /\ Go(i, "resolve")
  <2>1. EngineTypeOK'
    BY <1>1, <1>3 DEF EInv, EngineTypeOK, Resolving, At, Go, Vias
  <2>2. OfTheWeb' /\ Gone' /\ Named'
    BY <1>1, <1>3 DEF EInv, EngineTypeOK, OfTheWeb, Gone, Named, At, Go
  <2>3. phase \in {"serving", "stopping", "webClosed"} => Brought' /\ Tabled'
    BY <1>1, <1>3 DEF EInv, EngineTypeOK, Brought, Tabled, Opening, Holding, At, Go
  <2> QED BY <1>1, <2>1, <2>2, <2>3 DEF EInv
<1> QED BY <1>2, <1>3 DEF LockWeb

\* A resolution fails before a repository was opened, and frees the web mutex.
LEMMA ResolveFailsKeeps ==
    ASSUME NEW i \in Handlers, EInv, ResolveFails(i) PROVE EInv'
<1>1. /\ phase' = phase /\ service' = service /\ web' = web /\ opened' = opened
      /\ dirs' = dirs /\ stops' = stops
      /\ phase # "down" /\ h[i].pc \in {"resolve", "open"}
      /\ h' = [h EXCEPT ![i].pc = "failed"]
      /\ webLock' = IF webLock = i THEN None ELSE webLock
  BY DEF ResolveFails, Release, Go, tables, Up
<1>2. EngineTypeOK'
  BY <1>1, EngineAssumption DEF EInv, EngineTypeOK, Resolving, At, Vias
<1>3. OfTheWeb' /\ Gone' /\ Named'
  BY <1>1, EngineAssumption DEF EInv, EngineTypeOK, OfTheWeb, Gone, Named, At
<1>4. phase \in {"serving", "stopping", "webClosed"} => Brought' /\ Tabled'
  BY <1>1 DEF EInv, EngineTypeOK, Brought, Tabled, Opening, Holding, At
<1> QED BY <1>1, <1>2, <1>3, <1>4 DEF EInv

\* The first look into the engine's table, which may take a repository from it
\* (serviceForWorkspaceID).
LEMMA LookupKeeps ==
    ASSUME NEW i \in Handlers, EInv, Lookup(i) PROVE EInv'
<1>1. /\ phase' = phase /\ service' = service /\ web' = web /\ opened' = opened
      /\ webLock' = webLock /\ dirs' = dirs /\ stops' = stops
      /\ phase # "down" /\ At(i, "resolve") /\ h[i].ws \in Workspaces
      /\ webLock = i => h[i].via = "web"
  BY DEF Lookup, tables, Up, EInv, OfTheWeb, Named, At
<1>2. CASE /\ service[h[i].ws] # None
           /\ h' = [h EXCEPT ![i] = [@ EXCEPT !.pc = Resolved(h[i].via), !.repo = service[h[i].ws]]]
  <2>1. EngineTypeOK'
    <3>1. PICK p \in {"serve", "cache"} :
             /\ h[i].via = "web" => p = "cache"
             /\ h' = [h EXCEPT ![i] = [@ EXCEPT !.pc = p, !.repo = service[h[i].ws]]]
      BY <1>2 DEF Resolved
    <3>2. /\ h' \in [Handlers -> [pc: {"free", "lock", "resolve", "open",
                                      "insert", "cache", "serve", "failed"},
                                 via: Vias, ws: Workspaces \union {None},
                                 repo: Repos \union {None}]]
          /\ h'[i].pc = p /\ \A j \in Handlers \ {i} : h'[j] = h[j]
      BY <1>1, <3>1 DEF EInv, EngineTypeOK
    <3>3. (webLock # None => Resolving(webLock) \/ At(webLock, "cache"))'
      <4>1. CASE webLock = i
        BY <4>1, <1>1, <3>1, <3>2 DEF Resolving, At
      <4>2. CASE webLock # i
        BY <4>2, <1>1, <3>2 DEF EInv, EngineTypeOK, Resolving, At
      <4> QED BY <4>1, <4>2
    <3> QED BY <1>1, <1>2, <3>2, <3>3 DEF EInv, EngineTypeOK
  <2>2. OfTheWeb' /\ Gone' /\ Named'
    BY <1>1, <1>2 DEF EInv, EngineTypeOK, OfTheWeb, Gone, Named, At, Resolved
  <2>3. phase \in {"serving", "stopping", "webClosed"} => Brought' /\ Tabled'
    BY <1>1, <1>2 DEF EInv, EngineTypeOK, Brought, Tabled, Opening, Holding, At, Resolved
  <2> QED BY <1>1, <2>1, <2>2, <2>3 DEF EInv
<1>3. CASE Go(i, "open")
  <2>1. EngineTypeOK'
    BY <1>1, <1>3 DEF EInv, EngineTypeOK, Resolving, At, Go, Vias
  <2>2. OfTheWeb' /\ Gone' /\ Named'
    BY <1>1, <1>3 DEF EInv, EngineTypeOK, OfTheWeb, Gone, Named, At, Go
  <2>3. phase \in {"serving", "stopping", "webClosed"} => Brought' /\ Tabled'
    BY <1>1, <1>3 DEF EInv, EngineTypeOK, Brought, Tabled, Opening, Holding, At, Go
  <2> QED BY <1>1, <2>1, <2>2, <2>3 DEF EInv
<1> QED BY <1>2, <1>3 DEF Lookup

\* A repository that is opened was nobody's.
LEMMA OpenRepoKeeps ==
    ASSUME NEW i \in Handlers, EInv, OpenRepo(i) PROVE EInv'
<1>1. PICK r \in Unused :
        /\ opened' = [opened EXCEPT ![r] = h[i].ws]
        /\ h' = [h EXCEPT ![i] = [@ EXCEPT !.pc = "insert", !.repo = r]]
  BY DEF OpenRepo
<1>2. /\ phase' = phase /\ service' = service /\ web' = web
      /\ webLock' = webLock /\ dirs' = dirs \union {h[i].ws} /\ stops' = stops
      /\ phase # "down" /\ At(i, "open") /\ h[i].ws \in Workspaces
      /\ webLock = i => h[i].via = "web"
  BY DEF OpenRepo, Up, EInv, OfTheWeb, Named, At
<1>3. /\ r \in Repos /\ opened[r] = None
      /\ \A j \in Handlers : h[j].repo # r
      /\ \A w \in Workspaces : service[w] # r /\ web[w] # r
  BY DEF Unused
<1>4. EngineTypeOK'
  <2> DEFINE States == [pc: {"free", "lock", "resolve", "open", "insert", "cache", "serve",
                             "failed"},
                        via: Vias, ws: Workspaces \union {None}, repo: Repos \union {None}]
  <2>1. h' \in [Handlers -> States]
    <3>1. h \in [Handlers -> States] /\ h[i] \in States
      BY DEF EInv, EngineTypeOK
    <3>2. [h[i] EXCEPT !.pc = "insert", !.repo = r] \in States
      BY <1>3, <3>1
    <3> QED BY <1>1, <3>1, <3>2
  <2>2. opened' \in [Repos -> Workspaces \union {None}]
    BY <1>1, <1>2 DEF EInv, EngineTypeOK
  <2>3. (webLock # None => Resolving(webLock) \/ At(webLock, "cache"))'
    BY <1>1, <1>2 DEF EInv, EngineTypeOK, Resolving, At
  <2> QED BY <1>1, <1>2, <2>1, <2>2, <2>3 DEF EInv, EngineTypeOK
<1>5. OfTheWeb' /\ Gone' /\ Named'
  BY <1>1, <1>2 DEF EInv, EngineTypeOK, OfTheWeb, Gone, Named, At
<1>6. phase \in {"serving", "stopping", "webClosed"} => Brought'
  BY <1>1, <1>2, <1>3, EngineAssumption DEF EInv, EngineTypeOK, Brought, Opening, At
<1>7. phase \in {"serving", "stopping", "webClosed"} => Tabled'
  BY <1>1, <1>2, <1>3 DEF EInv, EngineTypeOK, Tabled, Holding, At
<1> QED BY <1>2, <1>4, <1>5, <1>6, <1>7 DEF EInv

\* The second look: the repository just opened goes into the table, or is closed
\* because another handler was faster (serviceForWorkspaceID).
LEMMA InsertKeeps ==
    ASSUME NEW i \in Handlers, EInv, Insert(i) PROVE EInv'
<1> DEFINE w == h[i].ws
           r == h[i].repo
<1>1. /\ phase' = phase /\ web' = web
      /\ webLock' = webLock /\ dirs' = dirs /\ stops' = stops
      /\ phase # "down" /\ At(i, "insert") /\ w \in Workspaces
      /\ webLock = i => h[i].via = "web"
  BY DEF Insert, Up, EInv, OfTheWeb, Named, At
<1>2. CASE /\ service[w] # None
           /\ opened' = [opened EXCEPT ![r] = None]
           /\ h' = [h EXCEPT ![i] = [@ EXCEPT !.pc = Resolved(h[i].via), !.repo = service[w]]]
           /\ service' = service
  <2>1. EngineTypeOK'
    <3>1. PICK p \in {"serve", "cache"} :
             /\ h[i].via = "web" => p = "cache"
             /\ h' = [h EXCEPT ![i] = [@ EXCEPT !.pc = p, !.repo = service[h[i].ws]]]
      BY <1>2 DEF Resolved
    <3>2. /\ h' \in [Handlers -> [pc: {"free", "lock", "resolve", "open",
                                      "insert", "cache", "serve", "failed"},
                                 via: Vias, ws: Workspaces \union {None},
                                 repo: Repos \union {None}]]
          /\ h'[i].pc = p /\ \A j \in Handlers \ {i} : h'[j] = h[j]
      BY <1>1, <3>1 DEF EInv, EngineTypeOK
    <3>3. (webLock # None => Resolving(webLock) \/ At(webLock, "cache"))'
      <4>1. CASE webLock = i
        BY <4>1, <1>1, <3>1, <3>2 DEF Resolving, At
      <4>2. CASE webLock # i
        BY <4>2, <1>1, <3>2 DEF EInv, EngineTypeOK, Resolving, At
      <4> QED BY <4>1, <4>2
    <3> QED BY <1>1, <1>2, <3>2, <3>3 DEF EInv, EngineTypeOK
  <2>2. OfTheWeb' /\ Gone' /\ Named'
    BY <1>1, <1>2 DEF EInv, EngineTypeOK, OfTheWeb, Gone, Named, At, Resolved
  <2>3. phase \in {"serving", "stopping", "webClosed"} => Brought'
    BY <1>1, <1>2 DEF EInv, EngineTypeOK, Brought, Tabled, Opening, At, Resolved
  <2>4. phase \in {"serving", "stopping", "webClosed"} => Tabled'
    BY <1>1, <1>2 DEF EInv, EngineTypeOK, Brought, Tabled, Opening, Holding, At, Resolved
  <2> QED BY <1>1, <2>1, <2>2, <2>3, <2>4 DEF EInv
<1>3. CASE /\ service[w] = None
           /\ service' = [service EXCEPT ![w] = r]
           /\ Go(i, Resolved(h[i].via))
           /\ opened' = opened
  <2>1. EngineTypeOK'
    BY <1>1, <1>3 DEF EInv, EngineTypeOK, Resolving, Resolved, At, Go, Vias
  <2>2. OfTheWeb' /\ Gone' /\ Named'
    BY <1>1, <1>3 DEF EInv, EngineTypeOK, OfTheWeb, Gone, Named, At, Go, Resolved
  <2>3. phase \in {"serving", "stopping", "webClosed"} => Brought'
    BY <1>1, <1>3, EngineAssumption DEF EInv, EngineTypeOK, Brought, Opening, At, Go, Resolved
  <2>4. phase \in {"serving", "stopping", "webClosed"} => Tabled'
    BY <1>1, <1>3, EngineAssumption
    DEF EInv, EngineTypeOK, Brought, Tabled, Opening, Holding, At, Go, Resolved
  <2> QED BY <1>1, <2>1, <2>2, <2>3, <2>4 DEF EInv
<1> QED BY <1>2, <1>3 DEF Insert, Present

\* The web server notes the service the engine gave it and frees its mutex
\* (serviceForSubspace).
LEMMA CacheKeeps ==
    ASSUME NEW i \in Handlers, EInv, Cache(i) PROVE EInv'
<1>1. /\ phase' = phase /\ service' = service /\ opened' = opened
      /\ dirs' = dirs /\ stops' = stops
      /\ phase # "down" /\ At(i, "cache") /\ h[i].ws \in Workspaces
      /\ web' = [web EXCEPT ![h[i].ws] = h[i].repo]
      /\ h' = [h EXCEPT ![i].pc = "serve"]
      /\ webLock' = IF webLock = i THEN None ELSE webLock
  BY DEF Cache, Release, Go, Up, EInv, Named, At
<1>2. EngineTypeOK'
  BY <1>1, EngineAssumption DEF EInv, EngineTypeOK, Resolving, At, Vias
<1>3. OfTheWeb' /\ Gone' /\ Named'
  BY <1>1, EngineAssumption DEF EInv, EngineTypeOK, OfTheWeb, Gone, Named, At
<1>4. phase \in {"serving", "stopping", "webClosed"} => Brought' /\ Tabled'
  BY <1>1 DEF EInv, EngineTypeOK, Brought, Tabled, Opening, Holding, At
<1> QED BY <1>1, <1>2, <1>3, <1>4 DEF EInv

\* A request that needs the daemon a second time (FindBase).
LEMMA AgainKeeps ==
    ASSUME NEW i \in Handlers, EInv, At(i, "serve"),
           h' = [h EXCEPT ![i] = [@ EXCEPT !.pc = "resolve", !.repo = None]],
           UNCHANGED <<phase, tables, webLock, dirs, stops>>
    PROVE  EInv'
<1>1. /\ phase' = phase /\ service' = service /\ web' = web /\ opened' = opened
      /\ webLock' = webLock /\ dirs' = dirs /\ stops' = stops
      /\ webLock # i
  BY EngineAssumption DEF tables, EInv, EngineTypeOK, Resolving, At
<1>2. EngineTypeOK'
  BY <1>1 DEF EInv, EngineTypeOK, Resolving, At, Vias
<1>3. OfTheWeb' /\ Named'
  BY <1>1 DEF EInv, EngineTypeOK, OfTheWeb, Named, At
<1>4. Gone'
  BY <1>1 DEF EInv, EngineTypeOK, Gone, At, Free
<1>5. phase \in {"serving", "stopping", "webClosed"} => Brought' /\ Tabled'
  BY <1>1 DEF EInv, EngineTypeOK, Brought, Tabled, Opening, Holding, At
<1> QED BY <1>1, <1>2, <1>3, <1>4, <1>5 DEF EInv

\* The steps of a shutdown, the end of the process and its restart.
LEMMA ShutdownKeeps ==
    ASSUME EInv, BeginStop \/ CloseWeb \/ CloseEngine \/ Exit \/ Crash \/ Restart
    PROVE  EInv'
<1>1. CASE BeginStop
  BY <1>1, EngineAssumption
  DEF BeginStop, EInv, EngineTypeOK, OfTheWeb, Gone, Named, Brought, Tabled, Opening, Holding,
      At, Resolving, tables
<1>2. CASE CloseWeb
  BY <1>2
  DEF CloseWeb, EInv, EngineTypeOK, OfTheWeb, Gone, Named, Brought, Tabled, Opening, Holding,
      At, Resolving, tables
<1>3. CASE CloseEngine
  <2>1. EngineTypeOK'
    BY <1>3 DEF CloseEngine, EInv, EngineTypeOK, At, Resolving
  <2>2. OfTheWeb' /\ Gone' /\ Named' /\ phase' = "closed"
    BY <1>3 DEF CloseEngine, EInv, OfTheWeb, Gone, Named, At
  <2> QED BY <2>1, <2>2 DEF EInv
<1>4. CASE Exit \/ Crash
  <2>1. Vanish /\ stops' \in 0 .. MaxStops
    BY <1>4, EngineAssumption DEF Exit, Crash, EInv, EngineTypeOK
  <2>2. EngineTypeOK'
    BY <2>1 DEF Vanish, EInv, EngineTypeOK, Free, Vias, At, Resolving
  <2>3. OfTheWeb' /\ Gone' /\ Named' /\ phase' = "down"
    BY <2>1, EngineAssumption DEF Vanish, OfTheWeb, Gone, Named, Free, At
  <2> QED BY <2>2, <2>3 DEF EInv
<1>5. CASE Restart
  <2>1. /\ phase = "down" /\ phase' = "serving"
        /\ service' = service /\ web' = web /\ opened' = opened /\ h' = h
        /\ webLock' = webLock /\ dirs' = dirs /\ stops' = stops
    BY <1>5 DEF Restart, tables
  <2>2. EngineTypeOK' /\ OfTheWeb' /\ Gone' /\ Named'
    BY <2>1 DEF EInv, EngineTypeOK, OfTheWeb, Gone, Named, At, Resolving
  <2>3. Brought' /\ Tabled'
    BY <2>1, EngineAssumption
    DEF EInv, Gone, Brought, Tabled, Opening, Holding, At, Free
  <2> QED BY <2>2, <2>3 DEF EInv
<1> QED BY <1>1, <1>2, <1>3, <1>4, <1>5

-----------------------------------------------------------------------------
(***************************************************************************)
(* The requests over it.                                                   *)
(***************************************************************************)
\* What every request does, whoever makes it.
LEMMA StartKeeps ==
    ASSUME NEW c \in Clients, NEW i \in Handlers, NEW via \in Vias, NEW w \in Workspaces,
           NEW j, {"client", "from", "answer"} \subseteq DOMAIN j, j.answer = "none",
           Inv, Start(c, i, via, w, j)
    PROVE  EInv' /\ Answering'
<1>1. EInv'
  BY AcceptKeeps DEF Inv, Start
<1>2. job' = [job EXCEPT ![i] = [j EXCEPT !.client = c, !.from = Len(log)]]
  BY DEF Start
<1>3. "answer" \in DOMAIN job'[i] /\ job'[i].answer = "none"
  BY <1>2 DEF Inv, Answering
<1>4. /\ DOMAIN job' = Handlers
      /\ \A k \in Handlers \ {i} : job'[k] = job[k] /\ h'[k] = h[k]
  BY <1>2 DEF Inv, Answering, Start, Accept, EInv, EngineTypeOK
<1>5. Answering'
  BY <1>3, <1>4 DEF Inv, Answering, At
<1> QED BY <1>1, <1>5

\* A request that is made once: nothing of it is remembered by its client.
LEMMA AskKeeps ==
    ASSUME NEW c \in Clients, NEW i \in Handlers, NEW via \in Vias, NEW w \in Workspaces,
           NEW j, {"client", "from", "answer"} \subseteq DOMAIN j, j.answer = "none",
           Inv, Ask(c, i, via, w, j)
    PROVE  Inv'
BY StartKeeps DEF Ask, Inv, Remembered

\* A save: the client remembers the workspace and the way it asked.
LEMMA SubmitKeeps ==
    ASSUME NEW c \in Clients, NEW i \in Handlers, NEW via \in Vias, NEW w \in Workspaces,
           NEW n, NEW ref, NEW e, Inv, Submit(c, i, via, w, n, ref, e)
    PROVE  Inv'
<1> DEFINE j == [NoJob EXCEPT !.op = "save", !.name = IF ref = 0 THEN n ELSE NoName,
                              !.ref = ref, !.expected = e, !.id = wish'[c].id]
<1>1. {"client", "from", "answer"} \subseteq DOMAIN j /\ j.answer = "none"
  BY DEF NoJob
<1>2. Start(c, i, via, w, j)
  BY DEF Submit
<1>3. EInv' /\ Answering'
  <2> HIDE DEF j
  <2> QED BY <1>1, <1>2, StartKeeps
<1>4. Remembered'
  BY DEF Submit, Inv, Remembered
<1> QED BY <1>3, <1>4 DEF Inv

\* The same save again: what the client remembers is a request the daemon takes.
LEMMA RetryKeeps ==
    ASSUME NEW c \in Clients, NEW i \in Handlers, Inv, Retry(c, i) PROVE Inv'
<1> DEFINE j == [NoJob EXCEPT !.op = "save", !.name = wish[c].name,
                              !.expected = wish[c].expected, !.id = wish[c].id]
<1>1. {"client", "from", "answer"} \subseteq DOMAIN j /\ j.answer = "none"
  BY DEF NoJob
<1>2. /\ Start(c, i, wish[c].via, wish[c].ws, j)
      /\ wish[c].via \in Vias /\ wish[c].ws \in Workspaces
  BY DEF Retry, Inv, Remembered
<1>3. EInv' /\ Answering'
  <2> HIDE DEF j
  <2> QED BY <1>1, <1>2, StartKeeps
<1>4. Remembered'
  BY DEF Retry, Inv, Remembered
<1> QED BY <1>3, <1>4 DEF Inv

\* The jobs that requests start with.
LEMMA NewJobs ==
    /\ \A n : LET j == [NoJob EXCEPT !.op = "read", !.name = n] IN
          {"client", "from", "answer"} \subseteq DOMAIN j /\ j.answer = "none"
    /\ \A r : LET j == [NoJob EXCEPT !.op = "read", !.ref = r] IN
          {"client", "from", "answer"} \subseteq DOMAIN j /\ j.answer = "none"
    /\ \A ps : {"client", "from", "answer"} \subseteq DOMAIN ListJob(ps)
              /\ ListJob(ps).answer = "none"
    /\ \A ss : {"client", "from", "answer"} \subseteq DOMAIN DeleteJob(ss)
              /\ DeleteJob(ss).answer = "none"
BY DEF NoJob, ListJob, DeleteJob

\* Every request of the command line, the tools and the web interface.
LEMMA RequestKeeps ==
    ASSUME NEW c \in Clients, NEW i \in Handlers, Inv, Request(c, i) PROVE Inv'
<1> "api" \in Vias /\ "web" \in Vias
  BY DEF Vias
<1>1. CASE SaveTool(c, i)   BY <1>1, SubmitKeeps DEF SaveTool
<1>2. CASE Put(c, i)        BY <1>2, SubmitKeeps DEF Put
<1>3. CASE WriteTodo(c, i)  BY <1>3, SubmitKeeps DEF WriteTodo
<1>4. CASE InsertForm(c, i) BY <1>4, SubmitKeeps DEF InsertForm
<1>5. CASE Retry(c, i)      BY <1>5, RetryKeeps
<1>6. CASE Get(c, i)        BY <1>6, AskKeeps, NewJobs DEF Get
<1>7. CASE ReadTodo(c, i)   BY <1>7, AskKeeps, NewJobs DEF ReadTodo
<1>8. CASE Content(c, i)    BY <1>8, AskKeeps, NewJobs DEF Content
<1>9. CASE ListTool(c, i)   BY <1>9, AskKeeps, NewJobs DEF ListTool
<1>10. CASE ListPage(c, i)  BY <1>10, AskKeeps, NewJobs DEF ListPage
<1>11. CASE DeleteTool(c, i)  BY <1>11, AskKeeps, NewJobs DEF DeleteTool
<1>12. CASE DeleteBatch(c, i) BY <1>12, AskKeeps, NewJobs DEF DeleteBatch
<1> QED
  BY <1>1, <1>2, <1>3, <1>4, <1>5, <1>6, <1>7, <1>8, <1>9, <1>10, <1>11, <1>12 DEF Request

\* A call of the store, or a client that stops waiting, changes the answer of a
\* request that is served, and nothing of the engine.
LEMMA CallKeeps ==
    ASSUME NEW i \in Handlers, Inv,
           CallSave(i) \/ CallRead(i) \/ CallList(i) \/ CallDelete(i) \/ CallFails(i)
           \/ Abandon(i)
    PROVE  Inv'
<1>1. UNCHANGED engine /\ UNCHANGED wish
  BY DEF CallSave, CallRead, CallList, CallDelete, CallFails, Abandon
<1>2. /\ DOMAIN job' = Handlers
      /\ \A k \in Handlers \ {i} : job'[k] = job[k]
      /\ "answer" \in DOMAIN job'[i]
      /\ job'[i].answer # "none" => At(i, "serve")
  <2>1. CASE CallSave(i)
    BY <2>1 DEF CallSave, Answer, Working, Inv, Answering
  <2>2. CASE CallRead(i)
    BY <2>2 DEF CallRead, Working, Inv, Answering
  <2>3. CASE CallList(i)
    BY <2>3 DEF CallList, Working, Inv, Answering
  <2>4. CASE CallDelete(i)
    BY <2>4 DEF CallDelete, Working, Inv, Answering
  <2>5. CASE CallFails(i)
    BY <2>5 DEF CallFails, Stopped, Working, Inv, Answering
  <2>6. CASE Abandon(i)
    BY <2>6 DEF Abandon, Inv, Answering
  <2> QED BY <2>1, <2>2, <2>3, <2>4, <2>5, <2>6
<1>3. Answering'
  BY <1>1, <1>2 DEF Inv, Answering, engine, At
<1>4. EInv' /\ Remembered'
  BY <1>1, EngineUnchanged DEF Inv, Remembered
<1> QED BY <1>3, <1>4 DEF Inv

\* A read that finds the version to write on asks the daemon again, or fails when
\* the daemon has stopped serving.
LEMMA FindBaseKeeps ==
    ASSUME NEW i \in Handlers, Inv, FindBase(i) PROVE Inv'
<1>1. CASE phase # "serving"
  <2>1. UNCHANGED engine /\ UNCHANGED wish
    BY <1>1 DEF FindBase, engine, tables
  <2>2. Answering'
    BY <1>1, <2>1 DEF FindBase, Answer, Working, Inv, Answering, engine, At
  <2> QED BY <2>1, <2>2, EngineUnchanged DEF Inv, Remembered
<1>2. CASE phase = "serving"
  <2>1. /\ At(i, "serve") /\ job[i].answer = "none"
        /\ h' = [h EXCEPT ![i] = [@ EXCEPT !.pc = "resolve", !.repo = None]]
        /\ UNCHANGED <<phase, tables, webLock, dirs, stops>>
        /\ wish' = wish
        /\ job' = [job EXCEPT ![i] = [@ EXCEPT !.ref = 0, !.name = TodoName(log[job[i].ref].name)]]
    BY <1>2 DEF FindBase, Working
  <2>2. EInv'
    BY <2>1, AgainKeeps DEF Inv
  <2>3. \A k \in Handlers \ {i} : h'[k] = h[k] /\ job'[k] = job[k]
    BY <2>1 DEF Inv, Answering, EInv, EngineTypeOK
  <2>4. DOMAIN job' = Handlers /\ "answer" \in DOMAIN job'[i] /\ job'[i].answer = "none"
    BY <2>1 DEF Inv, Answering
  <2>5. Answering'
    BY <2>3, <2>4 DEF Inv, Answering, At
  <2>6. wish' = wish
    BY <2>1
  <2>7. Remembered'
    BY <2>6 DEF Inv, Remembered
  <2> QED BY <2>2, <2>5, <2>7 DEF Inv
<1> QED BY <1>1, <1>2

\* While a workspace is being resolved there is no answer yet.
LEMMA ResolveKeeps ==
    ASSUME NEW i \in Handlers, Inv,
           \/ Resolve(i) /\ UNCHANGED clients
           \/ Unresolved(i)
    PROVE  Inv'
<1>1. EInv'
  BY LockWebKeeps, LookupKeeps, OpenRepoKeeps, InsertKeeps, CacheKeeps, ResolveFailsKeeps
  DEF Resolve, Unresolved, Inv
<1>2. ~At(i, "serve") /\ job' = job /\ wish' = wish
  BY DEF Resolve, LockWeb, Lookup, OpenRepo, Insert, Cache, Unresolved, ResolveFails, clients, At
<1>3. \A k \in Handlers \ {i} : h'[k] = h[k]
  BY DEF Resolve, LockWeb, Lookup, OpenRepo, Insert, Cache, Unresolved, ResolveFails, Go,
         Inv, EInv, EngineTypeOK
<1>4. Answering'
  BY <1>2, <1>3 DEF Inv, Answering, At
<1>5. Remembered'
  BY <1>2 DEF Inv, Remembered
<1> QED BY <1>1, <1>4, <1>5 DEF Inv

\* The answer goes to the client and the handler is free again.
LEMMA ReplyKeeps ==
    ASSUME NEW i \in Handlers, Inv, Reply(i) PROVE Inv'
<1>1. EInv'
  <2>1. Leave(i) /\ Up /\ (At(i, "failed") \/ At(i, "serve"))
    BY DEF Reply, Inv, Answering
  <2> QED BY <2>1, LeaveKeeps DEF Inv, At, Resolving
<1>2. Answering'
  <2>1. job' = [job EXCEPT ![i] = NoJob] /\ h' = [h EXCEPT ![i] = Free]
    BY DEF Reply, Leave
  <2>2. "answer" \in DOMAIN NoJob /\ NoJob.answer = "none"
    BY DEF NoJob
  <2>3. \A k \in Handlers \ {i} : h'[k] = h[k] /\ job'[k] = job[k]
    BY <2>1 DEF Inv, Answering, EInv, EngineTypeOK
  <2> QED BY <2>1, <2>2, <2>3 DEF Inv, Answering, At
<1>3. Remembered'
  BY DEF Reply, Inv, Remembered
<1> QED BY <1>1, <1>2, <1>3 DEF Inv

\* What no request does: a client gives its wish up, the daemon shuts down or
\* crashes with every handler, and starts again (Run, Close).
LEMMA OthersKeep ==
    ASSUME Inv,
           \/ \E c \in Clients : GiveUpWish(c)
           \/ Daemon /\ UNCHANGED clients
           \/ Ends
    PROVE  Inv'
<1>1. CASE \E c \in Clients : GiveUpWish(c)
  <2>1. UNCHANGED engine /\ UNCHANGED job /\ Remembered'
    BY <1>1 DEF GiveUpWish, Inv, Remembered
  <2> QED BY <2>1, EngineUnchanged DEF Inv, Answering, engine, At
<1>2. CASE Daemon /\ UNCHANGED clients
  <2>1. EInv'
    BY <1>2, ShutdownKeeps DEF Daemon, Inv
  <2>2. UNCHANGED <<h, job, wish>>
    BY <1>2 DEF Daemon, BeginStop, CloseWeb, CloseEngine, Restart, clients
  <2> QED BY <2>1, <2>2 DEF Inv, Answering, Remembered, At
<1>3. CASE Ends
  <2>1. EInv'
    BY <1>3, ShutdownKeeps DEF Ends, Inv
  <2>2. wish' = wish /\ job' = [i \in Handlers |-> NoJob]
    BY <1>3 DEF Ends
  <2>3. "answer" \in DOMAIN NoJob /\ NoJob.answer = "none"
    BY DEF NoJob
  <2>4. Answering'
    BY <2>2, <2>3 DEF Answering
  <2>5. Remembered'
    BY <2>2 DEF Inv, Remembered
  <2> QED BY <2>1, <2>4, <2>5 DEF Inv
<1> QED BY <1>1, <1>2, <1>3

-----------------------------------------------------------------------------
\* The invariant holds when the daemon starts.
LEMMA Starts == Init => Inv
<1> SUFFICES ASSUME Init PROVE Inv
  OBVIOUS
<1>1. EInv
  BY EngineStarts DEF Init
<1>2. job = [i \in Handlers |-> NoJob] /\ wish = [c \in Clients |-> NoWish]
  BY DEF Init
<1>3. "answer" \in DOMAIN NoJob /\ NoJob.answer = "none"
  BY DEF NoJob
<1>4. {"open", "via", "ws"} \subseteq DOMAIN NoWish /\ NoWish.via \in Vias /\ ~NoWish.open
  BY DEF NoWish, Vias
<1>5. Answering
  BY <1>2, <1>3 DEF Answering
<1>6. Remembered
  BY <1>2, <1>4 DEF Remembered
<1> QED BY <1>1, <1>5, <1>6 DEF Inv

\* Every step of the daemon and its clients keeps the invariant.
LEMMA StepKeeps == Inv /\ [Next]_vars => Inv'
<1> SUFFICES ASSUME Inv, [Next]_vars PROVE Inv'
  OBVIOUS
<1>1. CASE \E c \in Clients, i \in Handlers : Request(c, i)
  BY <1>1, RequestKeeps
<1>2. ASSUME NEW i \in Handlers, Serve(i) \/ Abandon(i) PROVE Inv'
  BY <1>2, CallKeeps, FindBaseKeeps, ResolveKeeps, ReplyKeeps DEF Serve
<1>3. CASE (\E c \in Clients : GiveUpWish(c)) \/ (Daemon /\ UNCHANGED clients) \/ Ends
  BY <1>3, OthersKeep
<1>4. CASE UNCHANGED vars
  BY <1>4, EngineUnchanged DEF vars, engine, clients, Inv, Answering, Remembered, At
<1> QED BY <1>1, <1>2, <1>3, <1>4 DEF Next

\* The engine's part of the state keeps its type and the table its meaning,
\* through requests, shutdowns, crashes and restarts (engine.go, web/server.go).
THEOREM EngineInvariance == Spec => []Inv
BY Starts, StepKeeps, PTL DEF Spec

\* Two first requests for a workspace end with one repository, none is left open,
\* and none is closed while a handler serves from it, until the engine is closed
\* (serviceForWorkspaceID).
THEOREM RepositoriesAreShared == Spec => []SharedRepository
<1>1. Inv => SharedRepository
  <2> SUFFICES ASSUME Inv, phase \in {"serving", "stopping", "webClosed"},
                      Brought, Tabled, EngineTypeOK
               PROVE  SharedRepository
    BY DEF Inv, EInv, SharedRepository
  <2>1. ASSUME NEW r \in Repos, opened[r] # None, service[opened[r]] # r
        PROVE  Cardinality({i \in Handlers : At(i, "insert") /\ h[i].repo = r}) = 1
    <3>1. PICK i \in Handlers : At(i, "insert") /\ h[i].repo = r
      BY <2>1 DEF Brought, Opening
    <3>2. {j \in Handlers : At(j, "insert") /\ h[j].repo = r} = {i}
      BY <3>1 DEF Brought, Opening
    <3> QED BY <3>2, FS_Singleton
  <2>2. ASSUME NEW i \in Handlers, h[i].pc \in {"cache", "serve"}
        PROVE  opened[h[i].repo] = h[i].ws
    BY <2>2 DEF Tabled, Holding, Inv, EInv, Named, At
  <2> QED BY <2>1, <2>2 DEF SharedRepository, Tabled
<1> QED BY <1>1, EngineInvariance, PTL
=============================================================================
