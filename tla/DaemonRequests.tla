---------------------------- MODULE DaemonRequests ----------------------------
(***************************************************************************)
(* What clients of the daemon do with it: the tools of the MCP server, the *)
(* web interface and the command line, each request through the engine to  *)
(* one or more calls of the store.  A tool that selects a to-do list by    *)
(* the reference of its artifact makes two requests, a listing with        *)
(* several prefixes and a deletion of several artifacts make several calls *)
(* in one.  Requests of other clients, shutdowns and crashes fall between. *)
(*                                                                         *)
(* A call of the store takes effect at one instant (ArtifactHistory).  A   *)
(* client may stop waiting (30 seconds, or it is closed) while its request *)
(* goes on, and may try a save again whose answer it has not got.  A       *)
(* prefix stands for the names that begin with it; payloads, limits and    *)
(* the order of a listing are left out.                                    *)
(***************************************************************************)
EXTENDS WorkspaceEngine, SequencesExt

CONSTANTS
    Clients,       \* agents, browsers and users of the command line
    Bases,         \* names of artifacts that have a to-do list
    MaxRequests,   \* requests that are made
    MaxTroubles    \* shutdowns, crashes, calls that fail, requests that are given up

ASSUME RequestsAssumption ==
    /\ None \notin Clients
    /\ IsFiniteSet(Bases)
    /\ {MaxRequests, MaxTroubles} \subseteq Nat

VARIABLES
    log,       \* the versions of all names, in the order of their creation
    job,       \* the request of each handler
    wish,      \* the save that a client is about, until it has an answer
    requests,  \* requests made so far
    faults     \* calls failed and requests given up

clients == <<log, job, wish, requests, faults>>
vars == <<engine, clients>>

\* The list of base b is kept under the name b/todo; lists of lists are left out.
Names == [base: Bases, todo: BOOLEAN]
TodoName(n) == [base |-> n.base, todo |-> TRUE]
Filters == {{n} : n \in {m \in Names : m.todo}} \union {{n \in Names : n.base = b} : b \in Bases}

Refs == DOMAIN log
BaseRefs == {r \in Refs : ~log[r].name.todo}

NoName == [base |-> None, todo |-> FALSE]
NoWish == [open |-> FALSE, id |-> 0, via |-> "api", ws |-> None, name |-> NoName, expected |-> 0]

\* left: prefixes, or selectors, still to come; rows: versions found or made.
NoJob == [op |-> "none", client |-> None, gone |-> FALSE, name |-> NoName, ref |-> 0,
          expected |-> 0, id |-> 0, asked |-> {}, left |-> {}, rows |-> {},
          missing |-> {}, from |-> 0, answer |-> "none"]

Init ==
    /\ EngineInit
    /\ \E stored \in SUBSET Names :
          /\ \A n \in stored : [n EXCEPT !.todo = FALSE] \in stored
          /\ log = SetToSeq({[ws |-> Global, name |-> n, dead |-> FALSE, after |-> 0, by |-> None,
                           client |-> None, id |-> 0, expected |-> 0] : n \in stored})
    /\ job = [i \in Handlers |-> NoJob]
    /\ wish = [c \in Clients |-> NoWish]
    /\ requests = 0
    /\ faults = 0

-----------------------------------------------------------------------------
\* The version that name n of workspace w had when the log was k long; 0 if none.
HeadAt(w, n, k) ==
    LET mine == {r \in 1 .. k : log[r].ws = w /\ log[r].name = n} IN
    IF mine = {} THEN 0 ELSE CHOOSE r \in mine : \A x \in mine : x <= r

LiveAt(w, n, k) == HeadAt(w, n, k) # 0 /\ ~log[HeadAt(w, n, k)].dead
Latest(w, n) == HeadAt(w, n, Len(log))
Live(w, n) == LiveAt(w, n, Len(log))

Version(i, n, dead) ==
    [ws |-> h[i].ws, name |-> n, dead |-> dead, after |-> Latest(h[i].ws, n), by |-> i,
     client |-> job[i].client, id |-> job[i].id, expected |-> job[i].expected]

Working(i) == At(i, "serve") /\ job[i].answer = "none"
Readable(i) == opened[h[i].repo] # None
Answer(i, a) == job' = [job EXCEPT ![i].answer = a]
Trouble == stops + faults < MaxTroubles
Fault == Trouble /\ faults' = faults + 1
Waiting(c) == \E i \in Handlers : job[i].client = c /\ ~job[i].gone

TypeOK ==
    /\ EngineTypeOK
    /\ \A r \in Refs : log[r].ws \in Workspaces /\ log[r].name \in Names /\ log[r].after < r
    /\ \A i \in Handlers :
          /\ job[i].op \in {"none", "save", "read", "list", "delete"}
          /\ job[i].op = "none" <=> At(i, "free")
          /\ job[i].left \subseteq job[i].asked
          /\ job[i].rows \subseteq Refs
    /\ \A c \in Clients : Cardinality({i \in Handlers : job[i].client = c /\ ~job[i].gone}) <= 1
    /\ requests \in 0 .. MaxRequests /\ stops + faults <= MaxTroubles

-----------------------------------------------------------------------------
(***************************************************************************)
(* Requests.                                                               *)
(***************************************************************************)
Ready(c, i) ==
    ~Waiting(c) /\ requests < MaxRequests /\ phase = "serving" /\ At(i, "free")

Start(c, i, via, w, j) ==
    /\ requests' = requests + 1
    /\ Accept(i, via, w)
    /\ job' = [job EXCEPT ![i] = [j EXCEPT !.client = c, !.from = Len(log)]]
    /\ UNCHANGED <<log, faults>>

\* A save; ref # 0: the name is still to be found by a reference.
Submit(c, i, via, w, n, ref, e) ==
    /\ ~wish[c].open
    /\ wish' = [wish EXCEPT ![c] = [open |-> TRUE, id |-> @.id + 1, via |-> via,
                                     ws |-> w, name |-> n, expected |-> e]]
    /\ Start(c, i, via, w,
             [NoJob EXCEPT !.op = "save", !.name = IF ref = 0 THEN n ELSE NoName,
                           !.ref = ref, !.expected = e, !.id = wish'[c].id])

VersionsOf(w, n) == {r \in Refs : log[r].ws = w /\ log[r].name = n}

\* save_artifact_text and save_artifact_blob: whatever is there is succeeded.
SaveTool(c, i) == \E w \in Workspaces, n \in Names : Submit(c, i, "api", w, n, 0, 0)

\* "artifacts put" may expect a version (--expected-prev-ref).
Put(c, i) ==
    \E w \in Workspaces, n \in Names : \E e \in {0} \union VersionsOf(w, n) :
        Submit(c, i, "api", w, n, 0, e)

\* The writing half of the to-do tool; the artifact by name or by reference.
WriteTodo(c, i) ==
    \E w \in Workspaces, ref \in {0} \union BaseRefs, n \in {m \in Names : m.todo} :
    \E e \in {0} \union VersionsOf(w, n) :
        /\ ref # 0 => log[ref].ws = w /\ n = TodoName(log[ref].name)
        /\ Submit(c, i, "api", w, n, ref, e)

\* The form of the web interface.
InsertForm(c, i) == \E w \in Workspaces, n \in Names : Submit(c, i, "web", w, n, 0, 0)

\* A client that does not know what became of its save makes it again.
Retry(c, i) ==
    /\ wish[c].open
    /\ Start(c, i, wish[c].via, wish[c].ws,
             [NoJob EXCEPT !.op = "save", !.name = wish[c].name,
                           !.expected = wish[c].expected, !.id = wish[c].id])
    /\ UNCHANGED wish

GiveUpWish(c) ==
    /\ wish[c].open /\ ~Waiting(c)
    /\ wish' = [wish EXCEPT ![c].open = FALSE]
    /\ UNCHANGED <<engine, log, job, requests, faults>>

Ask(c, i, via, w, j) == Start(c, i, via, w, j) /\ UNCHANGED wish

\* get_artifact and resolve_artifact, by name; a version that is named by its
\* reference never changes.
Get(c, i) ==
    \E w \in Workspaces, n \in Names :
        Ask(c, i, "api", w, [NoJob EXCEPT !.op = "read", !.name = n])

\* The reading half of the to-do tool.
ReadTodo(c, i) ==
    \E w \in Workspaces, ref \in BaseRefs :
        /\ log[ref].ws = w
        /\ Ask(c, i, "api", w, [NoJob EXCEPT !.op = "read", !.ref = ref])

\* A download.
Content(c, i) ==
    \E w \in Workspaces, n \in Names :
        Ask(c, i, "web", w, [NoJob EXCEPT !.op = "read", !.name = n])

ListJob(ps) == [NoJob EXCEPT !.op = "list", !.asked = ps, !.left = ps]

ListTool(c, i) ==
    \E w \in Workspaces, p \in Filters : Ask(c, i, "api", w, ListJob({p}))

\* The index page takes several prefixes.
ListPage(c, i) ==
    \E w \in Workspaces, ps \in (SUBSET Filters) \ {{}} : Ask(c, i, "web", w, ListJob(ps))

\* A deletion is by names or by references, not by both (parseDeleteSelectors);
\* a selector is [name, ref] with one of them set.
ByNames == {[name |-> n, ref |-> 0] : n \in Names}
ByRefs  == {[name |-> NoName, ref |-> r] : r \in Refs}

DeleteJob(sels) == [NoJob EXCEPT !.op = "delete", !.asked = sels, !.left = sels]

DeleteTool(c, i) ==
    \E w \in Workspaces, s \in ByNames \union ByRefs : Ask(c, i, "api", w, DeleteJob({s}))

\* Several at once.
DeleteBatch(c, i) ==
    \E w \in Workspaces, sels \in ((SUBSET ByNames) \union (SUBSET ByRefs)) \ {{}} :
        Ask(c, i, "web", w, DeleteJob(sels))

-----------------------------------------------------------------------------
(***************************************************************************)
(* The calls that a request makes.                                         *)
(***************************************************************************)
\* The first request of a to-do tool that was given a reference; the second one
\* needs the daemon again.
FindBase(i) ==
    /\ Working(i) /\ Readable(i) /\ job[i].ref # 0
    /\ \/ /\ phase = "serving"
          /\ job' = [job EXCEPT ![i] =
                        [@ EXCEPT !.ref = 0, !.name = TodoName(log[job[i].ref].name)]]
          /\ h' = [h EXCEPT ![i] = [@ EXCEPT !.pc = "resolve", !.repo = None]]
       \/ /\ phase # "serving"
          /\ Answer(i, "error")
          /\ UNCHANGED h
    /\ UNCHANGED <<phase, tables, webLock, dirs, stops, log, wish, requests, faults>>

\* Mutation: the tool drops the reference that its caller expects.
GuardDropped(e) == 0

\* The guard of a save as it reaches the store.
Guard(e) == e

CallSave(i) ==
    LET n == job[i].name  e == Guard(job[i].expected) IN
    /\ Working(i) /\ Readable(i) /\ job[i].op = "save" /\ job[i].ref = 0
    /\ \/ /\ e # 0 /\ e # Latest(h[i].ws, n)
          /\ Answer(i, "conflict")
          /\ UNCHANGED log
       \/ /\ e = 0 \/ e = Latest(h[i].ws, n)
          /\ log' = Append(log, Version(i, n, FALSE))
          /\ Answer(i, "ok")
    /\ UNCHANGED <<engine, wish, requests, faults>>

CallRead(i) ==
    LET n == job[i].name IN
    /\ Working(i) /\ Readable(i) /\ job[i].op = "read" /\ job[i].ref = 0
    /\ job' = [job EXCEPT ![i] = [@ EXCEPT
          !.rows = IF Live(h[i].ws, n) THEN {Latest(h[i].ws, n)} ELSE {},
          !.answer = IF Live(h[i].ws, n) THEN "ok" ELSE "notfound"]]
    /\ UNCHANGED <<engine, log, wish, requests, faults>>

\* Mutation: each List call's items replace those found before.
CombinedLast(rows, items) == items

\* listArtifacts drops an item whose reference it has already.
Combined(rows, items) == rows \union items

CallList(i) ==
    /\ Working(i) /\ Readable(i) /\ job[i].op = "list"
    /\ \E p \in job[i].left :
          job' = [job EXCEPT ![i] = [@ EXCEPT
             !.left = job[i].left \ {p},
             !.rows = Combined(job[i].rows, {Latest(h[i].ws, n) : n \in {m \in p : Live(h[i].ws, m)}}),
             !.answer = IF job[i].left = {p} THEN "ok" ELSE "none"]]
    /\ UNCHANGED <<engine, log, wish, requests, faults>>

\* What a selector deletes: the head of its name; by reference only while the
\* reference is the head.
Chosen(w, s) ==
    IF s.ref = 0 THEN {n \in {s.name} : Live(w, n)}
    ELSE {n \in {log[s.ref].name} : Live(w, n) /\ Latest(w, n) = s.ref}

BatchAnswer(deleted) == IF deleted = {} THEN "notfound" ELSE "ok"

CallDelete(i) ==
    /\ Working(i) /\ Readable(i) /\ job[i].op = "delete"
    /\ \E s \in job[i].left :
          LET n == Chosen(h[i].ws, s)
              made == IF n = {} THEN {} ELSE {Len(log) + 1} IN
          /\ log' = IF n = {} THEN log ELSE Append(log, Version(i, CHOOSE m \in n : TRUE, TRUE))
          /\ job' = [job EXCEPT ![i] = [@ EXCEPT
                !.left = job[i].left \ {s},
                !.rows = job[i].rows \union made,
                !.missing = job[i].missing \union IF n = {} THEN {s} ELSE {},
                !.answer = IF job[i].left = {s} THEN BatchAnswer(job[i].rows \union made)
                              ELSE "none"]]
    /\ UNCHANGED <<engine, wish, requests, faults>>

\* Mutation: a batch goes on after an error, and counts it with the missing ones.
SkippedOver(j) ==
    LET s == CHOOSE x \in j.left : TRUE IN
    IF j.op # "delete" THEN [j EXCEPT !.answer = "error"]
    ELSE [j EXCEPT !.left = @ \ {s}, !.missing = @ \union {s},
                   !.answer = IF j.left = {s} THEN BatchAnswer(j.rows) ELSE "none"]

\* An error other than "not found" ends a request where it is.
Stopped(j) == [j EXCEPT !.answer = "error"]

\* The repository was closed under the request, the context of a client that has
\* gone is cancelled, or the database fails.
CallFails(i) ==
    /\ Working(i)
    /\ \/ (~Readable(i) \/ job[i].gone) /\ UNCHANGED faults
       \/ Readable(i) /\ ~job[i].gone /\ Fault
    /\ job' = [job EXCEPT ![i] = Stopped(@)]
    /\ UNCHANGED <<engine, log, wish, requests>>

\* The workspace could not be resolved.
Unresolved(i) ==
    /\ phase = "closed" \/ job[i].gone \/ Trouble
    /\ ResolveFails(i)
    /\ faults' = IF phase = "closed" \/ job[i].gone THEN faults ELSE faults + 1
    /\ UNCHANGED <<log, job, wish, requests>>

\* The answer goes out.  A save is settled unless it ended in an error.
Reply(i) ==
    LET c == job[i].client IN
    /\ Up
    /\ At(i, "failed") \/ job[i].answer # "none"
    /\ Leave(i)
    /\ job' = [job EXCEPT ![i] = NoJob]
    /\ wish' = IF job[i].op = "save" /\ ~job[i].gone /\ job[i].answer \in {"ok", "conflict"}
               THEN [wish EXCEPT ![c].open = FALSE] ELSE wish
    /\ UNCHANGED <<log, requests, faults>>

\* The client waits no longer; its request goes on.  One that only reads would
\* leave nothing behind.
Abandon(i) ==
    /\ job[i].op \in {"save", "delete"} /\ ~job[i].gone
    /\ Fault
    /\ job' = [job EXCEPT ![i].gone = TRUE]
    /\ UNCHANGED <<engine, log, wish, requests>>

-----------------------------------------------------------------------------
Serve(i) ==
    \/ Resolve(i) /\ UNCHANGED clients
    \/ FindBase(i) \/ CallSave(i) \/ CallRead(i) \/ CallList(i) \/ CallDelete(i)
    \/ CallFails(i) \/ Unresolved(i) \/ Reply(i)

Daemon == (Trouble /\ BeginStop) \/ CloseWeb \/ CloseEngine \/ Restart

Ends ==
    /\ Exit \/ (Trouble /\ Crash)
    /\ job' = [i \in Handlers |-> NoJob]
    /\ UNCHANGED <<log, wish, requests, faults>>

Request(c, i) ==
    /\ Ready(c, i)
    /\ \/ SaveTool(c, i) \/ Put(c, i) \/ WriteTodo(c, i) \/ InsertForm(c, i) \/ Retry(c, i)
       \/ Get(c, i) \/ ReadTodo(c, i) \/ Content(c, i)
       \/ ListTool(c, i) \/ ListPage(c, i) \/ DeleteTool(c, i) \/ DeleteBatch(c, i)

Next ==
    \/ \E c \in Clients, i \in Handlers : Request(c, i)
    \/ \E c \in Clients : GiveUpWish(c)
    \/ \E i \in Handlers : Serve(i) \/ Abandon(i)
    \/ Daemon /\ UNCHANGED clients
    \/ Ends

Spec == Init /\ [][Next]_vars

-----------------------------------------------------------------------------
\* A save that expects a version is made at most once, although its client made
\* it again while the first one was still under way, or had ended unheard
\* (ExpectedPrevRef through todo and put to saveOnce).
WrittenOnce ==
    \A a, b \in Refs :
        /\ a # b /\ log[a].id # 0 /\ log[a].client = log[b].client /\ log[a].id = log[b].id
        => log[a].expected = 0

\* What was there while request i was under way.
Span(i) == job[i].from .. Len(log)

\* What a request asked to see.
Wanted(j) == IF j.op = "read" THEN {j.name} ELSE UNION j.asked

\* A listing of several prefixes, each a call of its own, shows only versions
\* that were current at some moment of the request, and misses none that was
\* current throughout; a read by name likewise, after a to-do tool has found the
\* name in a request before it (listArtifacts, resolveTodoBaseName).
ListingTrue ==
    \A i \in Handlers :
        LET j == job[i]  w == h[i].ws IN
        j.op \in {"list", "read"} /\ j.answer \in {"ok", "notfound"} =>
            /\ \A r \in j.rows : ~log[r].dead /\
                  \E k \in Span(i) : HeadAt(w, log[r].name, k) = r
            /\ \A n \in Wanted(j) : Live(w, n) =>
                  \/ Latest(w, n) \in j.rows
                  \/ HeadAt(w, n, j.from) # Latest(w, n)

\* The answer to a deletion of several artifacts, an error half way included, is
\* what happened: the deletions it reports are those it made, each of what its
\* selector named and by reference of that version only; what it reports missing
\* was missing at some moment; the rest was not tried (handleAPIDelete).
BatchTrue ==
    \A i \in Handlers :
        LET j == job[i]  w == h[i].ws
            Hit(s, r) == IF s.ref = 0 THEN log[r].name = s.name ELSE log[r].after = s.ref IN
        j.op = "delete" /\ j.answer # "none" =>
            /\ j.rows = {r \in Refs : r > j.from /\ log[r].by = i}
            /\ \A r \in j.rows : log[r].dead
            /\ \A s \in j.asked \ (j.left \union j.missing) : \E r \in j.rows : Hit(s, r)
            /\ \A s \in j.left \union j.missing : ~\E r \in j.rows : Hit(s, r)
            /\ \A s \in j.missing : \E k \in Span(i) :
                  IF s.ref = 0 THEN ~LiveAt(w, s.name, k)
                  ELSE HeadAt(w, log[s.ref].name, k) # s.ref \/ log[s.ref].dead \/ log[s.ref].ws # w
            /\ j.answer # "error" => j.left = {}
=============================================================================
