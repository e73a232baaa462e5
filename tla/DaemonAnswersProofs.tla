-------------------------- MODULE DaemonAnswersProofs --------------------------
(***************************************************************************)
(* For any number of handlers, clients and names: what the daemon answers  *)
(* is what happened.  A save that expects a version is made once, a        *)
(* listing shows what was current and misses nothing that was current      *)
(* throughout, a deletion of several artifacts reports what it deleted     *)
(* (saveOnce, listArtifacts, handleAPIDelete).                             *)
(*                                                                         *)
(* The versions of all names are one log that only grows: the head of a    *)
(* name when the log was k long never changes again.  So a request may     *)
(* note what it has seen, and each of its calls adds to the note; nothing  *)
(* that others do makes it untrue.                                         *)
(***************************************************************************)
EXTENDS DaemonRequestsProofs

-----------------------------------------------------------------------------
(***************************************************************************)
(* The inductive invariant.                                                *)
(***************************************************************************)
\* The records of the log, of the requests and of the clients.
Versions ==
    [ws: Workspaces, name: Names, dead: BOOLEAN, after: Nat, by: Handlers \union {None},
     client: Clients \union {None}, id: Nat, expected: Nat]

Selectors == [name: Names \union {NoName}, ref: Nat]
Asks == Filters \union Selectors

Jobs ==
    [op: {"none", "save", "read", "list", "delete"}, client: Clients \union {None},
     gone: BOOLEAN, name: Names \union {NoName}, ref: Nat, expected: Nat, id: Nat,
     asked: SUBSET Asks, left: SUBSET Asks, rows: SUBSET Nat, missing: SUBSET Asks, from: Nat,
     answer: {"none", "ok", "notfound", "conflict", "error"}]

Wishes ==
    [open: BOOLEAN, id: Nat, via: Vias, ws: Workspaces \union {None},
     name: Names \union {NoName}, expected: Nat]

\* A version succeeds an earlier one; a client that has a save open knows of what.
LogTypes == log \in Seq(Versions) /\ \A r \in Refs : log[r].after < r

WishTypes ==
    /\ wish \in [Clients -> Wishes]
    /\ \A c \in Clients : wish[c].open =>
          wish[c].ws \in Workspaces /\ wish[c].name \in Names /\ wish[c].id # 0

\* What is known of a request, by its kind: a save or a read has a name, or a
\* reference by which to find it; what is missing was asked for and has been tried.
Sound(i) ==
    LET j == job[i] IN
    /\ j.op = "none" => j = NoJob
    /\ j.op = "none" <=> At(i, "free")
    /\ j.op # "none" => j.client \in Clients
    /\ j.op \in {"save", "read"} => IF j.ref = 0 THEN j.name \in Names ELSE j.ref \in Refs
    /\ j.op \notin {"save", "read"} => j.ref = 0
    /\ j.op # "save" => j.id = 0
    /\ j.op = "list" => j.asked \subseteq Filters
    /\ j.op = "delete" => j.asked \subseteq ByNames \/ j.asked \subseteq ByRefs
    /\ j.left \subseteq j.asked /\ j.missing \subseteq j.asked \ j.left
    /\ j.rows \subseteq Refs /\ j.from <= Len(log)

JobTypes == job \in [Handlers -> Jobs] /\ \A i \in Handlers : Sound(i)

\* A client waits for one request.
OneEach ==
    \A i, k \in Handlers :
        job[i].client # None /\ job[i].client = job[k].client /\ ~job[i].gone /\ ~job[k].gone => i = k

Counts == requests \in 0 .. MaxRequests /\ faults \in Nat /\ stops + faults <= MaxTroubles

\* Every set of versions of a name has a last one, if any.
HasLast(S) == S = {} \/ \E r \in S : \A x \in S : x <= r

HeadsExist ==
    \A w \in Workspaces, n \in Names : \A k \in 0 .. Len(log) :
        HasLast({r \in 1 .. k : log[r].ws = w /\ log[r].name = n})

\* What a save is about: as its handler, its version and its client have it.
Aim(i) ==
    [ws |-> h[i].ws, expected |-> job[i].expected,
     name |-> IF job[i].ref = 0 THEN job[i].name ELSE TodoName(log[job[i].ref].name)]
Made(r)  == [ws |-> log[r].ws, expected |-> log[r].expected, name |-> log[r].name]
Meant(c) == [ws |-> wish[c].ws, expected |-> wish[c].expected, name |-> wish[c].name]

Saves(i) == job[i].op = "save"

\* Saves of one client with one number are about the same thing, and a version was
\* made on the one its client expected: so the second of them finds another latest.
SavesAgree ==
    /\ \A c \in Clients, i \in Handlers : Saves(i) /\ job[i].client = c =>
          /\ job[i].id \in 1 .. wish[c].id
          /\ job[i].id = wish[c].id => Aim(i) = Meant(c)
    /\ \A c \in Clients, r \in Refs : log[r].id # 0 /\ log[r].client = c =>
          /\ log[r].id <= wish[c].id
          /\ log[r].id = wish[c].id => Made(r) = Meant(c)
    /\ \A r \in Refs : log[r].id # 0 =>
          /\ log[r].client \in Clients
          /\ log[r].expected # 0 => log[r].after = log[r].expected
    /\ \A i, k \in Handlers : Saves(i) /\ Saves(k) /\ job[i].client = job[k].client /\ job[i].id = job[k].id =>
          Aim(i) = Aim(k)
    /\ \A i \in Handlers, r \in Refs : Saves(i) /\ log[r].client = job[i].client /\ log[r].id = job[i].id =>
          Aim(i) = Made(r)

\* Listings: a version was current at some moment of the request; the last version
\* of a name has been found, or was made since the request began.
Current(i, r) == ~log[r].dead /\ \E k \in Span(i) : HeadAt(h[i].ws, log[r].name, k) = r
Shown(i, n) ==
    Live(h[i].ws, n) => \/ Latest(h[i].ws, n) \in job[i].rows
                        \/ HeadAt(h[i].ws, n, job[i].from) # Latest(h[i].ws, n)

Listing(i) ==
    LET j == job[i] IN
    /\ j.op \in {"read", "list"} => \A r \in j.rows : Current(i, r)
    /\ j.op = "list" => \A p \in j.asked \ j.left : \A n \in p : Shown(i, n)
    /\ j.op = "list" => j.answer \in {"none", "ok", "error"} /\ (j.answer = "ok" => j.left = {})
    /\ j.op = "read" /\ j.answer \in {"ok", "notfound"} => j.ref = 0 /\ Shown(i, j.name)

\* Deletions: a version is what a selector named; a selector named nothing at some
\* moment of the request.
Hits(s, r) == IF s.ref = 0 THEN log[r].name = s.name ELSE log[r].after = s.ref
Missed(i, s) ==
    \E k \in Span(i) :
        IF s.ref = 0 THEN ~LiveAt(h[i].ws, s.name, k)
        ELSE HeadAt(h[i].ws, log[s.ref].name, k) # s.ref \/ log[s.ref].dead \/ log[s.ref].ws # h[i].ws

Deleting(i) ==
    LET j == job[i] IN
    j.op = "delete" =>
        /\ j.rows = {r \in Refs : r > j.from /\ log[r].by = i}
        /\ \A r \in j.rows : log[r].dead
        /\ \A s \in j.asked \ (j.left \union j.missing) : \E r \in j.rows : Hits(s, r)
        /\ \A s \in j.left \union j.missing : \A r \in j.rows : ~Hits(s, r)
        /\ \A s \in j.missing : Missed(i, s)
        /\ j.answer \notin {"none", "error"} => j.left = {}

\* The inductive invariant, together with that of the engine.
Answers ==
    /\ LogTypes /\ WishTypes /\ JobTypes /\ OneEach /\ Counts /\ HeadsExist
    /\ SavesAgree /\ WrittenOnce
    /\ \A i \in Handlers : Listing(i) /\ Deleting(i)

-----------------------------------------------------------------------------
(***************************************************************************)
(* The log.                                                                *)
(***************************************************************************)
\* The log after a step begins with the log before it.
Extended ==
    /\ LogTypes /\ LogTypes'
    /\ Len(log) <= Len(log')
    /\ \A r \in Refs : log'[r] = log[r]

\* A log has a length, and its references count the versions.
LEMMA LogRefs ==
    ASSUME LogTypes
    PROVE  Len(log) \in Nat /\ Refs = 1 .. Len(log) /\ \A r \in Refs : log[r] \in Versions
    BY DEF LogTypes, Refs

\* A version is appended.
LEMMA LogGrows ==
    ASSUME LogTypes, NEW v \in Versions, v.after <= Len(log), log' = Append(log, v)
    PROVE  /\ Extended
           /\ Len(log') = Len(log) + 1 /\ Refs' = Refs \union {Len(log) + 1}
           /\ log'[Len(log) + 1] = v
    <1>1. Len(log) \in Nat /\ Refs = 1 .. Len(log)
        BY LogRefs
    <1>2. log' \in Seq(Versions) /\ Len(log') = Len(log) + 1 /\ Refs' = 1 .. (Len(log) + 1)
        BY <1>1 DEF LogTypes, Refs
    <1>3. /\ \A r \in Refs : log'[r] = log[r]
          /\ log'[Len(log) + 1] = v
        BY <1>1 DEF LogTypes
    <1>4. \A r \in Refs' : log'[r].after < r
        <2> TAKE r \in Refs'
        <2>1. CASE r \in Refs
            BY <2>1, <1>3 DEF LogTypes
        <2>2. CASE r = Len(log) + 1
            BY <2>2, <1>1, <1>3 DEF Versions
        <2> QED
            BY <1>1, <1>2, <2>1, <2>2
    <1> QED
        BY <1>1, <1>2, <1>3, <1>4 DEF Extended, LogTypes

\* The log stays.
LEMMA LogStays ==
    ASSUME LogTypes, log' = log
    PROVE  Extended /\ Refs' = Refs /\ Len(log') = Len(log)
    BY LogRefs DEF Extended, LogTypes, Refs

\* The head of a name is its last version.
LEMMA HeadOf ==
    ASSUME LogTypes, HeadsExist, NEW w \in Workspaces, NEW n \in Names, NEW k \in 0 .. Len(log)
    PROVE  /\ HeadAt(w, n, k) \in 0 .. k
           /\ HeadAt(w, n, k) # 0 =>
                 log[HeadAt(w, n, k)].ws = w /\ log[HeadAt(w, n, k)].name = n
           /\ \A x \in 1 .. k : log[x].ws = w /\ log[x].name = n => x <= HeadAt(w, n, k)
    <1> DEFINE mine == {r \in 1 .. k : log[r].ws = w /\ log[r].name = n}
    <1>1. Len(log) \in Nat
        BY LogRefs
    <1>2. CASE mine = {}
        BY <1>1, <1>2 DEF HeadAt
    <1>3. CASE mine # {}
        <2>1. \E r \in mine : \A x \in mine : x <= r
            BY <1>3 DEF HeadsExist, HasLast
        <2>2. HeadAt(w, n, k) = CHOOSE r \in mine : \A x \in mine : x <= r
            BY <1>3 DEF HeadAt
        <2>3. HeadAt(w, n, k) \in mine /\ \A x \in mine : x <= HeadAt(w, n, k)
            BY <2>1, <2>2
        <2> QED
            BY <1>1, <2>3
    <1> QED
        BY <1>2, <1>3

\* The last of a set of references; 0 if there is none.
LastOf(S) == IF S = {} THEN 0 ELSE CHOOSE r \in S : \A x \in S : x <= r

\* What was the head is not changed by what comes after.
LEMMA HeadKept ==
    ASSUME Extended, NEW w, NEW n, NEW k \in 0 .. Len(log)
    PROVE  HeadAt(w, n, k)' = HeadAt(w, n, k)
    <1>1. Len(log) \in Nat /\ Refs = 1 .. Len(log)
        BY LogRefs DEF Extended
    <1> DEFINE mine  == {r \in 1 .. k : log[r].ws = w /\ log[r].name = n}
               later == {r \in 1 .. k : log'[r].ws = w /\ log'[r].name = n}
    <1>2. later = mine
        BY <1>1 DEF Extended
    <1>3. HeadAt(w, n, k) = LastOf(mine) /\ HeadAt(w, n, k)' = LastOf(later)
        BY DEF HeadAt, LastOf
    <1> HIDE DEF mine, later
    <1> QED
        BY <1>2, <1>3

\* A new version is the head of its name, and of no other.
LEMMA HeadsMove ==
    ASSUME LogTypes, HeadsExist, NEW v \in Versions, v.after <= Len(log), log' = Append(log, v)
    PROVE  /\ HeadsExist'
           /\ \A w \in Workspaces, n \in Names :
                 Latest(w, n)' = IF v.ws = w /\ v.name = n THEN Len(log) + 1 ELSE Latest(w, n)
    <1>1. /\ Len(log) \in Nat /\ Refs = 1 .. Len(log) /\ Extended
          /\ Len(log') = Len(log) + 1 /\ log'[Len(log) + 1] = v
          /\ \A r \in Refs : log'[r] = log[r]
        BY LogRefs, LogGrows DEF Extended
    <1> DEFINE mine(w, n, k)  == {r \in 1 .. k : log[r].ws = w /\ log[r].name = n}
               later(w, n, k) == {r \in 1 .. k : log'[r].ws = w /\ log'[r].name = n}
    <1>2. \A w, n : \A k \in 0 .. Len(log) : later(w, n, k) = mine(w, n, k)
        BY <1>1
    <1>3. \A w, n : later(w, n, Len(log) + 1) =
              IF v.ws = w /\ v.name = n THEN mine(w, n, Len(log)) \union {Len(log) + 1}
              ELSE mine(w, n, Len(log))
        BY <1>1
    <1>4. ASSUME NEW w \in Workspaces, NEW n \in Names, NEW k \in 0 .. Len(log')
          PROVE  HasLast(later(w, n, k))
        <2>1. \A d \in 0 .. Len(log) : HasLast(mine(w, n, d))
            BY DEF HeadsExist
        <2>2. CASE k \in 0 .. Len(log)
            <3>1. later(w, n, k) = mine(w, n, k) /\ HasLast(mine(w, n, k))
                BY <1>2, <2>1, <2>2
            <3> QED
                BY <3>1
        <2>3. CASE k = Len(log) + 1 /\ v.ws = w /\ v.name = n
            <3>1. Len(log) + 1 \in later(w, n, k) /\ \A x \in later(w, n, k) : x <= Len(log) + 1
                BY <1>1, <1>3, <2>3
            <3> HIDE DEF later
            <3> QED
                BY <3>1 DEF HasLast
        <2>4. CASE k = Len(log) + 1 /\ ~(v.ws = w /\ v.name = n)
            <3>1. later(w, n, k) = mine(w, n, Len(log)) /\ HasLast(mine(w, n, Len(log)))
                BY <1>1, <1>3, <2>1, <2>4
            <3> HIDE DEF later, mine
            <3> QED
                BY <3>1
        <2>5. k \in 0 .. Len(log) \/ k = Len(log) + 1
            BY <1>1
        <2> HIDE DEF later
        <2> QED
            BY <2>2, <2>3, <2>4, <2>5
    <1>5. HeadsExist'
        BY <1>4 DEF HeadsExist
    <1>6. ASSUME NEW w \in Workspaces, NEW n \in Names
          PROVE  Latest(w, n)' = IF v.ws = w /\ v.name = n THEN Len(log) + 1 ELSE Latest(w, n)
        <2>1. /\ Latest(w, n)' = LastOf(later(w, n, Len(log) + 1))
              /\ Latest(w, n) = LastOf(mine(w, n, Len(log)))
            BY <1>1 DEF Latest, HeadAt, LastOf
        <2>2. CASE v.ws = w /\ v.name = n
            <3> DEFINE L == later(w, n, Len(log) + 1)
            <3>1. Len(log) + 1 \in L /\ \A x \in L : x <= Len(log) + 1 /\ x \in Nat
                BY <1>1, <1>3, <2>2
            <3>2. \A r \in L : (\A x \in L : x <= r) => r = Len(log) + 1
                BY <1>1, <3>1
            <3>3. LastOf(L) = Len(log) + 1
                BY <3>1, <3>2 DEF LastOf
            <3> QED
                BY <2>1, <2>2, <3>3
        <2>3. CASE ~(v.ws = w /\ v.name = n)
            <3>1. later(w, n, Len(log) + 1) = mine(w, n, Len(log))
                BY <1>3, <2>3
            <3> HIDE DEF later, mine
            <3> QED
                BY <2>1, <2>3, <3>1
        <2> QED
            BY <2>2, <2>3
    <1> QED
        BY <1>5, <1>6

-----------------------------------------------------------------------------
(***************************************************************************)
(* What a request has seen stays true as the log grows.                    *)
(***************************************************************************)
\* The last version of a name stays the last, or a new one takes its place.
Replaced ==
    \A w \in Workspaces, n \in Names :
        Latest(w, n)' = Latest(w, n) \/ Latest(w, n)' > Len(log)

\* How the log changes in a step.
Logged == Extended /\ HeadsExist /\ HeadsExist' /\ Replaced

\* The step of handler i leaves handler k and its request alone.
Apart(k) ==
    /\ job'[k] = job[k] /\ h'[k].ws = h[k].ws
    /\ At(k, "free")' <=> At(k, "free")

\* The log stays, heads and all.
LEMMA LoggedStays ==
    ASSUME LogTypes, HeadsExist, log' = log
    PROVE  Logged
    <1>1. Extended
        BY LogStays
    <1>2. HeadsExist'
        BY DEF HeadsExist
    <1>3. Replaced
        BY DEF Replaced, Latest, HeadAt
    <1> QED
        BY <1>1, <1>2, <1>3 DEF Logged

\* A version is appended.
LEMMA LoggedGrows ==
    ASSUME LogTypes, HeadsExist, NEW v \in Versions, v.after <= Len(log), log' = Append(log, v)
    PROVE  Logged
    <1>1. Extended /\ HeadsExist'
        BY LogGrows, HeadsMove
    <1>2. \A w \in Workspaces, n \in Names :
              Latest(w, n)' = Len(log) + 1 \/ Latest(w, n)' = Latest(w, n)
        BY HeadsMove
    <1>3. Replaced
        BY <1>2, LogRefs DEF Replaced
    <1> QED
        BY <1>1, <1>3 DEF Logged

\* A request's references, selectors and bounds stay meaningful.
LEMMA SoundKept ==
    ASSUME Logged, NEW k \in Handlers, Sound(k), job[k] \in Jobs, Apart(k)
    PROVE  Sound(k)'
    <1>1. Refs \subseteq Refs' /\ Len(log) <= Len(log') /\ Len(log) \in Nat /\ Len(log') \in Nat
        BY LogRefs DEF Logged, Extended, LogTypes, Refs
    <1>2. ByRefs \subseteq ByRefs' /\ ByNames' = ByNames
        BY <1>1 DEF ByRefs, ByNames
    <1>3. job[k].from \in Nat
        BY DEF Jobs
    <1> QED
        BY <1>1, <1>2, <1>3 DEF Sound, Apart

\* A version that a listing shows was the head at some moment of the request.
LEMMA CurrentKept ==
    ASSUME Logged, NEW k \in Handlers, job[k] \in Jobs, job'[k].from = job[k].from,
           h'[k].ws = h[k].ws, NEW r \in Refs, Current(k, r)
    PROVE  Current(k, r)'
    <1>1. Len(log) \in Nat /\ Refs = 1 .. Len(log) /\ Len(log') \in Nat /\ Len(log) <= Len(log')
          /\ log'[r] = log[r] /\ job[k].from \in Nat
        BY LogRefs DEF Logged, Extended, LogTypes, Refs, Jobs
    <1>2. PICK d \in Span(k) : HeadAt(h[k].ws, log[r].name, d) = r
        BY DEF Current
    <1>3. d \in 0 .. Len(log) /\ d \in Span(k)'
        BY <1>1, <1>2 DEF Span
    <1>4. PICK w, n : w = h[k].ws /\ n = log[r].name
        OBVIOUS
    <1>5. HeadAt(w, n, d)' = r
        BY <1>2, <1>3, <1>4, HeadKept DEF Logged
    <1>6. w = h'[k].ws /\ n = log'[r].name /\ ~log'[r].dead
        BY <1>1, <1>4 DEF Current
    <1> QED
        BY <1>3, <1>5, <1>6 DEF Current

\* A name of which the last version was found, or changed, stays so.
LEMMA ShownKept ==
    ASSUME Logged, NEW k \in Handlers, job[k] \in Jobs, job[k].from <= Len(log),
           job'[k].from = job[k].from, job[k].rows \subseteq job'[k].rows, h'[k].ws = h[k].ws,
           h[k].ws \in Workspaces, NEW n \in Names, Shown(k, n)
    PROVE  Shown(k, n)'
    <1> DEFINE w == h[k].ws
               f == job[k].from
    <1>1. Len(log) \in Nat /\ Refs = 1 .. Len(log) /\ f \in 0 .. Len(log)
        BY LogRefs DEF Logged, Extended, Jobs
    <1>2. HeadAt(w, n, f) \in 0 .. f /\ Latest(w, n) \in 0 .. Len(log)
        BY <1>1, HeadOf DEF Logged, Extended, Latest
    <1>3. \A x, y, d : d \in 0 .. Len(log) => HeadAt(x, y, d)' = HeadAt(x, y, d)
        BY HeadKept DEF Logged
    <1>4. CASE Latest(w, n)' > Len(log)
        <2>1. HeadAt(w, n, f)' # Latest(w, n)'
            BY <1>1, <1>2, <1>3, <1>4
        <2> QED
            BY <2>1 DEF Shown
    <1>5. CASE Latest(w, n)' = Latest(w, n)
        <2>1. Latest(w, n) # 0 => log'[Latest(w, n)] = log[Latest(w, n)]
            BY <1>1, <1>2 DEF Logged, Extended
        <2>2. Live(w, n)' => Live(w, n)
            BY <1>5, <2>1 DEF Live, LiveAt, Latest
        <2> QED
            BY <1>1, <1>3, <1>5, <2>2 DEF Shown
    <1> QED
        BY <1>4, <1>5 DEF Logged, Replaced

\* What a listing shows and has looked for stays true.
LEMMA ListingKept ==
    ASSUME Logged, NEW k \in Handlers, Sound(k), job[k] \in Jobs, Apart(k),
           h[k].ws \in Workspaces \/ job[k].op = "none", Listing(k)
    PROVE  Listing(k)'
    <1>1. CASE job[k].op = "none"
        BY <1>1 DEF Apart, Listing
    <1>2. CASE job[k].op # "none"
        <2>1. h[k].ws \in Workspaces /\ job'[k] = job[k] /\ h'[k].ws = h[k].ws
            BY <1>2 DEF Apart
        <2>2. job[k].rows \subseteq Refs /\ job[k].from <= Len(log)
            BY DEF Sound
        <2>3. \A r \in job[k].rows : Current(k, r) => Current(k, r)'
            BY <2>1, <2>2, CurrentKept
        <2>4. \A n \in Names : Shown(k, n) => Shown(k, n)'
            BY <2>1, <2>2, ShownKept
        <2>5. job[k].op = "list" => \A p \in job[k].asked : p \subseteq Names
            BY DEF Sound, Filters
        <2>6. job[k].op = "read" /\ job[k].ref = 0 => job[k].name \in Names
            BY DEF Sound
        <2> QED
            BY <2>1, <2>3, <2>4, <2>5, <2>6 DEF Listing
    <1> QED
        BY <1>1, <1>2

\* What was missing at some moment stays so.
LEMMA MissedKept ==
    ASSUME Logged, NEW k \in Handlers, job[k] \in Jobs, job'[k].from = job[k].from,
           h'[k].ws = h[k].ws, h[k].ws \in Workspaces, job[k].from <= Len(log),
           NEW s \in ByNames \union ByRefs, Missed(k, s)
    PROVE  Missed(k, s)'
    <1>1. Len(log) \in Nat /\ Refs = 1 .. Len(log) /\ Len(log') \in Nat /\ Len(log) <= Len(log')
          /\ job[k].from \in Nat /\ \A r \in Refs : log'[r] = log[r] /\ log[r].name \in Names
        BY LogRefs DEF Logged, Extended, LogTypes, Refs, Jobs, Versions
    <1>2. PICK d \in Span(k) :
              IF s.ref = 0 THEN ~LiveAt(h[k].ws, s.name, d)
              ELSE \/ HeadAt(h[k].ws, log[s.ref].name, d) # s.ref
                   \/ log[s.ref].dead \/ log[s.ref].ws # h[k].ws
        BY DEF Missed
    <1>3. d \in 0 .. Len(log) /\ d \in Span(k)'
        BY <1>1, <1>2 DEF Span
    <1>4. PICK w, n : w = h[k].ws /\ n = IF s.ref = 0 THEN s.name ELSE log[s.ref].name
        OBVIOUS
    <1>5. HeadAt(w, n, d)' = HeadAt(w, n, d)
        BY <1>3, HeadKept DEF Logged
    <1>6. CASE s.ref = 0
        <2>1. n \in Names /\ w \in Workspaces
            BY <1>1, <1>4, <1>6 DEF ByNames, ByRefs
        <2>2. HeadAt(w, n, d) \in 0 .. d
            BY <1>3, <2>1, HeadOf DEF Logged, Extended
        <2>3. HeadAt(w, n, d) # 0 => log'[HeadAt(w, n, d)] = log[HeadAt(w, n, d)]
            BY <1>1, <1>3, <2>2
        <2>4. ~LiveAt(w, n, d)'
            BY <1>2, <1>4, <1>5, <1>6, <2>3 DEF LiveAt
        <2> QED
            BY <1>3, <1>4, <1>6, <2>4 DEF Missed
    <1>7. CASE s.ref # 0
        <2>1. log'[s.ref] = log[s.ref]
            BY <1>1, <1>7 DEF ByNames, ByRefs
        <2>2. \/ HeadAt(w, n, d)' # s.ref
              \/ log'[s.ref].dead \/ log'[s.ref].ws # w
            BY <1>2, <1>4, <1>5, <1>7, <2>1
        <2>3. w = h'[k].ws /\ n = log'[s.ref].name
            BY <1>4, <1>7, <2>1
        <2> QED
            BY <1>3, <1>7, <2>2, <2>3 DEF Missed
    <1> QED
        BY <1>6, <1>7

\* The account of a deletion stays true: only its own handler adds to it.
LEMMA DeletingKept ==
    ASSUME Logged, NEW k \in Handlers, Sound(k), job[k] \in Jobs, Apart(k),
           h[k].ws \in Workspaces \/ job[k].op = "none", Deleting(k),
           \A r \in Refs' \ Refs : log'[r].by # k
    PROVE  Deleting(k)'
    <1>1. CASE job[k].op # "delete"
        BY <1>1 DEF Apart, Deleting
    <1>2. CASE job[k].op = "delete"
        <2>1. /\ job'[k] = job[k] /\ h'[k].ws = h[k].ws /\ h[k].ws \in Workspaces
              /\ job[k].rows \subseteq Refs /\ job[k].from <= Len(log)
            BY <1>2 DEF Apart, Sound
        <2>2. Refs \subseteq Refs' /\ \A r \in Refs : log'[r] = log[r]
            BY LogRefs DEF Logged, Extended, LogTypes, Refs
        <2>3. {r \in Refs' : r > job[k].from /\ log'[r].by = k} = {r \in Refs : r > job[k].from /\ log[r].by = k}
            BY <2>2
        <2>4. \A r \in job[k].rows : \A s : Hits(s, r)' <=> Hits(s, r)
            BY <2>1, <2>2 DEF Hits
        <2>5. \A s \in job[k].missing : s \in ByNames \union ByRefs
            BY <1>2 DEF Sound
        <2>6. \A s \in job[k].missing : Missed(k, s) => Missed(k, s)'
            BY <2>1, <2>5, MissedKept
        <2> QED
            BY <1>2, <2>1, <2>2, <2>3, <2>4, <2>6 DEF Deleting
    <1> QED
        BY <1>1, <1>2

-----------------------------------------------------------------------------
(***************************************************************************)
(* Steps of one handler, and the saves.                                    *)
(***************************************************************************)
\* The workspace of a handler that has a request.
LEMMA Placed ==
    ASSUME Inv, Answers, NEW k \in Handlers
    PROVE  /\ h[k].ws \in Workspaces \/ job[k].op = "none"
           /\ Sound(k) /\ job[k] \in Jobs /\ Listing(k) /\ Deleting(k)
    BY DEF Inv, EInv, Named, Answers, JobTypes, Sound

\* One handler moves, the others stay with what they have.
LEMMA OneMoves ==
    ASSUME Inv, Answers, Logged, NEW i \in Handlers, \A k \in Handlers \ {i} : Apart(k),
           \A r \in Refs' \ Refs : log'[r].by = i,
           job' \in [Handlers -> Jobs], Sound(i)', Listing(i)', Deleting(i)'
    PROVE  JobTypes' /\ \A k \in Handlers : Listing(k)' /\ Deleting(k)'
    <1>1. ASSUME NEW k \in Handlers \ {i} PROVE Sound(k)' /\ Listing(k)' /\ Deleting(k)'
        BY Placed, SoundKept, ListingKept, DeletingKept
    <1> QED
        BY <1>1 DEF JobTypes

\* No handler moves.
LEMMA NoneMoves ==
    ASSUME Inv, Answers, UNCHANGED <<log, job>>, \A k \in Handlers : Apart(k)
    PROVE  /\ Logged /\ LogTypes' /\ HeadsExist' /\ JobTypes' /\ OneEach' /\ WrittenOnce'
           /\ \A k \in Handlers : Listing(k)' /\ Deleting(k)'
    <1>1. Logged
        BY LoggedStays DEF Answers
    <1>2. Refs' = Refs
        BY DEF Refs
    <1>3. ASSUME NEW k \in Handlers PROVE Sound(k)' /\ Listing(k)' /\ Deleting(k)'
        BY <1>1, <1>2, Placed, SoundKept, ListingKept, DeletingKept
    <1>4. OneEach' /\ WrittenOnce'
        BY <1>2 DEF Answers, OneEach, WrittenOnce
    <1> QED
        BY <1>1, <1>3, <1>4 DEF JobTypes, Answers, Logged, Extended

\* What a save is about does not change while it is under way.
LEMMA AimKept ==
    ASSUME Logged, NEW k \in Handlers, Sound(k), Apart(k), Saves(k)
    PROVE  Aim(k)' = Aim(k)
    BY DEF Logged, Extended, Sound, Apart, Saves, Aim

\* A save that goes on, or a version it makes, is about what its client meant.
LEMMA SavesKept ==
    ASSUME Answers, Logged,
           \A c \in Clients : wish'[c].id = wish[c].id /\ Meant(c)' = Meant(c),
           \A k \in Handlers : Saves(k)' =>
               /\ Saves(k) /\ job'[k].client = job[k].client /\ job'[k].id = job[k].id
               /\ Aim(k)' = Aim(k),
           \A r \in Refs' \ Refs : log'[r].id # 0 => \E i \in Handlers :
               /\ Saves(i) /\ log'[r].client = job[i].client /\ log'[r].id = job[i].id
               /\ Made(r)' = Aim(i)
               /\ log'[r].expected # 0 => log'[r].after = log'[r].expected
    PROVE  SavesAgree'
    <1>1. \A r \in Refs : log'[r] = log[r] /\ Made(r)' = Made(r)
        BY DEF Logged, Extended, Made
    <1>2. \A k \in Handlers : Saves(k) => job[k].client \in Clients
        BY DEF Answers, JobTypes, Sound, Saves
    <1>3. ASSUME NEW c \in Clients, NEW k \in Handlers, Saves(k)', job'[k].client = c
          PROVE  /\ job'[k].id \in 1 .. wish'[c].id
                 /\ job'[k].id = wish'[c].id => Aim(k)' = Meant(c)'
        <2>1. Saves(k) /\ job[k].client = c /\ job'[k].id = job[k].id /\ Aim(k)' = Aim(k)
            BY <1>3
        <2> QED
            BY <2>1 DEF Answers, SavesAgree
    <1>4. ASSUME NEW r \in Refs', log'[r].id # 0
          PROVE  /\ log'[r].client \in Clients
                 /\ log'[r].expected # 0 => log'[r].after = log'[r].expected
                 /\ \A c \in Clients : log'[r].client = c =>
                       /\ log'[r].id <= wish'[c].id
                       /\ log'[r].id = wish'[c].id => Made(r)' = Meant(c)'
        <2>1. CASE r \in Refs
            BY <1>1, <1>4, <2>1 DEF Answers, SavesAgree
        <2>2. CASE r \notin Refs
            <3>1. PICK i \in Handlers :
                      /\ Saves(i) /\ log'[r].client = job[i].client /\ log'[r].id = job[i].id
                      /\ Made(r)' = Aim(i)
                      /\ log'[r].expected # 0 => log'[r].after = log'[r].expected
                BY <1>4, <2>2
            <3>2. job[i].client \in Clients /\ wish'[job[i].client].id = wish[job[i].client].id
                BY <1>2, <3>1
            <3>3. wish[job[i].client].id \in Nat
                BY <3>2 DEF Answers, WishTypes, Wishes
            <3>4. \A c \in Clients : c = job[i].client =>
                      /\ job[i].id <= wish[c].id
                      /\ job[i].id = wish[c].id => Aim(i) = Meant(c)
                BY <3>1, <3>3 DEF Answers, SavesAgree
            <3> QED
                BY <3>1, <3>2, <3>4
        <2> QED
            BY <2>1, <2>2
    <1>5. ASSUME NEW i \in Handlers, NEW k \in Handlers, Saves(i)', Saves(k)',
                 job'[i].client = job'[k].client, job'[i].id = job'[k].id
          PROVE  Aim(i)' = Aim(k)'
        <2>1. Aim(i)' = Aim(i) /\ Aim(k)' = Aim(k) /\ Aim(i) = Aim(k)
            BY <1>5 DEF Answers, SavesAgree
        <2> QED
            BY <2>1
    <1>6. ASSUME NEW i \in Handlers, NEW r \in Refs', Saves(i)',
                 log'[r].client = job'[i].client, log'[r].id = job'[i].id
          PROVE  Aim(i)' = Made(r)'
        <2>1. Saves(i) /\ Aim(i)' = Aim(i) /\ job'[i].client = job[i].client /\ job'[i].id = job[i].id
            BY <1>6
        <2>2. CASE r \in Refs
            BY <1>1, <1>6, <2>1, <2>2 DEF Answers, SavesAgree
        <2>3. CASE r \notin Refs
            <3>1. job[i].id # 0
                BY <1>2, <2>1 DEF Answers, SavesAgree
            <3>2. PICK k \in Handlers :
                      /\ Saves(k) /\ log'[r].client = job[k].client /\ log'[r].id = job[k].id
                      /\ Made(r)' = Aim(k)
                BY <1>6, <2>1, <2>3, <3>1
            <3>3. Aim(k) = Aim(i)
                BY <1>6, <2>1, <3>2 DEF Answers, SavesAgree
            <3> QED
                BY <2>1, <3>2, <3>3
        <2> QED
            BY <2>2, <2>3
    <1> QED
        BY <1>3, <1>4, <1>5, <1>6 DEF SavesAgree

-----------------------------------------------------------------------------
(***************************************************************************)
(* Requests.                                                               *)
(***************************************************************************)
\* A request as it comes in, before it has its client.
Fresh(j) ==
    /\ j \in Jobs /\ j.op # "none" /\ ~j.gone /\ j.answer = "none"
    /\ j.rows = {} /\ j.missing = {} /\ j.left = j.asked
    /\ j.op \in {"save", "read"} => IF j.ref = 0 THEN j.name \in Names ELSE j.ref \in Refs
    /\ j.op \notin {"save", "read"} => j.ref = 0
    /\ j.op # "save" => j.id = 0
    /\ j.op = "list" => j.asked \subseteq Filters
    /\ j.op = "delete" => j.asked \subseteq ByNames \/ j.asked \subseteq ByRefs

\* What a request that came in leaves true, and where it stands.
Entered(c, i, w, j) ==
    /\ Logged /\ LogTypes' /\ HeadsExist' /\ JobTypes' /\ OneEach' /\ Counts' /\ WrittenOnce'
    /\ \A k \in Handlers : Listing(k)' /\ Deleting(k)'
    /\ \A k \in Handlers \ {i} : Apart(k)
    /\ job'[i] = [j EXCEPT !.client = c, !.from = Len(log)]
    /\ h'[i].ws = w /\ log' = log /\ job[i].op = "none"

\* A request comes in: all but the saves.
LEMMA StartAnswers ==
    ASSUME Inv, Answers, NEW c \in Clients, NEW i \in Handlers, NEW via \in Vias,
           NEW w \in Workspaces, NEW j, Fresh(j), Ready(c, i), Start(c, i, via, w, j)
    PROVE  Entered(c, i, w, j)
    <1>1. /\ log' = log /\ faults' = faults /\ stops' = stops /\ requests' = requests + 1
          /\ job' = [job EXCEPT ![i] = [j EXCEPT !.client = c, !.from = Len(log)]]
          /\ At(i, "free") /\ requests < MaxRequests
          /\ \E p \in {"resolve", "lock", "failed"} :
                h' = [h EXCEPT ![i] = [pc |-> p, via |-> via, ws |-> w, repo |-> None]]
        BY DEF Start, Accept, Ready
    <1>2. Logged /\ Refs' = Refs
        BY <1>1, LoggedStays DEF Answers, Refs
    <1>3. /\ DOMAIN job = Handlers /\ DOMAIN h = Handlers /\ job \in [Handlers -> Jobs]
          /\ Len(log) \in Nat /\ None \notin Clients
        BY LogRefs, RequestsAssumption DEF Answers, JobTypes, Inv, EInv, EngineTypeOK
    <1>4. \A k \in Handlers \ {i} : Apart(k)
        BY <1>1, <1>3 DEF Apart, At
    <1>5. /\ job'[i] = [j EXCEPT !.client = c, !.from = Len(log)]
          /\ h'[i].ws = w /\ ~At(i, "free")' /\ job[i].op = "none"
        BY <1>1, <1>3 DEF At, Answers, JobTypes, Sound
    <1>6. job'[i] \in Jobs /\ job' \in [Handlers -> Jobs]
        BY <1>1, <1>3, <1>5 DEF Fresh, Jobs
    <1>7. /\ job'[i].op = j.op /\ job'[i].gone = j.gone /\ job'[i].answer = "none" /\ job'[i].rows = {}
          /\ job'[i].missing = {} /\ job'[i].left = j.asked /\ job'[i].asked = j.asked
          /\ job'[i].ref = j.ref /\ job'[i].name = j.name /\ job'[i].id = j.id
          /\ job'[i].client = c /\ job'[i].from = Len(log)
        BY <1>5 DEF Fresh, Jobs
    <1>8. ByRefs' = ByRefs /\ ByNames' = ByNames
        BY <1>2 DEF ByRefs, ByNames
    <1>9. Sound(i)'
        BY <1>1, <1>2, <1>3, <1>5, <1>7, <1>8 DEF Fresh, Sound
    <1>10. Listing(i)'
        BY <1>7 DEF Listing
    <1>11. Deleting(i)'
        <2>1. {r \in Refs' : r > job'[i].from /\ log'[r].by = i} = {}
            BY <1>1, <1>2, <1>7, LogRefs DEF Answers
        <2> QED
            BY <1>7, <2>1 DEF Deleting
    <1>12. JobTypes' /\ \A k \in Handlers : Listing(k)' /\ Deleting(k)'
        BY <1>2, <1>4, <1>6, <1>9, <1>10, <1>11, OneMoves
    <1>13. OneEach'
        <2>1. \A k \in Handlers \ {i} : job'[k] = job[k] /\ (job[k].client = c => job[k].gone)
            BY <1>4 DEF Apart, Ready, Waiting
        <2> QED
            BY <1>7, <2>1 DEF Answers, OneEach
    <1>14. Counts' /\ WrittenOnce'
        BY <1>1, <1>2, RequestsAssumption DEF Answers, Counts, WrittenOnce
    <1> QED
        BY <1>1, <1>2, <1>4, <1>5, <1>12, <1>13, <1>14 DEF Logged, Extended, Entered

\* A request that saves nothing.
LEMMA AskAnswers ==
    ASSUME Inv, Answers, NEW c \in Clients, NEW i \in Handlers, NEW via \in Vias,
           NEW w \in Workspaces, NEW j, Fresh(j), j.op # "save", Ready(c, i), Ask(c, i, via, w, j)
    PROVE  Answers'
    <1>1. wish' = wish /\ Start(c, i, via, w, j)
        BY DEF Ask
    <1>0. Entered(c, i, w, j)
        BY <1>1, StartAnswers
    <1>2. /\ Logged /\ log' = log /\ \A k \in Handlers \ {i} : Apart(k)
          /\ job'[i] = [j EXCEPT !.client = c, !.from = Len(log)]
        BY <1>0 DEF Entered
    <1>3. ~Saves(i)'
        BY <1>2 DEF Saves, Fresh, Jobs
    <1>4. \A k \in Handlers : Saves(k)' =>
              /\ Saves(k) /\ job'[k].client = job[k].client /\ job'[k].id = job[k].id
              /\ Aim(k)' = Aim(k)
        BY <1>2, <1>3, AimKept, Placed DEF Apart, Saves
    <1>5. SavesAgree' /\ WishTypes'
        <2>1. Refs' = Refs /\ \A d \in Clients : Meant(d)' = Meant(d)
            BY <1>1, <1>2 DEF Refs, Meant
        <2>2. SavesAgree'
            BY <1>1, <1>2, <1>4, <2>1, SavesKept
        <2> QED
            BY <1>1, <2>2 DEF Answers, WishTypes
    <1> QED
        BY <1>0, <1>5 DEF Answers, Entered

\* The jobs of listings and deletions.
LEMMA FreshJobs ==
    /\ NoJob \in Jobs
    /\ \A ps \in SUBSET Filters : Fresh(ListJob(ps)) /\ ListJob(ps).op = "list"
    /\ \A ss \in SUBSET ByNames : Fresh(DeleteJob(ss)) /\ DeleteJob(ss).op = "delete"
    /\ Refs \subseteq Nat => \A ss \in SUBSET ByRefs : Fresh(DeleteJob(ss)) /\ DeleteJob(ss).op = "delete"
    <1>1. NoJob \in Jobs
        BY DEF NoJob, Jobs
    <1>4. ASSUME NEW ps \in SUBSET Filters PROVE Fresh(ListJob(ps)) /\ ListJob(ps).op = "list"
        BY DEF NoJob, Jobs, Fresh, ListJob, Asks
    <1>5. ByNames \subseteq Asks /\ (Refs \subseteq Nat => ByRefs \subseteq Asks)
        BY DEF ByNames, ByRefs, Asks, Selectors
    <1>6. ASSUME NEW ss \in SUBSET ByNames PROVE Fresh(DeleteJob(ss)) /\ DeleteJob(ss).op = "delete"
        BY <1>5 DEF NoJob, Jobs, Fresh, DeleteJob
    <1>7. ASSUME Refs \subseteq Nat, NEW ss \in SUBSET ByRefs
          PROVE  Fresh(DeleteJob(ss)) /\ DeleteJob(ss).op = "delete"
        BY <1>5, <1>7 DEF NoJob, Jobs, Fresh, DeleteJob
    <1> QED
        BY <1>1, <1>4, <1>6, <1>7

\* A new save: the first of its number, about what the client means now.
LEMMA SubmitAnswers ==
    ASSUME Inv, Answers, NEW c \in Clients, NEW i \in Handlers, NEW via \in Vias,
           NEW w \in Workspaces, NEW n \in Names, NEW ref \in {0} \union Refs, NEW e \in Nat,
           ref # 0 => n = TodoName(log[ref].name),
           Ready(c, i), Submit(c, i, via, w, n, ref, e)
    PROVE  Answers'
    <1> DEFINE j == [NoJob EXCEPT !.op = "save", !.name = IF ref = 0 THEN n ELSE NoName,
                                  !.ref = ref, !.expected = e, !.id = wish'[c].id]
    <1>0. Refs \subseteq Nat /\ wish \in [Clients -> Wishes]
        BY LogRefs DEF Answers, WishTypes
    <1>1. /\ wish' = [wish EXCEPT ![c] = [open |-> TRUE, id |-> wish[c].id + 1, via |-> via,
                                           ws |-> w, name |-> n, expected |-> e]]
          /\ Start(c, i, via, w, j)
        BY <1>0 DEF Submit
    <1>2. /\ wish'[c] = [open |-> TRUE, id |-> wish[c].id + 1, via |-> via,
                         ws |-> w, name |-> n, expected |-> e]
          /\ \A d \in Clients \ {c} : wish'[d] = wish[d]
          /\ wish[c].id \in Nat
        BY <1>0, <1>1 DEF Wishes
    <1>3. WishTypes'
        <2>1. wish'[c] \in Wishes
            BY <1>2 DEF Wishes
        <2> QED
            BY <1>0, <1>1, <1>2, <2>1 DEF WishTypes, Answers
    <1>4. /\ j.op = "save" /\ j.ref = ref /\ j.expected = e /\ j.id = wish[c].id + 1
          /\ j.name = IF ref = 0 THEN n ELSE NoName
          /\ Fresh(j)
        <2>1. wish'[c].id = wish[c].id + 1 /\ wish'[c].id \in Nat /\ ref \in Nat
            BY <1>0, <1>2
        <2>2. /\ j.op = "save" /\ j.ref = ref /\ j.expected = e /\ j.id = wish'[c].id
              /\ j.name = IF ref = 0 THEN n ELSE NoName
              /\ ~j.gone /\ j.answer = "none" /\ j.rows = {} /\ j.missing = {} /\ j.left = j.asked
            BY DEF NoJob
        <2>3. j \in Jobs
            BY <2>1 DEF NoJob, Jobs
        <2> QED
            BY <2>1, <2>2, <2>3 DEF Fresh
    <1> HIDE DEF j
    <1>5. Entered(c, i, w, j)
        BY <1>1, <1>4, StartAnswers
    <1>6. /\ Logged /\ log' = log /\ Refs' = Refs /\ \A k \in Handlers \ {i} : Apart(k)
          /\ job'[i] = [j EXCEPT !.client = c, !.from = Len(log)] /\ h'[i].ws = w
        BY <1>5 DEF Entered, Refs
    <1>7. /\ Saves(i)' /\ job'[i].client = c /\ job'[i].id = wish[c].id + 1
          /\ job'[i].ref = ref /\ job'[i].expected = e /\ job'[i].name = IF ref = 0 THEN n ELSE NoName
        BY <1>4, <1>6 DEF Saves, Fresh, Jobs
    <1>8. Aim(i)' = Meant(c)'
        BY <1>2, <1>6, <1>7 DEF Aim, Meant
    <1>9. \A k \in Handlers \ {i} : Saves(k)' =>
              /\ Saves(k) /\ job'[k].client = job[k].client /\ job'[k].id = job[k].id
              /\ Aim(k)' = Aim(k) /\ job[k].client \in Clients /\ job[k].id \in Nat
        BY <1>6, AimKept, Placed DEF Apart, Saves, Sound, Jobs
    <1>10. \A d \in Clients \ {c} : wish'[d].id = wish[d].id /\ Meant(d)' = Meant(d)
        BY <1>2 DEF Meant
    <1>11. \A r \in Refs : Made(r)' = Made(r) /\ log[r] \in Versions
        BY <1>6, LogRefs DEF Made, Answers
    <1>12. SavesAgree'
        <2>1. ASSUME NEW d \in Clients, NEW k \in Handlers, Saves(k)', job'[k].client = d
              PROVE  /\ job'[k].id \in 1 .. wish'[d].id
                     /\ job'[k].id = wish'[d].id => Aim(k)' = Meant(d)'
            <3>1. CASE k = i
                BY <1>2, <1>7, <1>8, <2>1, <3>1
            <3>2. CASE k # i /\ d = c
                <4>1. Saves(k) /\ job[k].client = c /\ job'[k].id = job[k].id /\ job[k].id \in 1 .. wish[c].id
                    BY <1>9, <2>1, <3>2 DEF Answers, SavesAgree
                <4> QED
                    BY <1>2, <3>2, <4>1
            <3>3. CASE k # i /\ d # c
                BY <1>9, <1>10, <2>1, <3>3 DEF Answers, SavesAgree
            <3> QED
                BY <3>1, <3>2, <3>3
        <2>2. ASSUME NEW d \in Clients, NEW r \in Refs', log'[r].id # 0, log'[r].client = d
              PROVE  /\ log'[r].id <= wish'[d].id
                     /\ log'[r].id = wish'[d].id => Made(r)' = Meant(d)'
            <3>1. log[r].id # 0 /\ log[r].client = d /\ log[r].id <= wish[d].id /\ log[r].id \in Nat
                BY <1>6, <1>11, <2>2 DEF Answers, SavesAgree, Versions
            <3>2. CASE d = c
                BY <1>2, <1>6, <3>1, <3>2
            <3>3. CASE d # c
                BY <1>6, <1>10, <1>11, <3>1, <3>3 DEF Answers, SavesAgree
            <3> QED
                BY <3>2, <3>3
        <2>3. \A r \in Refs' : log'[r].id # 0 =>
                  /\ log'[r].client \in Clients
                  /\ log'[r].expected # 0 => log'[r].after = log'[r].expected
            BY <1>6 DEF Answers, SavesAgree
        <2>4. ASSUME NEW k \in Handlers \ {i}, Saves(k)', job'[k].client = c PROVE job'[k].id # job'[i].id
            <3>1. Saves(k) /\ job[k].client = c /\ job'[k].id = job[k].id /\ job[k].id \in 1 .. wish[c].id
                BY <1>9, <2>4 DEF Answers, SavesAgree
            <3> QED
                BY <1>2, <1>7, <3>1
        <2>5. ASSUME NEW k \in Handlers, NEW l \in Handlers, Saves(k)', Saves(l)',
                     job'[k].client = job'[l].client, job'[k].id = job'[l].id
              PROVE  Aim(k)' = Aim(l)'
            <3>1. CASE k = i \/ l = i
                BY <1>7, <2>4, <2>5, <3>1
            <3>2. CASE k # i /\ l # i
                <4>1. Aim(k)' = Aim(k) /\ Aim(l)' = Aim(l) /\ Aim(k) = Aim(l)
                    BY <1>9, <2>5, <3>2 DEF Answers, SavesAgree
                <4> QED
                    BY <4>1
            <3> QED
                BY <3>1, <3>2
        <2>6. ASSUME NEW k \in Handlers, NEW r \in Refs', Saves(k)',
                     log'[r].client = job'[k].client, log'[r].id = job'[k].id
              PROVE  Aim(k)' = Made(r)'
            <3>1. CASE k = i
                <4>1. log[r].id = wish[c].id + 1 /\ log[r].client = c
                    BY <1>6, <1>7, <2>6, <3>1
                <4>2. log[r].id <= wish[c].id
                    BY <1>2, <1>6, <4>1 DEF Answers, SavesAgree
                <4> QED
                    BY <1>2, <4>1, <4>2
            <3>2. CASE k # i
                BY <1>6, <1>9, <1>11, <2>6, <3>2 DEF Answers, SavesAgree
            <3> QED
                BY <3>1, <3>2
        <2> QED
            BY <2>1, <2>2, <2>3, <2>5, <2>6 DEF SavesAgree
    <1> QED
        BY <1>3, <1>5, <1>12 DEF Entered, Answers

\* A save that is made again: it is about what it was about before.
LEMMA RetryAnswers ==
    ASSUME Inv, Answers, NEW c \in Clients, NEW i \in Handlers, Ready(c, i), Retry(c, i)
    PROVE  Answers'
    <1> DEFINE j == [NoJob EXCEPT !.op = "save", !.name = wish[c].name,
                                  !.expected = wish[c].expected, !.id = wish[c].id]
    <1>0. wish \in [Clients -> Wishes] /\ wish[c] \in Wishes /\ wish[c].open
          /\ wish[c].ws \in Workspaces /\ wish[c].name \in Names /\ wish[c].via \in Vias
        BY DEF Answers, WishTypes, Retry, Wishes
    <1>1. wish' = wish /\ Start(c, i, wish[c].via, wish[c].ws, j)
        BY DEF Retry
    <1>2. /\ j.op = "save" /\ j.ref = 0 /\ j.expected = wish[c].expected /\ j.id = wish[c].id
          /\ j.name = wish[c].name /\ Fresh(j)
        BY <1>0 DEF NoJob, Jobs, Fresh, Wishes
    <1> HIDE DEF j
    <1>3. Entered(c, i, wish[c].ws, j)
        BY <1>0, <1>1, <1>2, StartAnswers
    <1>4. /\ Logged /\ log' = log /\ Refs' = Refs /\ \A k \in Handlers \ {i} : Apart(k)
          /\ job'[i] = [j EXCEPT !.client = c, !.from = Len(log)] /\ h'[i].ws = wish[c].ws
        BY <1>3 DEF Entered, Refs
    <1>5. /\ Saves(i)' /\ job'[i].client = c /\ job'[i].id = wish[c].id /\ Aim(i)' = Meant(c)
        BY <1>2, <1>4 DEF Saves, Fresh, Jobs, Aim, Meant
    <1>6. \A k \in Handlers \ {i} : Saves(k)' =>
              /\ Saves(k) /\ job'[k].client = job[k].client /\ job'[k].id = job[k].id
              /\ Aim(k)' = Aim(k) /\ job[k].client \in Clients
        BY <1>4, AimKept, Placed DEF Apart, Saves, Sound
    <1>7. \A d \in Clients : wish'[d].id = wish[d].id /\ Meant(d)' = Meant(d)
        BY <1>1 DEF Meant
    <1>8. \A r \in Refs : Made(r)' = Made(r)
        BY <1>4 DEF Made
    <1>9. wish[c].id \in Nat \ {0}
        BY <1>0 DEF Answers, WishTypes, Wishes
    <1>10. SavesAgree'
        <2>1. ASSUME NEW d \in Clients, NEW k \in Handlers, Saves(k)', job'[k].client = d
              PROVE  /\ job'[k].id \in 1 .. wish'[d].id
                     /\ job'[k].id = wish'[d].id => Aim(k)' = Meant(d)'
            <3>1. CASE k = i
                BY <1>1, <1>5, <1>7, <1>9, <2>1, <3>1
            <3>2. CASE k # i
                BY <1>6, <1>7, <2>1, <3>2 DEF Answers, SavesAgree
            <3> QED
                BY <3>1, <3>2
        <2>2. \A d \in Clients, r \in Refs' : log'[r].id # 0 /\ log'[r].client = d =>
                  /\ log'[r].id <= wish'[d].id
                  /\ log'[r].id = wish'[d].id => Made(r)' = Meant(d)'
            BY <1>4, <1>7, <1>8 DEF Answers, SavesAgree
        <2>3. \A r \in Refs' : log'[r].id # 0 =>
                  /\ log'[r].client \in Clients
                  /\ log'[r].expected # 0 => log'[r].after = log'[r].expected
            BY <1>4 DEF Answers, SavesAgree
        <2>4. ASSUME NEW k \in Handlers \ {i}, Saves(k)', job'[k].client = c, job'[k].id = wish[c].id
              PROVE  Aim(k)' = Meant(c)
            BY <1>6, <2>4 DEF Answers, SavesAgree
        <2>5. ASSUME NEW k \in Handlers, NEW l \in Handlers, Saves(k)', Saves(l)',
                     job'[k].client = job'[l].client, job'[k].id = job'[l].id
              PROVE  Aim(k)' = Aim(l)'
            <3>1. CASE k = i \/ l = i
                BY <1>5, <2>4, <2>5, <3>1
            <3>2. CASE k # i /\ l # i
                <4>1. Aim(k)' = Aim(k) /\ Aim(l)' = Aim(l) /\ Aim(k) = Aim(l)
                    BY <1>6, <2>5, <3>2 DEF Answers, SavesAgree
                <4> QED
                    BY <4>1
            <3> QED
                BY <3>1, <3>2
        <2>6. ASSUME NEW k \in Handlers, NEW r \in Refs', Saves(k)',
                     log'[r].client = job'[k].client, log'[r].id = job'[k].id
              PROVE  Aim(k)' = Made(r)'
            <3>1. CASE k = i
                <4>1. log[r].client = c /\ log[r].id = wish[c].id /\ r \in Refs
                    BY <1>4, <1>5, <2>6, <3>1
                <4>2. Made(r) = Meant(c)
                    BY <1>9, <4>1 DEF Answers, SavesAgree
                <4> QED
                    BY <1>5, <1>8, <3>1, <4>1, <4>2
            <3>2. CASE k # i
                BY <1>4, <1>6, <1>8, <2>6, <3>2 DEF Answers, SavesAgree
            <3> QED
                BY <3>1, <3>2
        <2> QED
            BY <2>1, <2>2, <2>3, <2>5, <2>6 DEF SavesAgree
    <1>11. WishTypes'
        BY <1>1 DEF Answers, WishTypes
    <1> QED
        BY <1>3, <1>10, <1>11 DEF Entered, Answers

\* Every request.
LEMMA RequestAnswers ==
    ASSUME Inv, Answers, NEW c \in Clients, NEW i \in Handlers, Request(c, i)
    PROVE  Answers'
    <1>0. /\ Refs \subseteq Nat \ {0} /\ Ready(c, i) /\ "api" \in Vias /\ "web" \in Vias
          /\ \A r \in Refs : log[r] \in Versions
        BY LogRefs DEF Answers, Request, Vias
    <1>1. CASE SaveTool(c, i)
        BY <1>0, <1>1, SubmitAnswers DEF SaveTool
    <1>2. CASE Put(c, i)
        BY <1>0, <1>2, SubmitAnswers DEF Put, VersionsOf
    <1>3. CASE WriteTodo(c, i)
        BY <1>0, <1>3, SubmitAnswers DEF WriteTodo, VersionsOf, BaseRefs
    <1>4. CASE InsertForm(c, i)
        BY <1>0, <1>4, SubmitAnswers DEF InsertForm
    <1>5. CASE Retry(c, i)
        BY <1>0, <1>5, RetryAnswers
    <1>7. CASE Get(c, i)
        <2>1. PICK w \in Workspaces, n \in Names : Ask(c, i, "api", w, [NoJob EXCEPT !.op = "read", !.name = n])
            BY <1>7 DEF Get
        <2>2. PICK j : j = [NoJob EXCEPT !.op = "read", !.name = n]
            OBVIOUS
        <2>3. Fresh(j) /\ j.op # "save"
            BY <1>0, <2>2 DEF NoJob, Jobs, Fresh
        <2> QED
            BY <1>0, <2>1, <2>2, <2>3, AskAnswers
    <1>8. CASE ReadTodo(c, i)
        <2>1. PICK w \in Workspaces, r \in Refs : Ask(c, i, "api", w, [NoJob EXCEPT !.op = "read", !.ref = r])
            BY <1>8 DEF ReadTodo, BaseRefs
        <2>2. PICK j : j = [NoJob EXCEPT !.op = "read", !.ref = r]
            OBVIOUS
        <2>3. Fresh(j) /\ j.op # "save"
            BY <1>0, <2>2 DEF NoJob, Jobs, Fresh
        <2> QED
            BY <1>0, <2>1, <2>2, <2>3, AskAnswers
    <1>9. CASE Content(c, i)
        <2>1. PICK w \in Workspaces, n \in Names : Ask(c, i, "web", w, [NoJob EXCEPT !.op = "read", !.name = n])
            BY <1>9 DEF Content
        <2>2. PICK j : j = [NoJob EXCEPT !.op = "read", !.name = n]
            OBVIOUS
        <2>3. Fresh(j) /\ j.op # "save"
            BY <1>0, <2>2 DEF NoJob, Jobs, Fresh
        <2> QED
            BY <1>0, <2>1, <2>2, <2>3, AskAnswers
    <1>10. \A ps \in SUBSET Filters : Fresh(ListJob(ps)) /\ ListJob(ps).op # "save"
        BY FreshJobs
    <1>11. CASE ListTool(c, i)
        <2>1. PICK w \in Workspaces, p \in Filters : Ask(c, i, "api", w, ListJob({p}))
            BY <1>11 DEF ListTool
        <2>2. {p} \in SUBSET Filters
            OBVIOUS
        <2> QED
            BY <1>0, <1>10, <2>1, <2>2, AskAnswers
    <1>12. CASE ListPage(c, i)
        BY <1>0, <1>10, <1>12, AskAnswers DEF ListPage
    <1>13. \A ss \in (SUBSET ByNames) \union (SUBSET ByRefs) :
               Fresh(DeleteJob(ss)) /\ DeleteJob(ss).op # "save"
        BY <1>0, FreshJobs
    <1>14. CASE DeleteTool(c, i)
        <2>1. PICK w \in Workspaces, s \in ByNames \union ByRefs : Ask(c, i, "api", w, DeleteJob({s}))
            BY <1>14 DEF DeleteTool
        <2>2. {s} \in (SUBSET ByNames) \union (SUBSET ByRefs)
            OBVIOUS
        <2> QED
            BY <1>0, <1>13, <2>1, <2>2, AskAnswers
    <1>15. CASE DeleteBatch(c, i)
        <2>1. PICK w \in Workspaces, ss \in (SUBSET ByNames) \union (SUBSET ByRefs) :
                  Ask(c, i, "web", w, DeleteJob(ss))
            BY <1>15 DEF DeleteBatch
        <2>2. Fresh(DeleteJob(ss)) /\ DeleteJob(ss).op # "save"
            BY <1>13
        <2> QED
            BY <1>0, <2>1, <2>2, AskAnswers
    <1> QED
        BY <1>1, <1>2, <1>3, <1>4, <1>5, <1>7, <1>8, <1>9, <1>11, <1>12, <1>14, <1>15 DEF Request

-----------------------------------------------------------------------------
(***************************************************************************)
(* Steps that leave the requests where they are, and those that end them.  *)
(***************************************************************************)
\* What clients mean is not changed but by new saves.
SameMeaning == \A c \in Clients : wish'[c].id = wish[c].id /\ Meant(c)' = Meant(c)

\* No request changes.
LEMMA QuietAnswers ==
    ASSUME Inv, Answers, UNCHANGED <<log, job>>, \A k \in Handlers : Apart(k),
           WishTypes', SameMeaning, Counts'
    PROVE  Answers'
    <1>1. Logged /\ Refs' = Refs
        BY NoneMoves DEF Refs
    <1>2. \A k \in Handlers : Saves(k)' =>
              /\ Saves(k) /\ job'[k].client = job[k].client /\ job'[k].id = job[k].id
              /\ Aim(k)' = Aim(k)
        BY <1>1, AimKept, Placed DEF Saves
    <1>3. SavesAgree'
        BY <1>1, <1>2, SavesKept DEF SameMeaning
    <1> QED
        BY <1>3, NoneMoves DEF Answers

\* The workspace is being resolved.
LEMMA ResolveAnswers ==
    ASSUME Inv, Answers, NEW i \in Handlers,
           \/ Resolve(i) /\ UNCHANGED clients
           \/ Unresolved(i)
    PROVE  Answers'
    <1>1. /\ UNCHANGED <<log, job, wish, requests>> /\ stops' = stops
          /\ faults' = faults \/ (Trouble /\ faults' = faults + 1)
        BY DEF Resolve, LockWeb, Lookup, OpenRepo, Insert, Cache, Unresolved, ResolveFails, clients, Up
    <1>2. \A k \in Handlers \ {i} : h'[k] = h[k]
        BY DEF Resolve, LockWeb, Lookup, OpenRepo, Insert, Cache, Unresolved, ResolveFails, Go,
               Inv, EInv, EngineTypeOK
    <1>3. h'[i].ws = h[i].ws /\ h[i].pc # "free" /\ h'[i].pc # "free"
        <2>0. DOMAIN h = Handlers /\ \A k \in Handlers : DOMAIN h[k] = {"pc", "via", "ws", "repo"}
            BY DEF Inv, EInv, EngineTypeOK
        <2>1. CASE LockWeb(i)
            BY <2>0, <2>1 DEF LockWeb, Go, At, Resolved
        <2>2. CASE Lookup(i)
            BY <2>0, <2>2 DEF Lookup, Go, At, Resolved
        <2>3. CASE OpenRepo(i)
            BY <2>0, <2>3 DEF OpenRepo, Go, At, Resolved
        <2>4. CASE Insert(i)
            BY <2>0, <2>4 DEF Insert, Go, At, Resolved
        <2>5. CASE Cache(i)
            BY <2>0, <2>5 DEF Cache, Go, At, Resolved
        <2>6. CASE ResolveFails(i)
            BY <2>0, <2>6 DEF ResolveFails, Go, At, Resolved
        <2> QED
            BY <2>1, <2>2, <2>3, <2>4, <2>5, <2>6 DEF Resolve, Unresolved
    <1>4. \A k \in Handlers : Apart(k)
        BY <1>1, <1>2, <1>3 DEF Apart, At
    <1>5. Counts'
        BY <1>1, RequestsAssumption DEF Answers, Counts, Trouble, Inv, EInv, EngineTypeOK
    <1>6. WishTypes' /\ SameMeaning
        BY <1>1 DEF Answers, WishTypes, SameMeaning, Meant
    <1> QED
        BY <1>1, <1>4, <1>5, <1>6, QuietAnswers

\* A client gives up, the daemon stops or starts.
LEMMA OthersAnswers ==
    ASSUME Inv, Answers, (\E c \in Clients : GiveUpWish(c)) \/ (Daemon /\ UNCHANGED clients)
    PROVE  Answers'
    <1>1. UNCHANGED <<log, job, h, requests, faults>>
        BY DEF GiveUpWish, engine, Daemon, BeginStop, CloseWeb, CloseEngine, Restart, clients
    <1>2. \A k \in Handlers : Apart(k)
        BY <1>1 DEF Apart, At
    <1>3. stops' = stops \/ (Trouble /\ stops' = stops + 1)
        BY DEF GiveUpWish, engine, Daemon, BeginStop, CloseWeb, CloseEngine, Restart
    <1>4. Counts'
        BY <1>1, <1>3, RequestsAssumption DEF Answers, Counts, Trouble, Inv, EInv, EngineTypeOK
    <1>5. WishTypes' /\ SameMeaning
        <2>1. CASE \E c \in Clients : GiveUpWish(c)
            <3>1. PICK c \in Clients : wish' = [wish EXCEPT ![c].open = FALSE]
                BY <2>1 DEF GiveUpWish
            <3>2. wish \in [Clients -> Wishes]
                BY DEF Answers, WishTypes
            <3>3. /\ wish' \in [Clients -> Wishes]
                  /\ \A d \in Clients :
                        /\ wish'[d].id = wish[d].id /\ wish'[d].ws = wish[d].ws
                        /\ wish'[d].name = wish[d].name /\ wish'[d].expected = wish[d].expected
                        /\ wish'[d].open => wish[d].open
                BY <3>1, <3>2 DEF Wishes
            <3> QED
                BY <3>3 DEF Answers, WishTypes, SameMeaning, Meant
        <2>2. CASE Daemon /\ UNCHANGED clients
            BY <2>2 DEF Answers, WishTypes, SameMeaning, Meant, clients
        <2> QED
            BY <2>1, <2>2
    <1> QED
        BY <1>1, <1>2, <1>4, <1>5, QuietAnswers

\* Requests end: their handlers have none any more.
LEMMA EndedAnswers ==
    ASSUME Inv, Answers, log' = log, job' \in [Handlers -> Jobs],
           \A k \in Handlers : Apart(k) \/ (job'[k] = NoJob /\ At(k, "free")'),
           WishTypes', SameMeaning, Counts'
    PROVE  Answers'
    <1>1. Logged /\ Refs' = Refs
        BY LoggedStays DEF Answers, Refs
    <1>2. /\ NoJob.op = "none" /\ NoJob.client = None /\ NoJob.left = {} /\ NoJob.asked = {}
          /\ NoJob.ref = 0 /\ NoJob.missing = {} /\ NoJob.rows = {} /\ NoJob.from = 0 /\ NoJob.id = 0 /\ ~NoJob.gone
        BY DEF NoJob
    <1>3. Len(log') \in Nat /\ log' = log
        BY LogRefs DEF Answers
    <1>4. ASSUME NEW k \in Handlers PROVE Sound(k)' /\ Listing(k)' /\ Deleting(k)'
        <2>1. CASE Apart(k)
            BY <1>1, <2>1, Placed, SoundKept, ListingKept, DeletingKept
        <2>2. CASE job'[k] = NoJob /\ At(k, "free")'
            BY <1>2, <1>3, <2>2 DEF Sound, Listing, Deleting
        <2> QED
            BY <2>1, <2>2
    <1>5. \A k \in Handlers : Saves(k)' => Apart(k) /\ Saves(k)
        BY <1>2 DEF Saves, Apart
    <1>6. \A k \in Handlers : Saves(k)' =>
              /\ Saves(k) /\ job'[k].client = job[k].client /\ job'[k].id = job[k].id
              /\ Aim(k)' = Aim(k)
        BY <1>1, <1>5, AimKept, Placed DEF Apart
    <1>7. SavesAgree'
        BY <1>1, <1>6, SavesKept DEF SameMeaning
    <1>8. OneEach'
        BY <1>2 DEF Answers, OneEach, Apart
    <1>9. WrittenOnce'
        BY <1>1, <1>3 DEF Answers, WrittenOnce
    <1> QED
        BY <1>1, <1>4, <1>7, <1>8, <1>9 DEF Answers, JobTypes, Logged, Extended

\* The answer goes out.
LEMMA ReplyAnswers ==
    ASSUME Inv, Answers, NEW i \in Handlers, Reply(i) PROVE Answers'
    <1>1. /\ log' = log /\ job' = [job EXCEPT ![i] = NoJob] /\ h' = [h EXCEPT ![i] = Free]
          /\ UNCHANGED <<requests, faults, stops>>
          /\ wish' = wish \/ wish' = [wish EXCEPT ![job[i].client].open = FALSE]
        BY DEF Reply, Leave
    <1>2. job \in [Handlers -> Jobs] /\ DOMAIN h = Handlers /\ wish \in [Clients -> Wishes]
        BY DEF Answers, JobTypes, WishTypes, Inv, EInv, EngineTypeOK
    <1>3. NoJob \in Jobs
        BY FreshJobs
    <1>4. job' \in [Handlers -> Jobs] /\ \A k \in Handlers : Apart(k) \/ (job'[k] = NoJob /\ At(k, "free")')
        BY <1>1, <1>2, <1>3 DEF Apart, At, Free
    <1>5. /\ wish' \in [Clients -> Wishes]
          /\ \A d \in Clients :
                /\ wish'[d].id = wish[d].id /\ wish'[d].ws = wish[d].ws
                /\ wish'[d].name = wish[d].name /\ wish'[d].expected = wish[d].expected
                /\ wish'[d].open => wish[d].open
        <2>1. CASE wish' = wish
            BY <1>2, <2>1
        <2>2. CASE wish' = [wish EXCEPT ![job[i].client].open = FALSE]
            BY <1>2, <2>2 DEF Wishes
        <2> QED
            BY <1>1, <2>1, <2>2
    <1>6. WishTypes' /\ SameMeaning
        BY <1>5 DEF Answers, WishTypes, SameMeaning, Meant
    <1>7. Counts'
        BY <1>1 DEF Answers, Counts
    <1> QED
        BY <1>1, <1>4, <1>6, <1>7, EndedAnswers

\* The daemon is gone, and all requests with it.
LEMMA EndsAnswers ==
    ASSUME Inv, Answers, Ends PROVE Answers'
    <1>1. /\ log' = log /\ job' = [i \in Handlers |-> NoJob] /\ h' = [i \in Handlers |-> Free]
          /\ UNCHANGED <<wish, requests, faults>>
          /\ stops' = stops \/ (Trouble /\ stops' = stops + 1)
        BY DEF Ends, Exit, Crash, Vanish
    <1>2. NoJob \in Jobs
        BY FreshJobs
    <1>3. job' \in [Handlers -> Jobs] /\ \A k \in Handlers : job'[k] = NoJob /\ At(k, "free")'
        BY <1>1, <1>2 DEF At, Free
    <1>4. WishTypes' /\ SameMeaning
        BY <1>1 DEF Answers, WishTypes, SameMeaning, Meant
    <1>5. Counts'
        BY <1>1, RequestsAssumption DEF Answers, Counts, Trouble, Inv, EInv, EngineTypeOK
    <1> QED
        BY <1>1, <1>3, <1>4, <1>5, EndedAnswers

-----------------------------------------------------------------------------
(***************************************************************************)
(* The calls of the store.                                                 *)
(***************************************************************************)
\* A request that is being worked on.
LEMMA AtWork ==
    ASSUME Inv, Answers, NEW i \in Handlers, Working(i)
    PROVE  /\ job[i].op # "none" /\ job[i].answer = "none" /\ h[i].ws \in Workspaces
           /\ Sound(i) /\ job[i] \in Jobs /\ job \in [Handlers -> Jobs]
           /\ Listing(i) /\ Deleting(i)
    BY Placed DEF Working, Answers, JobTypes, Sound, At

\* The request of one handler goes on, and the log stays.
LEMMA JobAnswers ==
    ASSUME Inv, Answers, NEW i \in Handlers, UNCHANGED <<log, wish>>,
           job' \in [Handlers -> Jobs], \A k \in Handlers \ {i} : Apart(k),
           Sound(i)', Listing(i)', Deleting(i)', Counts',
           job'[i].client = job[i].client, job[i].gone => job'[i].gone,
           Saves(i)' => Saves(i) /\ job'[i].id = job[i].id /\ Aim(i)' = Aim(i)
    PROVE  Answers'
    <1>1. Logged /\ Refs' = Refs
        BY LoggedStays DEF Answers, Refs
    <1>2. JobTypes' /\ \A k \in Handlers : Listing(k)' /\ Deleting(k)'
        BY <1>1, OneMoves
    <1>3. \A k \in Handlers : Saves(k)' =>
              /\ Saves(k) /\ job'[k].client = job[k].client /\ job'[k].id = job[k].id
              /\ Aim(k)' = Aim(k)
        BY <1>1, AimKept, Placed DEF Apart, Saves
    <1>4. \A c \in Clients : wish'[c].id = wish[c].id /\ Meant(c)' = Meant(c)
        BY DEF Meant
    <1>5. SavesAgree'
        BY <1>1, <1>3, <1>4, SavesKept
    <1>6. OneEach'
        BY DEF Answers, OneEach, Apart
    <1>7. WrittenOnce' /\ WishTypes'
        BY <1>1 DEF Answers, WrittenOnce, WishTypes
    <1> QED
        BY <1>1, <1>2, <1>5, <1>6, <1>7 DEF Answers, Logged, Extended

\* Only the answer of a request changes, or that its client has gone.
LEMMA MarkAnswers ==
    ASSUME Inv, Answers, NEW i \in Handlers, UNCHANGED <<log, wish, h>>,
           NEW a \in {"none", "ok", "notfound", "conflict", "error"}, NEW g \in BOOLEAN,
           job[i].op # "none", job[i].gone => g,
           \/ a \in {job[i].answer, "error"}
           \/ job[i].op = "save",
           job' = [job EXCEPT ![i] = [job[i] EXCEPT !.answer = a, !.gone = g]], Counts'
    PROVE  Answers'
    <1>1. Logged /\ Refs' = Refs /\ log' = log
        BY LoggedStays DEF Answers, Refs
    <1>2. /\ job \in [Handlers -> Jobs] /\ job[i] \in Jobs /\ Sound(i) /\ Listing(i) /\ Deleting(i)
          /\ h[i].ws \in Workspaces
        BY Placed DEF Answers, JobTypes
    <1>3. /\ job'[i] = [job[i] EXCEPT !.answer = a, !.gone = g]
          /\ \A k \in Handlers \ {i} : Apart(k)
        BY <1>2 DEF Apart, At
    <1>4. /\ job'[i].op = job[i].op /\ job'[i].client = job[i].client /\ job'[i].gone = g
          /\ job'[i].name = job[i].name /\ job'[i].ref = job[i].ref /\ job'[i].id = job[i].id
          /\ job'[i].expected = job[i].expected /\ job'[i].asked = job[i].asked
          /\ job'[i].left = job[i].left /\ job'[i].rows = job[i].rows
          /\ job'[i].missing = job[i].missing /\ job'[i].from = job[i].from /\ job'[i].answer = a
          /\ job'[i] \in Jobs
        BY <1>2, <1>3 DEF Jobs
    <1>5. job' \in [Handlers -> Jobs]
        BY <1>2, <1>4
    <1>6. h'[i].ws = h[i].ws /\ At(i, "free")' = At(i, "free")
        BY DEF At
    <1>7. Sound(i)'
        <2>1. ByRefs' = ByRefs /\ ByNames' = ByNames
            BY <1>1 DEF ByRefs, ByNames
        <2> QED
            BY <1>1, <1>2, <1>4, <1>6, <2>1 DEF Sound
    <1>8. Listing(i)'
        <2>1. job[i].rows \subseteq Refs /\ job[i].from <= Len(log)
            BY <1>2 DEF Sound
        <2>2. \A r \in job[i].rows : Current(i, r) => Current(i, r)'
            BY <1>1, <1>2, <1>4, <1>6, <2>1, CurrentKept
        <2>3. \A n \in Names : Shown(i, n) => Shown(i, n)'
            BY <1>1, <1>2, <1>4, <1>6, <2>1, ShownKept
        <2>4. job[i].op = "list" => \A p \in job[i].asked : p \subseteq Names
            BY <1>2 DEF Sound, Filters
        <2>5. job[i].op = "read" /\ job[i].ref = 0 => job[i].name \in Names
            BY <1>2 DEF Sound
        <2> QED
            BY <1>2, <1>4, <2>2, <2>3, <2>4, <2>5 DEF Listing
    <1>9. Deleting(i)'
        <2>1. CASE job[i].op # "delete"
            BY <1>4, <2>1 DEF Deleting
        <2>2. CASE job[i].op = "delete"
            <3>1. \A r, s : Hits(s, r)' <=> Hits(s, r)
                BY <1>1 DEF Hits
            <3>2. \A s \in job[i].missing : s \in ByNames \union ByRefs /\ job[i].from <= Len(log)
                BY <1>2, <2>2 DEF Sound
            <3>3. \A s \in job[i].missing : Missed(i, s) => Missed(i, s)'
                BY <1>1, <1>2, <1>4, <1>6, <3>2, MissedKept
            <3> QED
                BY <1>1, <1>2, <1>4, <2>2, <3>1, <3>3 DEF Deleting
        <2> QED
            BY <2>1, <2>2
    <1>10. Saves(i)' => Saves(i) /\ job'[i].id = job[i].id /\ Aim(i)' = Aim(i)
        BY <1>1, <1>4, <1>6 DEF Saves, Aim
    <1> QED
        BY <1>3, <1>4, <1>5, <1>7, <1>8, <1>9, <1>10, JobAnswers

\* An error ends a request; a client goes.
LEMMA MarksAnswer ==
    ASSUME Inv, Answers, NEW i \in Handlers, CallFails(i) \/ Abandon(i) PROVE Answers'
    <1>1. /\ UNCHANGED <<log, wish, h, requests, stops>> /\ job[i] \in Jobs /\ job[i].op # "none"
          /\ faults' = faults \/ (Trouble /\ faults' = faults + 1)
        BY AtWork, Placed DEF CallFails, Abandon, engine, Fault
    <1>2. Counts'
        BY <1>1, RequestsAssumption DEF Answers, Counts, Trouble, Inv, EInv, EngineTypeOK
    <1>3. CASE CallFails(i)
        <2>1. job' = [job EXCEPT ![i] = [job[i] EXCEPT !.answer = "error", !.gone = job[i].gone]]
            <3>1. [job[i] EXCEPT !.answer = "error"] = [job[i] EXCEPT !.answer = "error", !.gone = job[i].gone]
                BY <1>1 DEF Jobs
            <3>2. DOMAIN job = Handlers
                BY DEF Answers, JobTypes
            <3>3. job' = [job EXCEPT ![i] = [job[i] EXCEPT !.answer = "error"]]
                BY <1>3, <3>2 DEF CallFails, Stopped
            <3> QED
                BY <3>1, <3>3
        <2>2. job[i].gone \in BOOLEAN
            BY <1>1 DEF Jobs
        <2> QED
            BY <1>1, <1>2, <2>1, <2>2, MarkAnswers
    <1>4. CASE Abandon(i)
        <2>1. job' = [job EXCEPT ![i] = [job[i] EXCEPT !.answer = job[i].answer, !.gone = TRUE]]
            <3>1. [job[i] EXCEPT !.gone = TRUE] = [job[i] EXCEPT !.answer = job[i].answer, !.gone = TRUE]
                BY <1>1 DEF Jobs
            <3>2. job' = [job EXCEPT ![i] = [job[i] EXCEPT !.gone = TRUE]]
                BY <1>4 DEF Abandon, Answers, JobTypes
            <3> QED
                BY <3>1, <3>2
        <2>2. job[i].answer \in {"none", "ok", "notfound", "conflict", "error"}
            BY <1>1 DEF Jobs
        <2> QED
            BY <1>1, <1>2, <2>1, <2>2, MarkAnswers
    <1> QED
        BY <1>3, <1>4

\* A to-do tool has found the name of its artifact.
LEMMA FindBaseAnswers ==
    ASSUME Inv, Answers, NEW i \in Handlers, FindBase(i) PROVE Answers'
    <1>1. /\ UNCHANGED <<log, wish, requests, faults, stops>> /\ Working(i) /\ job[i].ref # 0
        BY DEF FindBase
    <1>2. /\ job[i].op # "none" /\ job[i].answer = "none" /\ h[i].ws \in Workspaces
          /\ Sound(i) /\ job[i] \in Jobs /\ job \in [Handlers -> Jobs]
          /\ Listing(i) /\ Deleting(i)
        BY <1>1, AtWork
    <1>3. Counts'
        BY <1>1 DEF Answers, Counts
    <1>4. CASE phase # "serving"
        <2>1. /\ h' = h /\ job' = [job EXCEPT ![i] = [job[i] EXCEPT !.answer = "error"]]
            BY <1>2, <1>4 DEF FindBase, Answer
        <2>2. [job[i] EXCEPT !.answer = "error"] = [job[i] EXCEPT !.answer = "error", !.gone = job[i].gone]
              /\ job[i].gone \in BOOLEAN
            BY <1>2 DEF Jobs
        <2> QED
            BY <1>1, <1>2, <1>3, <2>1, <2>2, MarkAnswers
    <1>5. CASE phase = "serving"
        <2> DEFINE n == TodoName(log[job[i].ref].name)
        <2>1. /\ job' = [job EXCEPT ![i] = [job[i] EXCEPT !.ref = 0, !.name = n]]
              /\ h' = [h EXCEPT ![i] = [h[i] EXCEPT !.pc = "resolve", !.repo = None]]
            BY <1>2, <1>5 DEF FindBase, Inv, EInv, EngineTypeOK
        <2>2. Logged /\ Refs' = Refs /\ log' = log
            BY <1>1, LoggedStays DEF Answers, Refs
        <2>3. job[i].op \in {"save", "read"} /\ job[i].ref \in Refs /\ n \in Names
            BY <1>1, <1>2, LogRefs DEF Sound, Jobs, Answers, Versions, TodoName, Names
        <2>4. /\ \A k \in Handlers \ {i} : h'[k] = h[k] /\ job'[k] = job[k]
              /\ h'[i].ws = h[i].ws /\ ~At(i, "free")'
            BY <1>2, <2>1 DEF Inv, EInv, EngineTypeOK, At
        <2>5. \A k \in Handlers \ {i} : Apart(k)
            BY <2>4 DEF Apart, At
        <2>6. /\ job'[i].op = job[i].op /\ job'[i].client = job[i].client /\ job'[i].gone = job[i].gone
              /\ job'[i].name = n /\ job'[i].ref = 0 /\ job'[i].id = job[i].id
              /\ job'[i].expected = job[i].expected /\ job'[i].asked = job[i].asked
              /\ job'[i].left = job[i].left /\ job'[i].rows = job[i].rows
              /\ job'[i].missing = job[i].missing /\ job'[i].from = job[i].from /\ job'[i].answer = "none"
              /\ job'[i] \in Jobs
            BY <1>2, <2>1, <2>3 DEF Jobs
        <2>7. job' \in [Handlers -> Jobs]
            BY <1>2, <2>1, <2>6
        <2>8. Sound(i)'
            BY <1>2, <2>2, <2>3, <2>4, <2>6 DEF Sound
        <2>9. Listing(i)'
            <3>1. job[i].rows \subseteq Refs
                BY <1>2 DEF Sound
            <3>2. \A r \in job[i].rows : Current(i, r) => Current(i, r)'
                BY <1>2, <2>2, <2>4, <2>6, <3>1, CurrentKept
            <3> QED
                BY <1>2, <2>3, <2>6, <3>2 DEF Listing
        <2>10. Deleting(i)'
            BY <2>3, <2>6 DEF Deleting
        <2>11. Aim(i)' = Aim(i)
            BY <1>1, <2>2, <2>4, <2>6 DEF Aim
        <2>12. Saves(i)' => Saves(i)
            BY <2>6 DEF Saves
        <2> HIDE DEF n
        <2> QED
            BY <1>1, <1>3, <2>5, <2>6, <2>7, <2>8, <2>9, <2>10, <2>11, <2>12, JobAnswers
    <1> QED
        BY <1>4, <1>5

\* The last version of a name, if it lives, is current now.
LEMMA LatestCurrent ==
    ASSUME Answers, NEW w \in Workspaces, NEW n \in Names, Live(w, n)
    PROVE  /\ Latest(w, n) \in Refs /\ log[Latest(w, n)].ws = w /\ log[Latest(w, n)].name = n
           /\ ~log[Latest(w, n)].dead
    <1>1. Len(log) \in Nat /\ Refs = 1 .. Len(log) /\ Len(log) \in 0 .. Len(log)
        BY LogRefs DEF Answers
    <1>2. Latest(w, n) \in 0 .. Len(log) /\ (Latest(w, n) # 0 => log[Latest(w, n)].ws = w /\ log[Latest(w, n)].name = n)
        BY <1>1, HeadOf DEF Answers, Latest
    <1>3. Latest(w, n) # 0 /\ ~log[Latest(w, n)].dead
        BY DEF Live, LiveAt, Latest
    <1> QED
        BY <1>1, <1>2, <1>3

\* A read finds the last version of its name.
LEMMA ReadAnswers ==
    ASSUME Inv, Answers, NEW i \in Handlers, CallRead(i) PROVE Answers'
    <1>0. PICK w, n : w = h[i].ws /\ n = job[i].name
        OBVIOUS
    <1> DEFINE found == IF Live(w, n) THEN {Latest(w, n)} ELSE {}
               a     == IF Live(w, n) THEN "ok" ELSE "notfound"
    <1>1. /\ UNCHANGED <<log, wish, requests, faults, stops, h>> /\ Working(i)
          /\ job[i].op = "read" /\ job[i].ref = 0
        BY DEF CallRead, engine
    <1>2. /\ job[i].op # "none" /\ job[i].answer = "none" /\ w \in Workspaces
          /\ Sound(i) /\ job[i] \in Jobs /\ job \in [Handlers -> Jobs]
        BY <1>0, <1>1, AtWork
    <1>3. n \in Names /\ a \in {"ok", "notfound"}
        BY <1>0, <1>1, <1>2 DEF Sound
    <1>4. Logged /\ Refs' = Refs /\ log' = log /\ Refs \subseteq Nat
        BY <1>1, LoggedStays, LogRefs DEF Answers, Refs
    <1>5. job' = [job EXCEPT ![i] = [job[i] EXCEPT !.rows = found, !.answer = a]]
        BY <1>0, <1>2 DEF CallRead
    <1>6. found \subseteq Refs
        BY <1>2, <1>3, LatestCurrent
    <1>7. (Live(w, n) => a = "ok") /\ found = IF Live(w, n) THEN {Latest(w, n)} ELSE {}
        OBVIOUS
    <1> HIDE DEF found, a
    <1>8. /\ job'[i].op = "read" /\ job'[i].client = job[i].client /\ job'[i].gone = job[i].gone
          /\ job'[i].name = n /\ job'[i].ref = 0 /\ job'[i].id = job[i].id
          /\ job'[i].asked = job[i].asked /\ job'[i].left = job[i].left /\ job'[i].rows = found
          /\ job'[i].missing = job[i].missing /\ job'[i].from = job[i].from /\ job'[i].answer = a
          /\ job'[i] \in Jobs
          /\ \A k \in Handlers \ {i} : job'[k] = job[k]
        BY <1>0, <1>1, <1>2, <1>3, <1>4, <1>5, <1>6 DEF Jobs
    <1>9. job' \in [Handlers -> Jobs] /\ \A k \in Handlers \ {i} : Apart(k)
        BY <1>1, <1>2, <1>5, <1>8 DEF Apart, At
    <1>10. Sound(i)'
        BY <1>1, <1>2, <1>3, <1>4, <1>6, <1>8 DEF Sound, At
    <1>11. Listing(i)'
        <2>1. Len(log) \in Nat /\ job[i].from \in 0 .. Len(log) /\ Len(log) \in Span(i)'
            BY <1>1, <1>2, <1>8, LogRefs DEF Sound, Jobs, Span, Answers
        <2>2. ASSUME NEW r \in found PROVE Current(i, r)'
            <3>1. r = Latest(w, n) /\ Live(w, n)
                BY <1>7, <2>2
            <3>2. PICK d : d = Len(log)
                OBVIOUS
            <3>3. ~log[r].dead /\ log[r].name = n /\ HeadAt(w, n, d) = r
                BY <1>2, <1>3, <3>1, <3>2, LatestCurrent DEF Latest
            <3>4. HeadAt(w, n, d)' = r /\ d \in Span(i)'
                BY <1>4, <2>1, <3>2, <3>3, HeadKept DEF Logged
            <3>5. w = h'[i].ws /\ n = log'[r].name /\ ~log'[r].dead
                BY <1>0, <1>1, <3>3
            <3> QED
                BY <3>4, <3>5 DEF Current
        <2>3. Shown(i, n)'
            <3>1. Live(w, n)' = Live(w, n) /\ Latest(w, n)' = Latest(w, n)
                BY <1>1 DEF Live, LiveAt, Latest, HeadAt
            <3>2. w = h'[i].ws /\ job'[i].rows = found
                BY <1>0, <1>1, <1>8
            <3> QED
                BY <1>7, <3>1, <3>2 DEF Shown
        <2> QED
            BY <1>8, <2>2, <2>3 DEF Listing
    <1>12. Deleting(i)' /\ ~Saves(i)' /\ Counts'
        BY <1>1, <1>8 DEF Deleting, Saves, Answers, Counts
    <1> QED
        BY <1>1, <1>8, <1>9, <1>10, <1>11, <1>12, JobAnswers

\* A listing has looked at one more of its prefixes.
LEMMA ListAnswers ==
    ASSUME Inv, Answers, NEW i \in Handlers, CallList(i) PROVE Answers'
    <1>0. PICK w : w = h[i].ws
        OBVIOUS
    <1>1. /\ UNCHANGED <<log, wish, requests, faults, stops, h>> /\ Working(i) /\ job[i].op = "list"
        BY DEF CallList, engine
    <1>2. /\ job[i].op # "none" /\ job[i].answer = "none" /\ w \in Workspaces
          /\ Sound(i) /\ job[i] \in Jobs /\ job \in [Handlers -> Jobs] /\ Listing(i)
        BY <1>0, <1>1, AtWork
    <1>3. PICK p \in job[i].left :
              job' = [job EXCEPT ![i] = [job[i] EXCEPT
                 !.left = job[i].left \ {p},
                 !.rows = job[i].rows \union {Latest(h[i].ws, n) : n \in {m \in p : Live(h[i].ws, m)}},
                 !.answer = IF job[i].left = {p} THEN "ok" ELSE "none"]]
        BY Zenon DEF CallList, Combined
    <1> DEFINE found == {Latest(h[i].ws, n) : n \in {m \in p : Live(h[i].ws, m)}}
               a     == IF job[i].left = {p} THEN "ok" ELSE "none"
               rest  == job[i].left \ {p}
    <1>4. p \in job[i].asked /\ p \subseteq Names /\ job[i].rows \subseteq Refs
        BY <1>1, <1>2 DEF Sound, Filters
    <1>5. Logged /\ Refs' = Refs /\ log' = log /\ Refs \subseteq Nat
        BY <1>1, LoggedStays, LogRefs DEF Answers, Refs
    <1>6. found \subseteq Refs
        BY <1>0, <1>2, <1>4, LatestCurrent
    <1>7. /\ a \in {"none", "ok"} /\ (a = "ok" => rest = {})
          /\ rest \subseteq job[i].left /\ job[i].asked \ rest \subseteq (job[i].asked \ job[i].left) \union {p}
        OBVIOUS
    <1>8. \A r \in found : \E n \in p : r = Latest(w, n) /\ Live(w, n)
        BY <1>0
    <1>9. \A n \in p : Live(w, n) => Latest(w, n) \in found
        BY <1>0
    <1>10. job' = [job EXCEPT ![i] = [job[i] EXCEPT !.left = rest, !.rows = job[i].rows \union found, !.answer = a]]
        BY <1>3
    <1> HIDE DEF found, a, rest
    <1>11. /\ job'[i].op = "list" /\ job'[i].client = job[i].client /\ job'[i].gone = job[i].gone
           /\ job'[i].name = job[i].name /\ job'[i].ref = job[i].ref /\ job'[i].id = job[i].id
           /\ job'[i].asked = job[i].asked /\ job'[i].left = rest
           /\ job'[i].rows = job[i].rows \union found
           /\ job'[i].missing = job[i].missing /\ job'[i].from = job[i].from /\ job'[i].answer = a
           /\ job'[i] \in Jobs
           /\ \A k \in Handlers \ {i} : job'[k] = job[k]
        BY <1>1, <1>2, <1>5, <1>6, <1>7, <1>10 DEF Jobs
    <1>12. job' \in [Handlers -> Jobs] /\ \A k \in Handlers \ {i} : Apart(k)
        BY <1>1, <1>2, <1>10, <1>11 DEF Apart, At
    <1>13. Sound(i)'
        BY <1>1, <1>2, <1>4, <1>5, <1>6, <1>7, <1>11 DEF Sound, At
    <1>14. Len(log) \in Nat /\ job[i].from \in 0 .. Len(log) /\ Len(log) \in Span(i)' /\ job[i].from <= Len(log)
        BY <1>1, <1>2, <1>11, LogRefs DEF Sound, Jobs, Span, Answers
    <1>15. ASSUME NEW r \in job[i].rows \union found PROVE Current(i, r)'
        <2>1. CASE r \in job[i].rows
            <3>1. Current(i, r) /\ r \in Refs
                BY <1>1, <1>2, <1>4, <2>1 DEF Listing
            <3> QED
                BY <1>1, <1>2, <1>5, <1>11, <3>1, CurrentKept
        <2>2. CASE r \in found
            <3>1. PICK n \in p : r = Latest(w, n) /\ Live(w, n)
                BY <1>8, <2>2
            <3>2. PICK d, m : d = Len(log) /\ m = n
                OBVIOUS
            <3>3. ~log[r].dead /\ log[r].name = m /\ HeadAt(w, m, d) = r
                BY <1>2, <1>4, <3>1, <3>2, LatestCurrent DEF Latest
            <3>4. HeadAt(w, m, d)' = r /\ d \in Span(i)'
                BY <1>5, <1>14, <3>2, <3>3, HeadKept DEF Logged
            <3>5. w = h'[i].ws /\ m = log'[r].name /\ ~log'[r].dead
                BY <1>0, <1>1, <3>3
            <3> QED
                BY <3>4, <3>5 DEF Current
        <2> QED
            BY <2>1, <2>2
    <1>16. ASSUME NEW q \in job[i].asked \ rest, NEW n \in q PROVE Shown(i, n)'
        <2>1. CASE q = p
            <3>1. Live(w, n)' = Live(w, n) /\ Latest(w, n)' = Latest(w, n)
                BY <1>1 DEF Live, LiveAt, Latest, HeadAt
            <3>2. w = h'[i].ws /\ found \subseteq job'[i].rows
                BY <1>0, <1>1, <1>11
            <3> QED
                BY <1>9, <2>1, <3>1, <3>2 DEF Shown
        <2>2. CASE q # p
            <3>1. q \in job[i].asked \ job[i].left
                BY <1>7, <2>2
            <3>2. Shown(i, n)
                BY <1>1, <1>2, <3>1 DEF Listing
            <3>3. n \in Names
                BY <1>1, <1>2, <3>1 DEF Sound, Filters
            <3> QED
                BY <1>0, <1>1, <1>2, <1>5, <1>11, <1>14, <3>2, <3>3, ShownKept
        <2> QED
            BY <2>1, <2>2
    <1>17. Listing(i)'
        BY <1>7, <1>11, <1>15, <1>16 DEF Listing
    <1>18. Deleting(i)' /\ ~Saves(i)' /\ Counts'
        BY <1>1, <1>11 DEF Deleting, Saves, Answers, Counts
    <1> QED
        BY <1>1, <1>11, <1>12, <1>13, <1>17, <1>18, JobAnswers

\* A save makes a version, unless its client expects another one: a version of
\* the same save was made on what was the latest then, and is later than that.
LEMMA SaveAnswers ==
    ASSUME Inv, Answers, NEW i \in Handlers, CallSave(i) PROVE Answers'
    <1>0. PICK w, n, e : w = h[i].ws /\ n = job[i].name /\ e = job[i].expected
        OBVIOUS
    <1>1. /\ UNCHANGED <<wish, requests, faults, stops, h>> /\ Working(i)
          /\ job[i].op = "save" /\ job[i].ref = 0
        BY DEF CallSave, engine
    <1>2. /\ job[i].op # "none" /\ job[i].answer = "none" /\ w \in Workspaces /\ n \in Names /\ e \in Nat
          /\ Sound(i) /\ job[i] \in Jobs /\ job \in [Handlers -> Jobs] /\ job[i].gone \in BOOLEAN
          /\ job[i].client \in Clients /\ job[i].id \in Nat
        BY <1>0, <1>1, AtWork DEF Sound, Jobs
    <1>3. Counts'
        BY <1>1 DEF Answers, Counts
    <1>4. CASE Answer(i, "conflict") /\ UNCHANGED log
        <2>1. [job[i] EXCEPT !.answer = "conflict"] = [job[i] EXCEPT !.answer = "conflict", !.gone = job[i].gone]
            BY <1>2 DEF Jobs
        <2>2. job' = [job EXCEPT ![i] = [job[i] EXCEPT !.answer = "conflict"]]
            BY <1>2, <1>4 DEF Answer
        <2> QED
            BY <1>1, <1>2, <1>3, <1>4, <2>1, <2>2, MarkAnswers
    <1>5. CASE /\ e = 0 \/ e = Latest(w, n)
               /\ log' = Append(log, Version(i, n, FALSE)) /\ Answer(i, "ok")
        <2>0. PICK v, new : v = Version(i, n, FALSE) /\ new = Len(log) + 1
            OBVIOUS
        <2>1. Len(log) \in Nat /\ Refs = 1 .. Len(log) /\ \A r \in Refs : log[r] \in Versions
            BY LogRefs DEF Answers
        <2>2. Latest(w, n) \in 0 .. Len(log) /\ \A x \in Refs : log[x].ws = w /\ log[x].name = n => x <= Latest(w, n)
            BY <1>2, <2>1, HeadOf DEF Answers, Latest
        <2>3. /\ v.ws = w /\ v.name = n /\ v.after = Latest(w, n) /\ v.by = i /\ v.client = job[i].client
              /\ v.id = job[i].id /\ v.expected = e /\ v \in Versions
            BY <1>0, <1>2, <2>0, <2>2 DEF Version, Versions
        <2>4. log' = Append(log, v) /\ v.after <= Len(log)
            <3>1. log' = Append(log, v)
                BY <1>5, <2>0, Zenon
            <3>2. v.after <= Len(log)
                BY <2>1, <2>2, <2>3
            <3> QED
                BY <3>1, <3>2
        <2>5. Logged /\ Refs' = Refs \union {new} /\ Len(log') = new /\ log'[new] = v
              /\ \A r \in Refs : log'[r] = log[r]
            BY <2>0, <2>3, <2>4, LoggedGrows, LogGrows DEF Answers, Extended
        <2>6. /\ job'[i] = [job[i] EXCEPT !.answer = "ok"]
              /\ \A k \in Handlers \ {i} : Apart(k)
            BY <1>1, <1>2, <1>5 DEF Answer, Apart, At
        <2>7. /\ job'[i].op = "save" /\ job'[i].client = job[i].client /\ job'[i].gone = job[i].gone
              /\ job'[i].name = n /\ job'[i].ref = 0 /\ job'[i].id = job[i].id /\ job'[i].expected = e
              /\ job'[i].asked = job[i].asked /\ job'[i].left = job[i].left /\ job'[i].rows = job[i].rows
              /\ job'[i].missing = job[i].missing /\ job'[i].from = job[i].from
              /\ job'[i] \in Jobs
            BY <1>0, <1>1, <1>2, <2>6 DEF Jobs
        <2>8. job' \in [Handlers -> Jobs]
            BY <1>2, <1>5, <2>6, <2>7 DEF Answer
        <2>9. Sound(i)'
            <3>1. job[i].from \in Nat /\ At(i, "free")' = At(i, "free")
                BY <1>1, <1>2 DEF Jobs, At
            <3> QED
                BY <1>1, <1>2, <2>0, <2>1, <2>5, <2>7, <3>1 DEF Sound
        <2>10. Listing(i)' /\ Deleting(i)'
            BY <2>7 DEF Listing, Deleting
        <2>11. \A r \in Refs' \ Refs : r = new /\ log'[r] = v
            BY <2>5
        <2>12. JobTypes' /\ \A k \in Handlers : Listing(k)' /\ Deleting(k)'
            BY <2>3, <2>5, <2>6, <2>8, <2>9, <2>10, <2>11, OneMoves
        <2>13. Aim(i)' = Aim(i) /\ Saves(i) /\ Made(new)' = Aim(i)
            BY <1>0, <1>1, <2>3, <2>5, <2>7 DEF Aim, Saves, Made
        <2>14. \A k \in Handlers : Saves(k)' =>
                   /\ Saves(k) /\ job'[k].client = job[k].client /\ job'[k].id = job[k].id
                   /\ Aim(k)' = Aim(k)
            BY <2>5, <2>6, <2>7, <2>13, AimKept, Placed DEF Apart, Saves
        <2>15. SavesAgree'
            <3>1. \A c \in Clients : wish'[c].id = wish[c].id /\ Meant(c)' = Meant(c)
                BY <1>1 DEF Meant
            <3>2. \A r \in Refs' \ Refs :
                      /\ Saves(i) /\ log'[r].client = job[i].client /\ log'[r].id = job[i].id
                      /\ Made(r)' = Aim(i)
                      /\ log'[r].expected # 0 => log'[r].after = log'[r].expected
                BY <1>5, <2>3, <2>11, <2>13
            <3> QED
                BY <2>5, <2>14, <3>1, <3>2, SavesKept
        <2>16. ASSUME NEW b \in Refs, log[b].client = job[i].client, log[b].id = job[i].id, job[i].id # 0
               PROVE  e = 0 /\ log[b].expected = 0
            <3>1. Aim(i) = Made(b)
                BY <2>13, <2>16 DEF Answers, SavesAgree
            <3>2. log[b].ws = w /\ log[b].name = n /\ log[b].expected = e
                BY <1>0, <1>1, <3>1 DEF Aim, Made
            <3>3. b <= Latest(w, n) /\ log[b].after < b /\ log[b].after \in Nat /\ b \in Nat
                BY <2>1, <2>2, <3>2 DEF Answers, LogTypes, Versions
            <3>4. e # 0 => log[b].after = e
                BY <2>16, <3>2 DEF Answers, SavesAgree
            <3> QED
                BY <1>5, <2>2, <3>2, <3>3, <3>4
        <2>17. WrittenOnce'
            <3>1. ASSUME NEW a \in Refs', NEW b \in Refs', a # b, log'[a].id # 0,
                         log'[a].client = log'[b].client, log'[a].id = log'[b].id
                  PROVE  log'[a].expected = 0
                <4>1. CASE a \in Refs /\ b \in Refs
                    BY <2>5, <3>1, <4>1 DEF Answers, WrittenOnce
                <4>2. CASE a = new /\ b \in Refs
                    BY <2>3, <2>5, <2>16, <3>1, <4>2
                <4>3. CASE a \in Refs /\ b = new
                    BY <2>3, <2>5, <2>16, <3>1, <4>3
                <4> QED
                    BY <2>5, <3>1, <4>1, <4>2, <4>3
            <3> QED
                BY <3>1 DEF WrittenOnce
        <2>18. OneEach' /\ WishTypes'
            <3>1. \A k \in Handlers : job'[k].client = job[k].client /\ job'[k].gone = job[k].gone
                BY <2>6, <2>7 DEF Apart
            <3> QED
                BY <1>1, <3>1 DEF Answers, OneEach, WishTypes
        <2> QED
            BY <1>3, <2>5, <2>12, <2>15, <2>17, <2>18 DEF Answers, Logged, Extended
    <1> QED
        BY <1>0, <1>4, <1>5 DEF CallSave, Guard

\* What a selector of a deletion finds, and what if it finds nothing.
LEMMA ChosenOne ==
    ASSUME Inv, Answers, NEW w \in Workspaces, NEW s \in ByNames \union ByRefs
    PROVE  /\ s.ref # 0 => s.ref \in Refs
           /\ s.ref = 0 => s.name \in Names
           /\ Chosen(w, s) = {} =>
                 IF s.ref = 0 THEN ~Live(w, s.name)
                 ELSE Latest(w, log[s.ref].name) # s.ref \/ log[s.ref].dead
           /\ \A m \in Chosen(w, s) :
                 /\ m \in Names
                 /\ IF s.ref = 0 THEN m = s.name ELSE Latest(w, m) = s.ref
    <1>1. \A r \in Refs : log[r].name \in Names /\ r # 0
        BY LogRefs DEF Answers, Versions
    <1>2. (s.ref # 0 => s.ref \in Refs) /\ (s.ref = 0 => s.name \in Names)
        BY <1>1 DEF ByNames, ByRefs
    <1>3. CASE s.ref = 0
        BY <1>2, <1>3 DEF Chosen
    <1>4. CASE s.ref # 0
        <2>1. \A m : m \in Chosen(w, s) <=>
                  m = log[s.ref].name /\ Live(w, m) /\ Latest(w, m) = s.ref
            BY <1>4 DEF Chosen
        <2>2. Latest(w, log[s.ref].name) = s.ref /\ ~log[s.ref].dead => Live(w, log[s.ref].name)
            BY <1>4 DEF Live, LiveAt, Latest
        <2> QED
            BY <1>1, <1>2, <1>4, <2>1, <2>2
    <1> QED
        BY <1>2, <1>3, <1>4

\* The request of a deletion after one more selector: what it made, what it missed.
Tried(i, s, made, lost, a) ==
    job' = [job EXCEPT ![i] = [job[i] EXCEPT
               !.left = job[i].left \ {s}, !.rows = job[i].rows \union made,
               !.missing = job[i].missing \union lost, !.answer = a]]

\* What is left of it then.
WentOn(i, s, made, lost, a) ==
    /\ job'[i].op = "delete" /\ job'[i].client = job[i].client /\ job'[i].gone = job[i].gone
    /\ job'[i].name = job[i].name /\ job'[i].ref = job[i].ref /\ job'[i].id = job[i].id
    /\ job'[i].asked = job[i].asked /\ job'[i].left = job[i].left \ {s}
    /\ job'[i].rows = job[i].rows \union made
    /\ job'[i].missing = job[i].missing \union lost
    /\ job'[i].from = job[i].from /\ job'[i].answer = a
    /\ job' \in [Handlers -> Jobs]
    /\ \A k \in Handlers \ {i} : Apart(k)

\* Each selector that a deletion tries leaves its request a request.
LEMMA TriedJob ==
    ASSUME Inv, Answers, UNCHANGED h, NEW i, NEW s, NEW made, NEW lost, NEW a,
           i \in Handlers /\ job[i].op = "delete" /\ s \in job[i].left,
           made \subseteq Nat /\ lost \subseteq {s} /\ a \in {"none", "ok", "notfound"},
           Tried(i, s, made, lost, a)
    PROVE  WentOn(i, s, made, lost, a)
    <1>1. job \in [Handlers -> Jobs] /\ job[i] \in Jobs
        BY DEF Answers, JobTypes
    <1>2. job'[i] = [job[i] EXCEPT
               !.left = job[i].left \ {s}, !.rows = job[i].rows \union made,
               !.missing = job[i].missing \union lost, !.answer = a]
          /\ \A k \in Handlers \ {i} : job'[k] = job[k]
        BY <1>1 DEF Tried
    <1>3. PICK l, r, m : l = job[i].left \ {s} /\ r = job[i].rows \union made /\ m = job[i].missing \union lost
        OBVIOUS
    <1>6. l \in SUBSET Asks /\ r \in SUBSET Nat /\ m \in SUBSET Asks
        BY <1>1, <1>3 DEF Jobs
    <1>7. job'[i] = [job[i] EXCEPT !.left = l, !.rows = r, !.missing = m, !.answer = a]
        BY <1>2, <1>3
    <1>8. /\ job'[i].op = "delete" /\ job'[i].client = job[i].client /\ job'[i].gone = job[i].gone
          /\ job'[i].name = job[i].name /\ job'[i].ref = job[i].ref /\ job'[i].id = job[i].id
          /\ job'[i].asked = job[i].asked /\ job'[i].left = l /\ job'[i].rows = r
          /\ job'[i].missing = m /\ job'[i].from = job[i].from /\ job'[i].answer = a
          /\ job'[i] \in Jobs
        BY <1>1, <1>6, <1>7 DEF Jobs
    <1>4. job' \in [Handlers -> Jobs]
        BY <1>1, <1>8 DEF Tried
    <1>5. \A k \in Handlers \ {i} : Apart(k)
        BY <1>2 DEF Apart, At
    <1> QED
        BY <1>3, <1>4, <1>5, <1>8 DEF WentOn

\* A selector of a deletion finds nothing.
LEMMA MissingAnswers ==
    ASSUME Inv, Answers, NEW i \in Handlers, Working(i), job[i].op = "delete",
           UNCHANGED <<log, h, wish, requests, faults, stops>>,
           NEW s \in job[i].left, Chosen(h[i].ws, s) = {},
           NEW a \in {"none", "ok", "notfound"}, a # "none" => job[i].left = {s},
           Tried(i, s, {}, {s}, a)
    PROVE  Answers'
    <1>1. /\ job[i].op # "none" /\ job[i].answer = "none" /\ h[i].ws \in Workspaces
          /\ Sound(i) /\ job[i] \in Jobs /\ Deleting(i)
        BY AtWork
    <1>2. Logged /\ Refs' = Refs /\ ByRefs' = ByRefs /\ ByNames' = ByNames
        BY LoggedStays DEF Answers, Refs, ByRefs, ByNames
    <1>3. /\ job'[i].op = "delete" /\ job'[i].client = job[i].client /\ job'[i].gone = job[i].gone
          /\ job'[i].name = job[i].name /\ job'[i].ref = job[i].ref /\ job'[i].id = job[i].id
          /\ job'[i].asked = job[i].asked /\ job'[i].left = job[i].left \ {s}
          /\ job'[i].rows = job[i].rows /\ job'[i].missing = job[i].missing \union {s}
          /\ job'[i].from = job[i].from /\ job'[i].answer = a
          /\ job' \in [Handlers -> Jobs]
          /\ \A k \in Handlers \ {i} : Apart(k)
        <2>1. PICK made, lost : made = {} /\ lost = {s}
            OBVIOUS
        <2>2. made \subseteq Nat /\ lost \subseteq {s} /\ Tried(i, s, made, lost, a) /\ UNCHANGED h
            BY <2>1
        <2>3. WentOn(i, s, made, lost, a)
            BY <2>2, TriedJob
        <2> QED
            BY <2>1, <2>3 DEF WentOn
    <1>4. s \in ByNames \union ByRefs /\ s \in job[i].asked
        BY <1>1 DEF Sound
    <1>5. Sound(i)'
        BY <1>1, <1>2, <1>3, <1>4 DEF Sound, At
    <1>6. Len(log) \in Span(i)
        BY <1>1, LogRefs DEF Answers, Span, Sound, Jobs
    <1>7. Missed(i, s)
        BY <1>1, <1>4, <1>6, ChosenOne DEF Missed, Live, Latest
    <1>8. \A x \in job[i].missing \union {s} : Missed(i, x)'
        <2> TAKE x \in job[i].missing \union {s}
        <2>1. Missed(i, x) /\ x \in ByNames \union ByRefs /\ job[i].from <= Len(log)
            BY <1>1, <1>4, <1>7 DEF Sound, Deleting
        <2> QED
            BY <1>1, <1>2, <1>3, <2>1, MissedKept
    <1>9. \A x, r : Hits(x, r)' <=> Hits(x, r)
        BY DEF Hits
    <1>10. Deleting(i)'
        BY <1>1, <1>2, <1>3, <1>8, <1>9 DEF Deleting
    <1>11. Listing(i)' /\ ~Saves(i)' /\ Counts'
        BY <1>3 DEF Listing, Saves, Answers, Counts
    <1> QED
        BY <1>3, <1>5, <1>10, <1>11, JobAnswers

\* A selector of a deletion finds its artifact: it gets a version that is dead.
LEMMA RemovedAnswers ==
    ASSUME Inv, Answers, NEW i \in Handlers, Working(i), job[i].op = "delete",
           UNCHANGED <<h, wish, requests, faults, stops>>,
           NEW s \in job[i].left, NEW m \in Chosen(h[i].ws, s),
           NEW a \in {"none", "ok", "notfound"}, a # "none" => job[i].left = {s},
           log' = Append(log, Version(i, m, TRUE)), Tried(i, s, {Len(log) + 1}, {}, a)
    PROVE  Answers'
    <1>1. /\ job[i].op # "none" /\ job[i].answer = "none" /\ h[i].ws \in Workspaces
          /\ Sound(i) /\ job[i] \in Jobs /\ Deleting(i)
          /\ job[i].client \in Clients /\ job[i].id = 0 /\ job[i].expected \in Nat
        BY AtWork DEF Sound, Jobs
    <1>2. Len(log) \in Nat /\ Refs = 1 .. Len(log)
        BY LogRefs DEF Answers
    <1>3. PICK v, new : v = Version(i, m, TRUE) /\ new = Len(log) + 1
        OBVIOUS
    <1>4. s \in ByNames \union ByRefs /\ s \in job[i].asked
        BY <1>1 DEF Sound
    <1>5. /\ m \in Names /\ (s.ref # 0 => s.ref \in Refs)
          /\ IF s.ref = 0 THEN m = s.name ELSE Latest(h[i].ws, m) = s.ref
        BY <1>1, <1>4, ChosenOne
    <1>6. Latest(h[i].ws, m) \in 0 .. Len(log)
        BY <1>1, <1>2, <1>5, HeadOf DEF Answers, Latest
    <1>7. /\ v.ws = h[i].ws /\ v.name = m /\ v.after = Latest(h[i].ws, m) /\ v.by = i
          /\ v.dead /\ v.id = 0 /\ v \in Versions
        BY <1>1, <1>3, <1>5, <1>6 DEF Version, Versions
    <1>8. log' = Append(log, v)
        BY <1>3, Zenon
    <1>9. v.after <= Len(log)
        BY <1>2, <1>6, <1>7
    <1>10. /\ Logged /\ Refs' = Refs \union {new} /\ Len(log') = new /\ log'[new] = v
           /\ \A r \in Refs : log'[r] = log[r]
        BY <1>3, <1>7, <1>8, <1>9, LoggedGrows, LogGrows DEF Answers, Extended
    <1>11. /\ job'[i].op = "delete" /\ job'[i].client = job[i].client /\ job'[i].gone = job[i].gone
           /\ job'[i].ref = job[i].ref /\ job'[i].id = job[i].id
           /\ job'[i].asked = job[i].asked /\ job'[i].left = job[i].left \ {s}
           /\ job'[i].rows = job[i].rows \union {new} /\ job'[i].missing = job[i].missing
           /\ job'[i].from = job[i].from /\ job'[i].answer = a
           /\ job' \in [Handlers -> Jobs]
           /\ \A k \in Handlers \ {i} : Apart(k)
        <2>1. PICK made, lost : made = {new} /\ lost = {}
            OBVIOUS
        <2>2. made \subseteq Nat /\ lost \subseteq {s} /\ Tried(i, s, made, lost, a) /\ UNCHANGED h
            BY <1>2, <1>3, <2>1
        <2>3. WentOn(i, s, made, lost, a)
            BY <2>2, TriedJob
        <2> QED
            BY <2>1, <2>3 DEF WentOn
    <1>12. Refs \subseteq Refs' /\ ByNames' = ByNames /\ ByRefs \subseteq ByRefs'
        BY <1>10 DEF ByNames, ByRefs
    <1>13. Sound(i)'
        <2>1. /\ job'[i].rows \subseteq Refs' /\ job'[i].left \subseteq job'[i].asked
              /\ job'[i].missing \subseteq job'[i].asked \ job'[i].left
              /\ job'[i].asked \subseteq ByNames' \/ job'[i].asked \subseteq ByRefs'
            BY <1>1, <1>10, <1>11, <1>12 DEF Sound
        <2>2. job'[i].from <= Len(log') /\ job'[i].ref = 0 /\ job'[i].id = 0 /\ job'[i].client \in Clients
            BY <1>1, <1>2, <1>3, <1>10, <1>11 DEF Sound, Jobs
        <2>3. ~At(i, "free")'
            BY <1>1 DEF Sound, At
        <2> QED
            BY <1>11, <2>1, <2>2, <2>3 DEF Sound
    <1>14. ASSUME NEW x \in job[i].asked PROVE Hits(x, new)' <=> x = s
        <2>1. CASE job[i].asked \subseteq ByNames
            <3>1. x.ref = 0 /\ s.ref = 0 /\ (x.name = s.name => x = s)
                BY <1>4, <2>1 DEF ByNames
            <3>2. log'[new].name = s.name
                BY <1>5, <1>7, <1>10, <3>1
            <3> QED
                BY <3>1, <3>2 DEF Hits
        <2>2. CASE job[i].asked \subseteq ByRefs
            <3>1. x.ref # 0 /\ s.ref # 0 /\ (x.ref = s.ref => x = s)
                BY <1>2, <1>4, <2>2 DEF ByRefs
            <3>2. log'[new].after = s.ref
                BY <1>5, <1>7, <1>10, <3>1
            <3> QED
                BY <3>1, <3>2 DEF Hits
        <2> QED
            BY <1>1, <2>1, <2>2 DEF Sound
    <1>15. \A r \in job[i].rows : r \in Refs /\ r # new /\ log'[r] = log[r]
        <2>1. job[i].rows \subseteq Refs /\ new \notin Refs
            BY <1>1, <1>2, <1>3 DEF Sound
        <2> QED
            BY <1>10, <2>1
    <1>25. \A r \in job[i].rows : \A x : Hits(x, r)' <=> Hits(x, r)
        BY <1>15 DEF Hits
    <1>16. \A x \in job[i].missing : Missed(i, x)'
        <2> TAKE x \in job[i].missing
        <2>1. Missed(i, x) /\ x \in ByNames \union ByRefs /\ job[i].from <= Len(log)
            BY <1>1 DEF Sound, Deleting
        <2> QED
            BY <1>1, <1>10, <1>11, <2>1, MissedKept
    <1>17. Deleting(i)'
        <2>1. job[i].from \in Nat /\ job[i].from < new
            BY <1>1, <1>2, <1>3 DEF Sound, Jobs
        <2>0. /\ job[i].rows = {r \in Refs : r > job[i].from /\ log[r].by = i}
              /\ \A r \in job[i].rows : log[r].dead
              /\ \A x \in job[i].asked \ (job[i].left \union job[i].missing) :
                    \E r \in job[i].rows : Hits(x, r)
              /\ \A x \in job[i].left \union job[i].missing : \A r \in job[i].rows : ~Hits(x, r)
            BY <1>1 DEF Deleting
        <2>2. job'[i].rows = {r \in Refs' : r > job'[i].from /\ log'[r].by = i}
            <3>1. \A r : r \in Refs' /\ r > job[i].from /\ log'[r].by = i <=>
                        \/ r \in Refs /\ r > job[i].from /\ log[r].by = i
                        \/ r = new
                BY <1>7, <1>10, <2>1
            <3>2. \A r : r \in job'[i].rows <=> r \in job[i].rows \/ r = new
                BY <1>11
            <3>3. job'[i].from = job[i].from
                BY <1>11
            <3> QED
                BY <2>0, <3>1, <3>2, <3>3
        <2>8. job'[i].rows = job[i].rows \union {new} /\ job'[i].missing = job[i].missing
              /\ job'[i].left = job[i].left \ {s} /\ job'[i].asked = job[i].asked
              /\ s \in job[i].left /\ job[i].left \subseteq job[i].asked
              /\ job[i].missing \subseteq job[i].asked \ job[i].left
            BY <1>1, <1>11 DEF Sound
        <2>3. \A r \in job'[i].rows : log'[r].dead
            <3>1. \A r \in job[i].rows : log'[r].dead
                BY <1>15, <2>0
            <3>2. log'[new].dead
                BY <1>7, <1>10
            <3> QED
                BY <2>8, <3>1, <3>2
        <2>4. ASSUME NEW x \in job'[i].asked \ (job'[i].left \union job'[i].missing)
              PROVE  \E r \in job'[i].rows : Hits(x, r)'
            <3>1. CASE x = s
                BY <1>14, <2>8, <3>1
            <3>2. CASE x # s
                <4>1. x \in job[i].asked \ (job[i].left \union job[i].missing)
                    BY <2>4, <2>8, <3>2
                <4>2. PICK r \in job[i].rows : Hits(x, r)
                    BY <2>0, <4>1
                <4> QED
                    BY <1>25, <2>8, <4>2
            <3> QED
                BY <3>1, <3>2
        <2>5. ASSUME NEW x \in job'[i].left \union job'[i].missing, NEW r \in job'[i].rows
              PROVE  ~Hits(x, r)'
            <3>1. x \in job[i].left \union job[i].missing /\ x \in job[i].asked /\ x # s
                BY <2>5, <2>8
            <3>2. CASE r = new
                BY <1>14, <3>1, <3>2
            <3>3. CASE r \in job[i].rows
                <4>1. ~Hits(x, r)
                    BY <2>0, <3>1, <3>3
                <4> QED
                    BY <1>25, <3>3, <4>1
            <3> QED
                BY <2>5, <2>8, <3>2, <3>3
        <2>6. \A x \in job'[i].missing : Missed(i, x)'
            BY <1>11, <1>16
        <2>7. job'[i].answer \notin {"none", "error"} => job'[i].left = {}
            BY <1>11
        <2> QED
            BY <2>2, <2>3, <2>4, <2>5, <2>6, <2>7 DEF Deleting
    <1>18. Listing(i)' /\ ~Saves(i)' /\ Counts'
        BY <1>11 DEF Listing, Saves, Answers, Counts
    <1>19. \A r \in Refs' \ Refs : log'[r].by = i /\ log'[r].id = 0
        BY <1>7, <1>10
    <1>20. JobTypes' /\ \A k \in Handlers : Listing(k)' /\ Deleting(k)'
        BY <1>10, <1>11, <1>13, <1>17, <1>18, <1>19, OneMoves
    <1>21. \A k \in Handlers : Saves(k)' =>
               /\ Saves(k) /\ job'[k].client = job[k].client /\ job'[k].id = job[k].id
               /\ Aim(k)' = Aim(k)
        BY <1>10, <1>11, <1>18, AimKept, Placed DEF Apart, Saves
    <1>22. SavesAgree'
        <2>1. \A c \in Clients : wish'[c].id = wish[c].id /\ Meant(c)' = Meant(c)
            BY DEF Meant
        <2> QED
            BY <1>10, <1>19, <1>21, <2>1, SavesKept
    <1>23. WrittenOnce'
        <2>1. \A r \in Refs' : log'[r].id # 0 => r \in Refs /\ log'[r] = log[r]
            BY <1>7, <1>10
        <2>2. ASSUME NEW b \in Refs', NEW d \in Refs', b # d, log'[b].id # 0,
                     log'[b].client = log'[d].client, log'[b].id = log'[d].id
              PROVE  log'[b].expected = 0
            <3>1. /\ b \in Refs /\ d \in Refs /\ log[b] = log'[b] /\ log[d] = log'[d]
                BY <2>1, <2>2
            <3> QED
                BY <2>2, <3>1 DEF Answers, WrittenOnce
        <2> QED
            BY <2>2 DEF WrittenOnce
    <1>24. OneEach' /\ WishTypes'
        <2>1. \A k \in Handlers : job'[k].client = job[k].client /\ job'[k].gone = job[k].gone
            BY <1>11 DEF Apart
        <2> QED
            BY <2>1 DEF Answers, OneEach, WishTypes
    <1> QED
        BY <1>10, <1>18, <1>20, <1>22, <1>23, <1>24 DEF Answers, Logged, Extended

\* A deletion tries one more of its selectors.
LEMMA DeleteAnswers ==
    ASSUME Inv, Answers, NEW i \in Handlers, CallDelete(i) PROVE Answers'
    <1>1. /\ UNCHANGED <<h, wish, requests, faults, stops>> /\ Working(i) /\ job[i].op = "delete"
        BY DEF CallDelete, engine
    <1>2. PICK s \in job[i].left :
              LET n == Chosen(h[i].ws, s)
                  made == IF n = {} THEN {} ELSE {Len(log) + 1} IN
              /\ log' = IF n = {} THEN log ELSE Append(log, Version(i, CHOOSE m \in n : TRUE, TRUE))
              /\ job' = [job EXCEPT ![i] = [job[i] EXCEPT
                    !.left = job[i].left \ {s},
                    !.rows = job[i].rows \union made,
                    !.missing = job[i].missing \union IF n = {} THEN {s} ELSE {},
                    !.answer = IF job[i].left = {s} THEN BatchAnswer(job[i].rows \union made)
                                  ELSE "none"]]
        BY Zenon DEF CallDelete
    <1>3. CASE Chosen(h[i].ws, s) = {}
        <2>1. PICK a : a = IF job[i].left = {s} THEN BatchAnswer(job[i].rows \union {}) ELSE "none"
            OBVIOUS
        <2>2. a \in {"none", "ok", "notfound"} /\ (a # "none" => job[i].left = {s})
            BY <2>1 DEF BatchAnswer
        <2>3. log' = log /\ Tried(i, s, {}, {s}, a)
            BY <1>2, <1>3, <2>1, Zenon DEF Tried
        <2> QED
            BY <1>1, <1>3, <2>2, <2>3, MissingAnswers
    <1>4. CASE Chosen(h[i].ws, s) # {}
        <2>1. PICK a, m : /\ a = IF job[i].left = {s} THEN BatchAnswer(job[i].rows \union {Len(log) + 1}) ELSE "none"
                          /\ m = CHOOSE x \in Chosen(h[i].ws, s) : TRUE
            OBVIOUS
        <2>2. a \in {"none", "ok", "notfound"} /\ (a # "none" => job[i].left = {s})
            BY <2>1 DEF BatchAnswer
        <2>3. log' = Append(log, Version(i, m, TRUE)) /\ m \in Chosen(h[i].ws, s)
            BY <1>2, <1>4, <2>1
        <2>4. Tried(i, s, {Len(log) + 1}, {}, a)
            BY <1>2, <1>4, <2>1, Zenon DEF Tried
        <2> QED
            BY <1>1, <2>2, <2>3, <2>4, RemovedAnswers
    <1> QED
        BY <1>3, <1>4

-----------------------------------------------------------------------------
(***************************************************************************)
(* What was stored before the daemon ran.                                  *)
(***************************************************************************)
\* The version that a name has at first.
Old(n) ==
    [ws |-> Global, name |-> n, dead |-> FALSE, after |-> 0, by |-> None,
     client |-> None, id |-> 0, expected |-> 0]

\* A set of such versions is finite, and has an order without repetition.
LEMMA StoredOnce ==
    ASSUME NEW stored \in SUBSET Names, NEW S, S = {Old(n) : n \in stored}
    PROVE  /\ Cardinality(S) \in Nat /\ SetToSeq(S) \in [1 .. Cardinality(S) -> S]
           /\ IsInjective(SetToSeq(S))
    <1>1. IsFiniteSet(BOOLEAN)
        <2>1. IsFiniteSet({}) /\ IsFiniteSet({} \union {TRUE})
            BY FS_EmptySet, FS_AddElement
        <2>2. IsFiniteSet(({} \union {TRUE}) \union {FALSE})
            BY <2>1, FS_AddElement
        <2>3. ({} \union {TRUE}) \union {FALSE} = BOOLEAN
            OBVIOUS
        <2> QED
            BY <2>2, <2>3
    <1>2. IsFiniteSet(Bases \X BOOLEAN)
        BY <1>1, FS_Product, RequestsAssumption
    <1> DEFINE f == [x \in S |-> <<x.name.base, x.name.todo>>]
    <1>3. f \in [S -> Bases \X BOOLEAN]
        BY DEF Old, Names
    <1>4. \A x, y \in S : f[x] = f[y] => x = y
        <2> TAKE x, y \in S
        <2>1. PICK n \in stored, m \in stored : x = Old(n) /\ y = Old(m)
            OBVIOUS
        <2>2. x.name = n /\ y.name = m /\ n \in Names /\ m \in Names
            BY <2>1 DEF Old
        <2>3. n.base = m.base /\ n.todo = m.todo => n = m
            BY <2>2 DEF Names
        <2> QED
            BY <2>1, <2>2, <2>3
    <1> HIDE DEF f
    <1>5. f \in Injection(S, Bases \X BOOLEAN)
        BY <1>3, <1>4 DEF Injection, IsInjective
    <1>6. IsFiniteSet(S)
        BY <1>2, <1>5, FS_Injection
    <1>7. Cardinality(S) \in Nat /\ ExistsBijection(1 .. Cardinality(S), S)
        BY <1>6, FS_CardinalityType
    <1>8. \E g \in [1 .. Cardinality(S) -> S] : IsInjective(g)
        BY <1>7 DEF ExistsBijection, Bijection, Injection
    <1> QED
        BY <1>7, <1>8 DEF SetToSeq

\* Before the first request everything that is to be remembered holds.
LEMMA AnswersStart ==
    ASSUME Init PROVE Answers
    <1>1. PICK stored \in SUBSET Names : log = SetToSeq({Old(n) : n \in stored})
        BY DEF Init, Old
    <1>2. PICK S : S = {Old(n) : n \in stored}
        OBVIOUS
    <1>3. PICK N : N = Cardinality(S)
        OBVIOUS
    <1>4. N \in Nat /\ log \in [1 .. N -> S] /\ IsInjective(log)
        BY <1>1, <1>2, <1>3, StoredOnce
    <1>5. \A x \in S : x \in Versions /\ x = Old(x.name) /\ x.after = 0 /\ x.id = 0 /\ ~x.dead
        <2> TAKE x \in S
        <2>1. PICK n \in stored : x = Old(n)
            BY <1>2
        <2>2. Old(n) \in Versions
            BY EngineAssumption DEF Old, Versions
        <2>3. x.name = n /\ x.after = 0 /\ x.id = 0 /\ ~x.dead
            BY <2>1 DEF Old
        <2> QED
            BY <2>1, <2>2, <2>3
    <1>6. log \in Seq(Versions) /\ Refs = 1 .. N /\ Len(log) = N
        <2>1. log \in [1 .. N -> Versions]
            BY <1>4, <1>5
        <2>2. log \in Seq(Versions)
            BY <1>4, <2>1
        <2>3. DOMAIN log = 1 .. N
            BY <1>4
        <2> QED
            BY <1>4, <2>2, <2>3 DEF Refs
    <1>7. \A r \in Refs : log[r] \in S
        BY <1>4, <1>6
    <1>8. LogTypes
        BY <1>4, <1>5, <1>6, <1>7 DEF LogTypes
    <1>9. HeadsExist
        <2>1. \A r, x \in Refs : log[r].name = log[x].name => r = x
            <3> TAKE r, x \in Refs
            <3>1. log[r] = Old(log[r].name) /\ log[x] = Old(log[x].name)
                BY <1>5, <1>7
            <3>2. DOMAIN log = Refs
                BY DEF Refs
            <3> QED
                BY <1>4, <3>1, <3>2 DEF IsInjective
        <2>2. ASSUME NEW w \in Workspaces, NEW n \in Names, NEW k \in 0 .. Len(log)
              PROVE  HasLast({r \in 1 .. k : log[r].ws = w /\ log[r].name = n})
            <3> DEFINE mine == {r \in 1 .. k : log[r].ws = w /\ log[r].name = n}
            <3>1. \A r, x \in mine : r = x /\ r \in Nat
                BY <1>4, <1>6, <2>1
            <3> HIDE DEF mine
            <3>2. mine = {} \/ \E r \in mine : \A x \in mine : x <= r
                BY <3>1
            <3> QED
                BY <3>2 DEF HasLast, mine
        <2> QED
            BY <2>2 DEF HeadsExist
    <1>10. /\ job = [i \in Handlers |-> NoJob] /\ wish = [c \in Clients |-> NoWish]
           /\ requests = 0 /\ faults = 0 /\ stops = 0 /\ h = [i \in Handlers |-> Free]
        BY DEF Init, EngineInit
    <1>11. /\ NoJob.op = "none" /\ NoJob.client = None /\ NoJob.left = {} /\ NoJob.asked = {}
           /\ NoJob.missing = {} /\ NoJob.rows = {} /\ NoJob.from = 0 /\ NoJob.ref = 0 /\ NoJob.id = 0
           /\ NoJob \in Jobs
        BY FreshJobs DEF NoJob
    <1>12. JobTypes
        <2>1. job \in [Handlers -> Jobs]
            BY <1>10, <1>11
        <2>2. ASSUME NEW i \in Handlers PROVE Sound(i)
            <3>1. job[i] = NoJob /\ At(i, "free") /\ 0 <= Len(log)
                BY <1>4, <1>6, <1>10 DEF At, Free
            <3> QED
                BY <1>11, <3>1 DEF Sound
        <2> QED
            BY <2>1, <2>2 DEF JobTypes
    <1>13. WishTypes
        <2>1. NoWish \in Wishes /\ ~NoWish.open
            BY DEF NoWish, Wishes, Vias
        <2> QED
            BY <1>10, <2>1 DEF WishTypes
    <1>14. OneEach /\ Counts
        BY <1>10, <1>11, RequestsAssumption DEF OneEach, Counts
    <1>15. \A i \in Handlers : ~Saves(i) /\ Listing(i) /\ Deleting(i)
        BY <1>10, <1>11 DEF Saves, Listing, Deleting
    <1>16. \A r \in Refs : log[r].id = 0
        BY <1>5, <1>7
    <1>17. SavesAgree /\ WrittenOnce
        BY <1>15, <1>16 DEF SavesAgree, WrittenOnce
    <1> QED
        BY <1>8, <1>9, <1>12, <1>13, <1>14, <1>15, <1>17 DEF Answers

-----------------------------------------------------------------------------
(***************************************************************************)
(* Every step, and what follows.                                           *)
(***************************************************************************)
\* Nothing happens.
LEMMA StutterAnswers ==
    ASSUME Inv, Answers, UNCHANGED vars PROVE Answers'
    <1>1. UNCHANGED <<log, job, wish, requests, faults, h, stops>>
        BY DEF vars, clients, engine
    <1>2. \A k \in Handlers : Apart(k)
        BY <1>1 DEF Apart, At
    <1>3. WishTypes' /\ SameMeaning /\ Counts'
        BY <1>1 DEF Answers, WishTypes, SameMeaning, Meant, Counts
    <1> QED
        BY <1>1, <1>2, <1>3, QuietAnswers

\* What requests have seen and made stays true in every step.
LEMMA AnswersStep ==
    ASSUME Inv, Answers, [Next]_vars PROVE Answers'
    <1>1. ASSUME NEW i \in Handlers, Serve(i) PROVE Answers'
        <2>1. CASE Resolve(i) /\ UNCHANGED clients
            BY <2>1, ResolveAnswers
        <2>2. CASE FindBase(i)
            BY <2>2, FindBaseAnswers
        <2>3. CASE CallSave(i)
            BY <2>3, SaveAnswers
        <2>4. CASE CallRead(i)
            BY <2>4, ReadAnswers
        <2>5. CASE CallList(i)
            BY <2>5, ListAnswers
        <2>6. CASE CallDelete(i)
            BY <2>6, DeleteAnswers
        <2>7. CASE CallFails(i)
            BY <2>7, MarksAnswer
        <2>8. CASE Unresolved(i)
            BY <2>8, ResolveAnswers
        <2>9. CASE Reply(i)
            BY <2>9, ReplyAnswers
        <2> QED
            BY <1>1, <2>1, <2>2, <2>3, <2>4, <2>5, <2>6, <2>7, <2>8, <2>9 DEF Serve
    <1>2. ASSUME NEW c \in Clients, NEW i \in Handlers, Request(c, i) PROVE Answers'
        BY <1>2, RequestAnswers
    <1>3. ASSUME NEW c \in Clients, GiveUpWish(c) PROVE Answers'
        BY <1>3, OthersAnswers
    <1>4. ASSUME NEW i \in Handlers, Abandon(i) PROVE Answers'
        BY <1>4, MarksAnswer
    <1>5. CASE Daemon /\ UNCHANGED clients
        BY <1>5, OthersAnswers
    <1>6. CASE Ends
        BY <1>6, EndsAnswers
    <1>7. CASE UNCHANGED vars
        BY <1>7, StutterAnswers
    <1> QED
        BY <1>1, <1>2, <1>3, <1>4, <1>5, <1>6, <1>7 DEF Next

\* The inductive invariant: what each request has seen and done, against the log.
THEOREM AnswersInvariance == Spec => [](Inv /\ Answers)
    <1>1. Init => Inv /\ Answers
        BY Starts, AnswersStart
    <1>2. Inv /\ Answers /\ [Next]_vars => (Inv /\ Answers)'
        BY StepKeeps, AnswersStep
    <1> QED
        BY <1>1, <1>2, PTL DEF Spec

\* A request is one of the five kinds and has a handler exactly while it lasts, no
\* client waits for two of them, and what one has found is in the log.
THEOREM RequestsTypeCorrect == Spec => []TypeOK
    <1>1. Inv /\ Answers => TypeOK
        <2> SUFFICES ASSUME Inv, Answers PROVE TypeOK
            OBVIOUS
        <2>1. \A r \in Refs : log[r].ws \in Workspaces /\ log[r].name \in Names /\ log[r].after < r
            BY LogRefs DEF Answers, LogTypes, Versions
        <2>2. \A i \in Handlers :
                  /\ job[i].op \in {"none", "save", "read", "list", "delete"}
                  /\ job[i].op = "none" <=> At(i, "free")
                  /\ job[i].left \subseteq job[i].asked
                  /\ job[i].rows \subseteq Refs
            BY DEF Answers, JobTypes, Jobs, Sound
        <2>3. ASSUME NEW c \in Clients
              PROVE  Cardinality({i \in Handlers : job[i].client = c /\ ~job[i].gone}) <= 1
            <3> DEFINE W == {i \in Handlers : job[i].client = c /\ ~job[i].gone}
            <3>1. \A i, k \in W : i = k
                BY RequestsAssumption DEF Answers, OneEach
            <3> HIDE DEF W
            <3>2. CASE W = {}
                <4>1. Cardinality(W) = 0
                    BY <3>2, FS_EmptySet
                <4> QED
                    BY <4>1 DEF W
            <3>3. CASE W # {}
                <4>1. PICK i : W = {i}
                    BY <3>1, <3>3
                <4>2. Cardinality(W) = 1
                    BY <4>1, FS_Singleton
                <4> QED
                    BY <4>2 DEF W
            <3> QED
                BY <3>2, <3>3
        <2>4. EngineTypeOK /\ requests \in 0 .. MaxRequests /\ stops + faults <= MaxTroubles
            BY DEF Inv, EInv, Answers, Counts
        <2> QED
            BY <2>1, <2>2, <2>3, <2>4 DEF TypeOK
    <1> QED
        BY <1>1, AnswersInvariance, PTL

\* A save that expects a version is made at most once, however often and at
\* whatever time its client makes it again (ExpectedPrevRef, saveOnce).
THEOREM SavesOnce == Spec => []WrittenOnce
    <1>1. Answers => WrittenOnce
        BY DEF Answers
    <1> QED
        BY <1>1, AnswersInvariance, PTL

\* A listing of any number of prefixes, and a read by name, show what was current
\* at some moment of the request and miss nothing that was current throughout
\* (listArtifacts, resolveTodoBaseName).
THEOREM ListingsTrue == Spec => []ListingTrue
    <1>1. Inv /\ Answers => ListingTrue
        <2> SUFFICES ASSUME Inv, Answers, NEW i \in Handlers,
                            job[i].op \in {"list", "read"}, job[i].answer \in {"ok", "notfound"}
                     PROVE  /\ \A r \in job[i].rows : Current(i, r)
                            /\ \A n \in Wanted(job[i]) : Shown(i, n)
            BY DEF ListingTrue, Current, Shown
        <2>1. Listing(i)
            BY DEF Answers
        <2>2. CASE job[i].op = "read"
            BY <2>1, <2>2 DEF Listing, Wanted
        <2>3. CASE job[i].op = "list"
            <3>1. job[i].left = {} /\ Wanted(job[i]) = UNION job[i].asked
                BY <2>1, <2>3 DEF Listing, Wanted
            <3> QED
                BY <2>1, <2>3, <3>1 DEF Listing
        <2> QED
            BY <2>2, <2>3
    <1> QED
        BY <1>1, AnswersInvariance, PTL

\* The account that a deletion of several artifacts gives is what happened, an
\* error half way included (handleAPIDelete).
THEOREM BatchesTrue == Spec => []BatchTrue
    <1>1. Inv /\ Answers => BatchTrue
        <2> SUFFICES ASSUME Inv, Answers, NEW i \in Handlers,
                            job[i].op = "delete", job[i].answer # "none"
                     PROVE  /\ job[i].rows = {r \in Refs : r > job[i].from /\ log[r].by = i}
                            /\ \A r \in job[i].rows : log[r].dead
                            /\ \A s \in job[i].asked \ (job[i].left \union job[i].missing) :
                                  \E r \in job[i].rows : Hits(s, r)
                            /\ \A s \in job[i].left \union job[i].missing :
                                  ~\E r \in job[i].rows : Hits(s, r)
                            /\ \A s \in job[i].missing : Missed(i, s)
                            /\ job[i].answer # "error" => job[i].left = {}
            BY DEF BatchTrue, Hits, Missed
        <2>1. Deleting(i)
            BY DEF Answers
        <2> QED
            BY <2>1 DEF Deleting
    <1> QED
        BY <1>1, AnswersInvariance, PTL

=============================================================================
