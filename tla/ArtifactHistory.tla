---------------------------- MODULE ArtifactHistory ----------------------------
(***************************************************************************)
(* What the artifact store promises its clients: every name has one        *)
(* history, a sequence of saved payloads and deletions that only grows at  *)
(* its end, and every request takes effect at one instant between its call *)
(* and its reply (linearizability).  A request may fail without effect, a  *)
(* client may be left without an answer, and a read that was under way may *)
(* turn into an error.                                                     *)
(***************************************************************************)
EXTENDS Naturals, Sequences

CONSTANTS Clients, Names, Refs, Digests, NoName, NoRef, NoDigest, Limit

VARIABLES
    history,   \* name -> sequence of [ref, digest]; NoDigest is a deletion
    phase,     \* "idle", "called" or "done" (the answer is settled)
    call,      \* the request of each client
    answer     \* its settled answer

vars == <<history, phase, call, answer>>

NoCall ==
    [op |-> "none", name |-> NoName, ref |-> NoRef, expected |-> NoRef, digest |-> NoDigest]

\* The requests that only select: by name, by reference, or all names.
Selections(ops, names, refs) ==
    [op: ops, name: names, ref: refs, expected: {NoRef}, digest: {NoDigest}]

Calls ==
    [op: {"save"}, name: Names, ref: Refs, expected: Refs \union {NoRef}, digest: Digests]
    \union Selections({"delete", "resolve", "get", "versions"}, Names, {NoRef})
    \union Selections({"delete", "get"}, {NoName}, Refs)
    \union Selections({"list"}, {NoName}, {NoRef})

Answer(status, rows, ref) == [status |-> status, rows |-> rows, ref |-> ref]
NoAnswer == Answer("none", {}, NoRef)

Init ==
    /\ history = [n \in Names |-> <<>>]
    /\ phase = [c \in Clients |-> "idle"]
    /\ call = [c \in Clients |-> NoCall]
    /\ answer = [c \in Clients |-> NoAnswer]

-----------------------------------------------------------------------------
LastOf(n) == history[n][Len(history[n])]
Latest(n) == IF history[n] = <<>> THEN NoRef ELSE LastOf(n).ref
Alive(n) == history[n] # <<>> /\ LastOf(n).digest # NoDigest

\* The version row a client is shown for entry e, which succeeds parent.
RowFor(n, e, parent) ==
    [ref |-> e.ref, name |-> n, parent |-> parent, digest |-> e.digest,
     tomb |-> e.digest = NoDigest]

Row(n, i) ==
    RowFor(n, history[n][i], IF i = 1 THEN NoRef ELSE history[n][i - 1].ref)

AllRows(n) == {Row(n, i) : i \in DOMAIN history[n]}
Used(r) == \E n \in Names : \E i \in DOMAIN history[n] : history[n][i].ref = r

Done(c) ==
    /\ phase' = [phase EXCEPT ![c] = "done"]
    /\ UNCHANGED call

Settle(c, a) == answer' = [answer EXCEPT ![c] = a]

Grow(c, n, e) ==
    /\ history' = [history EXCEPT ![n] = Append(@, e)]
    /\ Settle(c, Answer("ok", {RowFor(n, e, Latest(n))}, NoRef))

Refuse(c, status) ==
    /\ Settle(c, Answer(status, {}, NoRef))
    /\ UNCHANGED history

Show(c, rows, ref) ==
    /\ Settle(c, Answer("ok", rows, ref))
    /\ UNCHANGED history

Save(c) ==
    LET r == call[c]
        refused == Used(r.ref) \/ (r.expected # NoRef /\ r.expected # Latest(r.name))
    IN  /\ r.op = "save"
        /\ IF refused
           THEN Refuse(c, "conflict")
           ELSE Grow(c, r.name, [ref |-> r.ref, digest |-> r.digest])

Delete(c) ==
    LET r == call[c]
        chosen == {n \in Names : /\ Alive(n)
                                 /\ n = r.name \/ (r.name = NoName /\ Latest(n) = r.ref)}
    IN  /\ r.op = "delete"
        /\ IF chosen = {}
           THEN Refuse(c, "notfound")
           ELSE \E n \in chosen, tomb \in Refs :
                   IF Used(tomb)
                   THEN Refuse(c, "error")
                   ELSE Grow(c, n, [ref |-> tomb, digest |-> NoDigest])

Read(c) ==
    LET r == call[c]
    IN  \/ /\ r.op = "resolve"
           /\ IF Alive(r.name) THEN Show(c, {}, Latest(r.name)) ELSE Refuse(c, "notfound")
        \/ /\ r.op = "get" /\ r.name # NoName
           /\ IF Alive(r.name)
              THEN Show(c, {Row(r.name, Len(history[r.name]))}, NoRef)
              ELSE Refuse(c, "notfound")
        \/ /\ r.op = "get" /\ r.ref # NoRef
           /\ LET found == {v \in UNION {AllRows(n) : n \in Names} : v.ref = r.ref}
              IN  IF found = {} THEN Refuse(c, "notfound") ELSE Show(c, found, NoRef)
        \/ /\ r.op = "versions"
           /\ IF Alive(r.name)
              THEN Show(c, {Row(r.name, i) : i \in {j \in DOMAIN history[r.name] :
                                                       j > Len(history[r.name]) - Limit}},
                        NoRef)
              ELSE Refuse(c, "notfound")
        \/ /\ r.op = "list"
           /\ Show(c, {Row(n, Len(history[n])) : n \in {m \in Names : Alive(m)}}, NoRef)

-----------------------------------------------------------------------------
Invoke(c) ==
    /\ phase[c] = "idle"
    /\ phase' = [phase EXCEPT ![c] = "called"]
    /\ \E r \in Calls : call' = [call EXCEPT ![c] = r]
    /\ UNCHANGED <<history, answer>>

TakeEffect(c) ==
    /\ phase[c] = "called"
    /\ Done(c)
    /\ Save(c) \/ Delete(c) \/ Read(c)

\* Only a read may fail after its answer was settled: a write that has
\* taken effect is never reported as an error.
Fail(c) ==
    /\ \/ phase[c] = "called"
       \/ phase[c] = "done" /\ call[c].op \in {"get", "versions"}
    /\ Done(c)
    /\ Refuse(c, "error")

Leave(c) ==
    /\ phase[c] # "idle"
    /\ phase' = [phase EXCEPT ![c] = "idle"]
    /\ call' = [call EXCEPT ![c] = NoCall]
    /\ answer' = [answer EXCEPT ![c] = NoAnswer]
    /\ UNCHANGED history

Next == \E c \in Clients : Invoke(c) \/ TakeEffect(c) \/ Fail(c) \/ Leave(c)

Spec == Init /\ [][Next]_vars
=============================================================================
