----------------------------- MODULE ArtifactStore -----------------------------
(***************************************************************************)
(* One workspace of the artifact store: the SQLite repository of           *)
(* local-artifact (tables "artifacts" and "versions") together with the    *)
(* content-addressed blob store beside it, used by concurrent requests.    *)
(*                                                                         *)
(* A client is one request being served: a goroutine of the daemon, or of  *)
(* another process that has opened the same workspace.  Every client sees  *)
(* the committed tables (WAL snapshot reads); a write transaction takes    *)
(* SQLite's single write lock when it begins (_txlock=immediate).          *)
(*                                                                         *)
(* A row of "artifacts" is a record [latest, deleted]; a missing row and a *)
(* row whose latest_version_id is NULL are both written latest = NoRef:    *)
(* every statement of the code treats the two alike.  A payload is its     *)
(* digest, and the blob store is the set of digests whose file is in place.*)
(***************************************************************************)
EXTENDS Naturals, FiniteSets

CONSTANTS
    Clients,     \* concurrent requests
    Names,       \* artifact names
    Refs,        \* version references; a generator may return any of them
    Digests,     \* SHA-256 digests of payloads
    NoClient,    \* nobody holds the write lock
    NoName,      \* empty selector name
    NoRef,       \* SQL NULL, or an empty reference
    NoDigest,    \* SQL NULL payload
    MaxAttempts, \* how often a transaction is tried on a busy database (3)
    Limit        \* the limit of a version listing

ASSUME StoreAssumption ==
    /\ NoClient \notin Clients
    /\ NoName \notin Names
    /\ NoRef \notin Refs
    /\ NoDigest \notin Digests
    /\ MaxAttempts \in Nat \ {0}
    /\ Limit \in Nat \ {0}

VARIABLES
    artifacts,   \* name -> [latest, deleted], the committed table
    versions,    \* the committed rows of the versions table
    blobs,       \* digests whose blob file exists
    writer,      \* the client that holds SQLite's write lock
    pc,          \* where each client's request is
    req,         \* its arguments
    attempt,     \* failed attempts of its transaction so far
    cur,         \* the version reference it reads next, or has resolved
    rows,        \* version rows it has staged (writes) or read (reads)
    status       \* the outcome it is about to return

db     == <<artifacts, versions, blobs>>
client == <<pc, req, attempt, cur, rows, status>>
vars   == <<artifacts, versions, blobs, writer, pc, req, attempt, cur, rows, status>>

(***************************************************************************)
(* Rows and requests                                                       *)
(***************************************************************************)
VersionRow ==
    [ref: Refs, name: Names, parent: Refs \union {NoRef},
     digest: Digests \union {NoDigest}, tomb: BOOLEAN]

ArtifactRow == [latest: Refs \union {NoRef}, deleted: BOOLEAN]

Ops == {"none", "save", "delete", "resolve", "get", "list", "versions"}

Request ==
    [op: Ops, name: Names \union {NoName}, ref: Refs \union {NoRef},
     expected: Refs \union {NoRef}, digest: Digests \union {NoDigest}]

\* A request that only selects: an artifact by name, a version by reference.
Select(op, name, ref) ==
    [op |-> op, name |-> name, ref |-> ref, expected |-> NoRef, digest |-> NoDigest]

NoRequest == Select("none", NoName, NoRef)

\* An artifact that Resolve and Get find by name.
Live(row) == ~row.deleted /\ row.latest # NoRef

Outcomes == {"none", "ok", "conflict", "notfound", "error"}

Locations ==
    {"idle", "put", "begin", "body", "commit", "read", "meta", "blob", "walk", "reply"}

TypeOK ==
    /\ artifacts \in [Names -> ArtifactRow]
    /\ versions \subseteq VersionRow
    /\ blobs \subseteq Digests
    /\ writer \in Clients \union {NoClient}
    /\ pc \in [Clients -> Locations]
    /\ req \in [Clients -> Request]
    /\ attempt \in [Clients -> 0 .. MaxAttempts - 1]
    /\ cur \in [Clients -> Refs \union {NoRef}]
    /\ rows \in [Clients -> SUBSET VersionRow]
    /\ status \in [Clients -> Outcomes]

Init ==
    /\ artifacts = [n \in Names |-> [latest |-> NoRef, deleted |-> FALSE]]
    /\ versions = {}
    /\ blobs = {}
    /\ writer = NoClient
    /\ pc = [c \in Clients |-> "idle"]
    /\ req = [c \in Clients |-> NoRequest]
    /\ attempt = [c \in Clients |-> 0]
    /\ cur = [c \in Clients |-> NoRef]
    /\ rows = [c \in Clients |-> {}]
    /\ status = [c \in Clients |-> "none"]

-----------------------------------------------------------------------------
(***************************************************************************)
(* Calls.  The service has validated the arguments: a selector names an    *)
(* artifact or a reference and not both; an expected reference, when       *)
(* given, is well formed.  A new reference is a timestamp and 8 random     *)
(* bytes: nothing but the primary key excludes a collision.                *)
(***************************************************************************)
Call(c, r, start) ==
    /\ pc[c] = "idle"
    /\ pc' = [pc EXCEPT ![c] = start]
    /\ req' = [req EXCEPT ![c] = r]
    /\ UNCHANGED <<artifacts, versions, blobs, writer, attempt, rows, status>>

CallSave(c) ==
    \E n \in Names, e \in Refs \union {NoRef}, d \in Digests, r \in Refs :
        /\ Call(c, [op |-> "save", name |-> n, ref |-> r, expected |-> e, digest |-> d], "put")
        /\ UNCHANGED cur

CallDeleteByName(c) ==
    \E n \in Names :
        /\ Call(c, Select("delete", n, NoRef), "begin")
        /\ UNCHANGED cur

CallDeleteByRef(c) ==
    \E r \in Refs :
        /\ Call(c, Select("delete", NoName, r), "begin")
        /\ UNCHANGED cur

\* Resolve, Get by name and ListVersions start by reading the artifact's row.
CallByName(c) ==
    \E n \in Names, op \in {"resolve", "get", "versions"} :
        /\ Call(c, Select(op, n, NoRef), "read")
        /\ UNCHANGED cur

\* Get by reference goes straight to the version.
CallGetByRef(c) ==
    \E r \in Refs :
        /\ Call(c, Select("get", NoName, r), "meta")
        /\ cur' = [cur EXCEPT ![c] = r]

CallList(c) ==
    /\ Call(c, Select("list", NoName, NoRef), "read")
    /\ UNCHANGED cur

\* The request ends with outcome st and the version rows found.
Finish(c, st, found) ==
    /\ pc' = [pc EXCEPT ![c] = "reply"]
    /\ status' = [status EXCEPT ![c] = st]
    /\ rows' = [rows EXCEPT ![c] = found]

\* The client is ready for another request.
Forget(c) ==
    /\ pc' = [pc EXCEPT ![c] = "idle"]
    /\ req' = [req EXCEPT ![c] = NoRequest]
    /\ attempt' = [attempt EXCEPT ![c] = 0]
    /\ cur' = [cur EXCEPT ![c] = NoRef]
    /\ rows' = [rows EXCEPT ![c] = {}]
    /\ status' = [status EXCEPT ![c] = "none"]

Reply(c) ==
    /\ pc[c] = "reply"
    /\ Forget(c)
    /\ UNCHANGED <<artifacts, versions, blobs, writer>>

-----------------------------------------------------------------------------
(***************************************************************************)
(* Save: the blob first, outside any transaction, then the rows.           *)
(***************************************************************************)
\* The file is renamed into place, or it was there already.
Put(d) == blobs' = blobs \union {d}

\* Mutated: goes on although the blob could not be written.
PutErrorIgnored(c) ==
    /\ pc[c] = "put"
    /\ pc' = [pc EXCEPT ![c] = "begin"]
    /\ UNCHANGED <<db, writer, req, attempt, cur, rows, status>>

PutBlob(c) ==
    /\ pc[c] = "put"
    /\ Put(req[c].digest)
    /\ pc' = [pc EXCEPT ![c] = "begin"]
    /\ UNCHANGED <<artifacts, versions, writer, req, attempt, cur, rows, status>>

PutFails(c) ==
    /\ pc[c] = "put"
    /\ Finish(c, "error", {})
    /\ UNCHANGED <<db, writer, req, attempt, cur>>

(***************************************************************************)
(* Transactions.  BEGIN IMMEDIATE waits for the write lock; when it gives  *)
(* up the whole transaction is tried again, MaxAttempts times in all.      *)
(***************************************************************************)
\* Mutated: BEGIN DEFERRED, which does not wait for the writer.
LockIgnored == TRUE
LockFree == writer = NoClient

Begin(c) ==
    /\ pc[c] = "begin"
    /\ LockFree
    /\ writer' = c
    /\ pc' = [pc EXCEPT ![c] = "body"]
    /\ UNCHANGED <<db, req, attempt, cur, rows, status>>

\* Mutated: one attempt too many.
LastAttemptOffByOne(c) == attempt[c] = MaxAttempts
LastAttempt(c) == attempt[c] = MaxAttempts - 1

\* Mutated: waits for the write lock without giving up.
BusyForever(c) ==
    /\ pc[c] = "begin"
    /\ writer # NoClient
    /\ UNCHANGED vars

Busy(c) ==
    /\ pc[c] = "begin"
    /\ writer # NoClient
    /\ IF LastAttempt(c)
       THEN /\ Finish(c, "error", {})
            /\ UNCHANGED attempt
       ELSE /\ attempt' = [attempt EXCEPT ![c] = @ + 1]
            /\ UNCHANGED <<pc, status, rows>>
    /\ UNCHANGED <<db, writer, req, cur>>

\* Mutated: the deferred rollback is missing, so the lock stays taken.
AbortWithoutRollback(c, st) ==
    /\ Finish(c, st, {})
    /\ UNCHANGED <<db, writer, req, attempt, cur>>

\* Rollback by the deferred call: nothing was published, the lock is free.
Abort(c, st) ==
    /\ Finish(c, st, {})
    /\ writer' = NoClient
    /\ UNCHANGED <<db, req, attempt, cur>>

\* The version goes to the transaction's own view of the tables.
Stage(c, v) ==
    /\ rows' = [rows EXCEPT ![c] = {v}]
    /\ pc' = [pc EXCEPT ![c] = "commit"]
    /\ UNCHANGED <<db, writer, req, attempt, cur, status>>

\* Mutated: an expected reference is not compared with the current one.
ExpectationIgnored(expected, latest) == TRUE
ExpectationMet(expected, latest) == expected = NoRef \/ expected = latest

RefTaken(r) == \E v \in versions : v.ref = r

\* Mutated: a save over a tombstone starts a new history.
ParentUnlessDeleted(row) == IF row.deleted THEN NoRef ELSE row.latest
ParentOf(row) == row.latest

SaveOnce(c) ==
    LET r   == req[c]
        row == artifacts[r.name]
    IN  /\ pc[c] = "body" /\ r.op = "save"
        /\ \/ /\ ~ExpectationMet(r.expected, row.latest)
              /\ Abort(c, "conflict")
           \/ /\ ExpectationMet(r.expected, row.latest)
              /\ RefTaken(r.ref)
              /\ Abort(c, "conflict")
           \/ /\ ExpectationMet(r.expected, row.latest)
              /\ ~RefTaken(r.ref)
              /\ Stage(c, [ref |-> r.ref, name |-> r.name, parent |-> ParentOf(row),
                           digest |-> r.digest, tomb |-> FALSE])

\* The name a delete is about: given, or looked up from the reference.
Target(r) ==
    IF r.name # NoName THEN {r.name}
    ELSE {v.name : v \in {w \in versions : w.ref = r.ref}}

\* Mutated: a delete by reference also removes an artifact that moved on.
StaleRefAccepted(r, row) == Live(row)
Deletable(r, row) == Live(row) /\ (r.ref # NoRef => row.latest = r.ref)

DeleteOnce(c) ==
    LET r == req[c]
    IN  /\ pc[c] = "body" /\ r.op = "delete"
        /\ \/ /\ \A n \in Target(r) : ~Deletable(r, artifacts[n])
              /\ Abort(c, "notfound")
           \/ \E n \in Target(r), tombRef \in Refs :
                 /\ Deletable(r, artifacts[n])
                 /\ IF RefTaken(tombRef)
                    THEN Abort(c, "error")
                    ELSE Stage(c, [ref |-> tombRef, name |-> n,
                                   parent |-> ParentOf(artifacts[n]),
                                   digest |-> NoDigest, tomb |-> TRUE])

\* Mutated: a delete does not mark the artifact's row.
PublishedLive(v) == [latest |-> v.ref, deleted |-> FALSE]
Published(v) == [latest |-> v.ref, deleted |-> v.tomb]

Commit(c) ==
    /\ pc[c] = "commit"
    /\ \E v \in rows[c] :
          /\ versions' = versions \union {v}
          /\ artifacts' = [artifacts EXCEPT ![v.name] = Published(v)]
    /\ Finish(c, "ok", rows[c])
    /\ writer' = NoClient
    /\ UNCHANGED <<blobs, req, attempt, cur>>

\* A statement or COMMIT fails, or the request's context is cancelled.
TxFails(c) ==
    /\ pc[c] \in {"body", "commit"}
    /\ Abort(c, "error")

-----------------------------------------------------------------------------
(***************************************************************************)
(* Reads.  Get by name and ListVersions are several statements, each on    *)
(* its own snapshot: writers commit between them.                          *)
(***************************************************************************)
Resolve(c) ==
    LET row == artifacts[req[c].name]
    IN  /\ pc[c] = "read" /\ req[c].op = "resolve"
        /\ IF Live(row)
           THEN /\ Finish(c, "ok", {})
                /\ cur' = [cur EXCEPT ![c] = row.latest]
           ELSE /\ Finish(c, "notfound", {})
                /\ UNCHANGED cur
        /\ UNCHANGED <<db, writer, req, attempt>>

List(c) ==
    /\ pc[c] = "read" /\ req[c].op = "list"
    /\ Finish(c, "ok", {v \in versions : /\ ~artifacts[v.name].deleted
                                         /\ artifacts[v.name].latest = v.ref})
    /\ UNCHANGED <<db, writer, req, attempt, cur>>

Found(row) == Live(row)

ReadLatest(c) ==
    LET row == artifacts[req[c].name]
    IN  /\ pc[c] = "read" /\ req[c].op \in {"get", "versions"}
        /\ IF Found(row)
           THEN /\ cur' = [cur EXCEPT ![c] = row.latest]
                /\ pc' = [pc EXCEPT ![c] = IF req[c].op = "get" THEN "meta" ELSE "walk"]
                /\ UNCHANGED <<status, rows>>
           ELSE /\ Finish(c, "notfound", {})
                /\ UNCHANGED cur
        /\ UNCHANGED <<db, writer, req, attempt>>

GetMeta(c) ==
    LET meta == {v \in versions : v.ref = cur[c]}
    IN  /\ pc[c] = "meta"
        /\ \/ /\ meta = {}
              /\ Finish(c, "notfound", {})
           \/ \E v \in meta :
                 IF v.tomb \/ v.digest = NoDigest
                 THEN Finish(c, "ok", {v})
                 ELSE /\ rows' = [rows EXCEPT ![c] = {v}]
                      /\ pc' = [pc EXCEPT ![c] = "blob"]
                      /\ UNCHANGED status
        /\ UNCHANGED <<db, writer, req, attempt, cur>>

GetBlob(c) ==
    /\ pc[c] = "blob"
    /\ \E v \in rows[c] :
          IF v.digest \in blobs THEN Finish(c, "ok", {v}) ELSE Finish(c, "notfound", {})
    /\ UNCHANGED <<db, writer, req, attempt, cur>>

ListVersions(c) ==
    LET meta == {v \in versions : v.ref = cur[c]}
        done == \/ cur[c] = NoRef
                \/ Cardinality(rows[c]) >= Limit
                \/ \E v \in rows[c] : v.ref = cur[c]
                \/ meta = {}
    IN  /\ pc[c] = "walk"
        /\ \/ /\ done
              /\ Finish(c, IF rows[c] = {} THEN "notfound" ELSE "ok", rows[c])
              /\ UNCHANGED cur
           \/ /\ ~done
              /\ \E v \in meta :
                    /\ rows' = [rows EXCEPT ![c] = @ \union {v}]
                    /\ cur' = [cur EXCEPT ![c] = v.parent]
              /\ UNCHANGED <<pc, status>>
        /\ UNCHANGED <<db, writer, req, attempt>>

\* A query or a file read fails.
ReadFails(c) ==
    /\ pc[c] \in {"read", "meta", "blob", "walk"}
    /\ Finish(c, "error", {})
    /\ UNCHANGED <<db, writer, req, attempt, cur>>

-----------------------------------------------------------------------------
\* The serving process dies: SQLite rolls an open transaction back, and a
\* committed one stays although nobody is told.
Crash(c) ==
    /\ pc[c] # "idle"
    /\ Forget(c)
    /\ writer' = IF writer = c THEN NoClient ELSE writer
    /\ UNCHANGED db

Serve(c) ==
    \/ PutBlob(c) \/ PutFails(c)
    \/ Begin(c) \/ Busy(c) \/ SaveOnce(c) \/ DeleteOnce(c) \/ Commit(c) \/ TxFails(c)
    \/ Resolve(c) \/ List(c) \/ ReadLatest(c) \/ GetMeta(c) \/ GetBlob(c)
    \/ ListVersions(c) \/ ReadFails(c)
    \/ Reply(c)

Invoke(c) ==
    \/ CallSave(c) \/ CallDeleteByName(c) \/ CallDeleteByRef(c)
    \/ CallByName(c) \/ CallGetByRef(c) \/ CallList(c)

Next == \E c \in Clients : Invoke(c) \/ Serve(c) \/ Crash(c)

Spec == Init /\ [][Next]_vars

\* A request that is being served keeps being scheduled; whether a request
\* arrives, and whether a process dies, is not assumed.
FairSpec == Spec /\ \A c \in Clients : WF_vars(Serve(c))

-----------------------------------------------------------------------------
(***************************************************************************)
(* Properties                                                              *)
(***************************************************************************)

\* The versions of a name are one line: no two rows share a reference or
\* succeed the same version, every parent is a row of the same name, and a
\* version nobody succeeded is the one its artifact points to.  Breaks when
\* two concurrent saves read the same latest version.
LinearHistory ==
    /\ \A v, w \in versions :
          v.ref = w.ref \/ (v.name = w.name /\ v.parent = w.parent) => v = w
    /\ \A v \in versions :
          v.parent # NoRef =>
              \E w \in versions : w.ref = v.parent /\ w.name = v.name /\ w # v
    /\ \A v \in versions :
          \/ artifacts[v.name].latest = v.ref
          \/ \E w \in versions : w.parent = v.ref

\* The row of an artifact points to a version of that name that nobody
\* succeeded, and says "deleted" exactly when that version is a tombstone;
\* an artifact without a latest version has no versions at all.
HeadMatches ==
    \A n \in Names :
        \/ /\ artifacts[n] = [latest |-> NoRef, deleted |-> FALSE]
           /\ \A v \in versions : v.name # n
        \/ \E v \in versions :
              /\ v.name = n
              /\ artifacts[n] = [latest |-> v.ref, deleted |-> v.tomb]
              /\ \A w \in versions : w.parent # v.ref

\* A committed version that is no tombstone has its payload in the blob
\* store: the blob is in place before the transaction that names it.
PayloadsDurable ==
    \A v \in versions : IF v.tomb THEN v.digest = NoDigest ELSE v.digest \in blobs

\* Two requests that save with the same expected reference do not both
\* succeed.
Won(c) ==
    pc[c] = "reply" /\ status[c] = "ok" /\ req[c].op = "save" /\ req[c].expected # NoRef

OneWinner ==
    \A c, d \in Clients :
        Won(c) /\ Won(d) /\ req[c].expected = req[d].expected => c = d

\* An artifact's row changes only together with a new version that succeeds
\* the version the row pointed to; no version is ever changed or removed.
HeadAdvances ==
    [][/\ versions \subseteq versions'
       /\ \A n \in Names :
             artifacts'[n] # artifacts[n] =>
                \E v \in versions' \ versions :
                    /\ v.name = n
                    /\ v.parent = artifacts[n].latest
                    /\ artifacts'[n] = [latest |-> v.ref, deleted |-> v.tomb]]_vars

(***************************************************************************)
(* The inductive invariant.  Only the holder of the write lock is inside a *)
(* transaction, so what it has staged still fits the committed tables when *)
(* it commits; the payload of a save is in place before its transaction    *)
(* begins; and no two successful saves carry the same reference.           *)
(***************************************************************************)
InTransaction(c) == pc[c] \in {"body", "commit"}

\* The write lock belongs to the client inside a transaction, if any.
LockOwned ==
    \A c \in Clients : InTransaction(c) <=> writer = c

\* A save carries a name, a reference and a payload; a read by name a name.
SaveWellFormed(r) == r.name \in Names /\ r.ref \in Refs /\ r.digest \in Digests

RequestsWellFormed ==
    \A c \in Clients :
        /\ pc[c] = "put" => req[c].op = "save"
        /\ pc[c] = "read" /\ req[c].op # "list" => req[c].name \in Names
        /\ pc[c] \in {"read", "meta", "blob", "walk"} => req[c].op # "save"
        /\ req[c].op = "save" => SaveWellFormed(req[c])
        /\ req[c].op = "save" /\ pc[c] \in {"begin", "body"} => req[c].digest \in blobs

\* A staged version continues the history of its name.
Fits(c, v) ==
    /\ v \in VersionRow
    /\ v.parent = artifacts[v.name].latest
    /\ ~RefTaken(v.ref)
    /\ IF v.tomb THEN v.digest = NoDigest ELSE v.digest \in blobs
    /\ req[c].op = "save" =>
          /\ v.ref = req[c].ref
          /\ req[c].expected # NoRef => v.parent = req[c].expected

StagedFits == \A c \in Clients : pc[c] = "commit" => \E v \in rows[c] : rows[c] = {v} /\ Fits(c, v)

Saved(c) == pc[c] = "reply" /\ status[c] = "ok" /\ req[c].op = "save"

SavesRecorded ==
    /\ \A c \in Clients : Saved(c) =>
          \E v \in versions :
             /\ v.ref = req[c].ref
             /\ req[c].expected # NoRef => v.parent = req[c].expected
    /\ \A c, d \in Clients : Saved(c) /\ Saved(d) /\ req[c].ref = req[d].ref => c = d

IInv ==
    /\ TypeOK
    /\ LockOwned
    /\ RequestsWellFormed
    /\ StagedFits
    /\ SavesRecorded
    /\ LinearHistory
    /\ HeadMatches
    /\ PayloadsDurable

\* Every request is answered, or its process dies.
Answered == \A c \in Clients : pc[c] # "idle" ~> pc[c] = "idle"
=============================================================================
