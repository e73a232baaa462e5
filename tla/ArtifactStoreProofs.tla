-------------------------- MODULE ArtifactStoreProofs --------------------------
(***************************************************************************)
(* The safety properties of ArtifactStore, proved for any sets of clients, *)
(* names, references and digests, any number of attempts and any listing   *)
(* limit.                                                                  *)
(***************************************************************************)
EXTENDS ArtifactStore, TLAPS

\* The store begins empty, with no request under way.
LEMMA InitIInv == Init => IInv
  <1> SUFFICES ASSUME Init PROVE IInv
    OBVIOUS
  <1> USE StoreAssumption DEF Init
  <1>1. TypeOK
    BY DEF TypeOK, ArtifactRow, NoRequest, Select, Request, Ops, Outcomes, Locations
  <1>2. LockOwned
    BY DEF LockOwned, InTransaction
  <1>3. RequestsWellFormed
    BY DEF RequestsWellFormed, NoRequest, Select
  <1>4. StagedFits /\ SavesRecorded
    BY DEF StagedFits, SavesRecorded, Saved
  <1>5. LinearHistory /\ HeadMatches /\ PayloadsDurable
    BY DEF LinearHistory, HeadMatches, PayloadsDurable
  <1>6. QED
    BY <1>1, <1>2, <1>3, <1>4, <1>5 DEF IInv

-----------------------------------------------------------------------------
(***************************************************************************)
(* Type correctness, one step per action.                                  *)
(***************************************************************************)
LEMMA CallType ==
  ASSUME TypeOK, NEW c \in Clients, NEW r \in Request, NEW start \in Locations,
         Call(c, r, start), cur' \in [Clients -> Refs \union {NoRef}]
  PROVE  TypeOK'
  BY DEF TypeOK, Call

\* Every request has all fields of a process.
LEMMA RequestType ==
  ASSUME NEW op \in Ops
  PROVE  /\ NoRequest \in Request
         /\ \A n \in Names \union {NoName}, r \in Refs \union {NoRef} :
               Select(op, n, r) \in Request
  BY DEF Request, NoRequest, Select, Ops

\* A request that begins.
LEMMA InvokeType ==
  ASSUME TypeOK, NEW c \in Clients, Invoke(c)
  PROVE  TypeOK'
  <1>1. cur \in [Clients -> Refs \union {NoRef}]
    BY DEF TypeOK
  <1>2. {"put", "begin", "read", "meta"} \subseteq Locations
    BY DEF Locations
  <1>3. {"save", "delete", "resolve", "get", "versions", "list"} \subseteq Ops
    BY DEF Ops
  <1>4. CASE CallSave(c)
    <2>1. PICK n \in Names, e \in Refs \union {NoRef}, d \in Digests, r \in Refs :
            Call(c, [op |-> "save", name |-> n, ref |-> r, expected |-> e, digest |-> d], "put")
      BY <1>4 DEF CallSave
    <2>2. [op |-> "save", name |-> n, ref |-> r, expected |-> e, digest |-> d] \in Request
      BY DEF Request, Ops
    <2>3. QED
      BY <1>1, <1>2, <1>4, <2>1, <2>2, CallType DEF CallSave
  <1>5. CASE CallDeleteByName(c)
    BY <1>1, <1>2, <1>3, <1>5, CallType, RequestType DEF CallDeleteByName
  <1>6. CASE CallDeleteByRef(c)
    BY <1>1, <1>2, <1>3, <1>6, CallType, RequestType DEF CallDeleteByRef
  <1>7. CASE CallByName(c)
    BY <1>1, <1>2, <1>3, <1>7, CallType, RequestType DEF CallByName
  <1>8. CASE CallGetByRef(c)
    <2>1. PICK r \in Refs : Call(c, Select("get", NoName, r), "meta")
                            /\ cur' = [cur EXCEPT ![c] = r]
      BY <1>8 DEF CallGetByRef
    <2>2. cur' \in [Clients -> Refs \union {NoRef}]
      BY <1>1, <2>1
    <2>3. QED
      BY <1>2, <1>3, <2>1, <2>2, CallType, RequestType
  <1>9. CASE CallList(c)
    BY <1>1, <1>2, <1>3, <1>9, CallType, RequestType DEF CallList
  <1>10. QED
    BY <1>4, <1>5, <1>6, <1>7, <1>8, <1>9 DEF Invoke

\* A request that fails.
LEMMA AbortType ==
  ASSUME TypeOK, NEW c \in Clients, NEW st \in Outcomes, Abort(c, st)
  PROVE  TypeOK'
  BY DEF TypeOK, Abort, Finish, Locations, db

\* A blob that is staged.
LEMMA StageType ==
  ASSUME TypeOK, NEW c \in Clients, NEW v \in VersionRow, Stage(c, v)
  PROVE  TypeOK'
  BY DEF TypeOK, Stage, Locations, db

\* Every step of a request keeps the types.
LEMMA ServeType ==
  ASSUME TypeOK, RequestsWellFormed, StagedFits, NEW c \in Clients, Serve(c)
  PROVE  TypeOK'
  <1> USE StoreAssumption DEF TypeOK, Locations, Outcomes
  <1>1. CASE PutBlob(c)
    BY <1>1 DEF PutBlob, Put, RequestsWellFormed, SaveWellFormed
  <1>2. CASE PutFails(c)
    BY <1>2 DEF PutFails, Finish, db
  <1>3. CASE Begin(c)
    BY <1>3 DEF Begin, db
  <1>4. CASE Busy(c)
    BY <1>4 DEF Busy, LastAttempt, Finish, db
  <1>5. CASE SaveOnce(c)
    <2> DEFINE v == [ref |-> req[c].ref, name |-> req[c].name,
                     parent |-> artifacts[req[c].name].latest,
                     digest |-> req[c].digest, tomb |-> FALSE]
    <2>1. Abort(c, "conflict") \/ Stage(c, v)
      BY <1>5 DEF SaveOnce, ParentOf
    <2>2. v \in VersionRow
      BY <1>5 DEF SaveOnce, RequestsWellFormed, SaveWellFormed, VersionRow, ArtifactRow
    <2>3. QED
      BY <2>1, <2>2, AbortType, StageType
  <1>6. CASE DeleteOnce(c)
    <2>1. \/ Abort(c, "notfound")
          \/ Abort(c, "error")
          \/ \E n \in Target(req[c]), tombRef \in Refs :
                Stage(c, [ref |-> tombRef, name |-> n, parent |-> artifacts[n].latest,
                          digest |-> NoDigest, tomb |-> TRUE])
      BY <1>6 DEF DeleteOnce, ParentOf
    <2>2. Target(req[c]) \subseteq Names
      BY DEF Target, VersionRow, Request
    <2>3. ASSUME NEW n \in Names, NEW tombRef \in Refs
          PROVE  [ref |-> tombRef, name |-> n, parent |-> artifacts[n].latest,
                  digest |-> NoDigest, tomb |-> TRUE] \in VersionRow
      BY DEF VersionRow, ArtifactRow
    <2>4. QED
      BY <2>1, <2>2, <2>3, AbortType, StageType
  <1>7. CASE Commit(c)
    <2>1. PICK v \in rows[c] :
            /\ versions' = versions \union {v}
            /\ artifacts' = [artifacts EXCEPT ![v.name] = Published(v)]
      BY <1>7 DEF Commit
    <2>2. v \in VersionRow
      OBVIOUS
    <2>3. QED
      BY <1>7, <2>1, <2>2 DEF Commit, Published, Finish, VersionRow, ArtifactRow
  <1>8. CASE TxFails(c)
    BY <1>8 DEF TxFails, Abort, Finish, db
  <1>9. CASE Resolve(c) \/ ReadLatest(c)
    <2>1. artifacts[req[c].name] \in ArtifactRow
      BY <1>9 DEF Resolve, ReadLatest, RequestsWellFormed
    <2>2. QED
      BY <1>9, <2>1 DEF Resolve, ReadLatest, Finish, Found, Live, ArtifactRow, db
  <1>10. CASE List(c)
    BY <1>10 DEF List, Finish, db
  <1>11. CASE GetMeta(c)
    BY <1>11 DEF GetMeta, Finish, db
  <1>12. CASE GetBlob(c)
    BY <1>12 DEF GetBlob, Finish, db
  <1>13. CASE ListVersions(c)
    BY <1>13 DEF ListVersions, Finish, VersionRow, db
  <1>14. CASE ReadFails(c)
    BY <1>14 DEF ReadFails, Finish, db
  <1>15. CASE Reply(c)
    BY <1>15 DEF Reply, Forget, NoRequest, Select, Request, Ops
  <1>16. QED
    BY <1>1, <1>2, <1>3, <1>4, <1>5, <1>6, <1>7, <1>8, <1>9, <1>10, <1>11, <1>12,
       <1>13, <1>14, <1>15 DEF Serve

\* Every step keeps the types.
LEMMA TypeStep == IInv /\ [Next]_vars => TypeOK'
  <1> SUFFICES ASSUME IInv, [Next]_vars PROVE TypeOK'
    OBVIOUS
  <1>1. ASSUME NEW c \in Clients, Invoke(c) PROVE TypeOK'
    BY <1>1, InvokeType DEF IInv
  <1>2. ASSUME NEW c \in Clients, Serve(c) PROVE TypeOK'
    BY <1>2, ServeType DEF IInv
  <1>3. ASSUME NEW c \in Clients, Crash(c) PROVE TypeOK'
    BY <1>3, StoreAssumption
    DEF IInv, TypeOK, Crash, Forget, NoRequest, Select, Request, Ops, Locations, Outcomes, db
  <1>4. CASE UNCHANGED vars
    BY <1>4 DEF IInv, TypeOK, vars
  <1>5. QED
    BY <1>1, <1>2, <1>3, <1>4 DEF Next

-----------------------------------------------------------------------------
(***************************************************************************)
(* What the actions do to the tables, the lock and one another's clients.  *)
(***************************************************************************)
\* Only a commit changes the tables; blobs are never removed.
LEMMA TablesStep ==
  ASSUME NEW c \in Clients, Invoke(c) \/ Serve(c) \/ Crash(c)
  PROVE  /\ blobs \subseteq blobs'
         /\ Commit(c) \/ UNCHANGED <<artifacts, versions>>
  BY DEF Invoke, Serve, Crash, Call, CallSave, CallDeleteByName, CallDeleteByRef, CallByName,
         CallGetByRef, CallList, PutBlob, Put, PutFails, Begin, Busy, SaveOnce, DeleteOnce,
         Commit, TxFails, Resolve, List, ReadLatest, GetMeta, GetBlob, ListVersions,
         ReadFails, Reply, Abort, Stage, db

\* A client's step leaves every other client's request alone.
LEMMA OthersUnchanged ==
  ASSUME TypeOK, NEW c \in Clients, Invoke(c) \/ Serve(c) \/ Crash(c),
         NEW d \in Clients, d # c
  PROVE  /\ pc'[d] = pc[d]
         /\ req'[d] = req[d]
         /\ rows'[d] = rows[d]
         /\ status'[d] = status[d]
  <1> USE DEF TypeOK
  <1>1. CASE Invoke(c)
    BY <1>1 DEF Invoke, Call, CallSave, CallDeleteByName, CallDeleteByRef, CallByName,
                CallGetByRef, CallList
  <1>2. CASE Serve(c)
    BY <1>2 DEF Serve, PutBlob, PutFails, Begin, Busy, SaveOnce, DeleteOnce, Commit, TxFails,
                Resolve, List, ReadLatest, GetMeta, GetBlob, ListVersions, ReadFails, Reply,
                Abort, Stage, Finish, Forget, db
  <1>3. CASE Crash(c)
    BY <1>3 DEF Crash, Forget, db
  <1>4. QED
    BY <1>1, <1>2, <1>3

\* How a step moves its own client and the write lock.
LEMMA LockStep ==
  ASSUME TypeOK, NEW c \in Clients, Invoke(c) \/ Serve(c) \/ Crash(c)
  PROVE  \/ ~InTransaction(c) /\ ~InTransaction(c)' /\ (writer' = writer \/ Crash(c))
         \/ ~InTransaction(c) /\ InTransaction(c)' /\ writer = NoClient /\ writer' = c
         \/ InTransaction(c) /\ InTransaction(c)' /\ writer' = writer
         \/ InTransaction(c) /\ ~InTransaction(c)' /\ (writer' = NoClient \/ Crash(c))
  <1> USE DEF TypeOK, InTransaction
  <1>1. CASE Invoke(c)
    BY <1>1 DEF Invoke, Call, CallSave, CallDeleteByName, CallDeleteByRef, CallByName,
                CallGetByRef, CallList
  <1>2. CASE Serve(c)
    BY <1>2 DEF Serve, PutBlob, PutFails, Begin, LockFree, Busy, SaveOnce, DeleteOnce, Commit,
                TxFails, Resolve, List, ReadLatest, GetMeta, GetBlob, ListVersions, ReadFails,
                Reply, Abort, Stage, Finish, Forget, db
  <1>3. CASE Crash(c)
    BY <1>3 DEF Crash, Forget, db
  <1>4. QED
    BY <1>1, <1>2, <1>3

\* The lock changes hands only between transactions.
LEMMA LockOwnedStep ==
  ASSUME IInv, NEW c \in Clients, Invoke(c) \/ Serve(c) \/ Crash(c)
  PROVE  LockOwned'
  <1> SUFFICES ASSUME NEW d \in Clients
               PROVE  InTransaction(d)' <=> writer' = d
    BY DEF LockOwned
  <1>1. InTransaction(c) <=> writer = c
    BY DEF IInv, LockOwned
  <1>2. Crash(c) => ~InTransaction(c)' /\ writer' = IF writer = c THEN NoClient ELSE writer
    BY DEF Crash, Forget, InTransaction, IInv, TypeOK
  <1>3. NoClient # c /\ NoClient # d
    BY StoreAssumption
  <1>4. CASE d = c
    BY <1>1, <1>2, <1>3, <1>4, LockStep DEF IInv
  <1>5. CASE d # c
    <2>1. InTransaction(d)' <=> InTransaction(d)
      BY <1>5, OthersUnchanged DEF IInv, InTransaction
    <2>2. InTransaction(d) <=> writer = d
      BY DEF IInv, LockOwned
    <2>3. QED
      BY <1>1, <1>2, <1>3, <1>5, <2>1, <2>2, LockStep DEF IInv
  <1>6. QED
    BY <1>4, <1>5

\* What goes with the operation and the place of each request still does.
LEMMA RequestsStep ==
  ASSUME IInv, NEW c \in Clients, Invoke(c) \/ Serve(c) \/ Crash(c)
  PROVE  RequestsWellFormed'
  <1> DEFINE Good(d) ==
        /\ pc[d] = "put" => req[d].op = "save"
        /\ pc[d] = "read" /\ req[d].op # "list" => req[d].name \in Names
        /\ pc[d] \in {"read", "meta", "blob", "walk"} => req[d].op # "save"
        /\ req[d].op = "save" => SaveWellFormed(req[d])
        /\ req[d].op = "save" /\ pc[d] \in {"begin", "body"} => req[d].digest \in blobs
  <1>1. \A d \in Clients : Good(d)
    BY DEF IInv, RequestsWellFormed
  <1>2. ASSUME NEW d \in Clients, d # c PROVE Good(d)'
    BY <1>1, <1>2, TablesStep, OthersUnchanged DEF IInv, SaveWellFormed
  <1>3. Good(c)'
    <2> USE <1>1 DEF IInv, TypeOK, SaveWellFormed
    <2>1. CASE CallSave(c)
      BY <2>1 DEF CallSave, Call
    <2>2. CASE CallDeleteByName(c) \/ CallDeleteByRef(c)
      BY <2>2 DEF CallDeleteByName, CallDeleteByRef, Call, NoRequest, Select
    <2>3. CASE CallByName(c) \/ CallGetByRef(c) \/ CallList(c)
      BY <2>3 DEF CallByName, CallGetByRef, CallList, Call, NoRequest, Select
    <2>4. CASE PutBlob(c)
      BY <2>4 DEF PutBlob, Put
    <2>5. CASE Begin(c)
      BY <2>5 DEF Begin, db
    <2>6. CASE Busy(c)
      BY <2>6 DEF Busy, Finish, db
    <2>7. CASE Reply(c) \/ Crash(c)
      BY <2>7 DEF Reply, Crash, Forget, NoRequest, Select
    <2>8. CASE PutFails(c) \/ SaveOnce(c) \/ DeleteOnce(c) \/ Commit(c) \/ TxFails(c)
      BY <2>8 DEF PutFails, SaveOnce, DeleteOnce, Commit, TxFails, Abort, Stage, Finish, db
    <2>9. CASE \/ Resolve(c) \/ List(c) \/ ReadLatest(c) \/ GetMeta(c) \/ GetBlob(c)
               \/ ListVersions(c) \/ ReadFails(c)
      BY <2>9 DEF Resolve, List, ReadLatest, GetMeta, GetBlob, ListVersions, ReadFails,
                  Finish, db
    <2>10. QED
      BY <2>1, <2>2, <2>3, <2>4, <2>5, <2>6, <2>7, <2>8, <2>9 DEF Invoke, Serve
  <1>4. QED
    BY <1>2, <1>3 DEF RequestsWellFormed

\* What a client stages fits the tables it has just read.
LEMMA StageFits ==
  ASSUME IInv, NEW c \in Clients, SaveOnce(c) \/ DeleteOnce(c), pc'[c] = "commit"
  PROVE  /\ UNCHANGED <<artifacts, versions, blobs, req>>
         /\ \E v \in VersionRow : rows'[c] = {v} /\ Fits(c, v)
  <1> USE DEF IInv, TypeOK
  <1>1. CASE SaveOnce(c)
    <2> DEFINE v == [ref |-> req[c].ref, name |-> req[c].name,
                     parent |-> artifacts[req[c].name].latest,
                     digest |-> req[c].digest, tomb |-> FALSE]
    <2>1. SaveWellFormed(req[c]) /\ req[c].digest \in blobs
      BY <1>1 DEF SaveOnce, RequestsWellFormed
    <2>2. v \in VersionRow
      BY <2>1 DEF SaveWellFormed, VersionRow, ArtifactRow
    <2>3. /\ Stage(c, v)
          /\ ExpectationMet(req[c].expected, artifacts[req[c].name].latest)
          /\ ~RefTaken(req[c].ref)
      BY <1>1 DEF SaveOnce, Abort, Finish, ParentOf
    <2>4. Fits(c, v)
      BY <2>1, <2>2, <2>3 DEF Fits, ExpectationMet
    <2>5. QED
      BY <2>2, <2>3, <2>4 DEF Stage, db
  <1>2. CASE DeleteOnce(c)
    <2>1. PICK n \in Target(req[c]), tombRef \in Refs :
            /\ ~RefTaken(tombRef)
            /\ Stage(c, [ref |-> tombRef, name |-> n, parent |-> artifacts[n].latest,
                         digest |-> NoDigest, tomb |-> TRUE])
      BY <1>2 DEF DeleteOnce, Abort, Finish, ParentOf
    <2> DEFINE v == [ref |-> tombRef, name |-> n, parent |-> artifacts[n].latest,
                     digest |-> NoDigest, tomb |-> TRUE]
    <2>2. n \in Names
      BY DEF Target, VersionRow, Request
    <2>3. v \in VersionRow
      BY <2>2 DEF VersionRow, ArtifactRow
    <2>4. Fits(c, v)
      BY <1>2, <2>1, <2>3 DEF Fits, DeleteOnce
    <2>5. QED
      BY <2>1, <2>3, <2>4 DEF Stage, db
  <1>3. QED
    BY <1>1, <1>2

\* What is staged is what the request will write.
LEMMA StagedFitsStep ==
  ASSUME IInv, NEW c \in Clients, Invoke(c) \/ Serve(c) \/ Crash(c)
  PROVE  StagedFits'
  <1> SUFFICES ASSUME NEW d \in Clients, pc'[d] = "commit"
               PROVE  (\E v \in rows[d] : rows[d] = {v} /\ Fits(d, v))'
    BY DEF StagedFits
  <1>1. CASE d = c
    <2>1. SaveOnce(c) \/ DeleteOnce(c)
      BY <1>1 DEF IInv, TypeOK, Invoke, Serve, Crash, Call, CallSave, CallDeleteByName,
                  CallDeleteByRef, CallByName, CallGetByRef, CallList, PutBlob, PutFails,
                  Begin, Busy, Commit, TxFails, Abort, Resolve, List, ReadLatest, GetMeta,
                  GetBlob, ListVersions, ReadFails, Reply, Finish, Forget
    <2>2. QED
      BY <1>1, <2>1, StageFits DEF Fits, RefTaken
  <1>2. CASE d # c
    <2>1. pc[d] = "commit" /\ rows'[d] = rows[d] /\ req'[d] = req[d]
      BY <1>2, OthersUnchanged DEF IInv
    <2>2. ~Commit(c)
      BY <1>2, <2>1 DEF IInv, LockOwned, InTransaction, Commit
    <2>3. UNCHANGED <<artifacts, versions>> /\ blobs \subseteq blobs'
      BY <2>2, TablesStep
    <2>4. PICK v \in rows[d] : rows[d] = {v} /\ Fits(d, v)
      BY <2>1 DEF IInv, StagedFits
    <2>5. Fits(d, v)'
      BY <2>1, <2>3, <2>4 DEF Fits, RefTaken
    <2>6. QED
      BY <2>1, <2>4, <2>5
  <1>3. QED
    BY <1>1, <1>2

-----------------------------------------------------------------------------
(***************************************************************************)
(* The tables.  A commit appends one version that fits; every other step   *)
(* leaves them alone.                                                      *)
(***************************************************************************)
LEMMA CommitAppends ==
  ASSUME IInv, NEW c \in Clients, Commit(c)
  PROVE  \E v \in VersionRow :
            /\ rows[c] = {v}
            /\ Fits(c, v)
            /\ versions' = versions \union {v}
            /\ artifacts' = [artifacts EXCEPT ![v.name] = [latest |-> v.ref, deleted |-> v.tomb]]
            /\ UNCHANGED <<blobs, req>>
  <1>1. PICK v \in rows[c] : rows[c] = {v} /\ Fits(c, v)
    BY DEF IInv, StagedFits, Commit
  <1>2. v \in VersionRow
    BY <1>1 DEF Fits
  <1>3. PICK u \in rows[c] : /\ versions' = versions \union {u}
                             /\ artifacts' = [artifacts EXCEPT ![u.name] = Published(u)]
    BY DEF Commit
  <1>4. u = v
    BY <1>1, <1>3
  <1>5. QED
    BY <1>1, <1>2, <1>3, <1>4 DEF Commit, Published

\* The state of one name before a version that fits is appended to it.
LEMMA HeadOf ==
  ASSUME IInv, NEW n \in Names
  PROVE  \/ artifacts[n].latest = NoRef /\ \A w \in versions : w.name # n
         \/ \E u \in versions :
              /\ u.name = n
              /\ artifacts[n].latest = u.ref
              /\ \A w \in versions : w.parent # u.ref
  <1>1. CASE artifacts[n] = [latest |-> NoRef, deleted |-> FALSE] /\ \A w \in versions : w.name # n
    BY <1>1
  <1>2. CASE \E u \in versions : /\ u.name = n
                                /\ artifacts[n] = [latest |-> u.ref, deleted |-> u.tomb]
                                /\ \A w \in versions : w.parent # u.ref
    <2>1. PICK u \in versions : /\ u.name = n
                                /\ artifacts[n] = [latest |-> u.ref, deleted |-> u.tomb]
                                /\ \A w \in versions : w.parent # u.ref
      BY <1>2
    <2>2. artifacts[n].latest = u.ref
      BY <2>1
    <2>3. QED
      BY <2>1, <2>2
  <1>3. QED
    BY <1>1, <1>2 DEF IInv, HeadMatches

\* What a commit writes goes with the versions already there.
LEMMA CommitKeepsHistory ==
  ASSUME IInv, NEW c \in Clients, Commit(c)
  PROVE  LinearHistory' /\ HeadMatches' /\ PayloadsDurable'
  <1>1. PICK v \in VersionRow :
            /\ Fits(c, v)
            /\ versions' = versions \union {v}
            /\ artifacts' = [artifacts EXCEPT ![v.name] = [latest |-> v.ref, deleted |-> v.tomb]]
            /\ UNCHANGED blobs
    BY CommitAppends
  <1>2. /\ v.name \in Names /\ v.ref \in Refs /\ v.ref # NoRef
        /\ v.parent = artifacts[v.name].latest
        /\ \A w \in versions : w.ref # v.ref
    BY <1>1, StoreAssumption DEF VersionRow, Fits, RefTaken
  <1>3. \A w \in versions : w \in VersionRow /\ w.name \in Names /\ w.ref \in Refs /\ w.ref # NoRef
    BY StoreAssumption DEF IInv, TypeOK, VersionRow
  <1>4. \/ v.parent = NoRef /\ \A w \in versions : w.name # v.name
        \/ \E u \in versions :
              u.name = v.name /\ v.parent = u.ref /\ \A w \in versions : w.parent # u.ref
    BY <1>2, HeadOf
  <1>5. \A w \in versions : w.parent # v.ref
    BY <1>2 DEF IInv, LinearHistory
  <1>6. v.parent # v.ref
    BY <1>2, <1>4
  <1>7. /\ artifacts'[v.name] = [latest |-> v.ref, deleted |-> v.tomb]
        /\ \A n \in Names : n # v.name => artifacts'[n] = artifacts[n]
    BY <1>1, <1>2 DEF IInv, TypeOK
  <1>8. LinearHistory'
    <2>1. ASSUME NEW x \in versions', NEW y \in versions',
                 x.ref = y.ref \/ (x.name = y.name /\ x.parent = y.parent)
          PROVE  x = y
      <3>1. ASSUME NEW w \in versions, w.ref = v.ref \/ (w.name = v.name /\ w.parent = v.parent)
            PROVE  FALSE
        BY <1>2, <1>4, <3>1
      <3>2. QED
        BY <1>1, <2>1, <3>1 DEF IInv, LinearHistory
    <2>2. ASSUME NEW x \in versions', x.parent # NoRef
          PROVE  \E w \in versions' : w.ref = x.parent /\ w.name = x.name /\ w # x
      <3>1. CASE x \in versions
        BY <1>1, <2>2, <3>1 DEF IInv, LinearHistory
      <3>2. CASE x = v
        BY <1>1, <1>2, <1>4, <2>2, <3>2
      <3>3. QED
        BY <1>1, <3>1, <3>2
    <2>3. ASSUME NEW x \in versions'
          PROVE  artifacts'[x.name].latest = x.ref \/ \E w \in versions' : w.parent = x.ref
      <3>1. CASE x = v
        BY <1>7, <3>1
      <3>2. CASE x \in versions /\ x.name # v.name
        BY <1>1, <1>3, <1>7, <3>2 DEF IInv, LinearHistory
      <3>3. CASE x \in versions /\ x.name = v.name
        BY <1>1, <1>2, <3>3 DEF IInv, LinearHistory
      <3>4. QED
        BY <1>1, <3>1, <3>2, <3>3
    <2>4. QED
      BY <2>1, <2>2, <2>3 DEF LinearHistory
  <1>9. HeadMatches'
    <2> SUFFICES ASSUME NEW n \in Names
                 PROVE  \/ /\ artifacts'[n] = [latest |-> NoRef, deleted |-> FALSE]
                           /\ \A w \in versions' : w.name # n
                        \/ \E u \in versions' :
                              /\ u.name = n
                              /\ artifacts'[n] = [latest |-> u.ref, deleted |-> u.tomb]
                              /\ \A w \in versions' : w.parent # u.ref
      BY DEF HeadMatches
    <2>1. CASE n = v.name
      BY <1>1, <1>5, <1>6, <1>7, <2>1
    <2>2. CASE n # v.name
      <3>1. CASE \A w \in versions : w.name # n
        <4>1. artifacts[n] = [latest |-> NoRef, deleted |-> FALSE]
          BY <3>1 DEF IInv, HeadMatches
        <4>2. QED
          BY <1>1, <1>7, <2>2, <3>1, <4>1
      <3>2. CASE \E w \in versions : w.name = n
        <4>1. PICK u \in versions :
                /\ u.name = n
                /\ artifacts[n] = [latest |-> u.ref, deleted |-> u.tomb]
                /\ \A w \in versions : w.parent # u.ref
          BY <3>2 DEF IInv, HeadMatches
        <4>2. v.parent # u.ref
          BY <1>3, <1>4, <2>2, <4>1 DEF IInv, LinearHistory
        <4>3. QED
          BY <1>1, <1>7, <2>2, <4>1, <4>2
      <3>3. QED
        BY <3>1, <3>2
    <2>3. QED
      BY <2>1, <2>2
  <1>10. PayloadsDurable'
    BY <1>1 DEF Fits, IInv, PayloadsDurable
  <1>11. QED
    BY <1>8, <1>9, <1>10

\* Every step keeps the history in order.
LEMMA HistoryStep ==
  ASSUME IInv, NEW c \in Clients, Invoke(c) \/ Serve(c) \/ Crash(c)
  PROVE  LinearHistory' /\ HeadMatches' /\ PayloadsDurable'
  <1>1. CASE Commit(c)
    BY <1>1, CommitKeepsHistory
  <1>2. CASE ~Commit(c)
    <2>1. UNCHANGED <<artifacts, versions>> /\ blobs \subseteq blobs'
      BY <1>2, TablesStep
    <2>2. LinearHistory /\ HeadMatches /\ PayloadsDurable
      BY DEF IInv
    <2>3. LinearHistory'
      BY <2>1, <2>2 DEF LinearHistory
    <2>4. HeadMatches'
      BY <2>1, <2>2 DEF HeadMatches
    <2>5. PayloadsDurable'
      BY <2>1, <2>2 DEF PayloadsDurable
    <2>6. QED
      BY <2>3, <2>4, <2>5
  <1>3. QED
    BY <1>1, <1>2

\* Every step keeps what has been saved.
LEMMA SavesStep ==
  ASSUME IInv, NEW c \in Clients, Invoke(c) \/ Serve(c) \/ Crash(c)
  PROVE  SavesRecorded'
  <1>1. versions \subseteq versions'
    BY TablesStep, CommitAppends
  <1>2. ASSUME NEW d \in Clients, d # c
        PROVE  (Saved(d)' <=> Saved(d)) /\ req'[d] = req[d]
    BY <1>2, OthersUnchanged DEF IInv, Saved
  <1>3. ASSUME Saved(c)' PROVE Commit(c) /\ req' = req
    <2>1. /\ pc[c] = "put" => req[c].op = "save"
          /\ pc[c] \in {"read", "meta", "blob", "walk"} => req[c].op # "save"
      BY DEF IInv, RequestsWellFormed
    <2> USE <1>3, <2>1 DEF IInv, TypeOK, Saved
    <2>2. CASE Invoke(c)
      BY <2>2 DEF Invoke, Call, CallSave, CallDeleteByName, CallDeleteByRef, CallByName,
                  CallGetByRef, CallList
    <2>3. CASE Serve(c)
      BY <2>3 DEF Serve, PutBlob, PutFails, Begin, Busy, SaveOnce, DeleteOnce, Commit, TxFails,
                  Abort, Stage, Resolve, List, ReadLatest, GetMeta, GetBlob, ListVersions,
                  ReadFails, Reply, Finish, Forget
    <2>4. CASE Crash(c)
      BY <2>4 DEF Crash, Forget
    <2>5. QED
      BY <2>2, <2>3, <2>4
  <1>4. ASSUME Saved(c)'
        PROVE  /\ \E v \in versions' : /\ v.ref = req'[c].ref
                                       /\ req'[c].expected # NoRef => v.parent = req'[c].expected
               /\ \A w \in versions : w.ref # req'[c].ref
    <2>1. PICK v \in VersionRow : Fits(c, v) /\ versions' = versions \union {v}
      BY <1>3, <1>4, CommitAppends
    <2>2. req[c].op = "save" /\ req'[c] = req[c]
      BY <1>3, <1>4 DEF Saved
    <2>3. QED
      BY <2>1, <2>2 DEF Fits, RefTaken
  <1>5. ASSUME NEW d \in Clients, Saved(d)'
        PROVE  \E v \in versions' : /\ v.ref = req'[d].ref
                                    /\ req'[d].expected # NoRef => v.parent = req'[d].expected
    <2>1. CASE d = c
      BY <1>4, <1>5, <2>1
    <2>2. CASE d # c
      BY <1>1, <1>2, <1>5, <2>2 DEF IInv, SavesRecorded
    <2>3. QED
      BY <2>1, <2>2
  <1>6. ASSUME NEW d \in Clients, NEW e \in Clients, Saved(d)', Saved(e)',
               req'[d].ref = req'[e].ref
        PROVE  d = e
    <2>1. CASE d # c /\ e # c
      BY <1>2, <1>6, <2>1 DEF IInv, SavesRecorded
    <2>2. ASSUME NEW x \in Clients, x # c, Saved(x)', Saved(c)', req'[x].ref = req'[c].ref
          PROVE  FALSE
      BY <1>2, <1>4, <2>2 DEF IInv, SavesRecorded
    <2>3. QED
      BY <1>6, <2>1, <2>2
  <1>7. ASSUME NEW d \in Clients, Saved(d)'
        PROVE  (\E v \in versions : /\ v.ref = req[d].ref
                                    /\ req[d].expected # NoRef => v.parent = req[d].expected)'
    BY <1>5, <1>7
  <1>8. (\A d, e \in Clients : Saved(d) /\ Saved(e) /\ req[d].ref = req[e].ref => d = e)'
    BY <1>6 DEF Saved
  <1>9. QED
    BY <1>7, <1>8 DEF SavesRecorded

-----------------------------------------------------------------------------
\* The invariant is inductive.
LEMMA NextIInv == IInv /\ [Next]_vars => IInv'
  <1> SUFFICES ASSUME IInv, [Next]_vars PROVE IInv'
    OBVIOUS
  <1>1. TypeOK'
    BY TypeStep
  <1>2. ASSUME NEW c \in Clients, Invoke(c) \/ Serve(c) \/ Crash(c)
        PROVE  IInv'
    BY <1>1, <1>2, LockOwnedStep, RequestsStep, StagedFitsStep, SavesStep, HistoryStep DEF IInv
  <1>3. CASE UNCHANGED vars
    <2> USE <1>3 DEF vars, IInv
    <2>1. LockOwned' /\ RequestsWellFormed'
      BY DEF LockOwned, InTransaction, RequestsWellFormed
    <2>2. StagedFits' /\ SavesRecorded'
      BY DEF StagedFits, Fits, RefTaken, SavesRecorded, Saved
    <2>3. LinearHistory'
      BY DEF LinearHistory
    <2>4. HeadMatches' /\ PayloadsDurable'
      BY DEF HeadMatches, PayloadsDurable
    <2>5. QED
      BY <1>1, <2>1, <2>2, <2>3, <2>4
  <1>4. QED
    BY <1>2, <1>3 DEF Next

\* The invariant of the store holds in every reachable state.
THEOREM Invariance == Spec => []IInv
  BY InitIInv, NextIInv, PTL DEF Spec

\* Every variable keeps its type: in particular no transaction is tried
\* more than MaxAttempts times.
THEOREM TypeCorrect == Spec => []TypeOK
  <1>1. IInv => TypeOK
    BY DEF IInv
  <1>2. QED
    BY <1>1, Invariance, PTL

\* Concurrent saves and deletes never fork the history of a name.
THEOREM HistoryIsLinear == Spec => []LinearHistory
  <1>1. IInv => LinearHistory
    BY DEF IInv
  <1>2. QED
    BY <1>1, Invariance, PTL

\* The artifact's row always points to the end of that history.
THEOREM HeadsMatch == Spec => []HeadMatches
  <1>1. IInv => HeadMatches
    BY DEF IInv
  <1>2. QED
    BY <1>1, Invariance, PTL

\* No committed version names a payload that is not in the blob store.
THEOREM PayloadsAreDurable == Spec => []PayloadsDurable
  <1>1. IInv => PayloadsDurable
    BY DEF IInv
  <1>2. QED
    BY <1>1, Invariance, PTL

\* Of the saves that expect the same version, one at most succeeds.
THEOREM ExpectedOnce == Spec => []OneWinner
  <1>1. IInv => OneWinner
    <2> SUFFICES ASSUME IInv, NEW c \in Clients, NEW d \in Clients, Won(c), Won(d),
                        req[c].expected = req[d].expected
                 PROVE  c = d
      BY DEF OneWinner
    <2>1. PICK v \in versions : v.ref = req[c].ref /\ v.parent = req[c].expected
      BY DEF IInv, SavesRecorded, Saved, Won
    <2>2. PICK w \in versions : w.ref = req[d].ref /\ w.parent = req[d].expected
      BY DEF IInv, SavesRecorded, Saved, Won
    <2>3. v.parent # NoRef
      BY <2>1 DEF Won
    <2>4. v.name = w.name
      BY <2>1, <2>2, <2>3 DEF IInv, LinearHistory
    <2>5. v = w
      BY <2>1, <2>2, <2>4 DEF IInv, LinearHistory
    <2>6. QED
      BY <2>1, <2>2, <2>5 DEF IInv, SavesRecorded, Saved, Won
  <1>2. QED
    BY <1>1, Invariance, PTL

\* A step moves the head of a name only by appending a version to the one
\* it pointed to, and never changes or removes a version.
THEOREM HeadsAdvance == Spec => HeadAdvances
  <1> DEFINE A == /\ versions \subseteq versions'
                  /\ \A n \in Names :
                        artifacts'[n] # artifacts[n] =>
                           \E v \in versions' \ versions :
                              /\ v.name = n
                              /\ v.parent = artifacts[n].latest
                              /\ artifacts'[n] = [latest |-> v.ref, deleted |-> v.tomb]
  <1>1. IInv /\ [Next]_vars => [A]_vars
    <2> SUFFICES ASSUME IInv, NEW c \in Clients, Invoke(c) \/ Serve(c) \/ Crash(c)
                 PROVE  A
      BY DEF Next
    <2>1. CASE Commit(c)
      <3>1. PICK v \in VersionRow :
              /\ Fits(c, v)
              /\ versions' = versions \union {v}
              /\ artifacts' = [artifacts EXCEPT ![v.name] = [latest |-> v.ref, deleted |-> v.tomb]]
        BY <2>1, CommitAppends
      <3>2. v \notin versions /\ v.name \in Names /\ v.parent = artifacts[v.name].latest
        BY <3>1 DEF Fits, RefTaken, VersionRow
      <3>3. QED
        BY <3>1, <3>2 DEF IInv, TypeOK
    <2>2. CASE ~Commit(c)
      BY <2>2, TablesStep
    <2>3. QED
      BY <2>1, <2>2
  <1>2. QED
    BY <1>1, Invariance, PTL DEF Spec, HeadAdvances
=============================================================================
