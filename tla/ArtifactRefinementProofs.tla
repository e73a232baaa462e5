------------------------ MODULE ArtifactRefinementProofs ------------------------
(***************************************************************************)
(* The store implements ArtifactHistory, for any sets of clients, names,   *)
(* references and digests, any number of attempts and any listing limit.   *)
(***************************************************************************)
EXTENDS ArtifactLinearization, ArtifactStoreProofs, FiniteSetTheorems, SequenceTheorems

(***************************************************************************)
(* The invariant of the history variable, beside IInv.                     *)
(***************************************************************************)
\* The line of a name holds exactly its committed versions; each succeeds
\* the one before it, no reference occurs twice and the last one is the
\* version its artifact points to.
Kept(n) ==
    LET s == line[n]
    IN  /\ \A i \in DOMAIN s : s[i] \in versions /\ s[i].name = n
        /\ \A v \in versions : v.name = n => \E i \in DOMAIN s : s[i] = v
        /\ \A i \in DOMAIN s : s[i].parent = IF i = 1 THEN NoRef ELSE s[i - 1].ref
        /\ \A i, j \in DOMAIN s : s[i].ref = s[j].ref => i = j
        /\ artifacts[n].latest = IF Len(s) = 0 THEN NoRef ELSE s[Len(s)].ref

Lines == line \in [Names -> Seq(VersionRow)] /\ \A n \in Names : Kept(n)

\* A selector is a name or a reference, and not both.
Selects(r) ==
    \/ r.name \in Names /\ r.ref = NoRef
    \/ r.name = NoName /\ r.ref \in Refs

\* What goes with the place of a request.
Shaped(c) ==
    /\ req[c].op \in {"delete", "get"} => Selects(req[c])
    /\ req[c].op \in {"resolve", "versions"} => req[c].name \in Names
    /\ pc[c] \in {"begin", "body", "commit"} => req[c].op \in {"save", "delete"}
    /\ pc[c] \in {"meta", "blob"} => req[c].op = "get"
    /\ pc[c] = "walk" => req[c].op = "versions"
    /\ pc[c] \in {"idle", "read", "meta"} => rows[c] = {}
    /\ pc[c] \in {"idle", "read"} => cur[c] = NoRef

\* A staged version is the one that was asked for.
ToCommit(c, v) ==
    IF req[c].op = "save"
    THEN v.name = req[c].name /\ v.digest = req[c].digest /\ ~v.tomb
    ELSE /\ v.tomb
         /\ Live(artifacts[v.name])
         /\ v.name = req[c].name
               \/ (req[c].name = NoName /\ artifacts[v.name].latest = req[c].ref)

\* A listing has read only versions after the one it reads next, and that
\* one is in the line of its name.
Walked(c) ==
    LET s == line[req[c].name]
    IN  /\ IsFiniteSet(rows[c])
        /\ \/ cur[c] = NoRef /\ rows[c] # {}
           \/ \E k \in DOMAIN s :
                 /\ s[k].ref = cur[c]
                 /\ \A v \in rows[c] : \E i \in DOMAIN s : i > k /\ v = s[i]

Reading(c) ==
    /\ pc[c] = "commit" => \A v \in rows[c] : ToCommit(c, v)
    /\ pc[c] = "meta" => IF req[c].name = NoName THEN cur[c] = req[c].ref
                         ELSE \E v \in versions : v.ref = cur[c]
    /\ pc[c] = "blob" => \E v \in versions : rows[c] = {v} /\ ~v.tomb
    /\ pc[c] = "walk" => Walked(c)

LInv == IInv /\ Lines /\ \A c \in Clients : Shaped(c) /\ Reading(c)

-----------------------------------------------------------------------------
(***************************************************************************)
(* The line of a name grows at its end.                                    *)
(***************************************************************************)
\* A sequence and one more element.
LEMMA Appended ==
  ASSUME NEW s \in Seq(VersionRow), NEW v \in VersionRow
  PROVE  /\ Append(s, v) \in Seq(VersionRow)
         /\ Len(s) \in Nat /\ DOMAIN s = 1 .. Len(s)
         /\ Len(Append(s, v)) = Len(s) + 1
         /\ DOMAIN Append(s, v) = 1 .. Len(s) + 1
         /\ \A i \in 1 .. Len(s) : Append(s, v)[i] = s[i]
         /\ Append(s, v)[Len(s) + 1] = v
  BY AppendProperties, LenProperties

\* A line is a sequence of versions.
LEMMA LineType ==
  ASSUME Lines, NEW n \in Names
  PROVE  /\ line[n] \in Seq(VersionRow)
         /\ Len(line[n]) \in Nat
         /\ DOMAIN line[n] = 1 .. Len(line[n])
         /\ \A i \in DOMAIN line[n] : line[n][i] \in VersionRow
  <1>1. line[n] \in Seq(VersionRow)
    BY DEF Lines
  <1>2. QED
    BY <1>1, LenProperties, ElementOfSeq

\* Without a new version every line stays as it is.
LEMMA LineStays ==
  ASSUME Lines, Record, UNCHANGED versions
  PROVE  UNCHANGED line
  <1>1. \A n \in Names : Added(n) = {}
    BY DEF Added
  <1>2. line' = [n \in Names |-> line[n]]
    BY <1>1 DEF Record, Longer
  <1>3. QED
    BY <1>2 DEF Lines

\* A commit appends its version to the line of its name.
LEMMA CommitExtends ==
  ASSUME IInv, Lines, Record, NEW c \in Clients, Commit(c)
  PROVE  \E v \in VersionRow :
            /\ rows[c] = {v}
            /\ Fits(c, v)
            /\ versions' = versions \union {v}
            /\ artifacts' = [artifacts EXCEPT ![v.name] = [latest |-> v.ref, deleted |-> v.tomb]]
            /\ line' = [line EXCEPT ![v.name] = Append(@, v)]
  <1>1. PICK v \in VersionRow :
            /\ rows[c] = {v}
            /\ Fits(c, v)
            /\ versions' = versions \union {v}
            /\ artifacts' = [artifacts EXCEPT ![v.name] = [latest |-> v.ref, deleted |-> v.tomb]]
    BY CommitAppends
  <1>2. v \notin versions /\ v.name \in Names
    BY <1>1 DEF Fits, RefTaken, VersionRow
  <1>3. \A n \in Names : Added(n) = IF n = v.name THEN {v} ELSE {}
    BY <1>1, <1>2 DEF Added
  <1>4. \A n \in Names : line'[n] = IF n = v.name THEN Append(line[n], v) ELSE line[n]
    <2> SUFFICES ASSUME NEW n \in Names
                 PROVE  line'[n] = IF n = v.name THEN Append(line[n], v) ELSE line[n]
      OBVIOUS
    <2>1. line'[n] = Longer(n)
      BY DEF Record
    <2>2. CASE n = v.name
      <3>1. Added(n) = {v}
        BY <1>3, <2>2
      <3>2. (CHOOSE w \in {v} : TRUE) = v
        OBVIOUS
      <3>3. Longer(n) = Append(line[n], v)
        BY <3>1, <3>2, Zenon DEF Longer
      <3>4. QED
        BY <2>1, <2>2, <3>3
    <2>3. CASE n # v.name
      BY <1>3, <2>1, <2>3 DEF Longer
    <2>4. QED
      BY <2>2, <2>3
  <1>5. DOMAIN line' = Names /\ line' = [n \in Names |-> line'[n]]
    BY DEF Record
  <1>6. line \in [Names -> Seq(VersionRow)]
    BY DEF Lines
  <1>7. line' = [line EXCEPT ![v.name] = Append(@, v)]
    BY <1>2, <1>4, <1>5, <1>6
  <1>8. QED
    BY <1>1, <1>7

\* The lines keep their shape when a version is committed.
LEMMA KeptByCommit ==
  ASSUME IInv, Lines, Record, NEW c \in Clients, Commit(c)
  PROVE  Lines'
  <1>1. PICK v \in VersionRow :
            /\ rows[c] = {v}
            /\ Fits(c, v)
            /\ versions' = versions \union {v}
            /\ artifacts' = [artifacts EXCEPT ![v.name] = [latest |-> v.ref, deleted |-> v.tomb]]
            /\ line' = [line EXCEPT ![v.name] = Append(@, v)]
    BY CommitExtends
  <1>2. line \in [Names -> Seq(VersionRow)] /\ artifacts \in [Names -> ArtifactRow]
    BY DEF Lines, IInv, TypeOK
  <1>3. v.name \in Names /\ v.ref \in Refs
    BY DEF VersionRow
  <1>4. Append(line[v.name], v) \in Seq(VersionRow)
    BY <1>2, <1>3, Appended
  <1>5. line' \in [Names -> Seq(VersionRow)]
    BY <1>1, <1>2, <1>3, <1>4
  <1>6. ASSUME NEW n \in Names, n # v.name
        PROVE  Kept(n)'
    <2>1. line'[n] = line[n] /\ artifacts'[n] = artifacts[n]
      BY <1>1, <1>2, <1>6
    <2>2. Kept(n)
      BY DEF Lines
    <2>3. \A w \in versions' : w.name = n => w \in versions
      BY <1>1, <1>6
    <2>4. versions \subseteq versions'
      BY <1>1
    <2>5. QED
      BY <2>1, <2>2, <2>3, <2>4 DEF Kept
  <1>7. Kept(v.name)'
    <2>1. PICK n \in Names : n = v.name
      BY <1>3
    <2>2. PICK s \in Seq(VersionRow) : s = line[n]
      BY LineType
    <2>3. PICK t \in Seq(VersionRow) : t = Append(s, v)
      BY <1>4, <2>1, <2>2
    <2>4. line'[n] = t /\ artifacts'[n].latest = v.ref
      BY <1>1, <1>2, <2>1, <2>2, <2>3
    <2>5. /\ \A i \in DOMAIN s : s[i] \in versions /\ s[i].name = n
          /\ \A w \in versions : w.name = n => \E i \in DOMAIN s : s[i] = w
          /\ \A i \in DOMAIN s : s[i].parent = IF i = 1 THEN NoRef ELSE s[i - 1].ref
          /\ \A i, j \in DOMAIN s : s[i].ref = s[j].ref => i = j
          /\ artifacts[n].latest = IF Len(s) = 0 THEN NoRef ELSE s[Len(s)].ref
      BY <2>2 DEF Lines, Kept
    <2>6. /\ Len(s) \in Nat /\ DOMAIN s = 1 .. Len(s)
          /\ Len(t) = Len(s) + 1
          /\ DOMAIN t = 1 .. Len(s) + 1
          /\ \A i \in 1 .. Len(s) : t[i] = s[i]
          /\ t[Len(s) + 1] = v
      BY <2>3, Appended
    <2>7. v.parent = artifacts[n].latest /\ \A w \in versions : w.ref # v.ref
      BY <1>1, <2>1 DEF Fits, RefTaken
    <2>8. \A i \in DOMAIN t : t[i] \in versions' /\ t[i].name = n
      BY <1>1, <2>1, <2>5, <2>6
    <2>9. \A w \in versions' : w.name = n => \E i \in DOMAIN t : t[i] = w
      <3>1. ASSUME NEW w \in versions, w.name = n
            PROVE  \E i \in DOMAIN t : t[i] = w
        <4>1. PICK i \in DOMAIN s : s[i] = w
          BY <2>5, <3>1
        <4>2. i \in DOMAIN t /\ t[i] = w
          BY <2>6, <4>1
        <4>3. QED
          BY <4>2
      <3>2. Len(s) + 1 \in DOMAIN t
        BY <2>6
      <3>3. QED
        BY <1>1, <2>6, <3>1, <3>2
    <2>10. \A i \in DOMAIN t : t[i].parent = IF i = 1 THEN NoRef ELSE t[i - 1].ref
      <3>1. ASSUME NEW i \in 1 .. Len(s)
            PROVE  t[i].parent = IF i = 1 THEN NoRef ELSE t[i - 1].ref
        BY <2>5, <2>6
      <3>2. t[Len(s) + 1].parent = IF Len(s) + 1 = 1 THEN NoRef ELSE t[Len(s)].ref
        BY <2>5, <2>6, <2>7
      <3>3. QED
        BY <2>6, <3>1, <3>2
    <2>11. \A i, j \in DOMAIN t : t[i].ref = t[j].ref => i = j
      BY <2>5, <2>6, <2>7
    <2>12. v.ref = IF Len(t) = 0 THEN NoRef ELSE t[Len(t)].ref
      BY <2>6
    <2>13. QED
      BY <2>1, <2>4, <2>8, <2>9, <2>10, <2>11, <2>12 DEF Kept
  <1>8. QED
    BY <1>5, <1>6, <1>7 DEF Lines

\* Every line keeps its shape in every step.
LEMMA LinesStep ==
  ASSUME IInv, Lines, Record, NEW c \in Clients, Invoke(c) \/ Serve(c) \/ Crash(c)
  PROVE  Lines'
  <1>1. CASE Commit(c)
    BY <1>1, KeptByCommit
  <1>2. CASE ~Commit(c)
    <2>1. UNCHANGED <<artifacts, versions>>
      BY <1>2, TablesStep
    <2>2. UNCHANGED line
      BY <2>1, LineStays
    <2>3. QED
      BY <2>1, <2>2 DEF Lines, Kept
  <1>3. QED
    BY <1>1, <1>2

\* A line that has something to show for a name still shows it later.
LEMMA LineGrows ==
  ASSUME IInv, Lines, Record, NEW c \in Clients, Invoke(c) \/ Serve(c) \/ Crash(c),
         NEW n \in Names
  PROVE  \A i \in DOMAIN line[n] : i \in DOMAIN line'[n] /\ line'[n][i] = line[n][i]
  <1>1. CASE Commit(c)
    <2>1. PICK v \in VersionRow : line' = [line EXCEPT ![v.name] = Append(@, v)]
      BY <1>1, CommitExtends
    <2>2. line \in [Names -> Seq(VersionRow)] /\ v.name \in Names
      BY DEF Lines, VersionRow
    <2>3. line'[n] = line[n] \/ line'[n] = Append(line[n], v)
      BY <2>1, <2>2
    <2>4. line[n] \in Seq(VersionRow)
      BY <2>2
    <2>5. QED
      BY <2>3, <2>4, Appended
  <1>2. CASE ~Commit(c)
    BY <1>2, TablesStep, LineStays
  <1>3. QED
    BY <1>1, <1>2

-----------------------------------------------------------------------------
(***************************************************************************)
(* What goes with the place of a request.                                  *)
(***************************************************************************)
\* A client's step leaves what another one reads next alone.
LEMMA OthersCursor ==
  ASSUME TypeOK, NEW c \in Clients, Invoke(c) \/ Serve(c) \/ Crash(c),
         NEW d \in Clients, d # c
  PROVE  cur'[d] = cur[d]
  <1> USE DEF TypeOK
  <1>1. CASE Invoke(c)
    BY <1>1 DEF Invoke, Call, CallSave, CallDeleteByName, CallDeleteByRef, CallByName,
                CallGetByRef, CallList
  <1>2. CASE Serve(c)
    BY <1>2 DEF Serve, PutBlob, PutFails, Begin, Busy, SaveOnce, DeleteOnce, Commit, TxFails,
                Resolve, List, ReadLatest, GetMeta, GetBlob, ListVersions, ReadFails, Reply,
                Abort, Stage, Finish, Forget, db
  <1>3. CASE Crash(c)
    BY <1>3 DEF Crash, Forget, db
  <1>4. QED
    BY <1>1, <1>2, <1>3

\* The selectors of the requests.
LEMMA SelectsOne ==
  ASSUME NEW op
  PROVE  /\ \A n \in Names : Selects(Select(op, n, NoRef))
         /\ \A r \in Refs : Selects(Select(op, NoName, r))
  BY DEF Selects, Select

\* The client's own step.
LEMMA OwnShape ==
  ASSUME IInv, NEW c \in Clients, Shaped(c), Invoke(c) \/ Serve(c) \/ Crash(c)
  PROVE  Shaped(c)'
  <1> USE DEF TypeOK
  <1>0. TypeOK /\ RequestsWellFormed
    BY DEF IInv
  <1>1. CASE CallSave(c)
    BY <1>0, <1>1 DEF CallSave, Call, Shaped
  <1>2. CASE CallDeleteByName(c) \/ CallDeleteByRef(c)
    BY <1>0, <1>2, SelectsOne DEF CallDeleteByName, CallDeleteByRef, Call, Select, Shaped
  <1>3. CASE CallByName(c)
    BY <1>0, <1>3, SelectsOne DEF CallByName, Call, Select, Shaped
  <1>4. CASE CallGetByRef(c)
    BY <1>0, <1>4, SelectsOne DEF CallGetByRef, Call, Select, Shaped
  <1>5. CASE CallList(c)
    BY <1>0, <1>5 DEF CallList, Call, Select, Shaped
  <1>6. CASE PutBlob(c) \/ PutFails(c) \/ Begin(c) \/ Busy(c)
    BY <1>0, <1>6 DEF PutBlob, PutFails, Begin, Busy, Finish, db, Shaped, RequestsWellFormed
  <1>7. CASE SaveOnce(c) \/ DeleteOnce(c) \/ Commit(c) \/ TxFails(c)
    BY <1>0, <1>7 DEF SaveOnce, DeleteOnce, Commit, TxFails, Abort, Stage, Finish, db, Shaped
  <1>8. CASE Resolve(c) \/ List(c) \/ ReadLatest(c)
    BY <1>0, <1>8 DEF Resolve, List, ReadLatest, Finish, db, Shaped
  <1>9. CASE GetMeta(c) \/ GetBlob(c) \/ ReadFails(c)
    BY <1>0, <1>9 DEF GetMeta, GetBlob, ReadFails, Finish, db, Shaped
  <1>10. CASE ListVersions(c)
    BY <1>0, <1>10 DEF ListVersions, Finish, db, Shaped
  <1>11. CASE Reply(c) \/ Crash(c)
    BY <1>0, <1>11 DEF Reply, Crash, Forget, NoRequest, Select, Shaped
  <1>12. QED
    BY <1>1, <1>2, <1>3, <1>4, <1>5, <1>6, <1>7, <1>8, <1>9, <1>10, <1>11 DEF Invoke, Serve

\* Every client's request keeps its shape.
LEMMA ShapesStep ==
  ASSUME IInv, \A d \in Clients : Shaped(d), NEW c \in Clients,
         Invoke(c) \/ Serve(c) \/ Crash(c)
  PROVE  \A d \in Clients : Shaped(d)'
  <1>1. Shaped(c)'
    BY OwnShape
  <1>2. ASSUME NEW d \in Clients, d # c PROVE Shaped(d)'
    BY <1>2, OthersUnchanged, OthersCursor DEF IInv, Shaped
  <1>3. QED
    BY <1>1, <1>2

-----------------------------------------------------------------------------
(***************************************************************************)
(* What a request has staged or read.                                      *)
(***************************************************************************)
\* A committed version is in the line of its name.
LEMMA InLine ==
  ASSUME Lines, NEW v \in VersionRow, v \in versions
  PROVE  /\ v.name \in Names
         /\ \E i \in DOMAIN line[v.name] : line[v.name][i] = v
  BY DEF Lines, Kept, VersionRow

\* An artifact that is live has a line, and points to its end.
LEMMA LiveEnds ==
  ASSUME Lines, NEW n \in Names, artifacts[n].latest # NoRef
  PROVE  /\ Len(line[n]) \in DOMAIN line[n]
         /\ line[n][Len(line[n])].ref = artifacts[n].latest
         /\ line[n][Len(line[n])] \in versions
         /\ line[n][Len(line[n])].name = n
  <1>1. Len(line[n]) \in Nat /\ DOMAIN line[n] = 1 .. Len(line[n])
    BY LineType
  <1>2. Kept(n)
    BY DEF Lines
  <1>3. QED
    BY <1>1, <1>2 DEF Kept

\* Another client's step changes nothing that this request relies on.
LEMMA OthersReading ==
  ASSUME IInv, Lines, Record, NEW c \in Clients, Invoke(c) \/ Serve(c) \/ Crash(c),
         NEW d \in Clients, d # c, Shaped(d), Reading(d)
  PROVE  Reading(d)'
  <1>1. /\ pc'[d] = pc[d] /\ req'[d] = req[d] /\ rows'[d] = rows[d] /\ cur'[d] = cur[d]
        /\ status'[d] = status[d]
    BY OthersUnchanged, OthersCursor DEF IInv
  <1>2. ASSUME pc[d] = "commit"
        PROVE  \A v \in rows'[d] : ToCommit(d, v)'
    <2>1. ~Commit(c)
      BY <1>2 DEF IInv, LockOwned, InTransaction, Commit
    <2>2. artifacts' = artifacts
      BY <2>1, TablesStep
    <2>3. \A v \in rows[d] : ToCommit(d, v)
      BY <1>2 DEF Reading
    <2>4. QED
      BY <1>1, <2>2, <2>3 DEF ToCommit
  <1>3. versions \subseteq versions'
    BY TablesStep, CommitAppends
  <1>4. ASSUME pc[d] = "walk"
        PROVE  Walked(d)'
    <2>1. req[d].name \in Names
      BY <1>4 DEF Shaped
    <2>2. PICK n \in Names : n = req[d].name
      BY <2>1
    <2>3. DOMAIN line[n] \subseteq Nat
      BY LineType
    <2>4. \A i \in DOMAIN line[n] : i \in DOMAIN line'[n] /\ line'[n][i] = line[n][i]
      BY LineGrows
    <2>5. /\ IsFiniteSet(rows[d])
          /\ \/ cur[d] = NoRef /\ rows[d] # {}
             \/ \E k \in DOMAIN line[n] :
                   /\ line[n][k].ref = cur[d]
                   /\ \A v \in rows[d] : \E i \in DOMAIN line[n] : i > k /\ v = line[n][i]
      BY <1>4, <2>2 DEF Reading, Walked
    <2>6. \/ cur[d] = NoRef /\ rows[d] # {}
          \/ \E k \in DOMAIN line'[n] :
                /\ line'[n][k].ref = cur[d]
                /\ \A v \in rows[d] : \E i \in DOMAIN line'[n] : i > k /\ v = line'[n][i]
      <3>1. CASE cur[d] = NoRef /\ rows[d] # {}
        BY <3>1
      <3>2. ASSUME NEW k \in DOMAIN line[n],
                   line[n][k].ref = cur[d],
                   \A v \in rows[d] : \E i \in DOMAIN line[n] : i > k /\ v = line[n][i]
            PROVE  /\ line'[n][k].ref = cur[d] /\ k \in DOMAIN line'[n]
                   /\ \A v \in rows[d] : \E i \in DOMAIN line'[n] : i > k /\ v = line'[n][i]
        BY <2>4, <3>2
      <3>3. QED
        BY <2>5, <3>1, <3>2
    <2>7. QED
      BY <1>1, <2>2, <2>5, <2>6 DEF Walked
  <1>5. QED
    BY <1>1, <1>2, <1>3, <1>4 DEF Reading

\* A name with an artifact is no empty selector.
LEMMA NamedSelector ==
  ASSUME NEW n \in Names
  PROVE  n # NoName
  BY StoreAssumption

\* One more version of a listing, the one with number k in line s.
StepsBack(c, s, k) ==
    /\ s[k].ref = cur[c]
    /\ Cardinality(rows[c]) < Limit
    /\ \A v \in rows[c] : \E i \in DOMAIN s : i > k /\ v = s[i]
    /\ rows' = [rows EXCEPT ![c] = @ \union {s[k]}]
    /\ cur' = [cur EXCEPT ![c] = IF k = 1 THEN NoRef ELSE s[k - 1].ref]

\* A listing that goes on goes one version back.
LEMMA WalkOn ==
  ASSUME IInv, Lines, NEW c \in Clients, Shaped(c), Walked(c),
         ListVersions(c), pc'[c] = "walk"
  PROVE  /\ UNCHANGED <<artifacts, versions, req, status, pc>>
         /\ \E k \in DOMAIN line[req[c].name] : StepsBack(c, line[req[c].name], k)
  <1> USE DEF TypeOK
  <1>0. TypeOK /\ LinearHistory
    BY DEF IInv
  <1>1. PICK n \in Names : n = req[c].name
    BY DEF Shaped, ListVersions
  <1>2. PICK s \in Seq(VersionRow) : s = line[n]
    BY LineType
  <1>3. /\ Cardinality(rows[c]) \in Nat
        /\ ~(Cardinality(rows[c]) >= Limit) /\ cur[c] # NoRef
        /\ UNCHANGED <<artifacts, versions, req, status, pc>>
        /\ \E v \in versions : /\ v.ref = cur[c]
                               /\ rows' = [rows EXCEPT ![c] = @ \union {v}]
                               /\ cur' = [cur EXCEPT ![c] = v.parent]
    <2>1. Cardinality(rows[c]) \in Nat
      BY FS_CardinalityType DEF Walked
    <2>2. QED
      BY <1>0, <2>1 DEF ListVersions, Finish, db
  <1>4. PICK v \in versions : /\ v.ref = cur[c]
                              /\ rows' = [rows EXCEPT ![c] = @ \union {v}]
                              /\ cur' = [cur EXCEPT ![c] = v.parent]
    BY <1>3
  <1>5. PICK k \in DOMAIN s :
           /\ s[k].ref = cur[c]
           /\ \A w \in rows[c] : \E i \in DOMAIN s : i > k /\ w = s[i]
    BY <1>1, <1>2, <1>3 DEF Walked
  <1>6. /\ s[k] \in versions
        /\ s[k].parent = IF k = 1 THEN NoRef ELSE s[k - 1].ref
    BY <1>2, <1>5 DEF Lines, Kept
  <1>7. s[k] = v
    <2>1. \A w, u \in versions : w.ref = u.ref => w = u
      BY <1>0 DEF LinearHistory
    <2>2. QED
      BY <1>4, <1>5, <1>6, <2>1
  <1>8. Cardinality(rows[c]) < Limit
    BY <1>3, StoreAssumption
  <1>9. /\ rows' = [rows EXCEPT ![c] = @ \union {s[k]}]
        /\ cur' = [cur EXCEPT ![c] = IF k = 1 THEN NoRef ELSE s[k - 1].ref]
    BY <1>4, <1>6, <1>7
  <1>10. line[req[c].name] = s
    BY <1>1, <1>2
  <1>11. StepsBack(c, s, k)
    BY <1>5, <1>8, <1>9 DEF StepsBack
  <1>12. QED
    BY <1>3, <1>10, <1>11

\* The walk stays in the line of its name.
LEMMA WalkedOn ==
  ASSUME IInv, Lines, Record, NEW c \in Clients, Shaped(c), Walked(c),
         ListVersions(c), pc'[c] = "walk"
  PROVE  Walked(c)'
  <1>0. TypeOK
    BY DEF IInv
  <1>1. PICK n \in Names : n = req[c].name
    BY DEF Shaped, ListVersions
  <1>2. PICK s \in Seq(VersionRow) : s = line[n]
    BY LineType
  <1>3. UNCHANGED <<versions, req>>
    BY WalkOn
  <1>4. PICK k \in DOMAIN s :
           /\ s[k].ref = cur[c]
           /\ \A v \in rows[c] : \E i \in DOMAIN s : i > k /\ v = s[i]
           /\ rows' = [rows EXCEPT ![c] = @ \union {s[k]}]
           /\ cur' = [cur EXCEPT ![c] = IF k = 1 THEN NoRef ELSE s[k - 1].ref]
    BY <1>1, <1>2, WalkOn DEF StepsBack
  <1>5. /\ rows'[c] = rows[c] \union {s[k]}
        /\ cur'[c] = IF k = 1 THEN NoRef ELSE s[k - 1].ref
    BY <1>0, <1>4 DEF TypeOK
  <1>6. line' = line
    BY <1>3, LineStays
  <1>7. IsFiniteSet(rows[c] \union {s[k]})
    BY FS_AddElement DEF Walked
  <1>8. Len(s) \in Nat /\ DOMAIN s = 1 .. Len(s)
    BY <1>2, LineType
  <1>9. \/ cur'[c] = NoRef /\ rows'[c] # {}
        \/ \E l \in DOMAIN s :
              /\ s[l].ref = cur'[c]
              /\ \A v \in rows'[c] : \E i \in DOMAIN s : i > l /\ v = s[i]
    <2>1. CASE k = 1
      BY <1>5, <2>1
    <2>2. CASE k # 1
      <3>1. k - 1 \in DOMAIN s /\ s[k - 1].ref = cur'[c]
        BY <1>5, <1>8, <2>2
      <3>2. ASSUME NEW v \in rows'[c]
            PROVE  \E i \in DOMAIN s : i > k - 1 /\ v = s[i]
        <4>1. CASE v = s[k]
          BY <1>8, <4>1
        <4>2. CASE v \in rows[c]
          <5>1. PICK i \in DOMAIN s : i > k /\ v = s[i]
            BY <1>4, <4>2
          <5>2. i > k - 1
            BY <1>8, <5>1
          <5>3. QED
            BY <5>1, <5>2
        <4>3. QED
          BY <1>5, <4>1, <4>2
      <3>3. QED
        BY <3>1, <3>2
    <2>3. QED
      BY <2>1, <2>2
  <1>10. req'[c].name = n /\ line'[n] = s
    BY <1>1, <1>2, <1>3, <1>6
  <1>11. QED
    BY <1>5, <1>7, <1>9, <1>10 DEF Walked

\* A version that is staged is the one that was asked for.
LEMMA StagedAsAsked ==
  ASSUME IInv, NEW c \in Clients, Shaped(c), SaveOnce(c) \/ DeleteOnce(c), pc'[c] = "commit"
  PROVE  \A v \in rows'[c] : ToCommit(c, v)'
  <1> USE DEF TypeOK
  <1>0. TypeOK
    BY DEF IInv
  <1>1. CASE SaveOnce(c)
    <2>1. /\ Stage(c, [ref |-> req[c].ref, name |-> req[c].name,
                       parent |-> artifacts[req[c].name].latest,
                       digest |-> req[c].digest, tomb |-> FALSE])
          /\ req[c].op = "save"
      BY <1>0, <1>1 DEF SaveOnce, Abort, Finish, ParentOf
    <2>2. QED
      BY <1>0, <2>1 DEF Stage, ToCommit
  <1>2. CASE DeleteOnce(c)
    <2>1. req[c].op = "delete" /\ Selects(req[c])
      BY <1>2 DEF DeleteOnce, Shaped
    <2>2. PICK n \in Target(req[c]), tombRef \in Refs :
            /\ Deletable(req[c], artifacts[n])
            /\ Stage(c, [ref |-> tombRef, name |-> n, parent |-> artifacts[n].latest,
                         digest |-> NoDigest, tomb |-> TRUE])
      BY <1>0, <1>2 DEF DeleteOnce, Abort, Finish, ParentOf
    <2>3. n = req[c].name \/ (req[c].name = NoName /\ artifacts[n].latest = req[c].ref)
      BY <2>1, <2>2, StoreAssumption DEF Selects, Target, Deletable
    <2>4. Live(artifacts[n])
      BY <2>2 DEF Deletable
    <2>5. /\ rows'[c] = {[ref |-> tombRef, name |-> n, parent |-> artifacts[n].latest,
                          digest |-> NoDigest, tomb |-> TRUE]}
          /\ UNCHANGED <<req, artifacts>>
      BY <1>0, <2>2 DEF Stage, db
    <2>6. QED
      BY <2>1, <2>3, <2>4, <2>5 DEF ToCommit
  <1>3. QED
    BY <1>1, <1>2

\* A read by name that finds its artifact stands at the end of its line.
LEMMA FoundAtEnd ==
  ASSUME IInv, Lines, Record, NEW c \in Clients, Shaped(c), ReadLatest(c), pc'[c] # "reply"
  PROVE  Reading(c)'
  <1> USE DEF TypeOK
  <1>0. TypeOK
    BY DEF IInv
  <1>1. PICK n \in Names : n = req[c].name
    BY DEF ReadLatest, IInv, RequestsWellFormed
  <1>2. /\ Live(artifacts[n])
        /\ cur'[c] = artifacts[n].latest
        /\ pc'[c] = IF req[c].op = "get" THEN "meta" ELSE "walk"
        /\ UNCHANGED <<versions, artifacts, req, rows>>
    BY <1>0, <1>1 DEF ReadLatest, Finish, Found, db
  <1>3. line' = line
    BY <1>2, LineStays
  <1>4. /\ Len(line[n]) \in DOMAIN line[n]
        /\ line[n][Len(line[n])].ref = cur'[c]
        /\ line[n][Len(line[n])] \in versions
    BY <1>2, LiveEnds DEF Live
  <1>5. rows'[c] = {}
    BY <1>2 DEF Shaped, ReadLatest
  <1>6. req'[c].name = n /\ n # NoName
    BY <1>1, <1>2, NamedSelector
  <1>7. Walked(c)'
    BY <1>3, <1>4, <1>5, <1>6, FS_EmptySet DEF Walked
  <1>8. QED
    BY <1>2, <1>4, <1>6, <1>7 DEF Reading

\* The client's own step.
LEMMA OwnReading ==
  ASSUME IInv, Lines, Record, NEW c \in Clients, Shaped(c), Reading(c),
         Invoke(c) \/ Serve(c) \/ Crash(c)
  PROVE  Reading(c)'
  <1> USE DEF TypeOK
  <1>0. TypeOK
    BY DEF IInv
  <1>1. CASE Invoke(c)
    BY <1>0, <1>1 DEF Invoke, Call, CallSave, CallDeleteByName, CallDeleteByRef, CallByName,
                CallGetByRef, CallList, Select, Reading
  <1>2. CASE PutBlob(c) \/ PutFails(c) \/ Begin(c) \/ Busy(c)
    BY <1>0, <1>2 DEF PutBlob, PutFails, Begin, Busy, Finish, db, Reading
  <1>3. CASE SaveOnce(c) \/ DeleteOnce(c)
    <2>1. pc'[c] \in {"commit", "reply"}
      BY <1>0, <1>3 DEF SaveOnce, DeleteOnce, Abort, Stage, Finish
    <2>2. QED
      BY <1>3, <2>1, StagedAsAsked DEF Reading
  <1>4. CASE Commit(c) \/ TxFails(c) \/ Resolve(c) \/ List(c) \/ GetBlob(c) \/ ReadFails(c)
    <2>1. pc'[c] = "reply"
      BY <1>0, <1>4 DEF Commit, TxFails, Resolve, List, GetBlob, ReadFails, Abort, Finish
    <2>2. QED
      BY <2>1 DEF Reading
  <1>5. CASE ReadLatest(c)
    BY <1>5, FoundAtEnd DEF Reading
  <1>6. CASE GetMeta(c)
    <2>1. \/ pc'[c] = "reply"
          \/ pc'[c] = "blob" /\ \E v \in versions : rows'[c] = {v} /\ ~v.tomb
      BY <1>0, <1>6 DEF GetMeta, Finish
    <2>2. versions' = versions
      BY <1>6 DEF GetMeta, db
    <2>3. QED
      BY <2>1, <2>2 DEF Reading
  <1>7. CASE ListVersions(c)
    <2>1. pc'[c] \in {"walk", "reply"} /\ Walked(c)
      BY <1>0, <1>7 DEF ListVersions, Finish, Reading
    <2>2. QED
      BY <1>7, <2>1, WalkedOn DEF Reading
  <1>8. CASE Reply(c) \/ Crash(c)
    BY <1>0, <1>8 DEF Reply, Crash, Forget, Reading
  <1>9. QED
    BY <1>1, <1>2, <1>3, <1>4, <1>5, <1>6, <1>7, <1>8 DEF Serve

-----------------------------------------------------------------------------
(***************************************************************************)
(* The invariant.                                                          *)
(***************************************************************************)
\* The store and its lines begin empty.
LEMMA InitLInv == LineInit => LInv
  <1> SUFFICES ASSUME LineInit PROVE LInv
    OBVIOUS
  <1>1. IInv
    BY InitIInv DEF LineInit
  <1>2. <<>> \in Seq(VersionRow) /\ Len(<<>>) = 0 /\ DOMAIN <<>> = {}
    BY EmptySeq
  <1>3. Lines
    <2>1. line = [n \in Names |-> <<>>]
      BY DEF LineInit
    <2>2. \A n \in Names : line[n] = <<>> /\ artifacts[n].latest = NoRef
      BY <2>1 DEF LineInit, Init
    <2>3. versions = {}
      BY DEF LineInit, Init
    <2>4. line \in [Names -> Seq(VersionRow)]
      BY <1>2, <2>1
    <2>5. ASSUME NEW n \in Names PROVE Kept(n)
      BY <1>2, <2>2, <2>3 DEF Kept
    <2>6. QED
      BY <2>4, <2>5 DEF Lines
  <1>4. \A c \in Clients : Shaped(c) /\ Reading(c)
    BY DEF LineInit, Init, NoRequest, Select, Shaped, Reading
  <1>5. QED
    BY <1>1, <1>3, <1>4 DEF LInv

\* The invariant after every step.
LEMMA NextLInv == LInv /\ [LineNext]_<<vars, line>> => LInv'
  <1> SUFFICES ASSUME LInv, [LineNext]_<<vars, line>> PROVE LInv'
    OBVIOUS
  <1>1. IInv /\ Lines /\ \A c \in Clients : Shaped(c) /\ Reading(c)
    BY DEF LInv
  <1>2. IInv'
    BY <1>1, NextIInv DEF LineNext
  <1>3. ASSUME NEW c \in Clients, Invoke(c) \/ Serve(c) \/ Crash(c), Record
        PROVE  LInv'
    <2>1. Lines'
      BY <1>1, <1>3, LinesStep
    <2>2. \A d \in Clients : Shaped(d)'
      BY <1>1, <1>3, ShapesStep
    <2>3. \A d \in Clients : Reading(d)'
      BY <1>1, <1>3, OwnReading, OthersReading
    <2>4. QED
      BY <1>2, <2>1, <2>2, <2>3 DEF LInv
  <1>4. CASE UNCHANGED <<vars, line>>
    BY <1>1, <1>2, <1>4 DEF vars, LInv, Lines, Kept, Shaped, Reading, ToCommit, Walked
  <1>5. QED
    BY <1>3, <1>4 DEF LineNext, Next

-----------------------------------------------------------------------------
(***************************************************************************)
(* The abstract history says what the tables say.                          *)
(***************************************************************************)
Entries == [ref: Refs, digest: Digests \union {NoDigest}]

\* Intervals that are equal end at the same number.
LEMMA SameBound ==
  ASSUME NEW m \in Nat, NEW k \in Nat, 1 .. m = 1 .. k
  PROVE  m = k
  <1>1. m # 0 => m \in 1 .. k
    BY m \in 1 .. m \/ m = 0
  <1>2. k # 0 => k \in 1 .. m
    BY k \in 1 .. k \/ k = 0
  <1>3. QED
    BY <1>1, <1>2

\* The abstract history of a name has an entry for each version of its line.
LEMMA AbsLine ==
  ASSUME Lines, NEW n \in Names
  PROVE  /\ AbsHistory[n] \in Seq(Entries)
         /\ Len(AbsHistory[n]) = Len(line[n])
         /\ DOMAIN AbsHistory[n] = DOMAIN line[n]
         /\ \A i \in DOMAIN line[n] :
               /\ AbsHistory[n][i] = [ref |-> line[n][i].ref, digest |-> line[n][i].digest]
               /\ AbsHistory[n][i].ref = line[n][i].ref
               /\ AbsHistory[n][i].digest = line[n][i].digest
  <1>1. PICK s \in Seq(VersionRow) : s = line[n]
    BY LineType
  <1>2. PICK h : h = [i \in DOMAIN s |-> [ref |-> s[i].ref, digest |-> s[i].digest]]
    OBVIOUS
  <1>3. AbsHistory[n] = h
    BY <1>1, <1>2 DEF AbsHistory
  <1>4. /\ Len(s) \in Nat /\ DOMAIN s = 1 .. Len(s)
        /\ \A i \in DOMAIN s : s[i] \in VersionRow
    BY <1>1, LineType
  <1>5. h \in [1 .. Len(s) -> Entries]
    BY <1>2, <1>4 DEF VersionRow, Entries
  <1>6. h \in Seq(Entries)
    BY <1>4, <1>5, SeqDef
  <1>7. Len(h) = Len(s)
    <2>1. Len(h) \in Nat /\ DOMAIN h = 1 .. Len(h)
      BY <1>6, LenProperties
    <2>2. DOMAIN h = 1 .. Len(s)
      BY <1>5
    <2>3. QED
      BY <1>4, <2>1, <2>2, SameBound
  <1>8. ASSUME NEW i \in DOMAIN s
        PROVE  /\ h[i] = [ref |-> s[i].ref, digest |-> s[i].digest]
               /\ h[i].ref = s[i].ref
               /\ h[i].digest = s[i].digest
    <2>1. h[i] = [ref |-> s[i].ref, digest |-> s[i].digest]
      BY <1>2
    <2>2. QED
      BY <2>1
  <1>9. DOMAIN h = DOMAIN s
    BY <1>2
  <1>10. QED
    BY <1>1, <1>3, <1>6, <1>7, <1>8, <1>9

\* A version is a tombstone exactly when it has no payload.
LEMMA TombIsEmpty ==
  ASSUME TypeOK, PayloadsDurable, NEW v \in versions
  PROVE  v \in VersionRow /\ (v.tomb <=> v.digest = NoDigest)
  BY StoreAssumption DEF TypeOK, PayloadsDurable

\* The row a client is shown for a version of its line is that version.
LEMMA AbsRow ==
  ASSUME IInv, Lines, NEW n \in Names, NEW i \in DOMAIN line[n]
  PROVE  Abstract!Row(n, i) = line[n][i]
  <1>1. PICK s \in Seq(VersionRow) : s = line[n]
    BY LineType
  <1>2. /\ DOMAIN s = 1 .. Len(s) /\ Len(s) \in Nat
        /\ \A j \in DOMAIN s : s[j] \in VersionRow
        /\ \A j \in DOMAIN s : AbsHistory[n][j].ref = s[j].ref
        /\ \A j \in DOMAIN s : AbsHistory[n][j].digest = s[j].digest
    BY <1>1, LineType, AbsLine
  <1>3. /\ s[i] \in versions /\ s[i].name = n
        /\ s[i].parent = IF i = 1 THEN NoRef ELSE s[i - 1].ref
    BY <1>1 DEF Lines, Kept
  <1>4. s[i] \in VersionRow /\ (s[i].tomb <=> s[i].digest = NoDigest)
    BY <1>3, TombIsEmpty DEF IInv
  <1>5. i # 1 => i - 1 \in DOMAIN s
    BY <1>1, <1>2
  <1>6. (IF i = 1 THEN NoRef ELSE AbsHistory[n][i - 1].ref) = s[i].parent
    BY <1>2, <1>3, <1>5
  <1>7. Abstract!Row(n, i) =
          [ref |-> s[i].ref, name |-> n, parent |-> s[i].parent, digest |-> s[i].digest,
           tomb |-> s[i].digest = NoDigest]
    <2>1. AbsHistory[n][i].ref = s[i].ref /\ AbsHistory[n][i].digest = s[i].digest
      BY <1>1, <1>2
    <2>2. QED
      BY <1>6, <2>1 DEF Abstract!Row, Abstract!RowFor
  <1>8. (s[i].digest = NoDigest) = s[i].tomb
    BY <1>4 DEF VersionRow
  <1>9. s[i] = [ref |-> s[i].ref, name |-> n, parent |-> s[i].parent, digest |-> s[i].digest,
                tomb |-> s[i].tomb]
    BY <1>3, <1>4 DEF VersionRow
  <1>10. QED
    BY <1>1, <1>7, <1>8, <1>9

\* The latest version and whether there is one to be found.
LEMMA AbsLatest ==
  ASSUME IInv, Lines, NEW n \in Names
  PROVE  /\ Abstract!Latest(n) = artifacts[n].latest
         /\ Abstract!Alive(n) <=> Live(artifacts[n])
         /\ Live(artifacts[n]) => /\ Len(line[n]) \in DOMAIN line[n]
                                  /\ Len(AbsHistory[n]) = Len(line[n])
                                  /\ line[n][Len(line[n])].ref = artifacts[n].latest
  <1>0. TypeOK /\ HeadMatches /\ LinearHistory
    BY DEF IInv
  <1>1. PICK s \in Seq(VersionRow) : s = line[n]
    BY LineType
  <1>2. PICK h \in Seq(Entries) : h = AbsHistory[n]
    BY AbsLine
  <1>3. /\ DOMAIN s = 1 .. Len(s) /\ Len(s) \in Nat /\ Len(h) = Len(s)
        /\ \A j \in DOMAIN s : h[j].ref = s[j].ref /\ h[j].digest = s[j].digest
    BY <1>1, <1>2, LineType, AbsLine
  <1>4. h = <<>> <=> Len(s) = 0
    BY <1>3, EmptySeq
  <1>5. artifacts[n].latest = IF Len(s) = 0 THEN NoRef ELSE s[Len(s)].ref
    BY <1>1 DEF Lines, Kept
  <1>6. CASE Len(s) = 0
    BY <1>2, <1>4, <1>5, <1>6 DEF Abstract!Latest, Abstract!Alive, Live
  <1>7. CASE Len(s) # 0
    <2>1. Len(s) \in DOMAIN s
      BY <1>3, <1>7
    <2>2. PICK u : u = s[Len(s)]
      OBVIOUS
    <2>3. u \in versions /\ u.name = n
      BY <1>1, <2>1, <2>2 DEF Lines, Kept
    <2>4. h[Len(h)].ref = u.ref /\ h[Len(h)].digest = u.digest
      BY <1>3, <2>1, <2>2
    <2>5. u \in VersionRow /\ (u.tomb <=> u.digest = NoDigest)
      BY <2>3, TombIsEmpty DEF IInv
    <2>6. artifacts[n].latest = u.ref /\ u.ref # NoRef
      BY <1>5, <1>7, <2>2, <2>5, StoreAssumption DEF VersionRow
    <2>7. artifacts[n].deleted <=> u.tomb
      <3>1. PICK v \in versions : artifacts[n] = [latest |-> v.ref, deleted |-> v.tomb]
        BY <1>0, <2>3 DEF HeadMatches
      <3>2. v.ref = u.ref
        BY <2>6, <3>1
      <3>3. \A w, x \in versions : w.ref = x.ref => w = x
        BY <1>0 DEF LinearHistory
      <3>4. v = u
        BY <2>3, <3>2, <3>3
      <3>5. QED
        BY <3>1, <3>4
    <2>8. Abstract!Latest(n) = u.ref
      BY <1>2, <1>4, <1>7, <2>4 DEF Abstract!Latest, Abstract!LastOf
    <2>9. Abstract!Alive(n) <=> u.digest # NoDigest
      BY <1>2, <1>4, <1>7, <2>4 DEF Abstract!Alive, Abstract!LastOf
    <2>10. Live(artifacts[n]) <=> ~u.tomb
      BY <2>6, <2>7 DEF Live
    <2>11. QED
      BY <1>1, <1>2, <1>3, <2>1, <2>2, <2>5, <2>6, <2>8, <2>9, <2>10
  <1>8. QED
    BY <1>6, <1>7

\* The rows of a name, and the references that are taken.
LEMMA AbsVersions ==
  ASSUME IInv, Lines
  PROVE  /\ \A n \in Names : Abstract!AllRows(n) = {v \in versions : v.name = n}
         /\ UNION {Abstract!AllRows(n) : n \in Names} = versions
         /\ \A r : Abstract!Used(r) <=> RefTaken(r)
  <1>1. ASSUME NEW n \in Names
        PROVE  Abstract!AllRows(n) = {v \in versions : v.name = n}
    <2>1. Abstract!AllRows(n) = {Abstract!Row(n, i) : i \in DOMAIN line[n]}
      BY AbsLine DEF Abstract!AllRows
    <2>2. \A i \in DOMAIN line[n] : Abstract!Row(n, i) = line[n][i]
      BY AbsRow
    <2>3. /\ \A i \in DOMAIN line[n] : line[n][i] \in versions /\ line[n][i].name = n
          /\ \A v \in versions : v.name = n => \E i \in DOMAIN line[n] : line[n][i] = v
      BY DEF Lines, Kept
    <2>4. QED
      BY <2>1, <2>2, <2>3
  <1>2. \A v \in versions : v.name \in Names
    BY DEF IInv, TypeOK, VersionRow
  <1>3. UNION {Abstract!AllRows(n) : n \in Names} = versions
    BY <1>1, <1>2
  <1>4. ASSUME NEW r
        PROVE  Abstract!Used(r) <=> RefTaken(r)
    <2>1. ASSUME NEW n \in Names, NEW i \in DOMAIN AbsHistory[n]
          PROVE  /\ AbsHistory[n][i].ref = line[n][i].ref
                 /\ line[n][i] \in versions
      <3>1. i \in DOMAIN line[n] /\ AbsHistory[n][i].ref = line[n][i].ref
        BY AbsLine
      <3>2. QED
        BY <3>1 DEF Lines, Kept
    <2>2. ASSUME NEW v \in versions
          PROVE  \E n \in Names : \E i \in DOMAIN AbsHistory[n] : AbsHistory[n][i].ref = v.ref
      <3>1. PICK n \in Names : n = v.name
        BY <1>2
      <3>2. PICK i \in DOMAIN line[n] : line[n][i] = v
        BY <3>1 DEF Lines, Kept
      <3>3. i \in DOMAIN AbsHistory[n] /\ AbsHistory[n][i].ref = v.ref
        BY <3>2, AbsLine
      <3>4. QED
        BY <3>3
    <2>3. QED
      BY <2>1, <2>2 DEF Abstract!Used, RefTaken
  <1>5. QED
    BY <1>1, <1>3, <1>4

-----------------------------------------------------------------------------
(***************************************************************************)
(* A step moves its own client only: what the others were promised stays.  *)
(***************************************************************************)
\* The part of line s a listing that stands at reference r has still to
\* read, when it may show m more versions.
Back(s, r, m) == {s[i] : i \in {j \in DOMAIN s : \E k \in DOMAIN s :
                                   s[k].ref = r /\ j <= k /\ k < j + m}}

\* The versions a listing has still to read, by the line of its name.
LEMMA AheadIsBack ==
  ASSUME NEW c \in Clients
  PROVE  Ahead(c) = Back(line[req[c].name], cur[c], Limit - Cardinality(rows[c]))
  BY DEF Ahead, Back

\* A version with another reference at the end of the line changes nothing.
LEMMA BackStays ==
  ASSUME NEW s \in Seq(VersionRow), NEW v \in VersionRow, NEW r, NEW m, v.ref # r
  PROVE  Back(Append(s, v), r, m) = Back(s, r, m)
  <1>1. PICK t \in Seq(VersionRow) : t = Append(s, v)
    BY Appended
  <1>2. /\ Len(s) \in Nat /\ DOMAIN s = 1 .. Len(s)
        /\ DOMAIN t = 1 .. Len(s) + 1
        /\ \A i \in 1 .. Len(s) : t[i] = s[i]
        /\ t[Len(s) + 1] = v
    BY <1>1, Appended
  <1> DEFINE Here(u) == {j \in DOMAIN u : \E k \in DOMAIN u :
                            u[k].ref = r /\ j <= k /\ k < j + m}
  <1>3. Here(t) = Here(s)
    <2>1. ASSUME NEW j \in Here(t)
          PROVE  j \in Here(s)
      <3>1. PICK k \in DOMAIN t : t[k].ref = r /\ j <= k /\ k < j + m
        OBVIOUS
      <3>2. k # Len(s) + 1
        BY <1>2, <3>1
      <3>3. k \in DOMAIN s /\ s[k].ref = r
        BY <1>2, <3>1, <3>2
      <3>4. j \in DOMAIN s
        BY <1>2, <3>1, <3>3
      <3>5. QED
        BY <3>1, <3>3, <3>4
    <2>2. ASSUME NEW j \in Here(s)
          PROVE  j \in Here(t)
      <3>1. PICK k \in DOMAIN s : s[k].ref = r /\ j <= k /\ k < j + m
        OBVIOUS
      <3>2. k \in DOMAIN t /\ t[k].ref = r /\ j \in DOMAIN t
        BY <1>2, <3>1
      <3>3. QED
        BY <3>1, <3>2
    <2>3. QED
      BY <2>1, <2>2
  <1>4. \A j \in Here(s) : t[j] = s[j]
    BY <1>2
  <1>5. Back(t, r, m) = {t[i] : i \in Here(t)} /\ Back(s, r, m) = {s[i] : i \in Here(s)}
    BY DEF Back
  <1> HIDE DEF Here
  <1>6. {t[i] : i \in Here(s)} = {s[i] : i \in Here(s)}
    BY <1>4
  <1>7. Back(t, r, m) = Back(s, r, m)
    BY <1>3, <1>5, <1>6
  <1>8. QED
    BY <1>1, <1>7

\* A listing under way is going to read what it was going to read.
LEMMA OthersAhead ==
  ASSUME IInv, Lines, Record, NEW c \in Clients, Invoke(c) \/ Serve(c) \/ Crash(c),
         NEW d \in Clients, d # c, Shaped(d), Reading(d), pc[d] = "walk"
  PROVE  Ahead(d)' = Ahead(d)
  <1>1. req'[d] = req[d] /\ rows'[d] = rows[d] /\ cur'[d] = cur[d]
    BY OthersUnchanged, OthersCursor DEF IInv
  <1>2. PICK n \in Names : n = req[d].name
    BY DEF Shaped
  <1>3. PICK s \in Seq(VersionRow) : s = line[n]
    BY LineType
  <1>4. PICK r : r = cur[d]
    OBVIOUS
  <1>5. PICK m : m = Limit - Cardinality(rows[d])
    OBVIOUS
  <1>6. PICK t : t = line'[n]
    OBVIOUS
  <1>7. Ahead(d) = Back(s, r, m)
    BY <1>2, <1>3, <1>4, <1>5, AheadIsBack
  <1>8. Ahead(d)' = Back(t, r, m)
    <2>1. Ahead(d)' = Back(line'[req'[d].name], cur'[d], Limit - Cardinality(rows'[d]))
      BY DEF Ahead, Back
    <2>2. QED
      BY <1>1, <1>2, <1>4, <1>5, <1>6, <2>1
  <1>9. CASE Commit(c)
    <2>1. PICK v \in VersionRow : /\ Fits(c, v)
                                  /\ line' = [line EXCEPT ![v.name] = Append(@, v)]
      BY <1>9, CommitExtends
    <2>2. line \in [Names -> Seq(VersionRow)] /\ v.name \in Names
      BY DEF Lines, VersionRow
    <2>3. t = s \/ t = Append(s, v)
      BY <1>3, <1>6, <2>1, <2>2
    <2>4. v.ref # r
      <3>1. r = NoRef \/ \E w \in versions : w.ref = r
        <4>1. \A k \in DOMAIN s : s[k] \in versions
          BY <1>3 DEF Lines, Kept
        <4>2. r = NoRef \/ \E k \in DOMAIN s : s[k].ref = r
          BY <1>2, <1>3, <1>4 DEF Reading, Walked
        <4>3. QED
          BY <4>1, <4>2
      <3>2. v.ref # NoRef /\ \A w \in versions : w.ref # v.ref
        BY <2>1, StoreAssumption DEF Fits, RefTaken, VersionRow
      <3>3. QED
        BY <3>1, <3>2
    <2>5. Back(Append(s, v), r, m) = Back(s, r, m)
      BY <2>4, BackStays
    <2>6. QED
      BY <1>7, <1>8, <2>3, <2>5
  <1>10. CASE ~Commit(c)
    <2>1. line' = line
      BY <1>10, TablesStep, LineStays
    <2>2. QED
      BY <1>3, <1>6, <1>7, <1>8, <2>1
  <1>11. QED
    BY <1>9, <1>10

\* The version that is about to be read has been committed for good.
LEMMA OthersMeta ==
  ASSUME IInv, NEW c \in Clients, Invoke(c) \/ Serve(c) \/ Crash(c),
         NEW r, \E v \in versions : v.ref = r
  PROVE  {v \in versions' : v.ref = r} = {v \in versions : v.ref = r}
  <1>1. CASE Commit(c)
    <2>1. PICK v \in VersionRow : Fits(c, v) /\ versions' = versions \union {v}
      BY <1>1, CommitAppends
    <2>2. v.ref # r
      BY <2>1 DEF Fits, RefTaken
    <2>3. QED
      BY <2>1, <2>2
  <1>2. CASE ~Commit(c)
    BY <1>2, TablesStep
  <1>3. QED
    BY <1>1, <1>2

\* No step changes what another client's request was promised.
LEMMA OthersSettled ==
  ASSUME IInv, Lines, Record, NEW c \in Clients, Invoke(c) \/ Serve(c) \/ Crash(c),
         NEW d \in Clients, d # c, Shaped(d), Reading(d)
  PROVE  PhaseOf(d)' = PhaseOf(d) /\ AnswerOf(d)' = AnswerOf(d)
  <1>1. /\ pc'[d] = pc[d] /\ req'[d] = req[d] /\ rows'[d] = rows[d] /\ cur'[d] = cur[d]
        /\ status'[d] = status[d]
    BY OthersUnchanged, OthersCursor DEF IInv
  <1>2. (Settled(d)' <=> Settled(d)) /\ PhaseOf(d)' = PhaseOf(d)
    BY <1>1 DEF Settled, PhaseOf
  <1>3. Settled(d) => RowsFor(d)' = RowsFor(d)
    <2>1. CASE pc[d] = "meta" /\ Settled(d)
      <3>1. \E v \in versions : v.ref = cur[d]
        BY <2>1 DEF Settled, Reading
      <3>2. {v \in versions' : v.ref = cur[d]} = {v \in versions : v.ref = cur[d]}
        BY <3>1, OthersMeta
      <3>3. QED
        BY <1>1, <2>1, <3>2 DEF RowsFor
    <2>2. CASE pc[d] = "walk"
      BY <1>1, <2>2, OthersAhead DEF RowsFor
    <2>3. CASE pc[d] # "meta" /\ pc[d] # "walk"
      BY <1>1, <2>3 DEF RowsFor
    <2>4. QED
      BY <2>1, <2>2, <2>3
  <1>4. AnswerOf(d)' = AnswerOf(d)
    BY <1>1, <1>2, <1>3 DEF AnswerOf
  <1>5. QED
    BY <1>2, <1>4

\* So the abstract phase and answer change for the client that moves.
LEMMA OneMoves ==
  ASSUME LInv, Record, NEW c \in Clients, Invoke(c) \/ Serve(c) \/ Crash(c),
         NEW p, NEW a, PhaseOf(c)' = p, AnswerOf(c)' = a
  PROVE  /\ AbsPhase' = [AbsPhase EXCEPT ![c] = p]
         /\ AbsAnswer' = [AbsAnswer EXCEPT ![c] = a]
  <1>1. ASSUME NEW d \in Clients, d # c
        PROVE  PhaseOf(d)' = PhaseOf(d) /\ AnswerOf(d)' = AnswerOf(d)
    BY <1>1, OthersSettled DEF LInv
  <1>2. AbsPhase' = [d \in Clients |-> PhaseOf(d)'] /\ AbsAnswer' = [d \in Clients |-> AnswerOf(d)']
    BY DEF AbsPhase, AbsAnswer
  <1>3. QED
    BY <1>1, <1>2 DEF AbsPhase, AbsAnswer

\* A step that settles nothing is no step of the abstract store.
LEMMA Stutters ==
  ASSUME LInv, Record, NEW c \in Clients, Invoke(c) \/ Serve(c) \/ Crash(c), ~Commit(c),
         UNCHANGED req, PhaseOf(c)' = PhaseOf(c), AnswerOf(c)' = AnswerOf(c)
  PROVE  UNCHANGED <<AbsHistory, AbsPhase, req, AbsAnswer>>
  <1>1. line' = line
    BY TablesStep, LineStays DEF LInv
  <1>2. AbsHistory' = AbsHistory
    BY <1>1 DEF AbsHistory
  <1>3. /\ AbsPhase' = [AbsPhase EXCEPT ![c] = PhaseOf(c)]
        /\ AbsAnswer' = [AbsAnswer EXCEPT ![c] = AnswerOf(c)]
    BY OneMoves
  <1>4. AbsPhase' = AbsPhase /\ AbsAnswer' = AbsAnswer
    BY <1>3 DEF AbsPhase, AbsAnswer
  <1>5. QED
    BY <1>2, <1>4

\* Only a commit makes the abstract history longer.
LEMMA HistoryStays ==
  ASSUME LInv, Record, NEW c \in Clients, Invoke(c) \/ Serve(c) \/ Crash(c), ~Commit(c)
  PROVE  AbsHistory' = AbsHistory
  <1>1. line' = line
    BY TablesStep, LineStays DEF LInv
  <1>2. QED
    BY <1>1 DEF AbsHistory

-----------------------------------------------------------------------------
(***************************************************************************)
(* Every step is one of the abstract store, or none at all.                *)
(***************************************************************************)
\* A request that begins.
LEMMA InvokeMaps ==
  ASSUME LInv, Record, NEW c \in Clients, Invoke(c)
  PROVE  Abstract!Invoke(c)
  <1>0. TypeOK
    BY DEF LInv, IInv
  <1>1. PICK r \in Abstract!Calls, start \in {"put", "begin", "read", "meta"} :
            /\ Call(c, r, start)
            /\ start = "meta" => r.name = NoName
    <2>1. CASE CallSave(c)
      <3>1. PICK n \in Names, e \in Refs \union {NoRef}, d \in Digests, v \in Refs :
              Call(c, [op |-> "save", name |-> n, ref |-> v, expected |-> e, digest |-> d], "put")
        BY <2>1 DEF CallSave
      <3>2. [op |-> "save", name |-> n, ref |-> v, expected |-> e, digest |-> d] \in Abstract!Calls
        BY DEF Abstract!Calls
      <3>3. QED
        BY <3>1, <3>2
    <2>2. \A n \in Names, op \in {"delete", "resolve", "get", "versions"} :
            Select(op, n, NoRef) \in Abstract!Calls
      BY DEF Select, Abstract!Calls, Abstract!Selections
    <2>3. \A r \in Refs, op \in {"delete", "get"} :
            Select(op, NoName, r) \in Abstract!Calls
      BY DEF Select, Abstract!Calls, Abstract!Selections
    <2>4. Select("list", NoName, NoRef) \in Abstract!Calls
      BY DEF Select, Abstract!Calls, Abstract!Selections
    <2>5. CASE CallDeleteByName(c) \/ CallDeleteByRef(c)
      BY <2>2, <2>3, <2>5 DEF CallDeleteByName, CallDeleteByRef
    <2>6. CASE CallByName(c)
      BY <2>2, <2>6 DEF CallByName
    <2>7. CASE CallGetByRef(c)
      <3>1. PICK r \in Refs : Call(c, Select("get", NoName, r), "meta")
        BY <2>7 DEF CallGetByRef
      <3>2. Select("get", NoName, r).name = NoName
        BY DEF Select
      <3>3. QED
        BY <2>3, <3>1, <3>2
    <2>8. CASE CallList(c)
      BY <2>4, <2>8 DEF CallList
    <2>9. QED
      BY <2>1, <2>5, <2>6, <2>7, <2>8 DEF Invoke
  <1>2. /\ pc[c] = "idle"
        /\ pc'[c] = start
        /\ req' = [req EXCEPT ![c] = r]
        /\ req'[c] = r
    BY <1>0, <1>1 DEF Call, TypeOK
  <1>3. AnswerOf(c) = Abstract!NoAnswer /\ PhaseOf(c) = "idle"
    BY <1>2 DEF AnswerOf, PhaseOf, Settled, Abstract!NoAnswer, Abstract!Answer
  <1>4. ~Settled(c)'
    BY <1>1, <1>2 DEF Settled
  <1>5. AnswerOf(c)' = AnswerOf(c) /\ PhaseOf(c)' = "called"
    BY <1>1, <1>2, <1>3, <1>4 DEF AnswerOf, PhaseOf, Abstract!NoAnswer, Abstract!Answer
  <1>6. ~Commit(c)
    BY <1>2 DEF Commit
  <1>7. /\ AbsPhase' = [AbsPhase EXCEPT ![c] = "called"]
        /\ AbsAnswer' = [AbsAnswer EXCEPT ![c] = AnswerOf(c)]
    BY <1>5, OneMoves
  <1>8. AbsAnswer' = AbsAnswer /\ AbsPhase[c] = "idle"
    BY <1>3, <1>7 DEF AbsAnswer, AbsPhase
  <1>9. AbsHistory' = AbsHistory
    BY <1>6, HistoryStays
  <1>10. QED
    BY <1>1, <1>2, <1>7, <1>8, <1>9 DEF Abstract!Invoke

\* A request that ends: it is answered, or its process dies.
LEMMA LeaveMaps ==
  ASSUME LInv, Record, NEW c \in Clients, Reply(c) \/ Crash(c)
  PROVE  Abstract!Leave(c)
  <1>0. TypeOK
    BY DEF LInv, IInv
  <1>1. /\ pc[c] # "idle" /\ Forget(c)
    BY DEF Reply, Crash
  <1>2. /\ pc'[c] = "idle" /\ req' = [req EXCEPT ![c] = NoRequest]
    BY <1>0, <1>1 DEF Forget, TypeOK
  <1>3. NoRequest = Abstract!NoCall
    BY DEF NoRequest, Select, Abstract!NoCall
  <1>4. AnswerOf(c)' = Abstract!NoAnswer /\ PhaseOf(c)' = "idle"
    BY <1>2 DEF AnswerOf, PhaseOf, Settled, Abstract!NoAnswer, Abstract!Answer
  <1>5. ~Commit(c) /\ (Serve(c) \/ Crash(c))
    BY <1>0, <1>2 DEF Commit, Finish, TypeOK, Serve
  <1>6. /\ AbsPhase' = [AbsPhase EXCEPT ![c] = "idle"]
        /\ AbsAnswer' = [AbsAnswer EXCEPT ![c] = Abstract!NoAnswer]
    BY <1>4, <1>5, OneMoves
  <1>7. AbsHistory' = AbsHistory
    BY <1>5, HistoryStays
  <1>8. AbsPhase[c] # "idle"
    BY <1>1 DEF AbsPhase, PhaseOf
  <1>9. QED
    BY <1>2, <1>3, <1>6, <1>7, <1>8 DEF Abstract!Leave

\* A request that comes to its reply is done, with what it is to return.
LEMMA EndsWith ==
  ASSUME LInv, Record, NEW c \in Clients, Invoke(c) \/ Serve(c) \/ Crash(c),
         NEW st, NEW found, NEW r,
         pc'[c] = "reply", status'[c] = st, rows'[c] = found, UNCHANGED req,
         r = IF req[c].op = "resolve" THEN cur'[c] ELSE NoRef
  PROVE  /\ Abstract!Done(c)
         /\ Abstract!Settle(c, Abstract!Answer(st, found, r))
  <1>1. Settled(c)' /\ PhaseOf(c)' = "done"
    BY DEF Settled, PhaseOf
  <1>2. RowsFor(c)' = found
    BY DEF RowsFor
  <1>3. AnswerOf(c)' = Abstract!Answer(st, found, r)
    BY <1>1, <1>2 DEF AnswerOf, Abstract!Answer
  <1>4. /\ AbsPhase' = [AbsPhase EXCEPT ![c] = "done"]
        /\ AbsAnswer' = [AbsAnswer EXCEPT ![c] = Abstract!Answer(st, found, r)]
    BY <1>1, <1>3, OneMoves
  <1>5. QED
    BY <1>4 DEF Abstract!Done, Abstract!Settle

\* A request that fails without effect, or a read whose answer is lost.
LEMMA FailMaps ==
  ASSUME LInv, Record, NEW c \in Clients, Serve(c), Finish(c, "error", {}),
         pc[c] \notin {"idle", "reply"}, UNCHANGED <<req, cur>>
  PROVE  Abstract!Fail(c)
  <1>0. TypeOK /\ Shaped(c)
    BY DEF LInv, IInv
  <1>1. pc'[c] = "reply" /\ status'[c] = "error" /\ rows'[c] = {}
    BY <1>0 DEF Finish, TypeOK
  <1>2. ~Commit(c)
    BY <1>0, <1>1 DEF Commit, Finish, TypeOK
  <1>3. NoRef = IF req[c].op = "resolve" THEN cur'[c] ELSE NoRef
    <2>1. CASE req[c].op = "resolve"
      <3>1. pc[c] \notin {"begin", "body", "commit", "meta", "blob", "walk", "put"}
        BY <1>0, <2>1 DEF Shaped, LInv, IInv, RequestsWellFormed
      <3>2. pc[c] = "read"
        BY <1>0, <3>1 DEF TypeOK, Locations
      <3>3. cur[c] = NoRef
        BY <1>0, <3>2 DEF Shaped
      <3>4. QED
        BY <3>3
    <2>2. QED
      BY <2>1
  <1>4. Abstract!Done(c) /\ Abstract!Settle(c, Abstract!Answer("error", {}, NoRef))
    BY <1>1, <1>3, EndsWith
  <1>5. AbsHistory' = AbsHistory
    BY <1>2, HistoryStays
  <1>6. \/ AbsPhase[c] = "called"
        \/ AbsPhase[c] = "done" /\ req[c].op \in {"get", "versions"}
    BY <1>0 DEF AbsPhase, PhaseOf, Settled, Shaped
  <1>7. QED
    BY <1>4, <1>5, <1>6 DEF Abstract!Fail, Abstract!Refuse

\* A request that is refused, or a read that shows what it has found, at
\* one instant.
LEMMA TakesEffect ==
  ASSUME LInv, Record, NEW c \in Clients, Serve(c), NEW st, NEW found,
         pc'[c] = "reply", status'[c] = st, rows'[c] = found, ~Commit(c),
         pc[c] # "idle", ~Settled(c), UNCHANGED req,
         NEW r, r = IF req[c].op = "resolve" THEN cur'[c] ELSE NoRef
  PROVE  /\ AbsPhase[c] = "called"
         /\ Abstract!Done(c)
         /\ Abstract!Settle(c, Abstract!Answer(st, found, r))
         /\ UNCHANGED AbsHistory
  BY EndsWith, HistoryStays DEF AbsPhase, PhaseOf

\* A step between two places where nothing is settled yet settles nothing.
LEMMA NotYet ==
  ASSUME LInv, Record, NEW c \in Clients, Serve(c), ~Commit(c), UNCHANGED req,
         pc[c] \in {"put", "begin", "body"}, pc'[c] \in {"put", "begin", "body", "commit"}
  PROVE  UNCHANGED <<AbsHistory, AbsPhase, req, AbsAnswer>>
  <1>1. ~Settled(c) /\ ~Settled(c)'
    BY DEF Settled
  <1>2. PhaseOf(c)' = PhaseOf(c) /\ AnswerOf(c)' = AnswerOf(c)
    BY <1>1 DEF PhaseOf, AnswerOf
  <1>3. QED
    BY <1>2, Stutters

\* The payload of a save, and the wait for the write lock.
LEMMA PutAndBeginMap ==
  ASSUME LInv, Record, NEW c \in Clients,
         PutBlob(c) \/ PutFails(c) \/ Begin(c) \/ Busy(c)
  PROVE  Abstract!Fail(c) \/ UNCHANGED <<AbsHistory, AbsPhase, req, AbsAnswer>>
  <1> USE DEF TypeOK
  <1>0. TypeOK
    BY DEF LInv, IInv
  <1>1. Serve(c)
    BY DEF Serve
  <1>2. UNCHANGED <<req, cur>> /\ pc[c] \in {"put", "begin"}
    BY DEF PutBlob, PutFails, Begin, Busy
  <1>3. ~Commit(c)
    BY <1>2 DEF Commit
  <1>4. CASE PutBlob(c) \/ Begin(c)
    <2>1. pc'[c] \in {"begin", "body"}
      BY <1>0, <1>4 DEF PutBlob, Begin
    <2>2. QED
      BY <1>1, <1>2, <1>3, <2>1, NotYet
  <1>5. CASE PutFails(c)
    BY <1>1, <1>2, <1>5, FailMaps DEF PutFails
  <1>6. CASE Busy(c)
    <2>1. Finish(c, "error", {}) \/ pc' = pc
      BY <1>6 DEF Busy
    <2>2. QED
      BY <1>1, <1>2, <1>3, <2>1, FailMaps, NotYet
  <1>7. QED
    BY <1>4, <1>5, <1>6

\* A transaction that is given up.
LEMMA AbortEnds ==
  ASSUME TypeOK, NEW c \in Clients, NEW st, Abort(c, st)
  PROVE  /\ Finish(c, st, {}) /\ pc'[c] = "reply" /\ status'[c] = st /\ rows'[c] = {}
         /\ UNCHANGED <<req, cur>>
  BY DEF Abort, Finish, TypeOK

\* A save is refused in its transaction, or goes on to its commit.
LEMMA SaveMaps ==
  ASSUME LInv, Record, NEW c \in Clients, SaveOnce(c)
  PROVE  Abstract!TakeEffect(c) \/ UNCHANGED <<AbsHistory, AbsPhase, req, AbsAnswer>>
  <1>0. TypeOK /\ RequestsWellFormed /\ IInv /\ Lines
    BY DEF LInv, IInv
  <1>1. Serve(c) /\ pc[c] = "body" /\ req[c].op = "save" /\ ~Commit(c)
    BY DEF Serve, SaveOnce, Commit
  <1>2. req[c].name \in Names
    BY <1>0, <1>1 DEF RequestsWellFormed, SaveWellFormed
  <1>3. CASE Abort(c, "conflict")
    <2>1. \/ ~ExpectationMet(req[c].expected, artifacts[req[c].name].latest)
          \/ RefTaken(req[c].ref)
      BY <1>0, <1>3 DEF SaveOnce, Abort, Stage, Finish, TypeOK
    <2>2. \/ Abstract!Used(req[c].ref)
          \/ /\ req[c].expected # NoRef
             /\ req[c].expected # Abstract!Latest(req[c].name)
      BY <1>0, <1>2, <2>1, AbsVersions, AbsLatest DEF ExpectationMet
    <2>3. ~Settled(c)
      BY <1>1 DEF Settled
    <2>4. /\ AbsPhase[c] = "called"
          /\ Abstract!Done(c)
          /\ Abstract!Settle(c, Abstract!Answer("conflict", {}, NoRef))
          /\ UNCHANGED AbsHistory
      BY <1>0, <1>1, <1>3, <2>3, AbortEnds, TakesEffect
    <2>5. Abstract!Save(c)
      BY <1>1, <2>2, <2>4 DEF Abstract!Save, Abstract!Refuse
    <2>6. QED
      BY <2>4, <2>5 DEF Abstract!TakeEffect
  <1>4. CASE ~Abort(c, "conflict")
    <2>1. \E v : Stage(c, v)
      BY <1>4 DEF SaveOnce
    <2>2. pc'[c] = "commit" /\ UNCHANGED req
      BY <1>0, <2>1 DEF Stage, TypeOK
    <2>3. QED
      BY <1>1, <2>2, NotYet
  <1>5. QED
    BY <1>3, <1>4

\* The names a delete may be about.
LEMMA Targets ==
  ASSUME LInv, NEW c \in Clients, req[c].op = "delete", NEW n \in Names
  PROVE  /\ Abstract!Alive(n)
         /\ n = req[c].name \/ (req[c].name = NoName /\ Abstract!Latest(n) = req[c].ref)
         <=> n \in Target(req[c]) /\ Deletable(req[c], artifacts[n])
  <1>0. TypeOK /\ IInv /\ Lines /\ Shaped(c)
    BY DEF LInv, IInv
  <1>1. /\ Abstract!Latest(n) = artifacts[n].latest
        /\ Abstract!Alive(n) <=> Live(artifacts[n])
    BY <1>0, AbsLatest
  <1>2. Selects(req[c])
    BY <1>0 DEF Shaped
  <1>3. CASE req[c].name \in Names /\ req[c].ref = NoRef
    BY <1>1, <1>3, NamedSelector DEF Target, Deletable
  <1>4. CASE req[c].name = NoName /\ req[c].ref \in Refs
    <2>1. req[c].ref # NoRef /\ n # NoName
      BY <1>4, NamedSelector, StoreAssumption
    <2>2. ASSUME Live(artifacts[n]), artifacts[n].latest = req[c].ref
          PROVE  n \in Target(req[c])
      <3>1. artifacts[n].latest # NoRef
        BY <2>2 DEF Live
      <3>2. \E v \in versions : v.ref = req[c].ref /\ v.name = n
        BY <1>0, <2>2, <3>1, LiveEnds
      <3>3. QED
        BY <1>4, <3>2 DEF Target
    <2>3. Deletable(req[c], artifacts[n]) <=>
             Live(artifacts[n]) /\ artifacts[n].latest = req[c].ref
      BY <2>1 DEF Deletable
    <2>4. QED
      BY <1>1, <1>4, <2>1, <2>2, <2>3
  <1>5. QED
    BY <1>2, <1>3, <1>4 DEF Selects

\* A delete finds nothing, fails, or goes on to its commit.
LEMMA DeleteMaps ==
  ASSUME LInv, Record, NEW c \in Clients, DeleteOnce(c)
  PROVE  \/ Abstract!TakeEffect(c) \/ Abstract!Fail(c)
         \/ UNCHANGED <<AbsHistory, AbsPhase, req, AbsAnswer>>
  <1>0. TypeOK /\ IInv /\ Lines
    BY DEF LInv, IInv
  <1>1. Serve(c) /\ pc[c] = "body" /\ req[c].op = "delete" /\ ~Commit(c)
    BY DEF Serve, DeleteOnce, Commit
  <1>2. CASE /\ \A n \in Target(req[c]) : ~Deletable(req[c], artifacts[n])
             /\ Abort(c, "notfound")
    <2>1. {n \in Names : /\ Abstract!Alive(n)
                         /\ \/ n = req[c].name
                            \/ req[c].name = NoName /\ Abstract!Latest(n) = req[c].ref} = {}
      BY <1>1, <1>2, Targets
    <2>2. ~Settled(c)
      BY <1>1 DEF Settled
    <2>3. /\ AbsPhase[c] = "called"
          /\ Abstract!Done(c)
          /\ Abstract!Settle(c, Abstract!Answer("notfound", {}, NoRef))
          /\ UNCHANGED AbsHistory
      BY <1>0, <1>1, <1>2, <2>2, AbortEnds, TakesEffect
    <2>4. Abstract!Delete(c)
      BY <1>1, <2>1, <2>3 DEF Abstract!Delete, Abstract!Refuse
    <2>5. QED
      BY <2>3, <2>4 DEF Abstract!TakeEffect
  <1>3. CASE Abort(c, "error")
    <2>1. Finish(c, "error", {}) /\ UNCHANGED <<req, cur>>
      BY <1>0, <1>3, AbortEnds
    <2>2. QED
      BY <1>1, <2>1, FailMaps
  <1>4. CASE \E v : Stage(c, v)
    <2>1. pc'[c] = "commit" /\ UNCHANGED req
      BY <1>0, <1>4 DEF Stage, TypeOK
    <2>2. QED
      BY <1>1, <2>1, NotYet
  <1>5. QED
    BY <1>2, <1>3, <1>4 DEF DeleteOnce

\* A transaction that fails.
LEMMA TxFailsMaps ==
  ASSUME LInv, Record, NEW c \in Clients, TxFails(c)
  PROVE  Abstract!Fail(c)
  <1>0. TypeOK
    BY DEF LInv, IInv
  <1>1. Serve(c) /\ pc[c] \in {"body", "commit"}
    BY DEF Serve, TxFails
  <1>2. Finish(c, "error", {}) /\ UNCHANGED <<req, cur>>
    BY <1>0, AbortEnds DEF TxFails
  <1>3. QED
    BY <1>1, <1>2, FailMaps

\* A query that fails.
LEMMA ReadFailsMaps ==
  ASSUME LInv, Record, NEW c \in Clients, ReadFails(c)
  PROVE  Abstract!Fail(c)
  BY FailMaps DEF ReadFails, Serve

\* The entries of one line.
Told(s) == [i \in DOMAIN s |-> [ref |-> s[i].ref, digest |-> s[i].digest]]

\* A version more in the line is an entry more in the history.
LEMMA ToldAppend ==
  ASSUME NEW s \in Seq(VersionRow), NEW v \in VersionRow, Told(s) \in Seq(Entries),
         Len(Told(s)) = Len(s)
  PROVE  Told(Append(s, v)) = Append(Told(s), [ref |-> v.ref, digest |-> v.digest])
  <1>1. PICK t \in Seq(VersionRow) : t = Append(s, v)
    BY Appended
  <1>2. PICK e \in Entries : e = [ref |-> v.ref, digest |-> v.digest]
    BY DEF Entries, VersionRow
  <1>3. PICK h \in Seq(Entries) : h = Told(s)
    OBVIOUS
  <1>4. PICK g : g = Append(h, e)
    OBVIOUS
  <1>5. /\ Len(s) \in Nat /\ DOMAIN s = 1 .. Len(s)
        /\ DOMAIN t = 1 .. Len(s) + 1
        /\ \A i \in 1 .. Len(s) : t[i] = s[i]
        /\ t[Len(s) + 1] = v
    BY <1>1, Appended
  <1>6. /\ g \in [1 .. Len(s) + 1 -> Entries]
        /\ \A i \in 1 .. Len(s) : g[i] = h[i]
        /\ g[Len(s) + 1] = e
    <2>1. g \in Seq(Entries) /\ Len(g) = Len(h) + 1
      BY <1>4, AppendProperties
    <2>2. g \in [1 .. Len(g) -> Entries]
      BY <2>1, LenProperties
    <2>3. /\ \A i \in 1 .. Len(h) : g[i] = h[i]
          /\ g[Len(h) + 1] = e
      BY <1>4, AppendProperties
    <2>4. QED
      BY <1>3, <2>1, <2>2, <2>3
  <1>7. Told(t) = [i \in 1 .. Len(s) + 1 |-> [ref |-> t[i].ref, digest |-> t[i].digest]]
    BY <1>5 DEF Told
  <1>8. ASSUME NEW i \in 1 .. Len(s) + 1
        PROVE  g[i] = [ref |-> t[i].ref, digest |-> t[i].digest]
    <2>1. CASE i = Len(s) + 1
      BY <1>2, <1>5, <1>6, <2>1
    <2>2. CASE i # Len(s) + 1
      <3>1. i \in 1 .. Len(s)
        BY <1>5, <2>2
      <3>2. h[i] = [ref |-> s[i].ref, digest |-> s[i].digest]
        BY <1>3, <1>5, <3>1 DEF Told
      <3>3. QED
        BY <1>5, <1>6, <3>1, <3>2
    <2>3. QED
      BY <2>1, <2>2
  <1>9. g = [i \in 1 .. Len(s) + 1 |-> g[i]]
    BY <1>6
  <1>10. Told(t) = g
    BY <1>7, <1>8, <1>9
  <1>11. QED
    BY <1>1, <1>2, <1>3, <1>4, <1>10

\* The entry that a commit adds to the history.
LEMMA HistoryGrows ==
  ASSUME LInv, Record, NEW c \in Clients, Commit(c), NEW v \in VersionRow,
         line' = [line EXCEPT ![v.name] = Append(@, v)]
  PROVE  AbsHistory' =
            [AbsHistory EXCEPT ![v.name] = Append(@, [ref |-> v.ref, digest |-> v.digest])]
  <1>1. line \in [Names -> Seq(VersionRow)] /\ v.name \in Names
    BY DEF LInv, Lines, VersionRow
  <1>2. AbsHistory = [n \in Names |-> Told(line[n])]
    BY DEF AbsHistory, Told
  <1>3. AbsHistory' = [n \in Names |-> Told(line'[n])]
    BY DEF AbsHistory, Told
  <1>4. Told(line[v.name]) \in Seq(Entries) /\ Len(Told(line[v.name])) = Len(line[v.name])
    BY <1>1, <1>2, AbsLine DEF LInv
  <1>5. Told(Append(line[v.name], v)) =
          Append(Told(line[v.name]), [ref |-> v.ref, digest |-> v.digest])
    BY <1>1, <1>4, ToldAppend
  <1>6. \A n \in Names : line'[n] = IF n = v.name THEN Append(line[n], v) ELSE line[n]
    BY <1>1
  <1>7. QED
    BY <1>1, <1>2, <1>3, <1>5, <1>6

\* A write takes effect when its transaction commits.
LEMMA CommitMaps ==
  ASSUME LInv, Record, NEW c \in Clients, Commit(c)
  PROVE  Abstract!TakeEffect(c)
  <1>0. TypeOK /\ IInv /\ Lines /\ Shaped(c) /\ Reading(c) /\ Serve(c)
    BY DEF LInv, IInv, Serve
  <1>1. PICK v \in VersionRow :
            /\ rows[c] = {v}
            /\ Fits(c, v)
            /\ versions' = versions \union {v}
            /\ line' = [line EXCEPT ![v.name] = Append(@, v)]
    BY <1>0, CommitExtends
  <1>2. /\ pc[c] = "commit" /\ pc'[c] = "reply" /\ status'[c] = "ok" /\ rows'[c] = {v}
        /\ UNCHANGED req
    BY <1>0, <1>1 DEF Commit, Finish, TypeOK
  <1>3. req[c].op \in {"save", "delete"} /\ ToCommit(c, v)
    BY <1>0, <1>1, <1>2 DEF Shaped, Reading
  <1>4. AbsPhase[c] = "called"
    BY <1>2 DEF AbsPhase, PhaseOf, Settled
  <1>5. Abstract!Done(c) /\ Abstract!Settle(c, Abstract!Answer("ok", {v}, NoRef))
    BY <1>0, <1>2, <1>3, EndsWith
  <1>6. PICK n \in Names : n = v.name
    BY DEF VersionRow
  <1>7. PICK e : e = [ref |-> v.ref, digest |-> v.digest]
    OBVIOUS
  <1>8. AbsHistory' = [AbsHistory EXCEPT ![n] = Append(@, e)]
    BY <1>1, <1>6, <1>7, HistoryGrows
  <1>9. v.tomb <=> v.digest = NoDigest
    BY <1>0, <1>1, StoreAssumption DEF Fits, TypeOK
  <1>10. /\ Abstract!Latest(n) = artifacts[n].latest
         /\ Abstract!Alive(n) <=> Live(artifacts[n])
    BY <1>0, AbsLatest
  <1>11. Abstract!RowFor(n, e, Abstract!Latest(n)) = v
    <2>1. v.parent = Abstract!Latest(n)
      BY <1>1, <1>6, <1>10 DEF Fits
    <2>2. v = [ref |-> v.ref, name |-> n, parent |-> v.parent, digest |-> v.digest,
               tomb |-> v.tomb]
      BY <1>6 DEF VersionRow
    <2>3. (v.digest = NoDigest) = v.tomb
      BY <1>9 DEF VersionRow
    <2>4. e.ref = v.ref /\ e.digest = v.digest
      BY <1>7
    <2>5. QED
      BY <2>1, <2>2, <2>3, <2>4 DEF Abstract!RowFor
  <1>12. Abstract!Grow(c, n, e)
    BY <1>5, <1>8, <1>11 DEF Abstract!Grow
  <1>13. ~Abstract!Used(v.ref)
    BY <1>0, <1>1, AbsVersions DEF Fits
  <1>14. CASE req[c].op = "save"
    <2>1. n = req[c].name /\ v.digest = req[c].digest /\ v.ref = req[c].ref
      BY <1>1, <1>3, <1>6, <1>14 DEF ToCommit, Fits
    <2>2. ~(req[c].expected # NoRef /\ req[c].expected # Abstract!Latest(n))
      BY <1>1, <1>6, <1>10, <1>14 DEF Fits
    <2>3. e = [ref |-> req[c].ref, digest |-> req[c].digest]
      BY <1>7, <2>1
    <2>4. Abstract!Save(c)
      BY <1>12, <1>13, <1>14, <2>1, <2>2, <2>3 DEF Abstract!Save
    <2>5. QED
      BY <1>4, <1>5, <2>4 DEF Abstract!TakeEffect
  <1>15. CASE req[c].op = "delete"
    <2>1. /\ v.tomb /\ Live(artifacts[n])
          /\ n = req[c].name \/ (req[c].name = NoName /\ artifacts[n].latest = req[c].ref)
      BY <1>3, <1>6, <1>15 DEF ToCommit
    <2>2. e = [ref |-> v.ref, digest |-> NoDigest] /\ v.ref \in Refs
      BY <1>7, <1>9, <2>1 DEF VersionRow
    <2>3. n \in {m \in Names : /\ Abstract!Alive(m)
                               /\ \/ m = req[c].name
                                  \/ req[c].name = NoName /\ Abstract!Latest(m) = req[c].ref}
      BY <1>10, <2>1
    <2>4. Abstract!Delete(c)
      BY <1>12, <1>13, <1>15, <2>2, <2>3 DEF Abstract!Delete
    <2>5. QED
      BY <1>4, <1>5, <2>4 DEF Abstract!TakeEffect
  <1>16. QED
    BY <1>3, <1>14, <1>15

\* Reads leave the tables and the request alone.
LEMMA ReadsOnly ==
  ASSUME LInv, NEW c \in Clients,
         Resolve(c) \/ List(c) \/ ReadLatest(c) \/ GetMeta(c) \/ GetBlob(c) \/ ListVersions(c)
  PROVE  /\ Serve(c) /\ ~Commit(c)
         /\ UNCHANGED <<artifacts, versions, blobs, req>>
         /\ pc[c] # "idle"
  BY DEF Resolve, List, ReadLatest, GetMeta, GetBlob, ListVersions, Serve, Commit, db

\* Resolve takes effect when it reads the artifact's row.
LEMMA ResolveMaps ==
  ASSUME LInv, Record, NEW c \in Clients, Resolve(c)
  PROVE  Abstract!TakeEffect(c)
  <1>0. TypeOK /\ IInv /\ Lines /\ Shaped(c)
    BY DEF LInv, IInv
  <1>1. /\ Serve(c) /\ ~Commit(c) /\ UNCHANGED req /\ pc[c] = "read" /\ req[c].op = "resolve"
        /\ ~Settled(c)
    BY ReadsOnly DEF Resolve, Settled
  <1>2. PICK n \in Names : n = req[c].name
    BY <1>0, <1>1 DEF Shaped
  <1>3. /\ Abstract!Latest(n) = artifacts[n].latest
        /\ Abstract!Alive(n) <=> Live(artifacts[n])
    BY <1>0, AbsLatest
  <1>4. CASE Live(artifacts[n])
    <2>1. /\ pc'[c] = "reply" /\ status'[c] = "ok" /\ rows'[c] = {}
          /\ cur'[c] = artifacts[n].latest
      BY <1>0, <1>2, <1>4 DEF Resolve, Finish, TypeOK
    <2>2. /\ AbsPhase[c] = "called"
          /\ Abstract!Done(c)
          /\ Abstract!Settle(c, Abstract!Answer("ok", {}, artifacts[n].latest))
          /\ UNCHANGED AbsHistory
      BY <1>1, <2>1, TakesEffect
    <2>3. Abstract!Read(c)
      BY <1>1, <1>2, <1>3, <1>4, <2>2 DEF Abstract!Read, Abstract!Show
    <2>4. QED
      BY <2>2, <2>3 DEF Abstract!TakeEffect
  <1>5. CASE ~Live(artifacts[n])
    <2>1. /\ pc'[c] = "reply" /\ status'[c] = "notfound" /\ rows'[c] = {}
          /\ cur'[c] = NoRef
      BY <1>0, <1>1, <1>2, <1>5 DEF Resolve, Finish, TypeOK, Shaped
    <2>2. /\ AbsPhase[c] = "called"
          /\ Abstract!Done(c)
          /\ Abstract!Settle(c, Abstract!Answer("notfound", {}, NoRef))
          /\ UNCHANGED AbsHistory
      BY <1>1, <2>1, TakesEffect
    <2>3. Abstract!Read(c)
      BY <1>1, <1>2, <1>3, <1>5, <2>2 DEF Abstract!Read, Abstract!Refuse
    <2>4. QED
      BY <2>2, <2>3 DEF Abstract!TakeEffect
  <1>6. QED
    BY <1>4, <1>5

\* The rows of a listing: the last version of each name that is live.
LEMMA ListedRows ==
  ASSUME IInv, Lines
  PROVE  {v \in versions : ~artifacts[v.name].deleted /\ artifacts[v.name].latest = v.ref}
         = {Abstract!Row(n, Len(AbsHistory[n])) : n \in {m \in Names : Abstract!Alive(m)}}
  <1> DEFINE Shown == {v \in versions : /\ ~artifacts[v.name].deleted
                                        /\ artifacts[v.name].latest = v.ref}
             LiveNames == {m \in Names : Abstract!Alive(m)}
  <1>1. ASSUME NEW n \in Names, Live(artifacts[n])
        PROVE  /\ Abstract!Row(n, Len(AbsHistory[n])) \in versions
               /\ Abstract!Row(n, Len(AbsHistory[n])).name = n
               /\ Abstract!Row(n, Len(AbsHistory[n])).ref = artifacts[n].latest
    <2>1. /\ Len(line[n]) \in DOMAIN line[n]
          /\ Len(AbsHistory[n]) = Len(line[n])
          /\ line[n][Len(line[n])].ref = artifacts[n].latest
      BY <1>1, AbsLatest
    <2>2. Abstract!Row(n, Len(line[n])) = line[n][Len(line[n])]
      BY <2>1, AbsRow
    <2>3. line[n][Len(line[n])] \in versions /\ line[n][Len(line[n])].name = n
      BY <2>1 DEF Lines, Kept
    <2>4. QED
      BY <2>1, <2>2, <2>3
  <1>2. \A n \in Names : Abstract!Alive(n) <=> Live(artifacts[n])
    BY AbsLatest
  <1>3. \A v, w \in versions : v.ref = w.ref => v = w
    BY DEF IInv, LinearHistory
  <1>4. \A v \in versions : v.name \in Names /\ v.ref # NoRef
    BY StoreAssumption DEF IInv, TypeOK, VersionRow
  <1>5. ASSUME NEW v \in Shown
        PROVE  \E n \in LiveNames : v = Abstract!Row(n, Len(AbsHistory[n]))
    <2>1. PICK n \in Names : n = v.name
      BY <1>4
    <2>2. Live(artifacts[n])
      BY <1>4, <2>1 DEF Live
    <2>3. v = Abstract!Row(n, Len(AbsHistory[n]))
      BY <1>1, <1>3, <2>1, <2>2
    <2>4. QED
      BY <1>2, <2>2, <2>3
  <1>6. ASSUME NEW n \in LiveNames
        PROVE  Abstract!Row(n, Len(AbsHistory[n])) \in Shown
    BY <1>1, <1>2 DEF Live
  <1>7. QED
    BY <1>5, <1>6

\* A listing takes effect at its one statement.
LEMMA ListMaps ==
  ASSUME LInv, Record, NEW c \in Clients, List(c)
  PROVE  Abstract!TakeEffect(c)
  <1>0. TypeOK /\ IInv /\ Lines /\ Shaped(c)
    BY DEF LInv, IInv
  <1>1. /\ Serve(c) /\ ~Commit(c) /\ UNCHANGED req /\ pc[c] = "read" /\ req[c].op = "list"
        /\ ~Settled(c)
    BY ReadsOnly DEF List, Settled
  <1>2. PICK found : found = {v \in versions : /\ ~artifacts[v.name].deleted
                                               /\ artifacts[v.name].latest = v.ref}
    OBVIOUS
  <1>3. pc'[c] = "reply" /\ status'[c] = "ok" /\ rows'[c] = found
    BY <1>0, <1>2 DEF List, Finish, TypeOK
  <1>4. /\ AbsPhase[c] = "called"
        /\ Abstract!Done(c)
        /\ Abstract!Settle(c, Abstract!Answer("ok", found, NoRef))
        /\ UNCHANGED AbsHistory
    BY <1>1, <1>3, TakesEffect
  <1>5. found = {Abstract!Row(n, Len(AbsHistory[n])) : n \in {m \in Names : Abstract!Alive(m)}}
    BY <1>0, <1>2, ListedRows
  <1>6. Abstract!Read(c)
    BY <1>1, <1>4, <1>5 DEF Abstract!Read, Abstract!Show
  <1>7. QED
    BY <1>4, <1>6 DEF Abstract!TakeEffect

\* A read that goes on has its answer settled from here on.
LEMMA SettlesNow ==
  ASSUME LInv, Record, NEW c \in Clients, Serve(c), NEW found,
         Settled(c)', pc'[c] \in {"meta", "blob", "walk"}, RowsFor(c)' = found, ~Commit(c),
         pc[c] # "idle", ~Settled(c), UNCHANGED req, req[c].op # "resolve"
  PROVE  /\ AbsPhase[c] = "called"
         /\ Abstract!Done(c)
         /\ Abstract!Show(c, found, NoRef)
  <1>1. PhaseOf(c)' = "done" /\ PhaseOf(c) = "called"
    BY DEF PhaseOf
  <1>2. AnswerOf(c)' = Abstract!Answer("ok", found, NoRef)
    BY DEF AnswerOf, Abstract!Answer
  <1>3. /\ AbsPhase' = [AbsPhase EXCEPT ![c] = "done"]
        /\ AbsAnswer' = [AbsAnswer EXCEPT ![c] = Abstract!Answer("ok", found, NoRef)]
    BY <1>1, <1>2, OneMoves
  <1>4. AbsHistory' = AbsHistory
    BY HistoryStays
  <1>5. AbsPhase[c] = "called"
    BY <1>1 DEF AbsPhase
  <1>6. QED
    BY <1>3, <1>4, <1>5 DEF Abstract!Done, Abstract!Show, Abstract!Settle

\* From the end of a line a listing is going to read its last versions.
LEMMA BackFromEnd ==
  ASSUME NEW s \in Seq(VersionRow), Len(s) \in DOMAIN s,
         \A i, j \in DOMAIN s : s[i].ref = s[j].ref => i = j
  PROVE  Back(s, s[Len(s)].ref, Limit) = {s[i] : i \in {j \in DOMAIN s : j > Len(s) - Limit}}
  <1>1. Len(s) \in Nat /\ DOMAIN s = 1 .. Len(s)
    BY LenProperties
  <1>2. \A k \in DOMAIN s : s[k].ref = s[Len(s)].ref <=> k = Len(s)
    BY <1>1
  <1>3. \A j \in DOMAIN s : (\E k \in DOMAIN s : /\ s[k].ref = s[Len(s)].ref
                                                 /\ j <= k /\ k < j + Limit)
                            <=> j > Len(s) - Limit
    <2>1. Limit \in Nat
      BY StoreAssumption
    <2>2. QED
      BY <1>1, <1>2, <2>1
  <1>4. {j \in DOMAIN s : \E k \in DOMAIN s : /\ s[k].ref = s[Len(s)].ref
                                              /\ j <= k /\ k < j + Limit}
        = {j \in DOMAIN s : j > Len(s) - Limit}
    BY <1>3
  <1>5. QED
    BY <1>4 DEF Back

\* Get by name and ListVersions take effect when they read the row of the
\* artifact: what they are going to find is settled then.
LEMMA ReadLatestMaps ==
  ASSUME LInv, Record, NEW c \in Clients, ReadLatest(c)
  PROVE  Abstract!TakeEffect(c)
  <1>0. TypeOK /\ IInv /\ Lines /\ Shaped(c)
    BY DEF LInv, IInv
  <1>1. /\ Serve(c) /\ ~Commit(c) /\ UNCHANGED <<artifacts, versions, req>> /\ pc[c] = "read"
        /\ pc[c] # "idle" /\ req[c].op \in {"get", "versions"} /\ ~Settled(c)
    BY ReadsOnly DEF ReadLatest, Settled
  <1>2. PICK n \in Names : n = req[c].name
    BY <1>0, <1>1 DEF IInv, RequestsWellFormed
  <1>3. /\ Abstract!Latest(n) = artifacts[n].latest
        /\ Abstract!Alive(n) <=> Live(artifacts[n])
    BY <1>0, AbsLatest
  <1>4. n # NoName
    BY NamedSelector
  <1>5. CASE ~Live(artifacts[n])
    <2>1. pc'[c] = "reply" /\ status'[c] = "notfound" /\ rows'[c] = {}
      BY <1>0, <1>2, <1>5 DEF ReadLatest, Found, Finish, TypeOK
    <2>2. /\ AbsPhase[c] = "called"
          /\ Abstract!Done(c)
          /\ Abstract!Settle(c, Abstract!Answer("notfound", {}, NoRef))
          /\ UNCHANGED AbsHistory
      BY <1>1, <2>1, TakesEffect
    <2>3. Abstract!Read(c)
      BY <1>1, <1>2, <1>3, <1>4, <1>5, <2>2 DEF Abstract!Read, Abstract!Refuse
    <2>4. QED
      BY <2>2, <2>3 DEF Abstract!TakeEffect
  <1>6. CASE Live(artifacts[n])
    <2>1. PICK s \in Seq(VersionRow) : s = line[n]
      BY <1>0, LineType
    <2>2. /\ Len(s) \in DOMAIN s /\ DOMAIN s = 1 .. Len(s) /\ Len(s) \in Nat
          /\ Len(AbsHistory[n]) = Len(s) /\ DOMAIN AbsHistory[n] = DOMAIN s
          /\ s[Len(s)].ref = artifacts[n].latest
      BY <1>0, <1>6, <2>1, AbsLatest, AbsLine, LineType
    <2>3. \A i \in DOMAIN s : Abstract!Row(n, i) = s[i]
      BY <1>0, <2>1, AbsRow
    <2>4. /\ cur'[c] = s[Len(s)].ref
          /\ pc'[c] = IF req[c].op = "get" THEN "meta" ELSE "walk"
          /\ rows'[c] = {}
      BY <1>0, <1>1, <1>2, <1>6, <2>2 DEF ReadLatest, Found, Finish, TypeOK, Shaped
    <2>5. /\ \A i \in DOMAIN s : s[i] \in versions /\ s[i].name = n
          /\ \A i, j \in DOMAIN s : s[i].ref = s[j].ref => i = j
      BY <1>0, <2>1 DEF Lines, Kept
    <2>6. CASE req[c].op = "get"
      <3>1. Settled(c)'
        BY <1>1, <1>2, <1>4, <2>4, <2>6 DEF Settled
      <3>2. RowsFor(c)' = {v \in versions : v.ref = s[Len(s)].ref}
        BY <1>1, <2>4, <2>6 DEF RowsFor
      <3>3. {v \in versions : v.ref = s[Len(s)].ref} = {s[Len(s)]}
        <4>1. \A v, w \in versions : v.ref = w.ref => v = w
          BY <1>0 DEF IInv, LinearHistory
        <4>2. QED
          BY <2>2, <2>5, <4>1
      <3>4. /\ AbsPhase[c] = "called"
            /\ Abstract!Done(c)
            /\ Abstract!Show(c, {s[Len(s)]}, NoRef)
        BY <1>1, <2>4, <2>6, <3>1, <3>2, <3>3, SettlesNow
      <3>5. Abstract!Row(n, Len(AbsHistory[n])) = s[Len(s)]
        BY <2>2, <2>3
      <3>6. Abstract!Read(c)
        BY <1>2, <1>3, <1>4, <1>6, <2>6, <3>4, <3>5 DEF Abstract!Read
      <3>7. QED
        BY <3>4, <3>6 DEF Abstract!TakeEffect
    <2>7. CASE req[c].op = "versions"
      <3>1. Settled(c)'
        BY <2>4, <2>7 DEF Settled
      <3>2. line' = line
        BY <1>0, <1>1, LineStays
      <3>3. Ahead(c)' = Back(line'[req'[c].name], cur'[c], Limit - Cardinality(rows'[c]))
        BY DEF Ahead, Back
      <3>4. Limit - Cardinality(rows'[c]) = Limit
        BY <2>4, FS_EmptySet, StoreAssumption
      <3>5. Ahead(c)' = Back(s, s[Len(s)].ref, Limit)
        BY <1>1, <1>2, <2>1, <2>4, <3>2, <3>3, <3>4
      <3>6. RowsFor(c)' = Back(s, s[Len(s)].ref, Limit)
        BY <2>4, <2>7, <3>5 DEF RowsFor
      <3>7. Back(s, s[Len(s)].ref, Limit) = {s[i] : i \in {j \in DOMAIN s : j > Len(s) - Limit}}
        BY <2>2, <2>5, BackFromEnd
      <3>8. {Abstract!Row(n, i) : i \in {j \in DOMAIN AbsHistory[n] :
                                            j > Len(AbsHistory[n]) - Limit}}
            = {s[i] : i \in {j \in DOMAIN s : j > Len(s) - Limit}}
        BY <2>2, <2>3
      <3>9. PICK found : found = {s[i] : i \in {j \in DOMAIN s : j > Len(s) - Limit}}
        OBVIOUS
      <3>10. /\ AbsPhase[c] = "called"
             /\ Abstract!Done(c)
             /\ Abstract!Show(c, found, NoRef)
        BY <1>1, <2>4, <2>7, <3>1, <3>6, <3>7, <3>9, SettlesNow
      <3>11. Abstract!Read(c)
        BY <1>2, <1>3, <1>6, <2>7, <3>8, <3>9, <3>10 DEF Abstract!Read
      <3>12. QED
        BY <3>10, <3>11 DEF Abstract!TakeEffect
    <2>8. QED
      BY <1>1, <2>6, <2>7
  <1>7. QED
    BY <1>5, <1>6

\* A step of a read that shows what it had been promised settles nothing.
LEMMA AsPromised ==
  ASSUME LInv, Record, NEW c \in Clients, Serve(c), ~Commit(c), UNCHANGED req,
         Settled(c), pc[c] # "reply", pc'[c] \in {"blob", "walk", "reply"},
         pc'[c] = "reply" => status'[c] = "ok",
         RowsFor(c)' = RowsFor(c), req[c].op # "resolve"
  PROVE  UNCHANGED <<AbsHistory, AbsPhase, req, AbsAnswer>>
  <1>1. Settled(c)'
    BY DEF Settled
  <1>2. pc[c] # "idle"
    BY DEF Settled
  <1>3. PhaseOf(c)' = PhaseOf(c)
    BY <1>1, <1>2 DEF PhaseOf
  <1>4. AnswerOf(c)' = AnswerOf(c)
    BY <1>1 DEF AnswerOf
  <1>5. QED
    BY <1>3, <1>4, Stutters

\* Get by reference takes effect when it reads the version; after a get by
\* name has read its artifact the version is there to be read.
LEMMA GetMetaMaps ==
  ASSUME LInv, Record, NEW c \in Clients, GetMeta(c)
  PROVE  Abstract!TakeEffect(c) \/ UNCHANGED <<AbsHistory, AbsPhase, req, AbsAnswer>>
  <1>0. TypeOK /\ IInv /\ Lines /\ Shaped(c) /\ Reading(c)
    BY DEF LInv, IInv
  <1>1. /\ Serve(c) /\ ~Commit(c) /\ UNCHANGED <<versions, req>> /\ pc[c] = "meta"
        /\ req[c].op = "get"
    BY <1>0, ReadsOnly DEF GetMeta, Shaped
  <1>2. \A v, w \in versions : v.ref = w.ref => v = w
    BY <1>0 DEF IInv, LinearHistory
  <1>3. CASE {v \in versions : v.ref = cur[c]} = {}
    <2>1. /\ req[c].name = NoName /\ cur[c] = req[c].ref
      BY <1>0, <1>1, <1>3 DEF Reading
    <2>2. req[c].ref # NoRef
      BY <1>0, <1>1, <2>1, StoreAssumption DEF Shaped, Selects
    <2>3. ~Settled(c)
      BY <1>1, <2>1 DEF Settled
    <2>4. pc'[c] = "reply" /\ status'[c] = "notfound" /\ rows'[c] = {}
      BY <1>0, <1>3 DEF GetMeta, Finish, TypeOK
    <2>5. /\ AbsPhase[c] = "called"
          /\ Abstract!Done(c)
          /\ Abstract!Settle(c, Abstract!Answer("notfound", {}, NoRef))
          /\ UNCHANGED AbsHistory
      BY <1>1, <2>3, <2>4, TakesEffect
    <2>6. {v \in UNION {Abstract!AllRows(n) : n \in Names} : v.ref = req[c].ref} = {}
      BY <1>0, <1>3, <2>1, AbsVersions
    <2>7. Abstract!Read(c)
      BY <1>1, <2>2, <2>5, <2>6 DEF Abstract!Read, Abstract!Refuse
    <2>8. QED
      BY <2>5, <2>7 DEF Abstract!TakeEffect
  <1>4. CASE {v \in versions : v.ref = cur[c]} # {}
    <2>1. PICK v \in versions : v.ref = cur[c]
      BY <1>4
    <2>2. {w \in versions : w.ref = cur[c]} = {v}
      BY <1>2, <2>1
    <2>3. /\ rows'[c] = {v}
          /\ \/ pc'[c] = "reply" /\ status'[c] = "ok"
             \/ pc'[c] = "blob"
      BY <1>0, <2>2 DEF GetMeta, Finish, TypeOK
    <2>4. RowsFor(c)' = {v}
      BY <2>3 DEF RowsFor
    <2>5. CASE req[c].name # NoName
      <3>1. Settled(c)
        BY <1>1, <2>5 DEF Settled
      <3>2. RowsFor(c) = {v}
        BY <1>1, <2>2 DEF RowsFor
      <3>3. QED
        BY <1>1, <2>3, <2>4, <3>1, <3>2, AsPromised
    <2>6. CASE req[c].name = NoName
      <3>1. ~Settled(c)
        BY <1>1, <2>6 DEF Settled
      <3>2. cur[c] = req[c].ref /\ req[c].ref # NoRef
        BY <1>0, <1>1, <2>6, NamedSelector, StoreAssumption DEF Reading, Shaped, Selects
      <3>3. /\ AbsPhase[c] = "called"
            /\ Abstract!Done(c)
            /\ Abstract!Show(c, {v}, NoRef)
        <4>1. CASE pc'[c] = "reply" /\ status'[c] = "ok"
          <5>1. /\ AbsPhase[c] = "called"
                /\ Abstract!Done(c)
                /\ Abstract!Settle(c, Abstract!Answer("ok", {v}, NoRef))
                /\ UNCHANGED AbsHistory
            BY <1>1, <2>3, <3>1, <4>1, TakesEffect
          <5>2. QED
            BY <5>1 DEF Abstract!Show
        <4>2. CASE pc'[c] = "blob"
          <5>1. Settled(c)'
            BY <4>2 DEF Settled
          <5>2. QED
            BY <1>1, <2>4, <3>1, <4>2, <5>1, SettlesNow
        <4>3. QED
          BY <2>3, <4>1, <4>2
      <3>4. {w \in UNION {Abstract!AllRows(n) : n \in Names} : w.ref = req[c].ref} = {v}
        BY <1>0, <2>2, <3>2, AbsVersions
      <3>5. Abstract!Read(c)
        BY <1>1, <3>2, <3>3, <3>4 DEF Abstract!Read
      <3>6. QED
        BY <3>3, <3>5 DEF Abstract!TakeEffect
    <2>7. QED
      BY <2>5, <2>6
  <1>5. QED
    BY <1>3, <1>4

\* The payload of a version that is there is there too.
LEMMA GetBlobMaps ==
  ASSUME LInv, Record, NEW c \in Clients, GetBlob(c)
  PROVE  UNCHANGED <<AbsHistory, AbsPhase, req, AbsAnswer>>
  <1>0. TypeOK /\ IInv /\ Shaped(c) /\ Reading(c)
    BY DEF LInv, IInv
  <1>1. /\ Serve(c) /\ ~Commit(c) /\ UNCHANGED req /\ pc[c] = "blob" /\ req[c].op = "get"
    BY <1>0, ReadsOnly DEF GetBlob, Shaped
  <1>2. PICK v \in versions : rows[c] = {v} /\ ~v.tomb
    BY <1>0, <1>1 DEF Reading
  <1>3. v.digest \in blobs
    BY <1>0, <1>2 DEF IInv, PayloadsDurable
  <1>4. pc'[c] = "reply" /\ status'[c] = "ok" /\ rows'[c] = {v}
    BY <1>0, <1>2, <1>3 DEF GetBlob, Finish, TypeOK
  <1>5. Settled(c) /\ RowsFor(c) = {v} /\ RowsFor(c)' = {v}
    BY <1>1, <1>2, <1>4 DEF Settled, RowsFor
  <1>6. QED
    BY <1>1, <1>4, <1>5, AsPromised

\* Of the line s, m versions are wanted, from the version k back; r is the
\* reference of the one before.
Behind(s, k, m, r) ==
    /\ s \in Seq(VersionRow) /\ k \in DOMAIN s /\ m \in Nat /\ m # 0
    /\ \A i, j \in DOMAIN s : s[i].ref = s[j].ref => i = j
    /\ k = 1 => r = NoRef
    /\ k # 1 => r = s[k - 1].ref

\* What lies behind a version in its line: that version and, unless it was
\* the last one wanted or the first one, what lies behind its parent.
LEMMA BackOne ==
  ASSUME NEW s, NEW k, NEW m, NEW r, Behind(s, k, m, r)
  PROVE  Back(s, s[k].ref, m) = {s[k]} \union Back(s, r, m - 1)
  <1>0. /\ s \in Seq(VersionRow) /\ k \in DOMAIN s /\ m \in Nat /\ m # 0
        /\ \A i, j \in DOMAIN s : s[i].ref = s[j].ref => i = j
        /\ k = 1 => r = NoRef
        /\ k # 1 => r = s[k - 1].ref
    BY DEF Behind
  <1>1. /\ Len(s) \in Nat /\ DOMAIN s = 1 .. Len(s)
        /\ \A i \in DOMAIN s : s[i].ref # NoRef
    <2>1. Len(s) \in Nat /\ DOMAIN s = 1 .. Len(s)
      BY <1>0, LenProperties
    <2>2. \A v \in VersionRow : v.ref # NoRef
      BY StoreAssumption DEF VersionRow
    <2>3. \A i \in DOMAIN s : s[i] \in VersionRow
      BY <1>0, <2>1, ElementOfSeq
    <2>4. QED
      BY <2>1, <2>2, <2>3
  <1> DEFINE Here(q, l) == {j \in DOMAIN s : \E i \in DOMAIN s :
                               s[i].ref = q /\ j <= i /\ i < j + l}
  <1>2. Here(s[k].ref, m) = {j \in DOMAIN s : j <= k /\ k < j + m}
    BY <1>0, <1>1
  <1>3. Here(r, m - 1) = {j \in DOMAIN s : j <= k - 1 /\ k - 1 < j + (m - 1)}
    <2>1. CASE k = 1
      BY <1>0, <1>1, <2>1
    <2>2. CASE k # 1
      <3>1. k - 1 \in DOMAIN s
        BY <1>0, <1>1, <2>2
      <3>2. \A i \in DOMAIN s : s[i].ref = r <=> i = k - 1
        BY <1>0, <2>2, <3>1
      <3>3. QED
        BY <1>0, <1>1, <3>1, <3>2
    <2>3. QED
      BY <2>1, <2>2
  <1>4. {j \in DOMAIN s : j <= k /\ k < j + m}
        = {k} \union {j \in DOMAIN s : j <= k - 1 /\ k - 1 < j + (m - 1)}
    BY <1>0, <1>1
  <1>5. Here(s[k].ref, m) = {k} \union Here(r, m - 1)
    BY <1>2, <1>3, <1>4
  <1>6. /\ Back(s, s[k].ref, m) = {s[i] : i \in Here(s[k].ref, m)}
        /\ Back(s, r, m - 1) = {s[i] : i \in Here(r, m - 1)}
    BY DEF Back
  <1> HIDE DEF Here
  <1>7. QED
    BY <1>5, <1>6

\* A reference that no version of the line has has nothing behind it.
LEMMA BackNone ==
  ASSUME NEW s, NEW r, NEW m, \A i \in DOMAIN s : s[i].ref # r
  PROVE  Back(s, r, m) = {}
  BY DEF Back

\* Nor is anything left when no more versions are wanted.
LEMMA BackNoMore ==
  ASSUME NEW s \in Seq(VersionRow), NEW r, NEW m \in Int, m <= 0
  PROVE  Back(s, r, m) = {}
  <1>1. DOMAIN s = 1 .. Len(s) /\ Len(s) \in Nat
    BY LenProperties
  <1>2. QED
    BY <1>1 DEF Back

\* A listing that goes on reads the next version it was to read.
LEMMA WalkKeepsPromise ==
  ASSUME LInv, Record, NEW c \in Clients, ListVersions(c), pc'[c] = "walk"
  PROVE  rows'[c] \union Ahead(c)' = rows[c] \union Ahead(c)
  <1>0. TypeOK /\ IInv /\ Lines /\ Shaped(c) /\ Reading(c) /\ pc[c] = "walk"
    BY DEF LInv, IInv, ListVersions
  <1>1. Walked(c) /\ req[c].op = "versions"
    BY <1>0 DEF Reading, Shaped
  <1>2. PICK n \in Names : n = req[c].name
    BY <1>0, <1>1 DEF Shaped
  <1>3. PICK s \in Seq(VersionRow) : s = line[n]
    BY <1>0, LineType
  <1>4. UNCHANGED <<versions, req>>
    BY <1>0, <1>1, WalkOn
  <1>5. PICK k \in DOMAIN s : StepsBack(c, s, k)
    BY <1>0, <1>1, <1>2, <1>3, WalkOn
  <1>6. PICK R : R = rows[c]
    OBVIOUS
  <1>7. PICK r : r = IF k = 1 THEN NoRef ELSE s[k - 1].ref
    OBVIOUS
  <1>8. rows'[c] = R \union {s[k]} /\ cur'[c] = r /\ cur[c] = s[k].ref
    BY <1>0, <1>5, <1>6, <1>7 DEF StepsBack, TypeOK
  <1>9. \A i, j \in DOMAIN s : s[i].ref = s[j].ref => i = j
    BY <1>0, <1>3 DEF Lines, Kept
  <1>10. s[k] \notin R
    <2>1. \A v \in R : \E i \in DOMAIN s : i > k /\ v = s[i]
      BY <1>5, <1>6 DEF StepsBack
    <2>2. DOMAIN s = 1 .. Len(s) /\ Len(s) \in Nat
      BY LenProperties
    <2>3. QED
      BY <1>9, <2>1, <2>2
  <1>11. /\ Cardinality(R) \in Nat /\ Cardinality(R) < Limit
         /\ Cardinality(R \union {s[k]}) = Cardinality(R) + 1
    <2>1. IsFiniteSet(R)
      BY <1>1, <1>6 DEF Walked
    <2>2. QED
      BY <1>5, <1>6, <1>10, <2>1, FS_CardinalityType, FS_AddElement DEF StepsBack
  <1>12. PICK m \in Nat : m = Limit - Cardinality(R) /\ m # 0
    BY <1>11, StoreAssumption
  <1>13. Limit - Cardinality(R \union {s[k]}) = m - 1
    BY <1>11, <1>12, StoreAssumption
  <1>14. line'[n] = s
    BY <1>0, <1>3, <1>4, LineStays
  <1>15. Ahead(c) = Back(s, s[k].ref, m)
    BY <1>2, <1>3, <1>6, <1>8, <1>12, AheadIsBack
  <1>16. Ahead(c)' = Back(s, r, m - 1)
    <2>1. Ahead(c)' = Back(line'[req'[c].name], cur'[c], Limit - Cardinality(rows'[c]))
      BY DEF Ahead, Back
    <2>2. QED
      BY <1>2, <1>4, <1>8, <1>13, <1>14, <2>1
  <1>17. Back(s, s[k].ref, m) = {s[k]} \union Back(s, r, m - 1)
    <2>1. Behind(s, k, m, r)
      BY <1>7, <1>9, <1>12 DEF Behind
    <2>2. QED
      BY <2>1, BackOne
  <1>18. QED
    BY <1>6, <1>8, <1>15, <1>16, <1>17

\* A listing that ends has read everything it was to read, and something.
LEMMA WalkEnds ==
  ASSUME LInv, NEW c \in Clients, ListVersions(c), pc'[c] # "walk"
  PROVE  /\ pc'[c] = "reply" /\ status'[c] = "ok" /\ rows'[c] = rows[c]
         /\ Ahead(c) = {}
  <1>0. TypeOK /\ IInv /\ Lines /\ Shaped(c) /\ Reading(c) /\ pc[c] = "walk"
    BY DEF LInv, IInv, ListVersions
  <1>1. Walked(c) /\ req[c].op = "versions"
    BY <1>0 DEF Reading, Shaped
  <1>2. PICK n \in Names : n = req[c].name
    BY <1>0, <1>1 DEF Shaped
  <1>3. PICK s \in Seq(VersionRow) : s = line[n]
    BY <1>0, LineType
  <1>4. /\ pc'[c] = "reply" /\ rows'[c] = rows[c]
        /\ status'[c] = IF rows[c] = {} THEN "notfound" ELSE "ok"
        /\ \/ cur[c] = NoRef
           \/ Cardinality(rows[c]) >= Limit
           \/ \E v \in rows[c] : v.ref = cur[c]
           \/ {v \in versions : v.ref = cur[c]} = {}
    BY <1>0 DEF ListVersions, Finish, TypeOK
  <1>5. /\ DOMAIN s = 1 .. Len(s) /\ Len(s) \in Nat
        /\ \A i \in DOMAIN s : s[i] \in versions /\ s[i].ref # NoRef
        /\ \A i, j \in DOMAIN s : s[i].ref = s[j].ref => i = j
    <2>1. \A i \in DOMAIN s : s[i] \in versions
      BY <1>0, <1>3 DEF Lines, Kept
    <2>2. \A v \in versions : v.ref # NoRef
      BY <1>0, StoreAssumption DEF TypeOK, VersionRow
    <2>3. \A i, j \in DOMAIN s : s[i].ref = s[j].ref => i = j
      BY <1>0, <1>3 DEF Lines, Kept
    <2>4. QED
      BY <2>1, <2>2, <2>3, LenProperties
  <1>6. Ahead(c) = Back(s, cur[c], Limit - Cardinality(rows[c]))
    BY <1>2, <1>3, AheadIsBack
  <1>7. IsFiniteSet(rows[c])
        /\ \/ cur[c] = NoRef /\ rows[c] # {}
           \/ \E k \in DOMAIN s :
                 /\ s[k].ref = cur[c]
                 /\ \A v \in rows[c] : \E i \in DOMAIN s : i > k /\ v = s[i]
    BY <1>1, <1>2, <1>3 DEF Walked
  <1>8. Cardinality(rows[c]) \in Nat /\ (rows[c] = {} <=> Cardinality(rows[c]) = 0)
    BY <1>7, FS_CardinalityType, FS_EmptySet
  <1>9. CASE cur[c] = NoRef
    <2>1. rows[c] # {}
      BY <1>5, <1>7, <1>9
    <2>2. Ahead(c) = {}
      BY <1>5, <1>6, <1>9, BackNone
    <2>3. QED
      BY <1>4, <2>1, <2>2
  <1>10. CASE cur[c] # NoRef
    <2>1. PICK k \in DOMAIN s :
             /\ s[k].ref = cur[c]
             /\ \A v \in rows[c] : \E i \in DOMAIN s : i > k /\ v = s[i]
      BY <1>7, <1>10
    <2>2. ~\E v \in rows[c] : v.ref = cur[c]
      BY <1>5, <2>1
    <2>3. {v \in versions : v.ref = cur[c]} # {}
      BY <1>5, <2>1
    <2>4. Cardinality(rows[c]) >= Limit
      BY <1>4, <1>10, <2>2, <2>3
    <2>5. rows[c] # {}
      BY <1>8, <2>4, StoreAssumption
    <2>6. Limit - Cardinality(rows[c]) \in Int /\ Limit - Cardinality(rows[c]) <= 0
      BY <1>8, <2>4, StoreAssumption
    <2>7. Ahead(c) = {}
      BY <1>6, <2>6, BackNoMore
    <2>8. QED
      BY <1>4, <2>5, <2>7
  <1>11. QED
    BY <1>9, <1>10

\* Each further statement of a listing settles nothing.
LEMMA ListVersionsMaps ==
  ASSUME LInv, Record, NEW c \in Clients, ListVersions(c)
  PROVE  UNCHANGED <<AbsHistory, AbsPhase, req, AbsAnswer>>
  <1>0. TypeOK /\ Shaped(c)
    BY DEF LInv, IInv
  <1>1. /\ Serve(c) /\ ~Commit(c) /\ UNCHANGED req /\ pc[c] = "walk"
        /\ req[c].op = "versions" /\ Settled(c)
    BY <1>0, ReadsOnly DEF ListVersions, Shaped, Settled
  <1>2. RowsFor(c) = rows[c] \union Ahead(c)
    BY <1>1 DEF RowsFor
  <1>3. CASE pc'[c] = "walk"
    <2>1. RowsFor(c)' = RowsFor(c)
      BY <1>2, <1>3, WalkKeepsPromise DEF RowsFor
    <2>2. QED
      BY <1>1, <1>3, <2>1, AsPromised
  <1>4. CASE pc'[c] # "walk"
    <2>1. pc'[c] = "reply" /\ status'[c] = "ok" /\ rows'[c] = rows[c] /\ Ahead(c) = {}
      BY <1>4, WalkEnds
    <2>2. RowsFor(c)' = RowsFor(c)
      BY <1>2, <2>1 DEF RowsFor
    <2>3. QED
      BY <1>1, <2>1, <2>2, AsPromised
  <1>5. QED
    BY <1>3, <1>4

-----------------------------------------------------------------------------
(***************************************************************************)
(* The theorems.                                                           *)
(***************************************************************************)
\* The empty store is the empty history.
LEMMA InitMaps == LineInit => Abstract!Init
  <1> SUFFICES ASSUME LineInit PROVE Abstract!Init
    OBVIOUS
  <1>1. AbsHistory = [n \in Names |-> <<>>]
    <2>1. \A n \in Names : line[n] = <<>>
      BY DEF LineInit
    <2>2. \A n \in Names : AbsHistory[n] = <<>>
      <3>1. LInv
        BY InitLInv
      <3>2. \A n \in Names : AbsHistory[n] \in Seq(Entries) /\ Len(AbsHistory[n]) = Len(line[n])
        BY <3>1, AbsLine DEF LInv
      <3>3. Len(<<>>) = 0
        BY EmptySeq
      <3>4. QED
        BY <2>1, <3>2, <3>3, EmptySeq
    <2>3. QED
      BY <2>2 DEF AbsHistory
  <1>2. AbsPhase = [c \in Clients |-> "idle"]
    BY DEF LineInit, Init, AbsPhase, PhaseOf
  <1>3. AbsAnswer = [c \in Clients |-> Abstract!NoAnswer]
    BY DEF LineInit, Init, AbsAnswer, AnswerOf, Settled, Abstract!NoAnswer, Abstract!Answer
  <1>4. req = [c \in Clients |-> Abstract!NoCall]
    BY DEF LineInit, Init, NoRequest, Select, Abstract!NoCall
  <1>5. QED
    BY <1>1, <1>2, <1>3, <1>4 DEF Abstract!Init

\* Every step of the store is one of the abstract store, or none.
LEMMA NextMaps == LInv /\ [LineNext]_<<vars, line>> => [Abstract!Next]_(Abstract!vars)
  <1> SUFFICES ASSUME LInv, [LineNext]_<<vars, line>>
               PROVE  Abstract!Next \/ UNCHANGED <<AbsHistory, AbsPhase, req, AbsAnswer>>
    BY DEF Abstract!vars
  <1>1. ASSUME NEW c \in Clients, Invoke(c), Record
        PROVE  Abstract!Next
    BY <1>1, InvokeMaps DEF Abstract!Next
  <1>2. ASSUME NEW c \in Clients, Serve(c), Record
        PROVE  Abstract!Next \/ UNCHANGED <<AbsHistory, AbsPhase, req, AbsAnswer>>
    <2>1. \/ Abstract!TakeEffect(c) \/ Abstract!Fail(c) \/ Abstract!Leave(c)
          \/ UNCHANGED <<AbsHistory, AbsPhase, req, AbsAnswer>>
      BY <1>2, PutAndBeginMap, SaveMaps, DeleteMaps, CommitMaps, TxFailsMaps, ResolveMaps,
         ListMaps, ReadLatestMaps, GetMetaMaps, GetBlobMaps, ListVersionsMaps, ReadFailsMaps,
         LeaveMaps DEF Serve
    <2>2. QED
      BY <2>1 DEF Abstract!Next
  <1>3. ASSUME NEW c \in Clients, Crash(c), Record
        PROVE  Abstract!Next
    BY <1>3, LeaveMaps DEF Abstract!Next
  <1>4. CASE UNCHANGED <<vars, line>>
    BY <1>4 DEF vars, AbsHistory, AbsPhase, AbsAnswer, PhaseOf, AnswerOf, RowsFor, Ahead, Settled
  <1>5. QED
    BY <1>1, <1>2, <1>3, <1>4 DEF LineNext, Next

\* The history variable takes nothing away: a behaviour of the store with
\* its lines is a behaviour of the store, and keeps the invariant.
THEOREM LinesInvariance == LineSpec => Spec /\ []LInv
  <1>1. LineInit => Init /\ LInv
    BY InitLInv DEF LineInit
  <1>2. [LineNext]_<<vars, line>> => [Next]_vars
    BY DEF LineNext
  <1>3. LInv /\ [LineNext]_<<vars, line>> => LInv'
    BY NextLInv
  <1>4. QED
    BY <1>1, <1>2, <1>3, PTL DEF LineSpec, Spec

\* The store is linearizable: every save, delete and read takes effect at
\* one instant between its call and its reply, whatever other requests,
\* failures and crashes come between its statements.
THEOREM StoreLinearizable == LineSpec => Linearizable
  <1>1. LineInit => Abstract!Init
    BY InitMaps
  <1>2. LInv /\ [LineNext]_<<vars, line>> => [Abstract!Next]_(Abstract!vars)
    BY NextMaps
  <1>3. QED
    BY <1>1, <1>2, LinesInvariance, PTL DEF LineSpec, Linearizable, Abstract!Spec
=============================================================================
