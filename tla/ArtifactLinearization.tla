------------------------- MODULE ArtifactLinearization -------------------------
(***************************************************************************)
(* The store implements ArtifactHistory.  A history variable keeps, for    *)
(* every name, its versions in the order in which they were committed; it  *)
(* is a function of the step, so it excludes no behaviour of the store.  A *)
(* write takes effect when it commits, a read at its first statement: what *)
(* Get and ListVersions read afterwards never changes, so their answer is  *)
(* already settled while they are still reading.                           *)
(***************************************************************************)
EXTENDS ArtifactStore, Sequences

VARIABLE line   \* name -> its version rows, in the order of their commits

\* The version that a step adds to a name, if it adds one.
Added(n) == {v \in versions' \ versions : v.name = n}

Longer(n) ==
    IF Added(n) = {} THEN line[n] ELSE Append(line[n], CHOOSE v \in Added(n) : TRUE)

Record == line' = [n \in Names |-> Longer(n)]

LineInit == Init /\ line = [n \in Names |-> <<>>]

LineNext == Next /\ Record

LineSpec == LineInit /\ [][LineNext]_<<vars, line>>

-----------------------------------------------------------------------------
(***************************************************************************)
(* The refinement mapping.                                                 *)
(***************************************************************************)
AbsHistory ==
    [n \in Names |->
        [i \in DOMAIN line[n] |-> [ref |-> line[n][i].ref, digest |-> line[n][i].digest]]]

Settled(c) == pc[c] \in {"blob", "walk", "reply"} \/ (pc[c] = "meta" /\ req[c].name # NoName)

PhaseOf(c) == IF pc[c] = "idle" THEN "idle" ELSE IF Settled(c) THEN "done" ELSE "called"

\* The rows that a listing under way has still to read: those from the
\* version it reads next back to the first, as many as the limit leaves.
Ahead(c) ==
    LET s == line[req[c].name]
    IN  {s[i] : i \in {j \in DOMAIN s :
            \E k \in DOMAIN s :
                /\ s[k].ref = cur[c]
                /\ j <= k /\ k < j + (Limit - Cardinality(rows[c]))}}

\* The rows a request has found, or is going to find.
RowsFor(c) ==
    CASE pc[c] = "meta" -> {v \in versions : v.ref = cur[c]}
      [] pc[c] = "walk" -> rows[c] \union Ahead(c)
      [] OTHER -> rows[c]

AnswerOf(c) ==
    IF Settled(c)
    THEN [status |-> IF pc[c] = "reply" THEN status[c] ELSE "ok",
          rows   |-> RowsFor(c),
          ref    |-> IF req[c].op = "resolve" THEN cur[c] ELSE NoRef]
    ELSE [status |-> "none", rows |-> {}, ref |-> NoRef]

AbsPhase == [c \in Clients |-> PhaseOf(c)]
AbsAnswer == [c \in Clients |-> AnswerOf(c)]

Abstract == INSTANCE ArtifactHistory
                WITH history <- AbsHistory, phase <- AbsPhase, call <- req, answer <- AbsAnswer

\* Every behaviour of the repository, multi-statement reads and crashes
\* included, is one in which each request took effect at one instant.
Linearizable == Abstract!Spec
=============================================================================
