------------------------------ MODULE McpSession ------------------------------
(***************************************************************************)
(* One session of the MCP server on stdin and stdout.  Two goroutines: the *)
(* reader takes lines from the client, hands requests to a bounded channel *)
(* and answers to whoever waits for them; the worker serves the requests   *)
(* one at a time.  To learn the client's roots, which choose the workspace *)
(* of every tool call, the worker itself asks the client (roots/list) and  *)
(* waits for the answer, five seconds at most.                             *)
(*                                                                         *)
(* The client's sets of roots are numbered in the order it has them, from  *)
(* 1; 0 stands for the global workspace.                                   *)
(***************************************************************************)
EXTENDS Naturals, Sequences, FiniteSets

CONSTANTS
    Capacity,   \* of the request channel (16)
    MaxCalls,   \* tool calls the client makes
    MaxRoots,   \* sets of roots it has, one after the other
    WithRoots   \* what it may announce of the roots capability

ASSUME SessionAssumption ==
    /\ Capacity \in Nat \ {0}
    /\ MaxCalls \in Nat
    /\ MaxRoots \in Nat \ {0}
    /\ WithRoots \subseteq BOOLEAN

VARIABLES
    \* the client, and the pipe from it
    roots,        \* the roots it has now
    told,         \* the roots it has last told the server about
    begun,        \* how much of the handshake it has sent
    calls,        \* tool calls it has sent
    asked,        \* roots/list requests it has not answered, each with the roots it had
    closed,       \* it has closed the pipe
    inbox,        \* lines the server has not read
    \* the reader
    reader,       \* "read", "push" or "ended"
    held,         \* the request it is pushing
    queue,        \* the request channel
    \* the worker
    worker,       \* "select", "await", "serve" or "stopped"
    job,          \* the request it is working on
    initialized,  \* the client has said so
    capable,      \* the client has the roots capability
    resolved,     \* the workspace has been chosen
    workspace,    \* the workspace of the session
    requestID,    \* roots/list requests made so far
    pending,      \* the one it waits for, or 0
    answer,       \* the answer delivered for it
    served        \* the calls answered, each with the workspace it was answered in

client  == <<roots, told, begun, calls, asked, closed>>
session == <<initialized, capable, resolved, workspace>>
asking  == <<requestID, pending, answer>>
vars    == <<roots, told, begun, calls, asked, closed, inbox, reader, held, queue, worker,
             job, initialized, capable, resolved, workspace, requestID, pending, answer,
             served>>

Global == 0
Failed == MaxRoots + 1

\* A line, or a request: what it is, its number, and for a call the roots the
\* client had told the server about, for an answer the roots it carries.
Line(kind, id, val) == [kind |-> kind, id |-> id, val |-> val]
NoLine == Line("none", 0, 0)

MaxAsks == MaxRoots + 1

Lines ==
    [kind: {"none", "initialize", "initialized", "changed", "call", "answer"},
     id: 0 .. MaxCalls + MaxAsks, val: 0 .. Failed]

TypeOK ==
    /\ roots \in 1 .. MaxRoots /\ told \in 1 .. MaxRoots
    /\ begun \in 0 .. 2 /\ calls \in 0 .. MaxCalls
    /\ asked \subseteq [id: 1 .. MaxAsks, roots: 1 .. MaxRoots] /\ closed \in BOOLEAN
    /\ inbox \in Seq(Lines)
    /\ reader \in {"read", "push", "ended"} /\ held \in Lines
    /\ queue \in Seq(Lines) /\ Len(queue) <= Capacity
    /\ worker \in {"select", "await", "serve", "stopped"} /\ job \in Lines
    /\ initialized \in BOOLEAN /\ capable \in BOOLEAN /\ resolved \in BOOLEAN
    /\ workspace \in Global .. MaxRoots
    /\ requestID \in 0 .. MaxAsks /\ pending \in 0 .. MaxAsks
    /\ answer \in Lines
    /\ served \subseteq [id: 1 .. MaxCalls, told: 1 .. MaxRoots, workspace: Global .. MaxRoots]

Init ==
    /\ roots = 1 /\ told = 1 /\ begun = 0 /\ calls = 0 /\ asked = {} /\ closed = FALSE
    /\ inbox = <<>>
    /\ reader = "read" /\ held = NoLine /\ queue = <<>>
    /\ worker = "select" /\ job = NoLine
    /\ initialized = FALSE /\ capable = FALSE /\ resolved = FALSE /\ workspace = Global
    /\ requestID = 0 /\ pending = 0 /\ answer = NoLine
    /\ served = {}

-----------------------------------------------------------------------------
(***************************************************************************)
(* The client.                                                             *)
(***************************************************************************)
Send(line) == ~closed /\ inbox' = Append(inbox, line)

server == <<reader, held, queue, worker, job, session, asking, served>>

Initialize ==
    /\ begun = 0
    /\ \E c \in WithRoots : Send(Line("initialize", 0, IF c THEN 1 ELSE 0))
    /\ begun' = 1
    /\ UNCHANGED <<roots, told, calls, asked, closed, server>>

Initialized ==
    /\ begun = 1
    /\ Send(Line("initialized", 0, 0))
    /\ begun' = 2
    /\ UNCHANGED <<roots, told, calls, asked, closed, server>>

\* The roots change, and a notification of it follows.
ChangeRoots ==
    /\ begun = 2 /\ roots < MaxRoots /\ roots = told
    /\ roots' = roots + 1
    /\ UNCHANGED <<told, begun, calls, asked, closed, inbox, server>>

TellChange ==
    /\ roots # told
    /\ Send(Line("changed", 0, 0))
    /\ told' = roots
    /\ UNCHANGED <<roots, begun, calls, asked, closed, server>>

Call ==
    /\ calls < MaxCalls
    /\ Send(Line("call", calls + 1, told))
    /\ calls' = calls + 1
    /\ UNCHANGED <<roots, told, begun, asked, closed, server>>

\* The answer to roots/list is the roots at some moment since the request was
\* written, or an error; requests may be answered in any order, or never.
AnswerRoots ==
    /\ \E k \in asked : \E val \in (k.roots .. roots) \cup {Failed} :
          /\ Send(Line("answer", k.id, val))
          /\ asked' = asked \ {k}
    /\ UNCHANGED <<roots, told, begun, calls, closed, server>>

Close ==
    /\ ~closed
    /\ closed' = TRUE
    /\ UNCHANGED <<roots, told, begun, calls, asked, inbox, server>>

Client == Initialize \/ Initialized \/ ChangeRoots \/ TellChange \/ Call \/ AnswerRoots \/ Close

-----------------------------------------------------------------------------
(***************************************************************************)
(* The reader.                                                             *)
(***************************************************************************)
readerLeaves == <<client, worker, job, session, requestID, pending, served>>

AwaitedWhenAny(line) == pending # 0 /\ answer = NoLine

\* An answer reaches the request of its number while the worker waits for it,
\* and the first one only: the channel it goes through holds one.
Awaited(line) == line.id = pending /\ answer = NoLine

ReadLine ==
    /\ reader = "read" /\ inbox # <<>>
    /\ inbox' = Tail(inbox)
    /\ LET line == Head(inbox) IN
       IF line.kind = "answer"
       THEN /\ answer' = IF Awaited(line) THEN line ELSE answer
            /\ UNCHANGED <<reader, held>>
       ELSE /\ reader' = "push" /\ held' = line
            /\ UNCHANGED answer
    /\ UNCHANGED <<queue, readerLeaves>>

RoomOffByOne == Len(queue) <= Capacity

\* The reader waits here, answers unread behind it, while the channel is full.
Room == Len(queue) < Capacity

Push ==
    /\ reader = "push" /\ Room
    /\ queue' = Append(queue, held)
    /\ reader' = "read" /\ held' = NoLine
    /\ UNCHANGED <<inbox, answer, readerLeaves>>

EndOfInput ==
    /\ reader = "read" /\ inbox = <<>> /\ closed
    /\ reader' = "ended"
    /\ UNCHANGED <<inbox, held, queue, answer, readerLeaves>>

Reader == ReadLine \/ Push \/ EndOfInput

-----------------------------------------------------------------------------
(***************************************************************************)
(* The worker.                                                             *)
(***************************************************************************)
workerLeaves == <<roots, told, begun, calls, closed, inbox, reader, held>>

\* What follows the choice of a workspace: nothing, but for a call its service.
After(line) == IF line.kind = "call" THEN "serve" ELSE "select"

Choose(w) == workspace' = w /\ resolved' = TRUE

\* The session's workspace is chosen once, and again when the client says that
\* its roots have changed.
Settled(line) == line.kind # "changed" /\ resolved

TakeInitialize ==
    /\ worker = "select" /\ queue # <<>> /\ Head(queue).kind = "initialize"
    /\ capable' = (Head(queue).val = 1)
    /\ queue' = Tail(queue)
    /\ UNCHANGED <<worker, job, initialized, resolved, workspace, asked, asking, served, workerLeaves>>

\* The request taken says that the client is initialized, or it already was.
Ready(line) == initialized \/ line.kind = "initialized"

\* The request at the head of the channel, if there is one.
First == {queue[k] : k \in DOMAIN queue \cap {1}}

Taken(line) ==
    /\ worker = "select"
    /\ line.kind # "initialize"
    /\ queue' = Tail(queue) /\ job' = line
    /\ initialized' = Ready(line)
    /\ UNCHANGED <<capable, served, workerLeaves>>

\* No workspace to choose now: it is settled, or the client is not ready.
TakeSettled ==
    \E line \in First :
       /\ Taken(line)
       /\ ~Ready(line) \/ Settled(line)
       /\ worker' = After(line)
       /\ UNCHANGED <<resolved, workspace, asked, asking>>

Unsettled(line) == Taken(line) /\ Ready(line) /\ ~Settled(line)

\* The client has no roots to ask for.
TakeIncapable ==
    \E line \in First :
       /\ Unsettled(line) /\ ~capable
       /\ Choose(Global) /\ worker' = After(line)
       /\ UNCHANGED <<asked, asking>>

\* The worker writes roots/list and waits for the answer of that number ...
TakeAndAsk ==
    \E line \in First :
       /\ Unsettled(line) /\ capable
       /\ requestID < MaxAsks
       /\ requestID' = requestID + 1 /\ pending' = requestID'
       /\ asked' = asked \cup {[id |-> requestID', roots |-> roots]}
       /\ worker' = "await"
       /\ UNCHANGED <<resolved, workspace, answer>>

\* ... or fails to write it.
TakeUnwritable ==
    \E line \in First :
       /\ Unsettled(line) /\ capable
       /\ requestID < MaxAsks
       /\ requestID' = requestID + 1
       /\ Choose(Global) /\ worker' = After(line)
       /\ UNCHANGED <<asked, pending, answer>>

Asked ==
    /\ worker = "await"
    /\ worker' = After(job)
    /\ pending' = 0 /\ answer' = NoLine
    /\ UNCHANGED <<job, queue, initialized, capable, requestID, asked, served, workerLeaves>>

GotAnswer ==
    /\ answer # NoLine
    /\ Choose(IF answer.val = Failed THEN Global ELSE answer.val)
    /\ Asked

\* Mutation: the wait for an answer has no deadline.
WaitsForEver == FALSE

\* Five seconds have passed without an answer, or its arrival was not noticed in time.
TimesOut == Choose(Global) /\ Asked

Serve ==
    /\ worker = "serve"
    /\ served' = served \cup {[id |-> job.id, told |-> job.val, workspace |-> workspace]}
    /\ worker' = "select"
    /\ UNCHANGED <<queue, job, asked, session, asking, workerLeaves>>

\* The end of the input stops the worker, requests in the channel or not.
Stop ==
    /\ worker = "select" /\ reader = "ended"
    /\ worker' = "stopped"
    /\ UNCHANGED <<queue, job, asked, session, asking, served, workerLeaves>>

Worker ==
    \/ TakeInitialize \/ TakeSettled \/ TakeIncapable \/ TakeAndAsk \/ TakeUnwritable
    \/ GotAnswer \/ TimesOut \/ Serve \/ Stop

-----------------------------------------------------------------------------
Next == Client \/ Reader \/ Worker

Spec == Init /\ [][Next]_vars

\* The goroutines run and the deadline passes; the client owes nothing.
FairSpec == Spec /\ WF_vars(Reader) /\ WF_vars(Worker)

-----------------------------------------------------------------------------
\* A call is never served in a workspace older than the roots its client had
\* announced when it sent it (the global one is the fallback of any call),
\* whatever roots/list answers were late, in error or out of order
\* (session_roots.go, deliverResponse).
NeverStale ==
    \A s \in served : s.workspace # Global => s.workspace >= s.told

\* Every call of a client that stays is served in the end, even when the client
\* never answers roots/list and the reader is stuck on a full channel meanwhile.
Served ==
    \A k \in 1 .. MaxCalls :
       (calls >= k) ~> (closed \/ \E s \in served : s.id = k)
=============================================================================
