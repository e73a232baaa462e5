---------------------------- MODULE McpSessionProofs ----------------------------
(***************************************************************************)
(* For any capacity of the channel, any number of calls and of changes of  *)
(* the roots: no call is served in a workspace older than the roots its    *)
(* client had announced before it (session_roots.go, server.go).           *)
(***************************************************************************)
EXTENDS McpSession, TLAPS

-----------------------------------------------------------------------------
(***************************************************************************)
(* The inductive invariant.                                                *)
(***************************************************************************)
IsChange(line) == line.kind = "changed"

\* What the numbers on a line may be when t roots have been announced and q
\* questions asked: a call was sent at announced roots, an answer has a question.
Sound(line, t, q) ==
    /\ line \in Lines
    /\ line.kind = "call" => line.id \in 1 .. MaxCalls /\ line.val \in 1 .. t
    /\ line.kind = "answer" => line.id \in 1 .. q /\ line.val \in 1 .. Failed

LinesSound ==
    /\ \A i \in 1 .. Len(inbox) : Sound(inbox[i], told, requestID)
    /\ \A i \in 1 .. Len(queue) : Sound(queue[i], told, requestID)
    /\ Sound(held, told, requestID)
    /\ Sound(job, told, requestID)
    /\ Sound(answer, told, requestID)
    /\ answer # NoLine => answer.kind = "answer"
    /\ reader # "push" => held = NoLine

\* What each place of the worker goes with.
WorkerSound ==
    /\ told <= roots
    /\ ~initialized => workspace = Global
    /\ worker = "serve" => job.kind = "call"
    /\ worker = "await" => initialized
    /\ pending = IF worker = "await" THEN requestID ELSE 0
    /\ worker # "await" => answer = NoLine
    /\ \A k \in asked : k.id <= requestID

\* The roots of number b are as new as those announced before any call under way,
\* unless the notification of a change is under way, too, ahead of the call.
Current(b) ==
    /\ \A i \in 1 .. Len(queue) : queue[i].kind = "call" =>
          \/ queue[i].val <= b
          \/ \E j \in 1 .. i - 1 : IsChange(queue[j])
    /\ held.kind = "call" =>
          \/ held.val <= b
          \/ \E j \in 1 .. Len(queue) : IsChange(queue[j])
    /\ \A i \in 1 .. Len(inbox) : inbox[i].kind = "call" =>
          \/ inbox[i].val <= b
          \/ \E j \in 1 .. Len(queue) : IsChange(queue[j])
          \/ IsChange(held)
          \/ \E j \in 1 .. i - 1 : IsChange(inbox[j])
    /\ \/ told <= b
       \/ \E j \in 1 .. Len(queue) : IsChange(queue[j])
       \/ IsChange(held)
       \/ \E j \in 1 .. Len(inbox) : IsChange(inbox[j])

\* ... and as new as those announced before the call the worker is at.
Usable(b) == Current(b) /\ (job.kind = "call" => job.val <= b)

\* The workspace is current, or the worker waits for an answer that will be.
WorkspaceCurrent ==
    /\ worker # "await" /\ workspace # Global => Current(workspace)
    /\ worker = "serve" /\ workspace # Global => job.val <= workspace
    /\ worker = "await" =>
          /\ \A k \in asked : k.id = pending => Usable(k.roots)
          /\ \A i \in 1 .. Len(inbox) :
                /\ inbox[i].kind = "answer" /\ inbox[i].id = pending
                /\ inbox[i].val # Failed
                => Usable(inbox[i].val)
          /\ answer # NoLine /\ answer.val # Failed => Usable(answer.val)

IInv == TypeOK /\ LinesSound /\ WorkerSound /\ WorkspaceCurrent /\ NeverStale

-----------------------------------------------------------------------------
(***************************************************************************)
(* Lemmas about Current, one per way in which lines move.                  *)
(***************************************************************************)
\* Newer roots are current when older ones are.
LEMMA CurrentUpwards ==
    ASSUME TypeOK, NEW b \in Nat, NEW c \in Nat, b <= c, Current(b)
    PROVE  Current(c)
<1>1. /\ \A i \in 1 .. Len(queue) : queue[i].val \in Nat
      /\ \A i \in 1 .. Len(inbox) : inbox[i].val \in Nat
      /\ held.val \in Nat /\ told \in Nat
  <2>1. /\ \A i \in 1 .. Len(queue) : queue[i] \in Lines
        /\ \A i \in 1 .. Len(inbox) : inbox[i] \in Lines
        /\ held \in Lines /\ told \in Nat
    BY DEF TypeOK
  <2>2. \A line \in Lines : line.val \in Nat
    BY SessionAssumption DEF Lines, Failed
  <2> QED BY <2>1, <2>2
<1> QED BY <1>1 DEF Current

\* The roots the client has announced last are current.
LEMMA AnnouncedIsCurrent ==
    ASSUME TypeOK, LinesSound, NEW b \in Nat, told <= b
    PROVE  Current(b)
<1>1. /\ \A i \in 1 .. Len(queue) : queue[i].kind = "call" => queue[i].val \in 1 .. told
      /\ \A i \in 1 .. Len(inbox) : inbox[i].kind = "call" => inbox[i].val \in 1 .. told
      /\ held.kind = "call" => held.val \in 1 .. told
      /\ told \in Nat
  BY DEF LinesSound, Sound, TypeOK
<1> QED BY <1>1 DEF Current

\* A line that the client sends is behind all others (Send).
LEMMA SendKeepsCurrent ==
    ASSUME TypeOK, NEW b \in Nat, Current(b), NEW line \in Lines,
           inbox' = Append(inbox, line), UNCHANGED <<queue, held>>,
           told' = told \/ IsChange(line),
           line.kind = "call" => line.val = told
    PROVE  Current(b)'
<1>1. /\ Len(inbox) \in Nat /\ Len(inbox') = Len(inbox) + 1
      /\ \A i \in 1 .. Len(inbox) : inbox'[i] = inbox[i]
      /\ inbox'[Len(inbox')] = line
  BY DEF TypeOK
<1>2. \/ told' <= b
      \/ \E j \in 1 .. Len(queue') : IsChange(queue'[j])
      \/ IsChange(held')
      \/ \E j \in 1 .. Len(inbox') : IsChange(inbox'[j])
  BY <1>1 DEF Current
<1>3. ASSUME NEW i \in 1 .. Len(inbox'), inbox'[i].kind = "call"
      PROVE  \/ inbox'[i].val <= b
             \/ \E j \in 1 .. Len(queue') : IsChange(queue'[j])
             \/ IsChange(held')
             \/ \E j \in 1 .. i - 1 : IsChange(inbox'[j])
  <2>1. CASE i \in 1 .. Len(inbox)
    BY <1>1, <1>3, <2>1 DEF Current
  <2>2. CASE i = Len(inbox')
    BY <1>1, <1>3, <2>2 DEF Current, IsChange
  <2> QED BY <1>1, <2>1, <2>2
<1> QED BY <1>2, <1>3 DEF Current

\* The reader takes the first line that was sent (ReadLine).
LEMMA ReadKeepsCurrent ==
    ASSUME TypeOK, LinesSound, NEW b \in Nat, Current(b), ReadLine
    PROVE  Current(b)'
<1>1. /\ Len(inbox) \in Nat \ {0} /\ Len(inbox') = Len(inbox) - 1
      /\ \A i \in 1 .. Len(inbox') : inbox'[i] = inbox[i + 1]
      /\ inbox[1] = Head(inbox)
      /\ queue' = queue /\ told' = told
      /\ held = NoLine
  BY DEF ReadLine, readerLeaves, client, TypeOK, LinesSound
<1>2. ~IsChange(held) /\ held.kind # "call"
  BY <1>1 DEF NoLine, Line, IsChange
<1>3. CASE held' = inbox[1]
  <2>1. ASSUME NEW i \in 1 .. Len(inbox'), inbox'[i].kind = "call"
        PROVE  \/ inbox'[i].val <= b
               \/ \E j \in 1 .. Len(queue') : IsChange(queue'[j])
               \/ IsChange(held')
               \/ \E j \in 1 .. i - 1 : IsChange(inbox'[j])
    <3>1. i + 1 \in 1 .. Len(inbox) /\ inbox[i + 1].kind = "call" /\ (i + 1) - 1 = i
      BY <1>1, <2>1
    <3>2. CASE \E j \in 1 .. i : IsChange(inbox[j])
      <4>1. PICK j \in 1 .. i : IsChange(inbox[j])
        BY <3>2
      <4>2. j = 1 \/ (j - 1 \in 1 .. i - 1 /\ inbox'[j - 1] = inbox[j])
        BY <1>1, <2>1
      <4> QED BY <1>3, <4>1, <4>2
    <3> QED BY <1>1, <1>2, <3>1, <3>2 DEF Current
  <2>2. \/ told' <= b
        \/ \E j \in 1 .. Len(queue') : IsChange(queue'[j])
        \/ IsChange(held')
        \/ \E j \in 1 .. Len(inbox') : IsChange(inbox'[j])
    <3>1. CASE \E j \in 1 .. Len(inbox) : IsChange(inbox[j])
      <4>1. PICK j \in 1 .. Len(inbox) : IsChange(inbox[j])
        BY <3>1
      <4>2. j = 1 \/ (j - 1 \in 1 .. Len(inbox') /\ inbox'[j - 1] = inbox[j])
        BY <1>1
      <4> QED BY <1>3, <4>1, <4>2
    <3> QED BY <1>1, <1>2, <3>1 DEF Current
  <2>3. held'.kind = "call" =>
          held'.val <= b \/ \E j \in 1 .. Len(queue') : IsChange(queue'[j])
    BY <1>1, <1>2, <1>3 DEF Current
  <2> QED BY <1>1, <2>1, <2>2, <2>3 DEF Current
<1>4. CASE held' = held /\ inbox[1].kind = "answer"
  <2>1. ~IsChange(inbox[1])
    BY <1>4 DEF IsChange
  <2>2. ASSUME NEW i \in 1 .. Len(inbox'), inbox'[i].kind = "call"
        PROVE  \/ inbox'[i].val <= b
               \/ \E j \in 1 .. Len(queue') : IsChange(queue'[j])
               \/ IsChange(held')
               \/ \E j \in 1 .. i - 1 : IsChange(inbox'[j])
    <3>1. i + 1 \in 1 .. Len(inbox) /\ inbox[i + 1].kind = "call"
      BY <1>1, <2>2
    <3>2. CASE \E j \in 1 .. i : IsChange(inbox[j])
      <4>1. PICK j \in 1 .. i : IsChange(inbox[j])
        BY <3>2
      <4>2. j - 1 \in 1 .. i - 1 /\ inbox'[j - 1] = inbox[j]
        BY <1>1, <2>1, <2>2, <4>1
      <4> QED BY <4>1, <4>2
    <3> QED BY <1>1, <1>2, <1>4, <3>1, <3>2 DEF Current
  <2>3. \/ told' <= b
        \/ \E j \in 1 .. Len(queue') : IsChange(queue'[j])
        \/ \E j \in 1 .. Len(inbox') : IsChange(inbox'[j])
    <3>1. CASE \E j \in 1 .. Len(inbox) : IsChange(inbox[j])
      <4>1. PICK j \in 1 .. Len(inbox) : IsChange(inbox[j])
        BY <3>1
      <4>2. j - 1 \in 1 .. Len(inbox') /\ inbox'[j - 1] = inbox[j]
        BY <1>1, <2>1, <4>1
      <4> QED BY <4>1, <4>2
    <3> QED BY <1>1, <1>2, <3>1 DEF Current
  <2> QED BY <1>1, <1>2, <1>4, <2>2, <2>3 DEF Current
<1> QED BY <1>1, <1>3, <1>4 DEF ReadLine

\* What the reader holds goes to the end of the channel (Push).
LEMMA PushKeepsCurrent ==
    ASSUME TypeOK, NEW b \in Nat, Current(b), Push
    PROVE  Current(b)'
<1>1. /\ Len(queue) \in Nat /\ Len(queue') = Len(queue) + 1
      /\ \A i \in 1 .. Len(queue) : queue'[i] = queue[i]
      /\ queue'[Len(queue')] = held
      /\ inbox' = inbox /\ told' = told /\ held' = NoLine
  BY DEF Push, readerLeaves, client, TypeOK
<1>2. ~IsChange(held') /\ held'.kind # "call"
  BY <1>1 DEF NoLine, Line, IsChange
<1>3. (\E j \in 1 .. Len(queue) : IsChange(queue[j])) \/ IsChange(held)
      => \E j \in 1 .. Len(queue') : IsChange(queue'[j])
  BY <1>1
<1>4. ASSUME NEW i \in 1 .. Len(queue'), queue'[i].kind = "call"
      PROVE  \/ queue'[i].val <= b
             \/ \E j \in 1 .. i - 1 : IsChange(queue'[j])
  <2>1. CASE i \in 1 .. Len(queue)
    BY <1>1, <1>4, <2>1 DEF Current
  <2>2. CASE i = Len(queue')
    BY <1>1, <1>4, <2>2 DEF Current
  <2> QED BY <1>1, <2>1, <2>2
<1> QED BY <1>1, <1>2, <1>3, <1>4 DEF Current

\* The worker takes the first request from the channel: unless it tells of a
\* change, all that was behind it stays as current as it was.
LEMMA TakeKeepsCurrent ==
    ASSUME TypeOK, NEW b \in Nat, Current(b), queue # <<>>, queue' = Tail(queue),
           ~IsChange(Head(queue)), UNCHANGED <<inbox, held, told>>
    PROVE  Current(b)'
<1>1. /\ Len(queue) \in Nat \ {0} /\ Len(queue') = Len(queue) - 1
      /\ \A i \in 1 .. Len(queue') : queue'[i] = queue[i + 1]
      /\ queue[1] = Head(queue)
  BY DEF TypeOK
<1>2. ASSUME NEW n \in 1 .. Len(queue), \E j \in 1 .. n : IsChange(queue[j])
      PROVE  \E j \in 1 .. n - 1 : IsChange(queue'[j])
  <2>1. PICK j \in 1 .. n : IsChange(queue[j])
    BY <1>2
  <2>2. j - 1 \in 1 .. n - 1 /\ queue'[j - 1] = queue[j]
    BY <1>1, <2>1
  <2> QED BY <2>1, <2>2
<1>3. (\E j \in 1 .. Len(queue) : IsChange(queue[j]))
      => \E j \in 1 .. Len(queue') : IsChange(queue'[j])
  BY <1>1, <1>2
<1>4. ASSUME NEW i \in 1 .. Len(queue'), queue'[i].kind = "call"
      PROVE  \/ queue'[i].val <= b
             \/ \E j \in 1 .. i - 1 : IsChange(queue'[j])
  <2>1. i + 1 \in 1 .. Len(queue) /\ queue[i + 1].kind = "call" /\ i \in 1 .. Len(queue)
    BY <1>1, <1>4
  <2>2. queue[i + 1].val <= b \/ \E j \in 1 .. i : IsChange(queue[j])
    BY <2>1 DEF Current
  <2> QED BY <1>1, <1>2, <2>1, <2>2
<1> QED BY <1>3, <1>4 DEF Current

-----------------------------------------------------------------------------
(***************************************************************************)
(* Lemmas about the lines under way.                                       *)
(***************************************************************************)
LEMMA LineFacts ==
    /\ NoLine \in Lines /\ NoLine.kind = "none"
    /\ \A line \in Lines : line.val \in 0 .. Failed /\ line.id \in Nat
    /\ Failed \in Nat /\ MaxAsks \in Nat \ {0} /\ MaxRoots \in Nat \ {0} /\ MaxCalls \in Nat
    /\ Failed = MaxRoots + 1 /\ Global = 0
BY SessionAssumption DEF NoLine, Line, Lines, Failed, MaxAsks, Global

\* A line stays sound while more roots are announced and more questions asked.
LEMMA SoundLater ==
    ASSUME NEW line, NEW t \in Nat, NEW q \in Nat, NEW u \in Nat, NEW r \in Nat,
           t <= u, q <= r, Sound(line, t, q)
    PROVE  Sound(line, u, r)
BY DEF Sound

\* The client sends a line (Send).
LEMMA SendKeepsLines ==
    ASSUME TypeOK, LinesSound, NEW line, inbox' = Append(inbox, line),
           told' \in Nat, told <= told', Sound(line, told', requestID),
           UNCHANGED <<queue, held, job, answer, reader, requestID>>
    PROVE  LinesSound' /\ inbox' \in Seq(Lines)
<1>1. /\ inbox \in Seq(Lines) /\ line \in Lines
      /\ told \in Nat /\ requestID \in Nat
  BY LineFacts DEF TypeOK, Sound
<1>2. /\ Len(inbox) \in Nat /\ Len(inbox') = Len(inbox) + 1
      /\ \A i \in 1 .. Len(inbox) : inbox'[i] = inbox[i]
      /\ inbox'[Len(inbox')] = line
      /\ inbox' \in Seq(Lines)
  BY <1>1
<1>3. \A x : Sound(x, told, requestID) => Sound(x, told', requestID)
  BY <1>1, SoundLater
<1>4. ASSUME NEW i \in 1 .. Len(inbox') PROVE Sound(inbox'[i], told', requestID')
  <2>1. CASE i \in 1 .. Len(inbox)
    BY <1>2, <1>3, <2>1 DEF LinesSound
  <2>2. CASE i = Len(inbox')
    BY <1>2, <2>2
  <2> QED BY <1>2, <2>1, <2>2
<1> QED BY <1>2, <1>3, <1>4 DEF LinesSound

\* The worker takes the first request; the questions may be one more (Taken).
LEMMA TakeKeepsLines ==
    ASSUME TypeOK, LinesSound, queue # <<>>, queue' = Tail(queue),
           job' \in {job, Head(queue)}, requestID' \in Nat, requestID <= requestID',
           UNCHANGED <<inbox, held, answer, reader, told>>
    PROVE  LinesSound' /\ queue' \in Seq(Lines) /\ Len(queue') <= Capacity /\ job' \in Lines
<1>1. queue \in Seq(Lines) /\ told \in Nat /\ requestID \in Nat /\ Capacity \in Nat
  BY LineFacts, SessionAssumption DEF TypeOK
<1>2. /\ Len(queue) \in Nat \ {0} /\ Len(queue') = Len(queue) - 1
      /\ \A i \in 1 .. Len(queue') : queue'[i] = queue[i + 1] /\ i + 1 \in 1 .. Len(queue)
      /\ queue[1] = Head(queue) /\ 1 \in 1 .. Len(queue)
      /\ queue' \in Seq(Lines)
  BY <1>1
<1>3. \A x : Sound(x, told, requestID) => Sound(x, told', requestID')
  BY <1>1, SoundLater
<1>4. Sound(job', told', requestID')
  BY <1>2, <1>3 DEF LinesSound
<1>5. \A i \in 1 .. Len(queue') : Sound(queue'[i], told', requestID')
  BY <1>2, <1>3 DEF LinesSound
<1>6. \A i \in 1 .. Len(inbox') : Sound(inbox'[i], told', requestID')
  BY <1>3 DEF LinesSound
<1>7. Sound(held', told', requestID') /\ Sound(answer', told', requestID')
  BY <1>3 DEF LinesSound
<1> QED BY <1>1, <1>2, <1>4, <1>5, <1>6, <1>7 DEF LinesSound, TypeOK, Sound

-----------------------------------------------------------------------------
(***************************************************************************)
(* The actions of the client.                                              *)
(***************************************************************************)
\* A line other than an answer, sent with nothing else changed but what the client
\* has announced: all that the server has settled stays current.
LEMMA TellKeeps ==
    ASSUME IInv, NEW line \in Lines, inbox' = Append(inbox, line), line.kind # "answer",
           told' \in 1 .. roots', told <= told', Sound(line, told', requestID),
           told' = told \/ IsChange(line),
           line.kind = "call" => line.val = told,
           UNCHANGED <<server, asked>>
    PROVE  LinesSound' /\ inbox' \in Seq(Lines) /\ WorkspaceCurrent' /\ NeverStale'
<1>1. LinesSound' /\ inbox' \in Seq(Lines)
  BY SendKeepsLines DEF IInv, server, asking
<1>2. \A b \in Nat : Current(b) => Current(b)'
  BY SendKeepsCurrent DEF IInv, server
<1>3. /\ Len(inbox) \in Nat /\ Len(inbox') = Len(inbox) + 1
      /\ \A i \in 1 .. Len(inbox) : inbox'[i] = inbox[i]
      /\ inbox'[Len(inbox')] = line
  BY DEF IInv, TypeOK
<1>4. /\ workspace \in Nat /\ answer.val \in Nat
      /\ \A k \in asked : k.roots \in Nat
      /\ \A i \in 1 .. Len(inbox) : inbox[i].val \in Nat
  BY LineFacts DEF IInv, TypeOK
<1>5. \A i \in 1 .. Len(inbox') : inbox'[i].kind = "answer" => i \in 1 .. Len(inbox)
  BY <1>3
<1>6. WorkspaceCurrent'
  BY <1>2, <1>3, <1>4, <1>5
  DEF IInv, WorkspaceCurrent, Usable, server, session, asking
<1> QED BY <1>1, <1>6 DEF IInv, NeverStale, server

\* Whatever the client does: a line sent goes behind the others; roots that change are
\* told only by the notification that follows.
LEMMA ClientKeeps == ASSUME IInv, Client PROVE IInv'
<1>0. told \in 1 .. roots /\ told \in Nat /\ requestID \in Nat /\ roots \in Nat
  BY LineFacts DEF IInv, TypeOK, WorkerSound
<1>1. CASE Initialize \/ Initialized
  <2>1. PICK line : /\ inbox' = Append(inbox, line) /\ begun' \in 0 .. 2
                    /\ line \in Lines /\ line.kind \in {"initialize", "initialized"}
    <3>1. \A kind \in {"initialize", "initialized"}, v \in 0 .. 1 :
             Line(kind, 0, v) \in Lines /\ Line(kind, 0, v).kind = kind
      BY LineFacts DEF Line, Lines
    <3>2. CASE Initialize
      <4>1. PICK v \in 0 .. 1 : inbox' = Append(inbox, Line("initialize", 0, v))
        BY <3>2 DEF Initialize, Send
      <4> QED BY <3>1, <3>2, <4>1 DEF Initialize
    <3>3. CASE Initialized
      BY <3>1, <3>3 DEF Initialized, Send
    <3> QED BY <1>1, <3>2, <3>3
  <2>2. UNCHANGED <<roots, told, calls, asked, closed, server>>
    BY <1>1 DEF Initialize, Initialized
  <2>3. Sound(line, told', requestID)
    BY <2>1 DEF Sound
  <2>4. LinesSound' /\ inbox' \in Seq(Lines) /\ WorkspaceCurrent' /\ NeverStale'
    BY <1>0, <2>1, <2>2, <2>3, TellKeeps
  <2> QED BY <2>1, <2>2, <2>4
      DEF IInv, TypeOK, WorkerSound, server, session, asking
<1>2. CASE ChangeRoots
  <2>1. roots' \in 1 .. MaxRoots /\ roots < roots'
    BY <1>2, LineFacts DEF ChangeRoots, IInv, TypeOK
  <2>2. UNCHANGED <<told, begun, calls, asked, closed, inbox, server>>
    BY <1>2 DEF ChangeRoots
  <2>3. TypeOK' /\ WorkerSound'
    BY <1>0, <2>1, <2>2 DEF IInv, TypeOK, WorkerSound, server, session, asking
  <2>4. LinesSound' /\ WorkspaceCurrent' /\ NeverStale'
    BY <2>2 DEF IInv, LinesSound, WorkspaceCurrent, Usable, Current, NeverStale,
                server, session, asking
  <2> QED BY <2>3, <2>4 DEF IInv
<1>3. CASE TellChange
  <2> DEFINE line == Line("changed", 0, 0)
  <2>1. /\ inbox' = Append(inbox, line) /\ told' = roots
        /\ UNCHANGED <<roots, begun, calls, asked, closed, server>>
    BY <1>3 DEF TellChange, Send
  <2>2. line \in Lines /\ line.kind = "changed" /\ IsChange(line)
    BY LineFacts DEF Line, Lines, IsChange
  <2>3. Sound(line, told', requestID)
    BY <2>2 DEF Sound
  <2>4. told' \in 1 .. roots' /\ told <= told' /\ roots' \in 1 .. MaxRoots
    BY <1>0, <2>1 DEF IInv, TypeOK
  <2> HIDE DEF line
  <2>5. LinesSound' /\ inbox' \in Seq(Lines) /\ WorkspaceCurrent' /\ NeverStale'
    BY <2>1, <2>2, <2>3, <2>4, TellKeeps
  <2> QED BY <2>1, <2>4, <2>5
      DEF IInv, TypeOK, WorkerSound, server, session, asking
<1>4. CASE Call
  <2> DEFINE line == Line("call", calls + 1, told)
  <2>1. /\ inbox' = Append(inbox, line)
        /\ UNCHANGED <<roots, told, begun, asked, closed, server>>
    BY <1>4 DEF Call, Send
  <2>2. calls' \in 1 .. MaxCalls /\ calls' = calls + 1
    BY <1>4, LineFacts DEF Call, IInv, TypeOK
  <2>3. line.kind = "call" /\ line.id = calls' /\ line.val = told
    BY <2>2 DEF Line
  <2>4. line \in Lines
    BY <1>0, <2>2, LineFacts DEF Line, Lines, IInv, TypeOK
  <2>5. Sound(line, told', requestID)
    BY <1>0, <2>1, <2>2, <2>3, <2>4 DEF Sound
  <2> HIDE DEF line
  <2>6. LinesSound' /\ inbox' \in Seq(Lines) /\ WorkspaceCurrent' /\ NeverStale'
    BY <1>0, <2>1, <2>3, <2>4, <2>5, TellKeeps
  <2>7. calls' \in 0 .. MaxCalls
    BY <2>2, LineFacts
  <2> QED BY <2>1, <2>6, <2>7
      DEF IInv, TypeOK, WorkerSound, server, session, asking
<1>5. CASE AnswerRoots
  <2>0. PICK k \in asked : \E val \in (k.roots .. roots) \cup {Failed} :
          /\ inbox' = Append(inbox, Line("answer", k.id, val))
          /\ asked' = asked \ {k}
    BY <1>5 DEF AnswerRoots, Send
  <2>1. PICK val \in (k.roots .. roots) \cup {Failed} :
          /\ inbox' = Append(inbox, Line("answer", k.id, val))
          /\ asked' = asked \ {k}
    BY <2>0
  <2> DEFINE line == Line("answer", k.id, val)
  <2>2. UNCHANGED <<roots, told, begun, calls, closed, server>>
    BY <1>5 DEF AnswerRoots
  <2>3. /\ k.id \in 1 .. requestID /\ k.id \in 1 .. MaxAsks
        /\ k.roots \in 1 .. MaxRoots /\ val \in 1 .. Failed
    BY <1>0, <2>1, LineFacts DEF IInv, TypeOK, WorkerSound
  <2>4. line.kind = "answer" /\ line.id = k.id /\ line.val = val
    BY DEF Line
  <2>5. line \in Lines
    BY <2>3, LineFacts DEF Line, Lines
  <2>6. Sound(line, told', requestID) /\ inbox' = Append(inbox, line)
    BY <2>1, <2>2, <2>3, <2>4, <2>5 DEF Sound
  <2> HIDE DEF line
  <2>7. LinesSound' /\ inbox' \in Seq(Lines)
    BY <1>0, <2>2, <2>6, SendKeepsLines DEF IInv, server, asking
  <2>8. \A b \in Nat : Current(b) => Current(b)'
    BY <2>2, <2>4, <2>5, <2>6, SendKeepsCurrent DEF IInv, server
  <2>9. /\ Len(inbox) \in Nat /\ Len(inbox') = Len(inbox) + 1
        /\ \A i \in 1 .. Len(inbox) : inbox'[i] = inbox[i]
        /\ inbox'[Len(inbox')] = line
    BY <2>6 DEF IInv, TypeOK
  <2>10. /\ workspace \in Nat /\ answer.val \in Nat /\ job.val \in Nat
         /\ \A q \in asked : q.roots \in Nat
         /\ \A i \in 1 .. Len(inbox) : inbox[i].val \in Nat
    BY LineFacts DEF IInv, TypeOK
  <2>11. worker = "await" /\ k.id = pending /\ val # Failed => Usable(val)
    <3> SUFFICES ASSUME worker = "await", k.id = pending, val # Failed PROVE Usable(val)
      OBVIOUS
    <3>1. k.roots \in Nat /\ val \in Nat /\ k.roots <= val
      BY <1>0, <2>1, <2>3
    <3>2. Usable(k.roots)
      BY DEF IInv, WorkspaceCurrent
    <3> QED BY <2>10, <3>1, <3>2, CurrentUpwards DEF IInv, Usable
  <2>12. WorkspaceCurrent'
    <3>1. \A b \in Nat : Usable(b) => Usable(b)'
      BY <2>2, <2>8 DEF Usable, server
    <3>2. worker' # "await" /\ workspace' # Global => Current(workspace)'
      BY <2>2, <2>8, <2>10 DEF IInv, WorkspaceCurrent, server, session
    <3>3. ASSUME worker' = "await", NEW i \in 1 .. Len(inbox'), inbox'[i].kind = "answer",
                 inbox'[i].id = pending', inbox'[i].val # Failed
          PROVE  Usable(inbox[i].val)'
      <4>1. CASE i \in 1 .. Len(inbox)
        BY <2>2, <2>8, <2>9, <2>10, <3>3, <4>1 DEF IInv, WorkspaceCurrent, Usable, server, asking
      <4>2. CASE i = Len(inbox')
        <5>1. inbox'[i].val = val /\ k.id = pending /\ worker = "await" /\ val \in Nat
          BY <2>2, <2>3, <2>4, <2>9, <3>3, <4>2, LineFacts DEF server, asking
        <5>2. Current(val)' /\ (job'.kind = "call" => job'.val <= val)
          BY <2>2, <2>8, <2>11, <3>3, <5>1 DEF Usable, server
        <5> QED BY <5>1, <5>2 DEF Usable, Current
      <4> QED BY <2>9, <4>1, <4>2
    <3>4. worker' = "await" =>
             /\ \A q \in asked' : q.id = pending' => Usable(q.roots)'
             /\ answer' # NoLine /\ answer'.val # Failed => Usable(answer.val)'
      BY <2>1, <2>2, <2>8, <2>10 DEF IInv, WorkspaceCurrent, Usable, server, asking
    <3> QED BY <2>2, <3>2, <3>3, <3>4 DEF IInv, WorkspaceCurrent, server, session
  <2>13. TypeOK' /\ WorkerSound' /\ NeverStale'
    BY <2>1, <2>2, <2>7
    DEF IInv, TypeOK, WorkerSound, NeverStale, server, session, asking
  <2> QED BY <2>7, <2>12, <2>13 DEF IInv
<1>6. CASE Close
  BY <1>6
  DEF Close, IInv, TypeOK, LinesSound, WorkerSound, WorkspaceCurrent, Usable, Current,
      NeverStale, server, session, asking
<1> QED BY <1>1, <1>2, <1>3, <1>4, <1>5, <1>6 DEF Client

-----------------------------------------------------------------------------
(***************************************************************************)
(* The actions of the reader.                                              *)
(***************************************************************************)
LEMMA ReadLineKeeps == ASSUME IInv, ReadLine PROVE IInv'
<1>1. /\ Len(inbox) \in Nat \ {0} /\ Len(inbox') = Len(inbox) - 1
      /\ \A i \in 1 .. Len(inbox') : inbox'[i] = inbox[i + 1] /\ i + 1 \in 1 .. Len(inbox)
      /\ inbox[1] = Head(inbox) /\ 1 \in 1 .. Len(inbox)
      /\ inbox' \in Seq(Lines) /\ inbox[1] \in Lines
  BY DEF ReadLine, IInv, TypeOK
<1>2. UNCHANGED <<roots, told, begun, calls, asked, closed, queue, worker, job, initialized,
                  capable, resolved, workspace, requestID, pending, served>>
  BY DEF ReadLine, readerLeaves, client, session
<1>3. /\ answer' \in {answer, inbox[1]} /\ held' \in {held, inbox[1]}
      /\ answer' # answer => inbox[1].kind = "answer" /\ inbox[1].id = pending
      /\ reader' \in {"read", "push"} /\ (reader' = "read" => held' = held)
      /\ held = NoLine
  BY <1>1 DEF ReadLine, Awaited, IInv, LinesSound
<1>4. TypeOK'
  BY <1>1, <1>2, <1>3 DEF IInv, TypeOK
<1>5. LinesSound'
  <2>1. Sound(inbox[1], told, requestID)
    BY <1>1 DEF IInv, LinesSound
  <2>2. \A i \in 1 .. Len(inbox') : Sound(inbox'[i], told, requestID)
    BY <1>1 DEF IInv, LinesSound
  <2> QED BY <1>2, <1>3, <2>1, <2>2 DEF IInv, LinesSound
<1>6. WorkerSound' /\ NeverStale'
  <2>1. worker # "await" => answer' = answer
    <3>1. worker # "await" => pending = 0
      BY DEF IInv, WorkerSound
    <3>2. inbox[1].kind = "answer" => inbox[1].id \in 1 .. requestID
      BY <1>1 DEF IInv, LinesSound, Sound
    <3> QED BY <1>3, <3>1, <3>2 DEF IInv, TypeOK
  <2> QED BY <1>2, <2>1 DEF IInv, WorkerSound, NeverStale
<1>7. \A b \in Nat : Current(b) => Current(b)'
  BY ReadKeepsCurrent DEF IInv
<1>8. \A b \in Nat : Usable(b) => Usable(b)'
  BY <1>2, <1>7 DEF Usable
<1>9. /\ workspace \in Nat /\ answer.val \in Nat /\ job.val \in Nat
      /\ \A q \in asked : q.roots \in Nat
      /\ \A i \in 1 .. Len(inbox) : inbox[i].val \in Nat
  BY LineFacts DEF IInv, TypeOK
<1>10. WorkspaceCurrent'
  <2>1. worker' # "await" /\ workspace' # Global => Current(workspace)'
    BY <1>2, <1>7, <1>9 DEF IInv, WorkspaceCurrent
  <2>2. worker' = "await" =>
           /\ \A q \in asked' : q.id = pending' => Usable(q.roots)'
           /\ answer' # NoLine /\ answer'.val # Failed => Usable(answer.val)'
    BY <1>1, <1>2, <1>3, <1>8, <1>9 DEF IInv, WorkspaceCurrent, Usable, Current
  <2>3. ASSUME worker' = "await", NEW i \in 1 .. Len(inbox'), inbox'[i].kind = "answer",
               inbox'[i].id = pending', inbox'[i].val # Failed
        PROVE  Usable(inbox[i].val)'
    <3>1. Usable(inbox[i + 1].val) /\ inbox'[i] = inbox[i + 1] /\ inbox[i + 1].val \in Nat
      BY <1>1, <1>2, <1>9, <2>3 DEF IInv, WorkspaceCurrent
    <3>2. PICK v \in Nat : v = inbox[i + 1].val
      BY <3>1
    <3>3. Usable(v)'
      BY <1>8, <3>1, <3>2
    <3> QED BY <3>1, <3>2, <3>3 DEF Usable, Current
  <2> QED BY <1>2, <2>1, <2>2, <2>3 DEF IInv, WorkspaceCurrent
<1> QED BY <1>4, <1>5, <1>6, <1>10 DEF IInv

\* The reader puts the line it holds at the end of the channel (readMessages).
LEMMA PushKeeps == ASSUME IInv, Push PROVE IInv'
<1>1. /\ Len(queue) \in Nat /\ Len(queue') = Len(queue) + 1
      /\ \A i \in 1 .. Len(queue) : queue'[i] = queue[i]
      /\ queue'[Len(queue')] = held
      /\ queue' \in Seq(Lines) /\ Len(queue) < Capacity
  BY DEF Push, Room, IInv, TypeOK
<1>2. UNCHANGED <<roots, told, begun, calls, asked, closed, inbox, worker, job, initialized,
                  capable, resolved, workspace, requestID, pending, served, answer>>
  BY DEF Push, readerLeaves, client, session
<1>3. held' = NoLine /\ reader' = "read"
  BY DEF Push
<1>4. TypeOK'
  BY <1>1, <1>2, <1>3, LineFacts, SessionAssumption DEF IInv, TypeOK
<1>5. LinesSound'
  <2>1. ASSUME NEW i \in 1 .. Len(queue') PROVE Sound(queue'[i], told, requestID)
    BY <1>1 DEF IInv, LinesSound
  <2>2. Sound(NoLine, told, requestID)
    BY LineFacts DEF Sound
  <2> QED BY <1>2, <1>3, <2>1, <2>2 DEF IInv, LinesSound
<1>6. WorkerSound' /\ NeverStale'
  BY <1>2 DEF IInv, WorkerSound, NeverStale
<1>7. \A b \in Nat : Current(b) => Current(b)'
  BY PushKeepsCurrent DEF IInv
<1>8. /\ workspace \in Nat /\ answer.val \in Nat
      /\ \A q \in asked : q.roots \in Nat
      /\ \A i \in 1 .. Len(inbox) : inbox[i].val \in Nat
  BY LineFacts DEF IInv, TypeOK
<1>9. WorkspaceCurrent'
  BY <1>2, <1>7, <1>8 DEF IInv, WorkspaceCurrent, Usable
<1> QED BY <1>4, <1>5, <1>6, <1>9 DEF IInv

\* The reader ends when the client has gone.
LEMMA EndOfInputKeeps == ASSUME IInv, EndOfInput PROVE IInv'
<1>1. UNCHANGED <<roots, told, begun, calls, asked, closed, inbox, held, queue, worker, job,
                  initialized, capable, resolved, workspace, requestID, pending, served, answer>>
      /\ reader = "read" /\ reader' = "ended"
  BY DEF EndOfInput, readerLeaves, client, session
<1> QED BY <1>1
    DEF IInv, TypeOK, LinesSound, WorkerSound, WorkspaceCurrent, Usable, Current, NeverStale

-----------------------------------------------------------------------------
(***************************************************************************)
(* The actions of the worker.                                              *)
(***************************************************************************)
\* What every request taken from the channel has in common.
LEMMA TakeFacts ==
    ASSUME IInv, queue # <<>>, queue' = Tail(queue), job' \in {job, Head(queue)},
           requestID' \in Nat, requestID <= requestID',
           UNCHANGED <<workerLeaves, answer>>
    PROVE  /\ LinesSound' /\ queue' \in Seq(Lines) /\ Len(queue') <= Capacity /\ job' \in Lines
           /\ ~IsChange(Head(queue)) => \A b \in Nat : Current(b) => Current(b)'
           /\ Head(queue) \in Lines /\ Sound(Head(queue), told, requestID)
           /\ Head(queue).kind = "call" =>
                 \A b \in Nat : Current(b) => Head(queue).val <= b
<1>1. LinesSound' /\ queue' \in Seq(Lines) /\ Len(queue') <= Capacity /\ job' \in Lines
  BY TakeKeepsLines DEF IInv, workerLeaves
<1>2. ~IsChange(Head(queue)) => \A b \in Nat : Current(b) => Current(b)'
  BY TakeKeepsCurrent DEF IInv, workerLeaves
<1>3. 1 \in 1 .. Len(queue) /\ queue[1] = Head(queue) /\ Head(queue) \in Lines
  BY DEF IInv, TypeOK
<1>4. Sound(Head(queue), told, requestID)
  BY <1>3 DEF IInv, LinesSound
<1>5. Head(queue).kind = "call" => \A b \in Nat : Current(b) => Head(queue).val <= b
  BY <1>3 DEF Current
<1> QED BY <1>1, <1>2, <1>3, <1>4, <1>5

\* A session that begins has no workspace of an earlier one.
LEMMA TakeInitializeKeeps == ASSUME IInv, TakeInitialize PROVE IInv'
<1>1. /\ worker = "select" /\ queue # <<>> /\ Head(queue).kind = "initialize"
      /\ queue' = Tail(queue) /\ capable' \in BOOLEAN
      /\ UNCHANGED <<worker, job, initialized, resolved, workspace, asked, requestID, pending,
                     answer, served, workerLeaves>>
  BY DEF TakeInitialize, asking
<1>2. requestID \in Nat
  BY DEF IInv, TypeOK
<1>3. LinesSound' /\ queue' \in Seq(Lines) /\ Len(queue') <= Capacity
  BY <1>1, <1>2, TakeFacts
<1>4. \A b \in Nat : Current(b) => Current(b)'
  BY <1>1, <1>2, TakeFacts DEF IsChange
<1>5. workspace \in Nat
  BY LineFacts DEF IInv, TypeOK
<1>6. WorkspaceCurrent'
  BY <1>1, <1>4, <1>5 DEF IInv, WorkspaceCurrent
<1> QED BY <1>1, <1>3, <1>6 DEF IInv, TypeOK, WorkerSound, NeverStale, workerLeaves

\* The line that the worker takes is the first of the channel.
LEMMA FirstIsHead == ASSUME NEW line \in First PROVE queue # <<>> /\ line = Head(queue)
BY DEF First

\* A request that needs no answer of the client, served in a workspace that is
\* either what it was, and current, or the global one.
LEMMA TakeKeeps ==
    ASSUME IInv, NEW line \in First, Taken(line), worker' = After(line),
           resolved' \in BOOLEAN, requestID' \in requestID .. MaxAsks,
           UNCHANGED <<asked, pending, answer>>,
           \/ workspace' = Global
           \/ workspace' = workspace /\ (~initialized' \/ ~IsChange(line))
    PROVE  IInv'
<1>1. /\ worker = "select" /\ queue # <<>> /\ line = Head(queue)
      /\ queue' = Tail(queue) /\ job' = line /\ initialized' = Ready(line)
      /\ UNCHANGED <<capable, served, workerLeaves>>
  BY FirstIsHead DEF Taken
<1>2. requestID \in Nat /\ requestID' \in Nat /\ requestID <= requestID'
      /\ requestID' \in 0 .. MaxAsks
  BY LineFacts DEF IInv, TypeOK
<1>3. /\ LinesSound' /\ queue' \in Seq(Lines) /\ Len(queue') <= Capacity /\ job' \in Lines
      /\ ~IsChange(line) => \A b \in Nat : Current(b) => Current(b)'
      /\ line.kind = "call" => \A b \in Nat : Current(b) => line.val <= b
  BY <1>1, <1>2, TakeFacts
<1>4. /\ worker' \in {"serve", "select"} /\ (worker' = "serve" => job'.kind = "call")
  BY <1>1 DEF After
<1>5. initialized' \in BOOLEAN /\ (~initialized' => ~initialized)
  BY <1>1 DEF Ready, IInv, TypeOK
<1>6. ~initialized' => workspace' = Global
  BY <1>5 DEF IInv, WorkerSound
<1>7. workspace \in Nat /\ (workspace # Global => Current(workspace))
      /\ workspace' \in Global .. MaxRoots
  BY <1>1, LineFacts DEF IInv, WorkspaceCurrent, TypeOK
<1>8. WorkspaceCurrent'
  <2>1. CASE workspace' = Global
    BY <1>4, <2>1 DEF WorkspaceCurrent
  <2>2. CASE workspace' # Global
    <3>1. workspace' = workspace /\ ~IsChange(line)
      BY <1>6, <2>2
    <3>2. Current(workspace)'
      <4>1. PICK b \in Nat : b = workspace
        BY <1>7
      <4>2. Current(b)'
        BY <1>3, <1>7, <2>2, <3>1, <4>1
      <4> QED BY <3>1, <4>1, <4>2 DEF Current
    <3>3. worker' = "serve" => job'.val <= workspace'
      BY <1>1, <1>3, <1>4, <1>7, <2>2, <3>1
    <3> QED BY <1>4, <3>2, <3>3 DEF WorkspaceCurrent
  <2> QED BY <2>1, <2>2
<1>9. WorkerSound'
  BY <1>1, <1>2, <1>4, <1>6 DEF IInv, WorkerSound, workerLeaves, TypeOK
<1>10. TypeOK'
  BY <1>1, <1>2, <1>3, <1>4, <1>5, <1>7 DEF IInv, TypeOK, workerLeaves
<1> QED BY <1>1, <1>3, <1>8, <1>9, <1>10 DEF IInv, NeverStale

\* A call that finds the workspace resolved finds it current (ensureWorkspace).
LEMMA TakeSettledKeeps == ASSUME IInv, TakeSettled PROVE IInv'
<1>1. PICK line \in First :
        /\ Taken(line) /\ (~Ready(line) \/ Settled(line)) /\ worker' = After(line)
        /\ UNCHANGED <<resolved, workspace, asked, requestID, pending, answer>>
  BY DEF TakeSettled, asking
<1>2. ~initialized' \/ ~IsChange(line)
  BY <1>1 DEF Taken, Settled, IsChange
<1>3. requestID' \in requestID .. MaxAsks /\ resolved' \in BOOLEAN
  BY <1>1, LineFacts DEF IInv, TypeOK
<1> QED BY <1>1, <1>2, <1>3, TakeKeeps

\* A call that needs no roots, or cannot ask for them, is served globally.
LEMMA TakeGlobalKeeps == ASSUME IInv, TakeIncapable \/ TakeUnwritable PROVE IInv'
<1>1. PICK line \in First :
        /\ Taken(line) /\ worker' = After(line)
        /\ workspace' = Global /\ resolved' = TRUE
        /\ requestID' = requestID \/ (requestID < MaxAsks /\ requestID' = requestID + 1)
        /\ UNCHANGED <<asked, pending, answer>>
  BY DEF TakeIncapable, TakeUnwritable, Unsettled, Choose, asking
<1>2. requestID' \in requestID .. MaxAsks
  BY <1>1, LineFacts DEF IInv, TypeOK
<1> QED BY <1>1, <1>2, TakeKeeps

\* Roots that are asked for now will be those announced by now, or newer (listRoots).
LEMMA TakeAndAskKeeps == ASSUME IInv, TakeAndAsk PROVE IInv'
<1>1. PICK line \in First :
        /\ Taken(line) /\ requestID < MaxAsks /\ Ready(line)
        /\ requestID' = requestID + 1 /\ pending' = requestID'
        /\ asked' = asked \cup {[id |-> requestID', roots |-> roots]}
        /\ worker' = "await"
        /\ UNCHANGED <<resolved, workspace, answer>>
  BY DEF TakeAndAsk, Unsettled
<1>2. /\ worker = "select" /\ queue # <<>> /\ line = Head(queue)
      /\ queue' = Tail(queue) /\ job' = line /\ initialized' = TRUE
      /\ UNCHANGED <<capable, served, workerLeaves>>
  BY <1>1, FirstIsHead DEF Taken
<1>3. /\ requestID \in Nat /\ requestID' \in 1 .. MaxAsks /\ requestID' \in Nat
      /\ requestID < requestID' /\ roots \in 1 .. MaxRoots /\ told \in 1 .. MaxRoots
      /\ told <= roots
  BY <1>1, LineFacts DEF IInv, TypeOK, WorkerSound
<1>4. /\ LinesSound' /\ queue' \in Seq(Lines) /\ Len(queue') <= Capacity /\ job' \in Lines
      /\ Sound(line, told, requestID)
  BY <1>1, <1>2, <1>3, TakeFacts
<1>5. TypeOK'
  BY <1>1, <1>2, <1>3, <1>4, LineFacts DEF IInv, TypeOK, workerLeaves
<1>6. WorkerSound'
  BY <1>1, <1>2, <1>3 DEF IInv, WorkerSound, workerLeaves, TypeOK
<1>7. answer' = NoLine
  BY <1>1, <1>2 DEF IInv, WorkerSound
<1>8. Usable(roots)'
  <2>1. PICK b \in Nat : b = roots
    BY <1>3
  <2>2. told' <= b
    BY <1>2, <1>3, <2>1 DEF workerLeaves
  <2>3. Current(b)'
    <3>1. /\ \A i \in 1 .. Len(queue') : queue'[i].kind = "call" => queue'[i].val \in 1 .. told'
          /\ \A i \in 1 .. Len(inbox') : inbox'[i].kind = "call" => inbox'[i].val \in 1 .. told'
          /\ held'.kind = "call" => held'.val \in 1 .. told'
          /\ told' \in Nat
      BY <1>2, <1>3, <1>4 DEF LinesSound, Sound, workerLeaves
    <3> QED BY <2>2, <3>1 DEF Current
  <2>4. job'.kind = "call" => job'.val <= b
    BY <1>2, <1>3, <1>4, <2>1 DEF Sound
  <2> QED BY <1>2, <2>1, <2>3, <2>4 DEF Usable, Current, workerLeaves
<1>9. WorkspaceCurrent'
  <2>1. \A k \in asked' : k.id = pending' => k.roots = roots
    BY <1>1, <1>3 DEF IInv, WorkerSound, TypeOK
  <2>2. \A i \in 1 .. Len(inbox) : inbox[i].kind = "answer" => inbox[i].id # pending'
    BY <1>1, <1>3 DEF IInv, LinesSound, Sound
  <2> QED BY <1>1, <1>2, <1>7, <1>8, <2>1, <2>2 DEF WorkspaceCurrent, Usable, Current, workerLeaves
<1> QED BY <1>2, <1>4, <1>5, <1>6, <1>9 DEF IInv, NeverStale, workerLeaves, TakeAndAsk

\* The answer, or the end of the five seconds (GotAnswer, TimesOut).
LEMMA AskedKeeps == ASSUME IInv, GotAnswer \/ TimesOut PROVE IInv'
<1>1. /\ worker = "await" /\ worker' = After(job) /\ pending' = 0 /\ answer' = NoLine
      /\ resolved' = TRUE
      /\ \/ workspace' = Global
         \/ answer # NoLine /\ answer.val # Failed /\ workspace' = answer.val
      /\ UNCHANGED <<job, queue, initialized, capable, requestID, asked, served, workerLeaves>>
  BY DEF GotAnswer, TimesOut, Asked, Choose
<1>2. worker' \in {"serve", "select"} /\ (worker' = "serve" => job.kind = "call")
  BY <1>1 DEF After
<1>3. workspace' \in Global .. MaxRoots
  <2>1. answer # NoLine => answer.val \in 1 .. Failed
    BY DEF IInv, LinesSound, Sound
  <2> QED BY <1>1, <2>1, LineFacts
<1>4. initialized
  BY <1>1 DEF IInv, WorkerSound
<1>5. TypeOK' /\ WorkerSound'
  BY <1>1, <1>2, <1>3, <1>4, LineFacts DEF IInv, TypeOK, WorkerSound, workerLeaves
<1>6. LinesSound' /\ NeverStale'
  BY <1>1, LineFacts DEF IInv, LinesSound, NeverStale, Sound, workerLeaves
<1>7. WorkspaceCurrent'
  <2>1. CASE workspace' = Global
    BY <1>2, <2>1 DEF WorkspaceCurrent
  <2>2. CASE answer # NoLine /\ answer.val # Failed /\ workspace' = answer.val
    <3>1. Usable(answer.val)
      BY <1>1, <2>2 DEF IInv, WorkspaceCurrent
    <3> QED BY <1>1, <1>2, <2>2, <3>1 DEF WorkspaceCurrent, Usable, Current, workerLeaves
  <2> QED BY <1>1, <2>1, <2>2
<1> QED BY <1>5, <1>6, <1>7 DEF IInv

\* A call is served in the workspace as it stands; the worker ends.
LEMMA ServeKeeps == ASSUME IInv, Serve \/ Stop PROVE IInv'
<1>1. /\ worker \in {"serve", "select"} /\ worker' \in {"select", "stopped"}
      /\ UNCHANGED <<queue, job, asked, initialized, capable, resolved, workspace, requestID,
                     pending, answer, workerLeaves>>
      /\ \/ served' = served
         \/ /\ worker = "serve"
            /\ served' = served \cup {[id |-> job.id, told |-> job.val, workspace |-> workspace]}
  BY DEF Serve, Stop, session, asking
<1>2. worker = "serve" =>
        /\ job.id \in 1 .. MaxCalls /\ job.val \in 1 .. MaxRoots
        /\ workspace # Global => job.val <= workspace
  <2>1. worker = "serve" => job.id \in 1 .. MaxCalls /\ job.val \in 1 .. told
    BY DEF IInv, WorkerSound, LinesSound, Sound
  <2> QED BY <2>1, LineFacts DEF IInv, WorkspaceCurrent, TypeOK
<1>3. served' \subseteq [id: 1 .. MaxCalls, told: 1 .. MaxRoots, workspace: Global .. MaxRoots]
  BY <1>1, <1>2 DEF IInv, TypeOK
<1>4. TypeOK' /\ WorkerSound' /\ LinesSound'
  BY <1>1, <1>3 DEF IInv, TypeOK, WorkerSound, LinesSound, workerLeaves
<1>5. NeverStale'
  <2>1. workspace \in Nat /\ job.val \in Nat
    BY LineFacts DEF IInv, TypeOK
  <2> QED BY <1>1, <1>2, <2>1 DEF IInv, NeverStale
<1>6. WorkspaceCurrent'
  BY <1>1 DEF IInv, WorkspaceCurrent, Current, workerLeaves
<1> QED BY <1>4, <1>5, <1>6 DEF IInv

-----------------------------------------------------------------------------
\* The invariant holds before the client has sent anything.
LEMMA SessionStarts == Init => IInv
<1> SUFFICES ASSUME Init PROVE IInv
  OBVIOUS
<1>1. TypeOK
  <2>1. <<>> \in Seq(Lines) /\ Len(<<>>) = 0 /\ 0 <= Capacity
    BY SessionAssumption
  <2>2. 1 \in 1 .. MaxRoots /\ Global \in Global .. MaxRoots /\ 0 \in 0 .. MaxAsks
        /\ 0 \in 0 .. MaxCalls
    BY LineFacts
  <2>3. inbox \in Seq(Lines) /\ queue \in Seq(Lines) /\ Len(queue) <= Capacity
    BY <2>1 DEF Init
  <2>4. {held, job, answer} \subseteq Lines
    BY LineFacts DEF Init
  <2>5. /\ roots \in 1 .. MaxRoots /\ told \in 1 .. MaxRoots /\ begun \in 0 .. 2
        /\ calls \in 0 .. MaxCalls /\ workspace \in Global .. MaxRoots
        /\ requestID \in 0 .. MaxAsks /\ pending \in 0 .. MaxAsks
    BY <2>2 DEF Init
  <2>6. /\ asked \subseteq [id: 1 .. MaxAsks, roots: 1 .. MaxRoots]
        /\ served \subseteq [id: 1 .. MaxCalls, told: 1 .. MaxRoots, workspace: Global .. MaxRoots]
        /\ {closed, initialized, capable, resolved} \subseteq BOOLEAN
        /\ reader \in {"read", "push", "ended"}
        /\ worker \in {"select", "await", "serve", "stopped"}
    BY DEF Init
  <2> QED BY <2>3, <2>4, <2>5, <2>6 DEF TypeOK
<1>2. LinesSound
  BY LineFacts DEF Init, LinesSound, Sound
<1>3. WorkerSound /\ WorkspaceCurrent /\ NeverStale
  BY DEF Init, WorkerSound, WorkspaceCurrent, NeverStale
<1> QED BY <1>1, <1>2, <1>3 DEF IInv

\* Every step of the client, the reader and the worker keeps it.
LEMMA SessionSteps == IInv /\ [Next]_vars => IInv'
<1> SUFFICES ASSUME IInv, [Next]_vars PROVE IInv'
  OBVIOUS
<1>1. CASE Client
  BY <1>1, ClientKeeps
<1>2. CASE Reader
  BY <1>2, ReadLineKeeps, PushKeeps, EndOfInputKeeps DEF Reader
<1>3. CASE Worker
  BY <1>3, TakeInitializeKeeps, TakeSettledKeeps, TakeGlobalKeeps, TakeAndAskKeeps,
     AskedKeeps, ServeKeeps DEF Worker
<1>4. CASE UNCHANGED vars
  <2>1. TypeOK' /\ NeverStale'
    BY <1>4 DEF vars, IInv, TypeOK, NeverStale
  <2>2. LinesSound' /\ WorkerSound'
    BY <1>4 DEF vars, IInv, LinesSound, WorkerSound
  <2>3. WorkspaceCurrent'
    BY <1>4 DEF vars, IInv, WorkspaceCurrent, Usable, Current
  <2> QED BY <2>1, <2>2, <2>3 DEF IInv
<1> QED BY <1>1, <1>2, <1>3, <1>4 DEF Next

\* Lines, requests and answers keep their types, and the channel its capacity.
THEOREM SessionTypeCorrect == Spec => []TypeOK
<1>1. IInv => TypeOK
  BY DEF IInv
<1> QED BY <1>1, SessionStarts, SessionSteps, PTL DEF Spec

\* No call is served in a workspace older than the roots that were announced
\* before it (resolveSessionStore, deliverResponse).
THEOREM CallsAreCurrent == Spec => []NeverStale
<1>1. IInv => NeverStale
  BY DEF IInv
<1> QED BY <1>1, SessionStarts, SessionSteps, PTL DEF Spec
=============================================================================
