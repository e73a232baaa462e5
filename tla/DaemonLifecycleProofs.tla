------------------------- MODULE DaemonLifecycleProofs -------------------------
(***************************************************************************)
(* One command at a time, for any number of commands, daemons, web         *)
(* processes, kills and faults: one process listens and the socket file is *)
(* its own, the token file opens it, a start succeeds and a stop tells the *)
(* truth (daemon.Run, StartAndWait, the stop command).                     *)
(***************************************************************************)
EXTENDS DaemonLifecycle, TLAPS

-----------------------------------------------------------------------------
(***************************************************************************)
(* The inductive invariants.  TypeInv needs no assumption, Alone that      *)
(* commands do not overlap, Matched also that the no-auth setting of a     *)
(* live web process stays.                                                 *)
(***************************************************************************)
\* What goes with the no-auth setting of a command, and with its kind.
CommandsSound ==
    \A c \in Commands :
        /\ cmd[c].noAuth =>
              cmd[c].token = NoToken /\ cmd[c].pc \notin {"token", "reread", "write"}
        /\ cmd[c].kind = "none" => AtC(c, "idle")
        /\ AtC(c, "kill") => cmd[c].kind = "stop"
        /\ cmd[c].kind = "stop" =>
              cmd[c].pc \in {"shutdown", "waitstop", "kill", "ok", "failed"}

\* A process that has not started yet.
FreshDaemons ==
    \A d \in Daemons :
        /\ daemon[d].pc \in {"idle", "env"} => daemon[d].token = NoToken /\ ~daemon[d].stopping
        /\ AtD(d, "idle") => daemon[d].kind = "api"
        /\ AtD(d, "env") => daemon[d].kind = "web"

TypeInv == TypeOK /\ CommandsSound /\ FreshDaemons

\* One command runs at a time, and one process starts; while a command runs it is
\* the one that the command waits for, or has waited for.
OneAtATime ==
    /\ \A c, e \in Commands : Running(c) /\ Running(e) => c = e
    /\ \A d, e \in Daemons : ~Settled(d) /\ ~Settled(e) => d = e
    /\ \A c \in Commands, d \in Daemons : Running(c) /\ ~Settled(d) =>
          /\ daemon[d].kind = "api"
          /\ AtC(c, "wait") \/ AtC(c, "clear")

\* The process that has bound the socket, listening or not yet.
Bound(d) == daemon[d].pc \in {"listen", "chmod", "serve", "ready"}
NobodyBound == \A e \in Daemons : ~Bound(e)

SocketOwned ==
    /\ \A d \in Daemons : Bound(d) => socket = d
    /\ \A d \in Daemons : AtD(d, "remove") => NobodyBound
    /\ \A d \in Daemons : AtD(d, "bind") => socket = NoDaemon
    /\ \A c \in Commands : AtC(c, "kill") => NobodyBound

Alone == TypeInv /\ OneAtATime /\ SocketOwned

\* The token of the process that serves, or will, opens with the file's.
ServesFile == \A d \in Daemons : Bound(d) => Accepts(d, token)

\* A daemon starts when nobody else has bound the socket, a web process beside
\* processes of its own no-auth setting.
FirstComer == \A d, e \in Daemons : ~Settled(d) /\ daemon[d].kind = "api" /\ Bound(e) => d = e
SameSetting ==
    \A d, e \in Daemons : ~Settled(d) /\ daemon[d].kind = "web" /\ Alive(e) =>
        daemon[e].noAuth = daemon[d].noAuth

\* The token of each process that starts, by where it is.
Carried ==
    \A d \in Daemons :
        /\ AtD(d, "auth") /\ daemon[d].kind = "web" /\ ~daemon[d].noAuth =>
              daemon[d].token = token
        /\ AtD(d, "auth") /\ daemon[d].kind = "api" /\ ~daemon[d].noAuth =>
              daemon[d].token # NoToken
        /\ AtD(d, "write") => NobodyBound
        /\ daemon[d].pc \in {"open", "lstat", "dial", "remove", "bind"} =>
              daemon[d].token = token
        /\ Alive(d) /\ ~daemon[d].noAuth /\ daemon[d].pc \notin {"env", "auth"} =>
              daemon[d].token # NoToken

DaemonTokens == ServesFile /\ FirstComer /\ SameSetting /\ Carried

\* The token of each command, by where it is, and what it knows of the daemon.
CommandTokens ==
    \A c \in Commands :
        /\ cmd[c].pc \in {"token", "reread", "write"} => cmd[c].fallback = NoToken
        /\ AtC(c, "write") => cmd[c].token # NoToken /\ token \in {NoToken, cmd[c].token}
        /\ /\ ~cmd[c].noAuth /\ cmd[c].kind # "stop"
           /\ cmd[c].pc \in {"probe", "fallback", "shutdown", "waitstop", "spawn", "wait", "clear"}
           => cmd[c].token # NoToken
        /\ AtC(c, "probe") =>
              IF cmd[c].noAuth THEN cmd[c].fallback = token
              ELSE cmd[c].token = token /\ cmd[c].fallback = NoToken
        /\ AtC(c, "fallback") => cmd[c].noAuth /\ cmd[c].fallback = token
        /\ AtC(c, "shutdown") =>
              token = IF cmd[c].kind = "stop" THEN cmd[c].token ELSE cmd[c].fallback
        /\ AtC(c, "waitstop") => \A d \in Daemons : Bound(d) => daemon[d].stopping
        /\ AtC(c, "spawn") => NobodyBound
        /\ AtC(c, "clear") => \A d \in Daemons :
              (Bound(d) => daemon[d].token = NoToken) /\ (~Settled(d) => AtD(d, "serve"))

\* The process that a command waits for is on its way, unless something failed.
Coming(c) ==
    \E d \in Daemons :
        /\ daemon[d].pc \in {"auth", "open", "lstat", "dial", "remove", "bind",
                             "listen", "chmod", "serve", "ready"}
        /\ daemon[d].kind = "api" /\ ~daemon[d].stopping
        /\ daemon[d].token = cmd[c].token

Expected == \A c \in Commands : AtC(c, "wait") /\ c \notin disturbed => Coming(c)

Matched == Alone /\ DaemonTokens /\ CommandTokens /\ Expected
-----------------------------------------------------------------------------
(***************************************************************************)
(* Types.                                                                  *)
(***************************************************************************)
\* A fault is counted below its bound, for commands only (Fault, NoFault).
LEMMA FaultKept ==
    ASSUME TypeInv, Fault \/ NoFault
    PROVE  faults' \in 0 .. MaxFaults /\ disturbed' \subseteq Commands
<1>1. CASE Fault
    BY <1>1, DaemonAssumption DEF TypeInv, TypeOK, Fault, Disturb
<1>2. CASE NoFault
    BY <1>2 DEF TypeInv, TypeOK, NoFault
<1>. QED  BY <1>1, <1>2

\* What ResolveOrCreateToken leaves with the process, and in the file.
LEMMA Authenticated ==
    ASSUME TypeInv, NEW d \in Daemons, Authenticate(d)
    PROVE  /\ daemon' \in [Daemons -> DaemonStates]
           /\ \A e \in Daemons : e # d => daemon'[e] = daemon[e]
           /\ daemon'[d].kind = daemon[d].kind /\ daemon'[d].noAuth = daemon[d].noAuth
           /\ daemon'[d].stopping = daemon[d].stopping
           /\ daemon[d].noAuth => daemon'[d].token = NoToken
           /\ daemon[d].pc = "auth" /\ daemon'[d].pc \in {"write", "open"} /\ token' \in Tokens
           /\ UNCHANGED <<socket, cmd, crashes, faults, disturbed>>
           /\ IF Generate(d)
              THEN daemon'[d].pc = "write" /\ daemon'[d].token = d /\ token' = token
              ELSE /\ daemon'[d].pc = "open" /\ token' = daemon'[d].token
                   /\ token' = IF daemon[d].noAuth \/ daemon[d].token # NoToken
                               THEN daemon[d].token ELSE token
<1>a. daemon \in [Daemons -> DaemonStates] /\ daemon[d] \in DaemonStates /\ token \in Tokens
    BY DEF TypeInv, TypeOK
<1>b. UNCHANGED <<socket, cmd, crashes, faults, disturbed>> /\ daemon[d].pc = "auth"
    BY DEF Authenticate, NoFault, AtD
<1>1. CASE Generate(d)
  <2>1. [daemon[d] EXCEPT !.pc = "write", !.token = d] \in DaemonStates
    BY <1>a DEF DaemonStates, DaemonPlaces, Tokens
  <2>2. daemon' = [daemon EXCEPT ![d] = [daemon[d] EXCEPT !.pc = "write", !.token = d]]
    BY <1>1 DEF Authenticate
  <2>. QED  BY <1>a, <1>b, <1>1, <2>1, <2>2 DEF Authenticate, Generate, DaemonStates
<1>2. CASE ~Generate(d)
  <2>1. PICK t : t = IF daemon[d].noAuth \/ daemon[d].token # NoToken
                     THEN daemon[d].token ELSE token
    OBVIOUS
  <2>2. t \in Tokens /\ (daemon[d].noAuth => t = NoToken)
    BY <2>1 DEF Authenticate, AtD, TypeInv, TypeOK, DaemonStates
  <2>3. token' = t /\ daemon' = [daemon EXCEPT ![d] = [daemon[d] EXCEPT !.pc = "open", !.token = t]]
    BY <1>2, <2>1 DEF Authenticate
  <2>4. [daemon[d] EXCEPT !.pc = "open", !.token = t] \in DaemonStates
    BY <1>a, <2>2 DEF DaemonStates, DaemonPlaces
  <2>. QED  BY <1>a, <1>b, <1>2, <2>1, <2>2, <2>3, <2>4 DEF DaemonStates
<1>. QED  BY <1>1, <1>2

\* Each step of daemon.Run, and of a web process, keeps the types.
LEMMA RunType ==
    ASSUME TypeInv, NEW d \in Daemons, Run(d)
    PROVE  TypeInv'
<1>. USE DEF TypeInv, TypeOK, CommandsSound, FreshDaemons, DaemonStates, DaemonPlaces, Tokens,
             GoD, AtD, AtC, NoFault
<1>1. CASE ReadEnv(d)
  <2>1. daemon' = [daemon EXCEPT ![d] = [daemon[d] EXCEPT
                      !.pc = "auth", !.token = IF daemon[d].noAuth THEN NoToken ELSE token]]
    BY <1>1 DEF ReadEnv
  <2>2. [daemon[d] EXCEPT !.pc = "auth", !.token = IF daemon[d].noAuth THEN NoToken ELSE token]
            \in DaemonStates
    OBVIOUS
  <2>3. daemon' \in [Daemons -> DaemonStates]
    BY <2>1, <2>2
  <2>. QED  BY <1>1, <2>3 DEF ReadEnv
<1>2. CASE Authenticate(d)
    BY <1>2, Authenticated
<1>3. CASE WriteToken(d)
    BY <1>3 DEF WriteToken
<1>4. CASE OpenEngine(d)
    BY <1>4, FaultKept DEF OpenEngine
<1>5. CASE Lstat(d)
    BY <1>5 DEF Lstat
<1>6. CASE Dial(d)
    BY <1>6 DEF Dial
<1>7. CASE RemoveStale(d)
    BY <1>7 DEF RemoveStale
<1>8. CASE Bind(d)
    BY <1>8 DEF Bind
<1>9. CASE Listen(d)
    BY <1>9 DEF Listen
<1>10. CASE Chmod(d)
    BY <1>10, FaultKept DEF Chmod, Close
<1>11. CASE SetShutdown(d)
    BY <1>11 DEF SetShutdown
<1>12. CASE Stopped(d)
    BY <1>12, FaultKept DEF Stopped, Close
<1>. QED  BY <1>1, <1>2, <1>3, <1>4, <1>5, <1>6, <1>7, <1>8, <1>9, <1>10, <1>11, <1>12 DEF Run

\* A web process that is started, and a daemon that is killed, keep the types.
LEMMA AutostartType ==
    ASSUME TypeInv, NEW d \in Daemons, Autostart(d)
    PROVE  TypeInv'
<1>. USE DEF TypeInv, TypeOK, CommandsSound, FreshDaemons, DaemonStates, DaemonPlaces, Tokens,
             AtD, AtC, NoFault
<1>1. PICK n \in BOOLEAN :
          daemon' = [daemon EXCEPT ![d] = [@ EXCEPT !.pc = "env", !.kind = "web", !.noAuth = n]]
    BY DaemonAssumption DEF Autostart
<1>2. daemon' = [daemon EXCEPT ![d] = [daemon[d] EXCEPT !.pc = "env", !.kind = "web",
                                                        !.noAuth = n]]
    BY <1>1
<1>3. [daemon[d] EXCEPT !.pc = "env", !.kind = "web", !.noAuth = n] \in DaemonStates
    OBVIOUS
<1>4. daemon' \in [Daemons -> DaemonStates]
    BY <1>2, <1>3
<1>. QED  BY <1>1, <1>4 DEF Autostart

\* A process that is killed keeps what it holds.
LEMMA CrashType ==
    ASSUME TypeInv, NEW d \in Daemons, Crash(d)
    PROVE  TypeInv'
<1>1. crashes' \in 0 .. MaxCrashes
    BY DaemonAssumption DEF TypeInv, TypeOK, Crash
<1>. QED  BY <1>1 DEF Crash, Disturb, TypeInv, TypeOK, CommandsSound, FreshDaemons, DaemonStates,
                      DaemonPlaces, Tokens, GoD, AtD, AtC

\* What ensureToken and ResolveOrCreateToken give a command, and where it goes.
LEMMA ReadStep ==
    ASSUME TypeInv, NEW c \in Commands, ReadToken(c)
    PROVE  /\ cmd' \in [Commands -> CommandStates]
           /\ \A e \in Commands : e # c => cmd'[e] = cmd[e]
           /\ cmd'[c].kind = cmd[c].kind /\ cmd'[c].noAuth = cmd[c].noAuth
           /\ cmd'[c].fallback = cmd[c].fallback
           /\ cmd[c].pc \in {"token", "reread"} /\ cmd'[c].pc \in {"write", "reread", "probe"}
           /\ UNCHANGED <<token, socket, daemon, crashes, faults, disturbed>>
           /\ AtC(c, "write")' => cmd'[c].token # NoToken /\ token \in {NoToken, cmd'[c].token}
           /\ AtC(c, "probe")' => cmd'[c].token = token /\ token # NoToken
<1>a. cmd \in [Commands -> CommandStates] /\ cmd[c] \in CommandStates /\ token \in Tokens
    BY DEF TypeInv, TypeOK
<1>1. PICK t : t = IF token = NoToken /\ ~(AtC(c, "token") /\ cmd[c].kind = "mcp") THEN c ELSE token
    OBVIOUS
<1>2. PICK l : l = IF token # NoToken /\ ~(AtC(c, "token") /\ cmd[c].kind = "mcp") THEN "probe"
                   ELSE IF token = NoToken /\ AtC(c, "token") /\ cmd[c].kind = "mcp" THEN "reread"
                   ELSE "write"
    OBVIOUS
<1>3. cmd' = [cmd EXCEPT ![c] = [cmd[c] EXCEPT !.token = t, !.pc = l]]
    BY <1>1, <1>2 DEF ReadToken, AtC
<1>4. [cmd[c] EXCEPT !.token = t, !.pc = l] \in CommandStates
    BY <1>a, <1>1, <1>2 DEF CommandStates, CommandPlaces, Tokens
<1>5. cmd'[c] = [cmd[c] EXCEPT !.token = t, !.pc = l]
    BY <1>a, <1>3
<1>6. cmd[c].pc \in {"token", "reread"}
    BY DEF ReadToken, AtC
<1>9. UNCHANGED <<token, socket, daemon, crashes, faults, disturbed>>
    BY DEF ReadToken, NoFault
<1>7. l = "write" => t # NoToken /\ token \in {NoToken, t}
    BY <1>1, <1>2, DaemonAssumption DEF Tokens
<1>8. l = "probe" => t = token /\ token # NoToken
    BY <1>1, <1>2
<1>. QED  BY <1>a, <1>2, <1>3, <1>4, <1>5, <1>6, <1>7, <1>8, <1>9 DEF CommandStates, AtC

\* A shutdown request touches one field of one process, and is heard by the one
\* that has set its shutdown function.
LEMMA ShutdownStep ==
    ASSUME TypeInv, NEW c \in Commands, Shutdown(c)
    PROVE  /\ daemon' \in [Daemons -> DaemonStates]
           /\ \A d \in Daemons : /\ daemon'[d].pc = daemon[d].pc
                                 /\ daemon'[d].kind = daemon[d].kind
                                 /\ daemon'[d].noAuth = daemon[d].noAuth
                                 /\ daemon'[d].token = daemon[d].token
                                 /\ daemon[d].stopping => daemon'[d].stopping
                                 /\ daemon'[d].stopping => daemon[d].stopping \/ Serving(d)
           /\ UNCHANGED <<token, socket, crashes>> /\ cmd[c].pc = "shutdown"
           /\ \/ /\ GoC(c, "waitstop") /\ NoFault
                 /\ Refused \/ (Up /\ (Heard(socket) => daemon'[socket].stopping))
              \/ /\ GoC(c, "failed")
                 /\ \/ Fault
                    \/ NoFault /\ Up /\ ~Accepts(socket, IF cmd[c].kind = "stop" THEN cmd[c].token
                                                         ELSE cmd[c].fallback)
<1>a. daemon \in [Daemons -> DaemonStates]
    BY DEF TypeInv, TypeOK
<1>b. UNCHANGED <<token, socket, crashes>> /\ cmd[c].pc = "shutdown"
    BY DEF Shutdown, AtC
<1>1. CASE UNCHANGED daemon /\ Refused /\ GoC(c, "waitstop") /\ NoFault
    BY <1>a, <1>b, <1>1 DEF Serving
<1>2. CASE /\ UNCHANGED daemon /\ GoC(c, "failed") /\ NoFault
           /\ Up /\ ~Ready(IF cmd[c].kind = "stop" THEN cmd[c].token ELSE cmd[c].fallback)
    BY <1>a, <1>b, <1>2 DEF Ready
<1>3. CASE /\ Up /\ daemon' = [daemon EXCEPT ![socket].stopping = @ \/ Heard(socket)]
           /\ (GoC(c, "waitstop") /\ NoFault) \/ (GoC(c, "failed") /\ Fault)
  <2>1. PICK b \in BOOLEAN : b = (daemon[socket].stopping \/ Heard(socket))
    OBVIOUS
  <2>2. daemon' = [daemon EXCEPT ![socket] = [daemon[socket] EXCEPT !.stopping = b]]
    BY <1>3, <2>1
  <2>3. socket \in Daemons /\ Serving(socket)
    BY <1>3 DEF Up, TypeInv, TypeOK
  <2>4. [daemon[socket] EXCEPT !.stopping = b] \in DaemonStates
    BY <1>a, <2>3 DEF DaemonStates
  <2>. QED  BY <1>a, <1>b, <1>3, <2>1, <2>2, <2>3, <2>4 DEF DaemonStates
<1>. QED  BY <1>1, <1>2, <1>3 DEF Shutdown, Ready

\* What StartBackground leaves: a process of the command's setting and token.
LEMMA SpawnStep ==
    ASSUME TypeInv, NEW c \in Commands, Spawn(c)
    PROVE  /\ daemon' \in [Daemons -> DaemonStates]
           /\ UNCHANGED <<token, socket, crashes>> /\ cmd[c].pc = "spawn"
           /\ \/ GoC(c, "failed") /\ Fault /\ UNCHANGED daemon
              \/ /\ GoC(c, "wait") /\ NoFault
                 /\ \E d \in Daemons :
                       /\ daemon[d].pc = "idle" /\ daemon'[d].pc = "auth"
                       /\ daemon'[d].kind = "api" /\ ~daemon'[d].stopping
                       /\ daemon'[d].noAuth = cmd[c].noAuth /\ daemon'[d].token = cmd[c].token
                       /\ daemon'[d].noAuth => daemon'[d].token = NoToken
                       /\ \A e \in Daemons : e # d => daemon'[e] = daemon[e]
<1>a. daemon \in [Daemons -> DaemonStates] /\ cmd \in [Commands -> CommandStates]
    BY DEF TypeInv, TypeOK
<1>b. UNCHANGED <<token, socket, crashes>> /\ cmd[c].pc = "spawn"
    BY Zenon DEF Spawn, AtC
<1>1. CASE GoC(c, "failed") /\ Fault /\ UNCHANGED daemon
    BY <1>a, <1>b, <1>1
<1>2. ASSUME NEW d \in Daemons, AtD(d, "idle"), GoC(c, "wait"), NoFault,
             daemon' = [daemon EXCEPT ![d] = [@ EXCEPT
                          !.pc = "auth", !.noAuth = cmd[c].noAuth, !.token = cmd[c].token]]
      PROVE  /\ daemon' \in [Daemons -> DaemonStates]
             /\ daemon[d].pc = "idle" /\ daemon'[d].pc = "auth"
             /\ daemon'[d].kind = "api" /\ ~daemon'[d].stopping
             /\ daemon'[d].noAuth = cmd[c].noAuth /\ daemon'[d].token = cmd[c].token
             /\ daemon'[d].noAuth => daemon'[d].token = NoToken
             /\ \A e \in Daemons : e # d => daemon'[e] = daemon[e]
  <2>1. PICK n \in BOOLEAN, t \in Tokens : n = cmd[c].noAuth /\ t = cmd[c].token
    BY <1>a DEF CommandStates
  <2>2. daemon' = [daemon EXCEPT ![d] = [daemon[d] EXCEPT !.pc = "auth", !.noAuth = n, !.token = t]]
    BY <1>2, <2>1
  <2>3. daemon[d] \in DaemonStates
    BY <1>a
  <2>4. [daemon[d] EXCEPT !.pc = "auth", !.noAuth = n, !.token = t] \in DaemonStates
    BY <2>3 DEF DaemonStates, DaemonPlaces
  <2>5. n => t = NoToken
    BY <2>1 DEF TypeInv, CommandsSound
  <2>6. daemon[d].kind = "api" /\ ~daemon[d].stopping /\ daemon[d].pc = "idle"
    BY <1>2 DEF TypeInv, FreshDaemons, AtD
  <2>. QED  BY <1>a, <2>1, <2>2, <2>3, <2>4, <2>5, <2>6 DEF DaemonStates
<1>3. CASE /\ GoC(c, "wait") /\ NoFault
           /\ \E d \in Daemons :
                 /\ AtD(d, "idle")
                 /\ daemon' = [daemon EXCEPT ![d] = [@ EXCEPT
                              !.pc = "auth", !.noAuth = cmd[c].noAuth, !.token = cmd[c].token]]
    BY <1>b, <1>2, <1>3
<1>. QED  BY <1>1, <1>3, Zenon DEF Spawn

\* An invocation, and each step of a command, keeps the types.
LEMMA InvokeType ==
    ASSUME TypeInv, NEW c \in Commands, Invoke(c)
    PROVE  TypeInv'
<1>1. PICK k \in Kinds, n \in NoAuths :
          LET quiet == k # "stop" /\ n IN
          /\ Agreed(n, FALSE)
          /\ cmd' = [cmd EXCEPT ![c] =
                    [pc |-> IF k = "stop" THEN "shutdown" ELSE IF n THEN "probe" ELSE "token",
                     kind |-> k, noAuth |-> quiet,
                     token |-> IF k = "stop" THEN token ELSE NoToken,
                     fallback |-> IF quiet THEN token ELSE NoToken]]
    BY DEF Invoke
<1>a. k \in {"start", "mcp", "stop"} /\ n \in BOOLEAN
    BY DaemonAssumption
<1>. USE <1>a DEF TypeInv, TypeOK, CommandsSound, FreshDaemons, CommandStates, CommandPlaces,
                  Tokens, AtD, AtC, NoFault
<1>2. CASE k = "stop"
    BY <1>1, <1>2 DEF Invoke
<1>3. CASE k # "stop" /\ n
    BY <1>1, <1>3 DEF Invoke
<1>4. CASE k # "stop" /\ ~n
    BY <1>1, <1>4 DEF Invoke
<1>. QED  BY <1>2, <1>3, <1>4

\* Every step of a command keeps the types.
LEMMA ProceedType ==
    ASSUME TypeInv, NEW c \in Commands, Proceed(c)
    PROVE  TypeInv'
<1>. USE DEF TypeInv, TypeOK, CommandsSound, FreshDaemons, CommandStates, CommandPlaces, Tokens,
             GoC, AtD, AtC, NoFault
<1>1. CASE ReadToken(c)
    BY <1>1, ReadStep
<1>2. CASE WriteNew(c)
    BY <1>2, FaultKept DEF WriteNew
<1>3. CASE Probe(c)
    BY <1>3 DEF Probe, Good
<1>4. CASE Fallback(c)
    BY <1>4 DEF Fallback
<1>5. CASE Shutdown(c)
    BY <1>5, ShutdownStep, FaultKept DEF Serving
<1>6. CASE WaitStop(c)
    BY <1>6, FaultKept DEF WaitStop
<1>7. CASE KillRegistered(c)
    BY <1>7 DEF KillRegistered, GoD, DaemonStates, DaemonPlaces
<1>8. CASE Killed(c)
    BY <1>8 DEF Killed
<1>9. CASE Spawn(c)
    BY <1>9, SpawnStep, FaultKept
<1>10. CASE Wait(c)
    BY <1>10 DEF Wait, Good
<1>11. CASE Clear(c)
    BY <1>11 DEF Clear
<1>. QED  BY <1>1, <1>2, <1>3, <1>4, <1>5, <1>6, <1>7, <1>8, <1>9, <1>10, <1>11 DEF Proceed
-----------------------------------------------------------------------------
(***************************************************************************)
(* One at a time.                                                          *)
(***************************************************************************)
\* When no other process is starting and nobody answers on the socket, no other
\* process has bound it (cleanupStaleSocket).
LEMMA RefusedMeansNobody ==
    ASSUME Alone, Refused, NEW d \in Daemons, Bound(d)
    PROVE  ~Settled(d)
BY DaemonAssumption DEF Alone, SocketOwned, Bound, Settled, Refused, Listening

\* Each step of daemon.Run leaves one process starting.
LEMMA RunOne ==
    ASSUME Alone, NEW p \in Daemons, Run(p)
    PROVE  OneAtATime'
<1>a. daemon \in [Daemons -> DaemonStates] /\ cmd \in [Commands -> CommandStates]
    BY DEF Alone, TypeInv, TypeOK
<1>. USE <1>a DEF Alone, OneAtATime, Settled, Running, DaemonStates, GoD, AtC, AtD
<1>1. CASE ReadEnv(p)
    BY <1>1 DEF ReadEnv
<1>2. CASE Authenticate(p)
    BY <1>2, Authenticated
<1>3. CASE WriteToken(p)
    BY <1>3 DEF WriteToken
<1>4. CASE OpenEngine(p)
    BY <1>4 DEF OpenEngine
<1>5. CASE Lstat(p)
    BY <1>5 DEF Lstat
<1>6. CASE Dial(p)
    BY <1>6 DEF Dial
<1>7. CASE RemoveStale(p)
    BY <1>7 DEF RemoveStale
<1>8. CASE Bind(p)
    BY <1>8 DEF Bind
<1>9. CASE Listen(p)
    BY <1>9 DEF Listen
<1>10. CASE Chmod(p)
    BY <1>10 DEF Chmod, Close
<1>11. CASE SetShutdown(p)
    BY <1>11 DEF SetShutdown
<1>12. CASE Stopped(p)
    BY <1>12 DEF Stopped, Close
<1>. QED  BY <1>1, <1>2, <1>3, <1>4, <1>5, <1>6, <1>7, <1>8, <1>9, <1>10, <1>11, <1>12 DEF Run

\* Each step of daemon.Run keeps the socket of the process that has bound it.
LEMMA RunOwned ==
    ASSUME Alone, NEW p \in Daemons, Run(p)
    PROVE  SocketOwned'
<1>a. daemon \in [Daemons -> DaemonStates] /\ cmd \in [Commands -> CommandStates]
    BY DEF Alone, TypeInv, TypeOK
<1>. USE <1>a DEF Alone, OneAtATime, SocketOwned, NobodyBound, Bound, Settled, Running,
                  DaemonStates, GoD, AtC, AtD
<1>1. CASE ReadEnv(p)
    BY <1>1 DEF ReadEnv
<1>2. CASE Authenticate(p)
    BY <1>2, Authenticated
<1>3. CASE WriteToken(p)
    BY <1>3 DEF WriteToken
<1>4. CASE OpenEngine(p)
    BY <1>4 DEF OpenEngine
<1>5. CASE Lstat(p)
    BY <1>5 DEF Lstat
<1>6. CASE Dial(p)
  <2>1. CASE Refused
    <3>1. NobodyBound
        BY <1>6, <2>1, RefusedMeansNobody DEF Dial
    <3>. QED  BY <1>6, <2>1, <3>1 DEF Dial, Stale
  <2>2. CASE ~Refused
    BY <1>6, <2>2 DEF Dial, Stale
  <2>. QED  BY <2>1, <2>2
<1>7. CASE RemoveStale(p)
    BY <1>7 DEF RemoveStale
<1>8. CASE Bind(p)
    BY <1>8, DaemonAssumption DEF Bind
<1>9. CASE Listen(p)
    BY <1>9 DEF Listen
<1>10. CASE Chmod(p)
    BY <1>10 DEF Chmod, Close
<1>11. CASE SetShutdown(p)
    BY <1>11 DEF SetShutdown
<1>12. CASE Stopped(p)
    BY <1>12 DEF Stopped, Close
<1>. QED  BY <1>1, <1>2, <1>3, <1>4, <1>5, <1>6, <1>7, <1>8, <1>9, <1>10, <1>11, <1>12 DEF Run

\* A process or a command begins when the others have ended; one that is killed
\* leaves its socket file.
LEMMA BeginAlone ==
    ASSUME ~Overlap, Alone,
           \/ \E p \in Daemons : Autostart(p) \/ Crash(p)
           \/ \E i \in Commands : Invoke(i)
    PROVE  OneAtATime' /\ SocketOwned'
<1>a. daemon \in [Daemons -> DaemonStates] /\ cmd \in [Commands -> CommandStates]
    BY DEF Alone, TypeInv, TypeOK
<1>. USE <1>a DEF Alone, OneAtATime, SocketOwned, NobodyBound, Bound, Settled, Running,
                  DaemonStates, CommandStates, AtC, AtD
<1>1. CASE \E p \in Daemons : Autostart(p)
  <2>. PICK p \in Daemons : Autostart(p)
    BY <1>1
  <2>1. PICK n \in NoAuths :
            daemon' = [daemon EXCEPT ![p] = [@ EXCEPT !.pc = "env", !.kind = "web", !.noAuth = n]]
    BY DEF Autostart
  <2>2. daemon'[p].pc = "env" /\ \A d \in Daemons : d # p => daemon'[d] = daemon[d]
    BY <2>1
  <2>3. Calm /\ AtD(p, "idle") /\ UNCHANGED <<cmd, socket>>
    BY DEF Autostart
  <2>. QED  BY <2>2, <2>3 DEF Calm
<1>2. CASE \E p \in Daemons : Crash(p)
  <2>1. OneAtATime'
    BY <1>2 DEF Crash, GoD
  <2>2. SocketOwned'
    BY <1>2 DEF Crash, GoD
  <2>. QED  BY <2>1, <2>2
<1>3. CASE \E i \in Commands : Invoke(i)
  <2>1. OneAtATime'
    BY <1>3 DEF Invoke, Calm
  <2>2. SocketOwned'
    BY <1>3 DEF Invoke, Calm
  <2>. QED  BY <2>1, <2>2
<1>. QED  BY <1>1, <1>2, <1>3

\* Each step of a command keeps it the only one that runs, and waits for the
\* process that it starts.
LEMMA ProceedOne ==
    ASSUME Alone, NEW i \in Commands, Proceed(i)
    PROVE  OneAtATime'
<1>a. daemon \in [Daemons -> DaemonStates] /\ cmd \in [Commands -> CommandStates]
    BY DEF Alone, TypeInv, TypeOK
<1>. USE <1>a DEF Alone, TypeInv, OneAtATime, Settled, Running, DaemonStates, CommandStates,
                  GoC, AtC, AtD
<1>1. CASE ReadToken(i)
  <2>1. /\ \A e \in Commands : e # i => cmd'[e] = cmd[e]
        /\ cmd[i].pc \in {"token", "reread"} /\ cmd'[i].pc \in {"write", "reread", "probe"}
        /\ UNCHANGED daemon
    BY <1>1, ReadStep
  <2>. QED  BY <2>1
<1>2. CASE WriteNew(i)
    BY <1>2 DEF WriteNew
<1>3. CASE Probe(i)
    BY <1>3 DEF Probe, Good
<1>4. CASE Fallback(i)
    BY <1>4 DEF Fallback
<1>5. CASE Shutdown(i)
  <2>1. /\ \A d \in Daemons : daemon'[d].pc = daemon[d].pc /\ daemon'[d].kind = daemon[d].kind
        /\ UNCHANGED socket /\ cmd[i].pc = "shutdown" /\ (GoC(i, "waitstop") \/ GoC(i, "failed"))
    BY <1>5, ShutdownStep
  <2>. QED  BY <2>1
<1>6. CASE WaitStop(i)
    BY <1>6 DEF WaitStop
<1>7. CASE KillRegistered(i)
    BY <1>7 DEF KillRegistered, GoD
<1>8. CASE Killed(i)
    BY <1>8 DEF Killed
<1>9. CASE Spawn(i)
  <2>1. UNCHANGED socket /\ cmd[i].pc = "spawn"
    BY <1>9, SpawnStep
  <2>2. CASE GoC(i, "failed") /\ UNCHANGED daemon
    BY <2>1, <2>2
  <2>3. ASSUME GoC(i, "wait"), NEW d \in Daemons, daemon[d].pc = "idle", daemon'[d].pc = "auth",
               daemon'[d].kind = "api", \A e \in Daemons : e # d => daemon'[e] = daemon[e]
        PROVE  OneAtATime'
    BY <2>1, <2>3
  <2>. QED  BY <1>9, <2>2, <2>3, SpawnStep
<1>10. CASE Wait(i)
    BY <1>10 DEF Wait, Good
<1>11. CASE Clear(i)
    BY <1>11 DEF Clear
<1>. QED  BY <1>1, <1>2, <1>3, <1>4, <1>5, <1>6, <1>7, <1>8, <1>9, <1>10, <1>11 DEF Proceed

\* Each step of a command keeps the socket of the process that has bound it; when
\* nobody answers a stop, nobody has bound it.
LEMMA ProceedOwned ==
    ASSUME Alone, NEW i \in Commands, Proceed(i)
    PROVE  SocketOwned'
<1>a. daemon \in [Daemons -> DaemonStates] /\ cmd \in [Commands -> CommandStates]
    BY DEF Alone, TypeInv, TypeOK
<1>. USE <1>a DEF Alone, TypeInv, OneAtATime, SocketOwned, NobodyBound, Bound, Settled, Running,
                  DaemonStates, CommandStates, GoC, AtC, AtD
<1>1. CASE ReadToken(i)
    BY <1>1, ReadStep
<1>2. CASE WriteNew(i)
    BY <1>2 DEF WriteNew
<1>3. CASE Probe(i)
    BY <1>3 DEF Probe, Good
<1>4. CASE Fallback(i)
    BY <1>4 DEF Fallback
<1>5. CASE Shutdown(i)
  <2>1. /\ \A d \in Daemons : daemon'[d].pc = daemon[d].pc /\ daemon'[d].kind = daemon[d].kind
        /\ UNCHANGED socket /\ cmd[i].pc = "shutdown" /\ (GoC(i, "waitstop") \/ GoC(i, "failed"))
    BY <1>5, ShutdownStep
  <2>. QED  BY <2>1
<1>6. CASE WaitStop(i)
  <2>1. CASE Refused
    <3>1. NobodyBound
        BY <1>6, <2>1, RefusedMeansNobody DEF WaitStop
    <3>. QED  BY <1>6, <2>1, <3>1 DEF WaitStop, Gone
  <2>2. CASE ~Refused
    BY <1>6, <2>2 DEF WaitStop, Gone
  <2>. QED  BY <2>1, <2>2
<1>7. CASE KillRegistered(i)
    BY <1>7 DEF KillRegistered, GoD
<1>8. CASE Killed(i)
    BY <1>8 DEF Killed
<1>9. CASE Spawn(i)
  <2>1. UNCHANGED socket /\ cmd[i].pc = "spawn"
    BY <1>9, SpawnStep
  <2>2. CASE GoC(i, "failed") /\ UNCHANGED daemon
    BY <2>1, <2>2
  <2>3. ASSUME GoC(i, "wait"), NEW d \in Daemons, daemon[d].pc = "idle", daemon'[d].pc = "auth",
               daemon'[d].kind = "api", \A e \in Daemons : e # d => daemon'[e] = daemon[e]
        PROVE  SocketOwned'
    <3>1. \A e \in Daemons : daemon'[e].pc = daemon[e].pc \/ daemon'[e].pc = "auth"
        BY <2>3
    <3>2. \A c \in Commands : AtC(c, "kill")' => AtC(c, "kill")
        BY <2>3
    <3>. QED  BY <2>1, <3>1, <3>2
  <2>. QED  BY <1>9, <2>2, <2>3, SpawnStep
<1>10. CASE Wait(i)
    BY <1>10 DEF Wait, Good
<1>11. CASE Clear(i)
    BY <1>11 DEF Clear
<1>. QED  BY <1>1, <1>2, <1>3, <1>4, <1>5, <1>6, <1>7, <1>8, <1>9, <1>10, <1>11 DEF Proceed

\* The types of every state, however commands overlap.
LEMMA TypeInvariant ==
    Spec => []TypeInv
<1>1. Init => TypeInv
  <2>. SUFFICES ASSUME Init PROVE TypeInv
    OBVIOUS
  <2>1. daemon \in [Daemons -> DaemonStates]
    BY DEF Init, DaemonStates, DaemonPlaces, Tokens
  <2>2. cmd \in [Commands -> CommandStates]
    BY DEF Init, CommandStates, CommandPlaces, Tokens
  <2>a. crashes \in 0 .. MaxCrashes /\ faults \in 0 .. MaxFaults
    BY DaemonAssumption DEF Init
  <2>3. TypeOK
    BY <2>1, <2>2, <2>a DEF Init, TypeOK, Tokens, AtD
  <2>. QED  BY <2>3 DEF Init, TypeInv, CommandsSound, FreshDaemons, AtC, AtD
<1>2. TypeInv /\ [Next]_vars => TypeInv'
  <2>. SUFFICES ASSUME TypeInv, [Next]_vars PROVE TypeInv'
    OBVIOUS
  <2>1. CASE UNCHANGED vars
    BY <2>1 DEF vars, TypeInv, TypeOK, CommandsSound, FreshDaemons, AtC, AtD
  <2>2. CASE Next
    BY <2>2, RunType, AutostartType, CrashType, InvokeType, ProceedType DEF Next
  <2>. QED  BY <2>1, <2>2
<1>. QED  BY <1>1, <1>2, PTL DEF Spec

\* Every variable has its type; a process without authentication holds no token
\* once it has read its environment.
THEOREM LifecycleTypeCorrect ==
    Spec => []TypeOK
<1>1. TypeInv => TypeOK
    BY DEF TypeInv
<1>. QED  BY <1>1, TypeInvariant, PTL

\* Alone holds in every state when commands do not overlap.
LEMMA AloneInvariant ==
    ASSUME ~Overlap
    PROVE  Spec => []Alone
<1>1. Init /\ TypeInv => Alone
    BY DEF Init, Alone, OneAtATime, SocketOwned, Running, Settled, Bound, AtC, AtD
<1>2. Alone /\ TypeInv' /\ [Next]_vars => Alone'
  <2>. SUFFICES ASSUME Alone, TypeInv', [Next]_vars PROVE Alone'
    OBVIOUS
  <2>1. CASE UNCHANGED vars
    BY <2>1 DEF vars, Alone, OneAtATime, SocketOwned, NobodyBound, Running, Settled, Bound, AtC, AtD
  <2>2. CASE Next
    <3>1. OneAtATime' /\ SocketOwned'
        BY <2>2, RunOne, RunOwned, BeginAlone, ProceedOne, ProceedOwned DEF Next
    <3>. QED  BY <3>1 DEF Alone
  <2>. QED  BY <2>1, <2>2
<1>. QED  BY <1>1, <1>2, TypeInvariant, PTL DEF Spec

\* One command at a time, whatever is killed or fails and however the no-auth
\* setting changes: two processes never listen at once, and the socket file is that
\* of the one that listens (listenAPI, cleanupStaleSocket).
THEOREM OneDaemonListens ==
    ASSUME ~Overlap
    PROVE  Spec => []OneDaemon
<1>1. Alone => OneDaemon
    BY DEF Alone, SocketOwned, OneDaemon, Bound, Listening
<1>. QED  BY <1>1, AloneInvariant, PTL

\* One command at a time: a stop that reports success leaves no process listening
\* (the stop command, StopRegistered).
THEOREM StopTellsTheTruth ==
    ASSUME ~Overlap
    PROVE  Spec => StopTruth
<1>1. ASSUME Alone, TypeInv', [Next]_vars, NEW c \in Commands, cmd[c].kind = "stop", Running(c),
             AtC(c, "ok")', NEW d \in Daemons
      PROVE  ~Listening(d)'
  <2>a. daemon \in [Daemons -> DaemonStates] /\ cmd \in [Commands -> CommandStates]
    BY <1>1 DEF Alone, TypeInv, TypeOK
  <2>b. cmd[c].pc \in {"shutdown", "waitstop", "kill"} /\ cmd'[c].pc = "ok"
    BY <1>1 DEF Alone, TypeInv, CommandsSound, Running, AtC
  <2>1. Killed(c)
    <3>1. PICK i \in Commands : Invoke(i) \/ Proceed(i)
        BY <1>1, <2>b DEF Next, vars, Autostart, Crash, Run, ReadEnv, Authenticate, WriteToken,
              OpenEngine, Lstat, Dial, RemoveStale, Bind, Listen, Chmod, SetShutdown, Stopped
    <3>2. i = c
        BY <1>1, <2>a, <2>b, <3>1 DEF Alone, OneAtATime, Running, Invoke, AtC, Proceed, ReadToken,
              WriteNew, Probe, Fallback, Shutdown, WaitStop, KillRegistered, Killed, Spawn,
              Wait, Clear
    <3>3. Shutdown(c) \/ WaitStop(c) \/ KillRegistered(c) \/ Killed(c)
        BY <2>b, <3>1, <3>2 DEF Invoke, AtC, Proceed, ReadToken, WriteNew, Probe, Fallback, Spawn,
              Wait, Clear
    <3>a. ~GoC(c, "waitstop") /\ ~GoC(c, "failed") /\ ~GoC(c, "kill")
        BY <2>a, <2>b DEF GoC, CommandStates
    <3>4. ~Shutdown(c) /\ ~WaitStop(c)
        BY <1>1, <3>a DEF Shutdown, WaitStop
    <3>5. ~KillRegistered(c)
        BY <1>1, <2>a, <2>b DEF KillRegistered, GoC, CommandStates
    <3>. QED  BY <3>3, <3>4, <3>5
  <2>2. AtC(c, "kill") /\ UNCHANGED daemon
    BY <2>1 DEF Killed
  <2>. QED  BY <1>1, <2>2 DEF Alone, SocketOwned, NobodyBound, Bound, Listening
<1>2. Alone /\ TypeInv' /\ [Next]_vars =>
          [\A c \in Commands :
              cmd[c].kind = "stop" /\ Running(c) /\ AtC(c, "ok")' =>
                  \A d \in Daemons : ~Listening(d)']_vars
    BY <1>1
<1>. QED  BY <1>2, AloneInvariant, TypeInvariant, PTL DEF Spec, StopTruth

-----------------------------------------------------------------------------
(***************************************************************************)
(* Tokens: Matched holds in every state when commands do not overlap and   *)
(* the setting of a web process that lives stays.                          *)
(***************************************************************************)
\* ResolveOrCreateToken writes another token only when nobody has bound the socket,
\* or is a web process of the setting of the one that serves.
LEMMA RunServes ==
    ASSUME Matched, NEW p \in Daemons, Run(p)
    PROVE  ServesFile'
<1>a. /\ daemon \in [Daemons -> DaemonStates] /\ cmd \in [Commands -> CommandStates]
      /\ token \in Tokens /\ socket \in Daemons \union {NoDaemon}
    BY DEF Matched, Alone, TypeInv, TypeOK
<1>b. TypeInv /\ CommandsSound /\ FreshDaemons /\ OneAtATime /\ SocketOwned
    BY DEF Matched, Alone, TypeInv
<1>. USE <1>a, <1>b, DaemonAssumption DEF DaemonStates, CommandStates, AtC, AtD, OneAtATime,
                                          SocketOwned, NobodyBound, Bound, Settled, Running,
                                          Matched, DaemonTokens, Accepts, GoD, ServesFile,
                                          FirstComer, SameSetting, Carried, Alive
<1>1. CASE ReadEnv(p)
    BY <1>1 DEF ReadEnv
<1>2. CASE Authenticate(p)
  <2>1. \A e \in Daemons : Bound(e)' => Bound(e) /\ e # p /\ daemon'[e] = daemon[e]
    BY <1>2, Authenticated
  <2>2. CASE Generate(p)
    BY <1>2, <2>1, <2>2, Authenticated
  <2>3. CASE ~Generate(p)
    <3>1. (\E e \in Daemons : Bound(e)) => daemon[p].kind = "web"
        BY <1>2, Authenticated
    <3>2. CASE daemon[p].noAuth
        <4>1. token' = NoToken
            BY <1>2, <2>3, <3>2, Authenticated
        <4>2. \A e \in Daemons : Bound(e) => daemon[e].token = NoToken
            BY <1>2, <3>1, <3>2, Authenticated DEF TypeInv, TypeOK
        <4>. QED  BY <2>1, <4>1, <4>2
    <3>3. CASE ~daemon[p].noAuth
        <4>1. daemon[p].kind = "web" => token' = token
            BY <1>2, <2>3, <3>3, Authenticated
        <4>. QED  BY <2>1, <3>1, <4>1
    <3>. QED  BY <3>2, <3>3
  <2>. QED  BY <2>2, <2>3
<1>3. CASE WriteToken(p)
    BY <1>3 DEF WriteToken
<1>4. CASE OpenEngine(p)
    BY <1>4 DEF OpenEngine
<1>5. CASE Lstat(p)
    BY <1>5 DEF Lstat
<1>6. CASE Dial(p)
    BY <1>6 DEF Dial, Stale, Refused, Listening
<1>7. CASE RemoveStale(p)
    BY <1>7 DEF RemoveStale
<1>8. CASE Bind(p)
    BY <1>8 DEF Bind
<1>9. CASE Listen(p)
    BY <1>9 DEF Listen
<1>10. CASE Chmod(p)
    BY <1>10 DEF Chmod, Close
<1>11. CASE SetShutdown(p)
    BY <1>11 DEF SetShutdown
<1>12. CASE Stopped(p)
    BY <1>12 DEF Stopped, Close
<1>. QED  BY <1>1, <1>2, <1>3, <1>4, <1>5, <1>6, <1>7, <1>8, <1>9, <1>10, <1>11, <1>12 DEF Run

\* A process binds the socket only when nobody else has (listenAPI).
LEMMA RunFirst ==
    ASSUME Matched, NEW p \in Daemons, Run(p)
    PROVE  FirstComer'
<1>a. /\ daemon \in [Daemons -> DaemonStates] /\ cmd \in [Commands -> CommandStates]
      /\ token \in Tokens /\ socket \in Daemons \union {NoDaemon}
    BY DEF Matched, Alone, TypeInv, TypeOK
<1>b. TypeInv /\ CommandsSound /\ FreshDaemons /\ OneAtATime /\ SocketOwned
    BY DEF Matched, Alone, TypeInv
<1>. USE <1>a, <1>b, DaemonAssumption DEF DaemonStates, CommandStates, AtC, AtD, OneAtATime,
                                          SocketOwned, NobodyBound, Bound, Settled, Running,
                                          Matched, DaemonTokens, GoD, FirstComer, CommandTokens,
                                          Carried
<1>1. CASE ReadEnv(p)
    BY <1>1 DEF ReadEnv
<1>2. CASE Authenticate(p)
    BY <1>2, Authenticated
<1>3. CASE WriteToken(p)
    BY <1>3 DEF WriteToken
<1>4. CASE OpenEngine(p)
    BY <1>4 DEF OpenEngine
<1>5. CASE Lstat(p)
    BY <1>5 DEF Lstat
<1>6. CASE Dial(p)
    BY <1>6 DEF Dial, Stale, Refused, Listening
<1>7. CASE RemoveStale(p)
    BY <1>7 DEF RemoveStale
<1>8. CASE Bind(p)
    BY <1>8 DEF Bind
<1>9. CASE Listen(p)
    BY <1>9 DEF Listen
<1>10. CASE Chmod(p)
    BY <1>10 DEF Chmod, Close
<1>11. CASE SetShutdown(p)
    BY <1>11 DEF SetShutdown
<1>12. CASE Stopped(p)
    BY <1>12 DEF Stopped, Close
<1>. QED  BY <1>1, <1>2, <1>3, <1>4, <1>5, <1>6, <1>7, <1>8, <1>9, <1>10, <1>11, <1>12 DEF Run

\* No step of a process changes its no-auth setting.
LEMMA RunSetting ==
    ASSUME Matched, NEW p \in Daemons, Run(p)
    PROVE  SameSetting'
<1>a. /\ daemon \in [Daemons -> DaemonStates] /\ cmd \in [Commands -> CommandStates]
      /\ token \in Tokens /\ socket \in Daemons \union {NoDaemon}
    BY DEF Matched, Alone, TypeInv, TypeOK
<1>b. TypeInv /\ CommandsSound /\ FreshDaemons /\ OneAtATime /\ SocketOwned
    BY DEF Matched, Alone, TypeInv
<1>. USE <1>a, <1>b, DaemonAssumption DEF DaemonStates, CommandStates, AtC, AtD, OneAtATime,
                                          Settled, Alive, Matched, DaemonTokens, SameSetting,
                                          GoD
<1>1. CASE ReadEnv(p)
    BY <1>1 DEF ReadEnv
<1>2. CASE Authenticate(p)
    BY <1>2, Authenticated
<1>3. CASE WriteToken(p)
    BY <1>3 DEF WriteToken
<1>4. CASE OpenEngine(p)
    BY <1>4 DEF OpenEngine
<1>5. CASE Lstat(p)
    BY <1>5 DEF Lstat
<1>6. CASE Dial(p)
    BY <1>6 DEF Dial, Stale, Refused, Listening
<1>7. CASE RemoveStale(p)
    BY <1>7 DEF RemoveStale
<1>8. CASE Bind(p)
    BY <1>8 DEF Bind
<1>9. CASE Listen(p)
    BY <1>9 DEF Listen
<1>10. CASE Chmod(p)
    BY <1>10 DEF Chmod, Close
<1>11. CASE SetShutdown(p)
    BY <1>11 DEF SetShutdown
<1>12. CASE Stopped(p)
    BY <1>12 DEF Stopped, Close
<1>. QED  BY <1>1, <1>2, <1>3, <1>4, <1>5, <1>6, <1>7, <1>8, <1>9, <1>10, <1>11, <1>12 DEF Run

\* What each step of daemon.Run leaves with the process is what the file holds, once
\* ResolveOrCreateToken has returned.
LEMMA RunCarried ==
    ASSUME Matched, NEW p \in Daemons, Run(p)
    PROVE  Carried'
<1>a. /\ daemon \in [Daemons -> DaemonStates] /\ cmd \in [Commands -> CommandStates]
      /\ token \in Tokens /\ socket \in Daemons \union {NoDaemon}
    BY DEF Matched, Alone, TypeInv, TypeOK
<1>b. TypeInv /\ CommandsSound /\ FreshDaemons /\ OneAtATime /\ SocketOwned
    BY DEF Matched, Alone, TypeInv
<1>. USE <1>a, <1>b, DaemonAssumption DEF DaemonStates, CommandStates, AtC, AtD, OneAtATime,
                                          SocketOwned, NobodyBound, Bound, Settled, Running,
                                          Matched, DaemonTokens, GoD, FirstComer, SameSetting,
                                          Carried, Alive
<1>1. CASE ReadEnv(p)
  <2>1. /\ daemon'[p].pc = "auth" /\ daemon'[p].noAuth = daemon[p].noAuth
        /\ daemon'[p].token = (IF daemon[p].noAuth THEN NoToken ELSE token)
        /\ daemon'[p].kind = "web" /\ UNCHANGED token
        /\ \A e \in Daemons : e # p => daemon'[e] = daemon[e]
    BY <1>1 DEF ReadEnv, FreshDaemons
  <2>. QED  BY <1>1, <2>1 DEF ReadEnv
<1>2. CASE Authenticate(p)
  <2>1. CASE Generate(p)
    <3>1. NobodyBound
        BY <1>2, <2>1, Authenticated DEF Generate, ServesFile, Accepts
    <3>. QED  BY <1>2, <2>1, <3>1, Authenticated
  <2>2. CASE ~Generate(p)
    BY <1>2, <2>2, Authenticated DEF Generate
  <2>. QED  BY <2>1, <2>2
<1>3. CASE WriteToken(p)
    BY <1>3 DEF WriteToken
<1>4. CASE OpenEngine(p)
    BY <1>4 DEF OpenEngine
<1>5. CASE Lstat(p)
    BY <1>5 DEF Lstat
<1>6. CASE Dial(p)
    BY <1>6 DEF Dial, Stale, Refused, Listening
<1>7. CASE RemoveStale(p)
    BY <1>7 DEF RemoveStale
<1>8. CASE Bind(p)
    BY <1>8 DEF Bind
<1>9. CASE Listen(p)
    BY <1>9 DEF Listen
<1>10. CASE Chmod(p)
    BY <1>10 DEF Chmod, Close
<1>11. CASE SetShutdown(p)
    BY <1>11 DEF SetShutdown
<1>12. CASE Stopped(p)
    BY <1>12 DEF Stopped, Close
<1>. QED  BY <1>1, <1>2, <1>3, <1>4, <1>5, <1>6, <1>7, <1>8, <1>9, <1>10, <1>11, <1>12 DEF Run

\* A process that starts while a command waits, or clears the file, does not change
\* what the command knows; one that stops only makes it truer.
LEMMA RunCommands ==
    ASSUME Matched, NEW p \in Daemons, Run(p)
    PROVE  CommandTokens'
<1>a. /\ daemon \in [Daemons -> DaemonStates] /\ cmd \in [Commands -> CommandStates]
      /\ token \in Tokens /\ socket \in Daemons \union {NoDaemon}
    BY DEF Matched, Alone, TypeInv, TypeOK
<1>b. TypeInv /\ CommandsSound /\ FreshDaemons /\ OneAtATime /\ SocketOwned
    BY DEF Matched, Alone, TypeInv
<1>. USE <1>a, <1>b, DaemonAssumption DEF DaemonStates, CommandStates, AtC, AtD, OneAtATime,
                                          SocketOwned, NobodyBound, Bound, Settled, Running,
                                          Matched, DaemonTokens, GoD, FirstComer, ServesFile,
                                          Carried, CommandsSound, CommandTokens
<1>1. CASE ReadEnv(p)
    BY <1>1 DEF ReadEnv
<1>2. CASE Authenticate(p)
    BY <1>2, Authenticated DEF Generate
<1>3. CASE WriteToken(p)
    BY <1>3 DEF WriteToken
<1>4. CASE OpenEngine(p)
    BY <1>4 DEF OpenEngine
<1>5. CASE Lstat(p)
    BY <1>5 DEF Lstat
<1>6. CASE Dial(p)
    BY <1>6 DEF Dial, Stale, Refused, Listening
<1>7. CASE RemoveStale(p)
    BY <1>7 DEF RemoveStale
<1>8. CASE Bind(p)
    BY <1>8 DEF Bind
<1>9. CASE Listen(p)
    BY <1>9 DEF Listen
<1>10. CASE Chmod(p)
    BY <1>10 DEF Chmod, Close
<1>11. CASE SetShutdown(p)
    BY <1>11 DEF SetShutdown
<1>12. CASE Stopped(p)
    BY <1>12 DEF Stopped, Close
<1>. QED  BY <1>1, <1>2, <1>3, <1>4, <1>5, <1>6, <1>7, <1>8, <1>9, <1>10, <1>11, <1>12 DEF Run

\* A step of one process leaves the others and the commands alone.
LEMMA RunOthers ==
    ASSUME TypeInv, NEW p \in Daemons, Run(p)
    PROVE  /\ \A e \in Daemons : e # p => daemon'[e] = daemon[e]
           /\ UNCHANGED cmd /\ disturbed \subseteq disturbed'
<1>a. daemon \in [Daemons -> DaemonStates]
    BY DEF TypeInv, TypeOK
<1>. USE <1>a DEF GoD, Close, Fault, NoFault, Disturb
<1>1. CASE ReadEnv(p)
    BY <1>1 DEF ReadEnv
<1>2. CASE Authenticate(p)
    BY <1>2, Authenticated
<1>3. CASE WriteToken(p)
    BY <1>3 DEF WriteToken
<1>4. CASE OpenEngine(p)
    BY <1>4 DEF OpenEngine
<1>5. CASE Lstat(p)
    BY <1>5 DEF Lstat
<1>6. CASE Dial(p)
    BY <1>6 DEF Dial
<1>7. CASE RemoveStale(p)
    BY <1>7 DEF RemoveStale
<1>8. CASE Bind(p)
    BY <1>8 DEF Bind
<1>9. CASE Listen(p)
    BY <1>9 DEF Listen
<1>10. CASE Chmod(p)
    BY <1>10 DEF Chmod
<1>11. CASE SetShutdown(p)
    BY <1>11 DEF SetShutdown
<1>12. CASE Stopped(p)
    BY <1>12 DEF Stopped
<1>. QED  BY <1>1, <1>2, <1>3, <1>4, <1>5, <1>6, <1>7, <1>8, <1>9, <1>10, <1>11, <1>12 DEF Run

\* The process that a command waits for goes on until it serves, or the step is a
\* fault, which disturbs the command.
LEMMA RunComing ==
    ASSUME Matched, NEW p \in Daemons, Run(p)
    PROVE  Expected'
<1>a. /\ daemon \in [Daemons -> DaemonStates] /\ cmd \in [Commands -> CommandStates]
      /\ token \in Tokens /\ socket \in Daemons \union {NoDaemon}
    BY DEF Matched, Alone, TypeInv, TypeOK
<1>b. TypeInv /\ CommandsSound /\ FreshDaemons /\ OneAtATime /\ SocketOwned
    BY DEF Matched, Alone, TypeInv
<1>. USE <1>a, <1>b, DaemonAssumption DEF DaemonStates, CommandStates, AtC, AtD, OneAtATime,
                                          SocketOwned, NobodyBound, Bound, Settled, Running,
                                          Matched, DaemonTokens, GoD, Fault, Disturb
<1>. SUFFICES ASSUME NEW c \in Commands, cmd[c].pc = "wait", c \notin disturbed'
              PROVE  Coming(c)'
    BY RunOthers DEF Expected
<1>c. PICK d \in Daemons :
          /\ daemon[d].pc \in {"auth", "open", "lstat", "dial", "remove", "bind",
                               "listen", "chmod", "serve", "ready"}
          /\ daemon[d].kind = "api" /\ ~daemon[d].stopping
          /\ daemon[d].token = cmd[c].token
    BY RunOthers DEF Expected, Coming
<1>d. CASE d # p
    BY <1>c, <1>d, RunOthers DEF Coming
<1>e. ASSUME d = p
      PROVE  /\ daemon'[p].pc \in {"auth", "open", "lstat", "dial", "remove", "bind",
                                   "listen", "chmod", "serve", "ready"}
             /\ daemon'[p].kind = "api" /\ ~daemon'[p].stopping
             /\ daemon'[p].token = daemon[p].token
  <2>1. CASE ReadEnv(p)
    BY <1>c, <1>e, <2>1 DEF ReadEnv
  <2>2. CASE Authenticate(p)
    BY <1>c, <1>e, <2>2, Authenticated DEF Carried, Generate
  <2>3. CASE WriteToken(p)
    BY <1>c, <1>e, <2>3 DEF WriteToken
  <2>4. CASE OpenEngine(p)
    <3>1. ~GoD(p, "exited")
        BY <2>4 DEF OpenEngine
    <3>. QED  BY <1>c, <1>e, <2>4, <3>1 DEF OpenEngine
  <2>5. CASE Lstat(p)
    BY <1>c, <1>e, <2>5 DEF Lstat
  <2>6. CASE Dial(p)
    <3>1. Refused
        BY <1>c, <1>e, <2>6 DEF Dial, Refused, Listening, FirstComer
    <3>. QED  BY <1>c, <1>e, <2>6, <3>1 DEF Dial, Stale
  <2>7. CASE RemoveStale(p)
    BY <1>c, <1>e, <2>7 DEF RemoveStale
  <2>8. CASE Bind(p)
    BY <1>c, <1>e, <2>8 DEF Bind
  <2>9. CASE Listen(p)
    BY <1>c, <1>e, <2>9 DEF Listen
  <2>10. CASE Chmod(p)
    BY <1>c, <1>e, <2>10 DEF Chmod, Close
  <2>11. CASE SetShutdown(p)
    BY <1>c, <1>e, <2>11 DEF SetShutdown
  <2>12. CASE Stopped(p)
    BY <1>c, <1>e, <2>12 DEF Stopped, Close
  <2>. QED  BY <2>1, <2>2, <2>3, <2>4, <2>5, <2>6, <2>7, <2>8, <2>9, <2>10, <2>11, <2>12 DEF Run
<1>. QED  BY <1>c, <1>d, <1>e, RunOthers DEF Coming

\* A command writes the token file only when the daemon accepts what it writes, or
\* when nobody has bound the socket.
LEMMA ProceedServes ==
    ASSUME Matched, NEW i \in Commands, Proceed(i)
    PROVE  ServesFile'
<1>a. /\ daemon \in [Daemons -> DaemonStates] /\ cmd \in [Commands -> CommandStates]
      /\ token \in Tokens /\ socket \in Daemons \union {NoDaemon}
    BY DEF Matched, Alone, TypeInv, TypeOK
<1>b. TypeInv /\ CommandsSound /\ FreshDaemons /\ OneAtATime /\ SocketOwned
    BY DEF Matched, Alone, TypeInv
<1>. USE <1>a, <1>b, DaemonAssumption DEF DaemonStates, CommandStates, AtC, AtD, OneAtATime,
                                          SocketOwned, NobodyBound, Bound, Settled, Running,
                                          Matched, DaemonTokens, Accepts, GoC, ServesFile,
                                          FirstComer, CommandsSound, CommandTokens
<1>1. CASE ReadToken(i)
    BY <1>1, ReadStep
<1>2. CASE WriteNew(i)
    BY <1>2 DEF WriteNew
<1>3. CASE Probe(i)
    BY <1>3 DEF Probe, Good, Ready, Up, Serving, Refused, Listening
<1>4. CASE Fallback(i)
    BY <1>4 DEF Fallback, Ready, Up, Serving, Refused, Listening
<1>5. CASE Shutdown(i)
    BY <1>5, ShutdownStep
<1>6. CASE WaitStop(i)
    BY <1>6 DEF WaitStop, Gone, Refused, Listening, Up
<1>7. CASE KillRegistered(i)
    BY <1>7 DEF KillRegistered, GoD
<1>8. CASE Killed(i)
    BY <1>8 DEF Killed
<1>9. CASE Spawn(i)
    BY <1>9, SpawnStep
<1>10. CASE Wait(i)
    BY <1>10 DEF Wait, Good, Answered, Ready, Up, Serving
<1>11. CASE Clear(i)
    BY <1>11 DEF Clear
<1>. QED  BY <1>1, <1>2, <1>3, <1>4, <1>5, <1>6, <1>7, <1>8, <1>9, <1>10, <1>11 DEF Proceed

\* A command starts a daemon only when nobody has bound the socket.
LEMMA ProceedFirst ==
    ASSUME Matched, NEW i \in Commands, Proceed(i)
    PROVE  FirstComer'
<1>a. /\ daemon \in [Daemons -> DaemonStates] /\ cmd \in [Commands -> CommandStates]
      /\ token \in Tokens /\ socket \in Daemons \union {NoDaemon}
    BY DEF Matched, Alone, TypeInv, TypeOK
<1>b. TypeInv /\ CommandsSound /\ FreshDaemons /\ OneAtATime /\ SocketOwned
    BY DEF Matched, Alone, TypeInv
<1>. USE <1>a, <1>b, DaemonAssumption DEF DaemonStates, CommandStates, AtC, AtD, OneAtATime,
                                          SocketOwned, NobodyBound, Bound, Settled, Running,
                                          Matched, DaemonTokens, GoC, FirstComer, CommandsSound,
                                          CommandTokens
<1>1. CASE ReadToken(i)
    BY <1>1, ReadStep
<1>2. CASE WriteNew(i)
    BY <1>2 DEF WriteNew
<1>3. CASE Probe(i)
    BY <1>3 DEF Probe, Good, Ready, Up, Serving, Refused, Listening
<1>4. CASE Fallback(i)
    BY <1>4 DEF Fallback, Ready, Up, Serving, Refused, Listening
<1>5. CASE Shutdown(i)
    BY <1>5, ShutdownStep
<1>6. CASE WaitStop(i)
    BY <1>6 DEF WaitStop, Gone, Refused, Listening, Up
<1>7. CASE KillRegistered(i)
    BY <1>7 DEF KillRegistered, GoD
<1>8. CASE Killed(i)
    BY <1>8 DEF Killed
<1>9. CASE Spawn(i)
    BY <1>9, SpawnStep
<1>10. CASE Wait(i)
    BY <1>10 DEF Wait, Good, Answered, Ready, Up, Serving
<1>11. CASE Clear(i)
    BY <1>11 DEF Clear
<1>. QED  BY <1>1, <1>2, <1>3, <1>4, <1>5, <1>6, <1>7, <1>8, <1>9, <1>10, <1>11 DEF Proceed

\* A command changes the no-auth setting of no process that lives.
LEMMA ProceedSetting ==
    ASSUME Matched, NEW i \in Commands, Proceed(i)
    PROVE  SameSetting'
<1>a. /\ daemon \in [Daemons -> DaemonStates] /\ cmd \in [Commands -> CommandStates]
      /\ token \in Tokens /\ socket \in Daemons \union {NoDaemon}
    BY DEF Matched, Alone, TypeInv, TypeOK
<1>b. TypeInv /\ CommandsSound /\ FreshDaemons /\ OneAtATime /\ SocketOwned
    BY DEF Matched, Alone, TypeInv
<1>. USE <1>a, <1>b, DaemonAssumption DEF DaemonStates, CommandStates, AtC, AtD, OneAtATime,
                                          Settled, Running, Alive, Matched, DaemonTokens,
                                          SameSetting, GoC
<1>1. CASE ReadToken(i)
    BY <1>1, ReadStep
<1>2. CASE WriteNew(i)
    BY <1>2 DEF WriteNew
<1>3. CASE Probe(i)
    BY <1>3 DEF Probe, Good, Ready, Up, Serving, Refused, Listening
<1>4. CASE Fallback(i)
    BY <1>4 DEF Fallback, Ready, Up, Serving, Refused, Listening
<1>5. CASE Shutdown(i)
    BY <1>5, ShutdownStep
<1>6. CASE WaitStop(i)
    BY <1>6 DEF WaitStop, Gone, Refused, Listening, Up
<1>7. CASE KillRegistered(i)
    BY <1>7 DEF KillRegistered, GoD
<1>8. CASE Killed(i)
    BY <1>8 DEF Killed
<1>9. CASE Spawn(i)
    BY <1>9, SpawnStep
<1>10. CASE Wait(i)
    BY <1>10 DEF Wait, Good, Answered, Ready, Up, Serving
<1>11. CASE Clear(i)
    BY <1>11 DEF Clear
<1>. QED  BY <1>1, <1>2, <1>3, <1>4, <1>5, <1>6, <1>7, <1>8, <1>9, <1>10, <1>11 DEF Proceed

\* The daemon that a command starts is given the command's token, which is not empty
\* with authentication.
LEMMA ProceedCarried ==
    ASSUME Matched, NEW i \in Commands, Proceed(i)
    PROVE  Carried'
<1>a. /\ daemon \in [Daemons -> DaemonStates] /\ cmd \in [Commands -> CommandStates]
      /\ token \in Tokens /\ socket \in Daemons \union {NoDaemon}
    BY DEF Matched, Alone, TypeInv, TypeOK
<1>b. TypeInv /\ CommandsSound /\ FreshDaemons /\ OneAtATime /\ SocketOwned
    BY DEF Matched, Alone, TypeInv
<1>. USE <1>a, <1>b, DaemonAssumption DEF DaemonStates, CommandStates, AtC, AtD, OneAtATime,
                                          SocketOwned, NobodyBound, Bound, Settled, Running,
                                          Matched, DaemonTokens, GoC, FirstComer, SameSetting,
                                          Carried, Alive, CommandsSound, CommandTokens
<1>1. CASE ReadToken(i)
    BY <1>1, ReadStep
<1>2. CASE WriteNew(i)
    BY <1>2 DEF WriteNew
<1>3. CASE Probe(i)
    BY <1>3 DEF Probe, Good, Ready, Up, Serving, Refused, Listening
<1>4. CASE Fallback(i)
    BY <1>4 DEF Fallback, Ready, Up, Serving, Refused, Listening
<1>5. CASE Shutdown(i)
    BY <1>5, ShutdownStep
<1>6. CASE WaitStop(i)
    BY <1>6 DEF WaitStop, Gone, Refused, Listening, Up
<1>7. CASE KillRegistered(i)
    BY <1>7 DEF KillRegistered, GoD
<1>8. CASE Killed(i)
    BY <1>8 DEF Killed
<1>9. CASE Spawn(i)
    BY <1>9, SpawnStep
<1>10. CASE Wait(i)
    BY <1>10 DEF Wait, Good, Answered, Ready, Up, Serving
<1>11. CASE Clear(i)
    BY <1>11 DEF Clear
<1>. QED  BY <1>1, <1>2, <1>3, <1>4, <1>5, <1>6, <1>7, <1>8, <1>9, <1>10, <1>11 DEF Proceed

\* What a command knows of the token and of the daemon, place by place.
LEMMA ProceedCommands ==
    ASSUME Matched, NEW i \in Commands, Proceed(i)
    PROVE  CommandTokens'
<1>a. /\ daemon \in [Daemons -> DaemonStates] /\ cmd \in [Commands -> CommandStates]
      /\ token \in Tokens /\ socket \in Daemons \union {NoDaemon}
    BY DEF Matched, Alone, TypeInv, TypeOK
<1>b. TypeInv /\ CommandsSound /\ FreshDaemons /\ OneAtATime /\ SocketOwned
    BY DEF Matched, Alone, TypeInv
<1>. USE <1>a, <1>b, DaemonAssumption DEF DaemonStates, CommandStates, AtC, AtD, OneAtATime,
                                          SocketOwned, NobodyBound, Bound, Settled, Running,
                                          Matched, DaemonTokens, Accepts, GoC, FirstComer,
                                          ServesFile, Carried, CommandsSound, CommandTokens
<1>1. CASE ReadToken(i)
    BY <1>1, ReadStep
<1>2. CASE WriteNew(i)
    BY <1>2 DEF WriteNew
<1>3. CASE Probe(i)
    BY <1>3 DEF Probe, Good, Ready, Up, Serving, Refused, Listening
<1>4. CASE Fallback(i)
    BY <1>4 DEF Fallback, Ready, Up, Serving, Refused, Listening
<1>5. CASE Shutdown(i)
  <2>1. /\ \A d \in Daemons : /\ daemon'[d].pc = daemon[d].pc
                              /\ daemon'[d].token = daemon[d].token
                              /\ daemon[d].stopping => daemon'[d].stopping
        /\ UNCHANGED <<token, socket>> /\ cmd[i].pc = "shutdown"
    BY <1>5, ShutdownStep
  <2>2. CASE GoC(i, "failed")
    BY <2>1, <2>2
  <2>3. CASE GoC(i, "waitstop") /\ Refused
    <3>1. NobodyBound
        BY <2>1, <2>3, RefusedMeansNobody
    <3>. QED  BY <2>1, <2>3, <3>1
  <2>4. CASE GoC(i, "waitstop") /\ Up /\ (Heard(socket) => daemon'[socket].stopping)
    <3>1. socket \in Daemons /\ AtD(socket, "ready")
        BY <2>1, <2>4 DEF Up, Serving
    <3>2. daemon'[socket].stopping
        BY <2>4, <3>1 DEF Heard
    <3>. QED  BY <2>1, <2>4, <3>1, <3>2
  <2>. QED  BY <1>5, <2>2, <2>3, <2>4, ShutdownStep
<1>6. CASE WaitStop(i)
    BY <1>6 DEF WaitStop, Gone, Refused, Listening, Up
<1>7. CASE KillRegistered(i)
    BY <1>7 DEF KillRegistered, GoD
<1>8. CASE Killed(i)
    BY <1>8 DEF Killed
<1>9. CASE Spawn(i)
    BY <1>9, SpawnStep
<1>10. CASE Wait(i)
    BY <1>10 DEF Wait, Good, Answered, Ready, Up, Serving
<1>11. CASE Clear(i)
    BY <1>11 DEF Clear
<1>. QED  BY <1>1, <1>2, <1>3, <1>4, <1>5, <1>6, <1>7, <1>8, <1>9, <1>10, <1>11 DEF Proceed

\* The daemon that a command starts is the one that it waits for (StartAndWait,
\* ensureDaemonAvailable).
LEMMA ProceedComing ==
    ASSUME Matched, NEW i \in Commands, Proceed(i)
    PROVE  Expected'
<1>a. /\ daemon \in [Daemons -> DaemonStates] /\ cmd \in [Commands -> CommandStates]
      /\ token \in Tokens /\ socket \in Daemons \union {NoDaemon}
    BY DEF Matched, Alone, TypeInv, TypeOK
<1>b. TypeInv /\ CommandsSound /\ FreshDaemons /\ OneAtATime /\ SocketOwned
    BY DEF Matched, Alone, TypeInv
<1>. USE <1>a, <1>b, DaemonAssumption DEF DaemonStates, CommandStates, AtC, AtD, OneAtATime,
                                          SocketOwned, NobodyBound, Bound, Settled, Running,
                                          Matched, DaemonTokens, GoC, Fault, NoFault, Disturb,
                                          CommandTokens, Expected, Coming, FreshDaemons
<1>1. CASE ReadToken(i)
    BY <1>1, ReadStep
<1>2. CASE WriteNew(i)
    BY <1>2 DEF WriteNew
<1>3. CASE Probe(i)
    BY <1>3 DEF Probe, Good, Ready, Up, Serving, Refused, Listening
<1>4. CASE Fallback(i)
    BY <1>4 DEF Fallback, Ready, Up, Serving, Refused, Listening
<1>5. CASE Shutdown(i)
    BY <1>5, ShutdownStep
<1>6. CASE WaitStop(i)
    BY <1>6 DEF WaitStop, Gone, Refused, Listening, Up
<1>7. CASE KillRegistered(i)
    BY <1>7 DEF KillRegistered, GoD
<1>8. CASE Killed(i)
    BY <1>8 DEF Killed
<1>9. CASE Spawn(i)
    BY <1>9, SpawnStep
<1>10. CASE Wait(i)
    BY <1>10 DEF Wait, Good, Answered, Ready, Up, Serving
<1>11. CASE Clear(i)
    BY <1>11 DEF Clear
<1>. QED  BY <1>1, <1>2, <1>3, <1>4, <1>5, <1>6, <1>7, <1>8, <1>9, <1>10, <1>11 DEF Proceed

\* A web process starts with the setting of those that are alive, a command with
\* what it reads of the token file; one that is killed disturbs the command under way.
LEMMA BeginMatched ==
    ASSUME ~Overlap, ~Mixed, Matched,
           \/ \E p \in Daemons : Autostart(p) \/ Crash(p)
           \/ \E i \in Commands : Invoke(i)
    PROVE  DaemonTokens' /\ CommandTokens' /\ Expected'
<1>a. /\ daemon \in [Daemons -> DaemonStates] /\ cmd \in [Commands -> CommandStates]
      /\ token \in Tokens /\ socket \in Daemons \union {NoDaemon}
    BY DEF Matched, Alone, TypeInv, TypeOK
<1>b. /\ TypeInv /\ FreshDaemons /\ OneAtATime /\ SocketOwned
      /\ DaemonTokens /\ CommandTokens /\ Expected
    BY DEF Matched, Alone, TypeInv
<1>. USE <1>a, <1>b, DaemonAssumption DEF DaemonStates, CommandStates, AtC, AtD
<1>1. ASSUME NEW p \in Daemons, Autostart(p)
      PROVE  DaemonTokens' /\ CommandTokens' /\ Expected'
  <2>1. Calm /\ daemon[p].pc = "idle" /\ UNCHANGED <<token, socket, cmd, disturbed>>
    BY <1>1 DEF Autostart, NoFault
  <2>2. PICK n \in NoAuths :
            /\ Agreed(n, TRUE)
            /\ daemon' = [daemon EXCEPT ![p] =
                             [@ EXCEPT !.pc = "env", !.kind = "web", !.noAuth = n]]
    BY <1>1 DEF Autostart
  <2>3. n \in BOOLEAN
    BY DaemonAssumption
  <2>4. /\ daemon'[p].pc = "env" /\ daemon'[p].kind = "web" /\ daemon'[p].noAuth = n
        /\ \A d \in Daemons : d # p => daemon'[d] = daemon[d]
    BY <2>2, <2>3
  <2>5. \A d \in Daemons : Alive(d) => daemon[d].noAuth = n
    BY <2>2 DEF Agreed
  <2>. HIDE DEF AtD, AtC
  <2>6. ServesFile' /\ FirstComer'
    BY <2>1, <2>4 DEF DaemonTokens, ServesFile, FirstComer, Bound, Accepts, Settled, Calm
  <2>7. SameSetting'
    BY <2>1, <2>4, <2>5 DEF SameSetting, Alive, Settled, Calm
  <2>8. Carried'
    BY <2>1, <2>4 DEF DaemonTokens, Carried, NobodyBound, Bound, Alive, AtD
  <2>9. CommandTokens'
    BY <2>1, <2>4 DEF CommandTokens, NobodyBound, Bound, Settled, Calm, Running, AtC, AtD
  <2>10. Expected'
    BY <2>1 DEF Expected, Calm, Running, AtC
  <2>. QED  BY <2>6, <2>7, <2>8, <2>9, <2>10 DEF DaemonTokens
<1>2. ASSUME NEW p \in Daemons, Crash(p)
      PROVE  DaemonTokens' /\ CommandTokens' /\ Expected'
  <2>. USE <1>2 DEF Crash, GoD
  <2>1. ServesFile' /\ FirstComer'
    BY DEF DaemonTokens, ServesFile, FirstComer, Bound, Accepts, Settled
  <2>2. SameSetting'
    BY DEF DaemonTokens, SameSetting, Alive, Settled
  <2>3. Carried'
    BY DEF DaemonTokens, Carried, NobodyBound, Bound, Alive
  <2>4. CommandTokens'
    BY DEF CommandTokens, NobodyBound, Bound, Settled
  <2>5. Expected'
    BY DEF Expected, Disturb, Running
  <2>. QED  BY <2>1, <2>2, <2>3, <2>4, <2>5 DEF DaemonTokens
<1>3. ASSUME NEW i \in Commands, Invoke(i)
      PROVE  DaemonTokens' /\ CommandTokens' /\ Expected'
  <2>1. Calm /\ UNCHANGED <<token, socket, daemon, disturbed>>
    BY <1>3 DEF Invoke, NoFault
  <2>2. PICK k \in Kinds, n \in NoAuths :
            LET quiet == k # "stop" /\ n IN
            /\ Agreed(n, FALSE)
            /\ cmd' = [cmd EXCEPT ![i] =
                    [pc |-> IF k = "stop" THEN "shutdown" ELSE IF n THEN "probe" ELSE "token",
                     kind |-> k, noAuth |-> quiet,
                     token |-> IF k = "stop" THEN token ELSE NoToken,
                     fallback |-> IF quiet THEN token ELSE NoToken]]
    BY <1>3 DEF Invoke
  <2>3. \A c \in Commands : c # i => cmd'[c] = cmd[c] /\ ~Running(c)
    BY <2>1, <2>2 DEF Calm
  <2>4. \/ /\ cmd'[i].pc = "shutdown" /\ cmd'[i].kind = "stop" /\ cmd'[i].token = token
        \/ /\ cmd'[i].pc = "probe" /\ cmd'[i].noAuth /\ cmd'[i].fallback = token
        \/ /\ cmd'[i].pc = "token" /\ cmd'[i].fallback = NoToken
    BY <2>2
  <2>5. CommandTokens'
    BY <2>1, <2>3, <2>4 DEF CommandTokens, NobodyBound, Bound, Settled, Running
  <2>6. Expected'
    BY <2>1, <2>3, <2>4 DEF Expected, Running
  <2>7. DaemonTokens'
    BY <2>1 DEF DaemonTokens, ServesFile, FirstComer, SameSetting, Carried, NobodyBound, Bound,
                Alive, Accepts, Settled
  <2>. QED  BY <2>5, <2>6, <2>7
<1>. QED  BY <1>1, <1>2, <1>3

\* Matched holds in every state when commands do not overlap and the no-auth setting
\* stays while a web process lives.
LEMMA MatchedInvariant ==
    ASSUME ~Overlap, ~Mixed
    PROVE  Spec => []Matched
<1>1. Init /\ Alone => Matched
    BY DEF Init, Matched, DaemonTokens, ServesFile, FirstComer, SameSetting, Carried, CommandTokens,
           Expected, NobodyBound, Bound, Settled, Alive, AtC, AtD
<1>2. Matched /\ Alone' /\ [Next]_vars => Matched'
  <2>. SUFFICES ASSUME Matched, Alone', [Next]_vars PROVE Matched'
    OBVIOUS
  <2>1. CASE UNCHANGED vars
    BY <2>1 DEF vars, Matched, DaemonTokens, ServesFile, FirstComer, SameSetting, Carried,
                CommandTokens, Expected, Coming, Accepts, NobodyBound, Bound, Settled, Alive, AtC, AtD
  <2>2. ASSUME NEW p \in Daemons, Run(p)
        PROVE  DaemonTokens' /\ CommandTokens' /\ Expected'
    BY <2>2, RunServes, RunFirst, RunSetting, RunCarried, RunCommands, RunComing DEF DaemonTokens
  <2>3. ASSUME NEW i \in Commands, Proceed(i)
        PROVE  DaemonTokens' /\ CommandTokens' /\ Expected'
    BY <2>3, ProceedServes, ProceedFirst, ProceedSetting, ProceedCarried, ProceedCommands,
       ProceedComing DEF DaemonTokens
  <2>4. CASE Next
    <3>1. DaemonTokens' /\ CommandTokens' /\ Expected'
        BY <2>2, <2>3, <2>4, BeginMatched DEF Next
    <3>. QED  BY <3>1 DEF Matched
  <2>. QED  BY <2>1, <2>4
<1>. QED  BY <1>1, <1>2, AloneInvariant, PTL DEF Spec

\* One command at a time: when nothing is starting or under way, the token in the
\* file opens the daemon that serves (ResolveOrCreateToken, ensureToken); it does so
\* all the time that a daemon serves.
THEOREM TokenOpensDaemon ==
    ASSUME ~Overlap, ~Mixed
    PROVE  Spec => []TokenAgrees
<1>1. Matched => TokenAgrees
    BY DEF Matched, DaemonTokens, ServesFile, TokenAgrees, Bound, Serving
<1>. QED  BY <1>1, MatchedInvariant, PTL

\* A start, or an MCP server, that waits for the daemon it started finds it when
\* every process has settled (StartAndWait, ensureDaemonAvailable).
LEMMA AnsweredInTime ==
    ASSUME Matched, NEW c \in Commands, AtC(c, "wait"), c \notin disturbed, Late
    PROVE  Answered(c)
<1>1. PICK d \in Daemons :
          /\ daemon[d].pc \in {"auth", "open", "lstat", "dial", "remove", "bind",
                               "listen", "chmod", "serve", "ready"}
          /\ daemon[d].token = cmd[c].token
    BY DEF Matched, Expected, Coming
<1>2. daemon[d].pc = "ready"
    BY <1>1 DEF Late, Settled
<1>3. socket = d /\ d # NoDaemon
    BY <1>2, DaemonAssumption DEF Matched, Alone, SocketOwned, Bound
<1>. QED  BY <1>1, <1>2, <1>3 DEF Answered, Ready, Up, Serving, Accepts

\* One command at a time: a start, and an MCP server, succeed whatever was left
\* behind, unless an operation fails or a daemon is killed meanwhile.
THEOREM StartSucceeds ==
    ASSUME ~Overlap, ~Mixed
    PROVE  Spec => StartWorks
<1>1. ASSUME Matched, [Next]_vars, NEW c \in Commands, cmd[c].kind # "stop", Running(c),
             AtC(c, "failed")'
      PROVE  c \in disturbed'
  <2>a. /\ cmd \in [Commands -> CommandStates]
        /\ cmd[c].pc \notin {"idle", "ok", "failed"} /\ cmd'[c].pc = "failed"
    BY <1>1 DEF Matched, Alone, TypeInv, TypeOK, Running, AtC
  <2>1. PICK i \in Commands : Invoke(i) \/ Proceed(i)
    BY <1>1, <2>a DEF Next, vars, Autostart, Crash, Run, ReadEnv, Authenticate, WriteToken,
          OpenEngine, Lstat, Dial, RemoveStale, Bind, Listen, Chmod, SetShutdown, Stopped
  <2>2. Running(i)
    BY <1>1, <2>1 DEF Running, Invoke, Calm, AtC, Proceed, ReadToken, WriteNew, Probe, Fallback,
          Shutdown, WaitStop, KillRegistered, Killed, Spawn, Wait, Clear
  <2>3. Proceed(c)
    BY <1>1, <2>1, <2>2 DEF Matched, Alone, OneAtATime, Invoke, Running, AtC
  <2>b. \A l : GoC(c, l) => l = "failed"
    BY <2>a DEF GoC, CommandStates
  <2>c. Fault => c \in disturbed'
    BY <1>1 DEF Fault, Disturb
  <2>4. CASE ReadToken(c)
    BY <1>1, <2>a, <2>4, ReadStep DEF Matched, Alone
  <2>5. CASE WriteNew(c)
    BY <2>5, <2>b, <2>c DEF WriteNew
  <2>6. CASE Probe(c)
    BY <2>6, <2>b DEF Probe, Good
  <2>7. CASE Fallback(c)
    BY <2>7, <2>b DEF Fallback
  <2>8. CASE Shutdown(c)
    <3>1. token = cmd[c].fallback
        BY <1>1, <2>8 DEF Matched, CommandTokens, Shutdown
    <3>2. Up => Ready(cmd[c].fallback)
        BY <1>1, <3>1, DaemonAssumption
           DEF Matched, Alone, TypeInv, TypeOK, DaemonTokens, ServesFile, Bound, Up, Serving, Ready
    <3>. QED  BY <1>1, <2>8, <2>b, <2>c, <3>2 DEF Shutdown
  <2>9. CASE WaitStop(c)
    <3>1. Up => daemon[socket].stopping
        BY <1>1, <2>9
           DEF Matched, Alone, TypeInv, TypeOK, CommandTokens, WaitStop, Bound, Up, Serving
    <3>. QED  BY <1>1, <2>9, <2>b, <2>c, <3>1 DEF WaitStop
  <2>10. CASE KillRegistered(c) \/ Killed(c)
    BY <1>1, <2>10 DEF Matched, Alone, TypeInv, CommandsSound, KillRegistered, Killed
  <2>11. CASE Spawn(c)
    BY <2>11, <2>b, <2>c DEF Spawn
  <2>12. CASE Wait(c)
    BY <1>1, <2>12, <2>b, AnsweredInTime DEF Wait, Good, NoFault
  <2>13. CASE Clear(c)
    BY <2>13, <2>b DEF Clear
  <2>. QED  BY <2>3, <2>4, <2>5, <2>6, <2>7, <2>8, <2>9, <2>10, <2>11, <2>12, <2>13 DEF Proceed
<1>2. Matched /\ [Next]_vars =>
          [\A c \in Commands :
              cmd[c].kind # "stop" /\ Running(c) /\ AtC(c, "failed")' => c \in disturbed']_vars
    BY <1>1
<1>. QED  BY <1>2, MatchedInvariant, PTL DEF Spec, StartWorks
=============================================================================
