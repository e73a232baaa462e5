---------------------------- MODULE DaemonLifecycle ----------------------------
(***************************************************************************)
(* Starting and stopping the artifact daemon: "ccsubagents daemon start"   *)
(* and "stop", the MCP server, which starts a daemon when none answers,    *)
(* the daemon itself (daemon.Run), and the web process, which runs the     *)
(* same code and serves the API too when nobody else does.                 *)
(*                                                                         *)
(* They meet in two files of the state directory: daemon.token, which      *)
(* clients read and which every starting process writes, and the Unix      *)
(* socket, which a starting daemon removes when nobody answers on it.      *)
(* Every step is one access to one of them.  A token is named after the    *)
(* process that generated it.                                              *)
(***************************************************************************)
EXTENDS Naturals, FiniteSets

CONSTANTS
    Commands,    \* invocations of the command line and MCP servers
    Daemons,     \* daemon and web processes
    NoDaemon,    \* no socket file
    NoToken,     \* an empty or missing token file, or no authentication
    Kinds,       \* what the commands do
    NoAuths,     \* values the no-auth setting has over time
    Overlap,     \* whether a command is invoked while others are under way
    Mixed,       \* whether the setting changes while a web process lives
    MaxWebs,     \* web processes that are started
    MaxCrashes,  \* daemons that are killed
    MaxFaults    \* operations that fail

ASSUME DaemonAssumption ==
    /\ NoDaemon \notin Daemons
    /\ NoToken \notin Commands \union Daemons
    /\ Commands \intersect Daemons = {}
    /\ Kinds \subseteq {"start", "mcp", "stop"}
    /\ NoAuths \subseteq BOOLEAN /\ NoAuths # {}
    /\ Overlap \in BOOLEAN /\ Mixed \in BOOLEAN
    /\ MaxWebs \in Nat /\ MaxCrashes \in Nat /\ MaxFaults \in Nat

VARIABLES
    token,      \* the token file
    socket,     \* the daemon whose listener the socket file belongs to
    daemon,     \* the state of each daemon or web process
    cmd,        \* the state of each command
    crashes,    \* daemons killed so far
    faults,     \* operations failed so far
    disturbed   \* commands during which a daemon was killed or an operation failed

vars == <<token, socket, daemon, cmd, crashes, faults, disturbed>>

Tokens == Commands \union Daemons \union {NoToken}

DaemonPlaces ==
    {"idle", "env", "auth", "write", "open", "lstat", "dial", "remove", "bind",
     "listen", "chmod", "serve", "ready", "webonly", "exited", "crashed"}

CommandPlaces ==
    {"idle", "token", "reread", "write", "probe", "fallback", "shutdown", "waitstop",
     "kill", "spawn", "wait", "clear", "ok", "failed"}

GoD(d, l) == daemon' = [daemon EXCEPT ![d].pc = l]
AtD(d, l) == daemon[d].pc = l
GoC(c, l) == cmd' = [cmd EXCEPT ![c].pc = l]
AtC(c, l) == cmd[c].pc = l

DaemonStates ==
    [pc: DaemonPlaces, kind: {"api", "web"}, noAuth: BOOLEAN, token: Tokens, stopping: BOOLEAN]

CommandStates ==
    [pc: CommandPlaces, kind: Kinds \union {"none"}, noAuth: BOOLEAN, token: Tokens,
     fallback: Tokens]

TypeOK ==
    /\ token \in Tokens
    /\ socket \in Daemons \union {NoDaemon}
    /\ daemon \in [Daemons -> DaemonStates]
    /\ cmd \in [Commands -> CommandStates]
    /\ \A d \in Daemons : daemon[d].noAuth /\ ~AtD(d, "env") => daemon[d].token = NoToken
    /\ crashes \in 0 .. MaxCrashes /\ faults \in 0 .. MaxFaults
    /\ disturbed \subseteq Commands

Init ==
    /\ token = NoToken /\ socket = NoDaemon
    /\ daemon = [d \in Daemons |-> [pc |-> "idle", kind |-> "api", noAuth |-> FALSE,
                                    token |-> NoToken, stopping |-> FALSE]]
    /\ cmd = [c \in Commands |-> [pc |-> "idle", kind |-> "none", noAuth |-> FALSE,
                                  token |-> NoToken, fallback |-> NoToken]]
    /\ crashes = 0 /\ faults = 0 /\ disturbed = {}

-----------------------------------------------------------------------------
Running(c)   == cmd[c].pc \notin {"idle", "ok", "failed"}
Settled(d)   == daemon[d].pc \in {"idle", "ready", "webonly", "exited", "crashed"}
Listening(d) == daemon[d].pc \in {"chmod", "serve", "ready"}
Serving(d)   == daemon[d].pc \in {"serve", "ready"}

\* What a client finds at the socket's path: nobody, or a daemon that answers.
\* (Neither: a daemon that is not serving yet, on which a request waits.)
Refused == socket # NoDaemon => ~Listening(socket)
Up      == socket # NoDaemon /\ Serving(socket)

Accepts(d, t) == daemon[d].token \in {NoToken, t}
Ready(t) == Up /\ Accepts(socket, t)

\* An operation fails, which is counted, and noted for the commands under way.
Disturb == disturbed' = disturbed \union {c \in Commands : Running(c)}
Fault == faults < MaxFaults /\ faults' = faults + 1 /\ Disturb
NoFault == UNCHANGED <<faults, disturbed>>

-----------------------------------------------------------------------------
(***************************************************************************)
(* daemon.Run.                                                             *)
(***************************************************************************)
\* Without overlap, what one command began has ended when the next begins.
Calm ==
    /\ \A c \in Commands : ~Running(c)
    /\ \A d \in Daemons : Settled(d) /\ (AtD(d, "ready") => ~daemon[d].stopping)

\* Unless settings are mixed, the no-auth setting changes only after the web
\* processes have ended, and those that start find no process of the other one.
Alive(d) == daemon[d].pc \notin {"idle", "exited", "crashed"}

Agreed(n, web) ==
    Mixed \/ \A d \in Daemons :
                Alive(d) /\ (web \/ daemon[d].kind = "web") => daemon[d].noAuth = n

\* A web process is started; its token comes from the token file.
Autostart(d) ==
    /\ AtD(d, "idle")
    /\ Overlap \/ Calm
    /\ Cardinality({e \in Daemons : daemon[e].kind = "web"}) < MaxWebs
    /\ \E n \in NoAuths :
          /\ Agreed(n, TRUE)
          /\ daemon' = [daemon EXCEPT ![d] =
                           [@ EXCEPT !.pc = "env", !.kind = "web", !.noAuth = n]]
    /\ UNCHANGED <<token, socket, cmd, crashes>> /\ NoFault

ReadEnv(d) ==
    /\ AtD(d, "env")
    /\ daemon' = [daemon EXCEPT ![d] =
                     [@ EXCEPT !.pc = "auth",
                               !.token = IF daemon[d].noAuth THEN NoToken ELSE token]]
    /\ UNCHANGED <<token, socket, cmd, crashes>> /\ NoFault

\* Mutations: a token is generated whatever was given; with no-auth too.
GenerateAlways(d)     == ~daemon[d].noAuth
GenerateRegardless(d) == daemon[d].token = NoToken /\ token = NoToken

\* The token: none, the one given, the file's, or a new one.
Generate(d) == ~daemon[d].noAuth /\ daemon[d].token = NoToken /\ token = NoToken

Authenticate(d) ==
    /\ AtD(d, "auth")
    /\ IF Generate(d)
       THEN /\ daemon' = [daemon EXCEPT ![d] = [@ EXCEPT !.pc = "write", !.token = d]]
            /\ UNCHANGED token
       ELSE LET given == daemon[d].token
                t == IF daemon[d].noAuth \/ given # NoToken THEN given ELSE token IN
            /\ token' = t
            /\ daemon' = [daemon EXCEPT ![d] = [@ EXCEPT !.pc = "open", !.token = t]]
    /\ UNCHANGED <<socket, cmd, crashes>> /\ NoFault

WriteToken(d) ==
    /\ AtD(d, "write")
    /\ token' = daemon[d].token
    /\ GoD(d, "open")
    /\ UNCHANGED <<socket, cmd, crashes>> /\ NoFault

OpenEngine(d) ==
    /\ AtD(d, "open")
    /\ \/ GoD(d, "lstat") /\ NoFault
       \/ GoD(d, "exited") /\ Fault
    /\ UNCHANGED <<token, socket, cmd, crashes>>

\* cleanupStaleSocket and net.Listen: five accesses to the path.
Lstat(d) ==
    /\ AtD(d, "lstat")
    /\ GoD(d, IF socket = NoDaemon THEN "bind" ELSE "dial")
    /\ UNCHANGED <<token, socket, cmd, crashes>> /\ NoFault

\* Mutation: a socket file is taken for stale without a dial.
StaleUndialled == TRUE

Stale == Refused

Dial(d) ==
    /\ AtD(d, "dial")
    /\ GoD(d, IF Stale THEN "remove"
              ELSE IF daemon[d].kind = "web" THEN "webonly" ELSE "exited")
    /\ UNCHANGED <<token, socket, cmd, crashes>> /\ NoFault

RemoveStale(d) ==
    /\ AtD(d, "remove")
    /\ socket' = NoDaemon
    /\ GoD(d, "bind")
    /\ UNCHANGED <<token, cmd, crashes>> /\ NoFault

Bind(d) ==
    /\ AtD(d, "bind")
    /\ IF socket = NoDaemon
       THEN socket' = d /\ GoD(d, "listen")
       ELSE GoD(d, "exited") /\ UNCHANGED socket
    /\ UNCHANGED <<token, cmd, crashes>> /\ NoFault

Listen(d) ==
    /\ AtD(d, "listen")
    /\ GoD(d, "chmod")
    /\ UNCHANGED <<token, socket, cmd, crashes>> /\ NoFault

\* A listener that closes unlinks the path, whoever's file is there by then.
Close(d) == GoD(d, "exited") /\ socket' = NoDaemon

Chmod(d) ==
    /\ AtD(d, "chmod")
    /\ \/ socket # NoDaemon /\ GoD(d, "serve") /\ UNCHANGED socket /\ NoFault
       \/ socket = NoDaemon /\ Close(d) /\ NoFault
       \/ Close(d) /\ Fault
    /\ UNCHANGED <<token, cmd, crashes>>

\* Requests are served from here on; a shutdown request is heard only after
\* SetShutdownFunc.
SetShutdown(d) ==
    /\ AtD(d, "serve")
    /\ GoD(d, "ready")
    /\ UNCHANGED <<token, socket, cmd, crashes>> /\ NoFault

\* Shut down on request; or the web listener of a web process fails.
Stopped(d) ==
    /\ \/ AtD(d, "ready") /\ Close(d)
       \/ AtD(d, "webonly") /\ GoD(d, "exited") /\ UNCHANGED socket
    /\ \/ daemon[d].stopping /\ NoFault
       \/ daemon[d].kind = "web" /\ Fault
    /\ UNCHANGED <<token, cmd, crashes>>

\* Killed: the socket file stays.
Crash(d) ==
    /\ daemon[d].pc \notin {"idle", "exited", "crashed"}
    /\ crashes < MaxCrashes
    /\ crashes' = crashes + 1
    /\ GoD(d, "crashed")
    /\ Disturb
    /\ UNCHANGED <<token, socket, cmd, faults>>

Run(d) ==
    \/ ReadEnv(d) \/ Authenticate(d) \/ WriteToken(d) \/ OpenEngine(d)
    \/ Lstat(d) \/ Dial(d) \/ RemoveStale(d) \/ Bind(d) \/ Listen(d) \/ Chmod(d)
    \/ SetShutdown(d) \/ Stopped(d)

-----------------------------------------------------------------------------
(***************************************************************************)
(* The commands: StartAndWait ("start"), ensureDaemonAvailable ("mcp") and *)
(* the stop command ("stop").                                              *)
(***************************************************************************)
Invoke(c) ==
    /\ AtC(c, "idle")
    /\ Overlap \/ Calm
    /\ \E k \in Kinds, n \in NoAuths :
          LET quiet == k # "stop" /\ n IN
          /\ Agreed(n, FALSE)
          /\ cmd' = [cmd EXCEPT ![c] =
                    [pc |-> IF k = "stop" THEN "shutdown" ELSE IF n THEN "probe" ELSE "token",
                     kind |-> k, noAuth |-> quiet,
                     token |-> IF k = "stop" THEN token ELSE NoToken,
                     fallback |-> IF quiet THEN token ELSE NoToken]]
    /\ UNCHANGED <<token, socket, daemon, crashes>> /\ NoFault

\* ensureToken takes the token that is there; ResolveOrCreateToken, given it
\* explicitly, writes it again, and reads a second time when there was none.
ReadToken(c) ==
    LET new == IF token = NoToken THEN c ELSE token IN
    /\ \/ AtC(c, "token") /\ cmd[c].kind = "start"
          /\ cmd' = [cmd EXCEPT ![c] = [@ EXCEPT
                        !.token = new, !.pc = IF token = NoToken THEN "write" ELSE "probe"]]
       \/ AtC(c, "token") /\ cmd[c].kind = "mcp"
          /\ cmd' = [cmd EXCEPT ![c] = [@ EXCEPT
                        !.token = token, !.pc = IF token = NoToken THEN "reread" ELSE "write"]]
       \/ AtC(c, "reread")
          /\ cmd' = [cmd EXCEPT ![c] = [@ EXCEPT
                        !.token = new, !.pc = IF token = NoToken THEN "write" ELSE "probe"]]
    /\ UNCHANGED <<token, socket, daemon, crashes>> /\ NoFault

WriteNew(c) ==
    /\ AtC(c, "write")
    /\ \/ token' = cmd[c].token /\ GoC(c, "probe") /\ NoFault
       \/ GoC(c, "failed") /\ Fault /\ UNCHANGED token
    /\ UNCHANGED <<socket, daemon, crashes>>

\* Mutation: the token file is emptied with authentication too.
GoodClears(c) == GoC(c, IF cmd[c].kind = "start" THEN "clear" ELSE "ok")

\* A daemon that answers is good: nothing more to do, but with no-auth the start
\* command still empties the token file.
Good(c) == GoC(c, IF cmd[c].kind = "start" /\ cmd[c].noAuth THEN "clear" ELSE "ok")

Probe(c) ==
    /\ AtC(c, "probe")
    /\ \/ Ready(cmd[c].token) /\ Good(c)
       \/ /\ Refused \/ (Up /\ ~Ready(cmd[c].token))
          /\ GoC(c, IF cmd[c].fallback # NoToken THEN "fallback" ELSE "spawn")
    /\ UNCHANGED <<token, socket, daemon, crashes>> /\ NoFault

\* No-auth, and a daemon with authentication answers: the start command replaces
\* it, the MCP server uses it.
Fallback(c) ==
    /\ AtC(c, "fallback")
    /\ \/ /\ Ready(cmd[c].fallback)
          /\ GoC(c, IF cmd[c].kind = "start" THEN "shutdown" ELSE "ok")
       \/ /\ Refused \/ (Up /\ ~Ready(cmd[c].fallback))
          /\ GoC(c, "spawn")
    /\ UNCHANGED <<token, socket, daemon, crashes>> /\ NoFault

\* Mutation: the request is answered and forgotten.
HeardNever(d) == FALSE

Heard(d) == AtD(d, "ready")

\* The answer is lost when the process ends before it is sent.
Shutdown(c) ==
    LET t == IF cmd[c].kind = "stop" THEN cmd[c].token ELSE cmd[c].fallback IN
    /\ AtC(c, "shutdown")
    /\ \/ Refused /\ GoC(c, "waitstop") /\ UNCHANGED daemon /\ NoFault
       \/ Up /\ ~Ready(t) /\ GoC(c, "failed") /\ UNCHANGED daemon /\ NoFault
       \/ /\ Ready(t)
          /\ daemon' = [daemon EXCEPT ![socket].stopping = @ \/ Heard(socket)]
          /\ \/ GoC(c, "waitstop") /\ NoFault
             \/ GoC(c, "failed") /\ Heard(socket) /\ Fault
    /\ UNCHANGED <<token, socket, crashes>>

\* Mutation: a daemon that still answers counts as stopped.
GoneSoon == TRUE

Gone == Refused

\* Four seconds are enough for a daemon that is stopping, unless the listener
\* that closes resets the connection of the question.
WaitStop(c) ==
    /\ AtC(c, "waitstop")
    /\ \/ Gone /\ GoC(c, IF cmd[c].kind = "stop" THEN "kill" ELSE "spawn") /\ NoFault
       \/ Up /\ ~daemon[socket].stopping /\ GoC(c, "failed") /\ NoFault
       \/ Up /\ daemon[socket].stopping /\ GoC(c, "failed") /\ Fault
    /\ UNCHANGED <<token, socket, daemon, crashes>>

\* The registered web processes and MCP servers are stopped by signals.
KillRegistered(c) ==
    /\ AtC(c, "kill")
    /\ \/ \E d \in Daemons :
             /\ daemon[d].kind = "web" /\ daemon[d].pc \in {"ready", "webonly"}
             /\ GoD(d, "exited")
             /\ socket' = IF AtD(d, "ready") THEN NoDaemon ELSE socket
             /\ UNCHANGED cmd
       \/ \E m \in Commands :
             /\ cmd[m].kind = "mcp" /\ Running(m)
             /\ GoC(m, "failed")
             /\ UNCHANGED <<daemon, socket>>
    /\ UNCHANGED <<token, crashes>> /\ NoFault

Killed(c) ==
    /\ AtC(c, "kill")
    /\ \A d \in Daemons :
          daemon[d].kind = "web" => daemon[d].pc \in {"idle", "exited", "crashed"}
    /\ \A m \in Commands : cmd[m].kind = "mcp" => ~Running(m)
    /\ GoC(c, "ok")
    /\ UNCHANGED <<token, socket, daemon, crashes>> /\ NoFault

Spawn(c) ==
    /\ AtC(c, "spawn")
    /\ \/ /\ \E d \in Daemons :
               /\ AtD(d, "idle")
               /\ daemon' = [daemon EXCEPT ![d] = [@ EXCEPT
                                !.pc = "auth", !.noAuth = cmd[c].noAuth, !.token = cmd[c].token]]
          /\ GoC(c, "wait") /\ NoFault
       \/ GoC(c, "failed") /\ Fault /\ UNCHANGED daemon
    /\ UNCHANGED <<token, socket, crashes>>

Answered(c) ==
    \/ Ready(cmd[c].token)
    \/ cmd[c].kind = "mcp" /\ cmd[c].fallback # NoToken /\ Ready(cmd[c].fallback)

\* Mutation: no deadline.
NeverLate == FALSE

\* Eight seconds are enough for every process that is starting.
Late == \A d \in Daemons : Settled(d)

Wait(c) ==
    /\ AtC(c, "wait")
    /\ \/ Answered(c) /\ Good(c)
       \/ ~Answered(c) /\ Late /\ GoC(c, "failed")
    /\ UNCHANGED <<token, socket, daemon, crashes>> /\ NoFault

Clear(c) ==
    /\ AtC(c, "clear")
    /\ token' = NoToken
    /\ GoC(c, "ok")
    /\ UNCHANGED <<socket, daemon, crashes>> /\ NoFault

Proceed(c) ==
    \/ ReadToken(c) \/ WriteNew(c) \/ Probe(c) \/ Fallback(c) \/ Shutdown(c) \/ WaitStop(c)
    \/ KillRegistered(c) \/ Killed(c) \/ Spawn(c) \/ Wait(c) \/ Clear(c)

-----------------------------------------------------------------------------
Next ==
    \/ \E d \in Daemons : Autostart(d) \/ Run(d) \/ Crash(d)
    \/ \E c \in Commands : Invoke(c) \/ Proceed(c)

Spec == Init /\ [][Next]_vars

\* Processes run; nobody has to invoke a command or start a web process.
FairSpec ==
    /\ Spec
    /\ \A d \in Daemons : WF_vars(Run(d))
    /\ \A c \in Commands : WF_vars(Proceed(c))

-----------------------------------------------------------------------------
\* One command at a time: two processes never listen at once, and the socket file
\* belongs to the one that listens (Run, listenAPI, cleanupStaleSocket).
OneDaemon == \A d \in Daemons : Listening(d) => socket = d

\* One command at a time: when nothing is starting or under way, the token in the
\* file opens the daemon that serves.  A command may write the file, an earlier
\* daemon may have it in memory, and a web process reads and writes it too.
Quiet == \A c \in Commands : ~Running(c)

TokenAgrees ==
    Quiet /\ (\A d \in Daemons : Settled(d)) =>
        \A d \in Daemons : Serving(d) => Accepts(d, token)

\* One command at a time: "daemon start" and the MCP server succeed whatever was
\* left behind (a socket file, a token, a daemon with the other no-auth setting),
\* unless an operation fails or a daemon is killed meanwhile.
StartWorks ==
    [][\A c \in Commands :
          cmd[c].kind # "stop" /\ Running(c) /\ AtC(c, "failed")' =>
              c \in disturbed']_vars

\* A stop that reports success leaves no process listening.
StopTruth ==
    [][\A c \in Commands :
          cmd[c].kind = "stop" /\ Running(c) /\ AtC(c, "ok")' =>
              \A d \in Daemons : ~Listening(d)']_vars

\* Every command returns, whatever runs beside it.
Returns == \A c \in Commands : Running(c) ~> ~Running(c)

\* A daemon that starts leaves the socket of one that listens (cleanupStaleSocket).
ActiveSocketKept ==
    [][\A d \in Daemons : socket = d /\ Listening(d) /\ Listening(d)' => socket' = d]_vars
=============================================================================
