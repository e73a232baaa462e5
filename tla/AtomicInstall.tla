----------------------------- MODULE AtomicInstall -----------------------------
(***************************************************************************)
(* What a transaction of the installer promises: the managed files change  *)
(* from one release to another in one step, once for each command, and     *)
(* only on behalf of a command that is running.  A command that succeeds   *)
(* has made its change, unless it found nothing to do; a command that      *)
(* fails, or dies, may or may not have made it.  Only an uninstallation    *)
(* goes through a mixture, and it succeeds only when nothing is left.      *)
(***************************************************************************)
EXTENDS Naturals

CONSTANTS Processes, MaxRelease

VARIABLES
    installed,  \* the release of every managed file; 0 when there is none
    state,      \* what has become of each command
    want        \* the release it is to install; 0 when it is to remove what is there

vars == <<installed, state, want>>

Mixture == MaxRelease + 1

Init ==
    /\ installed \in 0 .. MaxRelease
    /\ state = [p \in Processes |-> "idle"]
    /\ want = [p \in Processes |-> 0]

Start(p) ==
    /\ state[p] = "idle"
    /\ state' = [state EXCEPT ![p] = "running"]
    /\ \E r \in 0 .. MaxRelease : want' = [want EXCEPT ![p] = r]
    /\ UNCHANGED installed

Switch(p) ==
    /\ state[p] = "running" /\ want[p] # 0
    /\ state' = [state EXCEPT ![p] = "switched"]
    /\ installed' = want[p]
    /\ UNCHANGED want

Remove(p) ==
    /\ state[p] = "running" /\ want[p] = 0
    /\ installed' \in {0, Mixture}
    /\ UNCHANGED <<state, want>>

Return(p, outcome) ==
    /\ state' = [state EXCEPT ![p] = outcome]
    /\ want' = [want EXCEPT ![p] = 0]
    /\ UNCHANGED installed

Succeed(p) ==
    /\ \/ state[p] = "switched"
       \/ state[p] = "running" /\ want[p] = 0 /\ installed = 0
    /\ Return(p, "ok")

NothingToDo(p) == state[p] = "running" /\ want[p] # 0 /\ Return(p, "ok")

FailOrDie(p) ==
    /\ state[p] \in {"running", "switched"}
    /\ \E outcome \in {"failed", "crashed"} : Return(p, outcome)

Next ==
    \E p \in Processes :
        \/ Start(p) \/ Switch(p) \/ Remove(p)
        \/ Succeed(p) \/ NothingToDo(p) \/ FailOrDie(p)

Spec == Init /\ [][Next]_vars
=============================================================================
