----------------------------- MODULE GuestExec -----------------------------
(***************************************************************************)
(* vm_guest_exec: a request has a shell script run inside the VM by the    *)
(* guest agent and waits for it.                                           *)
(*                                                                         *)
(* Nothing orders the scripts of two requests, and a script does not end   *)
(* with the request that has asked for it: when vm_guest_exec gives up,    *)
(* or the agent is killed, the script runs on.                             *)
(***************************************************************************)
EXTENDS Integers, Sequences

CONSTANTS
    Threads,   \* threads that serve the handlers
    Slots,     \* bound: scripts that the VM runs or has just ended
    None

VARIABLES
    waits,     \* the script each thread waits for
    script     \* the scripts in the VM

exec == <<waits, script>>

-----------------------------------------------------------------------------
(* A script has a kind, an argument, the command it comes to next (at),    *)
(* what its commands have read so far (saw), and a history: alone says     *)
(* that no script which works on the same things was asked for since, and  *)
(* that the VM was not stopped.                                            *)

Rivals == {{"clone"}, {"login", "logout"}, {"install", "configure", "stop"}}

Ended(s)   == script[s] # None /\ script[s].at \in {"ok", "bad"}
Running(s) == script[s] # None /\ script[s].at \notin {"ok", "bad"}
Waited(s)  == \E t \in Threads : waits[t] = s

At(s, kind, label) == script[s] # None /\ script[s].kind = kind /\ script[s].at = label

Go(s, label) ==
    /\ script' = [script EXCEPT ![s].at = label]
    /\ UNCHANGED waits

\* The script has read x.
Reads(s, x, label) ==
    /\ script' = [script EXCEPT ![s].saw = Append(@, x), ![s].at = label]
    /\ UNCHANGED waits

\* A script that has ended is kept for the thread that waits for it.
EndAt(s, label) ==
    /\ script' = [script EXCEPT ![s] = IF Waited(s) THEN [@ EXCEPT !.at = label] ELSE None]
    /\ UNCHANGED waits

\* set -e: a command fails, and the script ends with it.
Breaks(s) == Running(s) /\ EndAt(s, "bad")

\* qm guest exec starts the script.
Launch(t, s, kind, arg, label) ==
    /\ waits[t] = None
    /\ script[s] = None
    /\ waits' = [waits EXCEPT ![t] = s]
    /\ LET others == {p \in Slots : /\ script[p] # None
                                    /\ \E r \in Rivals : {script[p].kind, kind} \subseteq r}
       IN script' = [p \in Slots |->
              IF p = s THEN [kind |-> kind, arg |-> arg, at |-> label, saw |-> <<>>,
                             alone |-> others = {}]
              ELSE IF p \in others THEN [script[p] EXCEPT !.alone = FALSE]
              ELSE script[p]]

\* The thread waits no longer.
Leave(t) ==
    /\ waits' = [waits EXCEPT ![t] = None]
    /\ script' = [script EXCEPT ![waits[t]] = IF Ended(waits[t]) THEN None ELSE @]

\* Mutant of ExitCode: a script without an exit code has done well.
ExitCodeOrZero(s) == IF Ended(s) /\ script[s].at = "bad" THEN 1 ELSE 0

\* data.get('exitcode', -1): a script that runs on has none.
ExitCode(s) ==
    IF ~Ended(s) THEN -1 ELSE IF script[s].at = "ok" THEN 0 ELSE 1

\* The handlers of gh/auth/logout and editor/stop do not look at it.
Unchecked == {"logout", "stop"}
Success(s) == script[s].kind \in Unchecked \/ ExitCode(s) = 0

\* The script has ended or the time-out is over.
Reply(t, ok) ==
    /\ waits[t] # None
    /\ ok = Success(waits[t])
    /\ Leave(t)

\* ProxmoxError (HTTP 502), TimeoutExpired, which nobody catches, or an output
\* that is not what the handler expects.
Lost(t) ==
    /\ waits[t] # None
    /\ Leave(t)

\* The VM is stopped, and every script in it.
Killed ==
    /\ script' = [s \in Slots |->
                     IF Waited(s) THEN [script[s] EXCEPT !.at = IF @ = "ok" THEN "ok" ELSE "bad",
                                                         !.alone = FALSE]
                                  ELSE None]
    /\ UNCHANGED waits

\* The agent is killed, and the VM goes on.
Deserted ==
    /\ waits' = [t \in Threads |-> None]
    /\ script' = [s \in Slots |-> IF Ended(s) THEN None ELSE script[s]]
=============================================================================
