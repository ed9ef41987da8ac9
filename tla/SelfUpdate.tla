----------------------------- MODULE SelfUpdate -----------------------------
(***************************************************************************)
(* POST /v1/admin/self-update: the agent downloads a tarball, writes a     *)
(* script for it and has systemd run that script in a unit of its own,     *)
(* which stops the agent, replaces its code and starts it again.           *)
(*                                                                         *)
(* Requests are served at the same time, each with a temporary file of its *)
(* own but all with one script file and one unit name.  Bash reads the     *)
(* script some time after systemd-run has returned.  Downloads and         *)
(* commands of the script can fail, the agent can die and the host can     *)
(* be rebooted at any point.                                               *)
(***************************************************************************)
EXTENDS Naturals

CONSTANTS
    Threads,   \* threads of the agent that serve the handler
    Names,     \* names that NamedTemporaryFile can give out
    None

VARIABLES
    agent,     \* the process of the agent as systemd sees it
    loaded,    \* the code that process has loaded
    at,        \* where each thread is in its handler
    file,      \* tmp_path of each thread
    tmp,       \* what the temporary file of each name holds
    script,    \* /tmp/steward-update.sh: the tarball that it names
    code,      \* what is under the agent's root
    fit,       \* the venv has the packages that this code needs
    unit,      \* the unit steward-update
    survived,  \* history: a stop has failed, and no update has started the agent since
    broke      \* history: an update could not do what it should

vars == <<agent, loaded, at, file, tmp, script, code, fit, unit, survived, broke>>

-----------------------------------------------------------------------------
(* A tarball is a whole agent, or something else that tar can unpack (its  *)
(* hash is not checked), or cut: read() takes the end of a connection for  *)
(* the end of the file.                                                    *)
Tarballs == {"whole", "other", "cut"}

Codes == [kind : {"whole", "other", "part"}, from : Names \cup {"shipped", None}]
Shipped == [kind |-> "whole", from |-> "shipped"]
Removed == [kind |-> "part", from |-> None]

Steps == {"read", "stop", "stopping", "remove", "unpack", "clean", "pip", "start"}
Units == [step : Steps, tarball : Names \cup {None}]
Queued == [step |-> "read", tarball |-> None]

ASSUME SelfUpdateAssumption ==
    /\ None \notin Names \cup Tarballs \cup Units \cup {"shipped", "blank"}
    /\ {"shipped", "blank"} \cap Names = {}

Init ==
    /\ agent = "up" /\ loaded = Shipped /\ code = Shipped /\ fit = TRUE
    /\ at = [t \in Threads |-> "idle"]
    /\ file = [t \in Threads |-> None]
    /\ tmp = [n \in Names |-> None]
    /\ script = None
    /\ unit = None
    /\ survived = FALSE /\ broke = FALSE

\* systemd starts the agent; without its code or its packages it exits with an
\* error.
Boot(packages) ==
    /\ loaded' = code
    /\ fit' = packages
    /\ agent' = IF code.kind = "whole" /\ packages THEN "up" ELSE "dead"

DropRequests ==
    /\ at' = [t \in Threads |-> "idle"]
    /\ file' = [t \in Threads |-> None]

GoTo(t, label) == at' = [at EXCEPT ![t] = label] /\ UNCHANGED file
Answer(t) == at' = [at EXCEPT ![t] = "idle"] /\ file' = [file EXCEPT ![t] = None]

-----------------------------------------------------------------------------
(* self_update *)

\* NamedTemporaryFile gives a name that no file has.
Request(t) ==
    /\ agent = "up"
    /\ at[t] = "idle"
    /\ \E n \in {m \in Names : tmp[m] = None} :
         /\ tmp' = [tmp EXCEPT ![n] = "cut"]
         /\ file' = [file EXCEPT ![t] = n]
    /\ at' = [at EXCEPT ![t] = "download"]
    /\ UNCHANGED <<agent, loaded, script, code, fit, unit, survived, broke>>

Download(t) ==
    /\ at[t] = "download"
    /\ \E k \in Tarballs : tmp' = [tmp EXCEPT ![file[t]] = k]
    /\ GoTo(t, "open")
    /\ UNCHANGED <<agent, loaded, script, code, fit, unit, survived, broke>>

\* HTTP 502, or the script file cannot be written.  The temporary file stays.
Fails(t) ==
    /\ at[t] \in {"download", "open", "write"}
    /\ Answer(t)
    /\ UNCHANGED <<agent, loaded, tmp, script, code, fit, unit, survived, broke>>

\* write_text: the file is emptied, then written.
OpenScript(t) ==
    /\ at[t] = "open"
    /\ script' = "blank"
    /\ GoTo(t, "write")
    /\ UNCHANGED <<agent, loaded, tmp, code, fit, unit, survived, broke>>

WriteScript(t) ==
    /\ at[t] = "write"
    /\ script' = file[t]
    /\ GoTo(t, "spawn")
    /\ UNCHANGED <<agent, loaded, tmp, code, fit, unit, survived, broke>>

\* systemd-run, which takes the name of the unit only when it is free.  The
\* unit may be there although systemd-run has run into its time-out.
Spawn(t) ==
    /\ at[t] = "spawn"
    /\ unit = None
    /\ unit' = Queued
    /\ broke' = FALSE
    /\ Answer(t)
    /\ UNCHANGED <<agent, loaded, tmp, script, code, fit, survived>>

\* Mutant of SpawnFails: a request that is refused takes its tarball away.
SpawnFailsTidily(t) ==
    /\ at[t] = "spawn"
    /\ tmp' = [tmp EXCEPT ![file[t]] = None]
    /\ Answer(t)
    /\ UNCHANGED <<agent, loaded, script, code, fit, unit, survived, broke>>

\* HTTP 500: the unit of another update is there, or systemd-run fails.
SpawnFails(t) ==
    /\ at[t] = "spawn"
    /\ Answer(t)
    /\ UNCHANGED <<agent, loaded, tmp, script, code, fit, unit, survived, broke>>

-----------------------------------------------------------------------------
(* UPDATE_SCRIPT *)

Step(label) == unit' = [unit EXCEPT !.step = label]
Runs(label) == unit # None /\ unit.step = label

\* Bash reads the script, the block of it as a whole; an empty one is done.
ReadScript ==
    /\ Runs("read")
    /\ unit' = IF script = "blank" THEN None ELSE [step |-> "stop", tarball |-> script]
    /\ UNCHANGED <<agent, loaded, at, file, tmp, script, code, fit, survived, broke>>

\* Mutant of Stop: systemctl stop --no-block.
StopNoBlock ==
    /\ Runs("stop")
    /\ agent' = IF agent = "up" THEN "stopping" ELSE "stopped"
    /\ Step("remove")
    /\ UNCHANGED <<loaded, at, file, tmp, script, code, fit, survived, broke>>

\* systemctl stop: no more requests come in, those that are there go on.
Stop ==
    /\ Runs("stop")
    /\ agent' = "stopping"
    /\ Step("stopping")
    /\ UNCHANGED <<loaded, at, file, tmp, script, code, fit, survived, broke>>

\* It fails, and the script goes on (|| true).
StopFails ==
    /\ Runs("stop")
    /\ Step("remove")
    /\ survived' = TRUE /\ broke' = TRUE
    /\ UNCHANGED <<agent, loaded, at, file, tmp, script, code, fit>>

\* Mutant of Stopped: the script is a child of the agent and ends with it.
StoppedWithChildren ==
    /\ agent = "stopping"
    /\ agent' = "stopped"
    /\ unit' = None
    /\ DropRequests
    /\ UNCHANGED <<loaded, tmp, script, code, fit, survived, broke>>

\* The agent has ended by itself, or died, or was killed in the end; the
\* requests it still had are gone.
Stopped ==
    /\ agent = "stopping"
    /\ agent' = "stopped"
    /\ Step("remove")
    /\ DropRequests
    /\ UNCHANGED <<loaded, tmp, script, code, fit, survived, broke>>

\* rm -rf
Remove ==
    /\ Runs("remove")
    /\ code' = Removed
    /\ Step("unpack")
    /\ UNCHANGED <<agent, loaded, fit, at, file, tmp, script, survived, broke>>

\* tar -xzf. The new code may need other packages.
Unpack ==
    /\ Runs("unpack")
    /\ tmp[unit.tarball] \in {"whole", "other"}
    /\ code' = [kind |-> tmp[unit.tarball], from |-> unit.tarball]
    /\ fit' \in IF code'.kind = "whole" THEN BOOLEAN ELSE {fit}
    /\ Step("clean")
    /\ UNCHANGED <<agent, loaded, at, file, tmp, script, survived, broke>>

\* Mutant of UnpackFails: no set -e.
UnpackFailsOn ==
    /\ Runs("unpack")
    /\ code' = [kind |-> "part", from |-> unit.tarball]
    /\ Step("clean")
    /\ broke' = TRUE
    /\ UNCHANGED <<agent, loaded, fit, at, file, tmp, script, survived>>

\* It fails, with a part unpacked: the script ends (set -e).
UnpackFails ==
    /\ Runs("unpack")
    /\ code' = [kind |-> "part", from |-> unit.tarball]
    /\ unit' = None
    /\ broke' = TRUE
    /\ UNCHANGED <<agent, loaded, fit, at, file, tmp, script, survived>>

\* rm -f of the tarball.
Clean ==
    /\ Runs("clean")
    /\ tmp' = [tmp EXCEPT ![unit.tarball] = None]
    /\ Step("pip")
    /\ UNCHANGED <<agent, loaded, at, file, script, code, fit, survived, broke>>

\* pip install of requirements.txt, which an other tarball does not have.
Pip ==
    /\ Runs("pip")
    /\ fit' = IF code.kind = "whole" THEN TRUE ELSE fit
    /\ Step("start")
    /\ UNCHANGED <<agent, loaded, at, file, tmp, script, code, survived, broke>>

\* It fails, having replaced packages or not, and the script goes on (|| true).
PipFails ==
    /\ Runs("pip")
    /\ code.kind = "whole"
    /\ fit' \in BOOLEAN
    /\ Step("start")
    /\ UNCHANGED <<agent, loaded, at, file, tmp, script, code, survived, broke>>

\* Another command fails: opening the log, the copy of the unit file and
\* daemon-reload before the start included; rm -rf may have removed a part.
CommandFails ==
    /\ unit # None /\ unit.step \in {"stop", "remove", "clean", "start"}
    /\ code' \in IF unit.step = "remove" THEN {code, Removed} ELSE {code}
    /\ unit' = None
    /\ broke' = TRUE
    /\ UNCHANGED <<agent, loaded, fit, at, file, tmp, script, survived>>

\* systemctl start, which leaves an agent that runs as it is.
Start ==
    /\ Runs("start")
    /\ \/ agent \in {"stopped", "dead"} /\ Boot(fit) /\ survived' = FALSE
       \/ agent = "up" /\ UNCHANGED <<agent, loaded, fit, survived>>
    /\ unit' = None
    /\ UNCHANGED <<at, file, tmp, script, code, broke>>

-----------------------------------------------------------------------------
(* The rest of the host *)

\* The agent dies, or one without code is started in vain.
AgentCrash ==
    /\ agent = "up"
    /\ agent' = "dead"
    /\ DropRequests
    /\ UNCHANGED <<loaded, tmp, script, code, fit, unit, survived, broke>>

\* Mutant of AgentRestart: something starts the agent whenever it is down.
AgentRestartAlways ==
    /\ agent \in {"dead", "stopped"}
    /\ Boot(fit)
    /\ UNCHANGED <<at, file, tmp, script, code, unit, survived, broke>>

\* Restart=on-failure
AgentRestart ==
    /\ agent = "dead"
    /\ Boot(fit)
    /\ UNCHANGED <<at, file, tmp, script, code, unit, survived, broke>>

\* The host is rebooted and /tmp emptied; the agent starts from what there is.
Reboot ==
    /\ DropRequests
    /\ \E packages \in IF Runs("pip") THEN BOOLEAN ELSE {fit} : Boot(packages)
    /\ unit' = None
    /\ tmp' = [n \in Names |-> None] /\ script' = None
    /\ survived' = FALSE /\ broke' = TRUE
    /\ UNCHANGED code

\* A temporary file that nothing refers to is removed after some days.
CleanTmp(n) ==
    /\ tmp[n] # None
    /\ n # script /\ \A t \in Threads : file[t] # n
    /\ unit # None => unit.tarball # n
    /\ tmp' = [tmp EXCEPT ![n] = None]
    /\ UNCHANGED <<agent, loaded, at, file, script, code, fit, unit, survived, broke>>

Handler(t) ==
    \/ Request(t) \/ Download(t) \/ Fails(t)
    \/ OpenScript(t) \/ WriteScript(t) \/ Spawn(t) \/ SpawnFails(t)

Update ==
    \/ ReadScript \/ Stop \/ StopFails \/ Stopped \/ Remove
    \/ Unpack \/ UnpackFails \/ Clean \/ Pip \/ PipFails \/ CommandFails \/ Start

Next ==
    \/ \E t \in Threads : Handler(t)
    \/ Update
    \/ AgentCrash \/ AgentRestart \/ Reboot
    \/ \E n \in Names : CleanTmp(n)

Spec == Init /\ [][Next]_vars

\* systemd runs the unit, and every command of the script ends.
Fairness == WF_vars(Update)

FairSpec == Spec /\ Fairness

-----------------------------------------------------------------------------
(* Properties *)

\* Every variable has its type; the threads of an agent that does not run
\* have no request, and there is a tarball in the unit from its second step.
TypeOK ==
    /\ agent \in {"up", "dead", "stopping", "stopped"}
    /\ loaded \in Codes /\ code \in Codes /\ fit \in BOOLEAN
    /\ at \in [Threads -> {"idle", "download", "open", "write", "spawn"}]
    /\ file \in [Threads -> Names \cup {None}]
    /\ \A t \in Threads : at[t] = "idle" <=> file[t] = None
    /\ agent \in {"dead", "stopped"} => \A t \in Threads : at[t] = "idle"
    /\ tmp \in [Names -> Tarballs \cup {None}]
    /\ script \in Names \cup {None, "blank"}
    /\ unit \in Units \cup {None}
    /\ unit # None => (unit.step = "read" <=> unit.tarball = None)
    /\ agent = "stopping" <=> Runs("stopping")
    /\ survived \in BOOLEAN /\ broke \in BOOLEAN

\* The script finds the tarball it was written for when it has removed the
\* code, whichever requests have written the script and lost their tarball or
\* their unit to each other, unless an agent outlived the stop of an update.
TarballThere == Runs("unpack") /\ ~survived => tmp[unit.tarball] # None

\* The code is replaced only under an agent that does not run, and nothing
\* starts it in between, unless it outlived the stop.
ReplacedStopped ==
    unit # None /\ unit.step \in {"unpack", "clean", "pip", "start"} /\ ~survived =>
        agent = "stopped"

\* An update starts the agent from everything that was unpacked from the one
\* tarball that its script named.
StartsOwn ==
    [][Start => code.from = unit.tarball /\ code.kind # "part"]_vars

\* An update to a whole agent brings it up with that code, although the agent
\* is stopped on the way and its requests are killed, unless a command of the
\* script fails or the host is rebooted; when pip has failed, it starts it all
\* the same, in vain if a package is missing.
Returns ==
    \A n \in Names :
        Runs("stop") /\ unit.tarball = n /\ tmp[n] = "whole" /\ ~broke ~>
            \/ loaded.from = n /\ (agent = "up" \/ ~fit)
            \/ broke
=============================================================================
