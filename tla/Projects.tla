------------------------------ MODULE Projects ------------------------------
(***************************************************************************)
(* The projects of a VM: clone, the .env file, docker compose up and down. *)
(* Each request has a script run in the VM (GuestExec); all of them name   *)
(* the same deploy_path.                                                   *)
(***************************************************************************)
EXTENDS GuestExec

CONSTANTS
    Branches,
    Contents   \* what a .env file may hold

VARIABLES
    tree,        \* the directory deploy_path
    tmp,         \* its files .env.tmp.*, by the script that names them
    containers   \* what compose up has started last

files == <<tree, tmp, containers>>
vars == <<waits, script, files>>

-----------------------------------------------------------------------------
\* A work tree without a head is not whole; by is the clone that makes it.
Trees == [git : BOOLEAN, head : Branches \cup {None}, by : Slots \cup {None},
          env : Contents \cup {None, "torn"}]

\* The four kinds of requests, with a branch or a content.
Asked == [kind : {"clone"}, arg : Branches] \cup [kind : {"env"}, arg : Contents]
         \cup [kind : {"up", "down"}, arg : {None}]

\* A clone reads the COMMIT that it prints.
Scripts == [kind : {"clone", "env", "up", "down"},
            arg : Branches \cup Contents \cup {None},
            at : {"test", "update", "updating", "remove", "clone", "cloning", "parse",
                  "print", "write", "writing", "move", "stat", "run", "ok", "bad"},
            saw : {<<>>} \cup {<<b>> : b \in Branches},
            alone : BOOLEAN]

ASSUME ProjectsAssumption ==
    /\ None \notin Slots \cup Branches \cup Contents \cup {"torn"} \cup Trees \cup Scripts
    /\ "torn" \notin Contents
    /\ Slots # {}

InitFiles ==
    /\ tree \in {None, [git |-> FALSE, head |-> None, by |-> None, env |-> None]}
    /\ tmp = [s \in Slots |-> None]
    /\ containers = None

Init ==
    /\ waits = [t \in Threads |-> None]
    /\ script = [s \in Slots |-> None]
    /\ InitFiles

Cloning(s) == Running(s) /\ script[s].kind = "clone"
Whole(d)   == d # None /\ d.head # None

-----------------------------------------------------------------------------
(* The scripts; set -e ends each at the first command that fails *)

Fails(s) ==
    /\ ~At(s, "clone", "cloning")
    /\ Breaks(s)
    /\ UNCHANGED files

\* Mutant of CloneTest: a work tree is cloned anew.
CloneAlways(s) ==
    /\ At(s, "clone", "test")
    /\ Go(s, "remove")
    /\ UNCHANGED files

\* [ -d deploy_path/.git ]
CloneTest(s) ==
    /\ At(s, "clone", "test")
    /\ Go(s, IF tree # None /\ tree.git THEN "update" ELSE "remove")
    /\ UNCHANGED files

\* git checkout and git reset have begun.
Update(s) ==
    /\ At(s, "clone", "update")
    /\ tree # None /\ tree.git
    /\ tree' = [tree EXCEPT !.head = None]
    /\ Go(s, "updating")
    /\ UNCHANGED <<tmp, containers>>

UpdateEnds(s) ==
    /\ At(s, "clone", "updating")
    /\ tree # None /\ tree.git
    /\ tree' = [tree EXCEPT !.head = script[s].arg]
    /\ Go(s, "parse")
    /\ UNCHANGED <<tmp, containers>>

\* Mutant of Remove: only .git is removed.
RemoveGit(s) ==
    /\ At(s, "clone", "remove")
    /\ tree' = IF tree = None THEN None ELSE [tree EXCEPT !.git = FALSE]
    /\ Go(s, "clone")
    /\ UNCHANGED <<tmp, containers>>

\* rm -rf deploy_path
Remove(s) ==
    /\ At(s, "clone", "remove")
    /\ tree' = None
    /\ tmp' = [p \in Slots |-> None]
    /\ Go(s, "clone")
    /\ UNCHANGED containers

\* gh repo clone wants an empty place, and makes the directory first.
Clone(s) ==
    /\ At(s, "clone", "clone")
    /\ tree = None
    /\ tree' = [git |-> TRUE, head |-> None, by |-> s, env |-> None]
    /\ Go(s, "cloning")
    /\ UNCHANGED <<tmp, containers>>

CloneEnds(s) ==
    /\ At(s, "clone", "cloning")
    /\ tree # None /\ tree.by = s
    /\ tree' = [tree EXCEPT !.head = script[s].arg, !.by = None]
    /\ Go(s, "parse")
    /\ UNCHANGED <<tmp, containers>>

\* It takes away what it has made, if that is still there.
CloneFails(s) ==
    /\ At(s, "clone", "cloning")
    /\ IF tree # None /\ tree.by = s THEN tree' = None /\ tmp' = [p \in Slots |-> None]
                                     ELSE UNCHANGED <<tree, tmp>>
    /\ EndAt(s, "bad")
    /\ UNCHANGED containers

\* git rev-parse HEAD
Parse(s) ==
    /\ At(s, "clone", "parse")
    /\ Whole(tree)
    /\ Reads(s, tree.head, "print")
    /\ UNCHANGED files

PrintCommit(s) ==
    /\ At(s, "clone", "print")
    /\ EndAt(s, "ok")
    /\ UNCHANGED files

EnvTest(s) ==
    /\ At(s, "env", "test")
    /\ tree # None
    /\ Go(s, "write")
    /\ UNCHANGED files

\* Mutant of TmpOf: $$ is left out of the name.
TmpOfAll(s) == CHOOSE p \in Slots : TRUE

\* "$DIR/.env.tmp.$$"
TmpOf(s) == s

\* The file is opened, which empties it, then written.
EnvWrite(s) ==
    /\ At(s, "env", "write")
    /\ tree # None
    /\ tmp' = [tmp EXCEPT ![TmpOf(s)] = "torn"]
    /\ Go(s, "writing")
    /\ UNCHANGED <<tree, containers>>

EnvWritten(s) ==
    /\ At(s, "env", "writing")
    /\ tmp[TmpOf(s)] # None
    /\ tmp' = [tmp EXCEPT ![TmpOf(s)] = script[s].arg]
    /\ Go(s, "move")
    /\ UNCHANGED <<tree, containers>>

\* mv
EnvMove(s) ==
    /\ At(s, "env", "move")
    /\ tree # None /\ tmp[TmpOf(s)] # None
    /\ tree' = [tree EXCEPT !.env = tmp[TmpOf(s)]]
    /\ tmp' = [tmp EXCEPT ![TmpOf(s)] = None]
    /\ Go(s, "stat")
    /\ UNCHANGED containers

EnvStat(s) ==
    /\ At(s, "env", "stat")
    /\ tree # None /\ tree.env # None
    /\ EndAt(s, "ok")
    /\ UNCHANGED files

\* The compose file is there or not, in any directory.
ComposeTest(s) ==
    /\ At(s, "up", "test") \/ At(s, "down", "test")
    /\ tree # None
    /\ Go(s, "run")
    /\ UNCHANGED files

ComposeUp(s) ==
    /\ At(s, "up", "run")
    /\ tree # None
    /\ containers' = [env |-> tree.env]
    /\ EndAt(s, "ok")
    /\ UNCHANGED <<tree, tmp>>

ComposeDown(s) ==
    /\ At(s, "down", "run")
    /\ tree # None
    /\ containers' = None
    /\ EndAt(s, "ok")
    /\ UNCHANGED <<tree, tmp>>

\* The VM is stopped.
VmStops ==
    /\ Killed
    /\ tree' = IF tree = None THEN None ELSE [tree EXCEPT !.by = None]
    /\ containers' = None
    /\ UNCHANGED tmp

-----------------------------------------------------------------------------
(* The handlers *)

Ask(t, s) ==
    /\ \E r \in Asked : Launch(t, s, r.kind, r.arg, "test")
    /\ tmp' = [tmp EXCEPT ![s] = None]
    /\ UNCHANGED <<tree, containers>>

Answer(t) ==
    /\ \E ok \in BOOLEAN : Reply(t, ok)
    /\ UNCHANGED files

NoAnswer(t) == Lost(t) /\ UNCHANGED files

AgentCrash == Deserted /\ UNCHANGED files

ScriptStep(s) ==
    \/ CloneTest(s) \/ Update(s) \/ UpdateEnds(s) \/ Remove(s)
    \/ Clone(s) \/ CloneEnds(s) \/ CloneFails(s) \/ Parse(s) \/ PrintCommit(s)
    \/ EnvTest(s) \/ EnvWrite(s) \/ EnvWritten(s) \/ EnvMove(s) \/ EnvStat(s)
    \/ ComposeTest(s) \/ ComposeUp(s) \/ ComposeDown(s)
    \/ Fails(s)

Next ==
    \/ \E t \in Threads, s \in Slots : Ask(t, s)
    \/ \E t \in Threads : Answer(t) \/ NoAnswer(t)
    \/ \E s \in Slots : ScriptStep(s)
    \/ VmStops
    \/ AgentCrash

Spec == Init /\ [][Next]_vars

-----------------------------------------------------------------------------
(* Properties *)

\* A whole work tree has a .git directory, and the temporary files are in the
\* directory: with rm -rf and clone both go and come together.
FilesTypeOK ==
    /\ tree \in Trees \cup {None}
    /\ tmp \in [Slots -> Contents \cup {None, "torn"}]
    /\ containers \in {None} \cup [env : Contents \cup {None, "torn"}]
    /\ Whole(tree) => tree.git
    /\ tree = None => \A p \in Slots : tmp[p] = None

\* Every variable has its type.
TypeOK ==
    /\ waits \in [Threads -> Slots \cup {None}]
    /\ script \in [Slots -> Scripts \cup {None}]
    /\ FilesTypeOK

\* vm_project_env_write makes .env whole or not at all: however its scripts,
\* clones and stops of the VM interleave, neither the file nor the containers
\* that were started from it hold half of what was sent.
EnvWhole ==
    /\ tree # None => tree.env # "torn"
    /\ containers # None => containers.env # "torn"

\* vm_project_clone updates a work tree in place: while no clone runs that has
\* met another one, no step removes a whole work tree or loses its .env.
CloneKeepsProject ==
    [][Whole(tree) /\ (\A s \in Slots : Cloning(s) => script[s].alone) =>
         tree' # None /\ (tree.env # None => tree'.env # None)]_vars

\* A request is answered with ok only when its script has ended well, and a
\* clone then names the branch that was asked for, unless clones overlapped.
OkMeansDone ==
    [][\A t \in Threads : Reply(t, TRUE) =>
         LET s == script[waits[t]] IN
         /\ s.kind \notin Unchecked => s.at = "ok"
         /\ s.kind = "clone" /\ s.alone => s.saw = <<s.arg>>]_vars

\* 'clone failed' and 'compose up failed' are said of a script that has ended.
FailureIsFinal ==
    [][\A t \in Threads : Reply(t, FALSE) => Ended(waits[t])]_vars
=============================================================================
