----------------------------- MODULE RestoreJob -----------------------------
(***************************************************************************)
(* What POST /v1/vms/restore promises, without its pipes and processes:    *)
(* one restore at a time replaces its target, under the lock of Proxmox    *)
(* until the disk is written, and configures and starts it only if the     *)
(* whole object is on the disk.  A request that ends with an exception     *)
(* leaves its qmrestore behind, which goes on beside the next restore.     *)
(* Restore implements this; Host puts it beside the other handlers, whose  *)
(* steps are Elsewhere here.                                               *)
(***************************************************************************)
EXTENDS Proxmox

VARIABLES
    phase,   \* how far the restore of each thread is
    target,  \* the VM it is about
    left     \* threads whose request is over, but not its qmrestore

restore == <<phase, target, left>>
jobVars == <<phase, target, left, vm, robbed>>

-----------------------------------------------------------------------------
Init ==
    /\ phase = [t \in Threads |-> "out"]
    /\ target = [t \in Threads |-> None]
    /\ left = {}
    /\ InitVMs

Enter(t, label) ==
    /\ phase' = [phase EXCEPT ![t] = label]
    /\ UNCHANGED <<target, left>>

\* The restore of t is over; vms is what its last command has made of the VMs.
Over(t, vms) ==
    /\ phase' = [phase EXCEPT ![t] = "out"]
    /\ target' = [target EXCEPT ![t] = None]
    /\ left' = left \ {t}
    /\ Released({t}, vms)

Begin(t, v) ==
    /\ phase[t] = "out" /\ \A u \in Threads \ left : phase[u] = "out"
    /\ phase' = [phase EXCEPT ![t] = "fetch"]
    /\ target' = [target EXCEPT ![t] = v]
    /\ UNCHANGED <<left, vm, robbed>>

\* The phases before the verdict on the disk.
Undecided == {"fetch", "write", "failed", "whole", "cut"}

\* An exception that nobody catches ends the request, and nothing else.
Leave(t) ==
    /\ phase[t] \in Undecided /\ t \notin left
    /\ left' = left \cup {t}
    /\ UNCHANGED <<phase, target, vm, robbed>>

Replaceable(v) == vm[v] # None => ~vm[v].running /\ ~vm[v].locked

Replacement(t) == [Fresh(t) EXCEPT !.locked = TRUE]

\* qmrestore begins to write: the VM that was there is gone (--force).
Replace(t) ==
    /\ phase[t] = "fetch"
    /\ Replaceable(target[t])
    /\ Taken(target[t], Replacement(t))
    /\ Enter(t, "write")

Filled(t) == [Fresh(t) EXCEPT !.made["sshkey"] = t, !.made["resize"] = t]

\* The disk is written, as a whole or what has come of it, and unlocked.
Written(t) ==
    /\ phase[t] = "write"
    /\ \/ Enter(t, "whole") /\ vm' = [vm EXCEPT ![target[t]] = Filled(t)]
       \/ Enter(t, "cut") /\ vm' = [vm EXCEPT ![target[t]] = Fresh(t)]
    /\ UNCHANGED robbed

\* qmrestore fails, and has removed what it has made or not.
WriteFails(t) ==
    /\ phase[t] = "write"
    /\ Enter(t, "failed")
    /\ vm' \in {vm, [vm EXCEPT ![target[t]] = None]}
    /\ UNCHANGED robbed

\* Mutant of Accept: a disk that is not whole will do.
AcceptAny(t) ==
    /\ phase[t] \in {"whole", "cut"} /\ t \notin left
    /\ Enter(t, "set")
    /\ UNCHANGED <<vm, robbed>>

Accept(t) ==
    /\ phase[t] = "whole" /\ t \notin left
    /\ Enter(t, "set")
    /\ UNCHANGED <<vm, robbed>>

\* Before qm set every failure ends the request, and what was left behind by
\* one ends some time.
Fail(t) ==
    /\ phase[t] \in Undecided
    /\ Over(t, vm)

Named(t) == Made(target[t], "set", t)

Set(t) ==
    /\ phase[t] = "set"
    /\ Usable(target[t])
    /\ \/ Enter(t, "start") /\ vm' = Named(t) /\ UNCHANGED robbed
       \/ Over(t, Named(t))

SetFails(t) ==
    /\ phase[t] = "set"
    /\ Over(t, vm) \/ (Usable(target[t]) /\ Over(t, Named(t)))

\* qm start, with which the request is over whatever comes of it.
Start(t) ==
    /\ phase[t] = "start"
    /\ Over(t, vm) \/ (Usable(target[t]) /\ Over(t, Started(target[t])))

Crash ==
    /\ phase' = [t \in Threads |-> "out"]
    /\ target' = [t \in Threads |-> None]
    /\ left' = {}
    /\ Released(Threads, vm)

Busy == {t \in Threads : phase[t] # "out"}

\* What others do to the VMs: they leave a locked VM as it is, do nothing in
\* the name of a restore, and when they take its VM away it counts as robbed.
Elsewhere ==
    /\ UNCHANGED restore
    /\ \A v \in Vmids : vm[v] # None /\ vm[v].locked => vm'[v] = vm[v]
    /\ \A t \in Busy :
         /\ \A v \in Vmids : MakerOf(v)' = t => MakerOf(v) = t
         /\ MakerOf(target[t]) = t => MakerOf(target[t])' = t \/ t \in robbed'
         /\ t \in robbed => t \in robbed'

Step(t) ==
    \/ \E v \in Vmids : Begin(t, v)
    \/ Replace(t) \/ Written(t) \/ WriteFails(t) \/ Leave(t) \/ Accept(t) \/ Fail(t)
    \/ Set(t) \/ SetFails(t) \/ Start(t)

Next == (\E t \in Threads : Step(t)) \/ Crash \/ Elsewhere

Spec == Init /\ [][Next]_jobVars

-----------------------------------------------------------------------------
(* Properties *)

Types ==
    /\ phase \in [Threads -> {"out", "fetch", "write", "failed", "whole", "cut", "set", "start"}]
    /\ target \in [Threads -> Vmids \cup {None}]
    /\ \A t \in Threads : phase[t] = "out" <=> target[t] = None
    /\ left \subseteq {t \in Threads : phase[t] \in Undecided}

\* qmrestore has its target to itself while it writes, whatever other requests
\* try with that VM, an abandoned qmrestore too; and a restore configures and
\* starts its own VM, with the whole object on its disk, unless that was taken
\* away after qmrestore's end.
RestoresOwn ==
    \A t \in Threads :
        /\ phase[t] = "write" => vm[target[t]] = Replacement(t)
        /\ phase[t] \in {"set", "start"} /\ t \notin robbed =>
             /\ MakerOf(target[t]) = t
             /\ \A m \in Makings \ {"set"} : vm[target[t]].made[m] # None
             /\ phase[t] = "start" => vm[target[t]].made["set"] # None
=============================================================================
