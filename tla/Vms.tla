-------------------------------- MODULE Vms --------------------------------
(***************************************************************************)
(* Provision, start, stop and destroy of VMs.  Each handler is a sequence  *)
(* of qm commands (proxmox_local._run) with nothing held between them, so  *)
(* that those of several requests mix.  A command can fail, and one that   *)
(* is cut off by its time-out may have done its work; nothing is rolled    *)
(* back.                                                                   *)
(***************************************************************************)
EXTENDS Proxmox

CONSTANT Going   \* the threads that go on; the others may stop anywhere

ASSUME VmsAssumption == Going \subseteq Threads

VARIABLES
    pc,     \* the command each thread runs next
    vmid    \* the VM each request is about

vars == <<pc, vmid, vm, robbed>>

-----------------------------------------------------------------------------
Init ==
    /\ pc = [t \in Threads |-> "idle"]
    /\ vmid = [t \in Threads |-> None]
    /\ InitVMs

Mine(t) == vm[vmid[t]]

GoTo(t, label) ==
    /\ pc' = [pc EXCEPT ![t] = label]
    /\ UNCHANGED vmid

\* The answer; vms is what the last command has made of the VMs.
Answer(t, vms) ==
    /\ pc' = [pc EXCEPT ![t] = "idle"]
    /\ vmid' = [vmid EXCEPT ![t] = None]
    /\ Released({t}, vms)

Asks(t, v, label) ==
    /\ pc[t] = "idle"
    /\ pc' = [pc EXCEPT ![t] = label]
    /\ vmid' = [vmid EXCEPT ![t] = v]
    /\ UNCHANGED <<vm, robbed>>

-----------------------------------------------------------------------------
(* vm_provision: clone, set, set --sshkey, resize, start *)

Clone(t) ==
    /\ pc[t] = "clone"
    /\ Mine(t) = None
    /\ vm' = [vm EXCEPT ![vmid[t]] = Fresh(t)]
    /\ GoTo(t, "set")
    /\ UNCHANGED robbed

\* Mutant of CloneFails: the error is passed over, as vm_destroy does with stop.
CloneFailsOn(t) ==
    /\ pc[t] = "clone"
    /\ GoTo(t, "set")
    /\ UNCHANGED <<vm, robbed>>

\* The VM exists, or another error; a clone that is cut off may leave a VM, and
\* that may be locked.
CloneFails(t) ==
    /\ pc[t] = "clone"
    /\ \/ Answer(t, vm)
       \/ /\ Mine(t) = None
          /\ \E l \in BOOLEAN :
               Answer(t, [vm EXCEPT ![vmid[t]] = [Fresh(t) EXCEPT !.locked = l]])

\* Mutant of After: the key is forgotten.
AfterKeyless(label) == IF label = "set" THEN "resize" ELSE "start"

After(label) == CASE label = "set" -> "sshkey" [] label = "sshkey" -> "resize"
                  [] label = "resize" -> "start"

Staged(t) == Made(vmid[t], pc[t], t)

\* One of the three commands that make the clone what was asked for.
Configure(t) ==
    /\ pc[t] \in {"set", "sshkey", "resize"}
    /\ Usable(vmid[t])
    /\ vm' = Staged(t)
    /\ GoTo(t, After(pc[t]))
    /\ UNCHANGED robbed

ConfigureFails(t) ==
    /\ pc[t] \in {"set", "sshkey", "resize"}
    /\ \/ Answer(t, vm)
       \/ Usable(vmid[t]) /\ Answer(t, Staged(t))

\* Mutant of Start: --skiplock.
StartSkipsLock(t) ==
    /\ pc[t] \in {"start", "startOnly"}
    /\ Mine(t) # None /\ ~Mine(t).running
    /\ Answer(t, Started(vmid[t]))

\* qm start, the last command of a provision and the one of vm_start.
Start(t) ==
    /\ pc[t] \in {"start", "startOnly"}
    /\ Usable(vmid[t]) /\ ~Mine(t).running
    /\ Answer(t, Started(vmid[t]))

StartFails(t) ==
    /\ pc[t] \in {"start", "startOnly"}
    /\ \/ Answer(t, vm)
       \/ Usable(vmid[t]) /\ Answer(t, Started(vmid[t]))

-----------------------------------------------------------------------------
(* vm_stop, vm_destroy *)

Stop(t) ==
    /\ pc[t] = "stopOnly"
    /\ \/ Answer(t, vm)
       \/ Usable(vmid[t]) /\ Answer(t, Stopped(vmid[t]))

\* A stop that fails is passed over.
StopFirst(t) ==
    /\ pc[t] = "stop"
    /\ vm' = vm \/ (Usable(vmid[t]) /\ vm' = Stopped(vmid[t]))
    /\ GoTo(t, "destroy")
    /\ UNCHANGED robbed

\* TimeoutExpired is no ProxmoxError: HTTP 500 before the destroy.
StopTimesOut(t) ==
    /\ pc[t] = "stop"
    /\ \/ Answer(t, vm)
       \/ Usable(vmid[t]) /\ Answer(t, Stopped(vmid[t]))

\* Mutant of Destroy: --skiplock.
DestroyLocked(t) ==
    /\ pc[t] = "destroy"
    /\ Mine(t) # None => ~Mine(t).running
    /\ pc' = [pc EXCEPT ![t] = "idle"]
    /\ vmid' = [vmid EXCEPT ![t] = None]
    /\ Taken(vmid[t], None)

\* qm destroy, which wants the VM stopped and not locked; that it does not exist
\* is no error.
Destroy(t) ==
    /\ pc[t] = "destroy"
    /\ Mine(t) # None => ~Mine(t).running /\ ~Mine(t).locked
    /\ pc' = [pc EXCEPT ![t] = "idle"]
    /\ vmid' = [vmid EXCEPT ![t] = None]
    /\ Taken(vmid[t], None)

\* Mutant of DestroyFails: once more from the stop on.
DestroyAgain(t) ==
    /\ pc[t] = "destroy"
    /\ GoTo(t, "stop")
    /\ UNCHANGED <<vm, robbed>>

\* Another error, or a time-out; with the VM gone it is Destroy but for the
\* answer.  An error that says of anything that it "does not exist" is answered
\* with ok, and the VM is there (line 80).
DestroyFails(t) ==
    /\ pc[t] = "destroy"
    /\ Answer(t, vm)

AgentCrash ==
    /\ pc' = [t \in Threads |-> "idle"]
    /\ vmid' = [t \in Threads |-> None]
    /\ Released(Threads, vm)

Step(t) ==
    \/ Clone(t) \/ CloneFails(t) \/ Configure(t) \/ ConfigureFails(t)
    \/ Start(t) \/ StartFails(t) \/ Stop(t)
    \/ StopFirst(t) \/ StopTimesOut(t) \/ Destroy(t) \/ DestroyFails(t)

Request(t) ==
    \E v \in Vmids, first \in {"clone", "startOnly", "stopOnly", "stop"} : Asks(t, v, first)

Next ==
    \/ \E t \in Threads : Request(t) \/ Step(t)
    \/ AgentCrash

Spec == Init /\ [][Next]_vars

\* Every command comes back: _run gives each a time-out.
Fairness == \A t \in Going : WF_vars(Step(t))

FairSpec == Spec /\ Fairness

-----------------------------------------------------------------------------
(* Properties *)

\* Every variable has its type, and a VM that is being cloned or restored does
\* not run, whichever requests start it.
TypeOK ==
    /\ pc \in [Threads -> {"idle", "clone", "set", "sshkey", "resize", "start",
                           "startOnly", "stopOnly", "stop", "destroy"}]
    /\ vmid \in [Threads -> Vmids \cup {None}]
    /\ \A t \in Threads : pc[t] = "idle" <=> vmid[t] = None
    /\ vm \in [Vmids -> VMs \cup {None}]
    /\ \A v \in Vmids : vm[v] # None /\ vm[v].locked => ~vm[v].running
    /\ robbed \subseteq Threads

\* vm_provision configures and starts the VM it has cloned and no other one,
\* however requests for the same VMID mix, unless that VM was destroyed or
\* replaced under it.
ProvisionsOwn ==
    \A t \in Threads \ robbed :
        pc[t] \in {"set", "sshkey", "resize", "start"} => MakerOf(vmid[t]) = t

\* A provision comes to its qm start only with its cores, address, key and
\* disk in place, under the same condition.
StartsReady ==
    \A t \in Threads \ robbed :
        pc[t] = "start" =>
            Mine(t) # None /\ \A m \in Makings : Mine(t).made[m] # None

\* Every request is answered whose thread goes on, whatever the others do, and
\* wherever they stop.
Answered == \A t \in Going : pc[t] # "idle" ~> pc[t] = "idle"
=============================================================================
