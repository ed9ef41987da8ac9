------------------------------ MODULE Proxmox ------------------------------
(***************************************************************************)
(* What Proxmox keeps of the VMs, as the requests that work on them see    *)
(* it: provision, start, stop and destroy (Vms) and restore (RestoreJob,   *)
(* Restore).  Proxmox runs the commands on one VM one after the other and  *)
(* locks a VM while it is cloned or restored; between two commands of a    *)
(* request it holds nothing.                                               *)
(***************************************************************************)
EXTENDS Naturals

CONSTANTS Threads, Vmids, None

VARIABLES
    vm,      \* what Proxmox keeps under each VMID
    robbed   \* history: threads whose VM was taken away while they worked on it

\* What makes a VM usable: it is cloned or restored, has its cores and
\* address, its key, and a disk of the size it should have.
Makings == {"clone", "set", "sshkey", "resize"}

\* made tells which thread's request has done each of them; "done" is one that
\* has been answered.
VMs == [made : [Makings -> Threads \cup {"done", None}], running : BOOLEAN, locked : BOOLEAN]

ASSUME ProxmoxAssumption ==
    None \notin Threads \cup Vmids \cup VMs \cup {"done"} /\ "done" \notin Threads

Fresh(t) == [made |-> [m \in Makings |-> IF m = "clone" THEN t ELSE None],
             running |-> FALSE, locked |-> FALSE]
Complete == [made |-> [m \in Makings |-> "done"], running |-> FALSE, locked |-> FALSE]

InitVMs ==
    /\ vm \in [Vmids -> {None, Complete, [Complete EXCEPT !.running = TRUE]}]
    /\ robbed = {}

\* A command finds the VM and may work on it.
Usable(v) == vm[v] # None /\ ~vm[v].locked

Made(v, m, t)   == [vm EXCEPT ![v].made[m] = t]
Started(v)      == [vm EXCEPT ![v].running = TRUE]
Stopped(v)      == [vm EXCEPT ![v].running = FALSE]

MakerOf(v) == IF vm[v] = None THEN None ELSE vm[v].made["clone"]

\* The VM v is replaced by new, which may be None.
Taken(v, new) ==
    /\ vm' = [vm EXCEPT ![v] = new]
    /\ robbed' = robbed \cup ({MakerOf(v)} \cap Threads)

\* The requests of ts are over; vms is what their last command has made of
\* the VMs.
Released(ts, vms) ==
    /\ vm' = [v \in Vmids |->
                 IF vms[v] = None THEN None
                 ELSE [vms[v] EXCEPT !.made =
                          [m \in Makings |-> IF @[m] \in ts THEN "done" ELSE @[m]]]]
    /\ robbed' = robbed \ ts
=============================================================================
