-------------------------------- MODULE Host --------------------------------
(***************************************************************************)
(* The handlers that work on VMs side by side: provision, start, stop and  *)
(* destroy (Vms) and restore (RestoreJob, which Restore implements), in    *)
(* the threads of one agent and on the VMs of one Proxmox.                 *)
(***************************************************************************)
EXTENDS Vms

VARIABLES phase, target, left

R == INSTANCE RestoreJob

hostVars == <<pc, vmid, phase, target, left, vm, robbed>>

-----------------------------------------------------------------------------
HostInit == Init /\ R!Init

\* A thread serves one request at a time.
HostNext ==
    \/ \E t \in Threads :
         \/ phase[t] = "out" /\ (Request(t) \/ Step(t)) /\ UNCHANGED <<phase, target, left>>
         \/ pc[t] = "idle" /\ R!Step(t) /\ UNCHANGED <<pc, vmid>>
    \/ AgentCrash /\ R!Crash

HostSpec == HostInit /\ [][HostNext]_hostVars

FairHost == HostSpec /\ \A t \in Going : WF_hostVars(Step(t) /\ UNCHANGED <<phase, target, left>>)

-----------------------------------------------------------------------------
(* Properties *)

\* Every variable has its type, no thread serves two requests, and a VM that is
\* being cloned or restored does not run.
HostTypeOK == TypeOK /\ R!Types /\ \A t \in Threads : pc[t] = "idle" \/ phase[t] = "out"

RestoresOwn == R!RestoresOwn

\* To a restore, provision, start, stop and destroy are what RestoreJob, and
\* so Restore, assumes of the rest of the host: they leave its VM alone while
\* it is locked and never pass off another VM as the one it has made.
SparesRestores == R!Spec
=============================================================================
