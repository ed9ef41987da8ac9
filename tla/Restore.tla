------------------------------ MODULE Restore ------------------------------
(***************************************************************************)
(* POST /v1/vms/restore: an S3 object is streamed into qmrestore, through  *)
(* a decompressor when the name of the key asks for one; then the new VM   *)
(* is configured and started.  One restore at a time (_RESTORE_LOCK).      *)
(*                                                                         *)
(* Up to three processes share pipes of one part each: the thread of the   *)
(* handler, the decompressor and qmrestore.  The download, each process    *)
(* and each command can fail at any point, qmrestore can come to a stop on *)
(* an output that nobody reads before it has ended, and the agent can be   *)
(* killed at any point.  An exception that nobody catches ends the request *)
(* and releases the lock, and leaves the processes behind.                 *)
(***************************************************************************)
EXTENDS Proxmox

CONSTANTS
    Size,        \* parts of a whole dump; an object may hold fewer
    MaxAttempts  \* max_attempts of qm start

ASSUME RestoreAssumption ==
    /\ Size \in Nat \ {0}
    /\ MaxAttempts \in Nat \ {0}

VARIABLES
    lock,   \* the thread that holds _RESTORE_LOCK
    pc,     \* where each thread is in its handler
    job     \* locals of each thread and the processes it has started

vars == <<lock, pc, job, vm, robbed>>
vms == <<vm, robbed>>

-----------------------------------------------------------------------------
(* packed tells whether the key asks for a decompressor; fed, decoded and  *)
(* restored are the parts written, decompressed and put on the disk; sink  *)
(* is the write end of the first pipe; pipeError is TRUE when the feeding  *)
(* has ended before the object; zip and qm are the decompressor and        *)
(* qmrestore.                                                              *)
Jobs == [target : Vmids \cup {None}, packed : BOOLEAN,
         fed : 0..Size, sink : BOOLEAN, pipeError : BOOLEAN, unpacked : BOOLEAN,
         zip : {"none", "running", "ok", "bad"}, decoded : 0..Size,
         qm : {"none", "running", "stuck", "ok", "bad"}, restored : 0..Size,
         attempts : 0..(MaxAttempts - 1)]

NoJob == [target |-> None, packed |-> FALSE,
          fed |-> 0, sink |-> FALSE, pipeError |-> FALSE, unpacked |-> FALSE,
          zip |-> "none", decoded |-> 0, qm |-> "none", restored |-> 0, attempts |-> 0]

Init ==
    /\ lock = None
    /\ pc = [t \in Threads |-> "idle"]
    /\ job = [t \in Threads |-> NoJob]
    /\ InitVMs

GoTo(t, label) == pc' = [pc EXCEPT ![t] = label]

\* The answer, and the release of the lock; after is what the last command has
\* made of the VMs.
Answer(t, after) ==
    /\ lock' = None
    /\ job' = [job EXCEPT ![t] = NoJob]
    /\ GoTo(t, "idle")
    /\ Released({t}, after)

\* The exception passes through the finally of vm_restore, and its request is
\* answered; the thread is "left" here as long as a process that it has started
\* goes on.
Leave(t) ==
    /\ lock' = None
    /\ GoTo(t, "left")
    /\ UNCHANGED vms

Unpacking(t) == job[t].zip = "running"
Restoring(t) == job[t].qm = "running"

\* What the process at the other end of the sink has read, and whether it is
\* there.
Drained(t) == IF job[t].packed THEN job[t].decoded ELSE job[t].restored
Reader(t)  == IF job[t].packed THEN Unpacking(t) ELSE job[t].qm \in {"running", "stuck"}

\* What qmrestore finds in its input, and whether that has come to its end.
Offered(t)   == IF job[t].packed THEN job[t].decoded ELSE job[t].fed
AllOffered(t) == IF job[t].packed THEN ~Unpacking(t) ELSE ~job[t].sink

-----------------------------------------------------------------------------
(* The decompressor and qmrestore, as started by thread t *)

\* A part is decompressed; without qmrestore it is SIGPIPE.
Decode(t) ==
    /\ Unpacking(t)
    /\ job[t].decoded < job[t].fed
    /\ \/ /\ Restoring(t) /\ job[t].decoded = job[t].restored
          /\ job' = [job EXCEPT ![t].decoded = @ + 1]
       \/ /\ job[t].qm \in {"ok", "bad"}
          /\ job' = [job EXCEPT ![t].zip = "bad"]
    /\ UNCHANGED <<lock, pc, vms>>

\* It has read to the end, and knows a whole input from a cut one.
DecodeEnds(t) ==
    /\ Unpacking(t)
    /\ ~job[t].sink /\ job[t].decoded = job[t].fed
    /\ job' = [job EXCEPT ![t].zip = IF job[t].fed = Size THEN "ok" ELSE "bad"]
    /\ UNCHANGED <<lock, pc, vms>>

DecodeFails(t) ==
    /\ Unpacking(t)
    /\ job' = [job EXCEPT ![t].zip = "bad"]
    /\ UNCHANGED <<lock, pc, vms>>

\* All that the object holds has been put on the disk.
Whole(t) ==
    /\ job[t].restored = job[t].fed /\ ~job[t].pipeError
    /\ job[t].packed => job[t].unpacked \/ job[t].zip = "ok"

\* The VM as qmrestore makes it, with a part of the object or all of it.
Disk(t) ==
    IF Whole(t) THEN [Fresh(t) EXCEPT !.made["sshkey"] = t, !.made["resize"] = t]
                ELSE Fresh(t)

\* The first part replaces the VM that was there (--force), unless that is
\* running or locked, and locks it.
Replace(t) ==
    /\ Restoring(t)
    /\ job[t].restored = 0 /\ Offered(t) > 0
    /\ vm[job[t].target] # None => ~vm[job[t].target].running /\ ~vm[job[t].target].locked
    /\ Taken(job[t].target, [Fresh(t) EXCEPT !.locked = TRUE])
    /\ job' = [job EXCEPT ![t].restored = 1]
    /\ UNCHANGED <<lock, pc>>

\* Another part.
Write(t) ==
    /\ Restoring(t)
    /\ 0 < job[t].restored /\ job[t].restored < Offered(t)
    /\ job' = [job EXCEPT ![t].restored = @ + 1]
    /\ UNCHANGED <<lock, pc, vms>>

\* It has read to the end.  That its input was cut it need not notice.
WriteEnds(t) ==
    /\ Restoring(t)
    /\ job[t].restored > 0
    /\ AllOffered(t) /\ job[t].restored = Offered(t)
    /\ vm' = [vm EXCEPT ![job[t].target] = Disk(t)]
    /\ job' = [job EXCEPT ![t].qm = "ok"]
    /\ UNCHANGED <<lock, pc, robbed>>

\* It fails and removes what it has made, or not.  Stuck, it does so when the
\* ends of its pipes go with the request that nobody waits for.
WriteFails(t) ==
    /\ Restoring(t) \/ (job[t].qm = "stuck" /\ pc[t] = "left")
    /\ job' = [job EXCEPT ![t].qm = "bad"]
    /\ \/ UNCHANGED vm
       \/ job[t].restored > 0 /\ vm' = [vm EXCEPT ![job[t].target] = None]
    /\ UNCHANGED <<lock, pc, robbed>>

\* It fills the pipe of an output that is read only after its end.  (That one
\* which is left behind never goes on makes no difference to anybody.)
Stall(t) ==
    /\ Restoring(t) /\ pc[t] # "left"
    /\ job' = [job EXCEPT ![t].qm = "stuck"]
    /\ UNCHANGED <<lock, pc, vms>>

\* No process is left of what the thread has started.
Gone(t) ==
    /\ pc[t] = "left"
    /\ ~Unpacking(t) /\ job[t].qm \notin {"running", "stuck"}
    /\ job' = [job EXCEPT ![t] = NoJob]
    /\ GoTo(t, "idle")
    /\ Released({t}, vm)
    /\ UNCHANGED lock

-----------------------------------------------------------------------------
(* vm_restore and _do_restore *)

\* Mutant of Begin: the lock is taken without asking who has it.
BeginUnlocked(t) ==
    /\ pc[t] = "idle"
    /\ lock' = t
    /\ \E v \in Vmids : job' = [job EXCEPT ![t] = [NoJob EXCEPT !.target = v]]
    /\ GoTo(t, "fetch")
    /\ UNCHANGED vms

\* acquire(blocking=False)
Begin(t) ==
    /\ pc[t] = "idle"
    /\ lock = None
    /\ lock' = t
    /\ \E v \in Vmids : job' = [job EXCEPT ![t] = [NoJob EXCEPT !.target = v]]
    /\ GoTo(t, "fetch")
    /\ UNCHANGED vms

\* HTTP 409
Refuse(t) ==
    /\ pc[t] = "idle"
    /\ lock # None
    /\ UNCHANGED vars

\* get_object has failed, or the first Popen.
FetchFails(t) ==
    /\ pc[t] = "fetch"
    /\ Answer(t, vm)

\* The second Popen has failed, which nobody catches; the decompressor runs.
FetchRaises(t) ==
    /\ pc[t] = "fetch"
    /\ job' = [job EXCEPT ![t].packed = TRUE, ![t].zip = "running"]
    /\ Leave(t)

\* get_object and the processes.
Fetch(t) ==
    /\ pc[t] = "fetch"
    /\ \E z \in BOOLEAN :
         job' = [job EXCEPT ![t].packed = z, ![t].sink = TRUE,
                            ![t].zip = IF z THEN "running" ELSE "none",
                            ![t].qm = "running"]
    /\ GoTo(t, "feed")
    /\ UNCHANGED <<lock, vms>>

\* sink.write, which waits while the pipe is full.
Feed(t) ==
    /\ pc[t] = "feed"
    /\ job[t].fed < Size
    /\ Reader(t) /\ job[t].fed = Drained(t)
    /\ job' = [job EXCEPT ![t].fed = @ + 1]
    /\ UNCHANGED <<lock, pc, vms>>

\* The end of the object, which need not be that of a dump (a backup may have
\* left a cut one, see Backup), or BrokenPipeError, or a download that breaks
\* off.  The sink is closed.
FeedEnds(t) ==
    /\ pc[t] = "feed"
    /\ \E e \in BOOLEAN : job' = [job EXCEPT ![t].sink = FALSE, ![t].pipeError = e]
    /\ GoTo(t, "waitZip")
    /\ UNCHANGED <<lock, vms>>

\* Another exception than the ones of lines 132 and 135, as the download may
\* raise it: the sink is closed, and nobody waits for the processes.
FeedRaises(t) ==
    /\ pc[t] = "feed"
    /\ job' = [job EXCEPT ![t].sink = FALSE, ![t].pipeError = TRUE]
    /\ Leave(t)

\* decomp_proc.wait, and kill after QMRESTORE_TIMEOUT_SECONDS.
WaitZip(t) ==
    /\ pc[t] = "waitZip"
    /\ job' = [job EXCEPT ![t].unpacked = ~job[t].packed \/ job[t].zip = "ok",
                          ![t].zip = "none"]
    /\ GoTo(t, "waitQm")
    /\ UNCHANGED <<lock, vms>>

\* Mutant of Verdict: pipe_error is not looked at.
VerdictOfExits(t) == job[t].qm = "ok" /\ job[t].unpacked

\* Line 190.
Verdict(t) == job[t].qm = "ok" /\ job[t].unpacked /\ ~job[t].pipeError

\* Mutant of WaitQm: no time-out.
WaitQmForExit(t) ==
    /\ pc[t] = "waitQm"
    /\ job[t].qm \in {"ok", "bad"}
    /\ \/ /\ Verdict(t)
          /\ GoTo(t, "set")
          /\ job' = [job EXCEPT ![t].qm = "none"]
          /\ UNCHANGED <<lock, vms>>
       \/ ~Verdict(t) /\ Answer(t, vm)

\* qmrestore_proc.wait, and kill after QMRESTORE_TIMEOUT_SECONDS.
WaitQm(t) ==
    /\ pc[t] = "waitQm"
    /\ \/ /\ Verdict(t)
          /\ GoTo(t, "set")
          /\ job' = [job EXCEPT ![t].qm = "none"]
          /\ UNCHANGED <<lock, vms>>
       \/ ~Verdict(t) /\ Answer(t, vm)

Named(t) == Made(job[t].target, "set", t)
Running(t) == Started(job[t].target)

\* qm set; start_after_restore may be asked for or not.
Set(t) ==
    /\ pc[t] = "set"
    /\ Usable(job[t].target)
    /\ \/ /\ vm' = Named(t)
          /\ GoTo(t, "start")
          /\ UNCHANGED <<lock, job, robbed>>
       \/ Answer(t, Named(t))

\* CalledProcessError, or TimeoutExpired, which nobody catches: HTTP 500, and
\* the settings may have been applied.
SetFails(t) ==
    /\ pc[t] = "set"
    /\ Answer(t, vm) \/ (Usable(job[t].target) /\ Answer(t, Named(t)))

Start(t) ==
    /\ pc[t] = "start"
    /\ Usable(job[t].target)
    /\ Answer(t, Running(t))

\* Mutant of StartLocked: the attempts are not counted to an end.
StartLockedOnce(t) ==
    /\ pc[t] = "start"
    /\ job' = [job EXCEPT ![t].attempts = @ + 1]
    /\ UNCHANGED <<lock, pc, vms>>

\* The VM is locked: sleep, and again if an attempt is left.
StartLocked(t) ==
    /\ pc[t] = "start"
    /\ IF job[t].attempts + 1 < MaxAttempts
         THEN job' = [job EXCEPT ![t].attempts = @ + 1] /\ UNCHANGED <<lock, pc, vms>>
         ELSE Answer(t, vm)

\* Any other error; after a time-out the VM may run although started is False.
StartFails(t) ==
    /\ pc[t] = "start"
    /\ Answer(t, vm) \/ (Usable(job[t].target) /\ Answer(t, Running(t)))

\* The agent and its children are killed; what is on the disk stays.
AgentCrash ==
    /\ lock' = None
    /\ pc' = [t \in Threads |-> "idle"]
    /\ job' = [t \in Threads |-> NoJob]
    /\ Released(Threads, vm)

\* Requests that others serve: the VM is made, destroyed, started or stopped.
Others(v) ==
    /\ \/ vm[v] = None /\ vm' = [vm EXCEPT ![v] = Complete] /\ UNCHANGED robbed
       \/ Usable(v) /\ ~vm[v].running /\ Taken(v, None)
       \/ Usable(v) /\ vm' \in {Started(v), Stopped(v)} /\ UNCHANGED robbed
    /\ UNCHANGED <<lock, pc, job>>

Next ==
    \/ \E t \in Threads :
         \/ Begin(t) \/ Refuse(t) \/ FetchFails(t) \/ FetchRaises(t) \/ Fetch(t)
         \/ Feed(t) \/ FeedEnds(t) \/ FeedRaises(t)
         \/ WaitZip(t) \/ WaitQm(t) \/ Set(t) \/ SetFails(t)
         \/ Start(t) \/ StartLocked(t) \/ StartFails(t)
         \/ Decode(t) \/ DecodeEnds(t) \/ DecodeFails(t)
         \/ Replace(t) \/ Write(t) \/ WriteEnds(t) \/ WriteFails(t) \/ Stall(t)
         \/ Gone(t)
    \/ AgentCrash
    \/ \E v \in Vmids : Others(v)

Spec == Init /\ [][Next]_vars

\* The thread goes on after the feeding when it can: its waits have time-outs and
\* each command it runs ends one way or another.  Nothing is asked of the
\* processes.
Fairness ==
    \A t \in Threads :
        WF_vars(\/ WaitZip(t) \/ WaitQm(t) \/ Set(t) \/ SetFails(t)
                \/ Start(t) \/ StartLocked(t) \/ StartFails(t))

FairSpec == Spec /\ Fairness

-----------------------------------------------------------------------------
(* Properties *)

\* Every variable has its type.
TypeOK ==
    /\ lock \in Threads \cup {None}
    /\ pc \in [Threads -> {"idle", "fetch", "feed", "waitZip", "waitQm", "set", "start",
                           "left"}]
    /\ job \in [Threads -> Jobs]
    /\ \A t \in Threads : pc[t] = "idle" <=> job[t].target = None
    /\ vm \in [Vmids -> VMs \cup {None}]
    /\ robbed \subseteq Threads

\* vm_restore lets one request into _do_restore at a time: whoever is inside
\* holds the lock, and so does whoever has a decompressor or a qmrestore, but
\* for those that an exception has left behind.
OneAtATime ==
    \A t \in Threads :
        pc[t] # "idle" \/ job[t].zip # "none" \/ job[t].qm # "none" =>
            lock = t \/ pc[t] = "left"

\* How far a restore is, seen from outside.
Phase(t) ==
    CASE pc[t] = "idle" -> "out"
      [] pc[t] \in {"set", "start"} -> pc[t]
      [] pc[t] \notin {"idle", "set", "start"} ->
           CASE job[t].restored = 0 -> "fetch"
             [] job[t].restored > 0 ->
                  CASE job[t].qm = "bad" -> "failed"
                    [] job[t].qm = "ok" -> IF Whole(t) THEN "whole" ELSE "cut"
                    [] OTHER -> "write"

Job == INSTANCE RestoreJob
         WITH phase <- [t \in Threads |-> Phase(t)], target <- [t \in Threads |-> job[t].target],
              left <- {t \in Threads : pc[t] = "left"}

\* With its pipes, its processes and its retries a restore does what RestoreJob
\* says and no more: above all it passes from qmrestore to qm set only when the
\* whole object is on the disk, and one begins only when no other is under way
\* but those that an exception has left behind.
Implements == Job!Spec

\* Once line 190 has found no error the target is this request's VM with the
\* whole object on its disk, although neither process sees all that can go
\* wrong, and a compressed object was the whole dump (an uncompressed one that
\* was cut passes); and it is started only after qm set.  (Unless somebody has
\* destroyed or replaced the VM meanwhile.)
OkMeansWhole ==
    /\ Job!RestoresOwn
    /\ \A t \in Threads :
         pc[t] \in {"set", "start"} /\ job[t].packed => job[t].restored = Size

\* Once the object has been fed, whole or not, the request is answered and the
\* lock is free again, even if qmrestore is stuck and the VM stays locked.
\* (While it is fed there is no time-out, see README.md.)
Finishes == \A t \in Threads : pc[t] = "waitZip" ~> pc[t] = "idle"
=============================================================================
