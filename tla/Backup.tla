------------------------------- MODULE Backup -------------------------------
(***************************************************************************)
(* POST /v1/vms/{vmid}/backup: one vzdump at a time (_BACKUP_LOCK), whose  *)
(* standard output is uploaded to an S3 object.                            *)
(*                                                                         *)
(* Two processes work on a backup, the thread of the handler and vzdump.   *)
(* They share two pipes.  Standard output is drained by the upload.        *)
(* Standard error is read only after vzdump has ended, so vzdump stops at  *)
(* a line that does not fit.  S3 calls and vzdump can fail at any point,   *)
(* the upload also with an exception that _do_backup does not expect, and  *)
(* the agent can be killed at any point.                                   *)
(***************************************************************************)
EXTENDS Naturals

CONSTANTS
    Threads,   \* threads that serve the handler
    Keys,      \* S3 keys that are asked for
    None,
    Size,      \* parts of a whole dump
    MaxLog,    \* bound: lines vzdump writes to standard error
    PipeCap    \* lines the pipe of standard error holds

(* An object is told by who uploaded it and how much of a dump it holds. *)
Objects == [by : Threads \cup {"before"}, parts : 0..Size]

ASSUME BackupAssumption ==
    /\ None \notin Threads \cup Keys \cup Objects
    /\ Size \in Nat \ {0}
    /\ MaxLog \in Nat
    /\ PipeCap \in Nat

VARIABLES
    lock,     \* the thread that holds _BACKUP_LOCK
    pc,       \* where each thread is in its handler
    job,      \* locals of each thread and the vzdump it has started
    bucket,   \* the object under each key
    debris    \* history: keys whose clean-up failed or never came

vars == <<lock, pc, job, bucket, debris>>

-----------------------------------------------------------------------------
\* proc is the state of vzdump ("silent": it runs and has closed its standard
\* output), out is the read end of that.
Jobs == [key : Keys \cup {None}, uploadOk : BOOLEAN, out : BOOLEAN,
         proc : {"none", "running", "silent", "ok", "bad"},
         dumped : 0..Size, toLog : 0..MaxLog, stderr : 0..MaxLog]

NoJob == [key |-> None, uploadOk |-> TRUE, out |-> FALSE, proc |-> "none",
          dumped |-> 0, toLog |-> 0, stderr |-> 0]

Whole(o) == o # None /\ o.parts = Size

Init ==
    /\ lock = None
    /\ pc = [t \in Threads |-> "idle"]
    /\ job = [t \in Threads |-> NoJob]
    /\ bucket \in [Keys -> {None, [by |-> "before", parts |-> Size]}]
    /\ debris = {}

GoTo(t, label) == pc' = [pc EXCEPT ![t] = label]

-----------------------------------------------------------------------------
(* vzdump, as started by thread t *)

Running(t) == job[t].proc \in {"running", "silent"}

\* A part of the dump.  When nobody reads any more it is SIGPIPE.
Dump(t) ==
    /\ job[t].proc = "running"
    /\ job[t].dumped < Size
    /\ job' = IF job[t].out THEN [job EXCEPT ![t].dumped = @ + 1]
                            ELSE [job EXCEPT ![t].proc = "bad"]
    /\ UNCHANGED <<lock, pc, bucket, debris>>

\* It closes its standard output, whole or not, and runs on.
Silence(t) ==
    /\ job[t].proc = "running"
    /\ job' = [job EXCEPT ![t].proc = "silent"]
    /\ UNCHANGED <<lock, pc, bucket, debris>>

\* A line on standard error; vzdump waits while the pipe is full.
Log(t) ==
    /\ Running(t)
    /\ job[t].toLog > 0
    /\ job[t].stderr < PipeCap
    /\ job' = [job EXCEPT ![t].toLog = @ - 1, ![t].stderr = @ + 1]
    /\ UNCHANGED <<lock, pc, bucket, debris>>

ExitOk(t) ==
    /\ Running(t)
    /\ job[t].dumped = Size /\ job[t].toLog = 0
    /\ job' = [job EXCEPT ![t].proc = "ok"]
    /\ UNCHANGED <<lock, pc, bucket, debris>>

ExitBad(t) ==
    /\ Running(t)
    /\ job' = [job EXCEPT ![t].proc = "bad"]
    /\ UNCHANGED <<lock, pc, bucket, debris>>

-----------------------------------------------------------------------------
(* vm_backup and _do_backup *)

\* Mutant of Begin: the lock is taken without asking who has it.
BeginUnlocked(t) ==
    /\ pc[t] = "idle"
    /\ lock' = t
    /\ \E k \in Keys, n \in 0..MaxLog :
         job' = [job EXCEPT ![t] = [NoJob EXCEPT !.key = k, !.out = TRUE,
                                                 !.proc = "running", !.toLog = n]]
    /\ GoTo(t, "upload")
    /\ UNCHANGED <<bucket, debris>>

\* acquire(blocking=False) and Popen.
Begin(t) ==
    /\ pc[t] = "idle"
    /\ lock = None
    /\ lock' = t
    /\ \E k \in Keys, n \in 0..MaxLog :
         job' = [job EXCEPT ![t] = [NoJob EXCEPT !.key = k, !.out = TRUE,
                                                 !.proc = "running", !.toLog = n]]
    /\ GoTo(t, "upload")
    /\ UNCHANGED <<bucket, debris>>

\* HTTP 409
Refuse(t) ==
    /\ pc[t] = "idle"
    /\ lock # None
    /\ UNCHANGED vars

\* What upload_fileobj has read goes under the key, once it has met the end of
\* vzdump's output.
Stored(t) ==
    /\ job[t].proc # "running"
    /\ bucket' = [bucket EXCEPT ![job[t].key] = [by |-> t, parts |-> job[t].dumped]]

\* upload_fileobj returns.  The pipe is closed.
Upload(t) ==
    /\ pc[t] = "upload"
    /\ Stored(t)
    /\ debris' = debris \ {job[t].key}
    /\ job' = [job EXCEPT ![t].out = FALSE]
    /\ GoTo(t, "wait")
    /\ UNCHANGED lock

\* It fails: the object under the key is what it was, or only the answer to
\* the last request of the upload was lost.
UploadFails(t) ==
    /\ pc[t] = "upload"
    /\ Stored(t) \/ UNCHANGED bucket
    /\ job' = [job EXCEPT ![t].out = FALSE, ![t].uploadOk = FALSE]
    /\ GoTo(t, "wait")
    /\ UNCHANGED <<lock, debris>>

\* It fails with an exception that line 89 does not name: the pipe is closed
\* and the lock released, but vzdump is neither waited for nor killed, and
\* nothing is cleaned up.  HTTP 500.
UploadRaises(t) ==
    /\ pc[t] = "upload"
    /\ Stored(t) \/ UNCHANGED bucket
    /\ job' = [job EXCEPT ![t].out = FALSE, ![t].key = None]
    /\ debris' = debris \cup {job[t].key}
    /\ lock' = None
    /\ GoTo(t, "left")

\* The vzdump that was left has ended.  (Bound: till then the thread serves no
\* other backup.)
Gone(t) ==
    /\ pc[t] = "left"
    /\ ~Running(t)
    /\ job' = [job EXCEPT ![t] = NoJob]
    /\ GoTo(t, "idle")
    /\ UNCHANGED <<lock, bucket, debris>>

\* Mutant of Wait: no time-out.
WaitForExit(t) ==
    /\ pc[t] = "wait"
    /\ ~Running(t)
    /\ GoTo(t, IF job[t].proc = "ok" /\ job[t].uploadOk THEN "head" ELSE "clean")
    /\ job' = [job EXCEPT ![t].proc = "none", ![t].stderr = 0, ![t].toLog = 0]
    /\ UNCHANGED <<lock, bucket, debris>>

\* Mutant of Wait: vzdump's exit status is not looked at.
WaitUploadOnly(t) ==
    /\ pc[t] = "wait"
    /\ GoTo(t, IF job[t].uploadOk THEN "head" ELSE "clean")
    /\ job' = [job EXCEPT ![t].proc = "none", ![t].stderr = 0, ![t].toLog = 0]
    /\ UNCHANGED <<lock, bucket, debris>>

\* Mutant of Wait: after the time-out vzdump is not killed.
WaitNoKill(t) ==
    /\ pc[t] = "wait"
    /\ GoTo(t, IF job[t].proc = "ok" /\ job[t].uploadOk THEN "head" ELSE "clean")
    /\ UNCHANGED <<lock, job, bucket, debris>>

\* proc.wait.  A process that still runs is killed in the end
\* (VZDUMP_TIMEOUT_SECONDS).  Then the rest of standard error is read.
Wait(t) ==
    /\ pc[t] = "wait"
    /\ GoTo(t, IF job[t].proc = "ok" /\ job[t].uploadOk THEN "head" ELSE "clean")
    /\ job' = [job EXCEPT ![t].proc = "none", ![t].stderr = 0, ![t].toLog = 0]
    /\ UNCHANGED <<lock, bucket, debris>>

\* The answer, and the release of the lock.
Answer(t) ==
    /\ lock' = None
    /\ job' = [job EXCEPT ![t] = NoJob]
    /\ GoTo(t, "idle")

\* Mutant of Clean: the object is left where it is.
CleanNothing(t) ==
    /\ pc[t] = "clean"
    /\ Answer(t)
    /\ UNCHANGED <<bucket, debris>>

\* delete_object, successful or not, and HTTP 502 or 500.
Clean(t) ==
    /\ pc[t] = "clean"
    /\ \/ /\ bucket' = [bucket EXCEPT ![job[t].key] = None]
          /\ debris' = debris \ {job[t].key}
       \/ /\ debris' = debris \cup {job[t].key}
          /\ UNCHANGED bucket
    /\ Answer(t)

\* head_object, successful or not, and the answer with ok.
Head(t) ==
    /\ pc[t] = "head"
    /\ Answer(t)
    /\ UNCHANGED <<bucket, debris>>

Inside(t) == pc[t] \notin {"idle", "left"}

\* The agent and its children are killed; what was uploaded stays.
AgentCrash ==
    /\ lock' = None
    /\ pc' = [t \in Threads |-> "idle"]
    /\ job' = [t \in Threads |-> NoJob]
    /\ debris' = debris \cup {job[t].key : t \in {u \in Threads : Inside(u)}}
    /\ UNCHANGED bucket

Next ==
    \/ \E t \in Threads :
         \/ Begin(t) \/ Refuse(t)
         \/ Upload(t) \/ UploadFails(t) \/ UploadRaises(t) \/ Gone(t)
         \/ Wait(t) \/ Clean(t) \/ Head(t)
         \/ Dump(t) \/ Silence(t) \/ Log(t) \/ ExitOk(t) \/ ExitBad(t)
    \/ AgentCrash

Spec == Init /\ [][Next]_vars

\* The thread and vzdump go on while they can; nothing has to fail.
Fairness ==
    \A t \in Threads :
        /\ WF_vars(Upload(t)) /\ WF_vars(Wait(t))
        /\ WF_vars(Clean(t)) /\ WF_vars(Head(t))
        /\ WF_vars(Dump(t)) /\ WF_vars(Log(t)) /\ WF_vars(ExitOk(t))

FairSpec == Spec /\ Fairness

-----------------------------------------------------------------------------
(* Properties *)

\* Every variable has its type, and a request goes on to its answer only when
\* its vzdump runs no more.
TypeOK ==
    /\ lock \in Threads \cup {None}
    /\ pc \in [Threads -> {"idle", "upload", "wait", "clean", "head", "left"}]
    /\ job \in [Threads -> Jobs]
    /\ \A t \in Threads : pc[t] \in {"clean", "head"} => ~Running(t)
    /\ bucket \in [Keys -> Objects \cup {None}]
    /\ debris \subseteq Keys

\* vm_backup lets one request into _do_backup at a time, and vzdump runs only
\* for the request that is inside.  The exception are dumps that an error of
\* the upload which line 89 does not name has left behind: beside them another
\* backup may begin and a second dump run.
OneAtATime ==
    \A t \in Threads : /\ Inside(t) => lock = t
                       /\ Running(t) => lock = t \/ pc[t] = "left"

\* A backup that is answered with ok is there: the object under its key is
\* its own and whole, although vzdump can end early without the upload
\* noticing.
OkMeansComplete ==
    [][\A t \in Threads :
         Head(t) => /\ Whole(bucket[job[t].key])
                    /\ bucket[job[t].key].by = t]_vars

\* When nobody is at work an incomplete object is under a key only if its
\* delete_object failed, or never came because the agent died or an exception
\* ended the request.
NoDebris ==
    lock = None => \A k \in Keys : bucket[k] = None \/ Whole(bucket[k]) \/ k \in debris

\* Once the upload has ended, well or not, the request is answered and the
\* lock is free again, even if vzdump is stuck on its standard error: the
\* wait for it has a time-out.  (Before that it has none, see README.md.)
Finishes == \A t \in Threads : pc[t] = "wait" ~> pc[t] = "idle"

\* The clean-up deletes a partial object of this request and no other one.
CleanupHitsPartial ==
    [][\A t \in Threads :
         Clean(t) => \/ bucket' = bucket
                     \/ bucket[job[t].key].by = t]_vars
=============================================================================
