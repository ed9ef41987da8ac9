---------------------------- MODULE BackupProofs ----------------------------
(***************************************************************************)
(* Proofs about Backup, for any number of threads and keys, dumps of any   *)
(* size and logs of any length.                                            *)
(***************************************************************************)
EXTENDS Backup, TLAPS

-----------------------------------------------------------------------------
(* The inductive invariant *)

Labels == {"idle", "upload", "wait", "clean", "head", "left"}

\* A request at work has a key.
HasKey == \A t \in Threads : Inside(t) => job[t].key \in Keys

\* vzdump ends well only with the whole dump.
EndsWhole == \A t \in Threads : job[t].proc = "ok" => job[t].dumped = Size

\* An upload that has succeeded came after the end of vzdump's output, and what
\* it has read is under the key until the request goes on.
Put ==
    \A t \in Threads :
        pc[t] = "wait" /\ job[t].uploadOk =>
            /\ job[t].proc # "running"
            /\ bucket[job[t].key] = [by |-> t, parts |-> job[t].dumped]

\* A request that will be answered with ok has its whole object there.
Complete ==
    \A t \in Threads :
        pc[t] = "head" => Whole(bucket[job[t].key]) /\ bucket[job[t].key].by = t

\* Somebody answers for every incomplete object.
AccountedFor(k) ==
    \/ bucket[k] = None \/ Whole(bucket[k]) \/ k \in debris
    \/ \E t \in Threads : pc[t] \in {"wait", "clean"} /\ job[t].key = k
Accounted == \A k \in Keys : AccountedFor(k)

\* vzdump writes no more lines than it has.
Logged == \A t \in Threads : job[t].toLog + job[t].stderr <= MaxLog

Held == TypeOK /\ OneAtATime /\ HasKey /\ Logged
IInv == Held /\ EndsWhole /\ Put /\ Complete /\ Accounted

LEMMA NoJobTyped ==
    NoJob \in Jobs /\ NoJob.proc = "none" /\ NoJob.toLog = 0 /\ NoJob.stderr = 0
BY BackupAssumption DEF NoJob, Jobs

LEMMA InitHolds == Init => IInv
<1> SUFFICES ASSUME Init
    PROVE  IInv
    OBVIOUS
<1>1. TypeOK
    BY NoJobTyped, BackupAssumption DEF Init, TypeOK, Objects, Running
<1>2. OneAtATime /\ HasKey /\ Logged /\ EndsWhole /\ Put /\ Complete
    BY NoJobTyped, BackupAssumption DEF Init, OneAtATime, HasKey, Logged, EndsWhole, Put, Complete, Running, Inside
<1>3. Accounted
    BY BackupAssumption DEF Init, Accounted, AccountedFor, Whole
<1> QED
    BY <1>1, <1>2, <1>3 DEF IInv, Held

-----------------------------------------------------------------------------
(* Steps of vzdump *)

VzdumpStep(t) == Dump(t) \/ Silence(t) \/ Log(t) \/ ExitOk(t) \/ ExitBad(t)

\* What they change: the process and its counters, and after the end of its
\* output no longer what it has dumped.
LEMMA VzdumpSteps ==
    ASSUME Held, NEW t \in Threads, VzdumpStep(t)
    PROVE  /\ UNCHANGED <<lock, pc, bucket, debris>>
           /\ Running(t)
           /\ job' \in [Threads -> Jobs]
           /\ \A u \in Threads : u # t => job'[u] = job[u]
           /\ job'[t].toLog + job'[t].stderr <= MaxLog
           /\ job'[t].key = job[t].key /\ job'[t].uploadOk = job[t].uploadOk
           /\ job'[t].proc = "ok" => job[t].dumped = Size /\ job'[t].dumped = Size
           /\ job[t].proc # "running" =>
                job'[t].proc # "running" /\ job'[t].dumped = job[t].dumped
<1> USE BackupAssumption DEF Held, TypeOK, Logged, Running, Jobs
<1>1. CASE Dump(t)
    <2>1. job[t].dumped + 1 \in 0..Size
        BY <1>1 DEF Dump
    <2> QED
        BY <1>1, <2>1 DEF Dump
<1>2. CASE Log(t)
    <2>1. job[t].toLog - 1 \in 0..MaxLog
        BY <1>2 DEF Log
    <2>2. job[t].stderr + 1 \in 0..MaxLog
        BY <1>2 DEF Log
    <2> QED
        BY <1>2, <2>1, <2>2 DEF Log
<1>3. CASE ExitOk(t)
    BY <1>3 DEF ExitOk
<1>4. CASE ExitBad(t)
    BY <1>4 DEF ExitBad
<1>5. CASE Silence(t)
    BY <1>5 DEF Silence
<1> QED
    BY <1>1, <1>2, <1>3, <1>4, <1>5 DEF VzdumpStep

LEMMA VzdumpKeeps ==
    ASSUME IInv, NEW t \in Threads, VzdumpStep(t)
    PROVE  IInv'
<1>1. Held
    BY DEF IInv
<1> USE VzdumpSteps, <1>1
<1>2. Held'
    BY DEF Held, TypeOK, OneAtATime, HasKey, Logged, Running, Inside
<1>3. EndsWhole'
    BY DEF IInv, EndsWhole
<1>4. Put'
    BY DEF IInv, Put
<1>5. Complete' /\ Accounted'
    BY DEF IInv, Complete, Accounted, AccountedFor, Whole, Held, TypeOK
<1> QED
    BY <1>2, <1>3, <1>4, <1>5 DEF IInv

-----------------------------------------------------------------------------
(* Steps of the handler *)

\* Nobody else is at work beside a thread at work, except a vzdump that was
\* left.
Apart(t) == \A u \in Threads \ {t} : pc[u] \in {"idle", "left"} /\ (Running(u) => pc[u] = "left")

LEMMA Alone ==
    ASSUME Held, NEW t \in Threads, Inside(t)
    PROVE  lock = t /\ lock # None /\ Apart(t)
BY BackupAssumption DEF Held, OneAtATime, Inside, Apart

LEMMA NewJob ==
    ASSUME NEW k \in Keys, NEW n \in 0..MaxLog
    PROVE  LET new == [NoJob EXCEPT !.key = k, !.out = TRUE, !.proc = "running", !.toLog = n]
           IN  /\ new \in Jobs /\ new.key = k /\ new.proc = "running"
               /\ new.toLog + new.stderr <= MaxLog
<1>1. [NoJob EXCEPT !.key = k, !.out = TRUE, !.proc = "running", !.toLog = n] \in Jobs
    BY NoJobTyped, BackupAssumption DEF Jobs
<1> QED
    BY <1>1, NoJobTyped, BackupAssumption DEF Jobs

LEMMA BeginKeeps ==
    ASSUME IInv, NEW t \in Threads, Begin(t)
    PROVE  IInv'
<1> USE BackupAssumption DEF IInv, Held
<1>1. PICK k \in Keys, n \in 0..MaxLog :
          job' = [job EXCEPT ![t] = [NoJob EXCEPT !.key = k, !.out = TRUE,
                                                  !.proc = "running", !.toLog = n]]
    BY DEF Begin
<1>2. /\ job'[t] \in Jobs /\ job'[t].key = k /\ job'[t].proc = "running"
      /\ job'[t].toLog + job'[t].stderr <= MaxLog
      /\ job' = [job EXCEPT ![t] = job'[t]]
    BY <1>1, NewJob DEF TypeOK
<1>3. Held'
    <2>1. TypeOK'
        BY <1>2 DEF Begin, GoTo, TypeOK, Running
    <2>2. OneAtATime'
        BY <1>2 DEF Begin, GoTo, TypeOK, OneAtATime, Running, Inside
    <2>3. HasKey' /\ Logged'
        BY <1>2 DEF Begin, GoTo, TypeOK, HasKey, Logged, Inside
    <2> QED
        BY <2>1, <2>2, <2>3
<1>4. EndsWhole' /\ Put' /\ Complete'
    BY <1>2 DEF Begin, GoTo, TypeOK, EndsWhole, Put, Complete
<1>5. Accounted'
    <2> SUFFICES ASSUME NEW x \in Keys, NEW u \in Threads,
                        pc[u] \in {"wait", "clean"}, job[u].key = x
        PROVE  pc'[u] \in {"wait", "clean"} /\ job'[u].key = x
        BY DEF Begin, Accounted, AccountedFor, Whole
    <2> QED
        BY <1>2 DEF Begin, GoTo, TypeOK
<1> QED
    BY <1>3, <1>4, <1>5

LEMMA Closed ==
    ASSUME job \in [Threads -> Jobs], NEW t \in Threads, job' = [job EXCEPT ![t].out = FALSE]
    PROVE  job' \in [Threads -> Jobs]
BY DEF Jobs

LEMMA ClosedFailed ==
    ASSUME job \in [Threads -> Jobs], NEW t \in Threads,
           job' = [job EXCEPT ![t].out = FALSE, ![t].uploadOk = FALSE]
    PROVE  job' \in [Threads -> Jobs]
<1> DEFINE out == [job[t] EXCEPT !.out = FALSE]
<1>1. out \in Jobs
    BY DEF Jobs
<1> HIDE DEF out
<1>2. [out EXCEPT !.uploadOk = FALSE] \in Jobs
    BY <1>1 DEF Jobs
<1>3. job' = [job EXCEPT ![t] = [out EXCEPT !.uploadOk = FALSE]]
    BY DEF out
<1> QED
    BY <1>2, <1>3

LEMMA StoredTyped ==
    ASSUME TypeOK, NEW t \in Threads, job[t].key \in Keys, Stored(t) \/ UNCHANGED bucket
    PROVE  bucket' \in [Keys -> Objects \cup {None}]
<1>1. [by |-> t, parts |-> job[t].dumped] \in Objects
    BY DEF TypeOK, Jobs, Objects
<1> QED
    BY <1>1 DEF Stored, TypeOK

LEMMA UploadKeeps ==
    ASSUME IInv, NEW t \in Threads, Upload(t) \/ UploadFails(t)
    PROVE  IInv'
<1> USE BackupAssumption DEF IInv, Held
<1>1. pc[t] = "upload" /\ pc' = [pc EXCEPT ![t] = "wait"] /\ lock' = lock
    BY DEF Upload, UploadFails, GoTo
<1>2. lock = t /\ job[t].key \in Keys /\ Apart(t)
    BY <1>1, Alone DEF HasKey, Inside
<1>3. /\ job' \in [Threads -> Jobs]
      /\ \A u \in Threads : /\ job'[u].key = job[u].key /\ job'[u].proc = job[u].proc
                           /\ job'[u].dumped = job[u].dumped
                           /\ job'[u].toLog = job[u].toLog /\ job'[u].stderr = job[u].stderr
    <2>1. job' \in [Threads -> Jobs]
        BY Closed, ClosedFailed DEF Upload, UploadFails, TypeOK
    <2>2. CASE Upload(t)
        BY <2>1, <2>2 DEF Upload, TypeOK, Jobs
    <2>3. CASE UploadFails(t)
        BY <2>1, <2>3 DEF UploadFails, TypeOK, Jobs
    <2> QED
        BY <2>2, <2>3
<1>4. /\ debris' \in {debris, debris \ {job[t].key}}
      /\ \/ Stored(t) /\ job[t].proc # "running"
         \/ job'[t].uploadOk = FALSE /\ UNCHANGED <<bucket, debris>>
      /\ job'[t].uploadOk => Stored(t)
    BY DEF Upload, UploadFails, Stored, TypeOK, Jobs
<1>5. Held'
    <2>2. TypeOK'
        <3>1. bucket' \in [Keys -> Objects \cup {None}] /\ debris' \subseteq Keys
            BY <1>2, <1>4, StoredTyped DEF TypeOK
        <3>2. lock' = lock /\ pc' \in [Threads -> Labels]
            BY <1>1 DEF TypeOK, Labels
        <3>3. \A u \in Threads : pc'[u] \in {"clean", "head"} => ~Running(u)'
            BY <1>1, <1>3 DEF TypeOK, Running
        <3> QED
            BY <1>3, <3>1, <3>2, <3>3 DEF TypeOK, Labels
    <2>3. OneAtATime' /\ HasKey' /\ Logged'
        BY <1>1, <1>2, <1>3 DEF TypeOK, OneAtATime, HasKey, Logged, Running, Inside
    <2> QED
        BY <2>2, <2>3
<1>6. EndsWhole' /\ Complete'
    BY <1>1, <1>2, <1>3 DEF EndsWhole, Complete, TypeOK, Apart
<1>7. Put'
    BY <1>1, <1>2, <1>3, <1>4 DEF Put, Stored, TypeOK, Apart
<1>8. Accounted'
    <2> SUFFICES ASSUME NEW k \in Keys
        PROVE  AccountedFor(k)'
        BY DEF Accounted
    <2>1. CASE k = job[t].key
        BY <2>1, <1>1, <1>3 DEF TypeOK, AccountedFor
    <2>2. CASE k # job[t].key
        BY <2>2, <1>1, <1>2, <1>3, <1>4 DEF Accounted, AccountedFor, Whole, TypeOK, Stored
    <2> QED
        BY <2>1, <2>2
<1> QED
    BY <1>5, <1>6, <1>7, <1>8

\* The request is over and its vzdump is left; nobody is inside any more.
LEMMA RaiseKeeps ==
    ASSUME IInv, NEW t \in Threads, UploadRaises(t)
    PROVE  IInv'
<1> USE BackupAssumption DEF IInv, Held
<1>1. /\ pc[t] = "upload" /\ pc' = [pc EXCEPT ![t] = "left"] /\ lock' = None
      /\ debris' = debris \cup {job[t].key}
      /\ job' = [job EXCEPT ![t] = [job[t] EXCEPT !.out = FALSE, !.key = None]]
    BY DEF UploadRaises, GoTo
<1>2. job[t].key \in Keys /\ Apart(t)
    BY <1>1, Alone DEF HasKey, Inside
<1>3. \A u \in Threads : ~Inside(u)' /\ pc'[u] \in Labels /\ (Running(u)' => pc'[u] = "left")
    BY <1>1, <1>2 DEF TypeOK, Apart, Inside, Running, Labels
<1>4. /\ job' \in [Threads -> Jobs]
      /\ \A u \in Threads : /\ job'[u].proc = job[u].proc /\ job'[u].dumped = job[u].dumped
                           /\ job'[u].toLog = job[u].toLog /\ job'[u].stderr = job[u].stderr
    <2>1. [job[t] EXCEPT !.out = FALSE, !.key = None] \in Jobs
        BY DEF TypeOK, Jobs
    <2> QED
        BY <1>1, <2>1 DEF TypeOK, Jobs
<1>5. TypeOK'
    <2>1. bucket' \in [Keys -> Objects \cup {None}]
        BY <1>2, StoredTyped DEF UploadRaises, TypeOK
    <2>2. lock' \in Threads \cup {None} /\ pc' \in [Threads -> Labels] /\ debris' \subseteq Keys
        BY <1>1, <1>2, <1>3 DEF TypeOK, Labels
    <2> QED
        BY <1>3, <1>4, <2>1, <2>2 DEF TypeOK, Labels, Inside
<1>6. OneAtATime' /\ HasKey' /\ Put' /\ Complete'
    BY <1>3 DEF OneAtATime, HasKey, Put, Complete, Inside
<1>7. Logged' /\ EndsWhole'
    BY <1>4 DEF Logged, EndsWhole
<1>8. Accounted'
    <2> SUFFICES ASSUME NEW k \in Keys, k # job[t].key
        PROVE  AccountedFor(k)'
        BY <1>1 DEF Accounted, AccountedFor
    <2>1. bucket'[k] = bucket[k]
        BY <1>2 DEF UploadRaises, Stored, TypeOK
    <2>2. bucket[k] = None \/ Whole(bucket[k]) \/ k \in debris
        BY <1>1, <1>2 DEF Accounted, AccountedFor, Apart
    <2> QED
        BY <1>1, <2>1, <2>2 DEF AccountedFor, Whole
<1> QED
    BY <1>5, <1>6, <1>7, <1>8

LEMMA GoneKeeps ==
    ASSUME IInv, NEW t \in Threads, Gone(t)
    PROVE  IInv'
<1> USE BackupAssumption, NoJobTyped DEF IInv, Held
<1>1. /\ pc[t] = "left" /\ pc' = [pc EXCEPT ![t] = "idle"]
      /\ job' = [job EXCEPT ![t] = NoJob] /\ UNCHANGED <<lock, bucket, debris>>
    BY DEF Gone, GoTo
<1>2. Held'
    BY <1>1 DEF TypeOK, OneAtATime, HasKey, Logged, Inside, Running
<1>3. EndsWhole' /\ Put' /\ Complete'
    BY <1>1 DEF TypeOK, EndsWhole, Put, Complete
<1>4. Accounted'
    <2> SUFFICES ASSUME NEW k \in Keys
        PROVE  AccountedFor(k)'
        BY DEF Accounted
    <2>1. \A u \in Threads : pc[u] \in {"wait", "clean"} => pc'[u] = pc[u] /\ job'[u] = job[u]
        BY <1>1 DEF TypeOK
    <2> QED
        BY <1>1, <2>1 DEF Accounted, AccountedFor, Whole
<1> QED
    BY <1>2, <1>3, <1>4

LEMMA ClosedEnded ==
    ASSUME job \in [Threads -> Jobs], NEW t \in Threads,
           job' = [job EXCEPT ![t].proc = "none", ![t].stderr = 0, ![t].toLog = 0]
    PROVE  job' \in [Threads -> Jobs]
<1>1. 0 \in 0..MaxLog
    BY BackupAssumption
<1>2. [job[t] EXCEPT !.proc = "none", !.stderr = 0, !.toLog = 0] \in Jobs
    BY <1>1 DEF Jobs
<1>3. job' = [job EXCEPT ![t] = [job[t] EXCEPT !.proc = "none", !.stderr = 0, !.toLog = 0]]
    OBVIOUS
<1> QED
    BY <1>2, <1>3

LEMMA WaitKeeps ==
    ASSUME IInv, NEW t \in Threads, Wait(t)
    PROVE  IInv'
<1> USE BackupAssumption DEF IInv, Held
<1>1. /\ pc[t] = "wait" /\ UNCHANGED <<lock, bucket, debris>>
      /\ pc' = [pc EXCEPT ![t] = IF job[t].proc = "ok" /\ job[t].uploadOk THEN "head" ELSE "clean"]
      /\ job' = [job EXCEPT ![t].proc = "none", ![t].stderr = 0, ![t].toLog = 0]
    BY DEF Wait, GoTo
<1>2. lock = t /\ Apart(t)
    BY <1>1, Alone DEF Inside
<1>3. job' \in [Threads -> Jobs]
    BY <1>1, ClosedEnded DEF TypeOK
<1>4. /\ \A u \in Threads \ {t} : job'[u] = job[u]
      /\ \A u \in Threads : job'[u].key = job[u].key
      /\ job'[t].proc = "none" /\ job'[t].toLog = 0 /\ job'[t].stderr = 0
    BY <1>1 DEF TypeOK, Jobs
<1>5. Held'
    BY <1>1, <1>2, <1>3, <1>4 DEF TypeOK, OneAtATime, HasKey, Logged, Running, Inside
<1>6. EndsWhole' /\ Put'
    BY <1>1, <1>4 DEF TypeOK, EndsWhole, Put
<1>7. Complete'
    <2>1. pc'[t] = "head" => Whole(bucket[job[t].key]) /\ bucket[job[t].key].by = t
        <3> SUFFICES ASSUME pc'[t] = "head"
            PROVE  Whole(bucket[job[t].key]) /\ bucket[job[t].key].by = t
            OBVIOUS
        <3>1. job[t].proc = "ok" /\ job[t].uploadOk /\ job[t].key \in Keys
            BY <1>1 DEF TypeOK, HasKey, Inside
        <3>2. bucket[job[t].key] = [by |-> t, parts |-> Size]
            BY <3>1, <1>1 DEF EndsWhole, Put
        <3> QED
            BY <3>1, <3>2 DEF TypeOK, Objects, Whole
    <2> QED
        BY <1>1, <1>4, <2>1 DEF TypeOK, Complete, Whole
<1>8. Accounted'
    <2> SUFFICES ASSUME NEW k \in Keys
        PROVE  AccountedFor(k)'
        BY DEF Accounted
    <2>1. CASE pc'[t] = "head" /\ job[t].key = k
        <3>1. Whole(bucket'[k])
            BY <1>1, <1>4, <1>7, <2>1 DEF Complete, Whole
        <3> QED
            BY <3>1 DEF AccountedFor, Whole
    <2>2. CASE ~(pc'[t] = "head" /\ job[t].key = k)
        BY <1>1, <1>4, <2>2 DEF TypeOK, Accounted, AccountedFor, Whole
    <2> QED
        BY <2>1, <2>2
<1> QED
    BY <1>5, <1>6, <1>7, <1>8

\* What an answer leaves.
LEMMA AnswerKeeps ==
    ASSUME IInv, NEW t \in Threads, Inside(t), Answer(t)
    PROVE  /\ lock' = None
           /\ \A u \in Threads : ~Inside(u)' /\ (Running(u)' => pc'[u] = "left")
           /\ pc' \in [Threads -> Labels]
           /\ job' \in [Threads -> Jobs]
           /\ OneAtATime' /\ HasKey' /\ Logged' /\ EndsWhole' /\ Put' /\ Complete'
<1> USE BackupAssumption, NoJobTyped DEF IInv, Held
<1>1. Apart(t)
    BY Alone
<1>2. /\ lock' = None
      /\ \A u \in Threads : ~Inside(u)' /\ (Running(u)' => pc'[u] = "left")
      /\ pc' \in [Threads -> Labels]
      /\ job' \in [Threads -> Jobs]
    BY <1>1 DEF Answer, GoTo, TypeOK, Apart, Inside, Running, Labels
<1>3. Logged' /\ EndsWhole'
    BY DEF Answer, TypeOK, Logged, EndsWhole
<1> QED
    BY <1>2, <1>3 DEF OneAtATime, HasKey, Put, Complete, Inside

LEMMA EndKeeps ==
    ASSUME IInv, NEW t \in Threads, Clean(t) \/ Head(t)
    PROVE  IInv'
<1> USE BackupAssumption
<1>1. pc[t] \in {"clean", "head"} /\ Inside(t) /\ Answer(t)
    BY DEF Clean, Head, Inside
<1>2. job[t].key \in Keys /\ Apart(t)
    BY <1>1, Alone DEF IInv, Held, HasKey
<1>3. TypeOK'
    BY <1>1, <1>2, AnswerKeeps DEF Clean, Head, TypeOK, IInv, Held, Labels, Inside
<1>4. Accounted'
    <2>1. CASE Head(t)
        BY <2>1, <1>2 DEF IInv, Accounted, AccountedFor, Head, Complete, Whole, Apart
    <2>2. CASE Clean(t)
        BY <2>2, <1>2 DEF IInv, Held, TypeOK, Accounted, AccountedFor, Clean, Whole, Apart
    <2> QED
        BY <2>1, <2>2
<1> QED
    BY <1>1, <1>3, <1>4, AnswerKeeps DEF IInv, Held

LEMMA CrashKeeps ==
    ASSUME IInv, AgentCrash
    PROVE  IInv'
<1> USE BackupAssumption, NoJobTyped DEF IInv, Held
<1>1. Held'
    BY DEF AgentCrash, TypeOK, OneAtATime, HasKey, Logged, Running, Inside
<1>2. EndsWhole' /\ Put' /\ Complete'
    BY DEF AgentCrash, EndsWhole, Put, Complete
<1>3. Accounted'
    BY DEF AgentCrash, Accounted, AccountedFor, Whole, Inside
<1> QED
    BY <1>1, <1>2, <1>3

-----------------------------------------------------------------------------
(* The theorems *)

LEMMA StutterKeeps ==
    ASSUME IInv, UNCHANGED vars
    PROVE  IInv'
BY DEF vars, IInv, Held, TypeOK, OneAtATime, HasKey, Logged, EndsWhole, Put, Complete,
       Accounted, AccountedFor, Running, Whole, Inside

LEMMA NextKeeps ==
    ASSUME IInv, [Next]_vars
    PROVE  IInv'
BY BeginKeeps, UploadKeeps, RaiseKeeps, GoneKeeps, WaitKeeps, EndKeeps, VzdumpKeeps, CrashKeeps, StutterKeeps
   DEF Next, Refuse, VzdumpStep

LEMMA Invariant == Spec => []IInv
<1>1. IInv /\ [Next]_vars => IInv'
    BY NextKeeps
<1> QED
    BY InitHolds, <1>1, PTL DEF Spec

\* Every variable keeps its type, whatever happens to vzdump and its pipes, and
\* no request goes past the wait while its vzdump runs.
THEOREM TypeCorrect == Spec => []TypeOK
<1>1. IInv => TypeOK
    BY DEF IInv, Held
<1> QED
    BY Invariant, <1>1, PTL

\* The lock admits one request, and every vzdump that runs is that of the
\* request inside or was left behind by an exception that line 89 does not name.
THEOREM Exclusion == Spec => []OneAtATime
<1>1. IInv => OneAtATime
    BY DEF IInv, Held
<1> QED
    BY Invariant, <1>1, PTL

\* With the lock free every incomplete object is one whose clean-up failed or
\* never came.
THEOREM NothingIncomplete == Spec => []NoDebris
<1>1. IInv => NoDebris
    BY BackupAssumption DEF IInv, Held, OneAtATime, Accounted, AccountedFor, NoDebris, Inside
<1> QED
    BY Invariant, <1>1, PTL

\* An answer of ok is given of the request's own whole object.
THEOREM OkIsComplete == Spec => OkMeansComplete
<1>1. IInv /\ [Next]_vars =>
          [\A t \in Threads :
             Head(t) => /\ Whole(bucket[job[t].key])
                        /\ bucket[job[t].key].by = t]_vars
    BY DEF IInv, Complete, Head
<1> QED
    BY Invariant, <1>1, PTL DEF Spec, OkMeansComplete
=============================================================================
