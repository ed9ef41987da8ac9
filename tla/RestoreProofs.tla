--------------------------- MODULE RestoreProofs ---------------------------
(***************************************************************************)
(* Proofs about Restore, for any number of threads, VMs and parts.         *)
(***************************************************************************)
EXTENDS Restore, TLAPS

-----------------------------------------------------------------------------
(* What the commands make of the VMs *)

VmMaps == [Vmids -> VMs \cup {None}]
Makers == Threads \cup {"done", None}

\* The VM v is the one that t has made, and ms of it are in place.
Has(t, v, ms) ==
    vm[v] # None /\ vm[v].made["clone"] = t /\ \A m \in ms : vm[v].made[m] # None

LEMMA Apart == None \notin VMs /\ None \notin Threads /\ None # "done" /\ "done" \notin Threads
BY ProxmoxAssumption

LEMMA FreshTyped ==
    ASSUME NEW t \in Threads, NEW l \in BOOLEAN
    PROVE  /\ Fresh(t) \in VMs /\ Fresh(t).made["clone"] = t /\ ~Fresh(t).locked
           /\ \A m \in Makings : Fresh(t).made[m] \in {t, None}
           /\ [Fresh(t) EXCEPT !.locked = l] \in VMs
           /\ [Fresh(t) EXCEPT !.locked = l].made = Fresh(t).made
<1>1. /\ Fresh(t) \in VMs /\ Fresh(t).made["clone"] = t /\ ~Fresh(t).locked
      /\ \A m \in Makings : Fresh(t).made[m] \in {t, None}
    BY DEF Fresh, VMs, Makings
<1> QED
    BY <1>1 DEF VMs

LEMMA CompleteTyped == Complete \in VMs /\ [Complete EXCEPT !.running = TRUE] \in VMs
<1>1. Complete \in VMs
    BY DEF Complete, VMs
<1> QED
    BY <1>1 DEF VMs

LEMMA MadeTyped ==
    ASSUME vm \in VmMaps, NEW v \in Vmids, vm[v] # None, NEW m \in Makings, NEW t \in Threads
    PROVE  /\ Made(v, m, t) \in VmMaps
           /\ \A w \in Vmids : w # v => Made(v, m, t)[w] = vm[w]
           /\ Made(v, m, t)[v] # None
           /\ Made(v, m, t)[v].made = [vm[v].made EXCEPT ![m] = t]
           /\ Made(v, m, t)[v].locked = vm[v].locked
<1>1. vm[v] \in VMs
    BY DEF VmMaps
<1>2. [vm[v].made EXCEPT ![m] = t] \in [Makings -> Makers]
    BY <1>1 DEF VMs, Makers
<1>3. [vm[v] EXCEPT !.made = [vm[v].made EXCEPT ![m] = t]] \in VMs
    BY <1>1, <1>2 DEF VMs, Makers
<1>4. Made(v, m, t) = [vm EXCEPT ![v] = [vm[v] EXCEPT !.made = [vm[v].made EXCEPT ![m] = t]]]
    BY DEF Made
<1>5. /\ [vm[v] EXCEPT !.made = [vm[v].made EXCEPT ![m] = t]].made = [vm[v].made EXCEPT ![m] = t]
      /\ [vm[v] EXCEPT !.made = [vm[v].made EXCEPT ![m] = t]].locked = vm[v].locked
    BY <1>1 DEF VMs
<1> QED
    BY <1>3, <1>4, <1>5, Apart DEF VmMaps

LEMMA RunTyped ==
    ASSUME vm \in VmMaps, NEW v \in Vmids, vm[v] # None, NEW b \in BOOLEAN
    PROVE  /\ [vm EXCEPT ![v].running = b] \in VmMaps
           /\ \A w \in Vmids : w # v => [vm EXCEPT ![v].running = b][w] = vm[w]
           /\ [vm EXCEPT ![v].running = b][v] # None
           /\ [vm EXCEPT ![v].running = b][v].made = vm[v].made
           /\ [vm EXCEPT ![v].running = b][v].locked = vm[v].locked
<1>1. vm[v] \in VMs
    BY DEF VmMaps
<1>2. /\ [vm[v] EXCEPT !.running = b] \in VMs
      /\ [vm[v] EXCEPT !.running = b].made = vm[v].made
      /\ [vm[v] EXCEPT !.running = b].locked = vm[v].locked
    BY <1>1 DEF VMs
<1> QED
    BY <1>2, Apart DEF VmMaps

LEMMA ReleasedTyped ==
    ASSUME NEW ts \in SUBSET Threads, NEW map \in VmMaps, Released(ts, map)
    PROVE  vm' \in VmMaps
<1> DEFINE rel(v) == [m \in Makings |-> IF map[v].made[m] \in ts THEN "done" ELSE map[v].made[m]]
<1>1. \A v \in Vmids : map[v] # None => [map[v] EXCEPT !.made = rel(v)] \in VMs
    BY DEF VmMaps, VMs
<1>2. vm' = [v \in Vmids |-> IF map[v] = None THEN None ELSE [map[v] EXCEPT !.made = rel(v)]]
    BY DEF Released
<1> QED
    BY <1>1, <1>2 DEF VmMaps

-----------------------------------------------------------------------------
(* The invariant *)

\* How far the parts of t's object have come, and what its processes have seen
\* of them.
Fed(t) ==
    LET j == job[t] IN
    /\ pc[t] = "fetch" => j.restored = 0 /\ j.zip = "none" /\ j.qm = "none"
    /\ j.sink <=> pc[t] = "feed"
    /\ j.zip # "none" => j.packed /\ pc[t] \in {"feed", "waitZip", "left"}
    /\ j.zip = "ok" => j.decoded = Size /\ j.fed = Size /\ ~j.sink
    /\ pc[t] \in {"feed", "waitZip", "waitQm"} => j.qm # "none"
    /\ pc[t] = "left" /\ j.qm = "none" => j.restored = 0
    /\ j.unpacked => pc[t] \in {"waitQm", "set", "start"}
    /\ j.unpacked /\ j.packed => j.decoded = Size /\ j.fed = Size
    /\ j.qm = "ok" => 0 < j.restored /\ j.restored = Offered(t) /\ AllOffered(t)
    /\ pc[t] \in {"set", "start"} => j.qm = "none" /\ (j.packed => j.restored = Size)

Part(t) ==
    /\ pc[t] # "idle" => Fed(t)
    /\ pc[t] = "idle" => job[t].zip = "none" /\ job[t].qm = "none"

Parts == \A t \in Threads : Part(t)

Typed == TypeOK /\ OneAtATime /\ Parts

\* The request of t is under way.
Inside(t) == pc[t] \notin {"idle", "left"}

LEMMA HolderAlone ==
    ASSUME Typed, NEW t \in Threads, Inside(t)
    PROVE  lock = t /\ \A u \in Threads \ {t} : ~Inside(u)
BY DEF Typed, OneAtATime, Inside

\* Whose process runs is not idle.
LEMMA RunnerBusy ==
    ASSUME Typed, NEW t \in Threads, job[t].zip # "none" \/ job[t].qm # "none"
    PROVE  pc[t] # "idle"
BY DEF Typed, Parts, Part

LEMMA PartKept ==
    ASSUME NEW u \in Threads, pc'[u] = pc[u], job'[u] = job[u], Part(u)
    PROVE  Part(u)'
BY DEF Part, Fed, Offered, AllOffered, Unpacking

\* A step of t that leaves the job of the others alone, and the lock unless t
\* is inside.
LEMMA StepTyped ==
    ASSUME Typed, TypeOK', NEW t \in Threads,
           \A u \in Threads \ {t} : pc'[u] = pc[u] /\ job'[u] = job[u],
           \/ lock' = lock /\ (Inside(t)' => Inside(t))
           \/ Inside(t) /\ lock' = None /\ ~Inside(t)',
           Part(t)'
    PROVE  Typed'
<1>1. Parts'
    BY PartKept DEF Typed, Parts
<1>2. \A u \in Threads : Inside(u)' => lock' = u
    BY HolderAlone DEF Typed, OneAtATime, Inside
<1>3. OneAtATime'
    BY <1>1, <1>2 DEF OneAtATime, Parts, Part, Inside
<1> QED
    BY <1>1, <1>3 DEF Typed

\* The processes that are fed.
LEMMA ProcessTyped ==
    ASSUME Typed, NEW t \in Threads,
           Decode(t) \/ DecodeEnds(t) \/ DecodeFails(t) \/ Write(t) \/ Stall(t)
    PROVE  Typed'
<1>1. /\ pc' = pc /\ lock' = lock /\ vm' = vm /\ robbed' = robbed
      /\ pc[t] # "idle" /\ Part(t) /\ TypeOK
    BY RunnerBusy DEF Decode, DecodeEnds, DecodeFails, Write, Stall, Unpacking, Restoring, vms,
       Typed, Parts
<1>2. TypeOK' /\ Part(t)'
    <2> USE RestoreAssumption, <1>1 DEF TypeOK, Part, Fed, Jobs, Offered, AllOffered, Unpacking,
            Restoring
    <2>1. CASE Decode(t)
        <3>1. CASE job' = [job EXCEPT ![t].decoded = @ + 1]
            <4>1. job[t].fed \in 0..Size /\ job[t].decoded + 1 \in 0..Size
                BY <2>1 DEF Decode
            <4> QED
                BY <2>1, <3>1, <4>1 DEF Decode
        <3>2. CASE job' = [job EXCEPT ![t].zip = "bad"]
            BY <2>1, <3>2 DEF Decode
        <3> QED
            BY <2>1, <3>1, <3>2 DEF Decode
    <2>2. CASE DecodeEnds(t)
        BY <2>2 DEF DecodeEnds
    <2>3. CASE DecodeFails(t)
        BY <2>3 DEF DecodeFails
    <2>4. CASE Write(t)
        BY <2>4 DEF Write
    <2>5. CASE Stall(t)
        BY <2>5 DEF Stall
    <2> QED
        BY <2>1, <2>2, <2>3, <2>4, <2>5
<1>3. \A u \in Threads \ {t} : job'[u] = job[u]
    BY <1>1 DEF Decode, DecodeEnds, DecodeFails, Write, Stall, TypeOK
<1> QED
    BY <1>1, <1>2, <1>3, StepTyped DEF Inside

LEMMA JobFields ==
    ASSUME NEW j \in Jobs, NEW b \in BOOLEAN
    PROVE  /\ [j EXCEPT !.packed = b] \in Jobs /\ [j EXCEPT !.sink = b] \in Jobs
           /\ [j EXCEPT !.pipeError = b] \in Jobs /\ [j EXCEPT !.unpacked = b] \in Jobs
           /\ [j EXCEPT !.zip = "none"] \in Jobs
BY DEF Jobs

LEMMA FetchTyped == ASSUME Typed, NEW t \in Threads, Fetch(t) PROVE Typed'
<1>1. PICK z \in BOOLEAN :
         job' = [job EXCEPT ![t].packed = z, ![t].sink = TRUE,
                            ![t].zip = IF z THEN "running" ELSE "none",
                            ![t].qm = "running"]
    BY DEF Fetch
<1> DEFINE zip == IF z THEN "running" ELSE "none"
           new == [job[t] EXCEPT !.packed = z, !.sink = TRUE, !.zip = zip, !.qm = "running"]
<1>2. job' = [job EXCEPT ![t] = new]
    BY <1>1
<1>3. /\ pc[t] = "fetch" /\ pc' = [pc EXCEPT ![t] = "feed"] /\ lock' = lock
      /\ vm' = vm /\ robbed' = robbed /\ TypeOK /\ Part(t)
    BY DEF Fetch, GoTo, vms, Typed, Parts
<1>4. new \in Jobs /\ new.target = job[t].target
    <2>1. job[t] \in Jobs
        BY <1>3 DEF TypeOK
    <2>2. [job[t] EXCEPT !.packed = z] \in Jobs
        BY <2>1, JobFields
    <2>3. [[job[t] EXCEPT !.packed = z] EXCEPT !.sink = TRUE] \in Jobs
        BY <2>2, JobFields
    <2>4. zip \in {"none", "running"}
        OBVIOUS
    <2> HIDE DEF zip
    <2> QED
        BY <2>1, <2>3, <2>4 DEF Jobs
<1>5. TypeOK'
    BY <1>2, <1>3, <1>4 DEF TypeOK
<1>6. Part(t)'
    BY <1>1, <1>3 DEF Part, Fed, Offered, AllOffered, Unpacking, TypeOK, Jobs
<1>7. \A u \in Threads \ {t} : pc'[u] = pc[u] /\ job'[u] = job[u]
    BY <1>2, <1>3 DEF TypeOK
<1> QED
    BY <1>3, <1>5, <1>6, <1>7, StepTyped DEF Inside

LEMMA FeedTyped == ASSUME Typed, NEW t \in Threads, Feed(t) \/ FeedEnds(t) PROVE Typed'
<1>1. /\ pc[t] = "feed" /\ lock' = lock /\ vm' = vm /\ robbed' = robbed /\ TypeOK /\ Part(t)
      /\ pc' \in {pc, [pc EXCEPT ![t] = "waitZip"]}
    BY DEF Feed, FeedEnds, GoTo, vms, Typed, Parts
<1>2. TypeOK' /\ Part(t)'
    <2>1. CASE Feed(t)
        BY <1>1, <2>1, RestoreAssumption
        DEF Feed, TypeOK, Part, Fed, Jobs, Offered, AllOffered, Unpacking, vms
    <2>2. CASE FeedEnds(t)
        <3>1. PICK e \in BOOLEAN : job' = [job EXCEPT ![t].sink = FALSE, ![t].pipeError = e]
            BY <2>2 DEF FeedEnds
        <3> DEFINE new == [[job[t] EXCEPT !.sink = FALSE] EXCEPT !.pipeError = e]
        <3>2. new \in Jobs /\ new.target = job[t].target
            <4>1. job[t] \in Jobs
                BY <1>1 DEF TypeOK
            <4>2. [job[t] EXCEPT !.sink = FALSE] \in Jobs
                BY <4>1, JobFields
            <4>3. new \in Jobs
                BY <4>2, JobFields
            <4> QED
                BY <4>1, <4>3 DEF Jobs
        <3>3. job' = [job EXCEPT ![t] = new] /\ pc' = [pc EXCEPT ![t] = "waitZip"]
            BY <2>2, <3>1 DEF FeedEnds, GoTo
        <3>4. TypeOK'
            BY <1>1, <3>2, <3>3 DEF TypeOK
        <3>5. Part(t)'
            BY <1>1, <3>3 DEF Part, Fed, Offered, AllOffered, Unpacking, TypeOK, Jobs
        <3> QED
            BY <3>4, <3>5
    <2> QED
        BY <2>1, <2>2
<1>3. \A u \in Threads \ {t} : pc'[u] = pc[u] /\ job'[u] = job[u]
    BY <1>1 DEF Feed, FeedEnds, TypeOK
<1> QED
    BY <1>1, <1>2, <1>3, StepTyped DEF Inside

LEMMA WaitZipTyped == ASSUME Typed, NEW t \in Threads, WaitZip(t) PROVE Typed'
<1> DEFINE unpacked == ~job[t].packed \/ job[t].zip = "ok"
           new == [[job[t] EXCEPT !.unpacked = unpacked] EXCEPT !.zip = "none"]
<1>1. /\ pc[t] = "waitZip" /\ pc' = [pc EXCEPT ![t] = "waitQm"] /\ lock' = lock
      /\ vm' = vm /\ robbed' = robbed /\ TypeOK /\ Part(t)
      /\ job' = [job EXCEPT ![t] = new]
    BY DEF WaitZip, GoTo, vms, Typed, Parts
<1>2. new \in Jobs /\ new.target = job[t].target
    <2>1. job[t] \in Jobs /\ unpacked \in BOOLEAN
        BY <1>1 DEF TypeOK, Jobs
    <2> HIDE DEF unpacked
    <2>2. [job[t] EXCEPT !.unpacked = unpacked] \in Jobs
        BY <2>1, JobFields
    <2>3. new \in Jobs
        BY <2>2, JobFields
    <2> QED
        BY <2>1, <2>3 DEF Jobs
<1>3. TypeOK'
    BY <1>1, <1>2 DEF TypeOK
<1>4. Part(t)'
    BY <1>1 DEF Part, Fed, Offered, AllOffered, Unpacking, TypeOK, Jobs
<1>5. \A u \in Threads \ {t} : pc'[u] = pc[u] /\ job'[u] = job[u]
    BY <1>1 DEF TypeOK
<1> QED
    BY <1>1, <1>3, <1>4, <1>5, StepTyped DEF Inside

\* The exceptions that nobody catches.
LEMMA RaisesTyped ==
    ASSUME Typed, NEW t \in Threads, FetchRaises(t) \/ FeedRaises(t)
    PROVE  Typed'
<1>1. /\ pc[t] \in {"fetch", "feed"} /\ pc' = [pc EXCEPT ![t] = "left"] /\ lock' = None
      /\ vm' = vm /\ robbed' = robbed /\ TypeOK /\ Part(t)
    BY DEF FetchRaises, FeedRaises, Leave, GoTo, vms, Typed, Parts
<1>2. TypeOK' /\ Part(t)'
    <2>1. CASE FetchRaises(t)
        <3> DEFINE new == [[job[t] EXCEPT !.packed = TRUE] EXCEPT !.zip = "running"]
        <3>1. new \in Jobs /\ new.target = job[t].target
            <4>1. job[t] \in Jobs
                BY <1>1 DEF TypeOK
            <4>2. [job[t] EXCEPT !.packed = TRUE] \in Jobs
                BY <4>1, JobFields
            <4> QED
                BY <4>1, <4>2 DEF Jobs
        <3>2. job' = [job EXCEPT ![t] = new]
            BY <2>1 DEF FetchRaises
        <3>3. TypeOK'
            BY <1>1, <3>1, <3>2 DEF TypeOK
        <3>4. Part(t)'
            BY <1>1, <2>1, <3>2 DEF FetchRaises, Part, Fed, Offered, AllOffered, Unpacking, TypeOK, Jobs
        <3> QED
            BY <3>3, <3>4
    <2>2. CASE FeedRaises(t)
        <3> DEFINE new == [[job[t] EXCEPT !.sink = FALSE] EXCEPT !.pipeError = TRUE]
        <3>1. new \in Jobs /\ new.target = job[t].target
            <4>1. job[t] \in Jobs
                BY <1>1 DEF TypeOK
            <4>2. [job[t] EXCEPT !.sink = FALSE] \in Jobs
                BY <4>1, JobFields
            <4>3. new \in Jobs
                BY <4>2, JobFields
            <4> QED
                BY <4>1, <4>3 DEF Jobs
        <3>2. job' = [job EXCEPT ![t] = new]
            BY <2>2 DEF FeedRaises
        <3>3. TypeOK'
            BY <1>1, <3>1, <3>2 DEF TypeOK
        <3>4. Part(t)'
            BY <1>1, <3>2 DEF Part, Fed, Offered, AllOffered, Unpacking, TypeOK, Jobs
        <3> QED
            BY <3>3, <3>4
    <2> QED
        BY <2>1, <2>2
<1>3. \A u \in Threads \ {t} : pc'[u] = pc[u] /\ job'[u] = job[u]
    BY <1>1 DEF FetchRaises, FeedRaises, TypeOK
<1>4. Inside(t) /\ ~Inside(t)'
    BY <1>1 DEF Inside, TypeOK
<1> QED
    BY <1>1, <1>2, <1>3, <1>4, StepTyped

\* The VMs, as they are for Typed.
LEMMA VmsTyped == Typed => vm \in VmMaps /\ robbed \subseteq Threads
BY DEF Typed, TypeOK, VmMaps

LEMMA NoJobTyped ==
    /\ NoJob \in Jobs /\ NoJob.target = None /\ NoJob.zip = "none" /\ NoJob.qm = "none"
    /\ NoJob.restored = 0 /\ ~NoJob.sink /\ ~NoJob.unpacked
BY RestoreAssumption DEF NoJob, Jobs

\* The end of a request, and of what an exception has left of one.
LEMMA EndTyped ==
    ASSUME Typed, NEW t \in Threads, NEW after \in VmMaps,
           (Inside(t) /\ Answer(t, after)) \/ (Gone(t) /\ after = vm)
    PROVE  Typed'
<1>1. vm' \in VmMaps /\ robbed' \subseteq Threads
    BY VmsTyped, ReleasedTyped, Zenon DEF Answer, Gone, Released
<1>2. /\ job' = [job EXCEPT ![t] = NoJob] /\ pc' = [pc EXCEPT ![t] = "idle"]
      /\ lock' = lock \/ (Inside(t) /\ lock' = None)
    BY DEF Answer, Gone, GoTo
<1>3. TypeOK'
    BY <1>1, <1>2, NoJobTyped DEF Typed, TypeOK, VmMaps
<1>4. /\ \A u \in Threads \ {t} : pc'[u] = pc[u] /\ job'[u] = job[u]
      /\ pc'[t] = "idle" /\ job'[t] = NoJob
    BY <1>2 DEF Typed, TypeOK
<1>5. Part(t)' /\ ~Inside(t)'
    BY <1>4, NoJobTyped DEF Part, Inside
<1> QED
    BY <1>2, <1>3, <1>4, <1>5, StepTyped

LEMMA BeginTyped == ASSUME Typed, NEW t \in Threads, Begin(t) PROVE Typed'
<1>1. PICK v \in Vmids : job' = [job EXCEPT ![t] = [NoJob EXCEPT !.target = v]]
    BY DEF Begin
<1>2. /\ v # None /\ t # None /\ pc[t] = "idle" /\ pc' = [pc EXCEPT ![t] = "fetch"]
      /\ lock = None /\ lock' = t
    BY <1>1, ProxmoxAssumption DEF Begin, GoTo
<1> DEFINE new == [NoJob EXCEPT !.target = v]
<1>3. /\ new \in Jobs /\ new.target = v /\ new.restored = 0 /\ new.zip = "none" /\ new.qm = "none"
      /\ ~new.sink /\ ~new.unpacked
    BY NoJobTyped DEF Jobs
<1> HIDE DEF new
<1>4. job' = [job EXCEPT ![t] = new]
    BY <1>1 DEF new
<1>5. TypeOK'
    BY <1>2, <1>3, <1>4 DEF Typed, TypeOK, Begin, vms
<1>6. /\ \A u \in Threads \ {t} : pc'[u] = pc[u] /\ job'[u] = job[u]
      /\ pc'[t] = "fetch" /\ job'[t] = new
    BY <1>2, <1>4 DEF Typed, TypeOK
<1>7. Part(t)'
    BY <1>3, <1>6 DEF Part, Fed
<1>8. Parts'
    BY <1>6, <1>7, PartKept DEF Typed, Parts
<1>9. \A u \in Threads \ {t} : pc[u] \in {"idle", "left"}
    BY <1>2, ProxmoxAssumption DEF Typed, OneAtATime
<1>10. OneAtATime'
    BY <1>2, <1>6, <1>8, <1>9 DEF OneAtATime, Parts, Part
<1> QED
    BY <1>5, <1>8, <1>10 DEF Typed

\* The disk that qmrestore leaves.
LEMMA DiskTyped ==
    ASSUME NEW t \in Threads
    PROVE  /\ Disk(t) \in VMs /\ Disk(t).made["clone"] = t
           /\ Whole(t) => Disk(t).made["sshkey"] = t /\ Disk(t).made["resize"] = t
<1>1. /\ Fresh(t) \in VMs /\ Fresh(t).made \in [Makings -> Makers]
      /\ Fresh(t).made["clone"] = t
    BY FreshTyped DEF VMs, Makers
<1> DEFINE made == [Fresh(t).made EXCEPT !["sshkey"] = t, !["resize"] = t]
<1>2. made \in [Makings -> Makers] /\ made["clone"] = t /\ made["sshkey"] = t /\ made["resize"] = t
    BY <1>1 DEF Makers, Makings
<1>3. [Fresh(t) EXCEPT !.made = made] \in VMs /\ [Fresh(t) EXCEPT !.made = made].made = made
    BY <1>1, <1>2 DEF VMs, Makers
<1>4. Whole(t) => Disk(t) = [Fresh(t) EXCEPT !.made = made]
    BY <1>1 DEF Disk, VMs
<1>5. ~Whole(t) => Disk(t) = Fresh(t)
    BY DEF Disk
<1> HIDE DEF made
<1> QED
    BY <1>1, <1>2, <1>3, <1>4, <1>5

\* What qmrestore does to the VM.
LEMMA WriterTyped ==
    ASSUME Typed, NEW t \in Threads, Replace(t) \/ WriteEnds(t) \/ WriteFails(t)
    PROVE  Typed'
<1> USE RestoreAssumption
<1>1. job[t].qm \in {"running", "stuck"} /\ pc' = pc /\ lock' = lock
    BY DEF Replace, WriteEnds, WriteFails, Restoring
<1>2. /\ pc[t] # "idle" /\ job[t].target \in Vmids /\ job[t] \in Jobs
      /\ vm \in VmMaps /\ robbed \subseteq Threads /\ TypeOK /\ Part(t)
    BY <1>1, RunnerBusy, VmsTyped DEF Typed, TypeOK, Jobs, Parts
<1>3. /\ vm' \in VmMaps /\ robbed' \subseteq Threads
      /\ \/ job' = [job EXCEPT ![t] = [job[t] EXCEPT !.restored = 1]]
         \/ job' = [job EXCEPT ![t] = [job[t] EXCEPT !.qm = "ok"]]
         \/ job' = [job EXCEPT ![t] = [job[t] EXCEPT !.qm = "bad"]]
    <2>1. CASE Replace(t)
        BY <1>2, <2>1, FreshTyped DEF Replace, Taken, VmMaps
    <2>2. CASE WriteEnds(t)
        BY <1>2, <2>2, DiskTyped DEF WriteEnds, VmMaps
    <2>3. CASE WriteFails(t)
        BY <1>2, <2>3 DEF WriteFails, VmMaps
    <2> QED
        BY <2>1, <2>2, <2>3
<1>4. /\ [job[t] EXCEPT !.restored = 1] \in Jobs /\ [job[t] EXCEPT !.qm = "ok"] \in Jobs
      /\ [job[t] EXCEPT !.qm = "bad"] \in Jobs
    BY <1>2 DEF Jobs
<1>5. \A u \in Threads : job'[u] \in Jobs /\ job'[u].target = job[u].target
    BY <1>2, <1>3, <1>4 DEF TypeOK, Jobs
<1>6. TypeOK'
    BY <1>1, <1>2, <1>3, <1>5 DEF TypeOK, VmMaps
<1>7. Part(t)'
    BY <1>1, <1>2
    DEF Part, Fed, TypeOK, Jobs, Offered, AllOffered, Unpacking, Restoring, Replace, WriteEnds, WriteFails
<1>8. \A u \in Threads \ {t} : pc'[u] = pc[u] /\ job'[u] = job[u]
    BY <1>1, <1>2, <1>3 DEF TypeOK
<1> QED
    BY <1>1, <1>6, <1>7, <1>8, StepTyped DEF Inside

\* Line 190 sees every way in which the object can have been cut on its way, and
\* that a compressed one was cut before.
LEMMA VerdictWhole ==
    ASSUME Typed, NEW t \in Threads, pc[t] = "waitQm", Verdict(t)
    PROVE  Whole(t) /\ (job[t].packed => job[t].restored = Size)
<1>1. /\ Fed(t) /\ job[t] \in Jobs /\ job[t].qm = "ok" /\ job[t].unpacked /\ ~job[t].pipeError
    BY DEF Typed, TypeOK, Parts, Part, Verdict
<1>2. job[t].restored = job[t].fed /\ (job[t].packed => job[t].restored = Size)
    BY <1>1 DEF Fed, Offered
<1> QED
    BY <1>1, <1>2 DEF Whole

\* qm set and qm start on the VM of t's request.
LEMMA CommandsTyped ==
    ASSUME Typed, NEW t \in Threads, NEW v \in Vmids, v = job[t].target, Usable(v)
    PROVE  /\ Named(t) \in VmMaps /\ Running(t) \in VmMaps
           /\ vm[v] # None /\ Named(t)[v] # None
           /\ Named(t)[v].made = [vm[v].made EXCEPT !["set"] = t]
           /\ Running(t)[v] # None /\ Running(t)[v].made = vm[v].made
           /\ \A w \in Vmids \ {v} : Named(t)[w] = vm[w] /\ Running(t)[w] = vm[w]
<1>1. vm \in VmMaps /\ vm[v] # None /\ "set" \in Makings
    BY VmsTyped DEF Usable, Makings
<1>2. /\ Made(v, "set", t) \in VmMaps
      /\ \A w \in Vmids : w # v => Made(v, "set", t)[w] = vm[w]
      /\ Made(v, "set", t)[v] # None
      /\ Made(v, "set", t)[v].made = [vm[v].made EXCEPT !["set"] = t]
      /\ Made(v, "set", t)[v].locked = vm[v].locked
    BY <1>1, MadeTyped, Zenon
<1>3. /\ Started(v) \in VmMaps
      /\ \A w \in Vmids : w # v => Started(v)[w] = vm[w]
      /\ Started(v)[v] # None /\ Started(v)[v].made = vm[v].made
    BY <1>1, RunTyped, Zenon DEF Started
<1> QED
    BY <1>1, <1>2, <1>3 DEF Named, Running

\* The steps of the thread that end its request with what after says, and the
\* ones that do not.
Outcomes(t) == {vm} \cup (IF Usable(job[t].target) THEN {Named(t), Running(t)} ELSE {})

Ends(t) == \E after \in Outcomes(t) : Answer(t, after)

Accepts(t) ==
    /\ pc[t] = "waitQm" /\ Verdict(t)
    /\ GoTo(t, "set") /\ job' = [job EXCEPT ![t].qm = "none"] /\ UNCHANGED <<lock, vms>>

Sets(t) ==
    /\ pc[t] = "set" /\ Usable(job[t].target)
    /\ vm' = Named(t) /\ GoTo(t, "start") /\ UNCHANGED <<lock, job, robbed>>

Again(t) ==
    /\ pc[t] = "start" /\ job[t].attempts + 1 < MaxAttempts
    /\ job' = [job EXCEPT ![t].attempts = @ + 1] /\ UNCHANGED <<lock, pc, vms>>

Last(t) ==
    \/ FetchFails(t) \/ WaitQm(t) \/ Set(t) \/ SetFails(t)
    \/ Start(t) \/ StartLocked(t) \/ StartFails(t)

LEMMA LastCases ==
    ASSUME NEW t \in Threads, Last(t)
    PROVE  Inside(t) /\ (Ends(t) \/ Accepts(t) \/ Sets(t) \/ Again(t))
<1>1. Inside(t)
    BY DEF Last, FetchFails, WaitQm, Set, SetFails, Start, StartLocked, StartFails, Inside
<1>2. Answer(t, vm) => Ends(t)
    BY DEF Ends, Outcomes
<1>3. Usable(job[t].target) /\ (Answer(t, Named(t)) \/ Answer(t, Running(t))) => Ends(t)
    BY DEF Ends, Outcomes
<1> QED
    BY <1>1, <1>2, <1>3, Zenon
    DEF Last, FetchFails, WaitQm, Set, SetFails, Start, StartLocked, StartFails, Accepts, Sets, Again

LEMMA OutcomesTyped ==
    ASSUME Typed, NEW t \in Threads, Inside(t), NEW after \in Outcomes(t)
    PROVE  after \in VmMaps
<1>1. job[t].target \in Vmids
    BY DEF Inside, Typed, TypeOK, Jobs
<1> QED
    BY <1>1, VmsTyped, CommandsTyped DEF Outcomes

LEMMA LastTyped ==
    ASSUME Typed, NEW t \in Threads, Last(t)
    PROVE  Typed'
<1>1. Inside(t) /\ job[t].target \in Vmids /\ vm \in VmMaps /\ job[t] \in Jobs /\ Part(t) /\ TypeOK
    BY LastCases, VmsTyped DEF Typed, TypeOK, Jobs, Inside, Parts
<1> USE RestoreAssumption
<1>2. CASE Ends(t)
    BY <1>1, <1>2, OutcomesTyped, EndTyped DEF Ends
<1>3. CASE Accepts(t) \/ Again(t) \/ Sets(t)
    <2>1. /\ vm' \in VmMaps /\ robbed' = robbed /\ lock' = lock /\ pc' \in {[pc EXCEPT ![t] = "set"], [pc EXCEPT ![t] = "start"], pc}
          /\ pc[t] # "idle"
        BY <1>1, <1>3, CommandsTyped DEF Accepts, Again, Sets, GoTo, vms
    <2>2. \/ job' = job
          \/ job' = [job EXCEPT ![t] = [job[t] EXCEPT !.qm = "none"]]
          \/ job' = [job EXCEPT ![t] = [job[t] EXCEPT !.attempts = @ + 1]] /\ job[t].attempts + 1 < MaxAttempts
        BY <1>1, <1>3 DEF Accepts, Again, Sets
    <2>3. /\ [job[t] EXCEPT !.qm = "none"] \in Jobs
          /\ job[t].attempts + 1 < MaxAttempts => [job[t] EXCEPT !.attempts = @ + 1] \in Jobs
        BY <1>1 DEF Jobs
    <2>4. \A u \in Threads : job'[u] \in Jobs /\ job'[u].target = job[u].target
        BY <1>1, <2>2, <2>3 DEF TypeOK, Jobs
    <2>5. TypeOK'
        BY <1>1, <2>1, <2>2, <2>4 DEF TypeOK, VmMaps
    <2>6. Part(t)'
        <3>1. CASE Accepts(t)
            <4>1. job[t].packed => job[t].restored = Size
                BY <3>1, VerdictWhole DEF Accepts
            <4>2. pc[t] = "waitQm" /\ pc'[t] = "set" /\ job'[t] = [job[t] EXCEPT !.qm = "none"]
                BY <1>1, <3>1 DEF Accepts, GoTo, TypeOK
            <4> QED
                BY <1>1, <4>1, <4>2 DEF Part, Fed, Offered, AllOffered, Unpacking, Jobs
        <3>2. CASE Sets(t)
            BY <1>1, <3>2 DEF Sets, Part, Fed, Offered, AllOffered, Unpacking, GoTo, TypeOK
        <3>3. CASE Again(t)
            BY <1>1, <3>3 DEF Again, Part, Fed, Offered, AllOffered, Unpacking, TypeOK, Jobs
        <3> QED
            BY <1>3, <3>1, <3>2, <3>3
    <2>7. \A u \in Threads \ {t} : pc'[u] = pc[u] /\ job'[u] = job[u]
        BY <1>1, <2>1, <2>2 DEF TypeOK
    <2> QED
        BY <1>1, <2>1, <2>5, <2>6, <2>7, StepTyped
<1> QED
    BY <1>2, <1>3, LastCases

LEMMA OthersTyped == ASSUME Typed, NEW v \in Vmids, Others(v) PROVE Typed'
<1>1. vm \in VmMaps /\ robbed \subseteq Threads
    BY VmsTyped
<1>2. vm' \in VmMaps /\ robbed' \subseteq Threads
    <2>1. Usable(v) => Started(v) \in VmMaps /\ Stopped(v) \in VmMaps
        BY <1>1, RunTyped DEF Usable, Started, Stopped
    <2> QED
        BY <1>1, <2>1, CompleteTyped DEF Others, Taken, VmMaps
<1> QED
    BY <1>2
    DEF Others, Typed, TypeOK, VmMaps, OneAtATime, Parts, Part, Fed, Offered, AllOffered, Unpacking

LEMMA CrashTyped == ASSUME Typed, AgentCrash PROVE Typed'
<1>1. vm' \in VmMaps /\ robbed' \subseteq Threads
    BY VmsTyped, ReleasedTyped DEF AgentCrash, Released
<1> QED
    BY <1>1, NoJobTyped DEF AgentCrash, Typed, TypeOK, VmMaps, OneAtATime, Parts, Part

-----------------------------------------------------------------------------
(* Who has which VM *)

Rewritten(t) == [Fresh(t) EXCEPT !.locked = TRUE]

\* While qmrestore writes it has its VM to itself, and a disk that is whole is
\* the one of t's request as long as nobody takes it away.
Owns(t) ==
    LET v == job[t].target IN
    pc[t] # "idle" =>
        /\ 0 < job[t].restored /\ job[t].qm \in {"running", "stuck"} => vm[v] = Rewritten(t)
        /\ t \notin robbed /\ ((job[t].qm = "ok" /\ Whole(t)) \/ pc[t] \in {"set", "start"})
           => Has(t, v, {"sshkey", "resize"} \cup (IF pc[t] = "start" THEN {"set"} ELSE {}))

Owned == Typed /\ \A t \in Threads : Owns(t)

LEMMA RewrittenTyped ==
    ASSUME NEW t \in Threads
    PROVE  /\ Rewritten(t) \in VMs /\ Rewritten(t) # None /\ Rewritten(t).locked
           /\ Rewritten(t).made["clone"] = t
           /\ \A m \in Makings : Rewritten(t).made[m] \in {t, None}
<1>1. Rewritten(t) \in VMs /\ Rewritten(t).made = Fresh(t).made
    BY FreshTyped DEF Rewritten
<1>2. Rewritten(t).locked
    BY FreshTyped DEF Rewritten, VMs
<1> QED
    BY <1>1, <1>2, FreshTyped, Apart

\* Only t's own request moves.
Frame(t) == \A u \in Threads \ {t} : pc'[u] = pc[u] /\ job'[u] = job[u]

\* Nothing happens to what u relies on: the VM that its qmrestore writes stays
\* as it is, and the one it has made keeps what has been done to it, unless u
\* counts as robbed.
Spared(u) ==
    /\ u \in robbed => u \in robbed'
    /\ \A v \in Vmids :
         /\ vm[v] = Rewritten(u) => vm'[v] = vm[v]
         /\ vm[v] # None /\ vm[v].made["clone"] = u /\ u \notin robbed' =>
              /\ vm'[v] # None /\ vm'[v].made["clone"] = u
              /\ \A m \in Makings : vm[v].made[m] # None => vm'[v].made[m] # None

LEMMA OwnsKept ==
    ASSUME Owned, NEW u \in Threads, pc'[u] = pc[u], job'[u] = job[u], Spared(u)
    PROVE  Owns(u)'
<1> SUFFICES ASSUME pc[u] # "idle", NEW v, v = job[u].target,
                    NEW ms, ms = {"sshkey", "resize"} \cup (IF pc[u] = "start" THEN {"set"} ELSE {})
    PROVE  Owns(u)'
    BY DEF Owns
<1>1. v \in Vmids /\ Owns(u) /\ ms \subseteq Makings
    BY DEF Owned, Typed, TypeOK, Jobs, Makings
<1>2. 0 < job[u].restored /\ job[u].qm \in {"running", "stuck"} => vm'[v] = Rewritten(u)
    BY <1>1 DEF Owns, Spared
<1>3. ASSUME u \notin robbed', (job[u].qm = "ok" /\ Whole(u)) \/ pc[u] \in {"set", "start"}
      PROVE  Has(u, v, ms)'
    <2>1. u \notin robbed /\ Has(u, v, ms)
        BY <1>1, <1>3 DEF Owns, Spared
    <2> QED
        BY <1>1, <1>3, <2>1 DEF Has, Spared
<1>4. Whole(u)' <=> Whole(u)
    BY DEF Whole
<1> QED
    BY <1>2, <1>3, <1>4 DEF Owns

LEMMA StepOwned ==
    ASSUME Owned, Typed', NEW t \in Threads, Frame(t), \A u \in Threads \ {t} : Spared(u), Owns(t)'
    PROVE  Owned'
BY OwnsKept DEF Owned, Frame

LEMMA QuietSpares == ASSUME vm' = vm, robbed' = robbed, NEW u \in Threads PROVE Spared(u)
BY DEF Spared

LEMMA TakenSpares ==
    ASSUME Typed, NEW w \in Vmids, NEW new, Taken(w, new), NEW u \in Threads, vm[w] # Rewritten(u)
    PROVE  Spared(u)
<1>1. vm \in VmMaps /\ vm' = [vm EXCEPT ![w] = new] /\ robbed' = robbed \cup ({MakerOf(w)} \cap Threads)
    BY VmsTyped DEF Taken
<1>2. \A v \in Vmids : v # w => vm'[v] = vm[v]
    BY <1>1 DEF VmMaps
<1>3. vm[w] # None /\ vm[w].made["clone"] = u => u \in robbed'
    BY <1>1 DEF MakerOf
<1> QED
    BY <1>1, <1>2, <1>3 DEF Spared

\* What qmrestore of t does to the VM that it has taken.
LEMMA PutSpares ==
    ASSUME Typed, NEW t \in Threads, NEW w \in Vmids, vm[w] = Rewritten(t), NEW new,
           vm' = [vm EXCEPT ![w] = new], robbed' = robbed, NEW u \in Threads \ {t}
    PROVE  Spared(u)
<1>1. vm \in VmMaps /\ vm[w].made["clone"] = t /\ Rewritten(u).made["clone"] = u
    BY VmsTyped, RewrittenTyped
<1>2. \A v \in Vmids : v # w => vm'[v] = vm[v]
    BY <1>1 DEF VmMaps
<1> QED
    BY <1>1, <1>2 DEF Spared

\* The end of t's request, whatever its last command has done.
LEMMA ReleaseSpares ==
    ASSUME Typed, NEW t \in Threads, NEW after \in VmMaps, Released({t}, after),
           \A v \in Vmids :
             /\ vm[v] # None /\ vm[v].locked => after[v] = vm[v]
             /\ vm[v] # None => after[v] # None
             /\ \A m \in Makings : vm[v] # None /\ vm[v].made[m] # None => after[v].made[m] # None
             /\ vm[v] # None => after[v].made["clone"] = vm[v].made["clone"],
           NEW u \in Threads \ {t}
    PROVE  Spared(u)
<1> DEFINE rel(v) == [m \in Makings |-> IF after[v].made[m] \in {t} THEN "done" ELSE after[v].made[m]]
<1>1. /\ \A v \in Vmids : after[v] # None => vm'[v] = [after[v] EXCEPT !.made = rel(v)]
      /\ robbed' = robbed \ {t}
    BY DEF Released
<1>2. \A v \in Vmids : after[v] # None => after[v] \in VMs
    BY DEF VmMaps
<1>3. \A v \in Vmids : after[v] # None => vm'[v] # None /\ vm'[v].made = rel(v)
    <2> TAKE v \in Vmids
    <2> HAVE after[v] # None
    <2>1. rel(v) \in [Makings -> Makers]
        BY <1>2 DEF VMs, Makers
    <2>2. [after[v] EXCEPT !.made = rel(v)] \in VMs /\ [after[v] EXCEPT !.made = rel(v)].made = rel(v)
        BY <1>2, <2>1 DEF VMs, Makers
    <2> QED
        BY <1>1, <2>2, Apart
<1>4. ASSUME NEW v \in Vmids, vm[v] = Rewritten(u) PROVE vm'[v] = vm[v]
    <2>1. after[v] = Rewritten(u) /\ vm[v] \in VMs /\ after[v] # None
        BY <1>2, <1>4, RewrittenTyped
    <2>2. \A m \in Makings : after[v].made[m] # t
        BY <2>1, RewrittenTyped, Apart
    <2>3. rel(v) = after[v].made
        BY <1>4, <2>1, <2>2 DEF VMs
    <2> HIDE DEF rel
    <2>4. [after[v] EXCEPT !.made = rel(v)] = after[v]
        BY <1>2, <2>1, <2>3 DEF VMs
    <2> QED
        BY <1>1, <1>4, <2>1, <2>4
<1>5. ASSUME NEW v \in Vmids, vm[v] # None, vm[v].made["clone"] = u
      PROVE  /\ vm'[v] # None /\ vm'[v].made["clone"] = u
             /\ \A m \in Makings : vm[v].made[m] # None => vm'[v].made[m] # None
    <2>1. after[v] # None /\ after[v].made["clone"] = u
        BY <1>5
    <2>2. vm'[v] # None /\ vm'[v].made = rel(v)
        BY <1>3, <2>1
    <2>3. \A m \in Makings : rel(v)[m] = IF after[v].made[m] = t THEN "done" ELSE after[v].made[m]
        OBVIOUS
    <2> HIDE DEF rel
    <2> QED
        BY <1>5, <2>1, <2>2, <2>3, Apart DEF Makings
<1> QED
    BY <1>1, <1>4, <1>5 DEF Spared

\* The steps of the processes and of the thread that leave the VMs alone, seen
\* from outside.
LEMMA ProcessDoes ==
    ASSUME Typed, NEW t \in Threads,
           Decode(t) \/ DecodeEnds(t) \/ DecodeFails(t) \/ Write(t) \/ Stall(t)
    PROVE  /\ pc[t] \notin {"idle", "set", "start"} /\ Frame(t)
           /\ pc' = pc /\ vm' = vm /\ robbed' = robbed
           /\ job'[t].target = job[t].target
           /\ job[t].qm # "ok" /\ job'[t].qm # "ok"
           /\ \/ job'[t].qm = job[t].qm /\ job'[t].restored = job[t].restored
              \/ /\ job'[t].qm \in {"running", "stuck"} /\ job[t].qm = "running"
                 /\ \/ 0 < job[t].restored /\ job'[t].restored > 0
                    \/ job[t].restored = 0 /\ job'[t].restored = 0
<1>1. job[t].zip # "none" \/ job[t].qm # "none"
    BY DEF Decode, DecodeEnds, DecodeFails, Write, Stall, Unpacking, Restoring
<1>2. pc[t] # "idle" /\ Fed(t)
    BY <1>1, RunnerBusy DEF Typed, Parts, Part
<1>3. pc[t] \notin {"idle", "set", "start"}
    BY <1>1, <1>2 DEF Fed
<1>4. pc' = pc /\ vm' = vm /\ robbed' = robbed
    BY DEF Decode, DecodeEnds, DecodeFails, Write, Stall, vms
<1>5. job[t].qm # "ok"
    BY <1>2 DEF Fed, AllOffered, Decode, DecodeEnds, DecodeFails, Write, Stall, Unpacking, Restoring
<1> USE DEF Typed, TypeOK, Jobs
<1>6. Frame(t)
    BY <1>4 DEF Frame, Decode, DecodeEnds, DecodeFails, Write, Stall
<1>7. /\ job'[t].target = job[t].target
      /\ \/ job'[t].qm = job[t].qm /\ job'[t].restored = job[t].restored
         \/ /\ job'[t].qm \in {"running", "stuck"} /\ job[t].qm = "running"
            /\ \/ 0 < job[t].restored /\ job'[t].restored > 0
               \/ job[t].restored = 0 /\ job'[t].restored = 0
    <2> USE RestoreAssumption
    <2>1. CASE Decode(t)
        BY <2>1 DEF Decode
    <2>2. CASE DecodeEnds(t)
        BY <2>2 DEF DecodeEnds
    <2>3. CASE DecodeFails(t)
        BY <2>3 DEF DecodeFails
    <2>4. CASE Write(t)
        BY <2>4 DEF Write, Restoring
    <2>5. CASE Stall(t)
        BY <2>5 DEF Stall, Restoring
    <2> QED
        BY <2>1, <2>2, <2>3, <2>4, <2>5
<1> QED
    BY <1>3, <1>4, <1>5, <1>6, <1>7

\* Here Whole(t) may change only before qmrestore has ended.
LEMMA ThreadDoes ==
    ASSUME Typed, NEW t \in Threads,
           Fetch(t) \/ Feed(t) \/ FeedEnds(t) \/ WaitZip(t) \/ FetchRaises(t) \/ FeedRaises(t)
    PROVE  /\ pc[t] \in {"fetch", "feed", "waitZip"} /\ pc'[t] \in {"feed", "waitZip", "waitQm", "left"}
           /\ Frame(t) /\ vm' = vm /\ robbed' = robbed
           /\ job'[t].target = job[t].target /\ job'[t].restored = job[t].restored
           /\ job[t].restored = 0 \/ job'[t].qm = job[t].qm
           /\ job'[t].qm = "ok" => (Whole(t)' <=> Whole(t))
<1>1. pc[t] \in {"fetch", "feed", "waitZip"} /\ vm' = vm /\ robbed' = robbed
    BY DEF Fetch, Feed, FeedEnds, WaitZip, FetchRaises, FeedRaises, Leave, vms
<1>2. Fed(t)
    BY <1>1 DEF Typed, Parts, Part
<1> USE DEF Typed, TypeOK, Jobs
<1>3. pc'[t] \in {"feed", "waitZip", "waitQm", "left"} /\ \A u \in Threads \ {t} : pc'[u] = pc[u]
    BY <1>1 DEF Fetch, Feed, FeedEnds, WaitZip, FetchRaises, FeedRaises, Leave, GoTo
<1>4. Frame(t)
    BY <1>3 DEF Frame, Fetch, Feed, FeedEnds, WaitZip, FetchRaises, FeedRaises
<1>5. /\ job'[t].target = job[t].target /\ job'[t].restored = job[t].restored
      /\ job[t].restored = 0 \/ job'[t].qm = job[t].qm
      /\ job'[t].qm = "ok" => (Whole(t)' <=> Whole(t))
    <2>1. CASE Fetch(t)
        <3>1. PICK z \in BOOLEAN :
                 job' = [job EXCEPT ![t].packed = z, ![t].sink = TRUE,
                                    ![t].zip = IF z THEN "running" ELSE "none",
                                    ![t].qm = "running"]
            BY <2>1 DEF Fetch
        <3> DEFINE zip == IF z THEN "running" ELSE "none"
        <3>2. job' = [job EXCEPT ![t].packed = z, ![t].sink = TRUE, ![t].zip = zip, ![t].qm = "running"]
            BY <3>1
        <3> HIDE DEF zip
        <3>3. /\ job'[t].target = job[t].target /\ job'[t].restored = job[t].restored
              /\ job'[t].qm = "running"
            BY <3>2
        <3> QED
            BY <1>2, <2>1, <3>3 DEF Fed, Fetch
    <2>2. CASE Feed(t)
        <3>1. job[t].qm # "ok"
            BY <1>2, <2>2 DEF Feed, Fed, AllOffered, Reader, Unpacking
        <3> QED
            BY <2>2, <3>1 DEF Feed
    <2>3. CASE FeedEnds(t) \/ FeedRaises(t)
        <3>1. job[t].qm = "ok" => job[t].packed /\ ~job[t].unpacked /\ job[t].zip # "ok"
            BY <1>2, <2>3 DEF FeedEnds, FeedRaises, Fed, AllOffered
        <3>2. PICK e \in BOOLEAN : job' = [job EXCEPT ![t].sink = FALSE, ![t].pipeError = e]
            BY <2>3 DEF FeedEnds, FeedRaises
        <3>3. /\ job'[t].target = job[t].target /\ job'[t].restored = job[t].restored
              /\ job'[t].qm = job[t].qm /\ job'[t].packed = job[t].packed
              /\ job'[t].zip = job[t].zip /\ job'[t].unpacked = job[t].unpacked
            <4> DEFINE new == [[job[t] EXCEPT !.sink = FALSE] EXCEPT !.pipeError = e]
            <4>1. /\ new.target = job[t].target /\ new.restored = job[t].restored
                  /\ new.qm = job[t].qm /\ new.packed = job[t].packed
                  /\ new.zip = job[t].zip /\ new.unpacked = job[t].unpacked
                BY job[t] \in Jobs
            <4>2. job'[t] = new
                BY <3>2
            <4> HIDE DEF new
            <4> QED
                BY <4>1, <4>2
        <3> QED
            BY <3>1, <3>3 DEF Whole
    <2>4. CASE WaitZip(t)
        <3>1. ~job[t].unpacked
            BY <1>2, <2>4 DEF WaitZip, Fed
        <3> DEFINE unpacked == ~job[t].packed \/ job[t].zip = "ok"
                   new == [[job[t] EXCEPT !.unpacked = unpacked] EXCEPT !.zip = "none"]
        <3>2. job'[t] = new /\ job[t] \in Jobs /\ unpacked \in BOOLEAN
            BY <2>4 DEF WaitZip
        <3>3. /\ job'[t].target = job[t].target /\ job'[t].restored = job[t].restored
              /\ job'[t].qm = job[t].qm /\ job'[t].fed = job[t].fed
              /\ job'[t].pipeError = job[t].pipeError /\ job'[t].packed = job[t].packed
              /\ job'[t].zip = "none" /\ job'[t].unpacked = unpacked
            <4> HIDE DEF unpacked
            <4> QED
                BY <3>2
        <3> QED
            BY <3>1, <3>3 DEF Whole
    <2>5. CASE FetchRaises(t)
        <3>1. job' = [job EXCEPT ![t].packed = TRUE, ![t].zip = "running"]
            BY <2>5 DEF FetchRaises
        <3>2. /\ job'[t].target = job[t].target /\ job'[t].restored = job[t].restored
              /\ job'[t].qm = job[t].qm
            BY <3>1
        <3> QED
            BY <1>2, <2>5, <3>2 DEF Fed, FetchRaises
    <2> QED
        BY <2>1, <2>2, <2>3, <2>4, <2>5
<1> QED
    BY <1>1, <1>3, <1>4, <1>5

LEMMA ProcessOwned ==
    ASSUME Owned, NEW t \in Threads,
           Decode(t) \/ DecodeEnds(t) \/ DecodeFails(t) \/ Write(t) \/ Stall(t)
    PROVE  Owned'
<1>1. Typed /\ Typed' /\ Owns(t) /\ job[t].restored \in Nat
    BY ProcessTyped, RestoreAssumption DEF Owned, Typed, TypeOK, Jobs
<1>2. Owns(t)'
    BY <1>1, ProcessDoes DEF Owns
<1> QED
    BY <1>1, <1>2, ProcessDoes, QuietSpares, StepOwned

LEMMA ThreadOwned ==
    ASSUME Owned, NEW t \in Threads,
           Fetch(t) \/ Feed(t) \/ FeedEnds(t) \/ WaitZip(t) \/ FetchRaises(t) \/ FeedRaises(t)
    PROVE  Owned'
<1>1. Typed /\ Typed' /\ Owns(t) /\ job[t].restored \in Nat
    BY FetchTyped, FeedTyped, WaitZipTyped, RaisesTyped, RestoreAssumption DEF Owned, Typed, TypeOK, Jobs
<1>2. job[t].restored = 0 => job[t].qm # "ok"
    BY <1>1, ThreadDoes DEF Typed, Parts, Part, Fed
<1>3. Owns(t)'
    <2>1. ASSUME 0 < job'[t].restored, job'[t].qm \in {"running", "stuck"}
          PROVE  vm'[job'[t].target] = Rewritten(t)
        BY <1>1, <2>1, ThreadDoes DEF Owns
    <2>2. ASSUME t \notin robbed', job'[t].qm = "ok", Whole(t)'
          PROVE  Has(t, job[t].target, {"sshkey", "resize"})'
        <3>1. job'[t].restored = 0 => job'[t].qm # "ok"
            BY <1>1, ThreadDoes DEF Typed, Parts, Part, Fed
        <3>2. job[t].qm = "ok" /\ Whole(t) /\ t \notin robbed
            BY <1>1, <2>2, <3>1, ThreadDoes
        <3>3. Has(t, job[t].target, {"sshkey", "resize"})
            BY <1>1, <3>2, ThreadDoes DEF Owns
        <3> QED
            BY <1>1, <3>3, ThreadDoes DEF Has
    <2>3. pc'[t] \notin {"set", "start"}
        BY <1>1, ThreadDoes
    <2> QED
        BY <2>1, <2>2, <2>3, ThreadDoes, <1>1 DEF Owns, Has
<1> QED
    BY <1>1, <1>3, ThreadDoes, QuietSpares, StepOwned

LEMMA BeginDoes ==
    ASSUME Typed, NEW t \in Threads, Begin(t)
    PROVE  /\ pc[t] = "idle" /\ \A u \in Threads \ {t} : pc[u] \in {"idle", "left"}
           /\ Frame(t) /\ pc'[t] = "fetch" /\ vm' = vm /\ robbed' = robbed
           /\ \E v \in Vmids : job'[t].target = v
           /\ job'[t].restored = 0 /\ job'[t].qm = "none"
<1>1. PICK v \in Vmids : job' = [job EXCEPT ![t] = [NoJob EXCEPT !.target = v]]
    BY DEF Begin
<1>2. /\ [NoJob EXCEPT !.target = v].restored = 0 /\ [NoJob EXCEPT !.target = v].qm = "none"
      /\ [NoJob EXCEPT !.target = v].target = v
    BY NoJobTyped DEF Jobs
<1>3. \A u \in Threads : pc[u] \in {"idle", "left"}
    BY ProxmoxAssumption DEF Begin, Typed, OneAtATime
<1> QED
    BY <1>1, <1>2, <1>3 DEF Begin, GoTo, vms, Typed, TypeOK, Frame

LEMMA BeginOwned == ASSUME Owned, NEW t \in Threads, Begin(t) PROVE Owned'
<1>1. Typed /\ Typed'
    BY BeginTyped DEF Owned
<1>2. Owns(t)'
    BY <1>1, BeginDoes DEF Owns
<1> QED
    BY <1>1, <1>2, BeginDoes, QuietSpares, StepOwned

LEMMA WriterOwned ==
    ASSUME Owned, NEW t \in Threads, Replace(t) \/ WriteEnds(t) \/ WriteFails(t)
    PROVE  Owned'
<1> SUFFICES ASSUME NEW v, v = job[t].target PROVE Owned'
    OBVIOUS
<1>1. Typed /\ Typed' /\ Owns(t)
    BY WriterTyped DEF Owned
<1>2. job[t].qm \in {"running", "stuck"} /\ pc' = pc /\ pc[t] # "idle" /\ Fed(t)
    <2>1. job[t].qm \in {"running", "stuck"} /\ pc' = pc
        BY DEF Replace, WriteEnds, WriteFails, Restoring
    <2> QED
        BY <1>1, <2>1, RunnerBusy DEF Typed, Parts, Part
<1>3. /\ vm \in VmMaps /\ v \in Vmids /\ job[t].restored \in Nat /\ job[t] \in Jobs
      /\ pc[t] \notin {"set", "start"} /\ pc'[t] = pc[t] /\ TypeOK
    BY <1>1, <1>2, VmsTyped, RestoreAssumption DEF Typed, TypeOK, Jobs, Fed
<1>4. Frame(t)
    BY <1>2, <1>3 DEF Frame, Replace, WriteEnds, WriteFails, TypeOK
<1>5. 0 < job[t].restored => vm[v] = Rewritten(t)
    BY <1>1, <1>2 DEF Owns
<1>6. CASE Replace(t)
    <2>1. Taken(v, Rewritten(t)) /\ (vm[v] # None => ~vm[v].locked)
        BY <1>6 DEF Replace, Rewritten
    <2>2. vm'[v] = Rewritten(t)
        BY <1>3, <2>1 DEF Taken, VmMaps
    <2>3. job'[t].target = v /\ job'[t].qm = "running"
        BY <1>3, <1>6 DEF Replace, TypeOK, Restoring
    <2>4. Owns(t)'
        BY <1>3, <2>2, <2>3 DEF Owns
    <2>5. \A u \in Threads : vm[v] # Rewritten(u)
        BY <2>1, RewrittenTyped
    <2>6. \A u \in Threads \ {t} : Spared(u)
        BY <1>1, <1>3, <2>1, <2>5, TakenSpares
    <2> QED
        BY <1>1, <1>4, <2>4, <2>6, StepOwned
<1>7. CASE WriteEnds(t)
    <2>1. /\ job'[t].target = v /\ job'[t].qm = "ok" /\ (Whole(t)' <=> Whole(t))
          /\ 0 < job[t].restored /\ robbed' = robbed /\ vm' = [vm EXCEPT ![v] = Disk(t)]
        <3>1. job' = [job EXCEPT ![t].qm = "ok"]
            BY <1>7 DEF WriteEnds
        <3>2. /\ job'[t].target = v /\ job'[t].qm = "ok" /\ job'[t].restored = job[t].restored
              /\ job'[t].fed = job[t].fed /\ job'[t].pipeError = job[t].pipeError
              /\ job'[t].packed = job[t].packed /\ job'[t].unpacked = job[t].unpacked
              /\ job'[t].zip = job[t].zip
            BY <1>3, <3>1 DEF TypeOK, Jobs
        <3> QED
            BY <1>3, <1>7, <3>2 DEF WriteEnds, Whole
    <2>2. vm'[v] = Disk(t)
        BY <1>3, <2>1 DEF VmMaps
    <2>3. Whole(t) => Has(t, v, {"sshkey", "resize"})'
        BY <2>2, DiskTyped, Apart DEF Has
    <2>4. Owns(t)'
        BY <1>3, <2>1, <2>3 DEF Owns, Has
    <2>5. \A u \in Threads \ {t} : Spared(u)
        BY <1>1, <1>3, <1>5, <2>1, PutSpares
    <2> QED
        BY <1>1, <1>4, <2>4, <2>5, StepOwned
<1>8. CASE WriteFails(t)
    <2>1. job'[t].qm = "bad"
        BY <1>3, <1>8 DEF WriteFails, TypeOK
    <2>2. Owns(t)'
        BY <1>3, <2>1 DEF Owns
    <2>3. \A u \in Threads \ {t} : Spared(u)
        <3>1. CASE vm' = vm /\ robbed' = robbed
            BY <3>1, QuietSpares
        <3>2. CASE 0 < job[t].restored /\ vm' = [vm EXCEPT ![v] = None] /\ robbed' = robbed
            BY <1>1, <1>3, <1>5, <3>2, PutSpares
        <3> QED
            BY <1>3, <1>8, <3>1, <3>2 DEF WriteFails
    <2> QED
        BY <1>1, <1>4, <2>2, <2>3, StepOwned
<1> QED
    BY <1>6, <1>7, <1>8

\* What a command that ends a request has done to the VMs.
LEMMA OutcomesNear ==
    ASSUME Typed, NEW t \in Threads, Inside(t), NEW after \in Outcomes(t), NEW v \in Vmids, vm[v] # None
    PROVE  /\ vm[v].locked => after[v] = vm[v]
           /\ after[v] # None
           /\ \A m \in Makings : vm[v].made[m] # None => after[v].made[m] # None
           /\ after[v].made["clone"] = vm[v].made["clone"]
<1> DEFINE w == job[t].target
<1>1. w \in Vmids /\ vm[v].made \in [Makings -> Makers]
    BY VmsTyped DEF Inside, Typed, TypeOK, Jobs, VmMaps, VMs, Makers
<1>2. CASE after = vm
    BY <1>2
<1>3. CASE Usable(w) /\ after \in {Named(t), Running(t)}
    <2>1. /\ \A x \in Vmids \ {w} : Named(t)[x] = vm[x] /\ Running(t)[x] = vm[x]
          /\ Named(t)[w] # None /\ Named(t)[w].made = [vm[w].made EXCEPT !["set"] = t]
          /\ Running(t)[w] # None /\ Running(t)[w].made = vm[w].made
        BY <1>1, <1>3, CommandsTyped
    <2>2. CASE v # w
        BY <1>3, <2>1, <2>2
    <2>3. CASE v = w
        <3>1. ~vm[v].locked
            BY <1>3, <2>3 DEF Usable
        <3> QED
            BY <1>1, <1>3, <2>1, <2>3, <3>1, Apart DEF Makings
    <2> QED
        BY <2>2, <2>3
<1> QED
    BY <1>2, <1>3 DEF Outcomes

LEMMA AnswerOwned ==
    ASSUME Owned, NEW t \in Threads, Inside(t), NEW after \in Outcomes(t), Answer(t, after)
    PROVE  Owned'
<1>1. Typed /\ Typed' /\ after \in VmMaps
    BY OutcomesTyped, EndTyped DEF Owned
<1>2. Frame(t) /\ pc'[t] = "idle" /\ Released({t}, after)
    BY <1>1 DEF Frame, Answer, GoTo, Typed, TypeOK
<1>3. \A u \in Threads \ {t} : Spared(u)
    BY <1>1, <1>2, OutcomesNear, ReleaseSpares
<1> QED
    BY <1>1, <1>2, <1>3, StepOwned DEF Owns

LEMMA GoneOwned == ASSUME Owned, NEW t \in Threads, Gone(t) PROVE Owned'
<1>1. Typed /\ Typed' /\ vm \in VmMaps
    BY VmsTyped, EndTyped DEF Owned
<1>2. Frame(t) /\ pc'[t] = "idle" /\ Released({t}, vm)
    BY <1>1 DEF Frame, Gone, GoTo, Typed, TypeOK
<1>3. \A u \in Threads \ {t} : Spared(u)
    BY <1>1, <1>2, ReleaseSpares
<1> QED
    BY <1>1, <1>2, <1>3, StepOwned DEF Owns

LEMMA LastOwned == ASSUME Owned, NEW t \in Threads, Last(t) PROVE Owned'
<1> SUFFICES ASSUME NEW v, v = job[t].target PROVE Owned'
    OBVIOUS
<1>1. /\ Typed /\ Typed' /\ TypeOK /\ Inside(t) /\ v \in Vmids /\ vm \in VmMaps
      /\ job[t] \in Jobs /\ Fed(t) /\ Owns(t) /\ pc[t] # "idle"
    BY LastTyped, LastCases, VmsTyped DEF Owned, Typed, TypeOK, Jobs, Inside, Parts, Part
<1>2. CASE Ends(t)
    BY <1>1, <1>2, AnswerOwned DEF Ends
<1>3. CASE Accepts(t)
    <2>1. Whole(t) /\ job[t].qm = "ok" /\ pc[t] = "waitQm"
        BY <1>1, <1>3, VerdictWhole DEF Accepts, Verdict
    <2>2. t \notin robbed => Has(t, v, {"sshkey", "resize"})
        BY <1>1, <2>1 DEF Owns
    <2>3. /\ job'[t].target = v /\ job'[t].qm = "none" /\ pc'[t] = "set"
          /\ vm' = vm /\ robbed' = robbed /\ Frame(t)
        BY <1>1, <1>3 DEF Accepts, GoTo, vms, TypeOK, Jobs, Frame
    <2>4. Owns(t)'
        BY <2>2, <2>3 DEF Owns, Has
    <2> QED
        BY <1>1, <2>3, <2>4, QuietSpares, StepOwned
<1>4. CASE Sets(t)
    <2>1. t \notin robbed => Has(t, v, {"sshkey", "resize"})
        BY <1>1, <1>4 DEF Sets, Owns
    <2>2. /\ vm'[v] # None /\ vm'[v].made = [vm[v].made EXCEPT !["set"] = t] /\ vm[v] # None
          /\ \A w \in Vmids \ {v} : vm'[w] = vm[w]
          /\ ~vm[v].locked
        BY <1>1, <1>4, CommandsTyped DEF Sets, Usable
    <2>3. vm[v].made \in [Makings -> Makers]
        BY <1>1, <2>2 DEF VmMaps, VMs, Makers
    <2>4. t \notin robbed => Has(t, v, {"sshkey", "resize", "set"})'
        BY <1>1, <1>4, <2>1, <2>2, <2>3, Apart DEF Has, Sets, Makings
    <2>5. /\ job' = job /\ pc'[t] = "start" /\ robbed' = robbed /\ job[t].qm = "none" /\ Frame(t)
        BY <1>1, <1>4 DEF Sets, GoTo, Fed, TypeOK, Frame
    <2>6. Owns(t)'
        BY <1>1, <2>4, <2>5 DEF Owns, Has
    <2>7. \A u \in Threads \ {t} : Spared(u)
        <3> SUFFICES ASSUME NEW u \in Threads \ {t} PROVE Spared(u)
            OBVIOUS
        <3>1. vm[v] # Rewritten(u)
            BY <2>2, RewrittenTyped
        <3>2. \A m \in Makings : vm[v].made[m] # None => vm'[v].made[m] # None
            BY <2>2, <2>3, Apart DEF Makings
        <3>3. vm'[v].made["clone"] = vm[v].made["clone"]
            BY <2>2, <2>3 DEF Makings
        <3> QED
            BY <1>1, <2>2, <2>5, <3>1, <3>2, <3>3 DEF Spared
    <2> QED
        BY <1>1, <2>5, <2>6, <2>7, StepOwned
<1>5. CASE Again(t)
    <2>1. /\ job'[t].target = v /\ job'[t].qm = job[t].qm
          /\ pc' = pc /\ vm' = vm /\ robbed' = robbed /\ Frame(t) /\ pc[t] = "start"
        BY <1>1, <1>5 DEF Again, vms, TypeOK, Jobs, Frame
    <2>2. job[t].qm = "none"
        BY <1>1, <2>1 DEF Fed
    <2>3. Owns(t)'
        BY <1>1, <2>1, <2>2 DEF Owns, Has
    <2> QED
        BY <1>1, <2>1, <2>3, QuietSpares, StepOwned
<1> QED
    BY <1>2, <1>3, <1>4, <1>5, LastCases

LEMMA OthersOwned == ASSUME Owned, NEW w \in Vmids, Others(w) PROVE Owned'
<1>1. vm \in VmMaps /\ lock' = lock /\ pc' = pc /\ job' = job /\ Typed /\ Typed'
    BY VmsTyped, OthersTyped DEF Owned, Others
<1>2. ASSUME NEW u \in Threads PROVE Spared(u)
    <2>1. CASE vm[w] = None /\ vm' = [vm EXCEPT ![w] = Complete] /\ robbed' = robbed
        <3>1. \A v \in Vmids : vm[v] # None => vm'[v] = vm[v]
            BY <1>1, <2>1 DEF VmMaps
        <3> QED
            BY <2>1, <3>1, RewrittenTyped DEF Spared
    <2>2. CASE Usable(w) /\ Taken(w, None)
        <3>1. vm[w] # Rewritten(u)
            BY <2>2, RewrittenTyped DEF Usable
        <3> QED
            BY <1>1, <2>2, <3>1, TakenSpares
    <2>3. ASSUME NEW b \in BOOLEAN, Usable(w), vm' = [vm EXCEPT ![w].running = b], robbed' = robbed
          PROVE  Spared(u)
        <3>1. /\ [vm EXCEPT ![w].running = b] \in VmMaps
              /\ \A x \in Vmids : x # w => [vm EXCEPT ![w].running = b][x] = vm[x]
              /\ [vm EXCEPT ![w].running = b][w] # None
              /\ [vm EXCEPT ![w].running = b][w].made = vm[w].made
              /\ [vm EXCEPT ![w].running = b][w].locked = vm[w].locked
            BY <1>1, <2>3, RunTyped, Zenon DEF Usable
        <3>2. vm[w] # Rewritten(u)
            BY <2>3, RewrittenTyped DEF Usable
        <3> QED
            BY <2>3, <3>1, <3>2 DEF Spared
    <2> QED
        BY <2>1, <2>2, <2>3 DEF Others, Started, Stopped
<1>3. \A u \in Threads : Owns(u)'
    BY <1>1, <1>2, OwnsKept
<1> QED
    BY <1>1, <1>3 DEF Owned

LEMMA CrashOwned == ASSUME Owned, AgentCrash PROVE Owned'
BY CrashTyped DEF Owned, Owns, AgentCrash

LEMMA InitOwned == Init => Owned
<1> SUFFICES ASSUME Init PROVE Owned
    OBVIOUS
<1>1. /\ lock = None /\ pc = [t \in Threads |-> "idle"] /\ job = [t \in Threads |-> NoJob]
      /\ vm \in VmMaps /\ robbed = {}
    BY CompleteTyped DEF Init, InitVMs, VmMaps
<1> QED
    BY <1>1, NoJobTyped DEF Owned, Owns, Typed, TypeOK, OneAtATime, Parts, Part, VmMaps

\* The steps of Next, in the groups of the lemmas.
LEMMA NextCases ==
    ASSUME Next
    PROVE  \/ \E t \in Threads :
                \/ Refuse(t) \/ Last(t) \/ Gone(t)
                \/ Decode(t) \/ DecodeEnds(t) \/ DecodeFails(t) \/ Write(t) \/ Stall(t)
                \/ Begin(t)
                \/ Fetch(t) \/ Feed(t) \/ FeedEnds(t) \/ WaitZip(t) \/ FetchRaises(t) \/ FeedRaises(t)
                \/ Replace(t) \/ WriteEnds(t) \/ WriteFails(t)
           \/ AgentCrash
           \/ \E v \in Vmids : Others(v)
BY Zenon DEF Next, Last

LEMMA NextOwned == Owned /\ [Next]_vars => Owned'
<1> SUFFICES ASSUME Owned, [Next]_vars PROVE Owned'
    OBVIOUS
<1>1. CASE UNCHANGED vars \/ \E t \in Threads : Refuse(t)
    BY <1>1 DEF Refuse, vars, Owned, Owns, Has, Typed, TypeOK, OneAtATime, Parts, Part, Fed, Whole,
       Offered, AllOffered, Unpacking
<1> QED
    BY <1>1, NextCases, LastOwned, GoneOwned, ProcessOwned, ThreadOwned, BeginOwned, WriterOwned,
       CrashOwned, OthersOwned, Zenon

LEMMA AlwaysOwned == Spec => []Owned
BY InitOwned, NextOwned, PTL DEF Spec

-----------------------------------------------------------------------------
(* Theorems *)

\* Every variable keeps its type.
THEOREM TypeCorrect == Spec => []TypeOK
<1>1. Owned => TypeOK
    BY DEF Owned, Typed
<1> QED
    BY <1>1, AlwaysOwned, PTL

\* One request at a time is in _do_restore, and its processes do not outlive it,
\* but for the ones that an exception which nobody catches leaves behind.
THEOREM Exclusion == Spec => []OneAtATime
<1>1. Owned => OneAtATime
    BY DEF Owned, Typed
<1> QED
    BY <1>1, AlwaysOwned, PTL

\* Phase, without its CASE.
View(t) ==
    IF pc[t] = "idle" THEN "out"
    ELSE IF pc[t] \in {"set", "start"} THEN pc[t]
    ELSE IF job[t].restored = 0 THEN "fetch"
    ELSE IF job[t].qm = "bad" THEN "failed"
    ELSE IF job[t].qm # "ok" THEN "write"
    ELSE IF Whole(t) THEN "whole" ELSE "cut"

LEMMA PhaseIs == ASSUME Typed, NEW t \in Threads PROVE Phase(t) = View(t)
<1>1. job[t].restored \in Nat
    BY RestoreAssumption DEF Typed, TypeOK, Jobs
<1>2. CASE pc[t] = "idle"
    BY <1>2, Zenon DEF Phase, View
<1>3. CASE pc[t] \in {"set", "start"}
    BY <1>3 DEF Phase, View
<1>4. CASE pc[t] \notin {"idle", "set", "start"}
    BY <1>1, <1>4 DEF Phase, View
<1> QED
    BY <1>2, <1>3, <1>4

LEMMA SameProxmox ==
    /\ \A t : Job!Fresh(t) = Fresh(t)
    /\ \A v : Job!Usable(v) = Usable(v) /\ Job!Started(v) = Started(v) /\ Job!MakerOf(v) = MakerOf(v)
    /\ \A v, m, t : Job!Made(v, m, t) = Made(v, m, t)
    /\ \A v, new : Job!Taken(v, new) <=> Taken(v, new)
    /\ \A ts, after : Job!Released(ts, after) <=> Released(ts, after)
    /\ Job!Makings = Makings
    /\ Job!InitVMs <=> InitVMs
BY DEF Job!Fresh, Fresh, Job!Usable, Usable, Job!Started, Started, Job!MakerOf, MakerOf, Job!Made, Made,
       Job!Taken, Taken, Job!Released, Released, Job!Makings, Makings,
       Job!InitVMs, InitVMs, Job!Complete, Complete

LEMMA SameReplacement == \A t : Job!Replacement(t) = Rewritten(t)
BY SameProxmox DEF Job!Replacement, Rewritten

\* What a restore configures and starts is the VM that it has made, with the
\* whole object on its disk, unless that VM was taken away; and a compressed
\* object was the whole dump.
THEOREM RestoresAreWhole == Spec => []OkMeansWhole
<1>1. Owned => OkMeansWhole
    <2> SUFFICES ASSUME Owned, NEW t \in Threads
        PROVE  /\ Phase(t) = "write" => vm[job[t].target] = Job!Replacement(t)
               /\ Phase(t) \in {"set", "start"} /\ t \notin robbed =>
                    /\ MakerOf(job[t].target) = t
                    /\ \A m \in Makings \ {"set"} : vm[job[t].target].made[m] # None
                    /\ Phase(t) = "start" => vm[job[t].target].made["set"] # None
               /\ pc[t] \in {"set", "start"} /\ job[t].packed => job[t].restored = Size
        BY SameProxmox DEF OkMeansWhole, Job!RestoresOwn
    <2>1. /\ Typed /\ Part(t) /\ Owns(t) /\ job[t].restored \in Nat /\ Phase(t) = View(t)
          /\ job[t].qm \in {"none", "running", "stuck", "ok", "bad"}
          /\ pc[t] \in {"idle", "fetch", "feed", "waitZip", "waitQm", "set", "start", "left"}
        BY RestoreAssumption, PhaseIs DEF Owned, Typed, TypeOK, Jobs, Parts
    <2>2. ASSUME Phase(t) = "write" PROVE vm[job[t].target] = Rewritten(t)
        <3>1. /\ pc[t] \notin {"idle", "set", "start"} /\ 0 < job[t].restored
              /\ job[t].qm \in {"none", "running", "stuck"}
            BY <2>1, <2>2 DEF View
        <3>2. job[t].qm # "none"
            BY <2>1, <3>1 DEF Part, Fed
        <3> QED
            BY <2>1, <3>1, <3>2 DEF Owns
    <2>3. Phase(t) \in {"set", "start"} => pc[t] = Phase(t)
        BY <2>1 DEF View
    <2>4. ASSUME Phase(t) \in {"set", "start"}, t \notin robbed
          PROVE  Has(t, job[t].target, {"sshkey", "resize"} \cup (IF Phase(t) = "start" THEN {"set"} ELSE {}))
        BY <2>1, <2>3, <2>4 DEF Owns
    <2>5. pc[t] \in {"set", "start"} /\ job[t].packed => job[t].restored = Size
        BY <2>1 DEF Part, Fed
    <2> QED
        BY <2>2, <2>4, <2>5, Apart, SameReplacement DEF Has, MakerOf, Makings
<1> QED
    BY <1>1, AlwaysOwned, PTL

-----------------------------------------------------------------------------
(* Every step is one of RestoreJob, or none *)

Gones == {u \in Threads : pc[u] = "left"}

LEMMA PhaseMap == Typed => [u \in Threads |-> Phase(u)] = [u \in Threads |-> View(u)]
BY PhaseIs

LEMMA PhaseMapNext == (Typed => [u \in Threads |-> Phase(u)] = [u \in Threads |-> View(u)])'
<1>1. Typed => [u \in Threads |-> Phase(u)] = [u \in Threads |-> View(u)]
    BY PhaseMap
<1> QED
    BY <1>1, PTL

\* t goes to label, and nobody else anywhere.
LEMMA Moves ==
    ASSUME Typed, Typed', NEW t \in Threads, Frame(t), NEW label, label = View(t)'
    PROVE  /\ [u \in Threads |-> Phase(u)]' = [[u \in Threads |-> Phase(u)] EXCEPT ![t] = label]
           /\ [u \in Threads |-> job[u].target]' =
                 [[u \in Threads |-> job[u].target] EXCEPT ![t] = job'[t].target]
           /\ (pc'[t] = "left" <=> pc[t] = "left") => Gones' = Gones
           /\ pc'[t] = "left" => Gones' = Gones \cup {t}
           /\ pc'[t] # "left" => Gones' = Gones \ {t}
<1>1. \A u \in Threads : View(u)' = IF u = t THEN label ELSE View(u)
    BY DEF Frame, View, Whole
<1>2. [u \in Threads |-> View(u)]' = [[u \in Threads |-> View(u)] EXCEPT ![t] = label]
    BY <1>1
<1>3. \A u \in Threads : job'[u].target = IF u = t THEN job'[t].target ELSE job[u].target
    BY DEF Frame
<1>4. [u \in Threads |-> job'[u].target] = [[u \in Threads |-> job[u].target] EXCEPT ![t] = job'[t].target]
    BY <1>3
<1>5. \A u \in Threads \ {t} : u \in Gones' <=> u \in Gones
    BY DEF Frame, Gones
<1>6. t \in Gones <=> pc[t] = "left"
    BY DEF Gones
<1>7. t \in Gones' <=> pc'[t] = "left"
    BY DEF Gones
<1>8. Gones \subseteq Threads /\ Gones' \subseteq Threads
    BY DEF Gones
<1>9. [u \in Threads |-> Phase(u)]' = [[u \in Threads |-> Phase(u)] EXCEPT ![t] = label]
    BY <1>2, PhaseMap, PhaseMapNext
<1>10. /\ (pc'[t] = "left" <=> pc[t] = "left") => Gones' = Gones
       /\ pc'[t] = "left" => Gones' = Gones \cup {t}
       /\ pc'[t] # "left" => Gones' = Gones \ {t}
    <2> HIDE DEF Gones
    <2> QED
        BY <1>5, <1>6, <1>7, <1>8
<1> QED
    BY <1>4, <1>9, <1>10

LEMMA Enters ==
    ASSUME Typed, Typed', NEW t \in Threads, Frame(t), job'[t].target = job[t].target,
           pc'[t] = "left" <=> pc[t] = "left", NEW label, label = View(t)'
    PROVE  Job!Enter(t, label)
<1>1. [[u \in Threads |-> job[u].target] EXCEPT ![t] = job'[t].target] = [u \in Threads |-> job[u].target]
    OBVIOUS
<1> QED
    BY <1>1, Moves DEF Job!Enter, Gones

\* Nobody goes anywhere.
LEMMA Stays ==
    ASSUME Typed, Typed', NEW t \in Threads, Frame(t), job'[t].target = job[t].target,
           pc'[t] = "left" <=> pc[t] = "left", View(t)' = View(t), vm' = vm, robbed' = robbed
    PROVE  UNCHANGED Job!jobVars
<1>1. /\ [[u \in Threads |-> job[u].target] EXCEPT ![t] = job'[t].target] = [u \in Threads |-> job[u].target]
      /\ [[u \in Threads |-> View(u)] EXCEPT ![t] = View(t)] = [u \in Threads |-> View(u)]
    OBVIOUS
<1> QED
    BY <1>1, Moves, PhaseMap DEF Job!jobVars, Gones

\* The end of a request, or of what was left of one.
LEMMA Overs ==
    ASSUME Typed, Typed', NEW t \in Threads, job' = [job EXCEPT ![t] = NoJob], GoTo(t, "idle")
    PROVE  /\ [u \in Threads |-> Phase(u)]' = [[u \in Threads |-> Phase(u)] EXCEPT ![t] = "out"]
           /\ [u \in Threads |-> job[u].target]' = [[u \in Threads |-> job[u].target] EXCEPT ![t] = None]
           /\ Gones' = Gones \ {t}
<1>1. Frame(t) /\ pc'[t] = "idle" /\ job'[t].target = None
    BY NoJobTyped DEF Frame, GoTo, Typed, TypeOK
<1>2. View(t)' = "out"
    BY <1>1 DEF View
<1> QED
    BY <1>1, <1>2, Moves

\* RestoreJob's view of t.
LEMMA Views ==
    ASSUME Typed, NEW t \in Threads
    PROVE  /\ [u \in Threads |-> Phase(u)][t] = View(t)
           /\ [u \in Threads |-> job[u].target][t] = job[t].target
BY PhaseMap

LEMMA QuietImplements ==
    ASSUME Typed, Typed', NEW t \in Threads,
           \/ Decode(t) \/ DecodeEnds(t) \/ DecodeFails(t) \/ Write(t) \/ Stall(t)
           \/ Fetch(t) \/ Feed(t) \/ FeedEnds(t) \/ WaitZip(t)
    PROVE  UNCHANGED Job!jobVars
<1>1. job[t].restored \in Nat /\ job'[t].restored \in Nat
    BY RestoreAssumption DEF Typed, TypeOK, Jobs
<1>2. CASE Decode(t) \/ DecodeEnds(t) \/ DecodeFails(t) \/ Write(t) \/ Stall(t)
    <2>1. View(t)' = View(t)
        BY <1>1, <1>2, ProcessDoes DEF View
    <2> QED
        BY <1>2, <2>1, ProcessDoes, Stays
<1>3. CASE Fetch(t) \/ Feed(t) \/ FeedEnds(t) \/ WaitZip(t)
    <2>1. pc[t] \in {"fetch", "feed", "waitZip"} /\ pc'[t] \in {"feed", "waitZip", "waitQm"}
        BY <1>3 DEF Fetch, Feed, FeedEnds, WaitZip, GoTo, Typed, TypeOK
    <2>2. View(t)' = View(t)
        BY <1>1, <1>3, <2>1, ThreadDoes DEF View
    <2> QED
        BY <1>3, <2>1, <2>2, ThreadDoes, Stays
<1> QED
    BY <1>2, <1>3

\* An exception that nobody catches.
LEMMA RaisesImplements ==
    ASSUME Typed, Typed', NEW t \in Threads, FetchRaises(t) \/ FeedRaises(t)
    PROVE  Job!Leave(t)
<1>1. pc[t] \in {"fetch", "feed"} /\ pc'[t] = "left" /\ job[t].restored \in Nat
    BY RestoreAssumption DEF FetchRaises, FeedRaises, Leave, GoTo, Typed, TypeOK, Jobs
<1>2. View(t)' = View(t)
    BY <1>1, ThreadDoes DEF View
<1>3. [[u \in Threads |-> View(u)] EXCEPT ![t] = View(t)] = [u \in Threads |-> View(u)]
    OBVIOUS
<1>4. [[u \in Threads |-> job[u].target] EXCEPT ![t] = job'[t].target] = [u \in Threads |-> job[u].target]
    BY ThreadDoes
<1>5. View(t) \in Job!Undecided
    BY <1>1 DEF View, Job!Undecided
<1>6. /\ [u \in Threads |-> Phase(u)]' = [u \in Threads |-> Phase(u)]
      /\ [u \in Threads |-> job[u].target]' = [u \in Threads |-> job[u].target]
      /\ Gones' = Gones \cup {t} /\ t \notin Gones /\ vm' = vm /\ robbed' = robbed
    <2>1. t \notin Gones
        BY <1>1 DEF Gones
    <2>2. Frame(t) /\ vm' = vm /\ robbed' = robbed
        BY ThreadDoes
    <2> QED
        BY <1>1, <1>2, <1>3, <1>4, <2>1, <2>2, Moves, PhaseMap
<1>7. [u \in Threads |-> Phase(u)][t] \in Job!Undecided
    BY <1>5, Views
<1> QED
    BY <1>6, <1>7 DEF Job!Leave, Gones

LEMMA GoneImplements == ASSUME Typed, Typed', NEW t \in Threads, Gone(t) PROVE Job!Fail(t)
<1>1. Job!Over(t, vm)
    BY Overs DEF Gone, Job!Over, Gones, Released, Job!Released, Makings, Job!Makings
<1>2. View(t) \in Job!Undecided
    BY DEF Gone, View, Job!Undecided
<1> QED
    BY <1>1, <1>2, Views DEF Job!Fail

LEMMA BeginImplements ==
    ASSUME Typed, Typed', NEW t \in Threads, Begin(t)
    PROVE  \E v \in Vmids : Job!Begin(t, v)
<1>1. PICK v \in Vmids : job'[t].target = v
    BY BeginDoes
<1>2. View(t)' = "fetch" /\ View(t) = "out"
    BY BeginDoes DEF View
<1>3. Gones' = Gones
    <2>1. \A u \in Threads : pc'[u] = "left" <=> pc[u] = "left"
        BY BeginDoes DEF Frame
    <2> QED
        BY <2>1 DEF Gones
<1>4. \A u \in Threads \ Gones : View(u) = "out"
    BY BeginDoes DEF Gones, View
<1> QED
    BY <1>1, <1>2, <1>3, <1>4, BeginDoes, Moves, Views DEF Job!Begin, Gones

LEMMA WriterImplements ==
    ASSUME Typed, Typed', NEW t \in Threads, Replace(t) \/ WriteEnds(t) \/ WriteFails(t)
    PROVE  Job!Replace(t) \/ Job!Written(t) \/ Job!WriteFails(t) \/ UNCHANGED Job!jobVars
<1> SUFFICES ASSUME NEW v, v = job[t].target, NEW n, n = job[t].restored
    PROVE Job!Replace(t) \/ Job!Written(t) \/ Job!WriteFails(t) \/ UNCHANGED Job!jobVars
    OBVIOUS
<1>1. /\ job[t].qm \in {"running", "stuck"} /\ pc' = pc /\ n \in Nat /\ v \in Vmids /\ job[t] \in Jobs
      /\ pc[t] \notin {"idle", "set", "start"} /\ TypeOK
    <2>1. job[t].qm \in {"running", "stuck"} /\ pc' = pc
        BY DEF Replace, WriteEnds, WriteFails, Restoring
    <2>2. pc[t] \notin {"idle", "set", "start"}
        BY <2>1, RunnerBusy DEF Typed, Parts, Part, Fed
    <2> QED
        BY <2>1, <2>2, RestoreAssumption DEF Typed, TypeOK, Jobs
<1>2. Frame(t)
    BY <1>1 DEF Replace, WriteEnds, WriteFails, TypeOK, Frame
<1>3. [u \in Threads |-> job[u].target][t] = v
    OBVIOUS
<1>4. [u \in Threads |-> Phase(u)][t] = IF n = 0 THEN "fetch" ELSE "write"
    BY <1>1, Views DEF View
<1>5. CASE Replace(t)
    <2>1. /\ job'[t].target = v /\ job'[t].qm = "running" /\ job'[t].restored = 1 /\ n = 0
        BY <1>1, <1>5 DEF Replace, Restoring, TypeOK, Jobs
    <2>2. "write" = View(t)'
        BY <1>1, <2>1 DEF View
    <2>3. Job!Enter(t, "write")
        BY <1>1, <1>2, <2>1, <2>2, Enters
    <2>4. Taken(v, Rewritten(t)) /\ (vm[v] # None => ~vm[v].running /\ ~vm[v].locked)
        BY <1>5 DEF Replace, Rewritten
    <2>5. Job!Taken(v, Job!Replacement(t))
        BY <2>4, SameProxmox, SameReplacement
    <2> QED
        BY <1>3, <1>4, <2>1, <2>3, <2>4, <2>5 DEF Job!Replace, Job!Replaceable
<1>6. CASE WriteEnds(t)
    <2>1. /\ job'[t].target = v /\ job'[t].qm = "ok" /\ job'[t].restored = n /\ n > 0
          /\ vm' = [vm EXCEPT ![v] = Disk(t)] /\ robbed' = robbed /\ (Whole(t)' <=> Whole(t))
        BY <1>1, <1>6 DEF WriteEnds, TypeOK, Jobs, Whole
    <2>2. (IF Whole(t) THEN "whole" ELSE "cut") = View(t)'
        BY <1>1, <2>1 DEF View
    <2>3. Job!Enter(t, IF Whole(t) THEN "whole" ELSE "cut")
        BY <1>1, <1>2, <2>1, <2>2, Enters
    <2>4. Disk(t) = IF Whole(t) THEN Job!Filled(t) ELSE Job!Fresh(t)
        BY SameProxmox DEF Disk, Job!Filled
    <2>5. [u \in Threads |-> Phase(u)][t] = "write"
        BY <1>1, <1>4, <2>1
    <2>6. CASE Whole(t)
        <3>1. Job!Enter(t, "whole") /\ vm' = [vm EXCEPT ![v] = Job!Filled(t)]
            BY <2>1, <2>3, <2>4, <2>6
        <3> QED
            BY <1>3, <2>1, <2>5, <3>1, Zenon DEF Job!Written
    <2>7. CASE ~Whole(t)
        <3>1. Job!Enter(t, "cut") /\ vm' = [vm EXCEPT ![v] = Job!Fresh(t)]
            BY <2>1, <2>3, <2>4, <2>7
        <3> QED
            BY <1>3, <2>1, <2>5, <3>1, Zenon DEF Job!Written
    <2> QED
        BY <2>6, <2>7
<1>7. CASE WriteFails(t)
    <2>1. /\ job'[t].target = v /\ job'[t].qm = "bad" /\ job'[t].restored = n /\ robbed' = robbed
          /\ vm' = vm \/ (n > 0 /\ vm' = [vm EXCEPT ![v] = None])
        BY <1>1, <1>7 DEF WriteFails, TypeOK, Jobs
    <2>2. CASE n = 0
        <3>1. View(t)' = View(t)
            BY <1>1, <2>1, <2>2 DEF View
        <3>2. vm' = vm /\ robbed' = robbed /\ job'[t].target = job[t].target
            BY <2>1, <2>2
        <3> QED
            BY <1>1, <1>2, <3>1, <3>2, Stays
    <2>3. CASE n > 0
        <3>1. "failed" = View(t)'
            BY <1>1, <2>1, <2>3 DEF View
        <3>2. Job!Enter(t, "failed")
            BY <1>1, <1>2, <2>1, <3>1, Enters
        <3>3. [u \in Threads |-> Phase(u)][t] = "write"
            BY <1>1, <1>4, <2>3
        <3>4. vm' \in {vm, [vm EXCEPT ![[u \in Threads |-> job[u].target][t]] = None]}
            BY <1>3, <2>1
        <3>5. Job!WriteFails(t)
            BY <2>1, <3>2, <3>3, <3>4, Zenon DEF Job!WriteFails
        <3> QED
            BY <3>5
    <2> QED
        BY <1>1, <2>2, <2>3
<1> QED
    BY <1>5, <1>6, <1>7

LEMMA LastImplements ==
    ASSUME Typed, Typed', NEW t \in Threads, Last(t)
    PROVE  \/ Job!Accept(t) \/ Job!Fail(t) \/ Job!Set(t) \/ Job!SetFails(t) \/ Job!Start(t)
           \/ UNCHANGED Job!jobVars
<1> DEFINE Goal == \/ Job!Accept(t) \/ Job!Fail(t) \/ Job!Set(t) \/ Job!SetFails(t) \/ Job!Start(t)
                   \/ UNCHANGED Job!jobVars
           phase == [u \in Threads |-> Phase(u)]
           target == [u \in Threads |-> job[u].target]
<1> SUFFICES ASSUME NEW v, v = job[t].target PROVE Goal
    OBVIOUS
<1>1. target[t] = v /\ phase[t] = View(t) /\ job[t].restored \in Nat /\ Inside(t)
    BY Views, LastCases, RestoreAssumption DEF Typed, TypeOK, Jobs
<1>2. /\ Job!Named(t) = Named(t) /\ Job!Started(target[t]) = Running(t)
      /\ Job!Usable(target[t]) = Usable(v)
    BY <1>1, SameProxmox DEF Job!Named, Named, Running
<1>3. /\ Answer(t, vm) => Job!Over(t, vm)
      /\ Answer(t, Named(t)) => Job!Over(t, Named(t))
      /\ Answer(t, Running(t)) => Job!Over(t, Running(t))
    BY Overs DEF Answer, Job!Over, Gones, Released, Job!Released, Makings, Job!Makings
<1>4. CASE pc[t] \in {"fetch", "waitQm"} /\ Answer(t, vm)
    <2>1. phase[t] \in Job!Undecided
        BY <1>1, <1>4 DEF View, Job!Undecided
    <2> HIDE DEF phase
    <2>2. Job!Over(t, vm)
        BY <1>3, <1>4
    <2>3. Job!Fail(t)
        BY <2>1, <2>2 DEF Job!Fail, phase
    <2> QED
        BY <2>3
<1>5. CASE Accepts(t)
    <2>1. Whole(t) /\ job[t].qm = "ok" /\ pc[t] = "waitQm" /\ job[t].restored > 0
        BY <1>1, <1>5, VerdictWhole DEF Accepts, Verdict, Typed, Parts, Part, Fed
    <2>2. phase[t] = "whole" /\ t \notin Gones
        BY <1>1, <2>1 DEF View, Gones
    <2>3. /\ pc' = [pc EXCEPT ![t] = "set"] /\ vm' = vm /\ robbed' = robbed
          /\ job' = [job EXCEPT ![t].qm = "none"]
        BY <1>5 DEF Accepts, GoTo, vms
    <2>4. Frame(t) /\ pc'[t] = "set" /\ job'[t].target = job[t].target
        BY <2>3 DEF Typed, TypeOK, Jobs, Frame
    <2>5. "set" = View(t)'
        BY <2>4 DEF View
    <2>6. Job!Enter(t, "set")
        BY <2>1, <2>4, <2>5, Enters
    <2>7. Job!Accept(t)
        BY <2>2, <2>3, <2>6 DEF Job!Accept, Gones
    <2> QED
        BY <2>7
<1>6. CASE pc[t] = "set" /\ Usable(v) /\ Answer(t, Named(t))
    <2>1. phase[t] = "set"
        BY <1>1, <1>6 DEF View
    <2>2. Job!Over(t, Named(t))
        BY <1>3, <1>6
    <2>3. Job!SetFails(t)
        BY <1>2, <1>6, <2>1, <2>2 DEF Job!SetFails, Job!Over
    <2> QED
        BY <2>3
<1>7. CASE pc[t] = "set" /\ Answer(t, vm)
    <2>1. phase[t] = "set"
        BY <1>1, <1>7 DEF View
    <2>2. Job!Over(t, vm)
        BY <1>3, <1>7
    <2>3. Job!SetFails(t)
        BY <2>1, <2>2, Zenon DEF Job!SetFails
    <2> QED
        BY <2>3
<1>8. CASE Sets(t)
    <2>1. phase[t] = "set"
        BY <1>1, <1>8 DEF Sets, View
    <2>2. Frame(t) /\ pc[t] = "set" /\ pc'[t] = "start" /\ job'[t].target = job[t].target
        BY <1>8 DEF Sets, GoTo, Typed, TypeOK, Frame
    <2>3. "start" = View(t)'
        BY <2>2 DEF View
    <2>4. Job!Enter(t, "start")
        BY <2>2, <2>3, Enters
    <2>5. vm' = Job!Named(t) /\ robbed' = robbed /\ Job!Usable(target[t])
        BY <1>2, <1>8 DEF Sets
    <2>6. Job!Set(t)
        BY <2>1, <2>4, <2>5 DEF Job!Set
    <2> QED
        BY <2>6
<1>9. CASE pc[t] = "start" /\ (Answer(t, vm) \/ (Usable(v) /\ Answer(t, Running(t))))
    <2>1. phase[t] = "start"
        BY <1>1, <1>9 DEF View
    <2>2. Job!Over(t, vm) \/ (Usable(v) /\ Job!Over(t, Running(t)))
        BY <1>3, <1>9
    <2>3. Job!Start(t)
        BY <1>2, <2>1, <2>2 DEF Job!Start, Job!Over
    <2> QED
        BY <2>3
<1>10. CASE Again(t)
    <2>1. /\ Frame(t) /\ pc'[t] = pc[t] /\ pc[t] = "start" /\ job'[t].target = job[t].target
          /\ vm' = vm /\ robbed' = robbed
        BY <1>10 DEF Again, vms, Typed, TypeOK, Jobs, Frame
    <2>2. View(t)' = View(t)
        BY <2>1 DEF View
    <2> QED
        BY <2>1, <2>2, Stays
<1> HIDE DEF Goal
<1>11. CASE Set(t) \/ SetFails(t)
    BY <1>6, <1>7, <1>8, <1>11 DEF Set, SetFails, Sets
<1>12. CASE Start(t) \/ StartLocked(t) \/ StartFails(t)
    BY <1>9, <1>10, <1>12 DEF Start, StartLocked, StartFails, Again
<1>13. CASE FetchFails(t) \/ WaitQm(t)
    BY <1>4, <1>5, <1>13 DEF FetchFails, WaitQm, Accepts
<1> QED
    BY <1>11, <1>12, <1>13 DEF Last

LEMMA CrashImplements == ASSUME Typed, Typed', AgentCrash PROVE Job!Crash
<1>1. /\ pc' = [t \in Threads |-> "idle"] /\ job' = [t \in Threads |-> NoJob]
      /\ Released(Threads, vm)
    BY DEF AgentCrash
<1>2. [u \in Threads |-> Phase(u)]' = [u \in Threads |-> "out"]
    <2>1. \A u \in Threads : View(u)' = "out"
        BY <1>1 DEF View
    <2> QED
        BY <2>1, PhaseMapNext
<1>3. [u \in Threads |-> job[u].target]' = [u \in Threads |-> None]
    BY <1>1, NoJobTyped
<1>4. {u \in Threads : pc'[u] = "left"} = {}
    BY <1>1
<1> QED
    BY <1>1, <1>2, <1>3, <1>4 DEF Job!Crash, Released, Job!Released, Makings, Job!Makings

LEMMA OthersImplements ==
    ASSUME Typed, Typed', NEW w \in Vmids, Others(w)
    PROVE  Job!Elsewhere
<1>1. vm \in VmMaps /\ pc' = pc /\ job' = job
    BY VmsTyped DEF Others
<1>2. /\ [u \in Threads |-> Phase(u)]' = [u \in Threads |-> Phase(u)]
      /\ [u \in Threads |-> job[u].target]' = [u \in Threads |-> job[u].target]
    <2>1. [u \in Threads |-> View(u)]' = [u \in Threads |-> View(u)]
        BY <1>1 DEF View, Whole
    <2> QED
        BY <1>1, <2>1, PhaseMap, PhaseMapNext
<1>3. /\ \A v \in Vmids : vm[v] # None /\ vm[v].locked => vm'[v] = vm[v]
      /\ \A t \in Threads :
           /\ t \in robbed => t \in robbed'
           /\ \A v \in Vmids :
                /\ vm'[v] # None /\ vm'[v].made["clone"] = t => vm[v] # None /\ vm[v].made["clone"] = t
                /\ vm[v] # None /\ vm[v].made["clone"] = t =>
                     t \in robbed' \/ (vm'[v] # None /\ vm'[v].made["clone"] = t)
    <2>1. CASE vm[w] = None /\ vm' = [vm EXCEPT ![w] = Complete] /\ robbed' = robbed
        <3>1. Complete.made["clone"] = "done"
            BY DEF Complete, Makings
        <3> QED
            BY <1>1, <2>1, <3>1, Apart DEF VmMaps
    <2>2. CASE Usable(w) /\ Taken(w, None)
        BY <1>1, <2>2 DEF Usable, Taken, MakerOf, VmMaps
    <2>3. ASSUME NEW b \in BOOLEAN, Usable(w), vm' = [vm EXCEPT ![w].running = b], robbed' = robbed
          PROVE  \A v \in Vmids :
                   /\ vm[v] # None /\ vm[v].locked => vm'[v] = vm[v]
                   /\ vm'[v] # None <=> vm[v] # None
                   /\ vm[v] # None => vm'[v].made = vm[v].made
        <3>1. /\ [vm EXCEPT ![w].running = b] \in VmMaps
              /\ \A x \in Vmids : x # w => [vm EXCEPT ![w].running = b][x] = vm[x]
              /\ [vm EXCEPT ![w].running = b][w] # None
              /\ [vm EXCEPT ![w].running = b][w].made = vm[w].made
              /\ [vm EXCEPT ![w].running = b][w].locked = vm[w].locked
            BY <1>1, <2>3, RunTyped, Zenon DEF Usable
        <3> QED
            BY <2>3, <3>1 DEF Usable
    <2>4. CASE Usable(w) /\ vm' \in {Started(w), Stopped(w)} /\ robbed' = robbed
        BY <2>3, <2>4 DEF Started, Stopped
    <2> QED
        BY <2>1, <2>2, <2>4 DEF Others
<1>4. \A t \in Threads : [u \in Threads |-> Phase(u)][t] # "out" => job[t].target \in Vmids
    BY Views DEF View, Typed, TypeOK, Jobs
<1>5. ASSUME NEW t \in Job!Busy
      PROVE  /\ \A v \in Vmids : Job!MakerOf(v)' = t => Job!MakerOf(v) = t
             /\ Job!MakerOf(job[t].target) = t => Job!MakerOf(job[t].target)' = t \/ t \in robbed'
             /\ t \in robbed => t \in robbed'
    <2>1. t \in Threads /\ t # None /\ job[t].target \in Vmids /\ job'[t].target = job[t].target
        BY <1>1, <1>4, Apart DEF Job!Busy
    <2> QED
        BY <1>3, <2>1 DEF Job!MakerOf
<1> QED
    BY <1>1, <1>2, <1>3, <1>5 DEF Job!Elsewhere, Job!restore, Job!Busy

\* With its pipes, processes and retries a restore does what RestoreJob says.
THEOREM RestoreImplements == Spec => Implements
<1>1. Init => Job!Init
    <2> SUFFICES ASSUME Init PROVE Job!Init
        OBVIOUS
    <2>1. Typed /\ pc = [t \in Threads |-> "idle"] /\ job = [t \in Threads |-> NoJob] /\ InitVMs
        BY InitOwned DEF Owned, Init
    <2>2. [u \in Threads |-> Phase(u)] = [u \in Threads |-> "out"]
        BY <2>1, PhaseMap DEF View
    <2> QED
        BY <2>1, <2>2, NoJobTyped, SameProxmox DEF Job!Init
<1>2. Owned /\ Owned' /\ [Next]_vars => [Job!Next]_(Job!jobVars)
    <2> SUFFICES ASSUME Typed, Typed', [Next]_vars PROVE [Job!Next]_(Job!jobVars)
        BY DEF Owned
    <2>1. CASE UNCHANGED vars \/ \E t \in Threads : Refuse(t)
        <3>1. pc' = pc /\ job' = job /\ vm' = vm /\ robbed' = robbed
            BY <2>1 DEF vars, Refuse
        <3>2. [u \in Threads |-> View(u)]' = [u \in Threads |-> View(u)]
            BY <3>1 DEF View, Whole
        <3> QED
            BY <3>1, <3>2, PhaseMap, PhaseMapNext DEF Job!jobVars
    <2>2. ASSUME NEW t \in Threads, Last(t) PROVE [Job!Next]_(Job!jobVars)
        BY <2>2, LastImplements DEF Job!Next, Job!Step
    <2>3. ASSUME NEW t \in Threads,
                 \/ Decode(t) \/ DecodeEnds(t) \/ DecodeFails(t) \/ Write(t) \/ Stall(t)
                 \/ Fetch(t) \/ Feed(t) \/ FeedEnds(t) \/ WaitZip(t)
          PROVE  [Job!Next]_(Job!jobVars)
        BY <2>3, QuietImplements
    <2>4. ASSUME NEW t \in Threads, Begin(t) PROVE [Job!Next]_(Job!jobVars)
        BY <2>4, BeginImplements DEF Job!Next, Job!Step
    <2>5. ASSUME NEW t \in Threads, Replace(t) \/ WriteEnds(t) \/ WriteFails(t)
          PROVE  [Job!Next]_(Job!jobVars)
        BY <2>5, WriterImplements DEF Job!Next, Job!Step
    <2>6. CASE AgentCrash
        BY <2>6, CrashImplements DEF Job!Next
    <2>7. ASSUME NEW w \in Vmids, Others(w) PROVE [Job!Next]_(Job!jobVars)
        BY <2>7, OthersImplements DEF Job!Next
    <2>8. ASSUME NEW t \in Threads, FetchRaises(t) \/ FeedRaises(t) PROVE [Job!Next]_(Job!jobVars)
        BY <2>8, RaisesImplements DEF Job!Next, Job!Step
    <2>9. ASSUME NEW t \in Threads, Gone(t) PROVE [Job!Next]_(Job!jobVars)
        BY <2>9, GoneImplements DEF Job!Next, Job!Step
    <2> QED
        BY <2>1, <2>2, <2>3, <2>4, <2>5, <2>6, <2>7, <2>8, <2>9, NextCases, Zenon
<1> QED
    BY <1>1, <1>2, AlwaysOwned, PTL DEF Spec, Implements, Job!Spec
=============================================================================
