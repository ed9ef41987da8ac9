-------------------------- MODULE SelfUpdateProofs --------------------------
(***************************************************************************)
(* Proofs about SelfUpdate, for any number of threads and names.           *)
(***************************************************************************)
EXTENDS SelfUpdate, TLAPS

-----------------------------------------------------------------------------
(* Types *)

\* Who has written the script, or runs it, has named a tarball in it.
Written ==
    (\E t \in Threads : at[t] \in {"write", "spawn"}) \/ Runs("read") => script # None

Typed == TypeOK /\ Written

LEMMA Apart ==
    /\ None \notin Names /\ None # "shipped" /\ None # "blank"
    /\ None # "whole" /\ None # "other" /\ None # "cut"
    /\ None \notin Units
    /\ "shipped" \notin Names /\ "blank" \notin Names
BY SelfUpdateAssumption DEF Tarballs

LEMMA UnitTypes ==
    /\ Queued \in Units /\ Queued.step = "read" /\ Queued.tarball = None
    /\ \A s \in Steps, n \in Names \cup {None} : [step |-> s, tarball |-> n] \in Units
    /\ \A u \in Units, s \in Steps :
         /\ [u EXCEPT !.step = s] \in Units
         /\ [u EXCEPT !.step = s].step = s
         /\ [u EXCEPT !.step = s].tarball = u.tarball
         /\ u # None
BY Apart DEF Queued, Units, Steps

LEMMA CodeTypes ==
    /\ Shipped \in Codes /\ Removed \in Codes
    /\ \A k \in {"whole", "other", "part"}, n \in Names \cup {None} :
         [kind |-> k, from |-> n] \in Codes
BY DEF Shipped, Removed, Codes

LEMMA NextStep ==
    ASSUME TypeOK, NEW s \in Steps \ {"read"}, unit # None, unit.step # "read", Step(s)
    PROVE  /\ unit' \in Units /\ unit' # None
           /\ unit'.step = s
           /\ unit'.tarball = unit.tarball /\ unit.tarball # None
BY UnitTypes DEF TypeOK, Step

LEMMA InitTyped == Init => Typed
BY CodeTypes, Apart DEF Init, Typed, TypeOK, Written, Runs

LEMMA HandlerTyped ==
    ASSUME Typed, NEW t \in Threads, Handler(t)
    PROVE  Typed'
<1> USE Apart DEF Typed, TypeOK, Written, Runs
<1>1. CASE Request(t)
    BY <1>1 DEF Request, Tarballs
<1>2. CASE Download(t)
    BY <1>2 DEF Download, GoTo
<1>3. CASE Fails(t)
    BY <1>3 DEF Fails, Answer
<1>4. CASE OpenScript(t)
    BY <1>4 DEF OpenScript, GoTo
<1>5. CASE WriteScript(t)
    BY <1>5 DEF WriteScript, GoTo
<1>6. CASE Spawn(t)
    <2>1. unit' \in Units /\ unit' # None /\ unit'.step = "read" /\ unit'.tarball = None
        BY <1>6, UnitTypes DEF Spawn
    <2>2. script # None
        BY <1>6 DEF Spawn
    <2> QED
        BY <1>6, <2>1, <2>2 DEF Spawn, Answer
<1>7. CASE SpawnFails(t)
    BY <1>7 DEF SpawnFails, Answer
<1> QED
    BY <1>1, <1>2, <1>3, <1>4, <1>5, <1>6, <1>7 DEF Handler

LEMMA UpdateTyped ==
    ASSUME Typed, Update
    PROVE  Typed'
<1> USE Apart, CodeTypes DEF Typed, TypeOK, Written, Runs
<1>1. CASE ReadScript
    <2>1. script \in Names => [step |-> "stop", tarball |-> script] \in Units
        BY UnitTypes DEF Steps
    <2>2. unit' = None \/ (unit' \in Units /\ unit'.step = "stop" /\ unit'.tarball # None)
        BY <1>1, <2>1 DEF ReadScript
    <2> QED
        BY <1>1, <2>2 DEF ReadScript
<1>2. CASE Stop
    <2>1. unit' \in Units /\ unit' # None /\ unit'.step = "stopping" /\ unit'.tarball # None
        BY <1>2, NextStep DEF Stop, Steps
    <2> QED
        BY <1>2, <2>1 DEF Stop
<1>3. CASE StopFails
    <2>1. unit' \in Units /\ unit' # None /\ unit'.step = "remove" /\ unit'.tarball # None
        BY <1>3, NextStep DEF StopFails, Steps
    <2> QED
        BY <1>3, <2>1 DEF StopFails
<1>4. CASE Stopped
    <2>1. unit' \in Units /\ unit' # None /\ unit'.step = "remove" /\ unit'.tarball # None
        BY <1>4, NextStep DEF Stopped, Steps
    <2> QED
        BY <1>4, <2>1 DEF Stopped, DropRequests
<1>5. CASE Remove
    <2>1. unit' \in Units /\ unit' # None /\ unit'.step = "unpack" /\ unit'.tarball # None
        BY <1>5, NextStep DEF Remove, Steps
    <2> QED
        BY <1>5, <2>1 DEF Remove
<1>6. CASE Unpack
    <2>1. unit' \in Units /\ unit' # None /\ unit'.step = "clean" /\ unit'.tarball # None
        BY <1>6, NextStep DEF Unpack, Steps
    <2>2. unit.tarball \in Names \cup {None}
        BY <1>6 DEF Unpack, Units
    <2>3. code' \in Codes
        BY <1>6, <2>2 DEF Unpack
    <2> QED
        BY <1>6, <2>1, <2>3 DEF Unpack
<1>7. CASE UnpackFails
    BY <1>7 DEF UnpackFails, Units
<1>8. CASE Clean
    <2>1. unit' \in Units /\ unit' # None /\ unit'.step = "pip" /\ unit'.tarball # None
        BY <1>8, NextStep DEF Clean, Steps
    <2> QED
        BY <1>8, <2>1 DEF Clean
<1>9. CASE Pip \/ PipFails
    <2>1. unit' \in Units /\ unit' # None /\ unit'.step = "start" /\ unit'.tarball # None
        BY <1>9, NextStep DEF Pip, PipFails, Steps
    <2> QED
        BY <1>9, <2>1 DEF Pip, PipFails
<1>10. CASE CommandFails
    BY <1>10 DEF CommandFails
<1>11. CASE Start
    BY <1>11 DEF Start, Boot
<1> QED
    BY <1>1, <1>2, <1>3, <1>4, <1>5, <1>6, <1>7, <1>8, <1>9, <1>10, <1>11 DEF Update

LEMMA HostTyped ==
    ASSUME Typed,
           AgentCrash \/ AgentRestart \/ Reboot \/ (\E n \in Names : CleanTmp(n))
    PROVE  Typed'
<1> USE Apart DEF Typed, TypeOK, Written, Runs
<1>1. CASE AgentCrash
    BY <1>1 DEF AgentCrash, DropRequests
<1>2. CASE AgentRestart
    BY <1>2 DEF AgentRestart, Boot
<1>3. CASE Reboot
    BY <1>3 DEF Reboot, Boot, DropRequests
<1>4. ASSUME NEW n \in Names, CleanTmp(n) PROVE Typed'
    BY <1>4 DEF CleanTmp
<1> QED
    BY <1>1, <1>2, <1>3, <1>4

LEMMA StepTyped == Typed /\ [Next]_vars => Typed'
<1> SUFFICES ASSUME Typed, [Next]_vars PROVE Typed'
    OBVIOUS
<1>1. CASE UNCHANGED vars
    BY <1>1 DEF vars, Typed, TypeOK, Written, Runs
<1> QED
    BY <1>1, HandlerTyped, UpdateTyped, HostTyped DEF Next

\* Requests, updates, deaths of the agent and reboots keep every variable in
\* its type.
THEOREM TypeCorrect == Spec => []TypeOK
<1>1. Typed => TypeOK
    BY DEF Typed
<1> QED
    BY <1>1, InitTyped, StepTyped, PTL DEF Spec

-----------------------------------------------------------------------------
(* The code is replaced under a stopped agent and started as a whole *)

\* ReplacedStopped, from the end of the stop.
Down ==
    unit # None /\ unit.step \in {"remove", "unpack", "clean", "pip", "start"} /\ ~survived =>
        agent = "stopped"

\* What has been unpacked when the script comes past tar.
Unpacked ==
    unit # None /\ unit.step \in {"clean", "pip", "start"} =>
        code.from = unit.tarball /\ code.kind # "part"

Replacing == Typed /\ Down /\ Unpacked

LEMMA InitReplacing == Init => Replacing
BY InitTyped DEF Init, Replacing, Down, Unpacked

LEMMA UpdateReplacing ==
    ASSUME Replacing, Update
    PROVE  Down' /\ Unpacked'
<1> USE Apart, UnitTypes DEF Replacing, Down, Unpacked, Typed, TypeOK, Runs, Step, Steps
<1>1. CASE ReadScript
    BY <1>1 DEF ReadScript
<1>2. CASE Stop
    BY <1>2 DEF Stop
<1>3. CASE StopFails
    BY <1>3 DEF StopFails
<1>4. CASE Stopped
    BY <1>4 DEF Stopped
<1>5. CASE Remove
    BY <1>5 DEF Remove
<1>6. CASE Unpack
    BY <1>6 DEF Unpack
<1>7. CASE UnpackFails \/ CommandFails \/ Start
    BY <1>7 DEF UnpackFails, CommandFails, Start
<1>8. CASE Clean
    BY <1>8 DEF Clean
<1>9. CASE Pip
    BY <1>9 DEF Pip
<1>10. CASE PipFails
    BY <1>10 DEF PipFails
<1> QED
    BY <1>1, <1>2, <1>3, <1>4, <1>5, <1>6, <1>7, <1>8, <1>9, <1>10 DEF Update

LEMMA StepReplacing == Replacing /\ [Next]_vars => Replacing'
<1> SUFFICES ASSUME Replacing, [Next]_vars PROVE Down' /\ Unpacked'
    BY StepTyped DEF Replacing
<1> USE Apart, UnitTypes DEF Replacing, Down, Unpacked
<1>1. ASSUME NEW t \in Threads, Handler(t) PROVE Down' /\ Unpacked'
    BY <1>1 DEF Handler, Request, Download, Fails, OpenScript, WriteScript, Spawn,
                SpawnFails
<1>2. CASE AgentCrash
    BY <1>2 DEF AgentCrash
<1>3. CASE AgentRestart
    BY <1>3 DEF AgentRestart
<1>4. CASE Reboot
    BY <1>4 DEF Reboot
<1>5. ASSUME NEW n \in Names, CleanTmp(n) PROVE Down' /\ Unpacked'
    BY <1>5 DEF CleanTmp
<1>6. CASE UNCHANGED vars
    BY <1>6 DEF vars
<1> QED
    BY <1>1, <1>2, <1>3, <1>4, <1>5, <1>6, UpdateReplacing DEF Next

\* Nothing starts the agent while its code is replaced, unless it has outlived
\* the stop.
THEOREM ReplacedUnderStoppedAgent == Spec => []ReplacedStopped
<1>1. Replacing => ReplacedStopped
    BY DEF Replacing, Down, ReplacedStopped
<1> QED
    BY <1>1, InitReplacing, StepReplacing, PTL DEF Spec

\* What the script starts has been unpacked as a whole from its own tarball.
THEOREM StartsWhatItUnpacked == Spec => StartsOwn
<1>1. Replacing /\ [Next]_vars =>
          [Start => code.from = unit.tarball /\ code.kind # "part"]_vars
    BY DEF Replacing, Unpacked, Start, Runs
<1> QED
    BY <1>1, InitReplacing, StepReplacing, PTL DEF Spec, StartsOwn

-----------------------------------------------------------------------------
(* The tarball is there *)

There(n) == n \in Names => tmp[n] # None

\* The tarballs of the requests, of the script that is about to be run, and of
\* the unit up to its tar.
Tarred ==
    ~survived =>
        /\ \A t \in Threads : There(file[t])
        /\ (\E t \in Threads : at[t] = "spawn") \/ Runs("read") => There(script)
        /\ unit # None /\ unit.step \in {"stop", "stopping", "remove", "unpack"} =>
             There(unit.tarball)

Supplied == Replacing /\ Tarred

LEMMA InitSupplied == Init => Supplied
BY InitReplacing, Apart DEF Init, Supplied, Tarred, There, Runs

LEMMA HandlerSupplied ==
    ASSUME Supplied, NEW t \in Threads, Handler(t)
    PROVE  Tarred'
<1> USE Apart, UnitTypes DEF Supplied, Replacing, Tarred, There, Typed, TypeOK, Runs
<1>1. CASE Request(t)
    BY <1>1 DEF Request
<1>2. CASE Download(t)
    BY <1>2 DEF Download, GoTo, Tarballs
<1>3. CASE Fails(t)
    BY <1>3 DEF Fails, Answer
<1>4. CASE OpenScript(t)
    BY <1>4 DEF OpenScript, GoTo
<1>5. CASE WriteScript(t)
    BY <1>5 DEF WriteScript, GoTo
<1>6. CASE Spawn(t)
    BY <1>6 DEF Spawn, Answer
<1>7. CASE SpawnFails(t)
    BY <1>7 DEF SpawnFails, Answer
<1> QED
    BY <1>1, <1>2, <1>3, <1>4, <1>5, <1>6, <1>7 DEF Handler

LEMMA UpdateSupplied ==
    ASSUME Supplied, Update
    PROVE  Tarred'
<1> USE Apart, UnitTypes
    DEF Supplied, Replacing, Tarred, There, Typed, TypeOK, Runs, Step, Steps
<1>1. CASE ReadScript
    BY <1>1 DEF ReadScript
<1>2. CASE Stop
    BY <1>2 DEF Stop
<1>3. CASE StopFails
    BY <1>3 DEF StopFails
<1>4. CASE Stopped
    BY <1>4 DEF Stopped, DropRequests
<1>5. CASE Remove
    BY <1>5 DEF Remove
<1>6. CASE Unpack
    BY <1>6 DEF Unpack
<1>7. CASE UnpackFails
    BY <1>7 DEF UnpackFails
<1>8. CASE Clean
    <2>1. CASE survived
        BY <1>8, <2>1 DEF Clean
    <2>2. CASE ~survived
        <3>1. agent = "stopped"
            BY <1>8, <2>2 DEF Clean, Down
        <3>2. \A t \in Threads : at[t] = "idle" /\ file[t] = None
            BY <3>1
        <3> QED
            BY <1>8, <3>2 DEF Clean
    <2> QED
        BY <2>1, <2>2
<1>9. CASE CommandFails
    BY <1>9 DEF CommandFails
<1>10. CASE Start
    <2>1. CASE agent = "up"
        BY <1>10, <2>1 DEF Start
    <2>2. CASE agent # "up"
        <3>1. \A t \in Threads : at[t] = "idle" /\ file[t] = None
            BY <1>10, <2>2 DEF Start
        <3> QED
            BY <1>10, <3>1 DEF Start
    <2> QED
        BY <2>1, <2>2
<1>11. CASE Pip
    BY <1>11 DEF Pip
<1>12. CASE PipFails
    BY <1>12 DEF PipFails
<1> QED
    BY <1>1, <1>2, <1>3, <1>4, <1>5, <1>6, <1>7, <1>8, <1>9, <1>10, <1>11, <1>12 DEF Update

LEMMA StepSupplied == Supplied /\ [Next]_vars => Supplied'
<1> SUFFICES ASSUME Supplied, [Next]_vars PROVE Tarred'
    BY StepReplacing DEF Supplied
<1> USE Apart, UnitTypes DEF Supplied, Replacing, Tarred, There, Typed, TypeOK, Runs
<1>1. CASE AgentCrash
    BY <1>1 DEF AgentCrash, DropRequests
<1>2. CASE AgentRestart
    BY <1>2 DEF AgentRestart
<1>3. CASE Reboot
    BY <1>3 DEF Reboot, DropRequests
<1>4. ASSUME NEW n \in Names, CleanTmp(n) PROVE Tarred'
    BY <1>4 DEF CleanTmp
<1>5. CASE UNCHANGED vars
    BY <1>5 DEF vars
<1> QED
    BY <1>1, <1>2, <1>3, <1>4, <1>5, HandlerSupplied, UpdateSupplied DEF Next

\* Whatever requests do to each other's script and unit, the script that has
\* removed the code has its tarball, unless an agent outlived a stop.
THEOREM TarballNotLost == Spec => []TarballThere
<1>1. Supplied => TarballThere
    BY DEF Supplied, Replacing, Typed, TypeOK, Tarred, There, TarballThere, Runs, Units
<1> QED
    BY <1>1, InitSupplied, StepSupplied, PTL DEF Spec
=============================================================================
