----------------------------- MODULE GuestProofs -----------------------------
(***************************************************************************)
(* Proofs about Guest, for any number of threads, scripts, branches,       *)
(* contents, accounts and configurations.                                  *)
(***************************************************************************)
EXTENDS Guest, SequenceTheorems, TLAPS

-----------------------------------------------------------------------------
(* The invariant: the scripts and who waits for them *)

AllScripts == Scripts \cup A!Scripts \cup E!Scripts

ProjectKinds == {"clone", "env", "up", "down"}
LoginKinds   == {"login", "logout"}
EditorKinds  == {"install", "configure", "stop"}

\* What a script of each kind is asked to do.
Args(r) ==
    /\ r.kind = "clone" => r.arg \in Branches
    /\ r.kind = "env" => r.arg \in Contents
    /\ r.kind = "login" => r.arg \in Accounts
    /\ r.kind = "configure" => r.arg \in Configs

Typed ==
    /\ waits \in [Threads -> Slots \cup {None}]
    /\ script \in [Slots -> AllScripts \cup {None}]
    /\ \A s \in Slots : script[s] # None => Args(script[s])

\* A script stays until the thread that waits for it has its answer.
Awaited == \A t \in Threads : waits[t] # None => script[waits[t]] # None

Single == \A t, u \in Threads : waits[t] # None /\ waits[t] = waits[u] => t = u

\* The scripts s and p work on the same things.
Rival(s, p) == \E r \in Rivals : {script[s].kind, script[p].kind} \subseteq r

\* A script that is alone has no rival, not one that has ended either.
Solo ==
    \A s, p \in Slots :
        s # p /\ script[s] # None /\ script[p] # None /\ Rival(s, p) => ~script[s].alone

Exec == Typed /\ Awaited /\ Single /\ Solo

-----------------------------------------------------------------------------
(* The invariant: the projects *)

\* A script in slot s, of the given kind.
Is(s, kind) == script[s] # None /\ script[s].kind = kind

\* The COMMIT is read once; .env.tmp is written when mv comes.
ProjectRead(s) ==
    /\ Is(s, "clone") /\ script[s].at \notin {"print", "ok", "bad"} => script[s].saw = <<>>
    /\ Is(s, "env") /\ script[s].at = "move" => tmp[s] # "torn"

\* How far a clone is that has met no other one.
Cloned(s) ==
    Is(s, "clone") /\ script[s].alone =>
        /\ script[s].at = "remove" => ~Whole(tree)
        /\ script[s].at = "cloning" /\ tree # None /\ tree.by = s => tree.head = None
        /\ script[s].at = "parse" => tree # None /\ tree.head = script[s].arg
        /\ script[s].at \in {"print", "ok"} => script[s].saw = <<script[s].arg>>

ProjectFiles ==
    /\ FilesTypeOK
    /\ EnvWhole
    /\ tree # None /\ tree.by # None => tree.git

ProjectInv == ProjectFiles /\ \A s \in Slots : ProjectRead(s) /\ Cloned(s)

-----------------------------------------------------------------------------
(* The invariant: the login and the editor *)

\* How many of LOGIN, NAME and EMAIL save_script has read.
LoginRead(s) ==
    Is(s, "login") =>
        /\ script[s].at \in {"login", "setup"} => script[s].saw = <<>>
        /\ script[s].at = "ask" => Len(script[s].saw) \in 0..2
        /\ script[s].at \in {"name", "email", "ok"} => Len(script[s].saw) = 3

\* How far a login is that has met no other one and no logout.
LoggedIn(s) ==
    Is(s, "login") /\ script[s].alone =>
        /\ script[s].at \in {"setup", "ask", "name", "email", "ok"} =>
             /\ auth.token = script[s].arg
             /\ \A i \in 1..Len(script[s].saw) : script[s].saw[i] = script[s].arg
        /\ script[s].at \in {"email", "ok"} => auth.name = script[s].arg
        /\ script[s].at = "ok" => auth.email = script[s].arg

LoginInv == A!LoginTypeOK /\ \A s \in Slots : LoginRead(s) /\ LoggedIn(s)

\* How far an install is that has met no other request about the editor.
Installed(s) ==
    Is(s, "install") =>
        /\ script[s].at = "test" => script[s].saw = <<>>
        /\ script[s].alone =>
             /\ script[s].at = "version" => bin \in {"part", "whole"} /\ script[s].saw = <<bin>>
             /\ script[s].at = "check" => bin = "whole"
             /\ script[s].at = "ok" => bin = "whole" \/ (bin = "part" /\ script[s].saw = <<"part">>)

\* How far a configure is that has met no other request about the editor.
Configured(s) ==
    Is(s, "configure") /\ script[s].alone =>
        /\ script[s].at \in {"unit", "united", "restart", "ok"} => conf.token = script[s].arg
        /\ script[s].at \in {"restart", "ok"} => conf.unit = script[s].arg
        /\ script[s].at = "ok" =>
             server \in {None, [token |-> script[s].arg, unit |-> script[s].arg]}

EditorInv == E!EditorTypeOK /\ \A s \in Slots : Installed(s) /\ Configured(s)

GuestInv == Exec /\ ProjectInv /\ LoginInv /\ EditorInv

-----------------------------------------------------------------------------
(* Scripts as data *)

ProjectAts == {"test", "update", "updating", "remove", "clone", "cloning", "parse",
               "print", "write", "writing", "move", "stat", "run", "ok", "bad"}
LoginAts   == {"login", "setup", "ask", "name", "email", "out", "unname", "unmail", "ok", "bad"}
EditorAts  == {"test", "version", "mkdir", "unpack", "replace", "unpacking", "check", "token",
               "tokened", "unit", "united", "restart", "stop", "ok", "bad"}

\* The labels that a script of this kind has.
Ats(kind) ==
    IF kind \in ProjectKinds THEN ProjectAts ELSE IF kind \in LoginKinds THEN LoginAts ELSE EditorAts

\* What a script of this kind may have read.
Saws(kind) ==
    IF kind \in ProjectKinds THEN {<<>>} \cup {<<b>> : b \in Branches}
    ELSE IF kind \in LoginKinds THEN UNION {[1..n -> Accounts] : n \in 0..3}
    ELSE {<<>>} \cup {<<b>> : b \in E!Bins}

LEMMA Apart ==
    /\ None \notin Slots \cup Branches \cup Contents \cup Accounts \cup Configs
    /\ None \notin Trees /\ None \notin AllScripts
    /\ None \notin [token : Configs, unit : Configs]
    /\ "torn" \notin Contents \cup Configs \cup {None}
BY ProjectsAssumption, GuestAssumption DEF AllScripts

\* The kind of a script tells what else it may have.
LEMMA ScriptFields ==
    ASSUME NEW r \in AllScripts
    PROVE  /\ r.kind \in ProjectKinds \cup LoginKinds \cup EditorKinds
           /\ r.at \in Ats(r.kind) /\ r.saw \in Saws(r.kind) /\ r.alone \in BOOLEAN
BY DEF AllScripts, Scripts, A!Scripts, E!Scripts, ProjectKinds, LoginKinds, EditorKinds,
       Ats, Saws, ProjectAts, LoginAts, EditorAts

\* A script that goes on is a script.
LEMMA ScriptGoes ==
    ASSUME NEW r \in AllScripts, NEW label \in Ats(r.kind)
    PROVE  LET q == [r EXCEPT !.at = label]
           IN  /\ q \in AllScripts /\ q.at = label
               /\ q.kind = r.kind /\ q.arg = r.arg /\ q.saw = r.saw /\ q.alone = r.alone
BY DEF AllScripts, Scripts, A!Scripts, E!Scripts, ProjectKinds, LoginKinds, EditorKinds,
       Ats, ProjectAts, LoginAts, EditorAts

LEMMA ScriptReads ==
    ASSUME NEW r \in AllScripts, NEW seen \in Saws(r.kind)
    PROVE  LET q == [r EXCEPT !.saw = seen]
           IN  /\ q \in AllScripts /\ q.saw = seen
               /\ q.kind = r.kind /\ q.arg = r.arg /\ q.at = r.at /\ q.alone = r.alone
BY DEF AllScripts, Scripts, A!Scripts, E!Scripts, ProjectKinds, LoginKinds, EditorKinds, Saws

LEMMA ScriptLeft ==
    ASSUME NEW r \in AllScripts
    PROVE  LET q == [r EXCEPT !.alone = FALSE]
           IN  /\ q \in AllScripts /\ q.alone = FALSE
               /\ q.kind = r.kind /\ q.arg = r.arg /\ q.saw = r.saw /\ q.at = r.at
BY DEF AllScripts, Scripts, A!Scripts, E!Scripts

LEMMA ScriptStopped ==
    ASSUME NEW r \in AllScripts
    PROVE  LET q == [r EXCEPT !.at = IF @ = "ok" THEN "ok" ELSE "bad", !.alone = FALSE]
           IN  /\ q \in AllScripts /\ q.alone = FALSE /\ q.at \in {r.at, "bad"}
               /\ q.kind = r.kind /\ q.arg = r.arg /\ q.saw = r.saw
BY ZenonT(20) DEF AllScripts, Scripts, A!Scripts, E!Scripts

-----------------------------------------------------------------------------
(* What a step does to the scripts *)

\* The script in slot p is over, or it is as it was, or broken off, and if it
\* is alone it has been.
Fades(p) ==
    script'[p] # None =>
        /\ script[p] # None
        /\ script'[p].kind = script[p].kind /\ script'[p].arg = script[p].arg
        /\ script'[p].saw = script[p].saw /\ script'[p].at \in {script[p].at, "bad"}
        /\ script'[p].alone => script[p].alone

\* The script in slot s comes to label, having read seen; the others stay.
Acts(s, label, seen) ==
    /\ script[s] # None
    /\ Exec'
    /\ \A p \in Slots \ {s} : script'[p] = script[p]
    /\ script'[s] # None =>
         /\ script'[s].kind = script[s].kind /\ script'[s].arg = script[s].arg
         /\ script'[s].saw = seen /\ script'[s].at = label
         /\ script'[s].alone = script[s].alone

LEMMA OthersFade ==
    ASSUME NEW s \in Slots, NEW label, NEW seen, Acts(s, label, seen), NEW p \in Slots \ {s}
    PROVE  Fades(p)
BY DEF Acts, Fades

LEMMA Fixed ==
    ASSUME NEW p \in Slots, script'[p] = script[p] PROVE Fades(p)
BY DEF Fades

\* The script in slot s becomes r, or ends and is waited for by nobody.
LEMMA Becomes ==
    ASSUME Exec, NEW s \in Slots, script[s] # None, NEW r, NEW label, NEW seen,
           UNCHANGED waits, script' = [script EXCEPT ![s] = r],
           \/ /\ r \in AllScripts /\ r.at = label /\ r.saw = seen
              /\ r.kind = script[s].kind /\ r.arg = script[s].arg /\ r.alone = script[s].alone
           \/ r = None /\ \A t \in Threads : waits[t] # s
    PROVE  Acts(s, label, seen)
<1> USE Apart
<1>1. script'[s] = r /\ \A p \in Slots \ {s} : script'[p] = script[p]
    BY DEF Exec, Typed
<1>2. Typed'
    BY <1>1 DEF Exec, Typed, Args
<1>3. Awaited' /\ Single'
    BY <1>1 DEF Exec, Typed, Awaited, Single
<1>4. Solo'
    BY <1>1 DEF Exec, Solo, Rival
<1> QED
    BY <1>1, <1>2, <1>3, <1>4 DEF Exec, Acts

LEMMA GoActs ==
    ASSUME Exec, NEW s \in Slots, script[s] # None, NEW label \in Ats(script[s].kind), Go(s, label)
    PROVE  Acts(s, label, script[s].saw)
<1> DEFINE r == [script[s] EXCEPT !.at = label]
<1>1. script[s] \in AllScripts
    BY DEF Exec, Typed
<1>2. script' = [script EXCEPT ![s] = r] /\ UNCHANGED waits
    BY DEF Go
<1>3. /\ r \in AllScripts /\ r.at = label /\ r.saw = script[s].saw
      /\ r.kind = script[s].kind /\ r.arg = script[s].arg /\ r.alone = script[s].alone
    BY <1>1, ScriptGoes
<1> HIDE DEF r
<1> QED
    BY <1>2, <1>3, Becomes

LEMMA ReadsActs ==
    ASSUME Exec, NEW s \in Slots, script[s] # None, NEW x, NEW label \in Ats(script[s].kind),
           Reads(s, x, label), Append(script[s].saw, x) \in Saws(script[s].kind)
    PROVE  Acts(s, label, Append(script[s].saw, x))
<1> SUFFICES ASSUME NEW seen, seen = Append(script[s].saw, x) PROVE Acts(s, label, seen)
    OBVIOUS
<1> DEFINE q == [script[s] EXCEPT !.saw = seen]
           r == [q EXCEPT !.at = label]
<1>1. script[s] \in AllScripts /\ seen \in Saws(script[s].kind)
    BY DEF Exec, Typed
<1>2. script' = [script EXCEPT ![s] = r] /\ UNCHANGED waits
    BY <1>1, ScriptReads DEF Reads
<1>3. /\ q \in AllScripts /\ q.saw = seen
      /\ q.kind = script[s].kind /\ q.arg = script[s].arg /\ q.alone = script[s].alone
    BY <1>1, ScriptReads
<1> HIDE DEF q
<1>4. /\ r \in AllScripts /\ r.at = label /\ r.saw = seen
      /\ r.kind = script[s].kind /\ r.arg = script[s].arg /\ r.alone = script[s].alone
    BY <1>3, ScriptGoes
<1> HIDE DEF r
<1> QED
    BY <1>2, <1>4, Becomes

LEMMA EndActs ==
    ASSUME Exec, NEW s \in Slots, script[s] # None, NEW label \in {"ok", "bad"}, EndAt(s, label)
    PROVE  Acts(s, label, script[s].saw)
<1> DEFINE r == [script[s] EXCEPT !.at = label]
<1>1. script[s] \in AllScripts
    BY DEF Exec, Typed
<1>2. label \in Ats(script[s].kind)
    BY DEF Ats, ProjectAts, LoginAts, EditorAts
<1>3. /\ r \in AllScripts /\ r.at = label /\ r.saw = script[s].saw
      /\ r.kind = script[s].kind /\ r.arg = script[s].arg /\ r.alone = script[s].alone
    BY <1>1, <1>2, ScriptGoes
<1>4. CASE Waited(s)
    <2>1. script' = [script EXCEPT ![s] = r] /\ UNCHANGED waits
        BY <1>4 DEF EndAt
    <2> HIDE DEF r
    <2> QED
        BY <1>3, <2>1, Becomes
<1>5. CASE ~Waited(s)
    <2>1. script' = [script EXCEPT ![s] = None] /\ UNCHANGED waits /\ \A t \in Threads : waits[t] # s
        BY <1>5 DEF EndAt, Waited
    <2> QED
        BY <2>1, Becomes
<1> QED
    BY <1>4, <1>5

\* A script that fails fades, too.
LEMMA BreaksFades ==
    ASSUME Exec, NEW s \in Slots, Breaks(s)
    PROVE  Exec' /\ \A p \in Slots : Fades(p)
<1>1. script[s] # None /\ EndAt(s, "bad")
    BY DEF Breaks, Running
<1>2. Acts(s, "bad", script[s].saw)
    BY <1>1, EndActs
<1>3. Fades(s)
    BY <1>2 DEF Acts, Fades
<1> QED
    BY <1>2, <1>3, OthersFade DEF Acts

\* A thread has its answer, or none.
LEMMA LeaveFades ==
    ASSUME Exec, NEW t \in Threads, waits[t] # None, Leave(t)
    PROVE  Exec' /\ \A p \in Slots : Fades(p)
<1> USE Apart
<1>1. waits[t] \in Slots /\ script[waits[t]] # None
    BY DEF Exec, Typed, Awaited
<1>2. /\ waits' = [waits EXCEPT ![t] = None]
      /\ script'[waits[t]] \in {None, script[waits[t]]}
      /\ \A p \in Slots : p # waits[t] => script'[p] = script[p]
      /\ script' \in [Slots -> AllScripts \cup {None}]
    BY <1>1 DEF Leave, Exec, Typed
<1>3. \A p \in Slots : script'[p] = None \/ script'[p] = script[p]
    BY <1>2
<1>4. Typed'
    BY <1>2, <1>3 DEF Exec, Typed, Args
<1>5. Single'
    BY <1>2 DEF Exec, Typed, Single
<1>6. Awaited'
    BY <1>1, <1>2 DEF Exec, Typed, Awaited, Single
<1>7. Solo'
    BY <1>3 DEF Exec, Solo, Rival
<1> QED
    BY <1>3, <1>4, <1>5, <1>6, <1>7 DEF Exec, Fades

LEMMA KilledFades ==
    ASSUME Exec, Killed
    PROVE  /\ Exec' /\ \A p \in Slots : Fades(p)
           /\ \A p \in Slots : script'[p] # None => ~script'[p].alone
<1> USE Apart
<1> DEFINE r(p) == [script[p] EXCEPT !.at = IF @ = "ok" THEN "ok" ELSE "bad", !.alone = FALSE]
<1>1. \A p \in Slots : script[p] # None =>
          /\ r(p) \in AllScripts /\ r(p).alone = FALSE /\ r(p).at \in {script[p].at, "bad"}
          /\ r(p).kind = script[p].kind /\ r(p).arg = script[p].arg /\ r(p).saw = script[p].saw
    BY ScriptStopped DEF Exec, Typed
<1>2. script' = [p \in Slots |-> IF Waited(p) THEN r(p) ELSE None] /\ waits' = waits
    BY DEF Killed
<1>3. \A p \in Slots : Waited(p) => script[p] # None
    BY DEF Exec, Awaited, Waited
<1> HIDE DEF r
<1>4. \A p \in Slots : script'[p] # None => script[p] # None /\ script'[p] = r(p)
    BY <1>2, <1>3
<1>5. Typed'
    <2>1. script' \in [Slots -> AllScripts \cup {None}]
        BY <1>1, <1>2, <1>3
    <2> QED
        BY <1>1, <1>2, <1>4, <2>1 DEF Exec, Typed, Args
<1>6. Awaited' /\ Single'
    BY <1>1, <1>2, <1>3 DEF Exec, Typed, Awaited, Single, Waited
<1>7. \A p \in Slots : script'[p] # None => ~script'[p].alone
    BY <1>1, <1>4
<1>8. Solo'
    BY <1>7 DEF Solo
<1>9. \A p \in Slots : Fades(p)
    BY <1>1, <1>4 DEF Fades
<1> QED
    BY <1>5, <1>6, <1>7, <1>8, <1>9 DEF Exec

LEMMA DesertedFades ==
    ASSUME Exec, Deserted
    PROVE  Exec' /\ \A p \in Slots : Fades(p)
<1>1. /\ waits' = [t \in Threads |-> None]
      /\ script' = [s \in Slots |-> IF Ended(s) THEN None ELSE script[s]]
    BY DEF Deserted
<1>2. Typed'
    BY <1>1 DEF Exec, Typed, Args
<1>3. Awaited' /\ Single'
    BY <1>1 DEF Awaited, Single
<1>4. Solo'
    BY <1>1 DEF Exec, Solo, Rival
<1> QED
    BY <1>1, <1>2, <1>3, <1>4 DEF Exec, Fades

\* The script that is started is what was asked for, and its rivals are no
\* longer alone.
LEMMA LaunchFades ==
    ASSUME Exec, NEW t \in Threads, NEW s \in Slots,
           NEW kind \in ProjectKinds \cup LoginKinds \cup EditorKinds,
           NEW arg, NEW label, Launch(t, s, kind, arg, label),
           \A b \in BOOLEAN :
               LET r == [kind |-> kind, arg |-> arg, at |-> label, saw |-> <<>>, alone |-> b]
               IN  r \in AllScripts /\ Args(r)
    PROVE  /\ Exec'
           /\ \A p \in Slots \ {s} : Fades(p)
           /\ script'[s] # None /\ script'[s].kind = kind /\ script'[s].arg = arg
           /\ script'[s].at = label /\ script'[s].saw = <<>>
<1> USE Apart
<1> DEFINE others == {p \in Slots : /\ script[p] # None
                                    /\ \E r \in Rivals : {script[p].kind, kind} \subseteq r}
           new == [kind |-> kind, arg |-> arg, at |-> label, saw |-> <<>>, alone |-> others = {}]
           left(p) == [script[p] EXCEPT !.alone = FALSE]
<1>1. /\ waits[t] = None /\ script[s] = None /\ waits' = [waits EXCEPT ![t] = s]
      /\ script' = [p \in Slots |-> IF p = s THEN new ELSE IF p \in others THEN left(p) ELSE script[p]]
    BY DEF Launch
<1>2. /\ new \in AllScripts /\ Args(new) /\ new.kind = kind /\ new.arg = arg
      /\ new.at = label /\ new.saw = <<>> /\ (new.alone <=> others = {})
    OBVIOUS
<1>3. \A p \in Slots : script[p] # None =>
          /\ left(p) \in AllScripts /\ left(p).alone = FALSE /\ left(p).kind = script[p].kind
          /\ left(p).arg = script[p].arg /\ left(p).saw = script[p].saw /\ left(p).at = script[p].at
    BY ScriptLeft DEF Exec, Typed
<1>4. \A p \in others : p \in Slots /\ script[p] # None /\ \E r \in Rivals : {script[p].kind, kind} \subseteq r
    OBVIOUS
<1>5. \A p \in Slots : script[p] # None /\ (\E r \in Rivals : {script[p].kind, kind} \subseteq r) => p \in others
    OBVIOUS
<1> HIDE DEF others, new, left
<1>6. script'[s] = new /\ new # None /\ s \notin others
    BY <1>1, <1>2, <1>4
<1>7. \A p \in Slots \ {s} :
          /\ p \in others => script'[p] = left(p)
          /\ p \notin others => script'[p] = script[p]
    BY <1>1
<1>8. \A p \in Slots \ {s} : Fades(p)
    BY <1>3, <1>4, <1>7 DEF Fades
<1>9. Typed'
    <2>1. script' \in [Slots -> AllScripts \cup {None}]
        BY <1>1, <1>2, <1>3, <1>4 DEF Exec, Typed
    <2>2. \A p \in Slots : script'[p] # None => Args(script'[p])
        BY <1>2, <1>6, <1>8 DEF Exec, Typed, Fades, Args
    <2> QED
        BY <1>1, <2>1, <2>2 DEF Exec, Typed
<1>10. Awaited'
    <2>1. \A p \in Slots : script[p] # None => script'[p] # None
        BY <1>1, <1>3, <1>6, <1>7
    <2> QED
        BY <1>1, <1>6, <2>1 DEF Exec, Typed, Awaited
<1>11. Single'
    BY <1>1 DEF Exec, Typed, Awaited, Single
<1>12. Solo'
    <2> SUFFICES ASSUME NEW p \in Slots, NEW q \in Slots, p # q, script'[p] # None, script'[q] # None,
                        Rival(p, q)'
        PROVE  ~script'[p].alone
        BY DEF Solo
    <2>1. PICK r \in Rivals : script'[p].kind \in r /\ script'[q].kind \in r
        BY DEF Rival
    <2>2. CASE p = s
        BY <1>2, <1>5, <1>6, <1>8, <2>1, <2>2 DEF Fades
    <2>3. CASE q = s
        BY <1>2, <1>3, <1>5, <1>6, <1>7, <1>8, <2>1, <2>3 DEF Fades
    <2>4. CASE p # s /\ q # s
        <3>1. Rival(p, q) /\ script[p] # None /\ script[q] # None
            BY <1>8, <2>1, <2>4 DEF Fades, Rival
        <3> QED
            BY <1>8, <2>4, <3>1 DEF Exec, Solo, Fades
    <2> QED
        BY <2>2, <2>3, <2>4
<1> QED
    BY <1>2, <1>6, <1>8, <1>9, <1>10, <1>11, <1>12 DEF Exec

-----------------------------------------------------------------------------
(* The scripts of the login and the editor are those of GuestExec *)

LEMMA SameLogin ==
    /\ \A t, s, kind, arg, label : A!Launch(t, s, kind, arg, label) <=> Launch(t, s, kind, arg, label)
    /\ \A s, kind, label : A!At(s, kind, label) <=> At(s, kind, label)
    /\ \A s, label : (A!Go(s, label) <=> Go(s, label)) /\ (A!EndAt(s, label) <=> EndAt(s, label))
    /\ \A s : A!Breaks(s) <=> Breaks(s)
    /\ \A s, x, label : A!Reads(s, x, label) <=> Reads(s, x, label)
    /\ \A t, ok : A!Reply(t, ok) <=> Reply(t, ok)
BY DEF A!Launch, Launch, A!Rivals, Rivals, A!At, At, A!Go, Go, A!EndAt, EndAt,
       A!Waited, Waited, A!Breaks, Breaks, A!Running, Running, A!Reads, Reads,
       A!Reply, Reply, A!Success, Success, A!ExitCode, ExitCode, A!Ended,
       Ended, A!Unchecked, Unchecked, A!Leave, Leave

LEMMA SameEditor ==
    /\ \A t, s, kind, arg, label : E!Launch(t, s, kind, arg, label) <=> Launch(t, s, kind, arg, label)
    /\ \A s, kind, label : E!At(s, kind, label) <=> At(s, kind, label)
    /\ \A s, label : (E!Go(s, label) <=> Go(s, label)) /\ (E!EndAt(s, label) <=> EndAt(s, label))
    /\ \A s : E!Breaks(s) <=> Breaks(s)
    /\ \A s, x, label : E!Reads(s, x, label) <=> Reads(s, x, label)
    /\ \A t, ok : E!Reply(t, ok) <=> Reply(t, ok)
BY DEF E!Launch, Launch, E!Rivals, Rivals, E!At, At, E!Go, Go, E!EndAt, EndAt,
       E!Waited, Waited, E!Breaks, Breaks, E!Running, Running, E!Reads, Reads,
       E!Reply, Reply, E!Success, Success, E!ExitCode, ExitCode, E!Ended, Ended, E!Unchecked,
       Unchecked, E!Leave, Leave

-----------------------------------------------------------------------------
(* A part whose files stay: its own scripts fade, the others are of other  *)
(* kinds                                                                   *)

\* No script of the given kinds does anything but fade in this step.
Calm(kinds) ==
    \A p \in Slots : Fades(p) \/ (script'[p] # None /\ script'[p].kind \notin kinds)

LEMMA ProjectCalm ==
    ASSUME ProjectInv, UNCHANGED files, Calm(ProjectKinds) PROVE ProjectInv'
<1>1. ProjectFiles'
    BY DEF ProjectInv, ProjectFiles, FilesTypeOK, EnvWhole, Whole, files
<1>2. ASSUME NEW s \in Slots PROVE ProjectRead(s)' /\ Cloned(s)'
    <2>1. ProjectRead(s) /\ Cloned(s) /\ tree' = tree /\ tmp' = tmp
        BY DEF ProjectInv, files
    <2>2. CASE Fades(s)
        BY <2>1, <2>2 DEF Fades, ProjectRead, Cloned, Is, Whole
    <2>3. CASE script'[s] # None /\ script'[s].kind \notin ProjectKinds
        BY <2>3 DEF ProjectRead, Cloned, Is, ProjectKinds
    <2> QED
        BY <2>2, <2>3 DEF Calm
<1> QED
    BY <1>1, <1>2 DEF ProjectInv

LEMMA LoginCalm ==
    ASSUME LoginInv, A!LoginTypeOK', UNCHANGED auth, Calm(LoginKinds) PROVE LoginInv'
<1>1. ASSUME NEW s \in Slots PROVE LoginRead(s)' /\ LoggedIn(s)'
    <2>1. LoginRead(s) /\ LoggedIn(s) /\ auth' = auth
        BY DEF LoginInv
    <2>2. CASE Fades(s)
        BY <2>1, <2>2 DEF Fades, LoginRead, LoggedIn, Is
    <2>3. CASE script'[s] # None /\ script'[s].kind \notin LoginKinds
        BY <2>3 DEF LoginRead, LoggedIn, Is, LoginKinds
    <2> QED
        BY <2>2, <2>3 DEF Calm
<1> QED
    BY <1>1 DEF LoginInv

LEMMA EditorCalm ==
    ASSUME EditorInv, UNCHANGED <<bin, conf, server>>, Calm(EditorKinds) PROVE EditorInv'
<1>1. ASSUME NEW s \in Slots PROVE Installed(s)' /\ Configured(s)'
    <2>1. Installed(s) /\ Configured(s) /\ bin' = bin /\ conf' = conf /\ server' = server
        BY DEF EditorInv
    <2>2. CASE Fades(s)
        BY <2>1, <2>2 DEF Fades, Installed, Configured, Is
    <2>3. CASE script'[s] # None /\ script'[s].kind \notin EditorKinds
        BY <2>3 DEF Installed, Configured, Is, EditorKinds
    <2> QED
        BY <2>2, <2>3 DEF Calm
<1>2. E!EditorTypeOK'
    BY DEF EditorInv, E!EditorTypeOK
<1> QED
    BY <1>1, <1>2 DEF EditorInv

-----------------------------------------------------------------------------
(* A step of a project's script *)

LEMMA ProjectGoActs ==
    ASSUME Exec, NEW s \in Slots, NEW kind \in ProjectKinds, Is(s, kind),
           NEW label \in ProjectAts, Go(s, label)
    PROVE  Acts(s, label, script[s].saw)
BY GoActs DEF Is, Ats

LEMMA ActsCalm ==
    ASSUME NEW s \in Slots, NEW label, NEW seen, Acts(s, label, seen),
           NEW kinds, script[s].kind \notin kinds
    PROVE  Calm(kinds)
BY OthersFade DEF Acts, Calm, Fades

\* A clone that is alone shares nothing with the one that acts.
LEMMA CloneKept ==
    ASSUME Exec, ProjectInv, NEW s \in Slots, Is(s, "clone"), NEW label, NEW seen, Acts(s, label, seen),
           \A p \in Slots : tmp'[p] \in {tmp[p], None},
           ProjectFiles', ProjectRead(s)', Cloned(s)'
    PROVE  ProjectInv'
<1>1. ASSUME NEW p \in Slots \ {s} PROVE ProjectRead(p)' /\ Cloned(p)'
    <2>1. script'[p] = script[p] /\ ProjectRead(p)
        BY DEF Acts, ProjectInv
    <2>2. ProjectRead(p)'
        BY <2>1, Apart DEF ProjectRead, Is
    <2>3. Is(p, "clone") => ~script[p].alone
        BY DEF Exec, Solo, Rival, Rivals, Is
    <2> QED
        BY <2>1, <2>2, <2>3 DEF Cloned, Is
<1> QED
    BY <1>1 DEF ProjectInv

\* Any other script leaves the work tree as it is, but for .env.
LEMMA OthersKept ==
    ASSUME Exec, ProjectInv, NEW s \in Slots, script[s].kind # "clone",
           NEW label, NEW seen, Acts(s, label, seen),
           tree' = tree \/ (tree # None /\ \E e \in Contents : tree' = [tree EXCEPT !.env = e]),
           \A p \in Slots \ {s} : tmp'[p] = tmp[p],
           ProjectFiles', ProjectRead(s)'
    PROVE  ProjectInv'
<1>1. /\ tree' # None <=> tree # None
      /\ tree # None => tree'.head = tree.head /\ tree'.by = tree.by
    <2>1. ASSUME tree # None, NEW e \in Contents
          PROVE  LET d == [tree EXCEPT !.env = e]
                 IN  d \in Trees /\ d.head = tree.head /\ d.by = tree.by
        BY <2>1 DEF ProjectInv, ProjectFiles, FilesTypeOK, Trees
    <2> QED
        BY <2>1, Apart
<1>2. ASSUME NEW p \in Slots \ {s} PROVE ProjectRead(p)' /\ Cloned(p)'
    <2>1. script'[p] = script[p] /\ ProjectRead(p) /\ Cloned(p) /\ tmp'[p] = tmp[p]
        BY DEF Acts, ProjectInv
    <2> QED
        BY <1>1, <2>1 DEF ProjectRead, Cloned, Is, Whole
<1>3. Cloned(s)'
    BY DEF Acts, Cloned, Is
<1> QED
    BY <1>2, <1>3 DEF ProjectInv

\* Each step of a clone.
LEMMA CloneSteps ==
    ASSUME Exec, ProjectInv, NEW s \in Slots,
           \/ CloneTest(s) \/ Update(s) \/ UpdateEnds(s) \/ Remove(s)
           \/ Clone(s) \/ CloneEnds(s) \/ CloneFails(s) \/ Parse(s) \/ PrintCommit(s)
    PROVE  Exec' /\ ProjectInv' /\ \E label, seen : Acts(s, label, seen)
<1> USE Apart
<1> DEFINE at == script[s].at
<1>1. /\ Is(s, "clone") /\ script[s].arg \in Branches
      /\ script[s] # None /\ script[s].kind = "clone"
    BY DEF CloneTest, Update, UpdateEnds, Remove, Clone, CloneEnds, CloneFails, Parse,
           PrintCommit, At, Is, Exec, Typed, Args
<1>2. /\ ProjectFiles /\ ProjectRead(s) /\ Cloned(s)
      /\ tree \in Trees \cup {None} /\ tmp \in [Slots -> Contents \cup {None, "torn"}]
    BY DEF ProjectInv, ProjectFiles, FilesTypeOK
<1>3. ASSUME NEW label, NEW seen, Acts(s, label, seen), \A p \in Slots : tmp'[p] \in {tmp[p], None},
             ProjectFiles', ProjectRead(s)', Cloned(s)'
      PROVE  Exec' /\ ProjectInv' /\ \E l, x : Acts(s, l, x)
    BY <1>1, <1>3, CloneKept DEF Acts
<1>4. ASSUME UNCHANGED files PROVE ProjectFiles' /\ \A p \in Slots : tmp'[p] \in {tmp[p], None}
    BY <1>2, <1>4 DEF ProjectFiles, FilesTypeOK, EnvWhole, Whole, files
<1>5. CASE CloneTest(s)
    <2>1. PICK label \in {"update", "remove"} :
             Go(s, label) /\ (label = "remove" => ~(tree # None /\ tree.git)) /\ UNCHANGED files /\ at = "test"
        BY <1>5 DEF CloneTest, At
    <2>2. Acts(s, label, script[s].saw)
        BY <1>1, <2>1, ProjectGoActs DEF ProjectKinds, ProjectAts
    <2>3. ProjectRead(s)' /\ Cloned(s)'
        BY <1>1, <1>2, <2>1, <2>2 DEF Acts, ProjectRead, Cloned, Is, ProjectFiles, FilesTypeOK, Whole, files
    <2> QED
        BY <1>3, <1>4, <2>1, <2>2, <2>3
<1>6. CASE Update(s)
    <2>1. /\ tree # None /\ tree.git /\ tree' = [tree EXCEPT !.head = None]
          /\ Go(s, "updating") /\ UNCHANGED <<tmp, containers>> /\ at = "update"
        BY <1>6 DEF Update, At
    <2>2. Acts(s, "updating", script[s].saw)
        BY <1>1, <2>1, ProjectGoActs DEF ProjectKinds, ProjectAts
    <2>3. /\ tree' \in Trees /\ tree'.head = None /\ tree'.git /\ tree'.env = tree.env
        BY <1>2, <2>1 DEF Trees
    <2>4. ProjectFiles'
        BY <1>2, <2>1, <2>3 DEF ProjectFiles, FilesTypeOK, EnvWhole, Whole
    <2>5. ProjectRead(s)' /\ Cloned(s)'
        BY <1>1, <1>2, <2>1, <2>2 DEF Acts, ProjectRead, Cloned, Is
    <2> QED
        BY <1>3, <2>1, <2>2, <2>4, <2>5
<1>7. CASE UpdateEnds(s)
    <2>1. /\ tree # None /\ tree.git /\ tree' = [tree EXCEPT !.head = script[s].arg]
          /\ Go(s, "parse") /\ UNCHANGED <<tmp, containers>> /\ at = "updating"
        BY <1>7 DEF UpdateEnds, At
    <2>2. Acts(s, "parse", script[s].saw)
        BY <1>1, <2>1, ProjectGoActs DEF ProjectKinds, ProjectAts
    <2>3. /\ tree' \in Trees /\ tree'.head = script[s].arg /\ tree'.git /\ tree'.env = tree.env
        BY <1>1, <1>2, <2>1 DEF Trees
    <2>4. ProjectFiles'
        BY <1>2, <2>1, <2>3 DEF ProjectFiles, FilesTypeOK, EnvWhole, Whole
    <2>5. ProjectRead(s)' /\ Cloned(s)'
        BY <1>1, <1>2, <2>1, <2>2, <2>3 DEF Acts, ProjectRead, Cloned, Is
    <2> QED
        BY <1>3, <2>1, <2>2, <2>4, <2>5
<1>8. CASE Remove(s)
    <2>1. /\ tree' = None /\ tmp' = [p \in Slots |-> None]
          /\ Go(s, "clone") /\ UNCHANGED containers /\ at = "remove"
        BY <1>8 DEF Remove, At
    <2>2. Acts(s, "clone", script[s].saw)
        BY <1>1, <2>1, ProjectGoActs DEF ProjectKinds, ProjectAts
    <2>4. ProjectFiles'
        BY <1>2, <2>1 DEF ProjectFiles, FilesTypeOK, EnvWhole, Whole
    <2>5. ProjectRead(s)' /\ Cloned(s)'
        BY <1>1, <1>2, <2>1, <2>2 DEF Acts, ProjectRead, Cloned, Is
    <2> QED
        BY <1>3, <2>1, <2>2, <2>4, <2>5
<1>9. CASE Clone(s)
    <2>1. /\ tree = None /\ tree' = [git |-> TRUE, head |-> None, by |-> s, env |-> None]
          /\ Go(s, "cloning") /\ UNCHANGED <<tmp, containers>> /\ at = "clone"
        BY <1>9 DEF Clone, At
    <2>2. Acts(s, "cloning", script[s].saw)
        BY <1>1, <2>1, ProjectGoActs DEF ProjectKinds, ProjectAts
    <2>3. tree' \in Trees /\ tree'.head = None /\ tree'.git /\ tree'.env = None
        BY <2>1 DEF Trees
    <2>4. ProjectFiles'
        BY <1>2, <2>1, <2>3 DEF ProjectFiles, FilesTypeOK, EnvWhole, Whole
    <2>5. ProjectRead(s)' /\ Cloned(s)'
        BY <1>1, <1>2, <2>1, <2>2, <2>3 DEF Acts, ProjectRead, Cloned, Is
    <2> QED
        BY <1>3, <2>1, <2>2, <2>4, <2>5
<1>10. CASE CloneEnds(s)
    <2>1. /\ tree # None /\ tree.by = s /\ tree' = [tree EXCEPT !.head = script[s].arg, !.by = None]
          /\ Go(s, "parse") /\ UNCHANGED <<tmp, containers>> /\ at = "cloning"
        BY <1>10 DEF CloneEnds, At
    <2>2. Acts(s, "parse", script[s].saw)
        BY <1>1, <2>1, ProjectGoActs DEF ProjectKinds, ProjectAts
    <2>3. /\ tree' \in Trees /\ tree'.head = script[s].arg /\ tree'.git /\ tree'.env = tree.env
          /\ tree'.by = None
        BY <1>1, <1>2, <2>1 DEF Trees, ProjectFiles
    <2>4. ProjectFiles'
        BY <1>2, <2>1, <2>3 DEF ProjectFiles, FilesTypeOK, EnvWhole, Whole
    <2>5. ProjectRead(s)' /\ Cloned(s)'
        BY <1>1, <1>2, <2>1, <2>2, <2>3 DEF Acts, ProjectRead, Cloned, Is
    <2> QED
        BY <1>3, <2>1, <2>2, <2>4, <2>5
<1>11. CASE CloneFails(s)
    <2>1. /\ \/ tree' = None /\ tmp' = [p \in Slots |-> None]
             \/ UNCHANGED <<tree, tmp>>
          /\ EndAt(s, "bad") /\ UNCHANGED containers
        BY <1>11 DEF CloneFails
    <2>2. Acts(s, "bad", script[s].saw)
        BY <1>1, <2>1, EndActs
    <2>4. ProjectFiles'
        BY <1>2, <2>1 DEF ProjectFiles, FilesTypeOK, EnvWhole, Whole
    <2>5. ProjectRead(s)' /\ Cloned(s)'
        BY <1>1, <2>2 DEF Acts, ProjectRead, Cloned, Is
    <2>6. \A p \in Slots : tmp'[p] \in {tmp[p], None}
        BY <2>1
    <2> QED
        BY <1>3, <2>2, <2>4, <2>5, <2>6
<1>12. CASE Parse(s)
    <2>1. Whole(tree) /\ Reads(s, tree.head, "print") /\ UNCHANGED files /\ at = "parse"
        BY <1>12 DEF Parse, At
    <2>2. script[s].saw = <<>> /\ tree.head \in Branches
        BY <1>1, <1>2, <2>1 DEF ProjectRead, Whole, Trees
    <2>3. Append(script[s].saw, tree.head) = <<tree.head>> /\ <<tree.head>> \in Saws("clone")
        BY <2>2 DEF Saws, ProjectKinds
    <2>4. Acts(s, "print", Append(script[s].saw, tree.head))
        BY <1>1, <2>1, <2>3, ReadsActs DEF Ats, ProjectKinds, ProjectAts
    <2>5. Acts(s, "print", <<tree.head>>)
        BY <2>3, <2>4
    <2>6. ProjectRead(s)' /\ Cloned(s)'
        BY <1>1, <1>2, <2>1, <2>5 DEF Acts, ProjectRead, Cloned, Is
    <2> QED
        BY <1>3, <1>4, <2>1, <2>5, <2>6
<1>13. CASE PrintCommit(s)
    <2>1. EndAt(s, "ok") /\ UNCHANGED files /\ at = "print"
        BY <1>13 DEF PrintCommit, At
    <2>2. Acts(s, "ok", script[s].saw)
        BY <1>1, <2>1, EndActs
    <2>3. ProjectRead(s)' /\ Cloned(s)'
        BY <1>1, <1>2, <2>1, <2>2 DEF Acts, ProjectRead, Cloned, Is
    <2> QED
        BY <1>3, <1>4, <2>1, <2>2, <2>3
<1> QED
    BY <1>5, <1>6, <1>7, <1>8, <1>9, <1>10, <1>11, <1>12, <1>13

\* Each step of the script that writes .env.
LEMMA EnvSteps ==
    ASSUME Exec, ProjectInv, NEW s \in Slots,
           EnvTest(s) \/ EnvWrite(s) \/ EnvWritten(s) \/ EnvMove(s) \/ EnvStat(s)
    PROVE  Exec' /\ ProjectInv' /\ \E label, seen : Acts(s, label, seen)
<1> USE Apart
<1>1. /\ Is(s, "env") /\ script[s].arg \in Contents
      /\ script[s] # None /\ script[s].kind = "env"
    BY DEF EnvTest, EnvWrite, EnvWritten, EnvMove, EnvStat, At, Is, Exec, Typed, Args
<1>2. /\ ProjectFiles /\ ProjectRead(s)
      /\ tree \in Trees \cup {None} /\ tmp \in [Slots -> Contents \cup {None, "torn"}]
    BY DEF ProjectInv, ProjectFiles, FilesTypeOK
<1>3. ASSUME NEW label, NEW seen, Acts(s, label, seen),
             tree' = tree \/ (tree # None /\ \E e \in Contents : tree' = [tree EXCEPT !.env = e]),
             \A p \in Slots \ {s} : tmp'[p] = tmp[p],
             ProjectFiles', ProjectRead(s)'
      PROVE  Exec' /\ ProjectInv' /\ \E l, x : Acts(s, l, x)
    BY <1>1, <1>3, OthersKept DEF Acts
<1>4. ASSUME UNCHANGED files
      PROVE  ProjectFiles' /\ tree' = tree /\ \A p \in Slots \ {s} : tmp'[p] = tmp[p]
    BY <1>2, <1>4 DEF ProjectFiles, FilesTypeOK, EnvWhole, Whole, files
<1>5. CASE EnvTest(s)
    <2>1. Go(s, "write") /\ UNCHANGED files
        BY <1>5 DEF EnvTest
    <2>2. Acts(s, "write", script[s].saw)
        BY <1>1, <2>1, ProjectGoActs DEF ProjectKinds, ProjectAts
    <2>3. ProjectRead(s)'
        BY <1>1, <2>2 DEF Acts, ProjectRead, Is
    <2> QED
        BY <1>3, <1>4, <2>1, <2>2, <2>3
<1>6. CASE EnvWrite(s)
    <2>1. /\ tree # None /\ tmp' = [tmp EXCEPT ![s] = "torn"]
          /\ Go(s, "writing") /\ UNCHANGED <<tree, containers>>
        BY <1>6 DEF EnvWrite, TmpOf
    <2>2. Acts(s, "writing", script[s].saw)
        BY <1>1, <2>1, ProjectGoActs DEF ProjectKinds, ProjectAts
    <2>3. ProjectRead(s)' /\ ProjectFiles'
        BY <1>1, <1>2, <2>1, <2>2 DEF Acts, ProjectRead, Is, ProjectFiles, FilesTypeOK, EnvWhole, Whole
    <2> QED
        BY <1>2, <1>3, <2>1, <2>2, <2>3
<1>7. CASE EnvWritten(s)
    <2>1. /\ tmp[s] # None /\ tmp' = [tmp EXCEPT ![s] = script[s].arg]
          /\ Go(s, "move") /\ UNCHANGED <<tree, containers>>
        BY <1>7 DEF EnvWritten, TmpOf
    <2>2. Acts(s, "move", script[s].saw)
        BY <1>1, <2>1, ProjectGoActs DEF ProjectKinds, ProjectAts
    <2>3. ProjectFiles'
        BY <1>1, <1>2, <2>1 DEF ProjectFiles, FilesTypeOK, EnvWhole, Whole
    <2>4. ProjectRead(s)'
        BY <1>1, <1>2, <2>1, <2>2 DEF Acts, ProjectRead, Is
    <2> QED
        BY <1>2, <1>3, <2>1, <2>2, <2>3, <2>4
<1>8. CASE EnvMove(s)
    <2>1. /\ tree # None /\ tmp[s] # None /\ script[s].at = "move"
          /\ tree' = [tree EXCEPT !.env = tmp[s]] /\ tmp' = [tmp EXCEPT ![s] = None]
          /\ Go(s, "stat") /\ UNCHANGED containers
        BY <1>8 DEF EnvMove, TmpOf, At
    <2>2. Acts(s, "stat", script[s].saw)
        BY <1>1, <2>1, ProjectGoActs DEF ProjectKinds, ProjectAts
    <2>3. tmp[s] \in Contents
        BY <1>1, <1>2, <2>1 DEF ProjectRead
    <2>4. /\ tree' \in Trees /\ tree'.head = tree.head /\ tree'.git = tree.git /\ tree'.by = tree.by
          /\ tree'.env = tmp[s]
        BY <1>2, <2>1, <2>3 DEF Trees
    <2>5. ProjectFiles'
        BY <1>2, <2>1, <2>3, <2>4 DEF ProjectFiles, FilesTypeOK, EnvWhole, Whole
    <2>6. ProjectRead(s)'
        BY <1>1, <2>2 DEF Acts, ProjectRead, Is
    <2> QED
        BY <1>2, <1>3, <2>1, <2>2, <2>3, <2>5, <2>6
<1>9. CASE EnvStat(s)
    <2>1. EndAt(s, "ok") /\ UNCHANGED files
        BY <1>9 DEF EnvStat
    <2>2. Acts(s, "ok", script[s].saw)
        BY <1>1, <2>1, EndActs
    <2>3. ProjectRead(s)'
        BY <1>1, <2>2 DEF Acts, ProjectRead, Is
    <2> QED
        BY <1>3, <1>4, <2>1, <2>2, <2>3
<1> QED
    BY <1>5, <1>6, <1>7, <1>8, <1>9

\* Each step of compose up and down.
LEMMA ComposeSteps ==
    ASSUME Exec, ProjectInv, NEW s \in Slots, ComposeTest(s) \/ ComposeUp(s) \/ ComposeDown(s)
    PROVE  Exec' /\ ProjectInv' /\ \E label, seen : Acts(s, label, seen)
<1> USE Apart
<1>1. script[s] # None /\ script[s].kind \in {"up", "down"} /\ UNCHANGED <<tree, tmp>>
    BY DEF ComposeTest, ComposeUp, ComposeDown, At, files
<1>2. ProjectFiles /\ tree \in Trees \cup {None}
    BY DEF ProjectInv, ProjectFiles, FilesTypeOK
<1>3. PICK label \in ProjectAts : Acts(s, label, script[s].saw)
    <2>1. CASE ComposeTest(s)
        <3>1. Go(s, "run") /\ "run" \in ProjectAts /\ Is(s, script[s].kind) /\ script[s].kind \in ProjectKinds
            BY <1>1, <2>1 DEF ComposeTest, ProjectAts, ProjectKinds, Is
        <3> QED
            BY <3>1, ProjectGoActs
    <2>2. CASE ComposeUp(s) \/ ComposeDown(s)
        <3>1. EndAt(s, "ok") /\ "ok" \in ProjectAts
            BY <2>2 DEF ComposeUp, ComposeDown, ProjectAts
        <3> QED
            BY <1>1, <3>1, EndActs
    <2> QED
        BY <2>1, <2>2
<1>4. /\ containers' \in {None} \cup [env : Contents \cup {None, "torn"}]
      /\ containers' # None => containers'.env # "torn"
    BY <1>2 DEF ComposeTest, ComposeUp, ComposeDown, files, ProjectFiles, FilesTypeOK, EnvWhole, Trees
<1>5. ProjectFiles'
    BY <1>1, <1>2, <1>4 DEF ProjectFiles, FilesTypeOK, EnvWhole, Whole
<1>6. ProjectRead(s)'
    BY <1>1, <1>3 DEF Acts, ProjectRead, Is
<1> QED
    BY <1>1, <1>3, <1>5, <1>6, OthersKept DEF Acts

\* A step of a project's script keeps its part, and leaves the others alone.
LEMMA ProjectRuns ==
    ASSUME Exec, ProjectInv, NEW s \in Slots, ScriptStep(s)
    PROVE  Exec' /\ ProjectInv' /\ Calm(LoginKinds) /\ Calm(EditorKinds)
<1>1. CASE Fails(s)
    <2>1. Breaks(s) /\ UNCHANGED files
        BY <1>1 DEF Fails
    <2>2. Exec' /\ \A kinds : Calm(kinds)
        BY <2>1, BreaksFades DEF Calm
    <2> QED
        BY <2>1, <2>2, ProjectCalm
<1>2. CASE ~Fails(s)
    <2>1. Exec' /\ ProjectInv' /\ \E label, seen : Acts(s, label, seen)
        BY <1>2, CloneSteps, EnvSteps, ComposeSteps DEF ScriptStep
    <2>2. script[s].kind \in {"clone", "env", "up", "down"}
        BY <1>2 DEF ScriptStep, CloneTest, Update, UpdateEnds, Remove, Clone, CloneEnds, CloneFails,
              Parse, PrintCommit, EnvTest, EnvWrite, EnvWritten, EnvMove, EnvStat,
              ComposeTest, ComposeUp, ComposeDown, At
    <2>3. script[s].kind \notin LoginKinds /\ script[s].kind \notin EditorKinds
        BY <2>2 DEF LoginKinds, EditorKinds
    <2> QED
        BY <2>1, <2>3, ActsCalm
<1> QED
    BY <1>1, <1>2

\* A request about the project starts its script.
LEMMA ProjectAsks ==
    ASSUME Exec, ProjectInv, NEW t \in Threads, NEW s \in Slots, Ask(t, s)
    PROVE  Exec' /\ ProjectInv' /\ Calm(LoginKinds) /\ Calm(EditorKinds)
<1> USE Apart
<1>1. PICK r \in Asked : Launch(t, s, r.kind, r.arg, "test")
    BY DEF Ask
<1>2. tmp' = [tmp EXCEPT ![s] = None] /\ UNCHANGED <<tree, containers>>
    BY DEF Ask
<1>3. /\ r.kind \in ProjectKinds
      /\ \A b \in BOOLEAN :
            LET q == [kind |-> r.kind, arg |-> r.arg, at |-> "test", saw |-> <<>>, alone |-> b]
            IN  q \in AllScripts /\ Args(q)
    BY DEF Asked, AllScripts, Scripts, Args, ProjectKinds
<1>4. /\ Exec' /\ \A p \in Slots \ {s} : Fades(p)
      /\ script'[s] # None /\ script'[s].kind = r.kind /\ script'[s].at = "test" /\ script'[s].saw = <<>>
    BY <1>1, <1>3, LaunchFades
<1>5. ProjectFiles'
    BY <1>2 DEF ProjectInv, ProjectFiles, FilesTypeOK, EnvWhole, Whole
<1>6. ASSUME NEW p \in Slots PROVE ProjectRead(p)' /\ Cloned(p)'
    <2>1. ProjectRead(p) /\ Cloned(p) /\ tree' = tree /\ tmp'[p] \in {tmp[p], None}
        BY <1>2 DEF ProjectInv, ProjectFiles, FilesTypeOK
    <2>2. CASE p = s
        BY <1>4, <2>2 DEF ProjectRead, Cloned, Is
    <2>3. CASE p # s
        BY <1>4, <2>1, <2>3 DEF Fades, ProjectRead, Cloned, Is, Whole
    <2> QED
        BY <2>2, <2>3
<1>7. Calm(LoginKinds) /\ Calm(EditorKinds)
    BY <1>3, <1>4 DEF Calm, ProjectKinds, LoginKinds, EditorKinds
<1> QED
    BY <1>4, <1>5, <1>6, <1>7 DEF ProjectInv

\* The VM is stopped.
LEMMA StopFades ==
    ASSUME Exec, ProjectInv, VmStops
    PROVE  /\ Exec' /\ ProjectInv' /\ \A p \in Slots : Fades(p)
           /\ \A p \in Slots : script'[p] # None => ~script'[p].alone
<1> USE Apart
<1>1. /\ Exec' /\ \A p \in Slots : Fades(p)
      /\ \A p \in Slots : script'[p] # None => ~script'[p].alone
    BY KilledFades DEF VmStops
<1>2. /\ tree' = IF tree = None THEN None ELSE [tree EXCEPT !.by = None]
      /\ containers' = None /\ tmp' = tmp
    BY DEF VmStops
<1>3. tree # None => LET d == [tree EXCEPT !.by = None]
                     IN  /\ d \in Trees /\ d.head = tree.head /\ d.git = tree.git
                         /\ d.env = tree.env /\ d.by = None
    BY DEF ProjectInv, ProjectFiles, FilesTypeOK, Trees
<1>4. ProjectFiles'
    BY <1>2, <1>3 DEF ProjectInv, ProjectFiles, FilesTypeOK, EnvWhole, Whole
<1>5. ASSUME NEW p \in Slots PROVE ProjectRead(p)' /\ Cloned(p)'
    <2>1. ProjectRead(p)
        BY DEF ProjectInv
    <2> QED
        BY <1>1, <1>2, <2>1 DEF Fades, ProjectRead, Cloned, Is
<1> QED
    BY <1>1, <1>4, <1>5 DEF ProjectInv

-----------------------------------------------------------------------------
(* A step of the login *)

LEMMA LoginGoActs ==
    ASSUME Exec, NEW s \in Slots, NEW kind \in LoginKinds, Is(s, kind),
           NEW label \in LoginAts, Go(s, label)
    PROVE  Acts(s, label, script[s].saw)
BY GoActs DEF Is, Ats, ProjectKinds, LoginKinds

\* A login that is alone shares nothing with the script that acts.
LEMMA LoginKept ==
    ASSUME Exec, LoginInv, NEW s \in Slots, script[s].kind \in LoginKinds,
           NEW label, NEW seen, Acts(s, label, seen),
           A!LoginTypeOK', LoginRead(s)', LoggedIn(s)'
    PROVE  Exec' /\ LoginInv' /\ Calm(ProjectKinds) /\ Calm(EditorKinds)
<1>1. ASSUME NEW p \in Slots \ {s} PROVE LoginRead(p)' /\ LoggedIn(p)'
    <2>1. script'[p] = script[p] /\ LoginRead(p)
        BY DEF Acts, LoginInv
    <2>2. LoginRead(p)'
        BY <2>1 DEF LoginRead, Is
    <2>3. Is(p, "login") => ~script[p].alone
        BY DEF Exec, Solo, Rival, Rivals, Is, Acts, LoginKinds
    <2> QED
        BY <2>1, <2>2, <2>3 DEF LoggedIn, Is
<1>2. script[s].kind \notin ProjectKinds /\ script[s].kind \notin EditorKinds
    BY DEF ProjectKinds, LoginKinds, EditorKinds
<1> QED
    BY <1>1, <1>2, ActsCalm DEF LoginInv, Acts

\* LOGIN, NAME and EMAIL, one after the other.
LEMMA OneMoreRead ==
    ASSUME NEW seen \in UNION {[1..k -> Accounts] : k \in 0..3}, NEW x \in Accounts,
           NEW n \in 0..2, Len(seen) = n
    PROVE  /\ Append(seen, x) \in UNION {[1..k -> Accounts] : k \in 0..3}
           /\ Len(Append(seen, x)) = n + 1
           /\ \A i \in 1..n : Append(seen, x)[i] = seen[i]
           /\ Append(seen, x)[n + 1] = x
<1>1. seen \in Seq(Accounts)
    BY SeqDef
<1> DEFINE more == Append(seen, x)
<1>2. /\ more \in Seq(Accounts) /\ Len(more) = n + 1
      /\ \A i \in 1..n : more[i] = seen[i]
      /\ more[n + 1] = x
    BY <1>1, AppendProperties
<1> HIDE DEF more
<1>3. more \in [1..(n + 1) -> Accounts] /\ n + 1 \in 0..3
    BY <1>2, LenProperties
<1>4. more \in UNION {[1..k -> Accounts] : k \in 0..3}
    BY <1>3
<1> QED
    BY <1>2, <1>4 DEF more

\* Each step of the script of a login.
LEMMA LoginSteps ==
    ASSUME Exec, LoginInv, NEW s \in Slots,
           A!GhLogin(s) \/ A!SetupGit(s) \/ A!AskUser(s) \/ A!SetName(s) \/ A!SetEmail(s)
    PROVE  Exec' /\ LoginInv' /\ Calm(ProjectKinds) /\ Calm(EditorKinds)
<1> USE Apart
<1> DEFINE a == script[s].arg
           saw == script[s].saw
<1>1. /\ Is(s, "login") /\ a \in Accounts /\ script[s] # None /\ script[s].kind = "login"
    BY SameLogin DEF A!GhLogin, A!SetupGit, A!AskUser, A!SetName, A!SetEmail, At, Is, Exec, Typed, Args
<1>2. LoginRead(s) /\ LoggedIn(s) /\ A!LoginTypeOK
    BY DEF LoginInv
<1>3. saw \in UNION {[1..n -> Accounts] : n \in 0..3}
    <2>1. script[s] \in AllScripts
        BY <1>1 DEF Exec, Typed
    <2> QED
        BY <1>1, <2>1, ScriptFields DEF Saws, ProjectKinds, LoginKinds
<1>4. ASSUME NEW label, NEW seen, Acts(s, label, seen), A!LoginTypeOK', LoginRead(s)', LoggedIn(s)'
      PROVE  Exec' /\ LoginInv' /\ Calm(ProjectKinds) /\ Calm(EditorKinds)
    BY <1>1, <1>4, LoginKept DEF LoginKinds
<1>5. CASE A!GhLogin(s)
    <2>1. /\ script[s].at = "login" /\ auth' = [auth EXCEPT !.token = a]
          /\ Go(s, "setup") /\ UNCHANGED <<codes, holds>>
        BY <1>5, SameLogin DEF A!GhLogin, At
    <2>2. Acts(s, "setup", saw)
        BY <1>1, <2>1, LoginGoActs DEF LoginKinds, LoginAts
    <2>3. A!LoginTypeOK' /\ auth'.token = a
        BY <1>1, <1>2, <2>1 DEF A!LoginTypeOK
    <2>4. saw = <<>>
        BY <1>1, <1>2, <2>1 DEF LoginRead
    <2>5. LoginRead(s)' /\ LoggedIn(s)'
        BY <1>1, <2>2, <2>3, <2>4 DEF Acts, LoginRead, LoggedIn, Is
    <2> QED
        BY <1>4, <2>2, <2>3, <2>5
<1>6. CASE A!SetupGit(s)
    <2>1. script[s].at = "setup" /\ Go(s, "ask") /\ UNCHANGED <<codes, holds, auth>>
        BY <1>6, SameLogin DEF A!SetupGit, At, A!login
    <2>2. Acts(s, "ask", saw)
        BY <1>1, <2>1, LoginGoActs DEF LoginKinds, LoginAts
    <2>3. A!LoginTypeOK'
        BY <1>2, <2>1 DEF A!LoginTypeOK
    <2>4. saw = <<>>
        BY <1>1, <1>2, <2>1 DEF LoginRead
    <2>5. LoginRead(s)' /\ LoggedIn(s)'
        BY <1>1, <1>2, <2>1, <2>2, <2>4 DEF Acts, LoginRead, LoggedIn, Is
    <2> QED
        BY <1>4, <2>2, <2>3, <2>5
<1>7. CASE A!AskUser(s)
    <2>1. /\ script[s].at = "ask" /\ auth.token # None /\ UNCHANGED <<codes, holds, auth>>
          /\ Reads(s, auth.token, IF Len(saw) < 2 THEN "ask" ELSE "name")
        BY <1>7, SameLogin DEF A!AskUser, At, A!login
    <2>2. Len(saw) \in 0..2
        BY <1>1, <1>2, <2>1 DEF LoginRead
    <2> SUFFICES ASSUME NEW x, x = auth.token, NEW n \in 0..2, n = Len(saw),
                        NEW label, label = IF n < 2 THEN "ask" ELSE "name"
        PROVE  Exec' /\ LoginInv' /\ Calm(ProjectKinds) /\ Calm(EditorKinds)
        BY <2>2
    <2>3. x \in Accounts
        BY <1>2, <2>1 DEF A!LoginTypeOK
    <2>4. /\ Append(saw, x) \in UNION {[1..k -> Accounts] : k \in 0..3}
          /\ Len(Append(saw, x)) = n + 1
          /\ \A i \in 1..n : Append(saw, x)[i] = saw[i]
          /\ Append(saw, x)[n + 1] = x
        <3> SUFFICES ASSUME NEW seen \in UNION {[1..k -> Accounts] : k \in 0..3},
                            Len(seen) = n
            PROVE  /\ Append(seen, x) \in UNION {[1..k -> Accounts] : k \in 0..3}
                   /\ Len(Append(seen, x)) = n + 1
                   /\ \A i \in 1..n : Append(seen, x)[i] = seen[i]
                   /\ Append(seen, x)[n + 1] = x
            BY <1>3, Zenon
        <3> QED
            BY <2>3, OneMoreRead, SMTT(30)
    <2>5. SUFFICES ASSUME NEW more, more = Append(saw, x)
          PROVE  Exec' /\ LoginInv' /\ Calm(ProjectKinds) /\ Calm(EditorKinds)
        OBVIOUS
    <2>6. more \in Saws("login") /\ label \in Ats("login")
        BY <2>4, <2>5, Zenon DEF Saws, Ats, ProjectKinds, LoginKinds, LoginAts
    <2>7. Acts(s, label, more)
        BY <1>1, <2>1, <2>5, <2>6, ReadsActs
    <2>8. LoginRead(s)'
        <3>1. /\ label = "ask" => n + 1 \in 0..2
              /\ label # "ask" => label = "name" /\ n + 1 = 3
            <4>1. \A m \in 0..2 : (m < 2 => m + 1 \in 0..2) /\ (~(m < 2) => m + 1 = 3)
                OBVIOUS
            <4>2. IF n < 2 THEN label = "ask" ELSE label = "name"
                OBVIOUS
            <4> QED
                BY <4>1, <4>2
        <3>2. Len(more) = n + 1
            BY <2>4, <2>5, Zenon
        <3>3. script'[s] # None => script'[s].at = label /\ script'[s].saw = more
            BY <2>7 DEF Acts
        <3> QED
            BY <3>1, <3>2, <3>3 DEF LoginRead, Is
    <2>9. LoggedIn(s)'
        <3>1. /\ Len(more) = n + 1 /\ more[n + 1] = x
              /\ \A i \in 1..n : more[i] = saw[i]
            BY <2>4, <2>5, Zenon
        <3>2. script[s].alone => x = a /\ \A i \in 1..n : saw[i] = a
            BY <1>1, <1>2, <2>1 DEF LoggedIn
        <3>3. \A i \in 1..(n + 1) : i \in 1..n \/ i = n + 1
            OBVIOUS
        <3>4. script[s].alone => x = a /\ \A i \in 1..(n + 1) : more[i] = a
            BY <3>1, <3>2, <3>3, Zenon
        <3> QED
            BY <1>1, <2>1, <2>7, <3>1, <3>4 DEF Acts, LoggedIn, Is
    <2> QED
        BY <1>2, <1>4, <2>1, <2>7, <2>8, <2>9 DEF A!LoginTypeOK
<1>8. CASE A!SetName(s)
    <2>1. /\ script[s].at = "name" /\ auth' = [auth EXCEPT !.name = saw[2]]
          /\ Go(s, "email") /\ UNCHANGED <<codes, holds>>
        BY <1>8, SameLogin DEF A!SetName, At
    <2>2. Acts(s, "email", saw)
        BY <1>1, <2>1, LoginGoActs DEF LoginKinds, LoginAts
    <2>3. Len(saw) = 3
        BY <1>1, <1>2, <2>1 DEF LoginRead
    <2>4. saw[2] \in Accounts
        BY <1>3, <2>3
    <2>5. A!LoginTypeOK' /\ auth'.token = auth.token /\ auth'.name = saw[2]
        BY <1>2, <2>1, <2>4 DEF A!LoginTypeOK
    <2>6. LoginRead(s)' /\ LoggedIn(s)'
        BY <1>1, <1>2, <2>1, <2>2, <2>3, <2>5 DEF Acts, LoginRead, LoggedIn, Is
    <2> QED
        BY <1>4, <2>2, <2>5, <2>6
<1>9. CASE A!SetEmail(s)
    <2>1. /\ script[s].at = "email" /\ EndAt(s, "ok") /\ UNCHANGED <<codes, holds>>
        BY <1>9, SameLogin DEF A!SetEmail, At
    <2>2. PICK i \in {1, 3} : auth' = [auth EXCEPT !.email = saw[i]]
        BY <1>9 DEF A!SetEmail
    <2>3. Acts(s, "ok", saw)
        BY <1>1, <2>1, EndActs
    <2>4. Len(saw) = 3
        BY <1>1, <1>2, <2>1 DEF LoginRead
    <2>5. saw[i] \in Accounts
        BY <1>3, <2>4
    <2>6. /\ A!LoginTypeOK' /\ auth'.token = auth.token /\ auth'.name = auth.name
          /\ auth'.email = saw[i]
        BY <1>2, <2>1, <2>2, <2>5 DEF A!LoginTypeOK
    <2>7. LoginRead(s)' /\ LoggedIn(s)'
        BY <1>1, <1>2, <2>1, <2>3, <2>4, <2>6 DEF Acts, LoginRead, LoggedIn, Is
    <2> QED
        BY <1>4, <2>3, <2>6, <2>7
<1> QED
    BY <1>5, <1>6, <1>7, <1>8, <1>9

\* Each step of the script of a logout.
LEMMA LogoutSteps ==
    ASSUME Exec, LoginInv, NEW s \in Slots, A!Out(s) \/ A!Unname(s) \/ A!Unmail(s)
    PROVE  Exec' /\ LoginInv' /\ Calm(ProjectKinds) /\ Calm(EditorKinds)
<1> USE Apart
<1>1. /\ Is(s, "logout") /\ script[s] # None /\ script[s].kind = "logout"
      /\ UNCHANGED <<codes, holds>>
      /\ auth' \in {auth, [auth EXCEPT !.token = None], [auth EXCEPT !.name = None],
                    [auth EXCEPT !.email = None]}
    BY SameLogin DEF A!Out, A!Unname, A!Unmail, At, Is
<1>2. A!LoginTypeOK'
    BY <1>1 DEF LoginInv, A!LoginTypeOK
<1>3. PICK label : Acts(s, label, script[s].saw)
    <2>1. CASE A!Out(s)
        <3>1. Go(s, "unname")
            BY <2>1, SameLogin DEF A!Out
        <3> QED
            BY <1>1, <3>1, LoginGoActs DEF LoginKinds, LoginAts
    <2>2. CASE A!Unname(s)
        <3>1. Go(s, "unmail")
            BY <2>2, SameLogin DEF A!Unname
        <3> QED
            BY <1>1, <3>1, LoginGoActs DEF LoginKinds, LoginAts
    <2>3. CASE A!Unmail(s)
        <3>1. EndAt(s, "ok")
            BY <2>3, SameLogin DEF A!Unmail
        <3> QED
            BY <1>1, <3>1, EndActs
    <2> QED
        BY <2>1, <2>2, <2>3
<1>4. LoginRead(s)' /\ LoggedIn(s)'
    BY <1>1, <1>3 DEF Acts, LoginRead, LoggedIn, Is
<1> QED
    BY <1>1, <1>2, <1>3, <1>4, LoginKept DEF LoginKinds

\* A step of the script of a login or a logout keeps its part.
LEMMA LoginRuns ==
    ASSUME Exec, LoginInv, NEW s \in Slots, A!LoginStep(s)
    PROVE  Exec' /\ LoginInv' /\ Calm(ProjectKinds) /\ Calm(EditorKinds)
<1>1. CASE A!LoginFails(s)
    <2>1. Breaks(s) /\ UNCHANGED <<codes, holds, auth>>
        BY <1>1, SameLogin DEF A!LoginFails, A!login
    <2>2. Exec' /\ \A kinds : Calm(kinds)
        BY <2>1, BreaksFades DEF Calm
    <2>3. A!LoginTypeOK'
        BY <2>1 DEF LoginInv, A!LoginTypeOK
    <2> QED
        BY <2>1, <2>2, <2>3, LoginCalm
<1> QED
    BY <1>1, LoginSteps, LogoutSteps DEF A!LoginStep

\* A poll that has got the token starts a login, a logout its own script.
LEMMA LoginAsks ==
    ASSUME Exec, LoginInv, NEW t \in Threads, NEW s \in Slots, A!Save(t, s) \/ A!Logout(t, s)
    PROVE  Exec' /\ LoginInv' /\ Calm(ProjectKinds) /\ Calm(EditorKinds)
<1> USE Apart
<1>1. PICK kind \in LoginKinds, arg \in Accounts \cup {None}, label \in {"login", "out"} :
         /\ Launch(t, s, kind, arg, label)
         /\ kind = "login" => arg \in Accounts /\ label = "login"
    <2>1. CASE A!Save(t, s)
        <3>1. holds[t] \in Accounts /\ Launch(t, s, "login", holds[t], "login")
            BY <2>1, SameLogin DEF A!Save, LoginInv, A!LoginTypeOK
        <3> QED
            BY <3>1 DEF LoginKinds
    <2>2. CASE A!Logout(t, s)
        <3>1. Launch(t, s, "logout", None, "out")
            BY <2>2, SameLogin DEF A!Logout
        <3> QED
            BY <3>1 DEF LoginKinds
    <2> QED
        BY <2>1, <2>2
<1>2. \A b \in BOOLEAN :
          LET r == [kind |-> kind, arg |-> arg, at |-> label, saw |-> <<>>, alone |-> b]
          IN  r \in AllScripts /\ Args(r)
    <2>1. <<>> \in UNION {[1..k -> Accounts] : k \in 0..3}
        <3>1. <<>> \in [1..0 -> Accounts] /\ 0 \in 0..3
            BY LenProperties, EmptySeq
        <3> QED
            BY <3>1
    <2> QED
        BY <1>1, <2>1 DEF AllScripts, A!Scripts, Args, LoginKinds
<1>3. /\ Exec' /\ \A p \in Slots \ {s} : Fades(p)
      /\ script'[s] # None /\ script'[s].kind = kind /\ script'[s].at = label /\ script'[s].saw = <<>>
    BY <1>1, <1>2, LaunchFades
<1>4. A!LoginTypeOK' /\ UNCHANGED auth
    BY DEF A!Save, A!Logout, A!login, LoginInv, A!LoginTypeOK
<1>5. ASSUME NEW p \in Slots PROVE LoginRead(p)' /\ LoggedIn(p)'
    <2>1. LoginRead(p) /\ LoggedIn(p)
        BY DEF LoginInv
    <2>2. CASE p = s
        BY <1>1, <1>3, <2>2 DEF LoginRead, LoggedIn, Is
    <2>3. CASE p # s
        BY <1>3, <1>4, <2>1, <2>3 DEF Fades, LoginRead, LoggedIn, Is
    <2> QED
        BY <2>2, <2>3
<1>6. Calm(ProjectKinds) /\ Calm(EditorKinds)
    BY <1>1, <1>3 DEF Calm, ProjectKinds, LoginKinds, EditorKinds
<1> QED
    BY <1>3, <1>4, <1>5, <1>6 DEF LoginInv

-----------------------------------------------------------------------------
(* A step of the editor *)

LEMMA EditorGoActs ==
    ASSUME Exec, NEW s \in Slots, NEW kind \in EditorKinds, Is(s, kind),
           NEW label \in EditorAts, Go(s, label)
    PROVE  Acts(s, label, script[s].saw)
BY GoActs DEF Is, Ats, ProjectKinds, LoginKinds, EditorKinds

\* An install or configure that is alone shares nothing with the script that acts.
LEMMA EditorKept ==
    ASSUME Exec, EditorInv, NEW s \in Slots, script[s].kind \in EditorKinds,
           NEW label, NEW seen, Acts(s, label, seen),
           E!EditorTypeOK', Installed(s)', Configured(s)'
    PROVE  Exec' /\ EditorInv' /\ Calm(ProjectKinds) /\ Calm(LoginKinds)
<1>1. ASSUME NEW p \in Slots \ {s} PROVE Installed(p)' /\ Configured(p)'
    <2>1. script'[p] = script[p] /\ Installed(p)
        BY DEF Acts, EditorInv
    <2>2. Is(p, "install") \/ Is(p, "configure") => ~script[p].alone
        BY DEF Exec, Solo, Rival, Rivals, Is, Acts, EditorKinds
    <2> QED
        BY <2>1, <2>2 DEF Installed, Configured, Is
<1>2. script[s].kind \notin ProjectKinds /\ script[s].kind \notin LoginKinds
    BY DEF ProjectKinds, LoginKinds, EditorKinds
<1> QED
    BY <1>1, <1>2, ActsCalm DEF EditorInv, Acts

\* Each step of EDITOR_INSTALL_SCRIPT.
LEMMA InstallSteps ==
    ASSUME Exec, EditorInv, NEW s \in Slots,
           \/ E!InstallTest(s) \/ E!PrintVersion(s) \/ E!MakeDir(s) \/ E!RemoveBin(s)
           \/ E!UnpackBin(s) \/ E!Unpack(s) \/ E!CheckBin(s)
    PROVE  Exec' /\ EditorInv' /\ Calm(ProjectKinds) /\ Calm(LoginKinds)
<1>1. Is(s, "install") /\ script[s] # None /\ script[s].kind = "install"
    BY SameEditor
    DEF E!InstallTest, E!PrintVersion, E!MakeDir, E!RemoveBin, E!UnpackBin, E!Unpack, E!CheckBin, At, Is
<1>2. Installed(s) /\ bin \in E!Bins
    BY DEF EditorInv, E!EditorTypeOK
<1>3. ASSUME NEW label, NEW seen, Acts(s, label, seen), bin' \in E!Bins, UNCHANGED <<conf, server>>,
             label # "test",
             script[s].alone =>
                 /\ label = "version" => bin' \in {"part", "whole"} /\ seen = <<bin'>>
                 /\ label = "check" => bin' = "whole"
                 /\ label = "ok" => bin' = "whole" \/ (bin' = "part" /\ seen = <<"part">>)
      PROVE  Exec' /\ EditorInv' /\ Calm(ProjectKinds) /\ Calm(LoginKinds)
    <2>1. E!EditorTypeOK'
        BY <1>3 DEF EditorInv, E!EditorTypeOK
    <2>2. Installed(s)' /\ Configured(s)'
        BY <1>1, <1>3 DEF Acts, Installed, Configured, Is
    <2> QED
        BY <1>1, <1>3, <2>1, <2>2, EditorKept DEF EditorKinds
<1>4. ASSUME NEW label \in EditorAts, Go(s, label) PROVE Acts(s, label, script[s].saw)
    BY <1>1, <1>4, EditorGoActs DEF EditorKinds
<1>5. CASE E!InstallTest(s)
    <2>1. PICK label \in {"version", "mkdir"} :
              Reads(s, bin, label) /\ (label = "version" => bin \in {"part", "whole"})
        BY <1>5, SameEditor DEF E!InstallTest, E!HasBin
    <2>2. script[s].saw = <<>> /\ UNCHANGED <<bin, conf, server>>
        BY <1>1, <1>2, <1>5, SameEditor DEF E!InstallTest, E!editor, At, Installed
    <2>3. Append(script[s].saw, bin) = <<bin>> /\ <<bin>> \in Saws("install")
        BY <1>2, <2>2 DEF Saws, ProjectKinds, LoginKinds
    <2>4. label \in Ats("install")
        BY DEF Ats, ProjectKinds, LoginKinds, EditorAts
    <2>5. Acts(s, label, Append(script[s].saw, bin))
        BY <1>1, <2>1, <2>3, <2>4, ReadsActs
    <2>6. Acts(s, label, <<bin>>)
        BY <2>3, <2>5
    <2> QED
        BY <1>2, <1>3, <2>1, <2>2, <2>6
<1>6. CASE E!PrintVersion(s) \/ E!CheckBin(s)
    <2>1. EndAt(s, "ok") /\ UNCHANGED <<bin, conf, server>> /\ script[s].at \in {"version", "check"}
        BY <1>6, SameEditor DEF E!PrintVersion, E!CheckBin, E!editor, At
    <2>2. Acts(s, "ok", script[s].saw)
        BY <1>1, <2>1, EndActs
    <2>3. script[s].alone => bin = "whole" \/ (bin = "part" /\ script[s].saw = <<"part">>)
        BY <1>1, <1>2, <2>1 DEF Installed
    <2> QED
        BY <1>2, <1>3, <2>1, <2>2, <2>3
<1>7. CASE E!MakeDir(s) \/ E!RemoveBin(s) \/ E!UnpackBin(s)
    <2>1. PICK label \in {"unpack", "replace", "unpacking"} : Go(s, label)
        BY <1>7, SameEditor DEF E!MakeDir, E!RemoveBin, E!UnpackBin
    <2>2. Acts(s, label, script[s].saw)
        BY <1>4, <2>1 DEF EditorAts
    <2>3. bin' \in E!Bins /\ UNCHANGED <<conf, server>>
        BY <1>2, <1>7 DEF E!MakeDir, E!RemoveBin, E!UnpackBin, E!Bins
    <2> QED
        BY <1>3, <2>2, <2>3
<1>8. CASE E!Unpack(s)
    <2>1. Go(s, "check") /\ UNCHANGED <<conf, server>>
        BY <1>8, SameEditor DEF E!Unpack
    <2>2. Acts(s, "check", script[s].saw)
        BY <1>4, <2>1 DEF EditorAts
    <2>3. bin' \in E!Bins /\ (script[s].alone => bin' = "whole")
        BY <1>2, <1>8 DEF E!Unpack, E!Bins
    <2> QED
        BY <1>3, <2>1, <2>2, <2>3
<1> QED
    BY <1>5, <1>6, <1>7, <1>8

\* Each step of the script of configure, and that of stop.
LEMMA ConfigureSteps ==
    ASSUME Exec, EditorInv, NEW s \in Slots,
           \/ E!ConfigureTest(s) \/ E!OpenToken(s) \/ E!WriteToken(s) \/ E!OpenUnit(s) \/ E!WriteUnit(s)
           \/ E!Restart(s)
    PROVE  Exec' /\ EditorInv' /\ Calm(ProjectKinds) /\ Calm(LoginKinds)
<1> USE Apart
<1> DEFINE c == script[s].arg
<1>1. /\ Is(s, "configure") /\ script[s] # None /\ script[s].kind = "configure" /\ c \in Configs
    BY SameEditor DEF E!ConfigureTest, E!OpenToken, E!WriteToken, E!OpenUnit, E!WriteUnit, E!Restart,
           At, Is, Exec, Typed, Args
<1>2. Configured(s) /\ E!EditorTypeOK
    BY DEF EditorInv
<1>3. ASSUME NEW label, Acts(s, label, script[s].saw), UNCHANGED bin, E!EditorTypeOK', Configured(s)'
      PROVE  Exec' /\ EditorInv' /\ Calm(ProjectKinds) /\ Calm(LoginKinds)
    <2>1. Installed(s)'
        BY <1>1, <1>3 DEF Acts, Installed, Is
    <2> QED
        BY <1>1, <1>3, <2>1, EditorKept DEF EditorKinds
<1>4. ASSUME NEW label \in EditorAts, Go(s, label) PROVE Acts(s, label, script[s].saw)
    BY <1>1, <1>4, EditorGoActs DEF EditorKinds
<1>5. CASE E!ConfigureTest(s)
    <2>1. Go(s, "token") /\ UNCHANGED <<bin, conf, server>>
        BY <1>5, SameEditor DEF E!ConfigureTest, E!editor
    <2>2. Acts(s, "token", script[s].saw)
        BY <1>4, <2>1 DEF EditorAts
    <2>3. E!EditorTypeOK' /\ Configured(s)'
        BY <1>2, <2>1, <2>2 DEF Acts, Configured, Is, E!EditorTypeOK
    <2> QED
        BY <1>3, <2>1, <2>2, <2>3
<1>6. CASE E!OpenToken(s)
    <2>1. Go(s, "tokened") /\ UNCHANGED <<bin, server>> /\ conf' = [conf EXCEPT !.token = "torn"]
        BY <1>6, SameEditor DEF E!OpenToken
    <2>2. Acts(s, "tokened", script[s].saw)
        BY <1>4, <2>1 DEF EditorAts
    <2>3. E!EditorTypeOK' /\ Configured(s)'
        BY <1>2, <2>1, <2>2 DEF Acts, Configured, Is, E!EditorTypeOK
    <2> QED
        BY <1>3, <2>1, <2>2, <2>3
<1>7. CASE E!WriteToken(s)
    <2>1. Go(s, "unit") /\ UNCHANGED <<bin, server>> /\ conf' = [conf EXCEPT !.token = c]
        BY <1>7, SameEditor DEF E!WriteToken
    <2>2. Acts(s, "unit", script[s].saw)
        BY <1>4, <2>1 DEF EditorAts
    <2>3. E!EditorTypeOK' /\ conf'.token = c
        BY <1>1, <1>2, <2>1 DEF E!EditorTypeOK
    <2>4. Configured(s)'
        BY <1>1, <2>2, <2>3 DEF Acts, Configured, Is
    <2> QED
        BY <1>3, <2>1, <2>2, <2>3, <2>4
<1>8. CASE E!OpenUnit(s)
    <2>1. /\ Go(s, "united") /\ UNCHANGED <<bin, server>> /\ conf' = [conf EXCEPT !.unit = "torn"]
          /\ script[s].at = "unit"
        BY <1>8, SameEditor DEF E!OpenUnit, At
    <2>2. Acts(s, "united", script[s].saw)
        BY <1>4, <2>1 DEF EditorAts
    <2>3. E!EditorTypeOK' /\ conf'.token = conf.token
        BY <1>2, <2>1 DEF E!EditorTypeOK
    <2>4. Configured(s)'
        BY <1>1, <1>2, <2>1, <2>2, <2>3 DEF Acts, Configured, Is
    <2> QED
        BY <1>3, <2>1, <2>2, <2>3, <2>4
<1>9. CASE E!WriteUnit(s)
    <2>1. /\ Go(s, "restart") /\ UNCHANGED <<bin, server>> /\ conf' = [conf EXCEPT !.unit = c]
          /\ script[s].at = "united"
        BY <1>9, SameEditor DEF E!WriteUnit, At
    <2>2. Acts(s, "restart", script[s].saw)
        BY <1>4, <2>1 DEF EditorAts
    <2>3. E!EditorTypeOK' /\ conf'.token = conf.token /\ conf'.unit = c
        BY <1>1, <1>2, <2>1 DEF E!EditorTypeOK
    <2>4. Configured(s)'
        BY <1>1, <1>2, <2>1, <2>2, <2>3 DEF Acts, Configured, Is
    <2> QED
        BY <1>3, <2>1, <2>2, <2>3, <2>4
<1>10. CASE E!Restart(s)
    <2>1. /\ EndAt(s, "ok") /\ UNCHANGED <<bin, conf>> /\ server' \in E!Started
          /\ script[s].at = "restart"
        BY <1>10, SameEditor DEF E!Restart, At
    <2>2. Acts(s, "ok", script[s].saw)
        BY <1>1, <2>1, EndActs
    <2>3. server' = None \/ (server' = conf /\ conf \in [token : Configs, unit : Configs])
        BY <1>2, <2>1 DEF E!Started, E!EditorTypeOK
    <2>4. E!EditorTypeOK'
        BY <1>2, <2>1, <2>3 DEF E!EditorTypeOK
    <2>5. conf.token = c /\ conf.unit = c => server' \in {None, [token |-> c, unit |-> c]}
        BY <2>3
    <2>6. Configured(s)'
        BY <1>1, <1>2, <2>1, <2>2, <2>5 DEF Acts, Configured, Is
    <2> QED
        BY <1>3, <2>1, <2>2, <2>4, <2>6
<1> QED
    BY <1>5, <1>6, <1>7, <1>8, <1>9, <1>10

\* A script of install or configure that fails, and that of stop.
LEMMA EditorEnds ==
    ASSUME Exec, EditorInv, NEW s \in Slots, E!DisableNow(s) \/ E!EditorFails(s)
    PROVE  Exec' /\ EditorInv' /\ Calm(ProjectKinds) /\ Calm(LoginKinds)
<1>1. /\ script[s] # None /\ script[s].kind \in EditorKinds
      /\ bin' \in {bin, "part"} /\ UNCHANGED conf /\ server' \in {server, None}
    BY SameEditor DEF E!DisableNow, E!EditorFails, E!BrokenOff, At, EditorKinds
<1>2. PICK label : /\ Acts(s, label, script[s].saw)
                   /\ label = "bad" \/ script[s].kind = "stop"
    <2>1. CASE E!DisableNow(s)
        BY <1>1, <2>1, SameEditor, EndActs DEF E!DisableNow, At
    <2>2. CASE E!EditorFails(s)
        BY <1>1, <2>2, SameEditor, EndActs DEF E!EditorFails, Breaks
    <2> QED
        BY <2>1, <2>2
<1>3. E!EditorTypeOK'
    BY <1>1 DEF EditorInv, E!EditorTypeOK, E!Bins
<1>4. Installed(s)' /\ Configured(s)'
    BY <1>1, <1>2 DEF Acts, Installed, Configured, Is
<1> QED
    BY <1>1, <1>2, <1>3, <1>4, EditorKept

\* A step of the editor's scripts keeps its part.
LEMMA EditorRuns ==
    ASSUME Exec, EditorInv, NEW s \in Slots, E!EditorStep(s)
    PROVE  Exec' /\ EditorInv' /\ Calm(ProjectKinds) /\ Calm(LoginKinds)
BY InstallSteps, ConfigureSteps, EditorEnds DEF E!EditorStep

\* A request about the editor starts its script.
LEMMA EditorAsks ==
    ASSUME Exec, EditorInv, NEW t \in Threads, NEW s \in Slots,
           E!Install(t, s) \/ E!Configure(t, s) \/ E!StopEditor(t, s)
    PROVE  Exec' /\ EditorInv' /\ Calm(ProjectKinds) /\ Calm(LoginKinds)
<1> USE Apart
<1>1. PICK kind \in EditorKinds, arg \in Configs \cup {None}, label \in {"test", "stop"} :
         Launch(t, s, kind, arg, label) /\ (kind = "configure" => arg \in Configs)
    BY SameEditor DEF E!Install, E!Configure, E!StopEditor, EditorKinds
<1>2. \A b \in BOOLEAN :
          LET r == [kind |-> kind, arg |-> arg, at |-> label, saw |-> <<>>, alone |-> b]
          IN  r \in AllScripts /\ Args(r)
    BY <1>1 DEF AllScripts, E!Scripts, Args, EditorKinds
<1>3. /\ Exec' /\ \A p \in Slots \ {s} : Fades(p)
      /\ script'[s] # None /\ script'[s].kind = kind /\ script'[s].at = label /\ script'[s].saw = <<>>
    BY <1>1, <1>2, LaunchFades
<1>4. UNCHANGED <<bin, conf, server>>
    BY DEF E!Install, E!Configure, E!StopEditor, E!editor
<1>5. ASSUME NEW p \in Slots PROVE Installed(p)' /\ Configured(p)'
    <2>1. Installed(p) /\ Configured(p)
        BY DEF EditorInv
    <2>2. CASE p = s
        BY <1>1, <1>3, <2>2 DEF Installed, Configured, Is
    <2>3. CASE p # s
        BY <1>3, <1>4, <2>1, <2>3 DEF Fades, Installed, Configured, Is
    <2> QED
        BY <2>2, <2>3
<1>6. Calm(ProjectKinds) /\ Calm(LoginKinds)
    BY <1>1, <1>3 DEF Calm, ProjectKinds, LoginKinds, EditorKinds
<1> QED
    BY <1>3, <1>4, <1>5, <1>6 DEF EditorInv, E!EditorTypeOK

\* systemd starts the server again, with the token file as it is.
LEMMA RespawnKeeps ==
    ASSUME Exec, EditorInv, E!Respawn
    PROVE  Exec' /\ EditorInv' /\ \A p \in Slots : Fades(p)
<1> USE Apart
<1>1. /\ UNCHANGED <<waits, script, bin, conf>> /\ server # None
      /\ server' = None \/ (conf.token \in Configs /\ server' = [server EXCEPT !.token = conf.token])
    BY DEF E!Respawn, E!exec
<1>2. Exec' /\ \A p \in Slots : Fades(p)
    BY <1>1 DEF Exec, Typed, Awaited, Single, Solo, Rival, Fades
<1>3. E!EditorTypeOK'
    BY <1>1 DEF EditorInv, E!EditorTypeOK
<1>4. ASSUME NEW s \in Slots PROVE Installed(s)' /\ Configured(s)'
    <2>1. Installed(s) /\ Configured(s)
        BY DEF EditorInv
    <2>2. Installed(s)'
        BY <1>1, <2>1 DEF Installed, Is
    <2>3. ASSUME server = [token |-> conf.token, unit |-> script[s].arg]
          PROVE  [server EXCEPT !.token = conf.token] = server
        BY <2>3
    <2> QED
        BY <1>1, <2>1, <2>2, <2>3 DEF Configured, Is
<1> QED
    BY <1>2, <1>3, <1>4 DEF EditorInv

\* The VM is stopped: no script is alone any more.
LEMMA StopKeepsEditor ==
    ASSUME EditorInv, E!EditorDown, \A p \in Slots : Fades(p),
           \A p \in Slots : script'[p] # None => ~script'[p].alone
    PROVE  EditorInv'
<1>1. E!EditorTypeOK'
    BY DEF E!EditorDown, E!Started, E!BrokenOff, E!Bins, EditorInv, E!EditorTypeOK
<1>2. ASSUME NEW s \in Slots PROVE Installed(s)' /\ Configured(s)'
    <2>1. Installed(s)
        BY DEF EditorInv
    <2> QED
        BY <2>1 DEF Fades, Installed, Configured, Is
<1> QED
    BY <1>1, <1>2 DEF EditorInv

-----------------------------------------------------------------------------
(* The invariant holds, whatever the parts do *)

LEMMA InitHolds == GuestInit => GuestInv
<1> SUFFICES ASSUME GuestInit PROVE GuestInv
    OBVIOUS
<1> USE Apart
<1>1. /\ waits = [t \in Threads |-> None] /\ script = [s \in Slots |-> None]
      /\ InitFiles /\ A!InitLogin /\ E!InitEditor
    BY DEF GuestInit, Init
<1>2. Exec
    BY <1>1 DEF Exec, Typed, Awaited, Single, Solo
<1>3. ProjectFiles
    <2> DEFINE empty == [git |-> FALSE, head |-> None, by |-> None, env |-> None]
    <2>1. tree \in {None, empty} /\ tmp = [s \in Slots |-> None] /\ containers = None
        BY <1>1 DEF InitFiles
    <2>2. empty \in Trees /\ empty.head = None /\ empty.by = None /\ empty.env = None
        BY DEF Trees
    <2> HIDE DEF empty
    <2> QED
        BY <2>1, <2>2 DEF ProjectFiles, FilesTypeOK, EnvWhole, Whole
<1>4. A!LoginTypeOK
    BY <1>1 DEF A!InitLogin, A!NoAuth, A!LoginTypeOK
<1>5. E!EditorTypeOK
    BY <1>1 DEF E!InitEditor, E!EditorTypeOK, E!Bins
<1> QED
    BY <1>1, <1>2, <1>3, <1>4, <1>5
    DEF GuestInv, ProjectInv, LoginInv, EditorInv, Is, ProjectRead, Cloned, LoginRead, LoggedIn,
        Installed, Configured

\* What a step of one part leaves to the two others.
LEMMA ProjectAlone ==
    ASSUME GuestInv, Exec', ProjectInv', Calm(LoginKinds), Calm(EditorKinds), UNCHANGED tools
    PROVE  GuestInv'
BY LoginCalm, EditorCalm DEF GuestInv, LoginInv, A!LoginTypeOK, tools

LEMMA LoginAlone ==
    ASSUME GuestInv, Exec', LoginInv', Calm(ProjectKinds), Calm(EditorKinds),
           UNCHANGED <<files, bin, conf, server>>
    PROVE  GuestInv'
BY ProjectCalm, EditorCalm DEF GuestInv

LEMMA EditorAlone ==
    ASSUME GuestInv, Exec', EditorInv', Calm(ProjectKinds), Calm(LoginKinds),
           UNCHANGED <<files, codes, holds, auth>>
    PROVE  GuestInv'
BY ProjectCalm, LoginCalm DEF GuestInv, LoginInv, A!LoginTypeOK

LEMMA FadesCalm ==
    ASSUME \A p \in Slots : Fades(p) PROVE \A kinds : Calm(kinds)
BY DEF Calm

LEMMA NextHolds == GuestInv /\ [GuestNext]_all => GuestInv'
<1> SUFFICES ASSUME GuestInv, [GuestNext]_all PROVE GuestInv'
    OBVIOUS
<1>0. Exec /\ ProjectInv /\ LoginInv /\ EditorInv
    BY DEF GuestInv
<1>1. ASSUME NEW t \in Threads, NEW s \in Slots, AskProject(t, s) PROVE GuestInv'
    BY <1>0, <1>1, ProjectAsks, ProjectAlone DEF AskProject
<1>2. ASSUME NEW t \in Threads, NEW s \in Slots, AskLogin(t, s) PROVE GuestInv'
    BY <1>0, <1>2, LoginAsks, LoginAlone DEF AskLogin
<1>3. ASSUME NEW t \in Threads, NEW s \in Slots, AskEditor(t, s) PROVE GuestInv'
    BY <1>0, <1>3, EditorAsks, EditorAlone DEF AskEditor
<1>4. ASSUME NEW t \in Threads, AnyAnswer(t) \/ AnyLost(t) PROVE GuestInv'
    <2>1. waits[t] # None /\ Leave(t) /\ UNCHANGED <<files, tools>>
        BY <1>4 DEF AnyAnswer, AnyLost, Answer, NoAnswer, Reply, Lost
    <2>2. Exec' /\ \A kinds : Calm(kinds)
        BY <1>0, <2>1, LeaveFades, FadesCalm
    <2>3. ProjectInv'
        BY <1>0, <2>1, <2>2, ProjectCalm
    <2> QED
        BY <2>1, <2>2, <2>3, ProjectAlone
<1>5. ASSUME NEW s \in Slots, Runs(s) PROVE GuestInv'
    <2>1. CASE ScriptStep(s) /\ UNCHANGED tools
        BY <1>0, <2>1, ProjectRuns, ProjectAlone
    <2>2. CASE A!LoginStep(s) /\ UNCHANGED <<files, bin, conf, server>>
        BY <1>0, <2>2, LoginRuns, LoginAlone
    <2>3. CASE E!EditorStep(s) /\ UNCHANGED <<files, codes, holds, auth>>
        BY <1>0, <2>3, EditorRuns, EditorAlone
    <2> QED
        BY <1>5, <2>1, <2>2, <2>3 DEF Runs
<1>6. CASE AtGithub
    <2>1. UNCHANGED <<waits, script, auth>> /\ UNCHANGED <<files, bin, conf, server>>
        BY <1>6 DEF AtGithub, A!AuthStart, A!SaveFails, A!Poll, A!Expires, A!exec
    <2>2. A!LoginTypeOK'
        BY <1>0, <1>6 DEF AtGithub, A!AuthStart, A!SaveFails, A!Poll, A!Expires, LoginInv, A!LoginTypeOK
    <2>3. Exec' /\ \A kinds : Calm(kinds)
        BY <1>0, <2>1, Fixed, FadesCalm DEF Exec, Typed, Awaited, Single, Solo, Rival
    <2>4. LoginInv'
        BY <1>0, <2>1, <2>2, <2>3, LoginCalm
    <2> QED
        BY <2>1, <2>3, <2>4, LoginAlone
<1>7. CASE Systemd
    <2>1. E!Respawn /\ UNCHANGED <<files, codes, holds, auth>>
        BY <1>7 DEF Systemd
    <2>2. Exec' /\ EditorInv' /\ \A kinds : Calm(kinds)
        BY <1>0, <2>1, RespawnKeeps, FadesCalm
    <2> QED
        BY <2>1, <2>2, EditorAlone
<1>8. CASE GuestStops
    <2>1. VmStops /\ E!EditorDown /\ UNCHANGED <<codes, holds, auth>>
        BY <1>8 DEF GuestStops
    <2>2. /\ Exec' /\ ProjectInv' /\ \A p \in Slots : Fades(p)
          /\ \A p \in Slots : script'[p] # None => ~script'[p].alone
        BY <1>0, <2>1, StopFades
    <2>3. EditorInv'
        BY <1>0, <2>1, <2>2, StopKeepsEditor
    <2>4. Calm(LoginKinds)
        BY <2>2, FadesCalm
    <2>5. A!LoginTypeOK'
        BY <1>0, <2>1 DEF LoginInv, A!LoginTypeOK
    <2>6. LoginInv'
        BY <1>0, <2>1, <2>4, <2>5, LoginCalm
    <2> QED
        BY <2>2, <2>3, <2>6 DEF GuestInv
<1>9. CASE GuestCrash
    <2>1. Deserted /\ UNCHANGED files /\ UNCHANGED <<bin, conf, server, auth>>
        BY <1>9 DEF GuestCrash, AgentCrash, A!Forgotten
    <2>2. Exec' /\ \A kinds : Calm(kinds)
        BY <1>0, <2>1, DesertedFades, FadesCalm
    <2>3. A!LoginTypeOK'
        BY <1>0, <1>9 DEF GuestCrash, A!Forgotten, LoginInv, A!LoginTypeOK
    <2>4. LoginInv'
        BY <1>0, <2>1, <2>2, <2>3, LoginCalm
    <2> QED
        BY <2>1, <2>2, <2>4, LoginAlone
<1>10. CASE UNCHANGED all
    <2>1. UNCHANGED <<waits, script>> /\ UNCHANGED <<files, tools>>
        BY <1>10 DEF all, vars
    <2>2. Exec' /\ \A kinds : Calm(kinds)
        BY <1>0, <2>1, Fixed, FadesCalm DEF Exec, Typed, Awaited, Single, Solo, Rival
    <2>3. ProjectInv'
        BY <1>0, <2>1, <2>2, ProjectCalm
    <2> QED
        BY <2>1, <2>2, <2>3, ProjectAlone
<1> QED
    BY <1>1, <1>2, <1>3, <1>4, <1>5, <1>6, <1>7, <1>8, <1>9, <1>10 DEF GuestNext

LEMMA AlwaysHolds == GuestSpec => []GuestInv
BY InitHolds, NextHolds, PTL DEF GuestSpec

-----------------------------------------------------------------------------
(* Theorems *)

\* Every variable of the projects, the login and the editor keeps its type.
THEOREM TypeCorrect == GuestSpec => []GuestTypeOK
<1>1. GuestInv => GuestTypeOK
    BY DEF GuestInv, Exec, Typed, AllScripts, ProjectInv, ProjectFiles, LoginInv, EditorInv, GuestTypeOK
<1> QED
    BY <1>1, AlwaysHolds, PTL

\* The .env file is never half written, and no container is started from half
\* of one: mv comes only after a script has written its own .env.tmp.
THEOREM EnvAlwaysWhole == GuestSpec => []EnvWhole
<1>1. GuestInv => EnvWhole
    BY DEF GuestInv, ProjectInv, ProjectFiles
<1> QED
    BY <1>1, AlwaysHolds, PTL

\* The script that a thread waits for.
LEMMA WaitedFor ==
    ASSUME GuestInv, NEW t \in Threads, Reply(t, TRUE)
    PROVE  /\ waits[t] \in Slots /\ script[waits[t]] # None
           /\ script[waits[t]].kind \notin Unchecked => script[waits[t]].at = "ok"
<1>1. waits[t] \in Slots /\ script[waits[t]] # None
    BY DEF GuestInv, Exec, Typed, Awaited, Reply
<1>2. script[waits[t]].kind \notin Unchecked => ExitCode(waits[t]) = 0
    BY DEF Reply, Success
<1> QED
    BY <1>1, <1>2 DEF ExitCode, Ended

\* A step of a clone that is alone.
LEMMA CloneKeeps ==
    ASSUME GuestInv, [GuestNext]_all, Whole(tree), \A s \in Slots : Cloning(s) => script[s].alone
    PROVE  tree' # None /\ (tree.env # None => tree'.env # None)
<1> USE Apart
<1>1. tree # None /\ tree \in Trees /\ ProjectInv /\ tmp \in [Slots -> Contents \cup {None, "torn"}]
    BY DEF GuestInv, ProjectInv, ProjectFiles, FilesTypeOK, Whole
<1>2. \A d \in Trees : d # None
    OBVIOUS
<1>3. ASSUME tree' \in Trees, tree'.env = tree.env \/ tree'.env # None
      PROVE  tree' # None /\ (tree.env # None => tree'.env # None)
    BY <1>2, <1>3
<1>4. CASE tree' = tree
    BY <1>1, <1>4
<1>5. ASSUME NEW s \in Slots, ScriptStep(s), tree' # tree
      PROVE  tree' # None /\ (tree.env # None => tree'.env # None)
    <2>1. At(s, "clone", "remove") \/ At(s, "clone", "cloning") => Cloned(s) /\ Is(s, "clone") /\ script[s].alone
        BY <1>1 DEF ProjectInv, At, Is, Cloning, Running
    <2>2. ~Remove(s)
        BY <2>1 DEF Remove, At, Cloned
    <2>3. ~CloneFails(s)
        BY <1>1, <1>5, <2>1 DEF CloneFails, At, Cloned, Whole
    <2>4. ~Clone(s)
        BY <1>1 DEF Clone
    <2>5. CASE Update(s) \/ UpdateEnds(s) \/ CloneEnds(s)
        <3>1. \/ tree' = [tree EXCEPT !.head = None]
              \/ tree' = [tree EXCEPT !.head = script[s].arg]
              \/ tree' = [tree EXCEPT !.head = script[s].arg, !.by = None]
            BY <2>5 DEF Update, UpdateEnds, CloneEnds
        <3>2. Is(s, "clone") /\ script[s].arg \in Branches
            BY <2>5 DEF Update, UpdateEnds, CloneEnds, At, Is, GuestInv, Exec, Typed, Args
        <3>3. tree' \in Trees /\ tree'.env = tree.env
            BY <1>1, <3>1, <3>2 DEF Trees
        <3> QED
            BY <1>3, <3>3
    <2>6. CASE EnvMove(s)
        <3>1. tmp[s] # None /\ tree' = [tree EXCEPT !.env = tmp[s]]
            BY <2>6 DEF EnvMove, TmpOf
        <3>2. tree' \in Trees /\ tree'.env = tmp[s]
            BY <1>1, <3>1 DEF Trees
        <3> QED
            BY <1>3, <3>1, <3>2
    <2> QED
        BY <1>5, <2>2, <2>3, <2>4, <2>5, <2>6
        DEF ScriptStep, CloneTest, Parse, PrintCommit, EnvTest, EnvWrite, EnvWritten, EnvStat,
            ComposeTest, ComposeUp, ComposeDown, Fails, files
<1>6. CASE VmStops
    <2>1. tree' = [tree EXCEPT !.by = None]
        BY <1>1, <1>6 DEF VmStops
    <2>2. tree' \in Trees /\ tree'.env = tree.env
        BY <1>1, <2>1 DEF Trees
    <2> QED
        BY <1>3, <2>2
<1> QED
    BY <1>4, <1>5, <1>6
    DEF GuestNext, AskProject, Ask, AskLogin, AskEditor, AnyAnswer, Answer, AnyLost, NoAnswer, Runs,
        AtGithub, Systemd, GuestStops, GuestCrash, AgentCrash, files, all, vars

\* While no clone runs that has met another one, a whole work tree stays, and
\* so does its .env: only a clone that has found no work tree removes one.
THEOREM ClonesKeepProject == GuestSpec => CloneKeepsProject
<1>1. GuestInv /\ [GuestNext]_all =>
          [Whole(tree) /\ (\A s \in Slots : Cloning(s) => script[s].alone) =>
             tree' # None /\ (tree.env # None => tree'.env # None)]_vars
    BY CloneKeeps
<1> QED
    BY <1>1, AlwaysHolds, PTL DEF GuestSpec, CloneKeepsProject

\* An answer of ok is about a script that has ended well, and a clone that has
\* met no other one has then read the commit of its own branch.
THEOREM OkIsTrue == GuestSpec => OkMeansDone
<1>1. ASSUME GuestInv, NEW t \in Threads, Reply(t, TRUE)
      PROVE  LET s == script[waits[t]] IN
             /\ s.kind \notin Unchecked => s.at = "ok"
             /\ s.kind = "clone" /\ s.alone => s.saw = <<s.arg>>
    <2>1. "clone" \notin Unchecked
        BY DEF Unchecked
    <2> QED
        BY <1>1, <2>1, WaitedFor DEF GuestInv, ProjectInv, Cloned, Is
<1>2. GuestInv => \A t \in Threads : Reply(t, TRUE) =>
          LET s == script[waits[t]] IN
          /\ s.kind \notin Unchecked => s.at = "ok"
          /\ s.kind = "clone" /\ s.alone => s.saw = <<s.arg>>
    BY <1>1
<1> QED
    BY <1>2, AlwaysHolds, PTL DEF OkMeansDone

\* A poll that answers completed, and has met no other login or logout, has logged
\* in the account it got the token of.
THEOREM PollsLogIn == GuestSpec => CompletedLogsIn
<1>1. ASSUME GuestInv, NEW t \in Threads, A!Reply(t, TRUE),
             script[waits[t]].kind = "login", script[waits[t]].alone
      PROVE  LET s == script[waits[t]] IN
             /\ auth = [token |-> s.arg, name |-> s.arg, email |-> s.arg]
             /\ s.saw = <<s.arg, s.arg, s.arg>>
    <2> SUFFICES ASSUME NEW p, p = waits[t], NEW s, s = script[p]
        PROVE  /\ auth = [token |-> s.arg, name |-> s.arg, email |-> s.arg]
               /\ s.saw = <<s.arg, s.arg, s.arg>>
        OBVIOUS
    <2>1. p \in Slots /\ s # None /\ s.at = "ok"
        BY <1>1, WaitedFor, SameLogin DEF Unchecked
    <2>2. LoggedIn(p) /\ LoginRead(p) /\ A!LoginTypeOK
        BY <1>1, <2>1 DEF GuestInv, LoginInv
    <2>3. /\ auth.token = s.arg /\ auth.name = s.arg /\ auth.email = s.arg
          /\ Len(s.saw) = 3 /\ \A i \in 1..3 : s.saw[i] = s.arg
        BY <1>1, <2>1, <2>2 DEF LoggedIn, LoginRead, Is
    <2>4. auth = [token |-> s.arg, name |-> s.arg, email |-> s.arg]
        BY <2>2, <2>3 DEF A!LoginTypeOK
    <2>5. s.saw \in UNION {[1..n -> Accounts] : n \in 0..3}
        <3>1. s \in AllScripts
            BY <1>1, <2>1 DEF GuestInv, Exec, Typed
        <3> QED
            BY <1>1, <3>1, ScriptFields DEF Saws, ProjectKinds, LoginKinds
    <2>6. s.saw = <<s.arg, s.arg, s.arg>>
        BY <2>3, <2>5
    <2> QED
        BY <2>4, <2>6
<1>2. GuestInv => \A t \in Threads : A!Reply(t, TRUE) =>
          LET s == script[waits[t]] IN
          s.kind = "login" /\ s.alone =>
              /\ auth = [token |-> s.arg, name |-> s.arg, email |-> s.arg]
              /\ s.saw = <<s.arg, s.arg, s.arg>>
    BY <1>1
<1> QED
    BY <1>2, AlwaysHolds, PTL DEF CompletedLogsIn, A!CompletedLogsIn

\* An install that is answered with installed, and has met no other request
\* about the editor, has left the whole of the server, or has found a BIN and
\* left that as it was: behind a tar that failed its own test of BIN is not
\* reached.
THEOREM InstallsWhole == GuestSpec => InstalledWhole
<1>1. GuestInv => \A t \in Threads : E!Reply(t, TRUE) =>
          LET s == script[waits[t]] IN
          s.kind = "install" /\ s.alone =>
              bin = "whole" \/ (bin = "part" /\ s.saw = <<"part">>)
    BY WaitedFor, SameEditor DEF GuestInv, EditorInv, Installed, Is, Unchecked
<1> QED
    BY <1>1, AlwaysHolds, PTL DEF InstalledWhole, E!InstalledWhole

\* A configure that is answered with ok, and has met no other request about
\* the editor, leaves no server that runs with anything but its port and token,
\* if it leaves one that runs.
THEOREM ConfiguresRun == GuestSpec => ConfiguredRuns
<1>1. GuestInv => \A t \in Threads : E!Reply(t, TRUE) =>
          LET s == script[waits[t]] IN
          s.kind = "configure" /\ s.alone =>
              server \in {None, [token |-> s.arg, unit |-> s.arg]}
    BY WaitedFor, SameEditor DEF GuestInv, EditorInv, Configured, Is, Unchecked
<1> QED
    BY <1>1, AlwaysHolds, PTL DEF ConfiguredRuns, E!ConfiguredRuns
=============================================================================
