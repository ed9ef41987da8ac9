-------------------------- MODULE CaddyModeProofs --------------------------
(***************************************************************************)
(* Proofs about CaddyMode, for any set of servers beside srv0.  That an    *)
(* undisturbed call sets the mode is proved for configurations whose       *)
(* automatic_https is absent or disabled.                                  *)
(***************************************************************************)
EXTENDS CaddyMode, TLAPS

-----------------------------------------------------------------------------
(* Types *)

LEMMA WantedPorts == \A p \in BOOLEAN : Wanted(p) \in SUBSET Ports
BY DEF Wanted, Ports

LEMMA BlockingOthers == \A p : Blocking(p) \in SUBSET Others
BY DEF Blocking

LEMMA InitTyped == Init => TypeOK
BY DEF Init, TypeOK, Workers

\* The end of a call only touches the workers.
LEMMA ReturnTyped ==
    ASSUME TypeOK, NEW w \in Workers, Return(w), UNCHANGED <<public, calm, caddy>>
    PROVE  TypeOK'
<1> USE DEF TypeOK, Return, Workers, caddy
<1>1. pc' \in [Workers -> {"off", "idle", "read", "https", "enable", "disable",
                           "tls", "untls", "ports", "end"}]
    <2>1. CASE w = "hook"
        BY <2>1
    <2>2. CASE w = "startup"
        BY <2>2
    <2>3. CASE w = "loop"
        BY <2>3
    <2> QED
        BY <2>1, <2>2, <2>3
<1>2. ~Clash(listen', other')
    BY DEF Clash
<1> QED
    BY <1>1, <1>2

\* Requests that only read.
LEMMA AskTyped ==
    ASSUME TypeOK, NEW w \in Workers,
           Fetch(w) \/ Read(w) \/ ReadHttps(w) \/ ReadTls(w)
    PROVE  TypeOK'
<1> USE DEF TypeOK, caddy, locals, GoTo, ToPorts, PassedOver
<1>0. UNCHANGED <<listen, other>> => ~Clash(listen', other')
    BY DEF Clash
<1>1. CASE Fetch(w)
    BY <1>0, <1>1 DEF Fetch
<1>2. CASE Read(w)
    <2>1. (IF listen # Wanted(want[w]) THEN Blocking(want[w]) ELSE {}) \in SUBSET Others
        BY BlockingOthers
    <2> QED
        BY <1>0, <1>2, <2>1 DEF Read
<1>3. CASE ReadHttps(w)
    <2>1. PICK disabled \in BOOLEAN :
              /\ \/ disabled = (https = "disabled") /\ UNCHANGED alone
                 \/ ~disabled /\ PassedOver(w)
              /\ IF want[w]
                   THEN IF disabled THEN GoTo(w, "enable") ELSE ToPorts(w)
                   ELSE GoTo(w, IF disabled THEN "tls" ELSE "disable")
        BY <1>3 DEF ReadHttps
    <2>2. UNCHANGED <<public, calm, caddy, locals>>
        BY <1>3 DEF ReadHttps
    <2> QED
        BY <1>0, <2>1, <2>2
<1>4. CASE ReadTls(w)
    BY <1>0, <1>4 DEF ReadTls
<1> QED
    BY <1>1, <1>2, <1>3, <1>4

\* Requests that change the settings for certificates.
LEMMA SetTyped ==
    ASSUME TypeOK, NEW w \in Workers, Enable(w) \/ Disable(w) \/ Untls(w)
    PROVE  TypeOK'
<1> USE DEF TypeOK, locals, GoTo, ToPorts, PassedOver
<1>0. UNCHANGED <<listen, other>> => ~Clash(listen', other')
    BY DEF Clash
<1>1. CASE Enable(w)
    BY <1>0, <1>1 DEF Enable
<1>2. CASE Disable(w)
    BY <1>0, <1>2 DEF Disable
<1>3. CASE Untls(w)
    BY <1>0, <1>3 DEF Untls
<1> QED
    BY <1>1, <1>2, <1>3

\* Requests that change who listens where.
LEMMA PortsTyped ==
    ASSUME TypeOK, NEW w \in Workers, Free(w) \/ Listen(w)
    PROVE  TypeOK'
<1> USE DEF TypeOK, locals, GoTo, PassedOver
<1>1. CASE Free(w)
    <2>1. PICK o \in blocking[w] :
              /\ blocking' = [blocking EXCEPT ![w] = @ \ {o}]
              /\ \/ other' = [other EXCEPT ![o] = {}] /\ UNCHANGED alone
                 \/ PassedOver(w) /\ UNCHANGED other
        BY <1>1 DEF Free
    <2>2. \A q \in Others : other'[q] \subseteq other[q]
        BY <2>1
    <2>3. ~Clash(listen', other')
        BY <1>1, <2>2 DEF Free, Clash
    <2> QED
        BY <1>1, <2>1, <2>3 DEF Free
<1>2. CASE Listen(w)
    <2>1. Wanted(want[w]) \in SUBSET Ports
        BY WantedPorts
    <2>2. ~Clash(listen', other')
        BY <1>2 DEF Listen, Clash
    <2> QED
        BY <1>2, <2>1, <2>2 DEF Listen
<1> QED
    BY <1>1, <1>2

LEMMA OutsideTyped ==
    ASSUME TypeOK, PanelChange \/ CaddyReload \/ AgentRestart \/ Settle
    PROVE  TypeOK'
<1> USE DEF TypeOK, caddy, locals
<1>0. UNCHANGED <<listen, other>> => ~Clash(listen', other')
    BY DEF Clash
<1>1. CASE PanelChange
    BY <1>0, <1>1 DEF PanelChange
<1>2. CASE CaddyReload
    BY <1>2 DEF CaddyReload, Loaded, Clash
<1>3. CASE AgentRestart
    BY <1>0, <1>3 DEF AgentRestart
<1>4. CASE Settle
    BY <1>0, <1>4 DEF Settle
<1> QED
    BY <1>1, <1>2, <1>3, <1>4

LEMMA StepTyped == TypeOK /\ [Next]_vars => TypeOK'
<1> SUFFICES ASSUME TypeOK, [Next]_vars PROVE TypeOK'
    OBVIOUS
<1>1. ASSUME NEW w \in Workers, Pass(w) PROVE TypeOK'
    <2>1. CASE End(w) \/ Fail(w)
        BY <2>1, ReturnTyped DEF End, Fail
    <2> QED
        BY <1>1, <2>1, AskTyped, SetTyped, PortsTyped DEF Pass
<1>2. CASE UNCHANGED vars
    BY <1>2 DEF vars, caddy, locals, TypeOK, Clash
<1> QED
    BY <1>1, <1>2, OutsideTyped DEF Next

\* Every variable keeps its type; srv0 is never one of the servers that
\* _free_listeners deletes, and Caddy's servers never clash.
THEOREM TypeCorrect == Spec => []TypeOK
BY InitTyped, StepTyped, PTL DEF Spec

-----------------------------------------------------------------------------
(* What a call that is undisturbed has achieved so far *)

\* The hook starts the other two when it ends.
HookFirst == pc["hook"] # "off" => \A u \in Workers \ {"hook"} : pc[u] = "off"

\* Nobody else is in the middle of a call.
Only(w) == Calling(w) /\ \A u \in Workers \ {w} : ~Calling(u)

\* The certificates are as the call wants them, or about to be made so.
Certificates(w) ==
    /\ pc[w] = "enable" => want[w]
    /\ pc[w] = "disable" => ~want[w] /\ https = "absent"
    /\ pc[w] \in {"tls", "untls"} => ~want[w] /\ https = "disabled"
    /\ pc[w] \in {"ports", "end"} =>
           (https = "disabled" <=> ~want[w]) /\ (onDemand => want[w])

\* The ports are as the call wants them, or nobody but those that it will
\* delete holds them.
Listeners(w) ==
    /\ pc[w] = "ports" => fix[w]
    /\ ~fix[w] \/ pc[w] = "end" => listen = Wanted(want[w])
    /\ pc[w] # "end" => \A o \in Others \ blocking[w] :
           fix[w] => other[o] \cap Wanted(want[w]) = {}

Path(w) == alone[w] => Only(w) /\ Certificates(w) /\ Listeners(w)

Plain == "custom" \notin Found

IInv == TypeOK /\ HookFirst /\ \A w \in Workers : Path(w)

LEMMA InitHolds == Init => IInv
BY InitTyped DEF Init, IInv, HookFirst, Path, Workers

\* While one worker is in its call no other one is undisturbed.
LEMMA OthersDisturbed ==
    ASSUME IInv, NEW w \in Workers, Calling(w), NEW v \in Workers \ {w}
    PROVE  ~alone[v]
BY DEF IInv, Path, Only

LEMMA PlainHttps ==
    ASSUME IInv, Plain
    PROVE  https \in {"absent", "disabled"}
BY ModeAssumption DEF IInv, TypeOK, Plain

\* A worker's step inside its call leaves Path to be shown for itself.
LEMMA OwnStep ==
    ASSUME IInv, TypeOK', NEW w \in Workers, Calling(w),
           \A u \in Workers \ {w} : pc'[u] = pc[u],
           \A u \in Workers \ {w} : alone'[u] = alone[u],
           pc'[w] \notin {"off", "idle", "read"},
           alone'[w] => alone[w] /\ Certificates(w)' /\ Listeners(w)'
    PROVE  IInv'
<1>1. HookFirst'
    BY DEF IInv, HookFirst, Calling, Workers
<1>2. Path(w)'
    BY DEF IInv, Path, Only, Calling
<1>3. ASSUME NEW v \in Workers \ {w} PROVE Path(v)'
    BY <1>3, OthersDisturbed DEF Path
<1> QED
    BY <1>1, <1>2, <1>3 DEF IInv

\* The end of a call, in which whoever else is in a call goes on with it.
LEMMA ReturnHolds ==
    ASSUME IInv, NEW w \in Workers, pc[w] # "off", Return(w),
           UNCHANGED <<public, calm, caddy>>
    PROVE  IInv'
<1> USE DEF Workers, Calling
<1>1. TypeOK'
    BY ReturnTyped DEF IInv
<1>2. HookFirst'
    BY DEF IInv, TypeOK, HookFirst, Return
<1>3. ASSUME NEW v \in Workers PROVE Path(v)'
    <2>1. CASE v = w
        BY <2>1 DEF IInv, TypeOK, Path, Return
    <2>2. CASE v # w /\ w = "hook"
        BY <2>2 DEF IInv, TypeOK, HookFirst, Path, Only, Return
    <2>3. CASE v # w /\ w # "hook"
        <3>1. \A u \in Workers \ {w} : pc'[u] = pc[u]
            BY <2>3 DEF IInv, TypeOK, Return
        <3>2. pc'[w] \in {"off", "idle"}
            BY <2>3 DEF IInv, TypeOK, Return
        <3>3. /\ alone'[v] = alone[v] /\ want'[v] = want[v] /\ fix'[v] = fix[v]
              /\ blocking'[v] = blocking[v]
            BY <2>3 DEF IInv, TypeOK, Return
        <3> QED
            BY <2>3, <3>1, <3>2, <3>3
            DEF IInv, Path, Only, Certificates, Listeners, caddy
    <2> QED
        BY <2>1, <2>2, <2>3
<1> QED
    BY <1>1, <1>2, <1>3 DEF IInv

LEMMA FetchHolds ==
    ASSUME IInv, NEW w \in Workers, Fetch(w)
    PROVE  IInv'
<1> USE DEF Fetch, GoTo, Calling
<1>1. TypeOK'
    BY AskTyped DEF IInv
<1>2. HookFirst'
    BY DEF IInv, TypeOK, HookFirst, Workers
<1>3. ASSUME NEW v \in Workers PROVE Path(v)'
    <2>1. CASE v = w
        BY <2>1 DEF IInv, TypeOK, Path, Only
    <2>2. CASE v # w
        <3>1. want'[v] = want[v] /\ pc'[v] = pc[v] /\ pc'[w] = "read"
            BY <2>2 DEF IInv, TypeOK
        <3>2. \A u \in Workers \ {w} : pc'[u] = pc[u]
            BY DEF IInv, TypeOK
        <3> QED
            BY <2>2, <3>1, <3>2 DEF IInv, Path, Only, Certificates, Listeners, caddy
    <2> QED
        BY <2>1, <2>2
<1> QED
    BY <1>1, <1>2, <1>3 DEF IInv

LEMMA ReadHolds ==
    ASSUME IInv, NEW w \in Workers, Read(w)
    PROVE  IInv'
<1> USE DEF Read, GoTo, Calling, caddy
<1>1. TypeOK'
    BY AskTyped DEF IInv
<1>2. HookFirst'
    BY DEF IInv, TypeOK, HookFirst, Workers
<1>3. ASSUME NEW v \in Workers PROVE Path(v)'
    <2>1. CASE alone'[v]
        <3>1. v = w /\ \A u \in Workers : ~Calling(u)
            BY <2>1
        <3>2. Only(w)'
            BY <3>1 DEF IInv, TypeOK, Only
        <3>3. Certificates(w)'
            BY DEF IInv, TypeOK, Certificates
        <3>4. fix'[w] = (listen # Wanted(want[w])) /\ pc'[w] = "https"
            BY DEF IInv, TypeOK
        <3>5. blocking'[w] = IF listen # Wanted(want[w]) THEN Blocking(want[w]) ELSE {}
            BY DEF IInv, TypeOK
        <3>6. ASSUME NEW o \in Others \ blocking'[w], fix'[w]
              PROVE  other'[o] \cap Wanted(want'[w]) = {}
            <4>1. o \notin Blocking(want[w])
                BY <3>4, <3>5, <3>6
            <4> QED
                BY <3>6, <4>1 DEF Blocking
        <3>7. Listeners(w)'
            BY <3>4, <3>6 DEF Listeners
        <3> QED
            BY <3>1, <3>2, <3>3, <3>7 DEF Path
    <2>2. CASE ~alone'[v]
        BY <2>2 DEF Path
    <2> QED
        BY <2>1, <2>2
<1> QED
    BY <1>1, <1>2, <1>3 DEF IInv

-----------------------------------------------------------------------------
(* The requests of a call *)

LEMMA ReadHttpsHolds ==
    ASSUME IInv, Plain, NEW w \in Workers, ReadHttps(w)
    PROVE  IInv'
<1> USE DEF GoTo, ToPorts, caddy, locals
<1>1. TypeOK'
    BY AskTyped DEF IInv
<1>2. PICK disabled \in BOOLEAN :
          /\ \/ disabled = (https = "disabled") /\ UNCHANGED alone
             \/ ~disabled /\ PassedOver(w)
          /\ IF want[w]
               THEN IF disabled THEN GoTo(w, "enable") ELSE ToPorts(w)
               ELSE GoTo(w, IF disabled THEN "tls" ELSE "disable")
    BY DEF ReadHttps
<1>3. pc[w] = "https" /\ UNCHANGED <<public, calm, caddy, locals>>
    BY DEF ReadHttps
<1>4. /\ \A u \in Workers \ {w} : pc'[u] = pc[u]
      /\ pc'[w] = IF want[w]
                   THEN IF disabled THEN "enable" ELSE IF fix[w] THEN "ports" ELSE "end"
                   ELSE IF disabled THEN "tls" ELSE "disable"
    BY <1>2 DEF IInv, TypeOK
<1>5. \A u \in Workers \ {w} : alone'[u] = alone[u]
    BY <1>2 DEF IInv, TypeOK, PassedOver
<1>6. ASSUME alone'[w]
      PROVE  alone[w] /\ Certificates(w)' /\ Listeners(w)'
    <2>1. alone[w] /\ disabled = (https = "disabled")
        BY <1>2, <1>6 DEF IInv, TypeOK, PassedOver
    <2>2. Certificates(w)'
        BY <1>3, <1>4, <2>1, PlainHttps DEF IInv, TypeOK, Certificates
    <2>3. Listeners(w)'
        BY <1>3, <1>4, <2>1 DEF IInv, Path, Listeners
    <2> QED
        BY <2>1, <2>2, <2>3
<1> QED
    BY <1>1, <1>3, <1>4, <1>5, <1>6, OwnStep DEF Calling

\* The three requests that change the settings for certificates.
LEMMA EnableHolds ==
    ASSUME IInv, NEW w \in Workers, Enable(w)
    PROVE  IInv'
<1> USE DEF Enable, GoTo, ToPorts, locals
<1>1. TypeOK'
    BY SetTyped DEF IInv
<1>2. /\ \A u \in Workers \ {w} : pc'[u] = pc[u]
      /\ pc'[w] = IF fix[w] THEN "ports" ELSE "end"
    BY DEF IInv, TypeOK
<1>3. \A u \in Workers \ {w} : alone'[u] = alone[u]
    BY DEF IInv, TypeOK, PassedOver
<1>4. ASSUME alone'[w]
      PROVE  alone[w] /\ Certificates(w)' /\ Listeners(w)'
    <2>1. alone[w] /\ https' = "absent"
        BY <1>4 DEF IInv, TypeOK, PassedOver
    <2>2. Certificates(w) /\ Listeners(w)
        BY <2>1 DEF IInv, Path
    <2> QED
        BY <1>2, <2>1, <2>2 DEF Certificates, Listeners
<1> QED
    BY <1>1, <1>2, <1>3, <1>4, OwnStep DEF Calling

LEMMA DisableHolds ==
    ASSUME IInv, NEW w \in Workers, Disable(w)
    PROVE  IInv'
<1> USE DEF Disable, GoTo, locals
<1>1. TypeOK'
    BY SetTyped DEF IInv
<1>2. /\ \A u \in Workers \ {w} : pc'[u] = pc[u]
      /\ pc'[w] = "tls"
    BY DEF IInv, TypeOK
<1>3. \A u \in Workers \ {w} : alone'[u] = alone[u]
    BY DEF IInv, TypeOK, PassedOver
<1>4. ASSUME alone'[w]
      PROVE  alone[w] /\ Certificates(w)' /\ Listeners(w)'
    <2>1. alone[w] /\ https' = IF https = "absent" THEN "disabled" ELSE https
        BY <1>4 DEF IInv, TypeOK, PassedOver
    <2>2. Certificates(w) /\ Listeners(w)
        BY <2>1 DEF IInv, Path
    <2> QED
        BY <1>2, <2>1, <2>2 DEF Certificates, Listeners
<1> QED
    BY <1>1, <1>2, <1>3, <1>4, OwnStep DEF Calling

LEMMA TlsHolds ==
    ASSUME IInv, NEW w \in Workers, ReadTls(w) \/ Untls(w)
    PROVE  IInv'
<1> USE DEF ReadTls, Untls, GoTo, ToPorts, caddy, locals
<1>1. TypeOK'
    BY AskTyped, SetTyped DEF IInv
<1>2. /\ \A u \in Workers \ {w} : pc'[u] = pc[u]
      /\ pc'[w] \in {"untls", IF fix[w] THEN "ports" ELSE "end"}
    BY DEF IInv, TypeOK
<1>3. \A u \in Workers \ {w} : alone'[u] = alone[u]
    BY DEF IInv, TypeOK, PassedOver
<1>4. ASSUME alone'[w]
      PROVE  alone[w] /\ Certificates(w)' /\ Listeners(w)'
    <2>1. alone[w] /\ (pc'[w] = "untls" \/ ~onDemand')
        BY <1>2, <1>4 DEF IInv, TypeOK, PassedOver
    <2>2. Certificates(w) /\ Listeners(w)
        BY <2>1 DEF IInv, Path
    <2>3. Certificates(w)'
        BY <1>2, <2>1, <2>2 DEF Certificates
    <2>4. Listeners(w)'
        BY <1>2, <2>2 DEF Listeners
    <2> QED
        BY <2>1, <2>3, <2>4
<1> QED
    BY <1>1, <1>2, <1>3, <1>4, OwnStep DEF Calling

LEMMA FreeHolds ==
    ASSUME IInv, NEW w \in Workers, Free(w)
    PROVE  IInv'
<1>1. TypeOK'
    BY PortsTyped DEF IInv
<1>2. PICK o \in blocking[w] :
          /\ blocking' = [blocking EXCEPT ![w] = @ \ {o}]
          /\ \/ other' = [other EXCEPT ![o] = {}] /\ UNCHANGED alone
             \/ PassedOver(w) /\ UNCHANGED other
    BY DEF Free
<1>3. pc[w] = "ports" /\ UNCHANGED <<public, calm, listen, https, onDemand, pc, want, fix>>
    BY DEF Free
<1>4. \A u \in Workers \ {w} : alone'[u] = alone[u]
    BY <1>2 DEF IInv, TypeOK, PassedOver
<1>5. ASSUME alone'[w]
      PROVE  alone[w] /\ Certificates(w)' /\ Listeners(w)'
    <2>1. alone[w] /\ other' = [other EXCEPT ![o] = {}]
        BY <1>2, <1>5 DEF IInv, TypeOK, PassedOver
    <2>2. Certificates(w) /\ Listeners(w)
        BY <2>1 DEF IInv, Path
    <2>3. blocking'[w] = blocking[w] \ {o}
        BY <1>2 DEF IInv, TypeOK
    <2>4. ASSUME NEW q \in Others \ blocking'[w]
          PROVE  other'[q] = {} \/ (q \notin blocking[w] /\ other'[q] = other[q])
        BY <2>1, <2>3 DEF IInv, TypeOK
    <2>5. Listeners(w)'
        BY <1>3, <2>2, <2>4 DEF Listeners
    <2> QED
        BY <1>3, <2>1, <2>2, <2>5 DEF Certificates
<1> QED
    BY <1>1, <1>3, <1>4, <1>5, OwnStep DEF Calling

LEMMA ListenHolds ==
    ASSUME IInv, NEW w \in Workers, Listen(w)
    PROVE  IInv'
<1> USE DEF Listen, GoTo, locals
<1>1. TypeOK'
    BY PortsTyped DEF IInv
<1>2. /\ \A u \in Workers \ {w} : pc'[u] = pc[u]
      /\ pc'[w] = "end"
    BY DEF IInv, TypeOK
<1>3. \A u \in Workers \ {w} : alone'[u] = alone[u]
    BY DEF IInv, TypeOK, PassedOver
<1>4. ASSUME alone'[w]
      PROVE  alone[w] /\ Certificates(w)' /\ Listeners(w)'
    <2>1. /\ alone[w]
          /\ listen' = IF Clash(Wanted(want[w]), other) THEN listen ELSE Wanted(want[w])
        BY <1>4 DEF IInv, TypeOK, PassedOver
    <2>2. Certificates(w) /\ Listeners(w)
        BY <2>1 DEF IInv, Path
    <2>3. \A o \in Others : other[o] \cap Wanted(want[w]) = {}
        BY <2>2 DEF Listeners
    <2>4. ~Clash(Wanted(want[w]), other)
        BY <2>3 DEF IInv, TypeOK, Clash
    <2> QED
        BY <1>2, <2>1, <2>2, <2>4 DEF Certificates, Listeners
<1> QED
    BY <1>1, <1>2, <1>3, <1>4, OwnStep DEF Calling

LEMMA OutsideHolds ==
    ASSUME IInv, PanelChange \/ CaddyReload \/ AgentRestart \/ Settle \/ UNCHANGED vars
    PROVE  IInv'
<1> USE DEF caddy, locals
<1>1. TypeOK'
    BY StepTyped DEF IInv, Next
<1>2. CASE PanelChange \/ Settle \/ UNCHANGED vars
    <2>1. UNCHANGED <<listen, https, onDemand, other, pc, want, fix, blocking, alone>>
        BY <1>2 DEF PanelChange, Settle, vars
    <2> QED
        BY <1>1, <2>1
        DEF IInv, HookFirst, Path, Only, Calling, Certificates, Listeners
<1>3. CASE CaddyReload \/ AgentRestart
    <2>1. \A v \in Workers : ~alone'[v]
        BY <1>3 DEF CaddyReload, AgentRestart
    <2>2. HookFirst'
        BY <1>3 DEF IInv, TypeOK, HookFirst, CaddyReload, AgentRestart, Workers
    <2> QED
        BY <1>1, <2>1, <2>2 DEF IInv, Path
<1> QED
    BY <1>2, <1>3

LEMMA StepHolds == Plain /\ IInv /\ [Next]_vars => IInv'
<1> SUFFICES ASSUME Plain, IInv, [Next]_vars PROVE IInv'
    OBVIOUS
<1>1. ASSUME NEW w \in Workers, Pass(w) PROVE IInv'
    <2>1. CASE End(w) \/ Fail(w)
        BY <2>1, ReturnHolds DEF End, Fail
    <2> QED
        BY <1>1, <2>1, FetchHolds, ReadHolds, ReadHttpsHolds, EnableHolds, DisableHolds,
           TlsHolds, FreeHolds, ListenHolds DEF Pass
<1> QED
    BY <1>1, OutsideHolds DEF Next

-----------------------------------------------------------------------------
(* The two action properties *)

LEMMA EndInMode ==
    ASSUME IInv, NEW w \in Workers, End(w), alone[w]
    PROVE  InMode(want[w])
BY DEF IInv, TypeOK, Path, Certificates, Listeners, InMode, End

LEMMA ListenSecured ==
    ASSUME IInv, NEW w \in Workers, Listen(w), want[w], alone[w]
    PROVE  https # "disabled"
BY DEF IInv, TypeOK, Path, Certificates, Listen

\* A call of configure_caddy_mode that nothing disturbs sets the whole mode,
\* whatever the configuration it met, unless the file has an automatic_https
\* of another form.
THEOREM UndisturbedSets ==
    ASSUME Plain
    PROVE  Spec => AloneSets
<1>1. IInv /\ [Next]_vars =>
          [\A w \in Workers : End(w) /\ alone[w] => InMode(want[w])]_vars
    BY EndInMode
<1>2. IInv /\ [Next]_vars => IInv'
    BY StepHolds
<1> QED
    BY <1>1, <1>2, InitHolds, PTL DEF Spec, AloneSets

\* Under the same condition it opens :443 only when certificates are on.
THEOREM SecuredFirst ==
    ASSUME Plain
    PROVE  Spec => OpensSecured
<1>1. IInv /\ [Next]_vars =>
          [\A w \in Workers : Listen(w) /\ want[w] /\ alone[w] => https # "disabled"]_vars
    BY ListenSecured
<1>2. IInv /\ [Next]_vars => IInv'
    BY StepHolds
<1> QED
    BY <1>1, <1>2, InitHolds, PTL DEF Spec, OpensSecured
=============================================================================
