----------------------------- MODULE CaddyMode -----------------------------
(***************************************************************************)
(* The mode of Caddy: a public host listens on :80 and :443 and gets its   *)
(* own certificates, an edge host listens on :80 behind somebody else's.   *)
(* configure_caddy_mode sets it, and three threads call it: the start-up   *)
(* hook (always for edge), then the start-up pass and the loop, which do   *)
(* not wait for each other and each go by an answer of the panel.          *)
(*                                                                         *)
(* One action is one request to Caddy's admin API with the computation     *)
(* that follows.  No status but that of the first read is looked at: a     *)
(* request that is refused is passed over.  A request that is lost raises  *)
(* an exception and ends the call.                                         *)
(***************************************************************************)
EXTENDS Naturals

CONSTANTS
    Others,   \* servers of Caddy beside srv0
    Found     \* forms of automatic_https that a configuration file may have

ASSUME ModeAssumption == Found \subseteq {"absent", "disabled", "custom"}

VARIABLES
    public,    \* what the panel would answer now: public_ingress
    calm,      \* the outside world has stopped disturbing the agent
    listen,    \* Caddy: the ports srv0 listens on
    https,     \* Caddy: automatic_https of srv0
    onDemand,  \* Caddy: tls/automation has on_demand
    other,     \* Caddy: the ports each other server listens on; none if absent
    pc,        \* where each worker is in configure_caddy_mode
    want,      \* its argument, per worker
    fix,       \* the worker has found that the ports of srv0 are others
    blocking,  \* servers that the worker has still to delete
    alone      \* history: nothing has disturbed the worker's call so far

caddy  == <<listen, https, onDemand, other>>
locals == <<want, fix, blocking>>
vars   == <<public, calm, caddy, pc, locals, alone>>

-----------------------------------------------------------------------------
Workers == {"hook", "startup", "loop"}
Ports   == {80, 443}

Wanted(p) == IF p THEN Ports ELSE {80}

\* Caddy refuses a configuration in which two servers claim one port.
Clash(ports, servers) ==
    \/ \E o \in Others : servers[o] \cap ports # {}
    \/ \E o, q \in Others : o # q /\ servers[o] \cap servers[q] # {}

\* Any configuration that Caddy accepts.
Loaded ==
    /\ listen' \in SUBSET Ports
    /\ https' \in Found
    /\ onDemand' \in BOOLEAN
    /\ other' \in [Others -> SUBSET Ports]
    /\ ~Clash(listen', other')

Init ==
    /\ public \in BOOLEAN
    /\ calm = FALSE
    /\ listen \in SUBSET Ports
    /\ https \in Found
    /\ onDemand \in BOOLEAN
    /\ other \in [Others -> SUBSET Ports]
    /\ ~Clash(listen, other)
    /\ pc = [w \in Workers |-> IF w = "hook" THEN "read" ELSE "off"]
    /\ want = [w \in Workers |-> FALSE]
    /\ fix = [w \in Workers |-> FALSE]
    /\ blocking = [w \in Workers |-> {}]
    /\ alone = [w \in Workers |-> FALSE]

GoTo(w, label) == pc' = [pc EXCEPT ![w] = label]
Calling(w)     == pc[w] \notin {"idle", "off", "read"}

\* A request that is refused, or whose answer reads as nothing, is passed over.
PassedOver(w) == ~calm /\ alone' = [alone EXCEPT ![w] = FALSE]

-----------------------------------------------------------------------------
(* reconcile_once up to configure_caddy_mode *)

\* bool(panel_state.get('public_ingress')): an answer that is no JSON object or
\* lacks the field is one for edge.
Fetch(w) ==
    /\ pc[w] = "idle"
    /\ \E p \in {public} \cup (IF calm THEN {} ELSE {FALSE}) :
         want' = [want EXCEPT ![w] = p]
    /\ GoTo(w, "read")
    /\ UNCHANGED <<public, calm, caddy, fix, blocking, alone>>

-----------------------------------------------------------------------------
(* configure_caddy_mode *)

\* The call has ended.  The hook starts the two tasks; the start-up pass is
\* not repeated, the loop comes back.
Return(w) ==
    /\ pc' = CASE w = "hook"    -> [v \in Workers |-> IF v = "hook" THEN "off" ELSE "idle"]
               [] w = "startup" -> [pc EXCEPT ![w] = "off"]
               [] w = "loop"    -> [pc EXCEPT ![w] = "idle"]
    /\ want' = [want EXCEPT ![w] = FALSE]
    /\ fix' = [fix EXCEPT ![w] = FALSE]
    /\ blocking' = [blocking EXCEPT ![w] = {}]
    /\ alone' = [alone EXCEPT ![w] = FALSE]

\* Mutant of Blocking: the servers that are in the way are left.
BlockingNone(p) == {}

\* Mutant of Blocking: srv0 itself is not left out.
BlockingKept(p) ==
    {o \in Others : other[o] \cap Wanted(p) # {}} \cup
    (IF listen \cap Wanted(p) # {} THEN {"srv0"} ELSE {})

\* _free_listeners: the servers but srv0 that hold one of the ports.
Blocking(p) == {o \in Others : other[o] \cap Wanted(p) # {}}

\* Mutant of Read: where the ports are right the rest is not looked at.
ReadPortsOnly(w) ==
    /\ pc[w] = "read"
    /\ fix' = [fix EXCEPT ![w] = listen # Wanted(want[w])]
    /\ blocking' = [blocking EXCEPT ![w] =
                       IF listen # Wanted(want[w]) THEN Blocking(want[w]) ELSE {}]
    /\ GoTo(w, IF listen # Wanted(want[w]) THEN "https" ELSE "end")
    /\ alone' = [v \in Workers |-> v = w /\ \A u \in Workers : ~Calling(u)]
    /\ UNCHANGED <<public, calm, caddy, want>>

\* GET of all servers.  What has to be done to the ports is decided by this
\* answer, several requests before it is done.
Read(w) ==
    /\ pc[w] = "read"
    /\ fix' = [fix EXCEPT ![w] = listen # Wanted(want[w])]
    /\ blocking' = [blocking EXCEPT ![w] =
                       IF listen # Wanted(want[w]) THEN Blocking(want[w]) ELSE {}]
    /\ GoTo(w, "https")
    /\ alone' = [v \in Workers |-> v = w /\ \A u \in Workers : ~Calling(u)]
    /\ UNCHANGED <<public, calm, caddy, want>>

\* After the settings for certificates come the ports.
ToPorts(w) == GoTo(w, IF fix[w] THEN "ports" ELSE "end")

\* GET of automatic_https.  In both modes it is written only if it differs.
ReadHttps(w) ==
    /\ pc[w] = "https"
    /\ \E disabled \in BOOLEAN :
         /\ \/ disabled = (https = "disabled") /\ UNCHANGED alone
            \/ ~disabled /\ PassedOver(w)
         /\ IF want[w]
              THEN IF disabled THEN GoTo(w, "enable") ELSE ToPorts(w)
              ELSE GoTo(w, IF disabled THEN "tls" ELSE "disable")
    /\ UNCHANGED <<public, calm, caddy, locals>>

\* Mutant of Enable: the object is written as for an edge host.
EnablePut(w) ==
    /\ pc[w] = "enable"
    /\ https' = "disabled"
    /\ ToPorts(w)
    /\ UNCHANGED <<public, calm, listen, onDemand, other, locals, alone>>

\* DELETE of automatic_https
Enable(w) ==
    /\ pc[w] = "enable"
    /\ \/ https' = "absent" /\ UNCHANGED alone
       \/ PassedOver(w) /\ UNCHANGED https
    /\ ToPorts(w)
    /\ UNCHANGED <<public, calm, listen, onDemand, other, locals>>

\* PUT of automatic_https, which Caddy refuses where there is one.
Disable(w) ==
    /\ pc[w] = "disable"
    /\ \/ https' = (IF https = "absent" THEN "disabled" ELSE https) /\ UNCHANGED alone
       \/ PassedOver(w) /\ UNCHANGED https
    /\ GoTo(w, "tls")
    /\ UNCHANGED <<public, calm, listen, onDemand, other, locals>>

\* GET of tls/automation
ReadTls(w) ==
    /\ pc[w] = "tls"
    /\ \/ /\ IF onDemand THEN GoTo(w, "untls") ELSE ToPorts(w)
          /\ UNCHANGED alone
       \/ ToPorts(w) /\ PassedOver(w)
    /\ UNCHANGED <<public, calm, caddy, locals>>

\* DELETE of tls/automation
Untls(w) ==
    /\ pc[w] = "untls"
    /\ \/ onDemand' = FALSE /\ UNCHANGED alone
       \/ PassedOver(w) /\ UNCHANGED onDemand
    /\ ToPorts(w)
    /\ UNCHANGED <<public, calm, listen, https, other, locals>>

\* DELETE of one server that was in the way
Free(w) ==
    /\ pc[w] = "ports"
    /\ \E o \in blocking[w] :
         /\ blocking' = [blocking EXCEPT ![w] = @ \ {o}]
         /\ \/ other' = [other EXCEPT ![o] = {}] /\ UNCHANGED alone
            \/ PassedOver(w) /\ UNCHANGED other
    /\ UNCHANGED <<public, calm, listen, https, onDemand, pc, want, fix>>

\* PATCH of the ports of srv0
Listen(w) ==
    /\ pc[w] = "ports"
    /\ blocking[w] = {}
    /\ \/ /\ listen' = IF Clash(Wanted(want[w]), other) THEN listen ELSE Wanted(want[w])
          /\ UNCHANGED alone
       \/ PassedOver(w) /\ UNCHANGED listen
    /\ GoTo(w, "end")
    /\ UNCHANGED <<public, calm, https, onDemand, other, locals>>

\* _prune_stray_routes follows (see Ingress), and the return.
End(w) ==
    /\ pc[w] = "end"
    /\ Return(w)
    /\ UNCHANGED <<public, calm, caddy>>

\* The panel cannot be asked, or a request to Caddy raises an exception, or the
\* answer of the first one has no srv0: the call ends.  A request that was
\* carried out although its answer was lost is its own action before this one.
Fail(w) ==
    /\ ~calm
    /\ pc[w] # "off"
    /\ Return(w)
    /\ UNCHANGED <<public, calm, caddy>>

Pass(w) ==
    \/ Fetch(w) \/ Read(w) \/ ReadHttps(w) \/ Enable(w) \/ Disable(w)
    \/ ReadTls(w) \/ Untls(w) \/ Free(w) \/ Listen(w) \/ End(w) \/ Fail(w)

-----------------------------------------------------------------------------
(* The outside world *)

\* The panel makes the host a public one or an edge one.
PanelChange ==
    /\ ~calm
    /\ public' = ~public
    /\ UNCHANGED <<calm, caddy, pc, locals, alone>>

\* Caddy comes back with a configuration of its own.
CaddyReload ==
    /\ ~calm
    /\ Loaded
    /\ alone' = [w \in Workers |-> FALSE]
    /\ UNCHANGED <<public, calm, pc, locals>>

\* The agent is killed and started again.
AgentRestart ==
    /\ ~calm
    /\ pc' = [w \in Workers |-> IF w = "hook" THEN "read" ELSE "off"]
    /\ want' = [w \in Workers |-> FALSE]
    /\ fix' = [w \in Workers |-> FALSE]
    /\ blocking' = [w \in Workers |-> {}]
    /\ alone' = [w \in Workers |-> FALSE]
    /\ UNCHANGED <<public, calm, caddy>>

\* From here on the panel's answer is fixed and Caddy answers.
Settle ==
    /\ calm' = TRUE
    /\ UNCHANGED <<public, caddy, pc, locals, alone>>

Next ==
    \/ \E w \in Workers : Pass(w)
    \/ PanelChange \/ CaddyReload \/ AgentRestart \/ Settle

Spec == Init /\ [][Next]_vars

\* Every request has a time-out, and the loop sleeps for two minutes at most.
Fairness == \A w \in Workers : WF_vars(Pass(w))

FairSpec == Spec /\ Fairness

-----------------------------------------------------------------------------
(* Properties *)

\* Every variable has its type.  In particular srv0 is never one of the servers
\* to be deleted, and the ports of Caddy's servers never clash.
TypeOK ==
    /\ public \in BOOLEAN /\ calm \in BOOLEAN
    /\ listen \in SUBSET Ports
    /\ https \in Found \cup {"absent", "disabled"}
    /\ onDemand \in BOOLEAN
    /\ other \in [Others -> SUBSET Ports]
    /\ pc \in [Workers -> {"off", "idle", "read", "https", "enable", "disable",
                           "tls", "untls", "ports", "end"}]
    /\ want \in [Workers -> BOOLEAN]
    /\ fix \in [Workers -> BOOLEAN]
    /\ blocking \in [Workers -> SUBSET Others]
    /\ alone \in [Workers -> BOOLEAN]
    /\ ~Clash(listen, other)

\* The mode of a public host, or of an edge host.
InMode(p) ==
    /\ listen = Wanted(p)
    /\ https = "disabled" <=> ~p
    /\ onDemand => p

\* A call that nothing has disturbed since its first read, and none of whose
\* requests was refused for reasons of its own, sets the whole mode at once,
\* whatever configuration it met: also half a mode that racing calls have left.
AloneSets == [][\A w \in Workers : End(w) /\ alone[w] => InMode(want[w])]_vars

\* Under the same condition :443 is opened only with certificates switched on.
OpensSecured ==
    [][\A w \in Workers : Listen(w) /\ want[w] /\ alone[w] => https # "disabled"]_vars

\* Once the outside world is quiet Caddy is in the mode the panel says, and
\* stays in it, although the start-up pass may still work by an old answer.
Converges == <>[]calm => <>[]InMode(public)
=============================================================================
